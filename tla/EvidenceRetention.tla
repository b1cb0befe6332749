--------------------------- MODULE EvidenceRetention ---------------------------
(***************************************************************************)
(* The files behind the observations, and how they are deleted.            *)
(*                                                                         *)
(* A watcher publishes a frame as a file named by its content, appends the *)
(* observation to the journal of its series (vision/observation_writer.py) *)
(* and stores it, which registers the frame.  When it starts it stores the *)
(* last rows of its journal again.  The cleanup (vision_retention.py, run  *)
(* by an operator) scans the files, reads once what refers to them, and    *)
(* retires in the registry and deletes what is old or too much, file by    *)
(* file.  Watchers, the post-match worker and the cleanup run at the same  *)
(* time; only the store has transactions.                                  *)
(***************************************************************************)
EXTENDS Integers, FiniteSets, Sequences

CONSTANTS
    Contents,      \* what a frame may show, naturals in the order of paths
    Series,        \* matches that are watched
    Absent,
    Ttl, Grace,    \* ttl and MIN_CAPACITY_DELETION_AGE
    Capacity,      \* max_unprotected_per_match
    Bucket,        \* AUDIT_WALL_BUCKET_SECONDS
    ReplayLimit,   \* rows of the journal that a start replays
    LastMoment, MaxRows    \* bounds: time, and the rows of a journal

ASSUME RetentionAssumption ==
    /\ Contents \subseteq Nat /\ IsFiniteSet(Contents) /\ Absent \notin Nat
    /\ {Grace, Capacity, LastMoment, MaxRows} \subseteq Nat
    /\ {Ttl, Bucket, ReplayLimit} \subseteq Nat \ {0}

VARIABLES
    moment,
    file,          \* the evidence directory: mtime of a frame's file, or Absent
    registered,    \* vision_frame_artifacts
    retired,       \* vision_frame_artifact_retirements
    stored,        \* vision_observations
    cited,         \* frames of anchors, conflicts, snapshots, invalidations
    journal,       \* the JSONL of a series
    watcher,
    cleanup,
    overtaken      \* for the property: frames that were registered or cited
                   \* while the running cleanup had them in its plan

tables == <<registered, retired, stored, cited, overtaken>>
retentionVars == <<moment, file, tables, journal, watcher, cleanup>>

Down == [pc |-> "down"]
Watching == [pc |-> "watch"]
NoCleanup == [pc |-> "none"]

RetentionInit ==
    /\ moment = 0
    /\ file = [f \in Contents |-> Absent]
    /\ registered = {} /\ retired = {} /\ stored = {} /\ cited = {}
    /\ journal = [s \in Series |-> <<>>]
    /\ watcher = [s \in Series |-> Down]
    /\ cleanup = NoCleanup /\ overtaken = {}

Here == {f \in Contents : file[f] # Absent}

\* active_vision_frame_artifacts
Active == registered \ retired

FramesOf(s) == {r.frame : r \in {q \in stored : q.series = s}}

\* What the running cleanup is still going to delete.
Doomed == IF cleanup.pc \in {"retire", "unlink"} THEN cleanup.plan ELSE {}

-----------------------------------------------------------------------------
(* The store.                                                              *)

\* register_vision_frame_artifact: the file is verified, and no retirement.
Accepts(f) == f \in Here \ retired

\* insert_vision_observation.  Some frames of the series are referred to from
\* now on, by the anchor, a conflict or a snapshot; which ones is a matter of
\* DraftAnchor.
StoreObservation(r) ==
    /\ Accepts(r.frame)
    /\ registered' = registered \cup {r.frame}
    /\ stored' = stored \cup {r}
    /\ \E some \in SUBSET (FramesOf(r.series) \cup {r.frame}) :
        cited' = cited \cup some
    /\ overtaken' = overtaken \cup (Doomed \cap
                        ((registered' \ registered) \cup (cited' \ cited)))
    /\ UNCHANGED retired

\* The post-match worker invalidates the observations of a map that was not
\* played.
ExcludeSeries(s) ==
    /\ FramesOf(s) \ cited # {}
    /\ cited' = cited \cup FramesOf(s)
    /\ overtaken' = overtaken \cup (Doomed \cap (cited' \ cited))
    /\ UNCHANGED <<moment, file, registered, retired, stored, journal, watcher,
                   cleanup>>

-----------------------------------------------------------------------------
(* A watcher.                                                              *)

Proceed(s, state) == watcher' = [watcher EXCEPT ![s] = state]

\* The replay takes the last rows of the journal.
StartWatcher(s) ==
    /\ watcher[s] = Down
    /\ LET n == Len(journal[s])
           first == IF n > ReplayLimit THEN n - ReplayLimit + 1 ELSE 1
       IN  Proceed(s, [pc |-> "replay", left |-> SubSeq(journal[s], first, n)])
    /\ UNCHANGED <<moment, file, tables, journal, cleanup>>

\* A row whose frame is not accepted raises what nothing catches.
ReplayRow(s) ==
    /\ watcher[s].pc = "replay"
    /\ LET left == watcher[s].left
       IN  \/ left = <<>> /\ Proceed(s, Watching) /\ UNCHANGED tables
           \/ /\ left # <<>> /\ StoreObservation(Head(left))
              /\ Proceed(s, [watcher[s] EXCEPT !.left = Tail(left)])
           \/ /\ left # <<>> /\ ~Accepts(Head(left).frame)
              /\ Proceed(s, Down) /\ UNCHANGED tables
    /\ UNCHANGED <<moment, file, journal, cleanup>>

\* publish_vision_frame_bytes: a file that is there already stays as it is.
Publish(s, f) ==
    /\ watcher[s] = Watching /\ Len(journal[s]) < MaxRows
    /\ file' = [file EXCEPT ![f] = IF f \in Here THEN @ ELSE moment]
    /\ Proceed(s, [pc |-> "append",
                   row |-> [series |-> s, at |-> moment, frame |-> f]])
    /\ UNCHANGED <<moment, tables, journal, cleanup>>

\* ObservationWriter.append: the journal first, then the store.
AppendRow(s) ==
    /\ watcher[s].pc = "append"
    /\ journal' = [journal EXCEPT ![s] = Append(@, watcher[s].row)]
    /\ Proceed(s, [watcher[s] EXCEPT !.pc = "store"])
    /\ UNCHANGED <<moment, file, tables, cleanup>>

StoreRow(s) ==
    /\ watcher[s].pc = "store"
    /\ \/ StoreObservation(watcher[s].row) /\ Proceed(s, Watching)
       \/ /\ ~Accepts(watcher[s].row.frame)
          /\ Proceed(s, Down) /\ UNCHANGED tables
    /\ UNCHANGED <<moment, file, journal, cleanup>>

WatcherDies(s) ==
    /\ watcher[s] # Down
    /\ Proceed(s, Down)
    /\ UNCHANGED <<moment, file, tables, journal, cleanup>>

-----------------------------------------------------------------------------
(* prune_vision_evidence, with --delete.                                   *)

\* now, then the files with their times.
ScanFiles ==
    /\ cleanup = NoCleanup
    /\ cleanup' = [pc |-> "read", at |-> moment,
                   found |-> [f \in Here |-> file[f]]]
    /\ UNCHANGED <<moment, file, tables, journal, watcher>>

\* Rows whose frame is active and was found, as far as it matters.
Seen == {r \in stored : r.frame \in Active \cap DOMAIN cleanup.found}

\* _observation_metadata: the first row of each bucket of a series is kept.
Audit ==
    {r.frame : r \in {q \in Seen : \A p \in Seen :
        p.series = q.series /\ p.at \div Bucket = q.at \div Bucket
            => \/ q.at < p.at
               \/ q.at = p.at /\ q.frame <= p.frame}}

\* When the frame was captured first, or else the time of the file.
CapturedFirst(f) ==
    LET times == {r.at : r \in {q \in Seen : q.frame = f}}
    IN  IF times = {} THEN cleanup.found[f]
        ELSE CHOOSE t \in times : \A u \in times : t <= u

\* Mutant: what an invalidation or a conflict refers to is not protected.
Mutant_Unprotected == DOMAIN cleanup.found \ Audit

Unprotected == DOMAIN cleanup.found \ (Audit \cup (cited \cap Active))

\* Expired, or beyond the capacity and old enough.  The capacity is meant for a
\* match; but all files lie below one directory, which is taken for the match.
ToDelete ==
    LET newer(f) == {g \in Unprotected :
                        \/ CapturedFirst(g) > CapturedFirst(f)
                        \/ CapturedFirst(g) = CapturedFirst(f) /\ g > f}
    IN  {f \in Unprotected :
            LET age == cleanup.at - CapturedFirst(f)
            IN  \/ age >= Ttl
                \/ Cardinality(newer(f)) >= Capacity /\ age >= Grace}

\* One transaction reads all; an active frame without its file ends the cleanup.
ReadReferences ==
    /\ cleanup.pc = "read"
    /\ cleanup' = IF Active \subseteq Here
                  THEN [pc |-> "retire", found |-> cleanup.found,
                        active |-> Active, plan |-> ToDelete, frame |-> Absent]
                  ELSE NoCleanup
    /\ UNCHANGED <<moment, file, tables, journal, watcher>>

\* A frame that was active when the references were read is retired first.  The
\* registry checks its file and its audit, not who refers to it by now.
RetireFrame(f) ==
    /\ cleanup.pc = "retire" /\ f \in cleanup.plan
    /\ retired' = retired \cup ({f} \cap cleanup.active)
    /\ cleanup' = [cleanup EXCEPT !.pc = "unlink", !.frame = f]
    /\ UNCHANGED <<moment, file, registered, stored, cited, overtaken, journal,
                   watcher>>

UnlinkFile ==
    /\ cleanup.pc = "unlink"
    /\ file' = [file EXCEPT ![cleanup.frame] = Absent]
    /\ cleanup' = [cleanup EXCEPT !.pc = "retire", !.frame = Absent,
                                  !.plan = @ \ {cleanup.frame}]
    /\ UNCHANGED <<moment, tables, journal, watcher>>

\* It has deleted all it planned, or it is killed.
EndCleanup ==
    /\ cleanup # NoCleanup
    /\ cleanup' = NoCleanup /\ overtaken' = {}
    /\ UNCHANGED <<moment, file, registered, retired, stored, cited, journal,
                   watcher>>

TimePasses ==
    /\ moment < LastMoment
    /\ moment' = moment + 1
    /\ UNCHANGED <<file, tables, journal, watcher, cleanup>>

RetentionNext ==
    \/ \E s \in Series :
        \/ StartWatcher(s) \/ ReplayRow(s) \/ AppendRow(s) \/ StoreRow(s)
        \/ WatcherDies(s) \/ ExcludeSeries(s)
        \/ \E f \in Contents : Publish(s, f)
    \/ ScanFiles \/ ReadReferences \/ UnlinkFile \/ EndCleanup
    \/ \E f \in Contents : RetireFrame(f)
    \/ TimePasses

RetentionSpec == RetentionInit /\ [][RetentionNext]_retentionVars

-----------------------------------------------------------------------------
(* Properties.                                                             *)

JournalRow == [series: Series, at: Nat, frame: Contents]

\* The tables, the journals and the processes have their types; what is referred
\* to or retired has been registered.
RetentionTypeOK ==
    /\ moment \in 0 .. LastMoment
    /\ file \in [Contents -> Nat \cup {Absent}]
    /\ registered \subseteq Contents /\ retired \subseteq registered
    /\ cited \subseteq registered /\ overtaken \subseteq Contents
    /\ stored \subseteq JournalRow
    /\ \A r \in stored : r.frame \in registered
    /\ journal \in [Series -> Seq(JournalRow)]
    /\ \A s \in Series :
        \/ watcher[s] \in {Down, Watching}
        \/ watcher[s].pc = "replay" /\ watcher[s].left \in Seq(JournalRow)
        \/ /\ watcher[s].pc \in {"append", "store"}
           /\ watcher[s].row \in JournalRow
    /\ \/ cleanup.pc \in {"none", "read"}
       \/ /\ cleanup.pc \in {"retire", "unlink"}
          /\ cleanup.plan \subseteq DOMAIN cleanup.found
          /\ cleanup.pc = "unlink" => cleanup.frame \in cleanup.plan

\* The cleanup keeps the lineage (prune_vision_evidence): it retires no frame
\* that something refers to, and the file of a frame that the registry lists as
\* active stays, wherever a watcher or the cleanup dies.  Only a frame that is
\* registered or referred to for the first time after the cleanup has read the
\* references, and before its turn has come, is not protected.
LineageIsKept ==
    [][\A f \in Contents \ overtaken :
        /\ f \in retired' \ retired => f \notin cited
        /\ f \in Here \ Here' => f \notin Active]_retentionVars
=============================================================================
