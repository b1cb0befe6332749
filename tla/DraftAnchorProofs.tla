--------------------------- MODULE DraftAnchorProofs ---------------------------
(***************************************************************************)
(* Proofs about DraftAnchor, for every set of frames and of watchers,      *)
(* whatever the frames show and in whatever order they arrive.             *)
(*                                                                         *)
(* A rebuild does not see what the frames showed, but what the anchor, the *)
(* recorded conflicts and the confirmed observations have kept of it: the  *)
(* view.  The argument compares two functions on the same frames, the view *)
(* and the truth.  A rebuild on rows that have changed since breaks the    *)
(* anchor, but forgets no frame: the view still covers the truth, and the  *)
(* next rebuild restores the anchor from it.                               *)
(***************************************************************************)
EXTENDS DraftAnchor, WellFoundedInduction, TLAPS

\* Functions from a non-empty set of frames to what they show.
Showings(S) == [S -> Shown]

CutoffOf(c) == IF Clashing(c) = {} THEN Never ELSE CapturedAt[First(Clashing(c))]

\* k is not older than some clash of c.
Late(k, c) == \E j \in Clashing(c) : CapturedAt[j] <= CapturedAt[k]

\* c with one more frame.
With(c, f, shown) == [k \in DOMAIN c \cup {f} |-> IF k = f THEN shown ELSE c[k]]

-----------------------------------------------------------------------------
(* The operators.                                                          *)

\* A non-empty set of natural numbers has a least element.
LEMMA LeastNatural ==
    ASSUME NEW S \in SUBSET Nat, S # {}
    PROVE  \E f \in S : \A g \in S : f <= g
  <1>1. PICK f \in S : \A g \in S : <<g, f>> \notin OpToRel(<, Nat)
    BY NatLessThanWellFounded, WFMin
  <1>2. \A g \in S : ~(g < f)
    BY <1>1 DEF OpToRel
  <1> QED
    BY <1>2

\* A frame of an earlier number was not captured later.
LEMMA InOrder ==
    ASSUME NEW m \in Frames, NEW g \in Frames, m <= g
    PROVE  CapturedAt[m] <= CapturedAt[g]
  <1>1. m \in Nat /\ g \in Nat /\ CapturedAt[g] \in Nat
    BY FrameAssumption
  <1>2. m = g \/ m < g
    BY <1>1
  <1> QED
    BY <1>1, <1>2, FrameAssumption

\* The first of a set of frames is one of them, and none comes before it.
LEMMA FirstIs ==
    ASSUME NEW S \in SUBSET Frames, S # {}
    PROVE  /\ First(S) \in S
           /\ \A g \in S : First(S) <= g /\ CapturedAt[First(S)] <= CapturedAt[g]
  <1>1. S \subseteq Nat
    BY FrameAssumption
  <1>2. \E f \in S : \A g \in S : f <= g
    BY <1>1, LeastNatural
  <1>3. First(S) \in S /\ \A g \in S : First(S) <= g
    BY <1>2 DEF First
  <1> QED
    BY <1>3, InOrder

\* What the operators of a rebuild say of a function on the frames S.
LEMMA RebuildReads ==
    ASSUME NEW S \in SUBSET Frames, S # {}, NEW c \in Showings(S)
    PROVE  /\ Canonical(c) = First(S) /\ First(S) \in S
           /\ \A k \in S : c[k].draft \in Drafts /\ c[k].side \in ShownSides
           /\ Sided(c) = {k \in S : /\ c[k].side # "none"
                                    /\ c[k].draft = c[First(S)].draft}
           /\ Sided(c) # {} => /\ SideFrame(c) = First(Sided(c))
                               /\ First(Sided(c)) \in Sided(c)
                               /\ \A k \in Sided(c) : First(Sided(c)) <= k
                               /\ Side(c) = c[First(Sided(c))].side
           /\ Sided(c) = {} => Side(c) = "none" /\ SideFrame(c) = NoFrame
           /\ Side(c) \in ShownSides
           /\ Clashing(c) = {k \in S : \/ c[k].draft # c[First(S)].draft
                                       \/ c[k].side \notin {"none", Side(c)}}
           /\ First(S) \notin Clashing(c)
  <1>1. DOMAIN c = S /\ \A k \in S : c[k] \in Shown
    BY DEF Showings
  <1>2. Canonical(c) = First(S) /\ First(S) \in S /\ \A k \in S : First(S) <= k
    BY <1>1, FirstIs DEF Canonical
  <1>3. \A k \in S : c[k].draft \in Drafts /\ c[k].side \in ShownSides
    BY <1>1 DEF Shown
  <1>4. Sided(c) = {k \in S : /\ c[k].side # "none"
                              /\ c[k].draft = c[First(S)].draft}
    BY <1>1, <1>2 DEF Sided
  <1>5. Sided(c) # {} => /\ SideFrame(c) = First(Sided(c))
                         /\ First(Sided(c)) \in Sided(c)
                         /\ \A k \in Sided(c) : First(Sided(c)) <= k
                         /\ Side(c) = c[First(Sided(c))].side
    <2>1. Sided(c) \in SUBSET Frames
      BY <1>4
    <2> QED
      BY <2>1, FirstIs, FrameAssumption DEF SideFrame, Side
  <1>6. Sided(c) = {} => Side(c) = "none" /\ SideFrame(c) = NoFrame
    BY DEF Side, SideFrame
  <1>7. Side(c) \in ShownSides
    BY <1>3, <1>4, <1>5, <1>6 DEF ShownSides
  <1>8. Clashing(c) = {k \in S : \/ c[k].draft # c[First(S)].draft
                                 \/ c[k].side \notin {"none", Side(c)}}
    BY <1>1, <1>2 DEF Clashing
  <1>9. First(S) \notin Clashing(c)
    <2>1. ASSUME c[First(S)].side # "none" PROVE Side(c) = c[First(S)].side
      <3>1. First(S) \in Sided(c)
        BY <1>2, <1>4, <2>1
      <3>2. First(Sided(c)) \in S /\ First(Sided(c)) <= First(S)
        BY <1>4, <1>5, <3>1
      <3>3. First(S) <= First(Sided(c))
        BY <1>2, <3>2
      <3>4. First(S) \in Nat /\ First(Sided(c)) \in Nat
        BY <1>2, <3>2, FrameAssumption
      <3>5. First(Sided(c)) = First(S)
        BY <3>2, <3>3, <3>4
      <3> QED
        BY <1>5, <3>1, <3>5
    <2> QED
      BY <1>8, <2>1
  <1> QED
    BY <1>2, <1>3, <1>4, <1>5, <1>6, <1>7, <1>8, <1>9

\* Late is what the comparison with the cutoff decides.
LEMMA CutoffIs ==
    ASSUME NEW S \in SUBSET Frames, S # {}, NEW c \in Showings(S)
    PROVE  /\ CutoffOf(c) \in Nat \cup {Never}
           /\ CutoffOf(c) = Never <=> Clashing(c) = {}
           /\ \A k \in Frames : Before(k, CutoffOf(c)) <=> ~Late(k, c)
  <1>1. Clashing(c) \in SUBSET Frames
    BY RebuildReads
  <1>2. CASE Clashing(c) = {}
    BY <1>2 DEF CutoffOf, Before, Late
  <1>3. CASE Clashing(c) # {}
    <2> DEFINE m == First(Clashing(c))
    <2>1. m \in Clashing(c) /\ \A j \in Clashing(c) : CapturedAt[m] <= CapturedAt[j]
      BY <1>1, <1>3, FirstIs
    <2>2. CutoffOf(c) = CapturedAt[m]
      BY <1>3 DEF CutoffOf
    <2> HIDE DEF m
    <2>3. CapturedAt[m] \in Nat /\ CapturedAt[m] # Never
      BY <1>1, <2>1, FrameAssumption
    <2>4. ASSUME NEW k \in Frames
          PROVE  Before(k, CutoffOf(c)) <=> ~Late(k, c)
      <3>1. \A j \in Clashing(c) : CapturedAt[j] \in Nat
        BY <1>1, FrameAssumption
      <3>2. CapturedAt[k] \in Nat
        BY FrameAssumption
      <3>3. Before(k, CutoffOf(c)) <=> CapturedAt[k] < CapturedAt[m]
        BY <2>2, <2>3 DEF Before
      <3>4. Late(k, c) <=> CapturedAt[m] <= CapturedAt[k]
        BY <2>1, <2>3, <3>1, <3>2 DEF Late
      <3> QED
        BY <2>3, <3>2, <3>3, <3>4
    <2> QED
      BY <1>3, <2>2, <2>3, <2>4
  <1> QED
    BY <1>2, <1>3

\* A frame that is delivered again adds nothing.
LEMMA SameAgain ==
    ASSUME NEW S, NEW c \in Showings(S), NEW f \in S
    PROVE  With(c, f, c[f]) = c
  BY DEF With, Showings

\* One more frame never moves the first clash to a later frame.
LEMMA ClashStays ==
    ASSUME NEW S \in SUBSET Frames, S # {}, NEW c \in Showings(S),
           NEW f \in Frames \ S, NEW shown \in Shown, NEW j \in Clashing(c)
    PROVE  \E i \in Clashing(With(c, f, shown)) : i <= j
  <1> DEFINE d == With(c, f, shown)
             T == S \cup {f}
  <1>1. /\ T \in SUBSET Frames /\ T # {} /\ d \in Showings(T)
        /\ \A k \in S : d[k] = c[k]
    BY DEF With, Showings
  <1> HIDE DEF d, T
  <1>2. First(S) \in S /\ \A k \in S : First(S) <= k
    BY FirstIs
  <1>3. First(T) \in T
    BY <1>1, FirstIs
  <1>4. /\ Clashing(c) = {k \in S : \/ c[k].draft # c[First(S)].draft
                                    \/ c[k].side \notin {"none", Side(c)}}
        /\ Sided(c) = {k \in S : /\ c[k].side # "none"
                                 /\ c[k].draft = c[First(S)].draft}
        /\ Sided(c) # {} => /\ First(Sided(c)) \in Sided(c)
                            /\ \A k \in Sided(c) : First(Sided(c)) <= k
                            /\ Side(c) = c[First(Sided(c))].side
    BY RebuildReads
  <1>5. Clashing(d) = {k \in T : \/ d[k].draft # d[First(T)].draft
                                 \/ d[k].side \notin {"none", Side(d)}}
    BY <1>1, RebuildReads
  <1>6. S \subseteq T /\ S \subseteq Nat /\ j \in S
    BY <1>4, FrameAssumption DEF T
  <1>7. CASE d[First(T)].draft # c[First(S)].draft
    <2>1. First(S) \in Clashing(d)
      BY <1>1, <1>2, <1>5, <1>6, <1>7
    <2> QED
      BY <1>2, <1>6, <2>1 DEF d
  <1>8. CASE d[First(T)].draft = c[First(S)].draft
    <2>1. CASE c[j].draft # c[First(S)].draft
      <3>1. j \in Clashing(d) /\ j <= j
        BY <1>1, <1>5, <1>6, <1>8, <2>1
      <3> QED
        BY <3>1 DEF d
    <2>2. CASE c[j].draft = c[First(S)].draft
      <3>1. j \in Sided(c) /\ c[j].side # Side(c) /\ c[j].side # "none"
        BY <1>4, <1>6, <2>2
      <3> DEFINE s == First(Sided(c))
      <3>2. s \in S /\ s <= j /\ c[s].side # "none" /\ c[s].side = Side(c)
        BY <1>4, <3>1
      <3> HIDE DEF s
      <3>3. j \in Clashing(d) \/ s \in Clashing(d)
        BY <1>1, <1>5, <1>6, <3>1, <3>2
      <3>4. j <= j
        BY <1>6
      <3> QED
        BY <3>2, <3>3, <3>4 DEF d
    <2> QED
      BY <2>1, <2>2
  <1> QED
    BY <1>7, <1>8

\* So what is too late for a cutoff is too late for every later one.
LEMMA LateStays ==
    ASSUME NEW S \in SUBSET Frames, S # {}, NEW c \in Showings(S),
           NEW f \in Frames, NEW shown \in Shown, f \in S => shown = c[f],
           NEW k \in Frames, Late(k, c)
    PROVE  Late(k, With(c, f, shown))
  <1> DEFINE d == With(c, f, shown)
  <1>0. SUFFICES ASSUME f \notin S PROVE Late(k, d)
    BY SameAgain
  <1>1. PICK j \in Clashing(c) : CapturedAt[j] <= CapturedAt[k]
    BY DEF Late
  <1>2. PICK i \in Clashing(d) : i <= j
    BY <1>0, ClashStays
  <1>3. d \in Showings(S \cup {f})
    BY DEF With, Showings
  <1>4. i \in Frames /\ j \in Frames
    <2>1. Clashing(c) \subseteq S
      BY RebuildReads
    <2>2. Clashing(d) \subseteq S \cup {f}
      BY <1>3, RebuildReads
    <2> QED
      BY <1>1, <1>2, <2>1, <2>2
  <1>5. CapturedAt[i] <= CapturedAt[j]
    BY <1>2, <1>4, InOrder
  <1>6. CapturedAt[i] \in Nat /\ CapturedAt[j] \in Nat /\ CapturedAt[k] \in Nat
    BY <1>4, FrameAssumption
  <1>7. CapturedAt[i] <= CapturedAt[k]
    BY <1>1, <1>5, <1>6
  <1> QED
    BY <1>2, <1>7 DEF Late

-----------------------------------------------------------------------------
(* Two functions that differ only in sides that come too late.             *)

\* c and d show the same drafts of the frames S, and the same sides but where
\* both come too late.
Alike(S, c, d) ==
    /\ c \in Showings(S) /\ d \in Showings(S)
    /\ \A k \in S : c[k].draft = d[k].draft
    /\ \A k \in S : c[k].side = d[k].side \/ (Late(k, c) /\ Late(k, d))

\* Which of the two comes first does not matter.
LEMMA AlikeSymmetric ==
    ASSUME NEW S, NEW c, NEW d, Alike(S, c, d) PROVE Alike(S, d, c)
  BY DEF Alike

\* ShownSides that come too late change nothing for the frames that do not: such a
\* frame has a side in both or in none, and the first side is the same.
LEMMA EarlySide ==
    ASSUME NEW S \in SUBSET Frames, S # {}, NEW c, NEW d, Alike(S, c, d),
           NEW j \in Sided(c), ~Late(j, d) \/ ~Late(j, c)
    PROVE  /\ j \in Sided(d) /\ First(Sided(c)) = First(Sided(d))
           /\ Side(c) = Side(d) /\ c[j].side = d[j].side
  <1>1. c \in Showings(S) /\ d \in Showings(S)
    BY DEF Alike
  <1>2. /\ First(S) \in S
        /\ Sided(c) = {k \in S : /\ c[k].side # "none"
                                 /\ c[k].draft = c[First(S)].draft}
        /\ Sided(c) # {} => /\ First(Sided(c)) \in Sided(c)
                            /\ \A k \in Sided(c) : First(Sided(c)) <= k
                            /\ Side(c) = c[First(Sided(c))].side
    BY <1>1, RebuildReads
  <1>3. /\ Sided(d) = {k \in S : /\ d[k].side # "none"
                                 /\ d[k].draft = d[First(S)].draft}
        /\ Sided(d) # {} => /\ First(Sided(d)) \in Sided(d)
                            /\ \A k \in Sided(d) : First(Sided(d)) <= k
                            /\ Side(d) = d[First(Sided(d))].side
    BY <1>1, RebuildReads
  <1>4. ASSUME NEW k \in S, k <= j PROVE c[k].side = d[k].side
    <2>1. CapturedAt[k] <= CapturedAt[j]
      BY <1>2, <1>4, InOrder
    <2>2. /\ \A i \in Clashing(c) : CapturedAt[i] \in Nat
          /\ \A i \in Clashing(d) : CapturedAt[i] \in Nat
      <3>1. Clashing(c) \subseteq S /\ Clashing(d) \subseteq S
        BY <1>1, RebuildReads
      <3> QED
        BY <3>1, FrameAssumption
    <2>3. CapturedAt[k] \in Nat /\ CapturedAt[j] \in Nat
      BY <1>2, FrameAssumption
    <2>4. ~(Late(k, c) /\ Late(k, d))
      BY <2>1, <2>2, <2>3 DEF Late
    <2> QED
      BY <2>4 DEF Alike
  <1>5. \A k \in S : c[k].draft = d[k].draft
    BY DEF Alike
  <1>6. j \in S /\ j \in Nat
    BY <1>2, FrameAssumption
  <1>7. j \in Sided(d) /\ c[j].side = d[j].side
    <2>1. j <= j
      BY <1>6
    <2>2. c[j].side = d[j].side
      BY <1>4, <1>6, <2>1
    <2>3. c[j].side # "none" /\ c[j].draft = c[First(S)].draft
      BY <1>2
    <2>4. d[j].draft = c[j].draft /\ d[First(S)].draft = c[First(S)].draft
      BY <1>2, <1>5, <1>6
    <2> QED
      BY <1>3, <1>6, <2>2, <2>3, <2>4
  <1> DEFINE s == First(Sided(c))
             z == First(Sided(d))
  <1>8. s \in Sided(c) /\ s <= j /\ z \in Sided(d) /\ z <= j
    BY <1>2, <1>3, <1>7
  <1>9. s \in Sided(d) /\ z \in Sided(c) /\ c[s].side = d[s].side
    BY <1>2, <1>3, <1>4, <1>5, <1>8
  <1>10. s <= z /\ z <= s
    BY <1>2, <1>3, <1>8, <1>9
  <1>11. s \in Nat /\ z \in Nat
    BY <1>2, <1>3, <1>8, FrameAssumption
  <1>12. s = z
    BY <1>10, <1>11
  <1>13. Side(c) = c[s].side /\ Side(d) = d[z].side
    BY <1>2, <1>3, <1>8
  <1> QED
    BY <1>7, <1>9, <1>12, <1>13

\* They clash at the same moment.
LEMMA ClashAlike ==
    ASSUME NEW S \in SUBSET Frames, S # {}, NEW c, NEW d, Alike(S, c, d),
           NEW j \in Clashing(c)
    PROVE  Late(j, d)
  <1> SUFFICES ASSUME ~Late(j, d) PROVE j \in Clashing(d)
    <2>1. j \in Frames
      BY RebuildReads DEF Alike
    <2>2. CapturedAt[j] <= CapturedAt[j]
      BY <2>1, FrameAssumption
    <2> QED
      BY <2>2 DEF Late
  <1>1. c \in Showings(S) /\ d \in Showings(S)
    BY DEF Alike
  <1>2. /\ First(S) \in S
        /\ Sided(c) = {k \in S : /\ c[k].side # "none"
                                 /\ c[k].draft = c[First(S)].draft}
        /\ Clashing(c) = {k \in S : \/ c[k].draft # c[First(S)].draft
                                    \/ c[k].side \notin {"none", Side(c)}}
    BY <1>1, RebuildReads
  <1>3. Clashing(d) = {k \in S : \/ d[k].draft # d[First(S)].draft
                                 \/ d[k].side \notin {"none", Side(d)}}
    BY <1>1, RebuildReads
  <1>4. \A k \in S : c[k].draft = d[k].draft
    BY DEF Alike
  <1>5. CASE c[j].draft # c[First(S)].draft
    BY <1>2, <1>3, <1>4, <1>5
  <1>6. CASE c[j].draft = c[First(S)].draft
    <2>1. j \in Sided(c) /\ c[j].side \notin {"none", Side(c)}
      BY <1>2, <1>6
    <2>2. Side(c) = Side(d) /\ c[j].side = d[j].side
      BY <2>1, EarlySide
    <2> QED
      BY <1>2, <1>3, <2>1, <2>2
  <1> QED
    BY <1>5, <1>6

\* So the same frames are late in both, and the cutoff is the same.
LEMMA SameCutoff ==
    ASSUME NEW S \in SUBSET Frames, S # {}, NEW c, NEW d, Alike(S, c, d)
    PROVE  /\ \A k \in Frames : Late(k, c) <=> Late(k, d)
           /\ CutoffOf(c) = CutoffOf(d)
  <1>1. ASSUME NEW a, NEW b, Alike(S, a, b), NEW k \in Frames, Late(k, a)
        PROVE  Late(k, b)
    <2>1. PICK j \in Clashing(a) : CapturedAt[j] <= CapturedAt[k]
      BY <1>1 DEF Late
    <2>2. PICK i \in Clashing(b) : CapturedAt[i] <= CapturedAt[j]
      BY <1>1, ClashAlike DEF Late
    <2>3. i \in Frames /\ j \in Frames
      <3>1. Clashing(a) \subseteq S /\ Clashing(b) \subseteq S
        BY <1>1, RebuildReads DEF Alike
      <3> QED
        BY <2>1, <2>2, <3>1
    <2>4. CapturedAt[i] <= CapturedAt[k]
      BY <2>1, <2>2, <2>3, FrameAssumption
    <2> QED
      BY <2>2, <2>4 DEF Late
  <1>2. \A k \in Frames : Late(k, c) <=> Late(k, d)
    BY <1>1, AlikeSymmetric
  <1>3. Clashing(c) \subseteq S /\ Clashing(d) \subseteq S
    BY RebuildReads DEF Alike
  <1>4. Clashing(c) = {} <=> Clashing(d) = {}
    <2>1. ASSUME NEW j \in Clashing(c) PROVE Clashing(d) # {}
      BY <2>1, ClashAlike DEF Late
    <2>2. ASSUME NEW j \in Clashing(d) PROVE Clashing(c) # {}
      BY <2>2, ClashAlike, AlikeSymmetric DEF Late
    <2> QED
      BY <2>1, <2>2
  <1>5. CASE Clashing(c) = {}
    BY <1>2, <1>4, <1>5 DEF CutoffOf
  <1>6. CASE Clashing(c) # {}
    <2> DEFINE m == First(Clashing(c))
               n == First(Clashing(d))
    <2>1. /\ m \in Clashing(c) /\ n \in Clashing(d)
          /\ \A j \in Clashing(c) : CapturedAt[m] <= CapturedAt[j]
          /\ \A j \in Clashing(d) : CapturedAt[n] <= CapturedAt[j]
      BY <1>3, <1>4, <1>6, FirstIs
    <2>2. PICK i \in Clashing(d) : CapturedAt[i] <= CapturedAt[m]
      BY <2>1, ClashAlike DEF Late
    <2>3. PICK j \in Clashing(c) : CapturedAt[j] <= CapturedAt[n]
      BY <2>1, ClashAlike, AlikeSymmetric DEF Late
    <2> HIDE DEF m, n
    <2>4. /\ CapturedAt[m] \in Nat /\ CapturedAt[n] \in Nat
          /\ CapturedAt[i] \in Nat /\ CapturedAt[j] \in Nat
      BY <1>3, <2>1, <2>2, <2>3, FrameAssumption
    <2>5. CapturedAt[m] = CapturedAt[n]
      BY <2>1, <2>2, <2>3, <2>4
    <2> QED
      BY <1>2, <1>4, <1>6, <2>5 DEF CutoffOf, m, n
  <1> QED
    BY <1>2, <1>5, <1>6

\* A set of frames has only one first frame.
LEMMA FirstUnique ==
    ASSUME NEW S \in SUBSET Frames, NEW m \in S, \A g \in S : m <= g
    PROVE  First(S) = m
  <1>1. First(S) \in S /\ First(S) <= m /\ m <= First(S)
    BY FirstIs
  <1>2. First(S) \in Nat /\ m \in Nat
    BY <1>1, FrameAssumption
  <1> QED
    BY <1>1, <1>2

\* c shows what d shows, and a side for some of the frames that come too late
\* and show none.
Above(S, c, d) ==
    /\ c \in Showings(S) /\ d \in Showings(S)
    /\ \A k \in S : c[k].draft = d[k].draft
    /\ \A k \in S : \/ c[k].side = d[k].side
                    \/ d[k].side = "none" /\ Late(k, d)

\* A side more makes no clash disappear.
LEMMA AboveClashes ==
    ASSUME NEW S \in SUBSET Frames, S # {}, NEW c, NEW d, Above(S, c, d),
           NEW j \in Clashing(d)
    PROVE  \E i \in Clashing(c) : i <= j
  <1>1. c \in Showings(S) /\ d \in Showings(S)
    BY DEF Above
  <1>2. /\ First(S) \in S
        /\ Sided(d) = {k \in S : /\ d[k].side # "none"
                                 /\ d[k].draft = d[First(S)].draft}
        /\ Sided(d) # {} => /\ First(Sided(d)) \in Sided(d)
                            /\ \A k \in Sided(d) : First(Sided(d)) <= k
                            /\ Side(d) = d[First(Sided(d))].side
        /\ Clashing(d) = {k \in S : \/ d[k].draft # d[First(S)].draft
                                    \/ d[k].side \notin {"none", Side(d)}}
    BY <1>1, RebuildReads
  <1>3. Clashing(c) = {k \in S : \/ c[k].draft # c[First(S)].draft
                                 \/ c[k].side \notin {"none", Side(c)}}
    BY <1>1, RebuildReads
  <1>4. \A k \in S : /\ c[k].draft = d[k].draft
                     /\ d[k].side # "none" => c[k].side = d[k].side
    BY DEF Above
  <1>5. j \in S /\ j <= j
    <2>1. j \in S
      BY <1>2
    <2>2. j \in Nat
      BY <2>1, FrameAssumption
    <2> QED
      BY <2>1, <2>2
  <1>6. CASE d[j].draft # d[First(S)].draft
    BY <1>2, <1>3, <1>4, <1>5, <1>6
  <1>7. CASE d[j].draft = d[First(S)].draft
    <2>1. j \in Sided(d) /\ d[j].side # Side(d) /\ d[j].side # "none"
      BY <1>2, <1>5, <1>7
    <2> DEFINE s == First(Sided(d))
    <2>2. s \in S /\ s <= j /\ d[s].side # "none" /\ d[s].side = Side(d)
      BY <1>2, <2>1
    <2> HIDE DEF s
    <2>3. c[j].side = d[j].side /\ c[s].side = d[s].side
      BY <1>4, <1>5, <2>1, <2>2
    <2>4. j \in Clashing(c) \/ s \in Clashing(c)
      BY <1>3, <1>5, <2>1, <2>2, <2>3
    <2> QED
      BY <1>5, <2>2, <2>4
  <1> QED
    BY <1>6, <1>7

\* So the two are alike.
LEMMA AboveAlike ==
    ASSUME NEW S \in SUBSET Frames, S # {}, NEW c, NEW d, Above(S, c, d)
    PROVE  Alike(S, c, d)
  <1>1. ASSUME NEW k \in S, Late(k, d) PROVE Late(k, c)
    <2>1. PICK j \in Clashing(d) : CapturedAt[j] <= CapturedAt[k]
      BY <1>1 DEF Late
    <2>2. PICK i \in Clashing(c) : i <= j
      BY AboveClashes
    <2>3. i \in Frames /\ j \in Frames /\ k \in Frames
      <3>1. Clashing(c) \subseteq S /\ Clashing(d) \subseteq S
        BY RebuildReads DEF Above
      <3> QED
        BY <2>1, <2>2, <3>1
    <2>4. CapturedAt[i] <= CapturedAt[j]
      BY <2>2, <2>3, InOrder
    <2>5. CapturedAt[i] <= CapturedAt[k]
      BY <2>1, <2>3, <2>4, FrameAssumption
    <2> QED
      BY <2>2, <2>5 DEF Late
  <1> QED
    BY <1>1 DEF Above, Alike

-----------------------------------------------------------------------------
(* What is true of some of the frames.                                     *)

\* An entry says of a frame what t says, or gives a side to a frame that shows
\* none and comes too late.
Entry(k, e, t) ==
    /\ e.draft = t[k].draft
    /\ e.side = t[k].side \/ (t[k].side = "none" /\ Late(k, t))

TrueOf(c, t) ==
    /\ DOMAIN c \subseteq DOMAIN t
    /\ \A k \in DOMAIN c : Entry(k, c[k], t)

\* An anchor that may be out of date, but says nothing that is not so.
Founded(a, t) ==
    /\ a.frame \in DOMAIN t
    /\ a.draft = t[a.frame].draft
    /\ t[a.frame].side # "none" => a.side = t[a.frame].side
    /\ a.status = "conflict" =>
        /\ a.conflictAt \in Nat /\ CapturedAt[a.frame] < a.conflictAt
        /\ \E j \in Clashing(t) : CapturedAt[j] <= a.conflictAt

\* Of frames that are true of t, those that clash are late in t.
LEMMA TrueClashes ==
    ASSUME NEW S \in SUBSET Frames, S # {}, NEW t \in Showings(S),
           NEW R \in SUBSET S, R # {}, NEW c \in Showings(R), TrueOf(c, t),
           NEW j \in Clashing(c)
    PROVE  Late(j, t)
  <1> SUFFICES ASSUME ~Late(j, t) PROVE FALSE
    OBVIOUS
  <1>1. /\ First(R) \in R
        /\ Sided(c) = {k \in R : /\ c[k].side # "none"
                                 /\ c[k].draft = c[First(R)].draft}
        /\ Sided(c) # {} => /\ First(Sided(c)) \in Sided(c)
                            /\ \A k \in Sided(c) : First(Sided(c)) <= k
                            /\ Side(c) = c[First(Sided(c))].side
        /\ Clashing(c) = {k \in R : \/ c[k].draft # c[First(R)].draft
                                    \/ c[k].side \notin {"none", Side(c)}}
    BY RebuildReads
  <1>2. Clashing(t) = {k \in S : \/ t[k].draft # t[First(S)].draft
                                 \/ t[k].side \notin {"none", Side(t)}}
    BY RebuildReads
  <1>3. /\ j \in R /\ j \in Frames /\ j \in Nat /\ First(R) <= j
        /\ \A k \in S : k \in Frames /\ CapturedAt[k] \in Nat
    BY <1>1, FirstIs, FrameAssumption
  <1>4. ASSUME NEW k \in S, k <= j PROVE k \notin Clashing(t) /\ ~Late(k, t)
    <2>1. CapturedAt[k] <= CapturedAt[j]
      BY <1>3, <1>4, InOrder
    <2>2. \A i \in Clashing(t) : i \in S
      BY <1>2
    <2> QED
      BY <1>3, <2>1, <2>2 DEF Late
  <1>5. ASSUME NEW k \in R, k <= j
        PROVE  /\ c[k].side = t[k].side /\ c[k].draft = t[k].draft
               /\ t[k].draft = t[First(S)].draft /\ t[k].side \in {"none", Side(t)}
    <2>1. c[k].draft = t[k].draft /\ (c[k].side = t[k].side \/ Late(k, t))
      BY DEF TrueOf, Entry, Showings
    <2>2. k \notin Clashing(t) /\ ~Late(k, t)
      BY <1>4, <1>5
    <2> QED
      BY <1>2, <2>1, <2>2
  <1>6. j <= j
    BY <1>3
  <1>7. c[j].draft = c[First(R)].draft
    BY <1>1, <1>3, <1>5, <1>6
  <1>8. j \in Sided(c) /\ c[j].side # Side(c) /\ c[j].side # "none"
    BY <1>1, <1>7
  <1> DEFINE s == First(Sided(c))
  <1>9. s \in R /\ s <= j /\ c[s].side # "none" /\ c[s].side = Side(c)
    BY <1>1, <1>8
  <1> HIDE DEF s
  <1>10. c[s].side = Side(t) /\ c[j].side = Side(t)
    BY <1>3, <1>5, <1>6, <1>8, <1>9
  <1> QED
    BY <1>8, <1>9, <1>10

\* What is true of the frames stays true when there is one more.
LEMMA TrueStays ==
    ASSUME NEW S \in SUBSET Frames, S # {}, NEW t \in Showings(S),
           NEW f \in Frames, NEW shown \in Shown, f \in S => shown = t[f]
    PROVE  /\ \A k \in S : \A e : Entry(k, e, t) => Entry(k, e, With(t, f, shown))
           /\ \A c : TrueOf(c, t) => TrueOf(c, With(t, f, shown))
  <1> DEFINE d == With(t, f, shown)
  <1>1. /\ DOMAIN t = S /\ DOMAIN d = S \cup {f}
        /\ \A k \in S : d[k] = t[k]
    BY DEF With, Showings
  <1>2. \A k \in S : Late(k, t) => Late(k, d)
    BY LateStays
  <1> HIDE DEF d
  <1>3. ASSUME NEW k \in S, NEW e, Entry(k, e, t) PROVE Entry(k, e, d)
    BY <1>1, <1>2, <1>3 DEF Entry
  <1>4. ASSUME NEW c, TrueOf(c, t) PROVE TrueOf(c, d)
    BY <1>1, <1>3, <1>4 DEF TrueOf
  <1> QED
    BY <1>3, <1>4 DEF d

\* So an anchor that is founded stays so.
LEMMA FoundedStays ==
    ASSUME NEW S \in SUBSET Frames, S # {}, NEW t \in Showings(S),
           NEW f \in Frames, NEW shown \in Shown, f \in S => shown = t[f],
           NEW a, Founded(a, t)
    PROVE  Founded(a, With(t, f, shown))
  <1> DEFINE d == With(t, f, shown)
  <1>0. SUFFICES ASSUME f \notin S PROVE Founded(a, d)
    BY SameAgain
  <1>1. /\ DOMAIN t = S /\ DOMAIN d = S \cup {f} /\ d \in Showings(S \cup {f})
        /\ \A k \in S : d[k] = t[k]
    BY DEF With, Showings
  <1>2. ASSUME NEW j \in Clashing(t), a.conflictAt \in Nat,
               CapturedAt[j] <= a.conflictAt
        PROVE  \E i \in Clashing(d) : CapturedAt[i] <= a.conflictAt
    <2>1. PICK i \in Clashing(d) : i <= j
      BY <1>0, ClashStays
    <2>2. i \in Frames /\ j \in Frames
      <3>1. Clashing(t) \subseteq S /\ Clashing(d) \subseteq S \cup {f}
        BY <1>1, RebuildReads
      <3> QED
        BY <2>1, <3>1
    <2>3. CapturedAt[i] <= CapturedAt[j]
      BY <2>1, <2>2, InOrder
    <2>4. CapturedAt[i] \in Nat /\ CapturedAt[j] \in Nat
      BY <2>2, FrameAssumption
    <2>5. CapturedAt[i] <= a.conflictAt
      BY <1>2, <2>3, <2>4
    <2> QED
      BY <2>1, <2>5
  <1> HIDE DEF d
  <1> QED
    BY <1>1, <1>2 DEF Founded

-----------------------------------------------------------------------------
(* The inductive invariant.                                                *)

\* What is kept of the frames that have arrived.
View ==
    [k \in Stored |-> IF k \in DOMAIN conflicts THEN conflicts[k]
                      ELSE IF k \in Confirmed THEN ShownBy(k)
                      ELSE [draft |-> anchor.draft, side |-> anchor.side]]

Early == {k \in Sided(Truth) : ~Late(k, Truth)}

SideKnown ==
    IF Early = {} THEN anchor.sideFrame = NoFrame \/ Late(anchor.sideFrame, Truth)
    ELSE anchor.sideFrame = First(Early) /\ anchor.side = Side(Truth)

\* The kept view is above the truth, and the rest follows from the truth alone.
Kept ==
    /\ Above(Stored, View, Truth)
    /\ Confirmed = {k \in Stored : ~Late(k, Truth)}
    /\ DOMAIN conflicts = {k \in Stored : Late(k, Truth)} \ {First(Stored)}
    /\ anchor.frame = First(Stored)
    /\ anchor.draft = Truth[First(Stored)].draft
    /\ anchor.conflictAt = CutoffOf(Truth)
    /\ anchor.status = IF CutoffOf(Truth) = Never THEN "anchored" ELSE "conflict"
    /\ SideKnown

\* The view shows every frame, and only what is late is in conflict.
Covered ==
    /\ Above(Stored, View, Truth)
    /\ {anchor.frame} \cup DOMAIN conflicts \cup Confirmed = Stored
    /\ \A k \in DOMAIN conflicts : Late(k, Truth) /\ k # First(Stored)
    /\ anchor.status = "conflict" => Clashing(Truth) # {}

\* What an open transaction has read of the frames t is true, and it knows the
\* frame of its anchor from a row, but when that has gone into conflict since.
Sound(d, t, recorded, confirmed) ==
    /\ Founded(d.anchor, t) /\ TrueOf(d.conflicts, t) /\ TrueOf(d.confirmed, t)
    /\ \/ d.next # "write" /\ d.anchor.frame \in confirmed
       \/ d.anchor.frame \in recorded \cup DOMAIN d.conflicts
                                \cup DOMAIN d.confirmed

Backed ==
    /\ Founded(anchor, Truth) /\ anchor.frame \in DOMAIN conflicts \cup Confirmed
    /\ \A w \in Watchers : reading[w] # NoDelivery /\ reading[w].anchor # NoAnchor
            => Sound(reading[w], Truth, DOMAIN conflicts, Confirmed)

\* It has read of frames that have arrived.
Arrived(d) ==
    /\ d.anchor # NoAnchor => d.anchor.frame \in Stored
    /\ DOMAIN d.conflicts \subseteq Stored /\ DOMAIN d.confirmed \subseteq Stored
    /\ d.next = "conflicts" => DOMAIN d.conflicts = {}
    /\ d.next \in {"conflicts", "observations"} => DOMAIN d.confirmed = {}
    /\ d.invalidated \subseteq invalidated

IInv == /\ AnchorTypeOK
        /\ IF Stored = {} THEN anchor = NoAnchor
           ELSE anchor \in Anchors /\ anchor.frame \in Stored
        /\ stale => everStale
        /\ \A w \in Watchers : reading[w] # NoDelivery => Arrived(reading[w])
        /\ Stored # {} /\ invalidated = {} =>
            /\ (everStale => Distinct) => Covered
            /\ Mended => Kept
            /\ Distinct => Backed

\* What the frames showed is a function on the frames that have arrived.
LEMMA TruthType == ASSUME AnchorTypeOK PROVE Truth \in Showings(Stored)
  BY DEF AnchorTypeOK, Truth, ShownBy, Showings, Shown, Observations

\* A map that has an anchor is told from one that has none.
LEMMA NoAnchorType == NoAnchor \notin Anchors
  BY FrameAssumption DEF NoAnchor, Anchors

\* Before the first frame there is nothing to keep.
LEMMA InitIInv == AnchorInit => IInv
  <1> SUFFICES ASSUME AnchorInit PROVE IInv
    OBVIOUS
  <1>1. Stored = {} /\ DOMAIN conflicts = {}
    BY DEF AnchorInit, Stored
  <1>2. observations \in [Stored -> Observations]
    BY <1>1 DEF AnchorInit, Stored
  <1>3. conflicts \in [DOMAIN conflicts -> Shown]
    BY <1>1 DEF AnchorInit
  <1>4. AnchorTypeOK
    BY <1>1, <1>2, <1>3 DEF AnchorInit, AnchorTypeOK
  <1>5. \A w \in Watchers : reading[w] = NoDelivery
    BY DEF AnchorInit
  <1> QED
    BY <1>1, <1>4, <1>5 DEF IInv, AnchorInit

\* What is kept covers the frames.
LEMMA KeptCovers == ASSUME AnchorTypeOK, Stored # {}, Kept PROVE Covered
  <1>1. Stored \in SUBSET Frames /\ Truth \in Showings(Stored)
    BY TruthType DEF AnchorTypeOK
  <1>2. First(Stored) \in Stored
    BY <1>1, FirstIs
  <1>3. {anchor.frame} \cup DOMAIN conflicts \cup Confirmed = Stored
    BY <1>2 DEF Kept
  <1>4. anchor.status = "conflict" => Clashing(Truth) # {}
    BY <1>1, CutoffIs DEF Kept
  <1> QED
    BY <1>3, <1>4 DEF Kept, Covered

\* The first frame is its own anchor.
LEMMA FirstFrameStep ==
    ASSUME IInv, NEW f \in Frames, NEW shown \in Shown, Stored = {},
           FirstFrame(f, shown), UNCHANGED invalidated
    PROVE  /\ Stored' = {f} /\ DOMAIN conflicts' = {}
           /\ observations' \in [Stored' -> Observations]
           /\ conflicts' \in [DOMAIN conflicts' -> Shown]
           /\ anchor' \in Anchors /\ anchor'.frame = f /\ invalidated' = {}
           /\ Kept' /\ Founded(anchor', Truth') /\ Confirmed' = {f}
  <1>1. /\ shown.draft \in Drafts /\ shown.side \in ShownSides
        /\ shown = [draft |-> shown.draft, side |-> shown.side]
    BY DEF Shown
  <1>2. /\ Stored' = {f} /\ conflicts' = conflicts
        /\ observations' = [k \in {f} |-> [draft |-> shown.draft,
                                           side |-> shown.side, confirmed |-> TRUE]]
    BY DEF FirstFrame, Stored
  <1>3. /\ anchor'.frame = f /\ anchor'.draft = shown.draft
        /\ anchor'.side = shown.side
        /\ anchor'.sideFrame = (IF shown.side = "none" THEN NoFrame ELSE f)
        /\ anchor'.status = "anchored" /\ anchor'.conflictAt = Never
    BY DEF FirstFrame
  <1>4. anchor' \in Anchors
    BY <1>1 DEF FirstFrame, Anchors
  <1>5. /\ DOMAIN conflicts = {} /\ invalidated' = {} /\ invalidated = {}
    BY DEF IInv, AnchorTypeOK
  <1>6. /\ observations' \in [Stored' -> Observations]
        /\ conflicts' \in [DOMAIN conflicts' -> Shown]
    <2>1. observations' \in [Stored' -> Observations]
      BY <1>1, <1>2 DEF Observations
    <2>2. conflicts' \in [DOMAIN conflicts' -> Shown]
      BY <1>2, <1>5 DEF IInv, AnchorTypeOK
    <2> QED
      BY <2>1, <2>2
  <1> DEFINE T == Truth'
  <1>7. T = [k \in {f} |-> shown] /\ T \in Showings({f})
    BY <1>1, <1>2 DEF Truth, ShownBy, Showings
  <1> HIDE DEF T
  <1>8. First({f}) = f
    BY FirstIs
  <1>9. /\ Clashing(T) = {}
        /\ Sided(T) = IF shown.side = "none" THEN {} ELSE {f}
        /\ Sided(T) # {} => Side(T) = shown.side
    <2>1. {f} \in SUBSET Frames /\ {f} # {}
      OBVIOUS
    <2>2. T[f] = shown
      BY <1>7
    <2>3. Sided(T) = {k \in {f} : T[k].side # "none" /\ T[k].draft = T[f].draft}
      BY <1>7, <1>8, <2>1, RebuildReads
    <2>4. f \notin Clashing(T) /\ Clashing(T) \subseteq {f}
      BY <1>7, <1>8, <2>1, RebuildReads
    <2>5. Sided(T) = IF shown.side = "none" THEN {} ELSE {f}
      BY <2>2, <2>3
    <2>6. Sided(T) # {} => Side(T) = T[First(Sided(T))].side
      BY <1>7, <2>1, RebuildReads
    <2> QED
      BY <1>8, <2>2, <2>4, <2>5, <2>6
  <1>10. \A k : ~Late(k, T)
    BY <1>9 DEF Late
  <1>11. CutoffOf(T) = Never
    BY <1>9 DEF CutoffOf
  <1>12. Confirmed' = {f}
    BY <1>2 DEF Confirmed, Stored
  <1>13. View' = T
    BY <1>1, <1>2, <1>5, <1>7, <1>12 DEF View, ShownBy
  <1>14. Above(Stored', View', T)
    BY <1>2, <1>7, <1>13 DEF Above
  <1>15. SideKnown'
    <2>1. Early' = Sided(T)
      BY <1>10 DEF Early, T
    <2> QED
      BY <1>3, <1>8, <1>9, <2>1 DEF SideKnown, T
  <1>16. Kept'
    <2>1. T[f].draft = shown.draft
      BY <1>7
    <2> QED
      BY <1>2, <1>3, <1>5, <1>8, <1>10, <1>11, <1>12, <1>14, <1>15, <2>1
      DEF Kept, T
  <1>17. Founded(anchor', Truth')
    <2>1. T[f] = shown /\ DOMAIN T = {f}
      BY <1>7
    <2> QED
      BY <1>3, <2>1 DEF Founded, T
  <1> QED
    BY <1>2, <1>3, <1>4, <1>5, <1>6, <1>12, <1>16, <1>17

\* What has been read, of the frames that have arrived.
Read(r) == /\ r \in Deliveries /\ r.anchor \in Anchors /\ Arrived(r)

\* A rebuild reads frames that have arrived, and the new one in any case.
LEMMA CandidatesType ==
    ASSUME IInv, NEW r, Read(r), NEW shown \in Shown, Stored # {}
    PROVE  LET keys == ({r.frame, r.anchor.frame} \cup DOMAIN r.conflicts
                            \cup DOMAIN r.confirmed) \ r.invalidated
           IN  /\ Candidates(r, shown) \in Showings(keys)
               /\ keys \in SUBSET Frames /\ r.frame \in keys \cup Stored
               /\ keys \subseteq Stored \cup {r.frame}
  <1> DEFINE keys == ({r.frame, r.anchor.frame} \cup DOMAIN r.conflicts
                        \cup DOMAIN r.confirmed) \ r.invalidated
             c == Candidates(r, shown)
  <1>1. /\ r.frame \in Frames /\ r.anchor \in Anchors
        /\ r.conflicts \in Rows /\ r.confirmed \in Rows
    BY DEF Read, Deliveries
  <1>2. /\ Stored \subseteq Frames /\ invalidated \subseteq Stored
        /\ r.anchor.frame \in Stored /\ r.invalidated \subseteq Stored
        /\ DOMAIN r.conflicts \subseteq Stored
        /\ DOMAIN r.confirmed \subseteq Stored
    BY NoAnchorType DEF IInv, AnchorTypeOK, Read, Arrived
  <1>3. /\ keys \in SUBSET Frames /\ r.frame \in keys \cup Stored
        /\ keys \subseteq Stored \cup {r.frame}
    BY <1>1, <1>2
  <1>4. /\ r.anchor.draft \in Drafts /\ r.anchor.side \in ShownSides
        /\ \A k \in DOMAIN r.conflicts : r.conflicts[k] \in Shown
        /\ \A k \in DOMAIN r.confirmed : r.confirmed[k] \in Shown
    BY <1>1 DEF Anchors, Rows
  <1>5. \A k \in keys : c[k] \in Shown
    BY <1>4 DEF Candidates, Shown
  <1>6. c \in Showings(keys)
    BY <1>5 DEF Candidates, Showings
  <1> QED
    BY <1>3, <1>6

\* A rebuild keeps the tables well-formed, whatever has been invalidated.
LEMMA RebuildType ==
    ASSUME IInv, NEW r, Read(r), NEW shown \in Shown, Stored # {},
           NEW f, f = r.frame, f \in Stored => shown = ShownBy(f),
           DOMAIN Candidates(r, shown) # {}, Rebuild(r, shown)
    PROVE  /\ Stored' = Stored \cup {f} /\ Stored' \subseteq Frames
           /\ observations' \in [Stored' -> Observations]
           /\ DOMAIN conflicts' \subseteq Stored'
           /\ conflicts' \in [DOMAIN conflicts' -> Shown]
           /\ anchor' \in Anchors /\ anchor'.frame \in Stored'
           /\ \A k \in Stored : /\ observations'[k].draft = observations[k].draft
                                 /\ observations'[k].side = observations[k].side
           /\ observations'[f].draft = shown.draft
           /\ observations'[f].side = shown.side
  <1> DEFINE keys == ({r.frame, r.anchor.frame} \cup DOMAIN r.conflicts
                        \cup DOMAIN r.confirmed) \ r.invalidated
             c == Candidates(r, shown)
  <1>1. /\ c \in Showings(keys) /\ keys \in SUBSET Frames
        /\ keys # {} /\ f \in keys \cup Stored
        /\ keys \subseteq Stored \cup {f}
    BY CandidatesType DEF Showings
  <1> HIDE DEF keys, c
  <1>2. /\ Canonical(c) \in keys /\ Side(c) \in ShownSides
        /\ \A k \in keys : c[k].draft \in Drafts
        /\ SideFrame(c) \in keys \cup {NoFrame}
        /\ Clashing(c) \subseteq keys /\ DOMAIN c = keys
    <2>1. keys # {}
      BY <1>1
    <2>2. Sided(c) \subseteq keys /\ Clashing(c) \subseteq keys
      BY <1>1, <2>1, RebuildReads
    <2>3. DOMAIN c = keys
      BY <1>1 DEF Showings
    <2> QED
      BY <1>1, <2>1, <2>2, <2>3, RebuildReads
  <1>3. Cutoff(r, c) \in Nat \cup {Never}
    <2>1. CASE Clashing(c) # {}
      <3>1. First(Clashing(c)) \in Frames
        BY <1>1, <1>2, <2>1, FirstIs
      <3> QED
        BY <2>1, <3>1, FrameAssumption DEF Cutoff
    <2>2. CASE Clashing(c) = {}
      BY <2>2 DEF Cutoff, Read, Anchors
    <2> QED
      BY <2>1, <2>2
  <1>4. /\ anchor' = [frame |-> Canonical(c), draft |-> c[Canonical(c)].draft,
                      side |-> Side(c), sideFrame |-> SideFrame(c),
                      status |-> IF Cutoff(r, c) = Never THEN "anchored"
                                 ELSE "conflict",
                      conflictAt |-> Cutoff(r, c)]
        /\ conflicts' = [k \in DOMAIN conflicts \cup Recorded(r, c) |->
                            IF k \in DOMAIN conflicts THEN conflicts[k]
                            ELSE c[k]]
    BY DEF Rebuild, c
  <1>5. anchor' \in Anchors
    BY <1>1, <1>2, <1>3, <1>4 DEF Anchors
  <1>6. /\ Stored' = Stored \cup {f}
        /\ observations' = [k \in Stored \cup {f} |->
                [draft |-> IF k = f THEN shown.draft ELSE observations[k].draft,
                 side |-> IF k = f THEN shown.side ELSE observations[k].side,
                 confirmed |-> IF k \in DOMAIN c THEN k \in Trusted(r, c)
                               ELSE observations[k].confirmed]]
    BY DEF Rebuild, Stored, c
  <1>7. /\ Stored \subseteq Frames /\ DOMAIN conflicts \subseteq Stored
        /\ f \in Frames
        /\ \A k \in Stored : observations[k] \in Observations
        /\ \A k \in DOMAIN conflicts : conflicts[k] \in Shown
    BY DEF IInv, AnchorTypeOK, Read, Deliveries
  <1>8. DOMAIN conflicts' \subseteq Stored \cup {f}
    BY <1>1, <1>2, <1>4, <1>7 DEF Recorded
  <1>9. conflicts' \in [DOMAIN conflicts' -> Shown]
    <2>1. Recorded(r, c) \subseteq keys
      BY <1>2 DEF Recorded
    <2>2. \A k \in Recorded(r, c) : c[k] \in Shown
      BY <1>1, <2>1 DEF Showings
    <2> QED
      BY <1>4, <1>7, <2>2
  <1>10. ASSUME NEW k \in Stored \cup {f}
         PROVE  /\ observations'[k] \in Observations
                /\ k \in Stored =>
                     /\ observations'[k].draft = observations[k].draft
                     /\ observations'[k].side = observations[k].side
    <2> DEFINE b == IF k \in DOMAIN c THEN k \in Trusted(r, c)
                    ELSE observations[k].confirmed
    <2>1. b \in BOOLEAN
      <3>1. k \in DOMAIN c \/ k \in Stored
        BY <1>1, <1>2
      <3>2. CASE k \in DOMAIN c
        <4>1. (k \in Trusted(r, c)) \in BOOLEAN
          OBVIOUS
        <4> QED
          BY <3>2, <4>1
      <3>3. CASE k \notin DOMAIN c
        <4>1. observations[k].confirmed \in BOOLEAN
          BY <1>7, <3>1, <3>3 DEF Observations
        <4> QED
          BY <3>3, <4>1
      <3> QED
        BY <3>2, <3>3
    <2>2. observations'[k] =
             [draft |-> IF k = f THEN shown.draft ELSE observations[k].draft,
              side |-> IF k = f THEN shown.side ELSE observations[k].side,
              confirmed |-> b]
      BY <1>6
    <2> HIDE DEF b
    <2>3. k \in Stored => /\ observations[k].draft \in Drafts
                          /\ observations[k].side \in ShownSides
      BY <1>7 DEF Observations
    <2>4. shown.draft \in Drafts /\ shown.side \in ShownSides
      BY DEF Shown
    <2>5. k = f /\ k \in Stored =>
            shown.draft = observations[k].draft /\ shown.side = observations[k].side
      BY DEF ShownBy
    <2> QED
      BY <2>1, <2>2, <2>3, <2>4, <2>5 DEF Observations
  <1>12. /\ observations' \in [Stored' -> Observations]
         /\ Stored' \subseteq Frames /\ DOMAIN conflicts' \subseteq Stored'
    <2>1. observations' = [k \in Stored' |-> observations'[k]]
      BY <1>6
    <2>2. observations' \in [Stored' -> Observations]
      BY <1>6, <1>10, <2>1
    <2> QED
      BY <1>6, <1>7, <1>8, <2>2
  <1>13. anchor'.frame \in Stored'
    BY <1>1, <1>2, <1>4, <1>6
  <1> QED
    BY <1>5, <1>6, <1>9, <1>10, <1>12, <1>13

\* The first side that is not late is the first side of all, and a frame that
\* is not late gives it to whatever is like the truth.
LEMMA SideStays ==
    ASSUME NEW S \in SUBSET Frames, S # {}, NEW c, NEW d, Alike(S, c, d)
    PROVE  LET early == {k \in Sided(d) : ~Late(k, d)}
           IN  /\ early = {} => \/ SideFrame(c) = NoFrame
                               \/ Late(SideFrame(c), d)
               /\ early # {} => /\ SideFrame(c) = First(early)
                                /\ Side(c) = Side(d)
  <1> DEFINE early == {k \in Sided(d) : ~Late(k, d)}
  <1>1. c \in Showings(S) /\ d \in Showings(S) /\ Alike(S, d, c)
    BY AlikeSymmetric DEF Alike
  <1>2. /\ Sided(c) # {} => /\ SideFrame(c) = First(Sided(c))
                            /\ First(Sided(c)) \in Sided(c)
        /\ Sided(c) = {} => SideFrame(c) = NoFrame
    BY <1>1, RebuildReads
  <1>3. /\ Sided(d) \subseteq Frames /\ Clashing(d) \subseteq Frames
        /\ Sided(d) # {} => /\ First(Sided(d)) \in Sided(d)
                            /\ \A k \in Sided(d) : First(Sided(d)) <= k
    BY <1>1, RebuildReads
  <1>4. ASSUME early = {}, SideFrame(c) # NoFrame, ~Late(SideFrame(c), d)
        PROVE  FALSE
    <2>1. SideFrame(c) \in Sided(c)
      BY <1>2, <1>4
    <2>2. SideFrame(c) \in Sided(d)
      BY <1>4, <2>1, EarlySide
    <2> QED
      BY <1>4, <2>2
  <1>5. ASSUME early # {}
        PROVE  SideFrame(c) = First(early) /\ Side(c) = Side(d)
    <2>1. PICK e \in Sided(d) : ~Late(e, d)
      BY <1>5
    <2>2. /\ e \in Sided(c) /\ First(Sided(d)) = First(Sided(c))
          /\ Side(d) = Side(c)
      BY <1>1, <2>1, EarlySide
    <2> DEFINE s == First(Sided(d))
    <2>3. s \in Sided(d) /\ s <= e /\ \A k \in early : s <= k
      BY <1>3, <2>1
    <2> HIDE DEF s
    <2>4. CapturedAt[s] <= CapturedAt[e]
      BY <1>3, <2>1, <2>3, InOrder
    <2>5. /\ CapturedAt[s] \in Nat /\ CapturedAt[e] \in Nat
          /\ \A i \in Clashing(d) : CapturedAt[i] \in Nat
      BY <1>3, <2>1, <2>3, FrameAssumption
    <2>6. ~Late(s, d)
      BY <2>1, <2>4, <2>5 DEF Late
    <2>7. First(early) = s
      <3>1. early \in SUBSET Frames /\ s \in early
        BY <1>3, <2>3, <2>6
      <3> HIDE DEF early
      <3> QED
        BY <2>3, <3>1, FirstUnique
    <2> QED
      BY <1>2, <2>2, <2>7 DEF s
  <1> QED
    BY <1>4, <1>5

\* As long as nothing is invalidated, the candidates of a delivery that is up to
\* date are the view with the new frame, and they are above the truth.
LEMMA CandidatesAre ==
    ASSUME IInv, NEW r, UpToDate(r), NEW shown \in Shown, Stored # {}, Covered,
           NEW f \in Frames, f = r.frame, f \in Stored => shown = ShownBy(f),
           invalidated = {}
    PROVE  /\ Candidates(r, shown) = With(View, f, shown)
           /\ Above(Stored \cup {f}, With(View, f, shown), With(Truth, f, shown))
           /\ Cutoff(r, With(View, f, shown)) = CutoffOf(With(Truth, f, shown))
  <1> DEFINE S == Stored \cup {f}
             c == With(View, f, shown)
             d == With(Truth, f, shown)
  <1>1. /\ Stored \in SUBSET Frames /\ AnchorTypeOK
        /\ anchor \in Anchors /\ Anchored
    BY NoAnchorType DEF IInv, AnchorTypeOK, Anchored
  <1>2. /\ View \in Showings(Stored) /\ Truth \in Showings(Stored)
        /\ Above(Stored, View, Truth)
        /\ f \in Stored => shown = Truth[f]
    BY DEF Covered, Above, Truth
  <1>3. /\ r.anchor = anchor /\ r.conflicts = conflicts /\ r.invalidated = {}
        /\ r.confirmed = [k \in Confirmed |-> ShownBy(k)]
    BY <1>1 DEF UpToDate
  <1>4. {anchor.frame} \cup DOMAIN conflicts \cup Confirmed = Stored
    BY DEF Covered
  <1>5. Candidates(r, shown) = c
    <2>1. /\ ({f, r.anchor.frame} \cup DOMAIN r.conflicts \cup DOMAIN r.confirmed)
                \ r.invalidated = S
          /\ DOMAIN View \cup {f} = S
      BY <1>3, <1>4 DEF View
    <2>2. \A k \in Stored : View[k] =
            IF k \in DOMAIN conflicts THEN conflicts[k]
            ELSE IF k \in Confirmed THEN ShownBy(k)
            ELSE [draft |-> anchor.draft, side |-> anchor.side]
      BY DEF View
    <2> QED
      BY <1>3, <2>1, <2>2 DEF Candidates, With
  <1>6. c \in Showings(S) /\ d \in Showings(S) /\ S \in SUBSET Frames /\ S # {}
    BY <1>1, <1>2 DEF With, Showings
  <1>7. /\ \A k \in S \ {f} : k \in Stored /\ c[k] = View[k] /\ d[k] = Truth[k]
        /\ c[f] = shown /\ d[f] = shown
    BY <1>2 DEF With, Showings
  <1> HIDE DEF c, d
  <1>8. Above(S, c, d)
    <2>1. ASSUME NEW k \in S
          PROVE  /\ c[k].draft = d[k].draft
                 /\ c[k].side = d[k].side \/ (d[k].side = "none" /\ Late(k, d))
      <3>1. CASE k = f
        BY <1>7, <3>1
      <3>2. CASE k # f
        <4>1. /\ k \in Stored /\ c[k] = View[k] /\ d[k] = Truth[k]
              /\ k \in Frames
          BY <1>1, <1>7, <3>2
        <4>2. Late(k, Truth) => Late(k, d)
          BY <1>1, <1>2, <4>1, LateStays DEF d
        <4> QED
          BY <1>2, <4>1, <4>2 DEF Above
      <3> QED
        BY <3>1, <3>2
    <2> QED
      BY <1>6, <2>1 DEF Above
  <1>9. CutoffOf(c) = CutoffOf(d)
    BY <1>6, <1>8, AboveAlike, SameCutoff
  <1>10. Cutoff(r, c) = CutoffOf(c)
    <2>1. CASE Clashing(c) # {}
      BY <2>1 DEF Cutoff, CutoffOf
    <2>2. CASE Clashing(c) = {}
      <3>1. Clashing(d) = {}
        BY <1>6, <1>9, <2>2, CutoffIs
      <3>2. Clashing(Truth) = {}
        <4>1. SUFFICES ASSUME NEW j \in Clashing(Truth) PROVE FALSE
          OBVIOUS
        <4>2. j \in Frames
          BY <1>1, <1>2, RebuildReads
        <4>3. Late(j, Truth)
          BY <4>2, FrameAssumption DEF Late
        <4>4. Late(j, d)
          BY <1>1, <1>2, <4>2, <4>3, LateStays DEF d
        <4> QED
          BY <3>1, <4>4 DEF Late
      <3>3. anchor.status = "anchored"
        BY <1>1, <3>2 DEF Covered, Anchors
      <3> QED
        BY <1>3, <2>2, <3>3 DEF Cutoff, CutoffOf
    <2> QED
      BY <2>1, <2>2
  <1> QED
    BY <1>5, <1>8, <1>9, <1>10 DEF c, d

\* A rebuild adds its frame to what has arrived, and forgets nothing of it.
LEMMA RebuildAdds ==
    ASSUME IInv, NEW r, Read(r), NEW shown \in Shown, Stored # {},
           NEW f, f = r.frame, f \in Stored => shown = ShownBy(f),
           DOMAIN Candidates(r, shown) # {}, Rebuild(r, shown)
    PROVE  Truth' = With(Truth, f, shown) /\ Stored' = Stored \cup {f}
  <1>1. /\ Stored' = Stored \cup {f}
        /\ \A k \in Stored : /\ observations'[k].draft = observations[k].draft
                              /\ observations'[k].side = observations[k].side
        /\ observations'[f].draft = shown.draft
        /\ observations'[f].side = shown.side
    BY RebuildType
  <1>2. shown = [draft |-> shown.draft, side |-> shown.side]
    BY DEF Shown
  <1> QED
    BY <1>1, <1>2 DEF Truth, ShownBy, With

\* A rebuild keeps of the new frames what it kept of the old ones.
LEMMA RebuildKeeps ==
    ASSUME IInv, NEW r, Read(r), UpToDate(r), NEW shown \in Shown, Stored # {},
           NEW f \in Frames, f = r.frame, f \in Stored => shown = ShownBy(f),
           DOMAIN Candidates(r, shown) # {}, Rebuild(r, shown),
           Covered, invalidated = {}
    PROVE  Kept'
  <1> DEFINE S == Stored \cup {f}
             c == With(View, f, shown)
             d == With(Truth, f, shown)
             m == First(S)
  <1>1. /\ S \in SUBSET Frames /\ S # {} /\ Stored \in SUBSET Frames
        /\ AnchorTypeOK
    BY DEF IInv, AnchorTypeOK
  <1>2. /\ Candidates(r, shown) = c /\ Above(S, c, d) /\ Alike(S, c, d)
        /\ Cutoff(r, c) = CutoffOf(d)
    BY <1>1, CandidatesAre, AboveAlike
  <1>3. Truth' = d /\ Stored' = S
    BY RebuildAdds
  <1>4. /\ c \in Showings(S) /\ d \in Showings(S) /\ DOMAIN c = S
        /\ \A k \in S : c[k].draft = d[k].draft
        /\ \A k \in S : c[k].side = d[k].side \/ (Late(k, c) /\ Late(k, d))
    BY <1>2 DEF Alike, Showings
  <1>5. /\ \A k \in DOMAIN conflicts : k \in Stored /\ View[k] = conflicts[k]
        /\ \A k \in Stored : d[k] = Truth[k]
        /\ Truth \in Showings(Stored)
        /\ \A k \in Stored : Late(k, Truth) => Late(k, d)
    <2>1. Truth \in Showings(Stored)
      BY <1>1, TruthType
    <2>2. f \in Stored => shown = Truth[f]
      BY DEF Truth
    <2>3. \A k \in Stored : Late(k, Truth) => Late(k, d)
      BY <1>1, <2>1, <2>2, LateStays
    <2>4. \A k \in Stored : d[k] = Truth[k]
      BY <2>1, <2>2 DEF With, Showings
    <2> QED
      BY <1>1, <2>1, <2>3, <2>4 DEF View, AnchorTypeOK
  <1> HIDE DEF c, d
  <1>6. /\ anchor' = [frame |-> Canonical(c), draft |-> c[Canonical(c)].draft,
                      side |-> Side(c), sideFrame |-> SideFrame(c),
                      status |-> IF Cutoff(r, c) = Never THEN "anchored"
                                 ELSE "conflict",
                      conflictAt |-> Cutoff(r, c)]
        /\ conflicts' = [k \in DOMAIN conflicts \cup Recorded(r, c) |->
                            IF k \in DOMAIN conflicts THEN conflicts[k]
                            ELSE c[k]]
        /\ \A k \in S \cap DOMAIN c :
                observations'[k].confirmed <=> k \in Trusted(r, c)
    <2>1. PICK e \in {Candidates(r, shown)} :
            /\ anchor' = [frame |-> Canonical(e), draft |-> e[Canonical(e)].draft,
                          side |-> Side(e), sideFrame |-> SideFrame(e),
                          status |-> IF Cutoff(r, e) = Never THEN "anchored"
                                     ELSE "conflict",
                          conflictAt |-> Cutoff(r, e)]
            /\ conflicts' = [k \in DOMAIN conflicts \cup Recorded(r, e) |->
                                IF k \in DOMAIN conflicts THEN conflicts[k]
                                ELSE e[k]]
            /\ observations' = [k \in Stored \cup {r.frame} |->
                [draft |-> IF k = r.frame THEN shown.draft
                           ELSE observations[k].draft,
                 side |-> IF k = r.frame THEN shown.side
                          ELSE observations[k].side,
                 confirmed |-> IF k \in DOMAIN e THEN k \in Trusted(r, e)
                               ELSE observations[k].confirmed]]
      BY Zenon DEF Rebuild
    <2>2. e = c
      BY <1>2, <2>1
    <2>3. \A k \in S \cap DOMAIN e :
            observations'[k].confirmed <=> k \in Trusted(r, e)
      BY <2>1
    <2> QED
      BY <2>1, <2>2, <2>3
  <1>7. /\ Canonical(c) = m /\ m \in S
        /\ Clashing(c) \subseteq S /\ m \notin Clashing(c)
    BY <1>1, <1>4, RebuildReads
  <1>8. \A k \in Frames : Late(k, c) <=> Late(k, d)
    BY <1>1, <1>2, SameCutoff
  <1>9. Trusted(r, c) = {k \in S : ~Late(k, d)}
    <2>1. \A k \in Frames : Before(k, CutoffOf(d)) <=> ~Late(k, d)
      BY <1>1, <1>4, CutoffIs
    <2>2. \A k \in Clashing(c) : Late(k, d)
      BY <1>1, <1>2, ClashAlike
    <2> QED
      BY <1>1, <1>2, <1>4, <2>1, <2>2 DEF Trusted
  <1>10. Confirmed' = {k \in S : ~Late(k, d)}
    <2>1. \A k \in S : observations'[k].confirmed <=> k \in Trusted(r, c)
      BY <1>4, <1>6
    <2> QED
      BY <1>3, <1>9, <2>1 DEF Confirmed
  <1>11. DOMAIN conflicts' = {k \in S : Late(k, d)} \ {m}
    <2>1. DOMAIN conflicts' = DOMAIN conflicts \cup ({k \in S : Late(k, d)} \ {m})
      BY <1>4, <1>6, <1>7, <1>9 DEF Recorded
    <2>2. ASSUME NEW k \in DOMAIN conflicts PROVE Late(k, d) /\ k # m
      <3>1. /\ k \in Stored /\ Late(k, Truth) /\ k # First(Stored)
        BY DEF Covered, AnchorTypeOK, IInv
      <3>2. Late(k, d)
        BY <1>5, <3>1
      <3>3. k # m
        <4>1. SUFFICES ASSUME k = m PROVE FALSE
          OBVIOUS
        <4>2. \A g \in Stored : k <= g
          BY <1>1, <4>1, FirstIs
        <4>3. First(Stored) = k
          BY <1>1, <3>1, <4>2, FirstUnique
        <4> QED
          BY <3>1, <4>3
      <3> QED
        BY <3>2, <3>3
    <2> QED
      BY <1>5, <2>1, <2>2
  <1> DEFINE v == View'
  <1>12. ASSUME NEW k \in S
         PROVE  /\ v[k] \in Shown /\ v[k].draft = d[k].draft
                /\ v[k].side = d[k].side \/ (d[k].side = "none" /\ Late(k, d))
    <2>1. v[k] = IF k \in DOMAIN conflicts' THEN conflicts'[k]
                 ELSE IF k \in Confirmed' THEN ShownBy(k)'
                 ELSE [draft |-> anchor'.draft, side |-> anchor'.side]
      BY <1>3 DEF View
    <2>2. c[k] \in Shown /\ d[k] \in Shown
      BY <1>4 DEF Showings
    <2>3. CASE k \in DOMAIN conflicts
      <3>1. v[k] = conflicts[k]
        BY <1>6, <2>1, <2>3
      <3>2. /\ v[k] = View[k] /\ k \in Stored /\ d[k] = Truth[k]
            /\ Late(k, Truth) => Late(k, d)
        BY <1>5, <2>3, <3>1
      <3>3. Above(Stored, View, Truth)
        BY DEF Covered
      <3> QED
        BY <3>2, <3>3 DEF Above, Showings
    <2>4. CASE k \in Recorded(r, c) \ DOMAIN conflicts
      <3>1. v[k] = c[k]
        BY <1>6, <2>1, <2>4
      <3> QED
        BY <1>2, <2>2, <3>1 DEF Above
    <2>5. CASE k \notin DOMAIN conflicts' /\ k \in Confirmed'
      <3>1. v[k] = d[k]
        BY <1>3, <2>1, <2>5 DEF Truth
      <3> QED
        BY <2>2, <3>1
    <2>6. CASE k \notin DOMAIN conflicts' /\ k \notin Confirmed'
      <3>1. k = m /\ Late(k, d)
        BY <1>10, <1>11, <2>6
      <3>2. v[k] = [draft |-> c[m].draft, side |-> Side(c)] /\ Side(c) \in ShownSides
        BY <1>1, <1>4, <1>6, <1>7, <2>1, <2>6, RebuildReads
      <3>3. c[m].side # "none" => Side(c) = c[m].side
        <4>1. SUFFICES ASSUME c[m].side # "none" PROVE Side(c) = c[m].side
          OBVIOUS
        <4>2. c[m].side \in {"none", Side(c)}
          BY <1>1, <1>4, <1>7, RebuildReads
        <4> QED
          BY <4>1, <4>2
      <3>4. d[k].side # "none" => c[m].side = d[k].side
        BY <1>2, <3>1 DEF Above
      <3> QED
        BY <1>4, <2>2, <3>1, <3>2, <3>3, <3>4 DEF Shown
    <2> QED
      BY <1>6, <2>3, <2>4, <2>5, <2>6
  <1>16. Above(S, v, d)
    <2>1. v = [k \in S |-> v[k]]
      BY <1>3 DEF View
    <2> HIDE DEF v, m
    <2>2. v \in Showings(S)
      BY <1>12, <2>1 DEF Showings
    <2> QED
      BY <1>4, <1>12, <2>2 DEF Above
  <1>17. SideKnown'
    <2> DEFINE early == {k \in Sided(d) : ~Late(k, d)}
    <2>1. /\ early = {} => \/ SideFrame(c) = NoFrame
                          \/ Late(SideFrame(c), d)
          /\ early # {} => /\ SideFrame(c) = First(early)
                           /\ Side(c) = Side(d)
      BY <1>1, <1>2, SideStays
    <2>2. Early' = early
      BY <1>3 DEF Early
    <2> HIDE DEF early
    <2>3. anchor'.sideFrame = SideFrame(c) /\ anchor'.side = Side(c)
      BY <1>6
    <2> QED
      BY <1>3, <2>1, <2>2, <2>3 DEF SideKnown
  <1>18. /\ anchor'.frame = m /\ anchor'.draft = d[m].draft
         /\ anchor'.conflictAt = CutoffOf(d)
         /\ anchor'.status = IF CutoffOf(d) = Never THEN "anchored" ELSE "conflict"
    BY <1>2, <1>4, <1>6, <1>7
  <1> HIDE DEF m, S
  <1>19. m = First(Stored')
    BY <1>3 DEF m
  <1> QED
    BY <1>3, <1>10, <1>11, <1>16, <1>17, <1>18, <1>19 DEF Kept, v

\* Whatever a delivery has overlapped with, it forgets no frame: as long as all
\* are of their own moment, what it leaves covers them, and its anchor says
\* nothing that is not so.
LEMMA RebuildCovers ==
    ASSUME IInv, NEW r, Read(r), NEW shown \in Shown, Stored # {},
           NEW f \in Frames, f = r.frame, f \in Stored => shown = ShownBy(f),
           DOMAIN Candidates(r, shown) # {}, Rebuild(r, shown),
           invalidated = {}, Distinct', Covered, Backed, r.next = "write",
           Sound(r, Truth, DOMAIN conflicts, Confirmed)
    PROVE  /\ Covered' /\ Founded(anchor', Truth')
           /\ Stored \cup {f} \subseteq DOMAIN conflicts' \cup Confirmed'
           /\ DOMAIN conflicts \subseteq DOMAIN conflicts'
  <1> DEFINE S == Stored \cup {f}
             d == With(Truth, f, shown)
             c == Candidates(r, shown)
             R == {f, r.anchor.frame} \cup DOMAIN r.conflicts
                    \cup DOMAIN r.confirmed
             p == First(R)
             cut == Cutoff(r, c)
  <1>1. /\ S \in SUBSET Frames /\ S # {} /\ Stored \in SUBSET Frames
        /\ AnchorTypeOK /\ Truth \in Showings(Stored)
        /\ \A k \in Frames : k \in Nat /\ CapturedAt[k] \in Nat
        /\ f \in Stored => shown = Truth[f]
    BY TruthType, FrameAssumption DEF IInv, AnchorTypeOK, Truth
  <1>2. Truth' = d /\ Stored' = S
    BY RebuildAdds
  <1>3. d \in Showings(S) /\ DOMAIN d = S /\ d[f] = shown
        /\ \A k \in Stored : d[k] = Truth[k] /\ (Late(k, Truth) => Late(k, d))
    <2>1. d \in Showings(S) /\ \A k \in Stored : d[k] = Truth[k]
      BY <1>1 DEF With, Showings
    <2>2. \A k \in Stored : Late(k, Truth) => Late(k, d)
      BY <1>1, LateStays
    <2> QED
      BY <2>1, <2>2 DEF With, Showings
  <1>4. /\ r.invalidated = {} /\ c \in Showings(R) /\ DOMAIN c = R
        /\ R \in SUBSET S /\ R # {} /\ f \in R /\ r.anchor.frame \in R
    <2>1. r.invalidated = {}
      BY DEF Read, Arrived
    <2>2. R \subseteq S
      BY NoAnchorType DEF Read, Arrived
    <2>3. c \in Showings(R)
      BY <2>1, CandidatesType
    <2> QED
      BY <2>1, <2>2, <2>3 DEF Showings
  <1>5. /\ \A k \in Stored, e \in Shown : Entry(k, e, Truth) => Entry(k, e, d)
        /\ TrueOf(r.conflicts, d) /\ TrueOf(r.confirmed, d)
        /\ Founded(r.anchor, Truth) /\ Founded(r.anchor, d)
    <2>1. Founded(r.anchor, Truth)
      BY DEF Sound
    <2>2. Founded(r.anchor, d)
      BY <1>1, <2>1, FoundedStays
    <2>3. /\ \A k \in Stored : \A e : Entry(k, e, Truth) => Entry(k, e, d)
          /\ \A e : TrueOf(e, Truth) => TrueOf(e, d)
      BY <1>1, TrueStays
    <2> QED
      BY <2>1, <2>2, <2>3 DEF Sound
  <1> HIDE DEF d, S
  <1>6. TrueOf(c, d)
    <2>1. ASSUME NEW k \in R PROVE Entry(k, c[k], d)
      <3>1. CASE k = f
        BY <1>3, <1>4, <3>1 DEF Candidates, Entry
      <3>2. CASE k # f /\ k \in DOMAIN r.conflicts
        BY <1>4, <1>5, <3>2 DEF Candidates, TrueOf
      <3>3. CASE k # f /\ k \notin DOMAIN r.conflicts /\ k \in DOMAIN r.confirmed
        BY <1>4, <1>5, <3>3 DEF Candidates, TrueOf
      <3>4. CASE k # f /\ k \notin DOMAIN r.conflicts \cup DOMAIN r.confirmed
        <4>1. k = r.anchor.frame /\ k \in DOMAIN conflicts
          BY <3>4 DEF Sound
        <4>2. Late(k, Truth) /\ k \in Stored
          BY <4>1 DEF Covered, IInv, AnchorTypeOK
        <4>3. c[k] = [draft |-> r.anchor.draft, side |-> r.anchor.side]
          BY <1>4, <3>4 DEF Candidates
        <4> QED
          BY <1>3, <1>5, <4>1, <4>2, <4>3 DEF Entry, Founded
      <3> QED
        BY <3>1, <3>2, <3>3, <3>4
    <2> QED
      BY <1>3, <1>4, <2>1 DEF TrueOf
  <1> HIDE DEF c, R
  <1>7. /\ p \in R /\ Canonical(c) = p /\ p \notin Clashing(c)
        /\ Clashing(c) \subseteq R /\ c[p].side \in {"none", Side(c)}
        /\ \A k \in R : p <= k /\ CapturedAt[p] <= CapturedAt[k]
    <2>1. R \in SUBSET Frames
      BY <1>1, <1>4
    <2> QED
      BY <1>4, <2>1, FirstIs, RebuildReads
  <1> HIDE DEF p
  <1>8. \A k \in Clashing(c) : Late(k, d)
    BY <1>1, <1>3, <1>4, <1>6, TrueClashes
  <1>9. ASSUME cut # Never
        PROVE  /\ cut \in Nat /\ CapturedAt[p] < cut
               /\ \E j \in Clashing(d) : CapturedAt[j] <= cut
    <2>1. CASE Clashing(c) # {}
      <3> DEFINE m == First(Clashing(c))
      <3>1. m \in Clashing(c)
        BY <1>1, <1>4, <1>7, <2>1, FirstIs
      <3> HIDE DEF m
      <3>2. cut = CapturedAt[m]
        BY <2>1 DEF Cutoff, m
      <3>3. m \in S /\ p \in S /\ m # p /\ CapturedAt[p] <= CapturedAt[m]
        BY <1>4, <1>7, <3>1
      <3>4. CapturedAt[p] # CapturedAt[m]
        BY <1>2, <3>3 DEF Distinct
      <3>5. PICK j \in Clashing(d) : CapturedAt[j] <= CapturedAt[m]
        BY <1>8, <3>1 DEF Late
      <3> QED
        BY <1>1, <3>2, <3>3, <3>4, <3>5
    <2>2. CASE Clashing(c) = {}
      <3>1. r.anchor.status = "conflict" /\ cut = r.anchor.conflictAt
        BY <1>9, <2>2 DEF Cutoff
      <3>2. /\ cut \in Nat /\ CapturedAt[r.anchor.frame] < cut
            /\ \E j \in Clashing(d) : CapturedAt[j] <= cut
        BY <1>5, <3>1 DEF Founded
      <3>3. /\ CapturedAt[p] <= CapturedAt[r.anchor.frame]
            /\ CapturedAt[p] \in Nat /\ CapturedAt[r.anchor.frame] \in Nat
        BY <1>1, <1>4, <1>7
      <3> HIDE DEF cut
      <3> QED
        BY <3>2, <3>3
    <2> QED
      BY <2>1, <2>2
  <1> HIDE DEF cut
  <1>10. Trusted(r, c) = {k \in R \ Clashing(c) : Before(k, cut)}
    BY <1>4 DEF Trusted, cut
  <1>11. p \in Trusted(r, c)
    BY <1>7, <1>9, <1>10 DEF Before
  <1>12. ASSUME NEW k \in R, k \notin Trusted(r, c) PROVE Late(k, d)
    <2>1. CASE k \in Clashing(c)
      BY <1>8, <2>1
    <2>2. CASE k \notin Clashing(c)
      <3>1. cut # Never /\ ~(CapturedAt[k] < cut)
        BY <1>10, <1>12, <2>2 DEF Before
      <3>2. PICK j \in Clashing(d) : CapturedAt[j] <= cut
        BY <1>9, <3>1
      <3>3. j \in Frames /\ k \in Frames
        <4>1. Clashing(d) \subseteq S
          BY <1>1, <1>3, RebuildReads
        <4> QED
          BY <1>1, <1>4, <3>2, <4>1
      <3>4. CapturedAt[j] <= CapturedAt[k]
        BY <1>1, <1>9, <3>1, <3>2, <3>3
      <3> QED
        BY <3>2, <3>4 DEF Late
    <2> QED
      BY <2>1, <2>2
  <1>13. Recorded(r, c) = R \ Trusted(r, c)
    BY <1>4, <1>7, <1>11 DEF Recorded
  <1>14. /\ anchor' = [frame |-> p, draft |-> c[p].draft, side |-> Side(c),
                       sideFrame |-> SideFrame(c),
                       status |-> IF cut = Never THEN "anchored" ELSE "conflict",
                       conflictAt |-> cut]
         /\ conflicts' = [k \in DOMAIN conflicts \cup Recorded(r, c) |->
                            IF k \in DOMAIN conflicts THEN conflicts[k]
                            ELSE c[k]]
         /\ \A k \in S : observations'[k].confirmed =
                IF k \in DOMAIN c THEN k \in Trusted(r, c)
                ELSE observations[k].confirmed
    <2>1. PICK e \in {c} :
            /\ anchor' = [frame |-> Canonical(e), draft |-> e[Canonical(e)].draft,
                          side |-> Side(e), sideFrame |-> SideFrame(e),
                          status |-> IF Cutoff(r, e) = Never THEN "anchored"
                                     ELSE "conflict",
                          conflictAt |-> Cutoff(r, e)]
            /\ conflicts' = [k \in DOMAIN conflicts \cup Recorded(r, e) |->
                                IF k \in DOMAIN conflicts THEN conflicts[k]
                                ELSE e[k]]
            /\ observations' = [k \in Stored \cup {r.frame} |->
                [draft |-> IF k = r.frame THEN shown.draft
                           ELSE observations[k].draft,
                 side |-> IF k = r.frame THEN shown.side
                          ELSE observations[k].side,
                 confirmed |-> IF k \in DOMAIN e THEN k \in Trusted(r, e)
                               ELSE observations[k].confirmed]]
      BY Zenon DEF Rebuild, c
    <2>2. e = c
      BY <2>1
    <2>3. \A k \in S : observations'[k].confirmed =
                IF k \in DOMAIN c THEN k \in Trusted(r, c)
                ELSE observations[k].confirmed
      BY <2>1, <2>2 DEF S
    <2> QED
      BY <1>7, <2>1, <2>2, <2>3 DEF cut
  <1>15. /\ \A k \in R : k \in Confirmed' <=> k \in Trusted(r, c)
         /\ \A k \in S \ R : k \in Confirmed => k \in Confirmed'
         /\ Confirmed' \subseteq S
    BY <1>2, <1>4, <1>14 DEF Confirmed
  <1>16. DOMAIN conflicts' = DOMAIN conflicts \cup (R \ Trusted(r, c))
    BY <1>13, <1>14
  <1>17. S \subseteq DOMAIN conflicts' \cup Confirmed'
    <2> SUFFICES ASSUME NEW k \in S, k \notin DOMAIN conflicts'
                 PROVE  k \in Confirmed'
      OBVIOUS
    <2>1. CASE k \in R
      BY <1>15, <1>16, <2>1
    <2>2. CASE k \notin R
      <3>1. k \in Stored
        BY <1>4, <2>2 DEF S
      <3>2. k \in Confirmed
        BY <1>16, <3>1 DEF Covered, Backed
      <3> QED
        BY <1>15, <2>2, <3>2
    <2> QED
      BY <2>1, <2>2
  <1>18. Founded(anchor', d)
    <2>1. /\ p \in S /\ c[p].draft = d[p].draft
          /\ d[p].side # "none" => c[p].side = d[p].side
      BY <1>4, <1>6, <1>7 DEF TrueOf, Entry
    <2>2. d[p].side # "none" => Side(c) = d[p].side
      BY <1>7, <2>1
    <2> QED
      BY <1>3, <1>9, <1>14, <2>1, <2>2 DEF Founded
  <1>19. ASSUME NEW k \in DOMAIN conflicts' PROVE Late(k, d) /\ k # First(S)
    <2>1. First(S) \in S /\ \A g \in S : First(S) <= g
      BY <1>1, FirstIs
    <2>2. CASE k \in DOMAIN conflicts
      <3>1. k \in Stored /\ Late(k, Truth) /\ k # First(Stored)
        BY <2>2 DEF Covered, IInv, AnchorTypeOK
      <3>2. k # First(S)
        <4> SUFFICES ASSUME k = First(S) PROVE First(Stored) = k
          BY <3>1
        <4>1. \A g \in Stored : k <= g
          BY <2>1 DEF S
        <4> QED
          BY <1>1, <3>1, <4>1, FirstUnique
      <3> QED
        BY <1>3, <3>1, <3>2
    <2>3. CASE k \notin DOMAIN conflicts
      <3>1. k \in R /\ k \notin Trusted(r, c)
        BY <1>16, <2>3
      <3>2. k # p /\ p <= k /\ p \in S /\ k \in S
        BY <1>4, <1>7, <1>11, <3>1
      <3>3. p \in Nat /\ k \in Nat
        BY <1>1, <3>2
      <3>4. k # First(S)
        BY <2>1, <3>2, <3>3
      <3> QED
        BY <1>12, <3>1, <3>4
    <2> QED
      BY <2>2, <2>3
  <1> DEFINE v == View'
  <1>20. ASSUME NEW k \in S PROVE v[k] \in Shown /\ Entry(k, v[k], d)
    <2>1. v[k] = IF k \in DOMAIN conflicts' THEN conflicts'[k]
                 ELSE IF k \in Confirmed' THEN ShownBy(k)'
                 ELSE [draft |-> anchor'.draft, side |-> anchor'.side]
      BY <1>2 DEF View
    <2>2. CASE k \in DOMAIN conflicts
      <3>1. v[k] = conflicts[k] /\ View[k] = conflicts[k] /\ k \in Stored
        BY <1>1, <1>14, <2>1, <2>2 DEF View, AnchorTypeOK
      <3>2. conflicts[k] \in Shown /\ Entry(k, conflicts[k], Truth)
        BY <1>1, <2>2, <3>1 DEF Covered, Above, Entry, AnchorTypeOK
      <3> QED
        BY <1>5, <3>1, <3>2
    <2>3. CASE k \in DOMAIN conflicts' \ DOMAIN conflicts
      <3>1. v[k] = c[k] /\ k \in R
        BY <1>13, <1>14, <1>16, <2>1, <2>3
      <3> QED
        BY <1>4, <1>6, <3>1 DEF TrueOf, Showings
    <2>4. CASE k \notin DOMAIN conflicts'
      <3>1. v[k] = Truth'[k]
        BY <1>2, <1>17, <2>1, <2>4 DEF Truth
      <3> QED
        BY <1>2, <1>3, <3>1 DEF Entry, Showings
    <2> QED
      BY <1>16, <2>2, <2>3, <2>4
  <1>21. Above(S, v, d)
    <2>1. v = [k \in S |-> v[k]]
      BY <1>2 DEF View
    <2> HIDE DEF v
    <2>2. v \in Showings(S)
      BY <1>20, <2>1 DEF Showings
    <2> QED
      BY <1>3, <1>20, <2>2 DEF Above, Entry
  <1>22. {anchor'.frame} \cup DOMAIN conflicts' \cup Confirmed' = S
    <2>1. anchor'.frame = p /\ p \in S /\ Confirmed' \subseteq S
      BY <1>4, <1>7, <1>14, <1>15
    <2>2. DOMAIN conflicts' \subseteq S
      BY <1>4, <1>16 DEF S, IInv, AnchorTypeOK
    <2> QED
      BY <1>17, <2>1, <2>2
  <1>23. anchor'.status = "conflict" => Clashing(d) # {}
    BY <1>9, <1>14
  <1>24. Covered'
    <2> HIDE DEF v
    <2> QED
      BY <1>2, <1>19, <1>21, <1>22, <1>23 DEF Covered, v
  <1> QED
    BY <1>2, <1>16, <1>17, <1>18, <1>24 DEF S

-----------------------------------------------------------------------------
(* The steps and the theorems.                                             *)

\* A step that changes no table preserves the invariant if what it makes of the
\* open transactions is read from the tables.
LEMMA TablesStay ==
    ASSUME IInv, UNCHANGED <<anchorTables, stale, everStale>>,
           reading' \in [Watchers -> Deliveries \cup {NoDelivery}],
           \A w \in Watchers : reading'[w] # NoDelivery /\ reading'[w] # reading[w] =>
              /\ Arrived(reading'[w])
              /\ reading'[w].anchor # NoAnchor /\ Distinct
                    /\ Stored # {} /\ invalidated = {} /\ Covered /\ Backed
                 => Sound(reading'[w], Truth, DOMAIN conflicts, Confirmed)
    PROVE  IInv'
  <1>0. /\ observations' = observations /\ anchor' = anchor
        /\ conflicts' = conflicts /\ invalidated' = invalidated
        /\ stale' = stale /\ everStale' = everStale
    BY DEF anchorTables
  <1>1. Stored' = Stored /\ Confirmed' = Confirmed
    BY <1>0 DEF Stored, Confirmed
  <1>2. Truth' = Truth /\ View' = View
    BY <1>0, <1>1 DEF Truth, View, ShownBy
  <1>3. AnchorTypeOK'
    BY <1>0, <1>1 DEF IInv, AnchorTypeOK
  <1>4. (Kept' <=> Kept) /\ (Covered' <=> Covered)
    BY <1>0, <1>1, <1>2 DEF Kept, Covered, SideKnown, Early
  <1>5. (Distinct' <=> Distinct) /\ (Mended' <=> Mended)
    BY <1>0, <1>1 DEF Distinct, Mended
  <1>6. \A w \in Watchers : reading'[w] # NoDelivery => Arrived(reading[w])' 
    <2> SUFFICES ASSUME NEW w \in Watchers, reading'[w] # NoDelivery
                 PROVE  Arrived(reading[w])'
      OBVIOUS
    <2>1. Arrived(reading'[w])
      BY DEF IInv
    <2> QED
      BY <1>0, <1>1, <2>1 DEF Arrived
  <1>7. ASSUME Distinct, Stored # {}, invalidated = {}, Covered, Backed
        PROVE  Backed'
    <2> SUFFICES ASSUME NEW w \in Watchers, reading'[w] # NoDelivery,
                        reading'[w].anchor # NoAnchor
                 PROVE  Sound(reading'[w], Truth, DOMAIN conflicts, Confirmed)
      BY <1>0, <1>1, <1>2, <1>7 DEF Backed
    <2> QED
      BY <1>7 DEF Backed
  <1>8. Stored' # {} /\ invalidated' = {} =>
            /\ (everStale' => Distinct') => Covered'
            /\ Mended' => Kept'
            /\ Distinct' => Backed'
    BY <1>0, <1>1, <1>4, <1>5, <1>7 DEF IInv
  <1> QED
    BY <1>0, <1>1, <1>3, <1>6, <1>8 DEF IInv

\* The kept view covers the frames, in this state and in the next.
LEMMA KeptCoversNext == (AnchorTypeOK /\ Stored # {} /\ Kept => Covered)'
  <1>1. AnchorTypeOK /\ Stored # {} /\ Kept => Covered
    BY KeptCovers
  <1> QED
    BY <1>1, PTL

\* What has been read stays sound when a frame is added and none is forgotten.
LEMMA SoundStays ==
    ASSUME NEW S \in SUBSET Frames, S # {}, NEW t \in Showings(S),
           NEW f \in Frames, NEW shown \in Shown, f \in S => shown = t[f],
           NEW e, NEW con, NEW row, NEW con2, NEW row2, Sound(e, t, con, row),
           con \subseteq con2, row \subseteq con2 \cup row2
    PROVE  Sound(e, With(t, f, shown), con2, row2)
  <1>1. Founded(e.anchor, With(t, f, shown))
    BY FoundedStays DEF Sound
  <1>2. /\ TrueOf(e.conflicts, With(t, f, shown))
        /\ TrueOf(e.confirmed, With(t, f, shown))
    BY TrueStays DEF Sound
  <1> QED
    BY <1>1, <1>2 DEF Sound

\* The end of a delivery: the first frame, a rebuild or nothing.
LEMMA WriteStep == ASSUME IInv, NEW w \in Watchers, writes(w) PROVE IInv'
  <1> DEFINE r == reading[w]
             f == r.frame
  <1>1. /\ r.next = "write" /\ stale' = ~UpToDate(r)
        /\ everStale' = (everStale \/ stale') /\ invalidated' = invalidated
        /\ reading' = [reading EXCEPT ![w] = NoDelivery]
    BY DEF writes
  <1>2. PICK shown \in Shown :
          /\ f \in Stored => shown = ShownBy(f)
          /\ IF r.anchor = NoAnchor THEN ~Anchored /\ FirstFrame(f, shown)
             ELSE IF DOMAIN Candidates(r, shown) # {} THEN Rebuild(r, shown)
             ELSE UNCHANGED <<observations, anchor, conflicts>>
    BY DEF writes
  <1>3. r # NoDelivery /\ r \in Deliveries /\ Arrived(r) /\ f \in Frames
    <2>1. r # NoDelivery
      BY <1>1 DEF NoDelivery
    <2> QED
      BY <2>1 DEF IInv, AnchorTypeOK, Deliveries
  <1>4. /\ reading' \in [Watchers -> Deliveries \cup {NoDelivery}]
        /\ \A v \in Watchers : reading'[v] # NoDelivery => reading'[v] = reading[v]
                                                     /\ reading[v] # NoDelivery
    BY <1>1 DEF IInv, AnchorTypeOK
  <1>5. stale' \in BOOLEAN /\ everStale' \in BOOLEAN /\ (stale' => everStale')
    BY <1>1
  <1>6. CASE r.anchor = NoAnchor
    <2>1. Stored = {} /\ FirstFrame(f, shown)
      BY <1>2, <1>6, NoAnchorType DEF IInv, Anchored
    <2>2. /\ Stored' = {f} /\ DOMAIN conflicts' = {}
          /\ observations' \in [Stored' -> Observations]
          /\ conflicts' \in [DOMAIN conflicts' -> Shown]
          /\ anchor' \in Anchors /\ anchor'.frame = f /\ invalidated' = {}
          /\ Kept' /\ Founded(anchor', Truth') /\ Confirmed' = {f}
      BY <1>1, <1>3, <2>1, FirstFrameStep
    <2>3. AnchorTypeOK'
      BY <1>3, <1>4, <1>5, <2>2 DEF AnchorTypeOK
    <2>4. \A v \in Watchers : reading'[v] # NoDelivery =>
            Arrived(reading[v])' /\ reading'[v].anchor = NoAnchor
      <3> SUFFICES ASSUME NEW v \in Watchers, reading'[v] # NoDelivery
                   PROVE  Arrived(reading[v])' /\ reading'[v].anchor = NoAnchor
        OBVIOUS
      <3>1. Arrived(reading[v]) /\ reading'[v] = reading[v]
        BY <1>4 DEF IInv
      <3> QED
        BY <1>1, <2>1, <2>2, <3>1 DEF Arrived
    <2>5. Backed'
      <3>1. Founded(anchor, Truth)'
        BY <2>2
      <3>2. (anchor.frame \in DOMAIN conflicts \cup Confirmed)'
        BY <2>2
      <3> QED
        BY <2>4, <3>1, <3>2 DEF Backed
    <2>6. Covered'
      BY <2>2, <2>3, KeptCoversNext
    <2> QED
      BY <1>5, <2>2, <2>3, <2>4, <2>5, <2>6 DEF IInv
  <1>7. CASE r.anchor # NoAnchor
    <2>1. Read(r) /\ Stored # {}
      BY <1>3, <1>7 DEF Read, Deliveries, Arrived
    <2>2. CASE DOMAIN Candidates(r, shown) = {}
      <3>1. UNCHANGED <<observations, anchor, conflicts, invalidated>>
        BY <1>1, <1>2, <1>7, <2>2
      <3>2. f \in invalidated
        BY <1>3, <2>2 DEF Candidates, Arrived
      <3>3. Stored' = Stored
        BY <3>1 DEF Stored
      <3>4. AnchorTypeOK'
        BY <1>4, <1>5, <3>1, <3>3 DEF IInv, AnchorTypeOK
      <3>5. \A v \in Watchers : reading'[v] # NoDelivery => Arrived(reading[v])'
        BY <1>4, <3>1, <3>3 DEF IInv, Arrived
      <3> QED
        BY <1>5, <3>1, <3>2, <3>3, <3>4, <3>5 DEF IInv
    <2>3. CASE DOMAIN Candidates(r, shown) # {}
      <3>1. Rebuild(r, shown)
        BY <1>2, <1>7, <2>3
      <3>2. /\ Stored' = Stored \cup {f} /\ Stored' \subseteq Frames
            /\ observations' \in [Stored' -> Observations]
            /\ DOMAIN conflicts' \subseteq Stored'
            /\ conflicts' \in [DOMAIN conflicts' -> Shown]
            /\ anchor' \in Anchors /\ anchor'.frame \in Stored'
        BY <1>2, <2>1, <2>3, <3>1, RebuildType
      <3>3. AnchorTypeOK'
        BY <1>1, <1>4, <1>5, <3>2 DEF IInv, AnchorTypeOK
      <3>4. \A v \in Watchers : reading'[v] # NoDelivery => Arrived(reading[v])'
        <4> SUFFICES ASSUME NEW v \in Watchers, reading'[v] # NoDelivery
                     PROVE  Arrived(reading[v])'
          OBVIOUS
        <4>1. Arrived(reading[v]) /\ reading'[v] = reading[v]
          BY <1>4 DEF IInv
        <4> QED
          BY <1>1, <3>2, <4>1 DEF Arrived
      <3>5. ASSUME invalidated = {}
            PROVE  /\ (everStale' => Distinct') => Covered'
                   /\ Mended' => Kept'
                   /\ Distinct' => Backed'
        <4>1. Distinct' => Distinct
          BY <3>2 DEF Distinct
        <4>2. (everStale' => Distinct') => Covered
          BY <1>1, <2>1, <3>5, <4>1 DEF IInv
        <4>3. ASSUME UpToDate(r), everStale' => Distinct' PROVE Kept'
          BY <1>2, <1>3, <2>1, <2>3, <3>1, <3>5, <4>2, <4>3, RebuildKeeps
        <4>4. ASSUME Distinct' PROVE Covered' /\ Backed'
          <5>1. Covered /\ Backed
            BY <2>1, <3>5, <4>1, <4>2, <4>4 DEF IInv
          <5>2. Sound(r, Truth, DOMAIN conflicts, Confirmed)
            BY <1>3, <1>7, <5>1 DEF Backed
          <5>3. /\ Covered' /\ Founded(anchor', Truth')
                /\ Stored \cup {f} \subseteq DOMAIN conflicts' \cup Confirmed'
                /\ DOMAIN conflicts \subseteq DOMAIN conflicts'
            BY <1>1, <1>2, <1>3, <2>1, <2>3, <3>1, <3>5, <4>4, <5>1, <5>2,
               RebuildCovers
          <5>4. Truth' = With(Truth, f, shown)
            BY <1>2, <2>1, <2>3, <3>1, RebuildAdds
          <5>5. ASSUME NEW v \in Watchers, reading'[v] # NoDelivery,
                       reading'[v].anchor # NoAnchor
                PROVE  Sound(reading'[v], Truth', DOMAIN conflicts', Confirmed')
            <6>1. /\ reading'[v] = reading[v]
                  /\ Sound(reading[v], Truth, DOMAIN conflicts, Confirmed)
              BY <1>4, <5>1, <5>5 DEF Backed
            <6>2. /\ Truth \in Showings(Stored) /\ Stored \in SUBSET Frames
                  /\ Confirmed \subseteq Stored
                  /\ f \in Stored => shown = Truth[f]
              BY <1>2, TruthType DEF IInv, AnchorTypeOK, Confirmed, Truth
            <6>3. Confirmed \subseteq DOMAIN conflicts' \cup Confirmed'
              BY <5>3, <6>2
            <6>4. Sound(reading[v], With(Truth, f, shown), DOMAIN conflicts',
                        Confirmed')
              BY <1>3, <2>1, <5>3, <6>1, <6>2, <6>3, SoundStays
            <6> QED
              BY <5>4, <6>1, <6>4
          <5>6. anchor'.frame \in DOMAIN conflicts' \cup Confirmed'
            BY <3>2, <5>3
          <5>7. Backed'
            BY <5>3, <5>5, <5>6 DEF Backed
          <5> QED
            BY <5>3, <5>7
        <4>5. ASSUME everStale' => Distinct', ~Distinct' PROVE Covered'
          <5>1. UpToDate(r)
            BY <1>1, <4>5
          <5>2. Kept'
            BY <4>3, <4>5, <5>1
          <5> QED
            BY <3>2, <3>3, <5>2, KeptCoversNext
        <4>6. Mended' => Kept'
          BY <1>1, <4>3 DEF Mended
        <4> QED
          BY <4>4, <4>5, <4>6
      <3> QED
        BY <1>1, <1>5, <3>2, <3>3, <3>4, <3>5 DEF IInv
    <2> QED
      BY <2>2, <2>3
  <1> QED
    BY <1>6, <1>7

\* The statements of a delivery before it writes.
LEMMA ReadStep ==
    ASSUME IInv, NEW w \in Watchers,
           \/ \E f \in Frames : insert_vision_observation(w, f)
           \/ reads_conflicts(w) \/ reads_observations(w) \/ rolls_back(w)
    PROVE  IInv'
  <1>1. UNCHANGED <<anchorTables, stale, everStale>>
    BY DEF insert_vision_observation, reads_conflicts, reads_observations,
           rolls_back
  <1>2. ASSUME NEW d \in Deliveries \cup {NoDelivery},
               reading' = [reading EXCEPT ![w] = d],
               d # NoDelivery =>
                 /\ Arrived(d)
                 /\ d.anchor # NoAnchor /\ Distinct /\ Stored # {}
                        /\ invalidated = {} /\ Covered /\ Backed
                    => Sound(d, Truth, DOMAIN conflicts, Confirmed)
        PROVE  IInv'
    <2>1. reading' \in [Watchers -> Deliveries \cup {NoDelivery}]
      BY <1>2 DEF IInv, AnchorTypeOK
    <2>2. \A v \in Watchers : reading'[v] # reading[v] => v = w /\ reading'[v] = d
      BY <1>2 DEF IInv, AnchorTypeOK
    <2> QED
      BY <1>1, <1>2, <2>1, <2>2, TablesStay
  <1>3. ASSUME rolls_back(w) PROVE IInv'
    BY <1>2, <1>3 DEF rolls_back
  <1> DEFINE r == reading[w]
  <1>4. ASSUME r.next \in {"conflicts", "observations"}
        PROVE  r # NoDelivery /\ r \in Deliveries /\ Arrived(r)
    <2>1. r # NoDelivery
      BY <1>4 DEF NoDelivery
    <2> QED
      BY <2>1 DEF IInv, AnchorTypeOK
  <1>5. /\ Stored \subseteq Frames /\ DOMAIN conflicts \subseteq Stored
        /\ conflicts \in [DOMAIN conflicts -> Shown]
        /\ invalidated \subseteq Stored /\ Confirmed \subseteq Stored
        /\ anchor \in Anchors \cup {NoAnchor}
        /\ \A k \in Stored : ShownBy(k) \in Shown
    BY DEF IInv, AnchorTypeOK, Confirmed, ShownBy, Observations, Shown
  <1>6. ASSUME NEW f \in Frames, insert_vision_observation(w, f) PROVE IInv'
    <2> DEFINE d == [next |-> IF Anchored THEN "conflicts" ELSE "write",
                     frame |-> f, anchor |-> anchor, conflicts |-> <<>>,
                     confirmed |-> <<>>, invalidated |-> {}]
    <2>1. reading' = [reading EXCEPT ![w] = d]
      BY <1>6 DEF insert_vision_observation
    <2>2. DOMAIN <<>> = {} /\ <<>> \in Rows
      <3>1. <<>> \in [{} -> Shown]
        OBVIOUS
      <3> QED
        BY <3>1 DEF Rows
    <2>3. d \in Deliveries
      BY <1>5, <2>2 DEF Deliveries
    <2>4. Arrived(d)
      BY <2>2, NoAnchorType DEF Arrived, IInv
    <2>5. ASSUME anchor # NoAnchor, Backed
          PROVE  Sound(d, Truth, DOMAIN conflicts, Confirmed)
      <3>1. /\ Founded(anchor, Truth) /\ d.next # "write"
            /\ anchor.frame \in DOMAIN conflicts \cup Confirmed
        BY <2>5 DEF Backed, Anchored
      <3>2. TrueOf(<<>>, Truth)
        BY <2>2 DEF TrueOf
      <3> QED
        BY <3>1, <3>2 DEF Sound
    <2> HIDE DEF d
    <2> QED
      BY <1>2, <2>1, <2>3, <2>4, <2>5 DEF d
  <1>7. ASSUME reads_conflicts(w) PROVE IInv'
    <2> DEFINE d == [r EXCEPT !.next = "observations", !.conflicts = conflicts]
    <2>1. r.next = "conflicts" /\ reading' = [reading EXCEPT ![w] = d]
      BY <1>7 DEF reads_conflicts
    <2>2. /\ r # NoDelivery /\ r \in Deliveries /\ Arrived(r)
      BY <1>4, <2>1
    <2>3. /\ d.next = "observations" /\ d.conflicts = conflicts
          /\ d.frame = r.frame /\ d.anchor = r.anchor
          /\ d.confirmed = r.confirmed /\ d.invalidated = r.invalidated
      BY <2>2 DEF Deliveries
    <2>4. conflicts \in Rows
      BY <1>5 DEF Rows
    <2>5. d \in Deliveries
      BY <2>2, <2>4 DEF Deliveries
    <2> HIDE DEF d
    <2>6. Arrived(d)
      BY <1>5, <2>1, <2>2, <2>3 DEF Arrived
    <2>7. ASSUME d.anchor # NoAnchor, Covered, Backed
          PROVE  Sound(d, Truth, DOMAIN conflicts, Confirmed)
      <3>1. Sound(r, Truth, DOMAIN conflicts, Confirmed)
        BY <2>2, <2>3, <2>7 DEF Backed
      <3>2. TrueOf(conflicts, Truth)
        <4>1. \A k \in DOMAIN conflicts : View[k] = conflicts[k]
          BY <1>5 DEF View
        <4>2. DOMAIN Truth = Stored
          BY DEF Truth
        <4> QED
          BY <1>5, <2>7, <4>1, <4>2 DEF Covered, Above, TrueOf, Entry
      <3> QED
        BY <2>1, <2>2, <2>3, <3>1, <3>2 DEF Sound, Arrived
    <2> QED
      BY <1>2, <2>1, <2>5, <2>6, <2>7
  <1>8. ASSUME reads_observations(w) PROVE IInv'
    <2> DEFINE rows == [k \in Confirmed |-> ShownBy(k)]
               d == [r EXCEPT !.next = "write", !.confirmed = rows,
                              !.invalidated = invalidated]
    <2>1. r.next = "observations" /\ reading' = [reading EXCEPT ![w] = d]
      BY <1>8 DEF reads_observations
    <2>2. /\ r # NoDelivery /\ r \in Deliveries /\ Arrived(r)
      BY <1>4, <2>1
    <2>3. rows \in Rows /\ DOMAIN rows = Confirmed
      <3>1. rows \in [Confirmed -> Shown] /\ Confirmed \in SUBSET Frames
        BY <1>5
      <3> HIDE DEF rows
      <3> QED
        BY <3>1 DEF Rows
    <2>4. TrueOf(rows, Truth)
      BY <1>5 DEF TrueOf, Entry, Truth
    <2> HIDE DEF rows
    <2>5. /\ d.next = "write" /\ d.conflicts = r.conflicts
          /\ d.frame = r.frame /\ d.anchor = r.anchor
          /\ d.confirmed = rows /\ d.invalidated = invalidated
      BY <2>2 DEF Deliveries
    <2>6. d \in Deliveries
      BY <1>5, <2>2, <2>3 DEF Deliveries
    <2> HIDE DEF d
    <2>7. Arrived(d)
      BY <1>5, <2>1, <2>2, <2>3, <2>5 DEF Arrived
    <2>8. ASSUME d.anchor # NoAnchor, Backed
          PROVE  Sound(d, Truth, DOMAIN conflicts, Confirmed)
      <3>1. Sound(r, Truth, DOMAIN conflicts, Confirmed)
        BY <2>2, <2>5, <2>8 DEF Backed
      <3> QED
        BY <2>1, <2>2, <2>3, <2>4, <2>5, <3>1 DEF Sound, Arrived
    <2> QED
      BY <1>2, <2>1, <2>6, <2>7, <2>8
  <1> QED
    BY <1>3, <1>6, <1>7, <1>8

\* Every step preserves the invariant: a delivery by the lemmas above, an
\* exclusion because it invalidates something, and the operator changes no table.
LEMMA StepIInv == ASSUME IInv, [AnchorNext]_anchorVars PROVE IInv'
  <1>1. ASSUME NEW w \in Watchers, NEW f \in Frames,
               insert_vision_observation(w, f)
        PROVE  IInv'
    BY <1>1, ReadStep
  <1>2. ASSUME NEW w \in Watchers,
               reads_conflicts(w) \/ reads_observations(w) \/ rolls_back(w)
        PROVE  IInv'
    BY <1>2, ReadStep
  <1>3. ASSUME NEW w \in Watchers, writes(w) PROVE IInv'
    BY <1>3, WriteStep
  <1>4. ASSUME ExcludeMap PROVE IInv'
    <2>1. /\ Stored' = Stored /\ invalidated' = invalidated \cup Stored
          /\ \A k \in Stored : observations'[k] =
                [observations[k] EXCEPT !.confirmed = FALSE]
          /\ anchor' = anchor /\ conflicts' = conflicts
          /\ reading' = reading /\ stale' = stale /\ everStale' = everStale
          /\ invalidated' # {}
          /\ observations' = [k \in Stored |-> observations'[k]]
      BY <1>4 DEF ExcludeMap, Stored, Confirmed
    <2>2. \A k \in Stored : observations'[k] \in Observations
      BY <2>1 DEF IInv, AnchorTypeOK, Observations
    <2>3. AnchorTypeOK'
      <3>1. observations' \in [Stored' -> Observations]
        BY <2>1, <2>2
      <3> QED
        BY <2>1, <3>1 DEF IInv, AnchorTypeOK
    <2>4. \A w \in Watchers : reading'[w] # NoDelivery => Arrived(reading[w])'
      BY <2>1 DEF IInv, Arrived
    <2> QED
      BY <2>1, <2>3, <2>4 DEF IInv
  <1>5. ASSUME UNCHANGED anchorVars PROVE IInv'
    <2>1. reading' = reading /\ UNCHANGED <<anchorTables, stale, everStale>>
      BY <1>5 DEF anchorVars
    <2> QED
      BY <2>1, TablesStay DEF IInv, AnchorTypeOK
  <1>6. ASSUME NEW after, invalidate(after) PROVE IInv'
    BY <1>5, <1>6 DEF invalidate
  <1>7. ASSUME freeze_draft_map PROVE IInv'
    BY <1>5, <1>7 DEF freeze_draft_map
  <1> QED
    BY <1>1, <1>2, <1>3, <1>4, <1>5, <1>6, <1>7 DEF AnchorNext

\* What the kept view says, in the words of the property.
LEMMA KeptMeans == ASSUME IInv PROVE AnchorFollowsEventTime
  <1> SUFFICES ASSUME Mended, Stored # {}, invalidated = {}
               PROVE  AnchorFollowsEventTime
    BY DEF AnchorFollowsEventTime
  <1>1. Kept /\ AnchorTypeOK /\ Stored \in SUBSET Frames
        /\ anchor \in Anchors
    BY DEF IInv, AnchorTypeOK
  <1>2. Truth \in Showings(Stored)
    BY <1>1, TruthType
  <1> DEFINE cutoff == IF Clashing(Truth) = {} THEN Never
                       ELSE CapturedAt[First(Clashing(Truth))]
             sided == {f \in Sided(Truth) : Before(f, cutoff)}
  <1>3. cutoff = CutoffOf(Truth)
    BY DEF CutoffOf
  <1> HIDE DEF cutoff
  <1>4. /\ \A k \in Frames : Before(k, cutoff) <=> ~Late(k, Truth)
        /\ Sided(Truth) \subseteq Frames /\ Clashing(Truth) \subseteq Stored
        /\ Canonical(Truth) = First(Stored)
    BY <1>1, <1>2, <1>3, CutoffIs, RebuildReads
  <1>5. sided = Early
    BY <1>4 DEF Early
  <1>6. IF sided = {}
        THEN anchor.sideFrame = NoFrame \/ ~Before(anchor.sideFrame, cutoff)
        ELSE anchor.sideFrame = First(sided) /\ anchor.side = Side(Truth)
    <2>1. anchor.sideFrame \in Frames \cup {NoFrame}
      BY <1>1 DEF Anchors
    <2> HIDE DEF sided
    <2> QED
      BY <1>1, <1>4, <1>5, <2>1 DEF Kept, SideKnown
  <1>7. Confirmed = {f \in Stored \ Clashing(Truth) : Before(f, cutoff)}
    <2>1. \A k \in Clashing(Truth) : Late(k, Truth)
      <3>1. \A k \in Clashing(Truth) : CapturedAt[k] \in Nat
        BY <1>1, <1>4, FrameAssumption
      <3>2. \A k \in Clashing(Truth) : CapturedAt[k] <= CapturedAt[k]
        BY <3>1
      <3> QED
        BY <3>2 DEF Late
    <2> QED
      BY <1>1, <1>4, <2>1 DEF Kept
  <1>8. /\ anchor.frame = First(Stored)
        /\ anchor.draft = Truth[anchor.frame].draft
        /\ anchor.conflictAt = cutoff
        /\ anchor.status = IF cutoff = Never THEN "anchored" ELSE "conflict"
    BY <1>1, <1>3, <1>4 DEF Kept
  <1> QED
    BY <1>6, <1>7, <1>8 DEF AnchorFollowsEventTime, cutoff

\* The inductive invariant holds in every state of every run.
THEOREM Inductive == AnchorSpec => []IInv
  BY InitIInv, StepIInv, PTL DEF AnchorSpec

\* The tables of a map stay well-formed: a conflict is recorded only of a frame
\* that has arrived, and only such a frame is invalidated.
THEOREM AnchorTypeTheorem == AnchorSpec => []AnchorTypeOK
  <1>1. IInv => AnchorTypeOK
    BY DEF IInv
  <1> QED
    BY <1>1, Inductive, PTL

\* The anchor of a map is a function of the frames that have arrived, not of
\* the order in which they did, nor of the updates that two watchers lost before
\* the last delivery (_rebuild_vision_draft_anchor): for any number of watchers,
\* frames, drafts and late deliveries.
THEOREM EventTimeTheorem == AnchorSpec => []AnchorFollowsEventTime
  <1>1. IInv => AnchorFollowsEventTime
    BY KeptMeans
  <1> QED
    BY <1>1, Inductive, PTL

-----------------------------------------------------------------------------
(* The causal reading.                                                     *)

\* What is read at a cutoff, of the frames and what they showed alone.
Readable(t, c) ==
    /\ \E f \in Sided(t) : CapturedAt[f] <= c
    /\ \A k \in Clashing(t) : CapturedAt[k] > c

Reading(t, c) ==
    IF Readable(t, c) THEN {[draft |-> t[Canonical(t)].draft, side |-> Side(t)]}
    ELSE {}

\* The conflict times that matter to a reader are those of the clashes.
LEMMA FreeOfConflict ==
    ASSUME IInv, Mended, Stored # {}, invalidated = {}, NEW c \in Nat
    PROVE  ConflictFree(c) <=> \A k \in Clashing(Truth) : CapturedAt[k] > c
  <1>1. /\ Kept /\ Stored \in SUBSET Frames /\ Truth \in Showings(Stored)
        /\ \A k \in Frames : CapturedAt[k] \in Nat
    BY TruthType, FrameAssumption DEF IInv, AnchorTypeOK
  <1>2. /\ Clashing(Truth) \in SUBSET Frames
        /\ CutoffOf(Truth) = Never <=> Clashing(Truth) = {}
    BY <1>1, CutoffIs, RebuildReads
  <1> DEFINE m == First(Clashing(Truth))
  <1>3. ASSUME Clashing(Truth) # {}
        PROVE  /\ m \in Clashing(Truth) /\ CutoffOf(Truth) = CapturedAt[m]
               /\ \A k \in Clashing(Truth) : CapturedAt[m] <= CapturedAt[k]
    BY <1>2, <1>3, FirstIs DEF CutoffOf
  <1> HIDE DEF m
  <1>4. ASSUME ConflictFree(c), NEW k \in Clashing(Truth)
        PROVE  CapturedAt[k] > c
    <2>1. anchor.conflictAt = CapturedAt[m] /\ anchor.status = "conflict"
      BY <1>1, <1>2, <1>3, <1>4 DEF Kept
    <2>2. CapturedAt[m] \in ConflictTimes
      BY <2>1 DEF ConflictTimes
    <2>3. CapturedAt[m] > c
      BY <1>4, <2>2 DEF ConflictFree
    <2> QED
      BY <1>1, <1>2, <1>3, <1>4, <2>3
  <1>5. ASSUME \A k \in Clashing(Truth) : CapturedAt[k] > c,
               NEW t \in ConflictTimes
        PROVE  t > c
    <2>1. CASE \E k \in DOMAIN conflicts : t = CapturedAt[k]
      <3>1. PICK k \in DOMAIN conflicts : t = CapturedAt[k]
        BY <2>1
      <3>2. k \in Stored /\ Late(k, Truth)
        BY <1>1 DEF Kept
      <3>3. PICK j \in Clashing(Truth) : CapturedAt[j] <= CapturedAt[k]
        BY <3>2 DEF Late
      <3> QED
        BY <1>1, <1>2, <1>5, <3>1, <3>2, <3>3
    <2>2. CASE anchor.status = "conflict" /\ t = anchor.conflictAt
      <3>1. Clashing(Truth) # {}
        BY <1>1, <1>2, <2>2 DEF Kept
      <3> QED
        BY <1>1, <1>3, <1>5, <2>2, <3>1 DEF Kept
    <2> QED
      BY <2>1, <2>2 DEF ConflictTimes, Intrinsic
  <1> QED
    BY <1>4, <1>5 DEF ConflictFree

\* Of a map that was not excluded, the reading follows from its frames.
LEMMA ReadingIs ==
    ASSUME IInv, Mended, Stored # {}, invalidated = {}, NEW c \in Nat
    PROVE  vision_drafts(c) = Reading(Truth, c)
  <1> DEFINE T == Truth
  <1>1. /\ Kept /\ Stored \in SUBSET Frames /\ T \in Showings(Stored)
        /\ \A k \in Frames : k \in Nat /\ CapturedAt[k] \in Nat
        /\ Anchored /\ Confirmed \subseteq Stored
    BY TruthType, FrameAssumption, NoAnchorType
       DEF IInv, AnchorTypeOK, Anchored, Confirmed
  <1>2. /\ Canonical(T) = First(Stored) /\ First(Stored) \in Stored
        /\ Sided(T) = {k \in Stored : /\ T[k].side # "none"
                                      /\ T[k].draft = T[First(Stored)].draft}
        /\ Sided(T) # {} => /\ First(Sided(T)) \in Sided(T)
                            /\ Side(T) = T[First(Sided(T))].side
        /\ Clashing(T) \in SUBSET Stored
    BY <1>1, RebuildReads
  <1>3. /\ Sided(T) # {} => \A k \in Sided(T) :
                CapturedAt[First(Sided(T))] <= CapturedAt[k]
        /\ \A k \in Stored : CapturedAt[First(Stored)] <= CapturedAt[k]
    BY <1>1, <1>2, FirstIs
  <1>4. ConflictFree(c) <=> \A k \in Clashing(T) : CapturedAt[k] > c
    BY FreeOfConflict
  <1>5. \A k \in Stored : T[k].draft = observations[k].draft
                          /\ T[k].side = observations[k].side
    BY DEF Truth, ShownBy
  <1>6. ASSUME NEW f \in Early
        PROVE  /\ First(Sided(T)) \in Early /\ Sided(T) # {}
               /\ anchor.sideFrame = First(Sided(T)) /\ anchor.side = Side(T)
    <2>1. f \in Sided(T) /\ ~Late(f, T)
      BY <1>6 DEF Early
    <2>2. CapturedAt[First(Sided(T))] <= CapturedAt[f]
      BY <1>3, <2>1
    <2>3. ~Late(First(Sided(T)), T)
      <3> SUFFICES ASSUME NEW j \in Clashing(T),
                          CapturedAt[j] <= CapturedAt[First(Sided(T))]
                   PROVE  FALSE
        BY DEF Late
      <3>1. CapturedAt[j] <= CapturedAt[f]
        BY <1>1, <1>2, <2>1, <2>2
      <3> QED
        BY <2>1, <3>1 DEF Late
    <2>4. First(Sided(T)) \in Early
      BY <1>2, <2>1, <2>3 DEF Early
    <2>5. /\ First(Sided(T)) \in Nat
          /\ \A k \in Early : First(Sided(T)) <= k
      <3>1. Sided(T) \in SUBSET Frames /\ Early \subseteq Sided(T)
        BY <1>1, <1>2 DEF Early
      <3> QED
        BY <1>1, <2>1, <3>1, FirstIs
    <2>6. Early \in SUBSET Frames
      BY <1>1, <1>2 DEF Early
    <2>7. First(Early) = First(Sided(T))
      BY <2>4, <2>5, <2>6, FirstUnique
    <2> QED
      BY <1>1, <2>1, <2>4, <2>7 DEF Kept, SideKnown
  <1> HIDE DEF T
  <1>7. ASSUME NEW f \in Frames, Witness(f, c), anchor.side # "none"
        PROVE  f \in Early /\ CapturedAt[f] <= c
    <2>1. /\ f \in Confirmed /\ observations[f].draft = anchor.draft
          /\ observations[f].side = anchor.side
      BY <1>7 DEF Witness
    <2>2. f \in Stored /\ ~Late(f, Truth) /\ anchor.draft = Truth[First(Stored)].draft
      BY <1>1, <2>1 DEF Kept
    <2>3. f \in Early
      BY <1>2, <1>5, <1>7, <2>1, <2>2 DEF Early, T
    <2>4. CapturedAt[f] <= c
      <3>1. anchor.sideFrame \in Frames
        BY <1>1, <1>2, <1>6, <2>3
      <3>2. CapturedAt[f] \in CapturedAt[anchor.sideFrame] .. c
        BY <1>7 DEF Witness
      <3> QED
        BY <1>1, <3>1, <3>2
    <2> QED
      BY <2>3, <2>4
  <1>8. ASSUME Readable(T, c)
        PROVE  /\ anchor.side # "none" /\ anchor.side = Side(T)
               /\ CapturedAt[anchor.frame] <= c
               /\ CapturedAt[anchor.sideFrame] <= c
               /\ \E f \in Frames : Witness(f, c)
    <2>1. PICK g \in Sided(T) : CapturedAt[g] <= c
      BY <1>8 DEF Readable
    <2>2. ~Late(g, T)
      <3> SUFFICES ASSUME NEW j \in Clashing(T), CapturedAt[j] <= CapturedAt[g]
                   PROVE  FALSE
        BY DEF Late
      <3>1. CapturedAt[j] > c
        BY <1>8 DEF Readable
      <3> QED
        BY <1>1, <1>2, <2>1, <3>1
    <2>3. g \in Early
      BY <2>1, <2>2 DEF Early, T
    <2> DEFINE s == First(Sided(T))
    <2>4. /\ s \in Early /\ anchor.sideFrame = s /\ anchor.side = Side(T)
          /\ s \in Sided(T)
      BY <1>2, <1>6, <2>3
    <2>5. CapturedAt[s] <= c
      BY <1>1, <1>2, <1>3, <2>1, <2>4
    <2>6. anchor.side # "none" /\ T[s].side = anchor.side
          /\ T[s].draft = T[First(Stored)].draft /\ s \in Stored
      BY <1>2, <2>4
    <2>7. CapturedAt[anchor.frame] <= c
      BY <1>1, <1>2, <1>3, <2>5, <2>6 DEF Kept
    <2>8. Witness(s, c)
      <3>1. s \in Confirmed /\ anchor.draft = T[First(Stored)].draft
        BY <1>1, <2>4, <2>6 DEF Kept, Early, T
      <3>2. CapturedAt[s] \in CapturedAt[anchor.sideFrame] .. c
        BY <1>1, <2>4, <2>5, <2>6
      <3> QED
        BY <1>5, <2>6, <3>1, <3>2 DEF Witness
    <2> QED
      BY <1>1, <2>4, <2>5, <2>6, <2>7, <2>8
  <1>9. anchor.draft = T[Canonical(T)].draft
    BY <1>1, <1>2 DEF Kept, T
  <1>10. CASE Readable(T, c)
    <2>1. ConflictFree(c)
      BY <1>4, <1>10 DEF Readable
    <2> QED
      BY <1>1, <1>8, <1>9, <1>10, <2>1 DEF vision_drafts, Reading, T
  <1>11. CASE ~Readable(T, c)
    <2>1. vision_drafts(c) = {}
      <3> SUFFICES ASSUME anchor.side # "none", ConflictFree(c),
                          NEW f \in Frames, Witness(f, c)
                   PROVE  FALSE
        BY DEF vision_drafts
      <3>1. f \in Early /\ CapturedAt[f] <= c
        BY <1>7
      <3> QED
        BY <1>4, <1>11, <3>1 DEF Readable, Early, T
    <2> QED
      BY <1>11, <2>1 DEF Reading, T
  <1> QED
    BY <1>10, <1>11

\* The same of every cutoff.
LEMMA ReadingOf ==
    IInv /\ Mended /\ Stored # {} /\ invalidated = {}
        => \A c \in Nat : vision_drafts(c) = Reading(Truth, c)
  BY ReadingIs

\* And of the next state.
LEMMA ReadingNext ==
    (IInv /\ Mended /\ Stored # {} /\ invalidated = {}
        => \A c \in Nat : vision_drafts(c) = Reading(Truth, c))'
  BY ReadingOf, PTL

\* A frame from after the cutoff does not change the reading.
LEMMA LaterFrame ==
    ASSUME NEW S \in SUBSET Frames, S # {}, NEW t \in Showings(S),
           NEW f \in Frames \ S, NEW shown \in Shown,
           NEW c \in Nat, CapturedAt[f] > c
    PROVE  Reading(With(t, f, shown), c) = Reading(t, c)
  <1> DEFINE d == With(t, f, shown)
             R == S \cup {f}
  <1>1. /\ R \in SUBSET Frames /\ R # {} /\ d \in Showings(R)
        /\ \A k \in S : d[k] = t[k]
        /\ \A k \in Frames : k \in Nat /\ CapturedAt[k] \in Nat
    BY FrameAssumption DEF With, Showings
  <1>2. /\ Canonical(t) = First(S) /\ First(S) \in S
        /\ Sided(t) = {k \in S : /\ t[k].side # "none"
                                 /\ t[k].draft = t[First(S)].draft}
        /\ Sided(t) # {} => /\ First(Sided(t)) \in Sided(t)
                            /\ \A k \in Sided(t) : First(Sided(t)) <= k
                            /\ Side(t) = t[First(Sided(t))].side
        /\ Clashing(t) = {k \in S : \/ t[k].draft # t[First(S)].draft
                                    \/ t[k].side \notin {"none", Side(t)}}
    BY RebuildReads
  <1> HIDE DEF d, R
  <1>3. /\ Canonical(d) = First(R) /\ First(R) \in R
        /\ Sided(d) = {k \in R : /\ d[k].side # "none"
                                 /\ d[k].draft = d[First(R)].draft}
        /\ Sided(d) # {} => /\ First(Sided(d)) \in Sided(d)
                            /\ \A k \in Sided(d) : First(Sided(d)) <= k
                            /\ Side(d) = d[First(Sided(d))].side
        /\ Clashing(d) = {k \in R : \/ d[k].draft # d[First(R)].draft
                                    \/ d[k].side \notin {"none", Side(d)}}
    BY <1>1, RebuildReads
  <1>4. ASSUME NEW g \in Frames, CapturedAt[g] <= c PROVE g < f
    <2>1. ~(f <= g)
      <3> SUFFICES ASSUME f <= g PROVE FALSE
        OBVIOUS
      <3>1. CapturedAt[f] <= CapturedAt[g]
        BY InOrder
      <3> QED
        BY <1>1, <1>4, <3>1
    <2> QED
      BY <1>1, <2>1
  <1>5. CASE \E k \in S : CapturedAt[k] <= c
    <2>1. PICK k \in S : CapturedAt[k] <= c
      BY <1>5
    <2>2. First(S) <= k /\ k < f /\ \A g \in S : First(S) <= g
      BY <1>4, <2>1, FirstIs
    <2>3. First(S) \in Nat /\ k \in Nat /\ f \in Nat
      BY <1>1, <1>2
    <2>4. \A g \in R : First(S) <= g
      BY <2>2, <2>3 DEF R
    <2>5. First(R) = First(S)
      BY <1>1, <1>2, <2>4, FirstUnique DEF R
    <2>6. /\ \A g \in S : g \in Sided(d) <=> g \in Sided(t)
          /\ Sided(t) \subseteq Sided(d) /\ Sided(d) \subseteq Sided(t) \cup {f}
      BY <1>1, <1>2, <1>3, <2>5 DEF R
    <2>7. (\E g \in Sided(d) : CapturedAt[g] <= c)
            <=> (\E g \in Sided(t) : CapturedAt[g] <= c)
      BY <1>1, <2>6
    <2>8. ASSUME NEW g \in Sided(t), CapturedAt[g] <= c
          PROVE  /\ Side(d) = Side(t)
                 /\ (\A j \in Clashing(d) : CapturedAt[j] > c)
                      <=> (\A j \in Clashing(t) : CapturedAt[j] > c)
      <3> DEFINE s == First(Sided(t))
      <3>1. s \in Sided(t) /\ s <= g /\ g < f /\ s \in S /\ g \in S
        BY <1>2, <1>4, <2>8
      <3>2. \A j \in Sided(d) : s <= j
        BY <1>1, <1>2, <2>6, <2>8, <3>1
      <3>3. Sided(d) \in SUBSET Frames /\ s \in Sided(d)
        BY <1>1, <1>3, <2>6, <3>1
      <3>4. First(Sided(d)) = s
        BY <3>2, <3>3, FirstUnique
      <3>5. Side(d) = Side(t)
        BY <1>1, <1>2, <1>3, <3>1, <3>3, <3>4
      <3>6. Clashing(t) \subseteq Clashing(d)
            /\ Clashing(d) \subseteq Clashing(t) \cup {f}
        BY <1>1, <1>2, <1>3, <2>5, <3>5 DEF R
      <3> QED
        BY <3>5, <3>6
    <2>9. Readable(d, c) <=> Readable(t, c)
      BY <2>7, <2>8 DEF Readable
    <2>10. Readable(t, c) => Side(d) = Side(t)
      BY <2>8 DEF Readable
    <2>11. d[Canonical(d)] = t[Canonical(t)]
      BY <1>1, <1>2, <1>3, <2>5
    <2> QED
      BY <2>9, <2>10, <2>11 DEF Reading, d
  <1>6. CASE ~\E k \in S : CapturedAt[k] <= c
    <2>1. \A k \in R : CapturedAt[k] > c
      BY <1>1, <1>6 DEF R
    <2>2. ~Readable(t, c) /\ ~Readable(d, c)
      BY <1>1, <1>2, <1>3, <2>1 DEF Readable, R
    <2> QED
      BY <2>2 DEF Reading, d
  <1> QED
    BY <1>5, <1>6

\* What CausalReadIsStable says of one step.
ReadStable ==
    \A c \in {CapturedAt[f] : f \in Frames} :
        /\ Mended /\ Mended' /\ invalidated' = {}
        /\ \A f \in (DOMAIN observations') \ Stored : CapturedAt[f] > c
        => vision_drafts(c)' = vision_drafts(c)

\* The tables alone are read.
LEMMA SameReading ==
    ASSUME UNCHANGED anchorTables, NEW c
    PROVE  vision_drafts(c)' = vision_drafts(c)
  <1>1. /\ observations' = observations /\ anchor' = anchor
        /\ conflicts' = conflicts /\ invalidated' = invalidated
    BY DEF anchorTables
  <1>2. Confirmed' = Confirmed /\ Intrinsic' = Intrinsic
    BY <1>1 DEF Confirmed, Stored, Intrinsic
  <1>3. ConflictFree(c)' = ConflictFree(c)
    BY <1>1, <1>2 DEF ConflictFree, ConflictTimes
  <1>4. \A f \in Frames : Witness(f, c)' = Witness(f, c)
    BY <1>1, <1>2 DEF Witness
  <1> QED
    BY <1>1, <1>3, <1>4 DEF vision_drafts, Anchored

\* The end of a delivery, whether of the first frame, a new or a known one.
LEMMA DeliveryIsStable ==
    ASSUME IInv, IInv', NEW w \in Watchers, writes(w)
    PROVE  ReadStable
  <1> SUFFICES ASSUME NEW c \in {CapturedAt[g] : g \in Frames},
                      Mended, Mended', invalidated' = {},
                      \A g \in (DOMAIN observations') \ Stored : CapturedAt[g] > c
               PROVE  vision_drafts(c)' = vision_drafts(c)
    BY DEF ReadStable
  <1> DEFINE r == reading[w]
  <1>0. /\ r.next = "write" /\ r # NoDelivery /\ r \in Deliveries /\ Arrived(r)
        /\ r.frame \in Frames
    <2>1. r.next = "write" /\ r # NoDelivery
      BY DEF writes, NoDelivery
    <2> QED
      BY <2>1 DEF IInv, AnchorTypeOK, Deliveries
  <1>11. PICK f \in Frames : f = r.frame
    BY <1>0
  <1>1. PICK shown \in Shown :
          /\ f \in Stored => shown = ShownBy(f)
          /\ IF r.anchor = NoAnchor THEN ~Anchored /\ FirstFrame(f, shown)
             ELSE IF DOMAIN Candidates(r, shown) # {} THEN Rebuild(r, shown)
             ELSE UNCHANGED <<observations, anchor, conflicts>>
    BY <1>11 DEF writes
  <1>9. r.anchor = NoAnchor => Stored = {}
    BY <1>1, NoAnchorType DEF IInv, Anchored
  <1>10. r.anchor # NoAnchor => Read(r) /\ Stored # {}
    BY <1>0 DEF Read, Deliveries, Arrived
  <1>2. invalidated' = invalidated /\ invalidated = {}
    BY DEF writes
  <1>3. /\ c \in Nat /\ Stored \in SUBSET Frames /\ Truth \in Showings(Stored)
        /\ \A k \in Frames : CapturedAt[k] \in Nat
    BY TruthType, FrameAssumption DEF IInv, AnchorTypeOK
  <1>4. Anchored <=> Stored # {}
    BY NoAnchorType DEF IInv, Anchored
  <1>5. Stored' # {} => vision_drafts(c)' = Reading(Truth', c)
    <2>1. (IInv /\ Mended /\ Stored # {} /\ invalidated = {}
              => \A e \in Nat : vision_drafts(e) = Reading(Truth, e))'
      BY ReadingNext
    <2>2. Stored' # {} => vision_drafts(c)' = Reading(Truth, c)'
      BY <1>2, <1>3, <2>1
    <2>3. Reading(Truth, c)' = Reading(Truth', c)
      BY DEF Reading, Readable, Sided, Side, SideFrame, Clashing, Canonical, First
    <2> QED
      BY <2>2, <2>3
  <1>6. CASE Stored = {}
    <2>1. FirstFrame(f, shown)
      BY <1>1, <1>6, <1>10
    <2>2. Stored' = {f}
      BY <2>1 DEF FirstFrame, Stored
    <2>3. CapturedAt[f] > c
      BY <1>6, <2>2 DEF Stored
    <2>4. vision_drafts(c) = {}
      BY <1>4, <1>6 DEF vision_drafts
    <2>5. Truth' \in Showings({f})
      BY <2>1, <2>2 DEF FirstFrame, Truth, ShownBy, Showings, Shown
    <2>6. Sided(Truth') \subseteq {f}
      BY <2>5, RebuildReads
    <2>7. Reading(Truth', c) = {}
      BY <1>3, <2>3, <2>6 DEF Reading, Readable
    <2> QED
      BY <1>5, <2>2, <2>4, <2>7
  <1>7. CASE Stored # {} /\ DOMAIN Candidates(r, shown) # {}
    <2>1. Rebuild(r, shown) /\ Read(r)
      BY <1>1, <1>7, <1>9, <1>10
    <2>2. Truth' = With(Truth, f, shown) /\ Stored' = Stored \cup {f}
      BY <1>1, <1>2, <1>7, <1>11, <2>1, RebuildAdds
    <2>3. vision_drafts(c) = Reading(Truth, c)
      BY <1>2, <1>3, <1>7, ReadingIs
    <2>4. Reading(With(Truth, f, shown), c) = Reading(Truth, c)
      <3>1. CASE f \in Stored
        <4>1. shown = Truth[f]
          BY <1>1, <3>1 DEF Truth
        <4> QED
          BY <1>3, <3>1, <4>1, SameAgain
      <3>2. CASE f \notin Stored
        <4>1. CapturedAt[f] > c
          BY <2>2, <3>2 DEF Stored
        <4> QED
          BY <1>3, <1>7, <3>2, <4>1, LaterFrame
      <3> QED
        BY <3>1, <3>2
    <2> QED
      BY <1>5, <2>2, <2>3, <2>4
  <1>8. CASE Stored # {} /\ DOMAIN Candidates(r, shown) = {}
    <2>1. UNCHANGED <<observations, anchor, conflicts, invalidated>>
      BY <1>1, <1>2, <1>8, <1>9
    <2> QED
      BY <2>1, SameReading DEF anchorTables
  <1> QED
    BY <1>6, <1>7, <1>8

\* What is read at a causal cutoff stays what it is, of a map that was never
\* excluded and as long as no update is lost, whatever arrives later and in
\* whatever order (_vision_drafts).
THEOREM CausalTheorem == AnchorSpec => CausalReadIsStable
  <1>1. IInv /\ IInv' /\ [AnchorNext]_anchorVars => [ReadStable]_anchorVars
    <2> SUFFICES ASSUME IInv, IInv', AnchorNext PROVE [ReadStable]_anchorVars
      OBVIOUS
    <2>1. ASSUME NEW w \in Watchers, writes(w) PROVE ReadStable
      BY <2>1, DeliveryIsStable
    <2>5. ASSUME UNCHANGED anchorTables PROVE ReadStable
      BY <2>5, SameReading DEF ReadStable
    <2>6. ASSUME NEW w \in Watchers,
                 \/ \E f \in Frames : insert_vision_observation(w, f)
                 \/ reads_conflicts(w) \/ reads_observations(w) \/ rolls_back(w)
          PROVE  ReadStable
      BY <2>5, <2>6 DEF insert_vision_observation, reads_conflicts,
                        reads_observations, rolls_back
    <2>2. ASSUME ExcludeMap PROVE ReadStable
      <3>1. invalidated' # {}
        BY <2>2 DEF ExcludeMap, Stored, Confirmed
      <3> QED
        BY <3>1 DEF ReadStable
    <2>3. ASSUME NEW f \in Frames, invalidate(CapturedAt[f])
          PROVE  [ReadStable]_anchorVars
      BY <2>3 DEF invalidate
    <2>4. ASSUME freeze_draft_map PROVE [ReadStable]_anchorVars
      BY <2>4 DEF freeze_draft_map
    <2> QED
      BY <2>1, <2>2, <2>3, <2>4, <2>6 DEF AnchorNext
  <1>2. [ReadStable]_anchorVars =>
            [\A c \in {CapturedAt[f] : f \in Frames} :
                /\ Mended /\ Mended' /\ invalidated' = {}
                /\ \A f \in (DOMAIN observations') \ Stored : CapturedAt[f] > c
                => vision_drafts(c)' = vision_drafts(c)]_anchorVars
    BY DEF ReadStable
  <1> QED
    BY <1>1, <1>2, Inductive, PTL DEF AnchorSpec, CausalReadIsStable
=============================================================================
