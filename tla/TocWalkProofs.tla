---------------------------- MODULE TocWalkProofs ----------------------------
(***************************************************************************)
(* The ancestor walk of src/toc.js, lines 24-32, proved for every chapter *)
(* tree: once the walk for an active link is over, every section heading *)
(* above it has been given class "expanded" by the walk.                   *)
(*                                                                         *)
(* AncestorsOf is a recursive function.  Its defining equation is not an  *)
(* axiom: it is proved below by exhibiting the function it denotes, the   *)
(* entries reachable from e by one or more ParentEntry links.              *)
(***************************************************************************)
EXTENDS TocProofs

-----------------------------------------------------------------------------
(* The defining equation of AncestorsOf.                                   *)

\* c is a chain of n parent links from entry e up to entry p.
IsParentChain(c, n, e, p) ==
    /\ c \in [0..n -> Entry]
    /\ c[0] = e
    /\ c[n] = p
    /\ \A k \in 0..(n - 1) : ParentEntry[c[k]] = c[k + 1]

\* The entries reachable from e by one or more parent links.
Reach(e) == {p \in Entry : \E n \in Nat \ {0} : \E c \in [0..n -> Entry] : IsParentChain(c, n, e, p)}

\* A top-level entry reaches nothing: its first link would lead to 0.
LEMMA ReachTop ==
    ASSUME NEW e \in Entry, ParentEntry[e] = 0
    PROVE  Reach(e) = {}
<1> USE ParentAssumption DEF ParentAssumption, Entry
<1> SUFFICES ASSUME NEW p \in Reach(e) PROVE FALSE
  OBVIOUS
<1>0. PICK n \in Nat \ {0} : \E c \in [0..n -> Entry] : IsParentChain(c, n, e, p)
  BY DEF Reach
<1>1. PICK c \in [0..n -> Entry] : IsParentChain(c, n, e, p)
  BY <1>0
<1>2. ParentEntry[c[0]] = c[1] /\ c[1] \in Entry
  BY <1>1 DEF IsParentChain
<1>3. QED
  BY <1>1, <1>2 DEF IsParentChain

\* Below the top level, e reaches its parent and what its parent reaches.
LEMMA ReachStep ==
    ASSUME NEW e \in Entry, ParentEntry[e] # 0
    PROVE  Reach(e) = {ParentEntry[e]} \cup Reach(ParentEntry[e])
<1> USE ParentAssumption DEF ParentAssumption, Entry
<1> DEFINE q == ParentEntry[e]
<1>1. q \in Entry
  OBVIOUS
<1>2. ASSUME NEW p \in Reach(e) PROVE p \in {q} \cup Reach(q)
  <2>0. PICK n \in Nat \ {0} : \E c \in [0..n -> Entry] : IsParentChain(c, n, e, p)
    BY DEF Reach
  <2>1. PICK c \in [0..n -> Entry] : IsParentChain(c, n, e, p)
    BY <2>0
  <2>2. c[1] = q
    BY <2>1 DEF IsParentChain
  <2>3. CASE n = 1
    BY <2>1, <2>2, <2>3 DEF IsParentChain
  <2>4. CASE n # 1
    <3> DEFINE d == [k \in 0..(n - 1) |-> c[k + 1]]
    <3>1. n - 1 \in Nat \ {0}
      BY <2>4
    <3>2. \A k \in 0..(n - 1) : k + 1 \in 0..n
      BY <3>1
    <3>3. d \in [0..(n - 1) -> Entry]
      BY <3>2
    <3>4. d[0] = q /\ d[n - 1] = p
      BY <2>1, <2>2, <3>1 DEF IsParentChain
    <3>5. ASSUME NEW k \in 0..(n - 1 - 1) PROVE ParentEntry[d[k]] = d[k + 1]
      <4>1. k \in 0..(n - 1) /\ k + 1 \in 0..(n - 1) /\ k + 1 \in 0..(n - 1) /\ k + 1 + 1 \in 0..n
        BY <3>1
      <4>2. d[k] = c[k + 1] /\ d[k + 1] = c[k + 1 + 1]
        BY <4>1
      <4>3. ParentEntry[c[k + 1]] = c[k + 1 + 1]
        BY <2>1, <4>1 DEF IsParentChain
      <4>4. QED
        BY <4>2, <4>3
    <3>6. IsParentChain(d, n - 1, q, p)
      BY <3>3, <3>4, <3>5 DEF IsParentChain
    <3>7. QED
      BY <3>1, <3>3, <3>6 DEF Reach
  <2>5. QED
    BY <2>3, <2>4
<1>3. q \in Reach(e)
  <2> DEFINE c == [k \in 0..1 |-> IF k = 0 THEN e ELSE q]
  <2>1. c \in [0..1 -> Entry]
    BY <1>1
  <2>2. IsParentChain(c, 1, e, q)
    BY <2>1 DEF IsParentChain
  <2>3. \E cc \in [0..1 -> Entry] : IsParentChain(cc, 1, e, q)
    BY <2>1, <2>2
  <2>4. \E n \in Nat \ {0} : \E cc \in [0..n -> Entry] : IsParentChain(cc, n, e, q)
    <3>1. 1 \in Nat \ {0}
      OBVIOUS
    <3>2. QED
      BY <2>3, <3>1, Zenon
  <2>5. QED
    BY <1>1, <2>4 DEF Reach
<1>4. ASSUME NEW p \in Reach(q) PROVE p \in Reach(e)
  <2>0. PICK m \in Nat \ {0} : \E d \in [0..m -> Entry] : IsParentChain(d, m, q, p)
    BY DEF Reach
  <2>1. PICK d \in [0..m -> Entry] : IsParentChain(d, m, q, p)
    BY <2>0
  <2>2. m + 1 \in Nat \ {0}
    BY <2>0
  \* e followed by the chain d.
  <2>3. PICK c \in [0..(m + 1) -> Entry] :
               \A k \in 0..(m + 1) : c[k] = IF k = 0 THEN e ELSE d[k - 1]
    <3> DEFINE ext == [k \in 0..(m + 1) |-> IF k = 0 THEN e ELSE d[k - 1]]
    <3>1. ASSUME NEW k \in 0..(m + 1) PROVE ext[k] \in Entry
      <4>1. CASE k = 0
        BY <4>1
      <4>2. CASE k # 0
        <5>1. k - 1 \in 0..m
          BY <4>2
        <5>2. QED
          BY <2>1, <4>2, <5>1
      <4>3. QED
        BY <4>1, <4>2
    <3>2. ext \in [0..(m + 1) -> Entry]
      BY <3>1, Zenon
    <3>3. QED
      BY <3>2
  <2>4. c[0] = e /\ c[m + 1] = p
    BY <2>1, <2>3 DEF IsParentChain
  <2>5. ASSUME NEW k \in 0..(m + 1 - 1) PROVE ParentEntry[c[k]] = c[k + 1]
    <3>1. CASE k = 0
      BY <2>1, <2>3, <3>1 DEF IsParentChain
    <3>2. CASE k # 0
      <4>1. k - 1 \in 0..(m - 1) /\ k + 1 \in 0..(m + 1) /\ k \in 0..(m + 1)
        BY <3>2
      <4>2. c[k] = d[k - 1]
        BY <2>3, <3>2, <4>1
      <4>3. c[k + 1] = d[k]
        <5>1. k + 1 # 0 /\ k + 1 - 1 = k
          BY <4>1
        <5>2. QED
          BY <2>3, <4>1, <5>1
      <4>4. ParentEntry[d[k - 1]] = d[k - 1 + 1] /\ k - 1 + 1 = k
        <5>1. \A j \in 0..(m - 1) : ParentEntry[d[j]] = d[j + 1]
          BY <2>1 DEF IsParentChain
        <5>2. k - 1 \in 0..(m - 1)
          BY <4>1
        <5>3. ParentEntry[d[k - 1]] = d[k - 1 + 1]
          BY <5>1, <5>2, Zenon
        <5>4. k - 1 + 1 = k
          OBVIOUS
        <5>5. QED
          BY <5>3, <5>4
      <4>5. QED
        BY <4>2, <4>3, <4>4
    <3>3. QED
      BY <3>1, <3>2
  <2>6. \A k \in 0..(m + 1 - 1) : ParentEntry[c[k]] = c[k + 1]
    BY <2>5
  <2>7. IsParentChain(c, m + 1, e, p)
    BY <2>3, <2>4, <2>6 DEF IsParentChain
  <2>8. QED
    BY <1>4, <2>2, <2>3, <2>7 DEF Reach
<1>5. QED
  BY <1>2, <1>3, <1>4

\* The equation of AncestorsOf, for every tree whose parents precede
\* their children: the function of Reach satisfies it, so the function
\* the definition chooses does too.
LEMMA AncestorsEq ==
    ASSUME NEW e \in Entry
    PROVE  AncestorsOf[e] = IF ParentEntry[e] = 0 THEN {}
                            ELSE {ParentEntry[e]} \cup AncestorsOf[ParentEntry[e]]
<1> USE ParentAssumption DEF ParentAssumption, Entry
<1> DEFINE g == [x \in Entry |-> Reach(x)]
<1>1. g = [x \in Entry |-> IF ParentEntry[x] = 0 THEN {} ELSE {ParentEntry[x]} \cup g[ParentEntry[x]]]
  <2>1. ASSUME NEW x \in Entry
        PROVE  g[x] = IF ParentEntry[x] = 0 THEN {} ELSE {ParentEntry[x]} \cup g[ParentEntry[x]]
    <3>1. CASE ParentEntry[x] = 0
      BY <3>1, ReachTop
    <3>2. CASE ParentEntry[x] # 0
      <4>1. ParentEntry[x] \in Entry
        BY <3>2
      <4>2. QED
        BY <3>2, <4>1, ReachStep
    <3>3. QED
      BY <3>1, <3>2
  <2>2. QED
    BY <2>1
<1>2. \E f : f = [x \in Entry |-> IF ParentEntry[x] = 0 THEN {} ELSE {ParentEntry[x]} \cup f[ParentEntry[x]]]
  BY <1>1
<1>3. AncestorsOf = [x \in Entry |-> IF ParentEntry[x] = 0 THEN {} ELSE {ParentEntry[x]} \cup AncestorsOf[ParentEntry[x]]]
  BY <1>2 DEF AncestorsOf
<1>4. QED
  BY <1>3

USE NAssumption, ParentAssumption, PrevSiblingAssumption, HrefAssumption,
    PagesAssumption, ExpandedAssumption, OffsetsAssumption
USE DEF NAssumption, ParentAssumption, PrevSiblingAssumption, HrefAssumption,
    PagesAssumption, ExpandedAssumption, OffsetsAssumption, Entry

-----------------------------------------------------------------------------
(* The inductive invariant of the walk.                                    *)

\* The headings above element x of the chapter list that the walk, once it
\* is at x, has still to pass: for an entry's anchor or <li>, the entry's
\* ancestors; for the wrapper <li> or the <ol class="section"> of heading
\* p, p itself and its ancestors; nothing above the chapter list.
HeadsAbove(x) ==
    CASE x[1] \in {"a", "li"}          -> AncestorsOf[x[2]]
      [] x[1] \in {"wrap", "section"}  -> {x[2]} \cup AncestorsOf[x[2]]
      [] OTHER                         -> {}

\* Every active entry has its ancestors marked, except the link whose walk
\* is under way.
ActiveMarked ==
    \A a \in active : (pc = "walk" /\ a = i) \/ AncestorsOf[a] \subseteq marked

\* During the walk for link i, each ancestor of i is marked already or
\* still above the walk's position.
WalkMarks ==
    pc = "walk" => AncestorsOf[i] \subseteq marked \cup HeadsAbove(parent)

WInv == IInv /\ ActiveMarked /\ WalkMarks

-----------------------------------------------------------------------------
(* What one step of the walk passes.                                       *)

\* The list holding entry e's <li> has exactly e's ancestors above it.
LEMMA ListOfHeads ==
    ASSUME NEW e \in Entry
    PROVE  HeadsAbove(ListOf(e)) = AncestorsOf[e]
<1>1. CASE ParentEntry[e] = 0
  BY <1>1, AncestorsEq DEF ListOf, ChapterList, HeadsAbove
<1>2. CASE ParentEntry[e] # 0
  BY <1>2, AncestorsEq DEF ListOf, Section, HeadsAbove
<1>3. QED
  BY <1>1, <1>2

\* One iteration of lines 26-31 at element x: every heading above x is
\* still above the next element, or it is the chapter-item that the
\* iteration makes expanded.  The heading p leaves the walk's sight at
\* its wrapper <li>, whose previous sibling is p's own chapter-item.
LEMMA WalkStepHeads ==
    ASSUME NEW x \in Elements
    PROVE  LET prev == PrevElementSibling(x)
               opens == IsLI(x) /\ prev # NoElement /\ IsChapterItem(prev)
           IN  HeadsAbove(x) \subseteq
                 HeadsAbove(ParentElement(x)) \cup (IF opens THEN {prev[2]} ELSE {})
<1>1. CASE \E e \in Entry : x = Anchor(e)
  BY <1>1 DEF HeadsAbove, ParentElement, Anchor, Item
<1>2. CASE \E e \in Entry : x = Item(e)
  <2>1. PICK e \in Entry : x = Item(e)
    BY <1>2
  <2>2. ParentElement(x) = ListOf(e) /\ HeadsAbove(x) = AncestorsOf[e]
    BY <2>1 DEF ParentElement, HeadsAbove, Item
  <2>3. QED
    BY <2>2, ListOfHeads
<1>3. CASE \E e \in {p \in Entry : HasChildren(p)} : x = Wrapper(e)
  <2>1. PICK e \in Entry : x = Wrapper(e)
    BY <1>3
  <2>2. ParentElement(x) = ListOf(e) /\ HeadsAbove(x) = {e} \cup AncestorsOf[e]
    BY <2>1 DEF ParentElement, HeadsAbove, Wrapper
  <2>3. PrevElementSibling(x) = Item(e) /\ IsLI(x)
    BY <2>1 DEF PrevElementSibling, IsLI, Wrapper
  <2>4. Item(e) # NoElement /\ IsChapterItem(Item(e)) /\ Item(e)[2] = e
    BY DEF Item, NoElement, IsChapterItem
  <2>5. QED
    BY <2>2, <2>3, <2>4, ListOfHeads
<1>4. CASE \E e \in {p \in Entry : HasChildren(p)} : x = Section(e)
  BY <1>4 DEF HeadsAbove, ParentElement, Section, Wrapper
<1>5. CASE x \in {ChapterList, Scrollbox}
  BY <1>5 DEF HeadsAbove, ChapterList, Scrollbox
<1>6. QED
  BY <1>1, <1>2, <1>3, <1>4, <1>5 DEF Elements

-----------------------------------------------------------------------------
(* The walk invariant.                                                     *)

\* The walk part of the invariant.
WalkInv == ActiveMarked /\ WalkMarks

\* A step outside the walk that keeps the active and the marked entries.
LEMMA OutsideWalkKeeps ==
    ASSUME WalkInv, pc # "walk", pc' # "walk", UNCHANGED <<active, marked>>
    PROVE  WalkInv'
BY DEF WalkInv, ActiveMarked, WalkMarks

\* Each step of the script, the reader and the navigation keeps the walk
\* part, given the invariant of TocProofs before and after the step.
LEMMA WalkInvStep ==
    ASSUME IInv, IInv', WalkInv, [Next]_vars
    PROVE  WalkInv'
<1> USE DEF IInv, TypeOK, WalkForLink
<1>1. CASE Render
  BY <1>1, OutsideWalkKeeps DEF Render
<1>2. CASE ExamineMatch
  <2>1. i \in Entry /\ parent' = Item(i)
    BY <1>2 DEF ExamineMatch, ParentElement, Anchor
  <2>2. WalkMarks'
    BY <1>2, <2>1 DEF ExamineMatch, WalkMarks, HeadsAbove, Item
  <2>3. ActiveMarked'
    BY <1>2 DEF ExamineMatch, WalkInv, ActiveMarked
  <2>4. QED
    BY <2>2, <2>3 DEF WalkInv
<1>3. CASE ExamineSkip
  BY <1>3, OutsideWalkKeeps DEF ExamineSkip
<1>4. CASE WalkStep
  <2> DEFINE prev == PrevElementSibling(parent)
             opens == IsLI(parent) /\ prev # NoElement /\ IsChapterItem(prev)
  <2>1. parent \in Elements /\ i \in Entry
    BY <1>4 DEF WalkStep
  <2>2. marked' = IF opens THEN marked \cup {prev[2]} ELSE marked
    BY <1>4 DEF WalkStep
  <2>3. parent' = ParentElement(parent) /\ UNCHANGED <<pc, i, active>>
    BY <1>4 DEF WalkStep
  <2>4. HeadsAbove(parent) \subseteq
          HeadsAbove(parent') \cup (IF opens THEN {prev[2]} ELSE {})
    BY <2>1, <2>3, WalkStepHeads
  <2>5. AncestorsOf[i] \subseteq marked \cup HeadsAbove(parent)
    BY <1>4 DEF WalkStep, WalkInv, WalkMarks
  <2>6. WalkMarks'
    BY <2>2, <2>3, <2>4, <2>5 DEF WalkMarks
  <2>7. ActiveMarked'
    BY <2>2, <2>3 DEF WalkInv, ActiveMarked
  <2>8. QED
    BY <2>6, <2>7 DEF WalkInv
<1>5. CASE WalkDone
  <2>1. HeadsAbove(parent) = {}
    BY <1>5 DEF WalkDone, HeadsAbove, NoElement
  <2>2. AncestorsOf[i] \subseteq marked
    BY <1>5, <2>1 DEF WalkDone, WalkInv, WalkMarks
  <2>3. ActiveMarked'
    BY <1>5, <2>2 DEF WalkDone, WalkInv, ActiveMarked
  <2>4. WalkMarks'
    BY <1>5 DEF WalkDone, WalkMarks
  <2>5. QED
    BY <2>3, <2>4 DEF WalkInv
<1>6. CASE LoopDone
  BY <1>6, OutsideWalkKeeps DEF LoopDone
<1>7. CASE RestoreFromSlot
  BY <1>7, OutsideWalkKeeps DEF RestoreFromSlot
<1>8. CASE RestoreToActive
  BY <1>8, OutsideWalkKeeps DEF RestoreToActive
<1>9. CASE StorageThrows
  BY <1>9, OutsideWalkKeeps DEF StorageThrows
<1>10. CASE \E o \in Offsets : Scroll(o)
  BY <1>10, OutsideWalkKeeps DEF Scroll, Idle
<1>11. CASE \E e \in Entry, t \in {"A", "STRONG"}, nt \in BOOLEAN : ClickLink(e, t, nt)
  <2>1. PICK e \in Entry, t \in {"A", "STRONG"}, nt \in BOOLEAN : ClickLink(e, t, nt)
    BY <1>11
  <2>2. CASE nt
    BY <2>1, <2>2, OutsideWalkKeeps DEF ClickLink, Idle
  <2>3. CASE ~nt
    BY <2>1, <2>3 DEF ClickLink, LoadPage, WalkInv, ActiveMarked, WalkMarks
  <2>4. QED
    BY <2>2, <2>3
<1>12. CASE \E p \in Pages : NavButton(p)
  BY <1>12 DEF NavButton, LoadPage, WalkInv, ActiveMarked, WalkMarks
<1>13. CASE UNCHANGED vars
  BY <1>13 DEF vars, WalkInv, ActiveMarked, WalkMarks
<1>14. QED
  BY <1>1, <1>2, <1>3, <1>4, <1>5, <1>6, <1>7, <1>8, <1>9, <1>10, <1>11,
     <1>12, <1>13 DEF Next, ScriptStep

THEOREM WalkInvariance == Spec => []WInv
<1>1. Init => WalkInv
  BY DEF Init, WalkInv, ActiveMarked, WalkMarks
<1>2. IInv /\ IInv' /\ WalkInv /\ [Next]_vars => WalkInv'
  BY WalkInvStep
<1>3. QED
  BY <1>1, <1>2, Invariance, PTL DEF Spec, WInv, WalkInv

\* Spec section 3: once the walk of lines 24-32 for an active link is over,
\* every section heading above that entry has been made expanded by the
\* walk, for every chapter tree whose headings precede their entries.
THEOREM ActivePathCorrect == Spec => []ActivePathExpanded
<1>1. WInv => ActivePathExpanded
  BY DEF WInv, ActiveMarked, ActivePathExpanded
<1>2. QED
  BY <1>1, WalkInvariance, PTL

-----------------------------------------------------------------------------
(* From marked to the class itself.                                        *)

\* What the walk marks it gives class "expanded", and nothing removes the
\* class before the next page load; before the chapter list is rendered,
\* nothing is marked.
MarkedExpanded ==
    /\ pc = "render" => marked = {}
    /\ pc # "render" => marked \subseteq expanded

\* Spec section 3, stated of the class: once the walk for an active link
\* is over, every heading above that entry has class "expanded".
ActivePathHasClass ==
    pc # "walk" => \A a \in active : AncestorsOf[a] \subseteq expanded

THEOREM MarkedExpandedInvariance == Spec => []MarkedExpanded
<1>1. Init => MarkedExpanded
  BY DEF Init, MarkedExpanded
<1>2. MarkedExpanded /\ [Next]_vars => MarkedExpanded'
  <2> SUFFICES ASSUME MarkedExpanded, [Next]_vars PROVE MarkedExpanded'
    OBVIOUS
  <2>1. CASE Render
    BY <2>1 DEF Render, MarkedExpanded
  <2>2. CASE WalkStep
    BY <2>2 DEF WalkStep, MarkedExpanded
  <2>3. CASE \E e \in Entry, t \in {"A", "STRONG"}, nt \in BOOLEAN : ClickLink(e, t, nt)
    <3>1. PICK e \in Entry, t \in {"A", "STRONG"}, nt \in BOOLEAN : ClickLink(e, t, nt)
      BY <2>3
    <3>2. CASE nt
      BY <3>1, <3>2 DEF ClickLink, Idle, MarkedExpanded
    <3>3. CASE ~nt
      BY <3>1, <3>3 DEF ClickLink, LoadPage, MarkedExpanded
    <3>4. QED
      BY <3>2, <3>3
  <2>4. CASE \E p \in Pages : NavButton(p)
    BY <2>4 DEF NavButton, LoadPage, MarkedExpanded
  <2>5. CASE ~Render /\ ~WalkStep
             /\ ~(\E e \in Entry, t \in {"A", "STRONG"}, nt \in BOOLEAN : ClickLink(e, t, nt))
             /\ ~(\E p \in Pages : NavButton(p))
    <3>1. (pc' = "render" <=> pc = "render") /\ UNCHANGED <<marked, expanded>>
      BY <2>5 DEF Next, ScriptStep, ExamineMatch, ExamineSkip, WalkDone, LoopDone,
                  RestoreFromSlot, RestoreToActive, StorageThrows, Scroll, Idle,
                  vars
    <3>2. QED
      BY <3>1 DEF MarkedExpanded
  <2>6. QED
    BY <2>1, <2>2, <2>3, <2>4, <2>5
<1>3. QED
  BY <1>1, <1>2, PTL DEF Spec

\* Spec section 3, of the class the reader sees: after the walk for an
\* active link, every heading above it is expanded.
THEOREM ActivePathClassCorrect == Spec => []ActivePathHasClass
<1>1. WInv /\ MarkedExpanded => ActivePathHasClass
  BY DEF WInv, ActiveMarked, MarkedExpanded, ActivePathHasClass
<1>2. QED
  BY <1>1, WalkInvariance, MarkedExpandedInvariance, PTL

=============================================================================
