------------------------------ MODULE TocProofs ------------------------------
(***************************************************************************)
(* Proofs about the sidebar script of Toc, for every chapter tree, page    *)
(* set and offset set that satisfy the assumptions of TocDom and Toc.      *)
(***************************************************************************)
EXTENDS Toc, TLAPS, SequenceTheorems

USE NAssumption, ParentAssumption, PrevSiblingAssumption, HrefAssumption,
    PagesAssumption, ExpandedAssumption, OffsetsAssumption
USE DEF NAssumption, ParentAssumption, PrevSiblingAssumption, HrefAssumption,
    PagesAssumption, ExpandedAssumption, OffsetsAssumption, Entry

-----------------------------------------------------------------------------
(* The DOM of the literal: climbing parentElement and looking at the       *)
(* previous sibling stay inside the rendered elements.                     *)

LEMMA AnchorParentType ==
    ASSUME NEW e \in Entry
    PROVE  ParentElement(Anchor(e)) \in Elements \cup {NoElement}
BY DEF ParentElement, Anchor, Item, Elements

LEMMA ListOfType ==
    ASSUME NEW e \in Entry
    PROVE  ListOf(e) \in Elements
<1>1. CASE ParentEntry[e] = 0
  BY <1>1 DEF ListOf, Elements, ChapterList
<1>2. CASE ParentEntry[e] # 0
  <2>1. ParentEntry[e] \in Entry /\ HasChildren(ParentEntry[e])
    BY <1>2 DEF HasChildren
  <2>2. QED
    BY <1>2, <2>1 DEF ListOf, Elements, Section
<1>3. QED
  BY <1>1, <1>2

LEMMA ParentElementType ==
    ASSUME NEW x \in Elements
    PROVE  ParentElement(x) \in Elements \cup {NoElement}
<1>1. CASE \E e \in Entry : x = Anchor(e)
  BY <1>1 DEF ParentElement, Anchor, Item, Elements
<1>2. CASE \E e \in Entry : x = Item(e)
  BY <1>2, ListOfType DEF ParentElement, Item
<1>3. CASE \E e \in {p \in Entry : HasChildren(p)} : x = Wrapper(e)
  BY <1>3, ListOfType DEF ParentElement, Wrapper
<1>4. CASE \E e \in {p \in Entry : HasChildren(p)} : x = Section(e)
  BY <1>4 DEF ParentElement, Section, Wrapper, Elements
<1>5. CASE x \in {ChapterList, Scrollbox}
  BY <1>5 DEF ParentElement, ChapterList, Scrollbox, Elements
<1>6. QED
  BY <1>1, <1>2, <1>3, <1>4, <1>5 DEF Elements

\* A chapter-item the walk can find is the <li> of an entry.
LEMMA PrevChapterItemType ==
    ASSUME NEW x \in Elements,
           PrevElementSibling(x) # NoElement,
           IsChapterItem(PrevElementSibling(x))
    PROVE  PrevElementSibling(x)[2] \in Entry
<1>1. CASE x[1] = "li" /\ PrevSibling[x[2]] # 0
  <2>1. x[2] \in Entry
    BY <1>1 DEF Elements, Anchor, Item, Wrapper, Section, ChapterList, Scrollbox
  <2>2. PrevSibling[x[2]] \in Entry
    BY <1>1, <2>1
  <2>3. ~HasChildren(PrevSibling[x[2]])
    BY <1>1 DEF PrevElementSibling, IsChapterItem, Wrapper
  <2>4. QED
    BY <1>1, <2>2, <2>3 DEF PrevElementSibling, Item
<1>2. CASE ~(x[1] = "li" /\ PrevSibling[x[2]] # 0) /\ x[1] = "wrap"
  <2>1. x[2] \in Entry
    BY <1>2 DEF Elements, Anchor, Item, Wrapper, Section, ChapterList, Scrollbox
  <2>2. QED
    BY <1>2, <2>1 DEF PrevElementSibling, Item
<1>3. CASE ~(x[1] = "li" /\ PrevSibling[x[2]] # 0) /\ x[1] # "wrap"
  BY <1>3 DEF PrevElementSibling
<1>4. QED
  BY <1>1, <1>2, <1>3

-----------------------------------------------------------------------------
(* URLs: with the host's path_to_root, a rewritten link resolves to its    *)
(* site-relative href, and at most one link matches a page.                *)

LEMMA LinkHrefIsHref ==
    ASSUME NEW e \in Entry, NEW u \in Pages
    PROVE  LinkHref(e, u) = Href[e]
<1>1. u \in Seq(STRING) /\ Len(u) \in Nat \ {0}
  BY EmptySeq
<1>2. \A j \in 1..(Len(u) - 1) : u[j] \in STRING
  BY <1>1
<1>3. Len(Dir(u)) = Len(u) - 1
  <2>1. Len(SubSeq(u, 1, Len(u) - 1)) = IF 1 <= Len(u) - 1 THEN Len(u) - 1 ELSE 0
    BY <1>1, <1>2, SubSeqProperties
  <2>2. Dir(u) = SubSeq(u, 1, Len(u) - 1)
    BY DEF Dir
  <2>3. (IF 1 <= Len(u) - 1 THEN Len(u) - 1 ELSE 0) = Len(u) - 1
    <3>1. \A n \in Nat \ {0} : (IF 1 <= n - 1 THEN n - 1 ELSE 0) = n - 1
      OBVIOUS
    <3>2. QED
      BY <1>1, <3>1
  <2>4. QED
    BY <2>1, <2>2, <2>3, Zenon
<1>4. SubSeq(Dir(u), 1, Len(Dir(u)) - PathToRoot(u)) = << >>
  BY <1>3, SubSeqEmpty DEF PathToRoot
<1>5. Href[e] \in Seq(STRING)
  OBVIOUS
<1>6. QED
  BY <1>4, <1>5, ConcatEmptySeq DEF LinkHref, Resolve

\* At the site root's index the normalized URL is <<"index.html">>.
LEMMA RootIndex ==
    ASSUME NEW u \in Pages, PathToRoot(u) = 0,
           FileName(Normalize(u)) = "index.html"
    PROVE  Normalize(u) = <<"index.html">>
<1>1. u \in Seq(STRING) /\ Len(u) = 1
  BY DEF PathToRoot
<1>2. u = <<u[1]>>
  BY <1>1
<1>3. CASE FileName(u) = ""
  <2>1. Normalize(u) = [u EXCEPT ![1] = "index.html"]
    BY <1>1, <1>3 DEF Normalize
  <2>2. QED
    BY <1>2, <2>1
<1>4. CASE FileName(u) # ""
  <2>1. Normalize(u) = u
    BY <1>4 DEF Normalize
  <2>2. u[1] = "index.html"
    BY <1>1, <2>1 DEF FileName
  <2>3. QED
    BY <1>2, <2>1, <2>2
<1>5. QED
  BY <1>3, <1>4

LEMMA MatchUnique ==
    ASSUME NEW u \in Pages, NEW e \in Entry, NEW f \in Entry,
           Matches(e, u), Matches(f, u)
    PROVE  e = f
<1>1. CASE LinkHref(e, u) = Normalize(u) /\ LinkHref(f, u) = Normalize(u)
  BY <1>1, LinkHrefIsHref
<1>2. CASE LinkHref(e, u) # Normalize(u) /\ LinkHref(f, u) = Normalize(u)
  <2>1. e = 1 /\ Normalize(u) = <<"index.html">>
    BY <1>2, RootIndex DEF Matches
  <2>2. Href[f] = <<"index.html">>
    BY <1>2, <2>1, LinkHrefIsHref
  <2>3. QED
    BY <2>1, <2>2
<1>3. CASE LinkHref(f, u) # Normalize(u) /\ LinkHref(e, u) = Normalize(u)
  <2>1. f = 1 /\ Normalize(u) = <<"index.html">>
    BY <1>3, RootIndex DEF Matches
  <2>2. Href[e] = <<"index.html">>
    BY <1>3, <2>1, LinkHrefIsHref
  <2>3. QED
    BY <2>1, <2>2
<1>4. CASE LinkHref(e, u) # Normalize(u) /\ LinkHref(f, u) # Normalize(u)
  BY <1>4 DEF Matches
<1>5. QED
  BY <1>1, <1>2, <1>3, <1>4

-----------------------------------------------------------------------------------------------------------------------------------------------------
(* The inductive invariant: the types, and the active set is exactly the   *)
(* set of matching links the loop has examined so far.  The loop has no   *)
(* break, so this is what the loop computes; it yields AtMostOneActive,   *)
(* CurrentPageActive and the abstract marking step.                       *)

\* The entries before link k whose link matches page u.
MatchedBelow(k, u) == {e \in Entry : e < k /\ Matches(e, u)}

ActiveSoFar ==
    /\ pc \in {"render", "loop"} => active = MatchedBelow(i, page)
    /\ pc = "walk" => active = MatchedBelow(i + 1, page)
    /\ pc \in {"listen", "done", "aborted"} => active = MatchedBelow(N + 1, page)

\* The walk runs for a link that exists.
WalkForLink == pc = "walk" => i \in Entry

IInv == TypeOK /\ ActiveSoFar /\ WalkForLink

ActiveMatchesPage == \A a \in active : Matches(a, page)

LEMMA IInvMatches ==
    ASSUME IInv
    PROVE  ActiveMatchesPage
BY DEF IInv, TypeOK, ActiveSoFar, MatchedBelow, PCs, ActiveMatchesPage

LEMMA IInvUnique ==
    ASSUME IInv
    PROVE  AtMostOneActive
BY IInvMatches, MatchUnique DEF IInv, TypeOK, ActiveMatchesPage, AtMostOneActive

LEMMA FirstActiveType ==
    ASSUME IInv, active # {}
    PROVE  FirstActive \in active
<1>1. PICK a \in active : TRUE
  OBVIOUS
<1>2. \A b \in active : b = a
  BY IInvUnique, <1>1 DEF AtMostOneActive
<1>3. a \in Nat
  BY <1>1 DEF IInv, TypeOK
<1>4. \A b \in active : a <= b
  BY <1>2, <1>3
<1>5. QED
  BY <1>1, <1>4 DEF FirstActive

\* The invariant holds initially and after every step of the script, the
\* reader and the navigation.
THEOREM Invariance == Spec => []IInv
<1>1. Init => IInv
  BY DEF Init, IInv, TypeOK, ActiveSoFar, MatchedBelow, WalkForLink, PCs, Vias
<1>2. IInv /\ [Next]_vars => IInv'
  <2> SUFFICES ASSUME IInv, [Next]_vars PROVE IInv'
    OBVIOUS
  <2> USE DEF IInv, WalkForLink
  <2>1. CASE Render
    BY <2>1 DEF Render, TypeOK, PCs, ActiveSoFar
  <2>2. CASE ExamineMatch
    <3>1. i \in Entry
      BY <2>2 DEF ExamineMatch, TypeOK
    <3>2. TypeOK'
      BY <2>2, <3>1, AnchorParentType DEF ExamineMatch, TypeOK, PCs
    <3>3. active = MatchedBelow(i, page)
      BY <2>2 DEF ExamineMatch, ActiveSoFar
    <3>4. active' = MatchedBelow(i + 1, page)
      BY <2>2, <3>1, <3>3 DEF ExamineMatch, MatchedBelow
    <3>5. ActiveSoFar'
      BY <2>2, <3>4 DEF ExamineMatch, ActiveSoFar
    <3>6. WalkForLink'
      BY <2>2, <3>1 DEF ExamineMatch
    <3>7. QED
      BY <3>2, <3>5, <3>6
  <2>3. CASE ExamineSkip
    <3>1. i' \in 1..(N + 1)
      BY <2>3 DEF ExamineSkip, TypeOK
    <3>2. TypeOK'
      BY <2>3, <3>1 DEF ExamineSkip, TypeOK
    <3>3. active = MatchedBelow(i, page)
      BY <2>3 DEF ExamineSkip, ActiveSoFar
    <3>4. MatchedBelow(i, page) = MatchedBelow(i + 1, page)
      BY <2>3 DEF ExamineSkip, MatchedBelow, TypeOK
    <3>5. ActiveSoFar'
      BY <2>3, <3>3, <3>4 DEF ExamineSkip, ActiveSoFar
    <3>6. WalkForLink'
      BY <2>3 DEF ExamineSkip
    <3>7. QED
      BY <3>2, <3>5, <3>6
  <2>4. CASE WalkStep
    <3>1. parent \in Elements
      BY <2>4 DEF WalkStep, TypeOK
    <3>2. parent' \in Elements \cup {NoElement}
      BY <2>4, <3>1, ParentElementType DEF WalkStep
    <3> DEFINE prev == PrevElementSibling(parent)
               opens == IsLI(parent) /\ prev # NoElement /\ IsChapterItem(prev)
    <3>3. opens => prev[2] \in Entry
      BY <3>1, PrevChapterItemType
    <3>4. expanded' = IF opens THEN expanded \cup {prev[2]} ELSE expanded
      BY <2>4 DEF WalkStep
    <3>5. marked' = IF opens THEN marked \cup {prev[2]} ELSE marked
      BY <2>4 DEF WalkStep
    <3>6. (expanded \subseteq Entry /\ marked \subseteq Entry)'
      BY <3>3, <3>4, <3>5 DEF TypeOK
    <3>7. UNCHANGED <<page, pc, i, active, scrollTop, slot, avail, via, savedAt>>
      BY <2>4 DEF WalkStep
    <3>8. ActiveSoFar'
      BY <3>7 DEF ActiveSoFar
    <3>9. QED
      BY <3>2, <3>6, <3>7, <3>8 DEF TypeOK
  <2>5. CASE WalkDone
    BY <2>5 DEF WalkDone, TypeOK, PCs, ActiveSoFar
  <2>6. CASE LoopDone
    <3>1. i = N + 1
      BY <2>6 DEF LoopDone, TypeOK
    <3>2. QED
      BY <2>6, <3>1 DEF LoopDone, TypeOK, PCs, ActiveSoFar
  <2>7. CASE RestoreFromSlot
    BY <2>7 DEF RestoreFromSlot, TypeOK, PCs, ActiveSoFar
  <2>8. CASE RestoreToActive
    <3>1. active # {} => Center[FirstActive] \in Offsets
      BY FirstActiveType DEF TypeOK
    <3>2. QED
      BY <2>8, <3>1 DEF RestoreToActive, TypeOK, PCs, ActiveSoFar
  <2>9. CASE StorageThrows
    BY <2>9 DEF StorageThrows, TypeOK, PCs, ActiveSoFar
  <2>10. CASE \E o \in Offsets : Scroll(o)
    BY <2>10 DEF Scroll, Idle, TypeOK, ActiveSoFar
  <2>11. CASE \E e \in Entry, t \in {"A", "STRONG"}, nt \in BOOLEAN : ClickLink(e, t, nt)
    <3>1. PICK e \in Entry, t \in {"A", "STRONG"}, nt \in BOOLEAN : ClickLink(e, t, nt)
      BY <2>11
    <3>2. CASE nt
      <4>1. UNCHANGED <<page, pc, i, parent, active, expanded, marked, scrollTop, via, savedAt, avail>>
        BY <3>1, <3>2 DEF ClickLink
      <4>2. slot' \in Offsets \cup {NoValue}
        BY <3>1 DEF ClickLink, TypeOK
      <4>3. ActiveSoFar'
        BY <4>1 DEF ActiveSoFar
      <4>4. QED
        BY <4>1, <4>2, <4>3 DEF TypeOK
    <3>3. CASE ~nt
      BY <3>1, <3>3 DEF ClickLink, LoadPage, TypeOK, PCs, Vias, ActiveSoFar, MatchedBelow
    <3>4. QED
      BY <3>2, <3>3
  <2>12. CASE \E p \in Pages : NavButton(p)
    BY <2>12 DEF NavButton, LoadPage, TypeOK, PCs, Vias, ActiveSoFar, MatchedBelow
  <2>13. CASE UNCHANGED vars
    BY <2>13 DEF vars, TypeOK, ActiveSoFar
  <2>14. QED
    BY <2>1, <2>2, <2>3, <2>4, <2>5, <2>6, <2>7, <2>8, <2>9, <2>10, <2>11,
       <2>12, <2>13 DEF Next, ScriptStep
<1>3. QED
  BY <1>1, <1>2, PTL DEF Spec

\* Type correctness of every variable of the sidebar script.
THEOREM TypeCorrect == Spec => []TypeOK
BY Invariance, PTL DEF IInv

\* Spec section 8: at most one entry is active, whatever the chapter tree
\* and the page, as long as hrefs are distinct and no chapter but the first
\* is the root index.html.
THEOREM ActiveUnique == Spec => []AtMostOneActive
<1>1. IInv => AtMostOneActive
  BY IInvUnique
<1>2. QED
  BY <1>1, Invariance, PTL

\* Spec section 4.3: once the loop of lines 15-34 is over, the chapter
\* whose href names the current page is active, on a page at any depth:
\* the rewrite of line 19 makes its link resolve to that href, and the
\* loop examines every link.
THEOREM CurrentPageCorrect == Spec => []CurrentPageActive
<1>1. IInv => CurrentPageActive
  <2> SUFFICES ASSUME IInv, pc \in {"listen", "done", "aborted"},
                      NEW e \in Entry, Href[e] = Normalize(page)
               PROVE  e \in active
    BY DEF CurrentPageActive
  <2>1. page \in Pages
    BY DEF IInv, TypeOK
  <2>2. Matches(e, page)
    BY <2>1, LinkHrefIsHref DEF Matches
  <2>3. active = MatchedBelow(N + 1, page)
    BY DEF IInv, ActiveSoFar
  <2>4. e < N + 1
    OBVIOUS
  <2>5. QED
    BY <2>2, <2>3, <2>4 DEF MatchedBelow
<1>2. QED
  BY <1>1, Invariance, PTL

=============================================================================
