---------------------------- MODULE TocRefinement ----------------------------
(***************************************************************************)
(* The sidebar script of Toc implements the per-load stage machine of      *)
(* TocAbstract under the mapping StageOf / MarkedActive of Toc: the safety *)
(* part of Abs!ASpec, for every chapter tree, page set and offset set that *)
(* satisfy the assumptions.  The fairness part is checked by TLC only.     *)
(***************************************************************************)
EXTENDS TocProofs

USE NAssumption, ParentAssumption, PrevSiblingAssumption, HrefAssumption,
    PagesAssumption, ExpandedAssumption, OffsetsAssumption
USE DEF NAssumption, ParentAssumption, PrevSiblingAssumption, HrefAssumption,
    PagesAssumption, ExpandedAssumption, OffsetsAssumption, Entry

\* The safety part of the abstract specification.
AbsSafety == Abs!AInit /\ [][Abs!ANext]_Abs!avars

\* The abstract marking compares links the way line 22 does.
LEMMA AbsMarkedSet ==
    {e \in Abs!Entry : Abs!Matches(e, page)} = {e \in Entry : Matches(e, page)}
BY DEF Abs!Entry, Abs!Matches, Matches, Abs!LinkHref, LinkHref, Abs!Resolve,
       Resolve, Abs!Dir, Dir, Abs!PathToRoot, PathToRoot, Abs!Normalize,
       Normalize, Abs!FileName, FileName

\* A step that leaves the load in the loop or a walk, and the page, the
\* offset and the slot alone, is an abstract stutter.
LEMMA InLoadStutter ==
    ASSUME pc \in {"loop", "walk"}, pc' \in {"loop", "walk"},
           UNCHANGED <<page, scrollTop, slot, avail>>
    PROVE  UNCHANGED Abs!avars
BY DEF Abs!avars, StageOf, MarkedActive

\* A reader step that keeps the page's load where it is.
LEMMA SettledStutter ==
    ASSUME UNCHANGED <<page, pc, active, scrollTop, slot, avail>>
    PROVE  UNCHANGED Abs!avars
BY DEF Abs!avars, StageOf, MarkedActive

\* A page load, by a sidebar click or by any other navigation, is an
\* abstract ALeave: the slot is kept or takes the offset, and only when
\* storage works.
LEMMA LoadIsLeave ==
    ASSUME NEW p \in Pages, Idle, LoadPage(p), UNCHANGED avail,
           \/ slot' = slot
           \/ avail /\ slot' = scrollTop
    PROVE  Abs!ALeave(p)
BY DEF Idle, LoadPage, Abs!ALeave, Abs!Settled, StageOf, MarkedActive

\* Spec section 4.4: every step of the script and of the reader is a step
\* of the stage machine or leaves its state alone; initial states are its
\* initial states.
THEOREM Refinement == Spec => AbsSafety
<1>1. Init => Abs!AInit
  BY DEF Init, Abs!AInit, StageOf, MarkedActive
<1>2. IInv /\ [Next]_vars => [Abs!ANext]_Abs!avars
  <2> SUFFICES ASSUME IInv, [Next]_vars PROVE [Abs!ANext]_Abs!avars
    OBVIOUS
  <2>1. CASE Render
    <3>1. Abs!ARender
      BY <2>1 DEF Render, Abs!ARender, StageOf, MarkedActive
    <3>2. QED
      BY <3>1 DEF Abs!ANext, Abs!ALoadStep
  <2>2. CASE ExamineMatch
    BY <2>2, InLoadStutter DEF ExamineMatch
  <2>3. CASE ExamineSkip
    BY <2>3, InLoadStutter DEF ExamineSkip
  <2>4. CASE WalkStep
    BY <2>4, InLoadStutter DEF WalkStep
  <2>5. CASE WalkDone
    BY <2>5, InLoadStutter DEF WalkDone
  <2>6. CASE LoopDone
    <3>1. i = N + 1
      BY <2>6 DEF LoopDone, IInv, TypeOK
    <3>2. active = MatchedBelow(N + 1, page)
      BY <2>6, <3>1 DEF LoopDone, IInv, ActiveSoFar
    <3>3. MatchedBelow(N + 1, page) = {e \in Entry : Matches(e, page)}
      BY DEF MatchedBelow
    <3>4. Abs!AMark
      BY <2>6, <3>2, <3>3, AbsMarkedSet DEF LoopDone, Abs!AMark, StageOf, MarkedActive
    <3>5. QED
      BY <3>4 DEF Abs!ANext, Abs!ALoadStep
  <2>7. CASE RestoreFromSlot
    <3>1. Abs!ARestore
      BY <2>7 DEF RestoreFromSlot, Abs!ARestore, StageOf, MarkedActive
    <3>2. QED
      BY <3>1 DEF Abs!ANext, Abs!ALoadStep
  <2>8. CASE RestoreToActive
    <3>1. Abs!ARestore
      BY <2>8 DEF RestoreToActive, FirstActive, Abs!ARestore, Abs!Leading,
                  StageOf, MarkedActive
    <3>2. QED
      BY <3>1 DEF Abs!ANext, Abs!ALoadStep
  <2>9. CASE StorageThrows
    <3>1. Abs!AAbort
      BY <2>9 DEF StorageThrows, Abs!AAbort, StageOf, MarkedActive
    <3>2. QED
      BY <3>1 DEF Abs!ANext, Abs!ALoadStep
  <2>10. CASE \E o \in Offsets : Scroll(o)
    <3>1. PICK o \in Offsets : Scroll(o)
      BY <2>10
    <3>2. Abs!AScroll(o)
      BY <3>1 DEF Scroll, Idle, Abs!AScroll, Abs!Settled, StageOf, MarkedActive
    <3>3. QED
      BY <3>2 DEF Abs!ANext
  <2>11. CASE \E e \in Entry, t \in {"A", "STRONG"}, nt \in BOOLEAN : ClickLink(e, t, nt)
    <3>1. PICK e \in Entry, t \in {"A", "STRONG"}, nt \in BOOLEAN : ClickLink(e, t, nt)
      BY <2>11
    <3>2. CASE nt /\ t = "A" /\ avail
      <4>1. Abs!AStore
        BY <3>1, <3>2 DEF ClickLink, Idle, Abs!AStore, Abs!Settled, StageOf, MarkedActive
      <4>2. QED
        BY <4>1 DEF Abs!ANext
    <3>3. CASE nt /\ ~(t = "A" /\ avail)
      <4>1. UNCHANGED <<page, pc, active, scrollTop, slot, avail>>
        BY <3>1, <3>3 DEF ClickLink
      <4>2. QED
        BY <4>1, SettledStutter
    <3>4. CASE ~nt
      <4>1. Href[e] \in Pages
        OBVIOUS
      <4>2. Idle /\ LoadPage(Href[e]) /\ UNCHANGED avail
        BY <3>1, <3>4 DEF ClickLink
      <4>3. \/ slot' = slot
            \/ avail /\ slot' = scrollTop
        BY <3>1 DEF ClickLink
      <4>4. Abs!ALeave(Href[e])
        BY <4>1, <4>2, <4>3, LoadIsLeave
      <4>5. QED
        BY <4>1, <4>4 DEF Abs!ANext
    <3>5. QED
      BY <3>2, <3>3, <3>4
  <2>12. CASE \E p \in Pages : NavButton(p)
    <3>1. PICK p \in Pages : NavButton(p)
      BY <2>12
    <3>2. Abs!ALeave(p)
      BY <3>1, LoadIsLeave DEF NavButton
    <3>3. QED
      BY <3>2 DEF Abs!ANext
  <2>13. CASE UNCHANGED vars
    BY <2>13, SettledStutter DEF vars
  <2>14. QED
    BY <2>1, <2>2, <2>3, <2>4, <2>5, <2>6, <2>7, <2>8, <2>9, <2>10, <2>11,
       <2>12, <2>13 DEF Next, ScriptStep
<1>3. QED
  BY <1>1, <1>2, Invariance, PTL DEF Spec, AbsSafety

=============================================================================
