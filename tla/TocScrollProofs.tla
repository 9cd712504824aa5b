--------------------------- MODULE TocScrollProofs ---------------------------
(***************************************************************************)
(* The scroll round trip of src/toc.js, proved for every offset set: the   *)
(* offset the listener of lines 38-42 stores when a sidebar anchor is      *)
(* clicked is what lines 43-47 of the next load restore, and the slot is   *)
(* empty afterwards.                                                       *)
(***************************************************************************)
EXTENDS TocProofs

USE OffsetsAssumption
USE DEF OffsetsAssumption

\* From the click on an anchor until the restore of the load it started,
\* the slot holds the offset of the click: nothing of the script writes
\* the slot before line 44, and the reader cannot act before the script
\* has ended.
SlotHoldsSaved ==
    via = "link" /\ avail /\ pc \in {"render", "loop", "walk", "listen"} =>
        slot = savedAt

SInv == IInv /\ SlotHoldsSaved

\* The steps of the script before the restore leave via, avail, savedAt
\* and the slot alone.
LEMMA ScriptKeepsSlot ==
    ASSUME SlotHoldsSaved, pc \in {"render", "loop", "walk", "listen"},
           pc' \in {"render", "loop", "walk", "listen"},
           UNCHANGED <<slot, avail, via, savedAt>>
    PROVE  SlotHoldsSaved'
BY DEF SlotHoldsSaved

THEOREM SlotInvariance == Spec => []SInv
<1>1. Init => SlotHoldsSaved
  BY DEF Init, SlotHoldsSaved
<1>2. SInv /\ [Next]_vars => SlotHoldsSaved'
  <2> SUFFICES ASSUME SInv, [Next]_vars PROVE SlotHoldsSaved'
    OBVIOUS
  <2>1. CASE ScriptStep /\ pc' \in {"render", "loop", "walk", "listen"}
    <3>1. pc \in {"render", "loop", "walk", "listen"} /\ UNCHANGED <<slot, avail, via, savedAt>>
      BY <2>1 DEF ScriptStep, Render, ExamineMatch, ExamineSkip, WalkStep,
                  WalkDone, LoopDone, RestoreFromSlot, RestoreToActive, StorageThrows
    <3>2. QED
      BY <2>1, <3>1, ScriptKeepsSlot DEF SInv
  <2>2. CASE ScriptStep /\ pc' \notin {"render", "loop", "walk", "listen"}
    BY <2>2 DEF SlotHoldsSaved
  <2>3. CASE \E o \in Offsets : Scroll(o)
    BY <2>3 DEF Scroll, Idle, SlotHoldsSaved
  <2>4. CASE \E e \in Entry, t \in {"A", "STRONG"}, nt \in BOOLEAN : ClickLink(e, t, nt)
    <3>1. PICK e \in Entry, t \in {"A", "STRONG"}, nt \in BOOLEAN : ClickLink(e, t, nt)
      BY <2>4
    <3>2. CASE nt
      BY <3>1, <3>2 DEF ClickLink, Idle, SlotHoldsSaved
    <3>3. CASE ~nt
      BY <3>1, <3>3 DEF ClickLink, LoadPage, SlotHoldsSaved
    <3>4. QED
      BY <3>2, <3>3
  <2>5. CASE \E p \in Pages : NavButton(p)
    BY <2>5 DEF NavButton, SlotHoldsSaved
  <2>6. CASE UNCHANGED vars
    BY <2>6 DEF vars, SInv, SlotHoldsSaved
  <2>7. QED
    BY <2>1, <2>2, <2>3, <2>4, <2>5, <2>6 DEF Next
<1>3. QED
  BY <1>1, <1>2, Invariance, PTL DEF Spec, SInv

\* Spec section 8 round trip: a load reached by a click on a sidebar
\* anchor, with storage usable, restores exactly the offset of the click
\* (also 0, which line 45 sees as the truthy string "0") and leaves the
\* slot empty (line 44).
THEOREM RoundTrip == Spec => ScrollRoundTrip
<1>1. SInv /\ [Next]_vars =>
        [RestoreStep /\ avail /\ via = "link" => scrollTop' = savedAt /\ slot' = NoValue]_vars
  <2> SUFFICES ASSUME SInv, [Next]_vars, RestoreStep, avail, via = "link"
               PROVE  scrollTop' = savedAt /\ slot' = NoValue
    OBVIOUS
  <2>1. pc = "listen"
    BY DEF RestoreStep
  <2>2. slot = savedAt /\ savedAt \in Offsets
    BY <2>1 DEF SInv, SlotHoldsSaved, IInv, TypeOK
  <2>3. slot # NoValue
    BY <2>2
  <2>4. RestoreFromSlot
    BY <2>1, <2>3 DEF RestoreStep, Next, ScriptStep, Render, ExamineMatch,
                      ExamineSkip, WalkStep, WalkDone, LoopDone, RestoreToActive,
                      StorageThrows, Scroll, Idle, ClickLink, NavButton, vars
  <2>5. QED
    BY <2>2, <2>4 DEF RestoreFromSlot
<1>2. QED
  BY <1>1, SlotInvariance, PTL DEF ScrollRoundTrip, Spec

=============================================================================
