-------------------------------- MODULE Toc --------------------------------
(***************************************************************************)
(* The sidebar script src/toc.js across the page loads of one browser tab. *)
(* Each load runs the script to completion: render the chapter list (line  *)
(* 7), walk its links rewriting and comparing each (lines 8-35), attach    *)
(* the click listener and restore the scroll offset from sessionStorage   *)
(* (lines 37-54).  Afterwards the reader scrolls and clicks; a click on a  *)
(* sidebar link runs the listener and loads the next page, which starts    *)
(* the script again.  sessionStorage is the only state that survives.      *)
(***************************************************************************)
EXTENDS TocDom

CONSTANTS
    Offsets,       \* the scroll offsets the scrollbox can have
    Center,        \* Center[e]: the offset scrollIntoView({block:'center'}) gives entry e
    NoValue,       \* what sessionStorage.getItem returns for an absent key
    StorageModes,  \* whether sessionStorage is usable in the tab (it throws when blocked)
    Suffixes       \* the ?query and #fragment tails a chapter's URL can be opened with

OffsetsAssumption ==
    /\ Offsets \subseteq Nat
    /\ 0 \in Offsets
    /\ NoValue \notin Offsets
    /\ Center \in [Entry -> Offsets]
    /\ StorageModes \subseteq BOOLEAN

ASSUME OffsetsAssumption

SuffixesAssumption == Suffixes \subseteq STRING

ASSUME SuffixesAssumption

VARIABLES
    page,       \* document.location of the current page
    pc,         \* where the current load's script is
    i,          \* loop index of lines 15-34, counted from 1
    parent,     \* the element the ancestor walk of lines 24-32 is at
    active,     \* entries whose anchor has class "active"
    expanded,   \* entries whose <li> has class "expanded"
    marked,     \* history: entries the walk of this load added "expanded" to
    scrollTop,  \* sidebarScrollbox.scrollTop
    slot,       \* sessionStorage['sidebar-scroll']
    avail,      \* sessionStorage can be used in this tab
    via,        \* history: how the current page was reached
    savedAt     \* history: scrollTop when the click that loaded this page happened

vars == <<page, pc, i, parent, active, expanded, marked, scrollTop, slot,
          avail, via, savedAt>>

PCs == {"render", "loop", "walk", "listen", "done", "aborted"}

\* The ways a page is reached: the first load of the tab, a click on a
\* sidebar anchor, a click on the <strong> number inside one, and the
\* next/previous chapter buttons (or any other navigation).
Vias == {"start", "link", "number", "button"}

-----------------------------------------------------------------------------

\* A fresh page instance at URL p: the script starts at line 6.
LoadPage(p) ==
    /\ page' = p
    /\ pc' = "render"
    /\ i' = 1
    /\ parent' = NoElement
    /\ active' = {}
    /\ expanded' = {}
    /\ marked' = {}
    /\ scrollTop' = 0

Init ==
    /\ page \in Pages
    /\ pc = "render"
    /\ i = 1
    /\ parent = NoElement
    /\ active = {}
    /\ expanded = {}
    /\ marked = {}
    /\ scrollTop = 0
    /\ slot = NoValue
    /\ avail \in StorageModes
    /\ via = "start"
    /\ savedAt = 0

\* Lines 6-7: the chapter list replaces the scrollbox's content.
Render ==
    /\ pc = "render"
    /\ pc' = "loop"
    /\ expanded' = InitiallyExpanded
    /\ UNCHANGED <<page, i, parent, active, marked, scrollTop, slot, avail, via, savedAt>>

\* Lines 16-24: link i is rewritten and matches the current page: it is
\* marked active and the walk starts at its parent element.
ExamineMatch ==
    /\ pc = "loop"
    /\ i <= N
    /\ Matches(i, page)
    /\ active' = active \cup {i}
    /\ parent' = ParentElement(Anchor(i))
    /\ pc' = "walk"
    /\ UNCHANGED <<page, i, expanded, marked, scrollTop, slot, avail, via, savedAt>>

\* Mutant: the index advanced twice for a link that does not match (an
\* extra i++ in the body besides the ++i of line 15).
ExamineSkipTwice ==
    /\ pc = "loop"
    /\ i <= N
    /\ ~Matches(i, page)
    /\ i' = i + 2
    /\ UNCHANGED <<page, pc, parent, active, expanded, marked, scrollTop, slot, avail, via, savedAt>>

\* Lines 16-22: link i is rewritten and does not match.
ExamineSkip ==
    /\ pc = "loop"
    /\ i <= N
    /\ ~Matches(i, page)
    /\ i' = i + 1
    /\ UNCHANGED <<page, pc, parent, active, expanded, marked, scrollTop, slot, avail, via, savedAt>>

\* Mutant: the walk gives up at the first element that is not an <li>.
WalkStepStopsAtList ==
    /\ pc = "walk"
    /\ parent # NoElement
    /\ LET prev == PrevElementSibling(parent)
           opens == IsLI(parent) /\ prev # NoElement /\ IsChapterItem(prev)
       IN  /\ expanded' = IF opens THEN expanded \cup {prev[2]} ELSE expanded
           /\ marked' = IF opens THEN marked \cup {prev[2]} ELSE marked
    /\ parent' = IF IsLI(parent) THEN ParentElement(parent) ELSE NoElement
    /\ UNCHANGED <<page, pc, i, active, scrollTop, slot, avail, via, savedAt>>

\* Mutant: `parent = link.parentElement` in place of line 31.
WalkStepRestarts ==
    /\ pc = "walk"
    /\ parent # NoElement
    /\ LET prev == PrevElementSibling(parent)
           opens == IsLI(parent) /\ prev # NoElement /\ IsChapterItem(prev)
       IN  /\ expanded' = IF opens THEN expanded \cup {prev[2]} ELSE expanded
           /\ marked' = IF opens THEN marked \cup {prev[2]} ELSE marked
    /\ parent' = ParentElement(Anchor(i))
    /\ UNCHANGED <<page, pc, i, active, scrollTop, slot, avail, via, savedAt>>

\* Lines 26-31: one iteration of `while (parent)`.  An <li> whose previous
\* sibling is a chapter-item makes that sibling expanded.
WalkStep ==
    /\ pc = "walk"
    /\ parent # NoElement
    /\ LET prev == PrevElementSibling(parent)
           opens == IsLI(parent) /\ prev # NoElement /\ IsChapterItem(prev)
       IN  /\ expanded' = IF opens THEN expanded \cup {prev[2]} ELSE expanded
           /\ marked' = IF opens THEN marked \cup {prev[2]} ELSE marked
    /\ parent' = ParentElement(parent)
    /\ UNCHANGED <<page, pc, i, active, scrollTop, slot, avail, via, savedAt>>

\* Lines 25 and 15: the walk reached the document; the loop goes on.
WalkDone ==
    /\ pc = "walk"
    /\ parent = NoElement
    /\ pc' = "loop"
    /\ i' = i + 1
    /\ UNCHANGED <<page, parent, active, expanded, marked, scrollTop, slot, avail, via, savedAt>>

\* Mutant: `i < l - 1` in place of `i < l`; the last link is never examined.
LoopDoneEarly ==
    /\ pc = "loop"
    /\ i >= N
    /\ pc' = "listen"
    /\ UNCHANGED <<page, i, parent, active, expanded, marked, scrollTop, slot, avail, via, savedAt>>

\* Line 15: every link has been examined.
LoopDone ==
    /\ pc = "loop"
    /\ i > N
    /\ pc' = "listen"
    /\ UNCHANGED <<page, i, parent, active, expanded, marked, scrollTop, slot, avail, via, savedAt>>

\* Mutant: the removeItem of line 44 left out.
RestoreFromSlotKeepsSlot ==
    /\ pc = "listen"
    /\ avail
    /\ slot # NoValue
    /\ scrollTop' = slot
    /\ pc' = "done"
    /\ UNCHANGED <<page, i, parent, active, expanded, marked, slot, avail, via, savedAt>>

\* Lines 38-47: the listener is attached, the stored offset is read,
\* removed and applied.  The stored value is a decimal string, so even "0"
\* passes the test of line 45.
RestoreFromSlot ==
    /\ pc = "listen"
    /\ avail
    /\ slot # NoValue
    /\ scrollTop' = slot
    /\ slot' = NoValue
    /\ pc' = "done"
    /\ UNCHANGED <<page, i, parent, active, expanded, marked, avail, via, savedAt>>

\* document.querySelector('#sidebar .active'): the first active entry in
\* document order.
FirstActive == CHOOSE a \in active : \A b \in active : a <= b

\* Lines 38-45 and 48-53: nothing was stored; the first active entry is
\* scrolled to the center, if there is one.
RestoreToActive ==
    /\ pc = "listen"
    /\ avail
    /\ slot = NoValue
    /\ scrollTop' = IF active = {} THEN scrollTop ELSE Center[FirstActive]
    /\ pc' = "done"
    /\ UNCHANGED <<page, i, parent, active, expanded, marked, slot, avail, via, savedAt>>

\* Lines 38-43: the listener is attached, then sessionStorage.getItem
\* throws because storage is blocked; the rest of the script is skipped.
StorageThrows ==
    /\ pc = "listen"
    /\ ~avail
    /\ pc' = "aborted"
    /\ UNCHANGED <<page, i, parent, active, expanded, marked, scrollTop, slot, avail, via, savedAt>>

-----------------------------------------------------------------------------
(* The reader, once the script has finished (it runs while the page is    *)
(* parsed, before any input is handled).                                  *)

Idle == pc \in {"done", "aborted"}

\* The reader scrolls the sidebar.
Scroll(o) ==
    /\ Idle
    /\ scrollTop' = o
    /\ UNCHANGED <<page, pc, i, parent, active, expanded, marked, slot, avail, via, savedAt>>

\* Lines 38-42: a click in the scrollbox on entry e's anchor ("A") or on
\* the <strong> number inside it ("STRONG").  The listener stores the
\* offset only when the target is the anchor itself; setItem throws when
\* storage is blocked.  A plain click then loads the chapter; a click with
\* a modifier opens it elsewhere and this page stays.
ClickLink(e, target, newTab) ==
    /\ Idle
    /\ slot' = IF target = "A" /\ avail THEN scrollTop ELSE slot
    /\ IF newTab
         THEN UNCHANGED <<page, pc, i, parent, active, expanded, marked, scrollTop, via, savedAt>>
         ELSE /\ LoadPage(Href[e])
              /\ via' = IF target = "A" THEN "link" ELSE "number"
              /\ savedAt' = scrollTop
    /\ UNCHANGED avail

\* The next/previous chapter buttons (or any navigation outside the
\* sidebar) load page p; the sidebar's listener does not run.
NavButton(p) ==
    /\ Idle
    /\ LoadPage(p)
    /\ via' = "button"
    /\ savedAt' = 0
    /\ UNCHANGED <<slot, avail>>

\* One step of the script of the current load.
ScriptStep ==
    \/ Render \/ ExamineMatch \/ ExamineSkip \/ WalkStep \/ WalkDone \/ LoopDone
    \/ RestoreFromSlot \/ RestoreToActive \/ StorageThrows

Next ==
    \/ ScriptStep
    \/ \E o \in Offsets : Scroll(o)
    \/ \E e \in Entry, t \in {"A", "STRONG"}, nt \in BOOLEAN : ClickLink(e, t, nt)
    \/ \E p \in Pages : NavButton(p)

\* The script is synchronous and runs to its end once the page starts
\* parsing; the reader is under no obligation to do anything.
Spec == Init /\ [][Next]_vars /\ WF_vars(ScriptStep)

-----------------------------------------------------------------------------
(***************************************************************************)
(* Refinement of the per-load stage machine of TocAbstract.  The loop and *)
(* the walks are one abstract step, taken when the loop ends: until then  *)
(* the abstract load is Rendered with nothing active.                     *)
(***************************************************************************)

StageOf ==
    CASE pc = "render"            -> "Unrendered"
      [] pc \in {"loop", "walk"}  -> "Rendered"
      [] pc = "listen"            -> "ActiveMarked"
      [] pc = "done"              -> "ScrollRestored"
      [] pc = "aborted"           -> "Aborted"

MarkedActive == IF pc \in {"render", "loop", "walk"} THEN {} ELSE active

Abs == INSTANCE TocAbstract WITH stage <- StageOf, active <- MarkedActive

-----------------------------------------------------------------------------
(***************************************************************************)
(* Properties.                                                             *)
(***************************************************************************)

TypeOK ==
    /\ page \in Pages
    /\ pc \in PCs
    /\ i \in 1..(N + 1)
    /\ parent \in Elements \cup {NoElement}
    /\ active \subseteq Entry
    /\ expanded \subseteq Entry
    /\ marked \subseteq Entry
    /\ scrollTop \in Offsets
    /\ slot \in Offsets \cup {NoValue}
    /\ avail \in BOOLEAN
    /\ via \in Vias
    /\ savedAt \in Offsets

\* The section headings above entry e, up to the top of the tree.
AncestorsOf[e \in Entry] ==
    IF ParentEntry[e] = 0 THEN {}
    ELSE {ParentEntry[e]} \cup AncestorsOf[ParentEntry[e]]

\* The headings on the path from the active entries to the root.
ActivePath == UNION {AncestorsOf[a] : a \in active}

\* Spec section 8: at most one entry is marked active.  Line 22 marks every
\* matching link (the loop has no break) and, at the site root, the first
\* link on top of any link whose href is the root index.
AtMostOneActive == \A a, b \in active : a = b

\* Spec section 4.3: once every link has been examined, the chapter whose
\* href names the current page is active.  This needs the rewrite of line
\* 19 to happen before the comparison of line 22, and every link of the
\* loop of line 15 to be visited.
CurrentPageActive ==
    pc \in {"listen", "done", "aborted"} =>
        \A e \in Entry : Href[e] = Normalize(page) => e \in active

\* Spec section 3: every heading above the active entry is expanded by the
\* walk of lines 24-32, once the walk for that entry is over.
ActivePathExpanded ==
    pc # "walk" => \A a \in active : AncestorsOf[a] \subseteq marked

\* Every load's script, whose walk climbs parentElement until null, ends.
LoadCompletes == pc = "render" ~> Idle

\* Spec section 4.4: every load of src/toc.js goes through the stage
\* machine Unrendered, Rendered, ActiveMarked, ScrollRestored (or stops
\* when storage throws).  The loop of lines 15-34 marks exactly the links
\* whose resolved href matches the page, and lines 43-53 consume the slot
\* or centre the first active entry.  Clicks and other navigation store
\* the offset at most once per load and start a new load.
AbstractSpec == Abs!ASpec

RestoreStep == pc = "listen" /\ pc' # "listen"

\* Spec section 8 round trip: after a click on a sidebar anchor, the next
\* load restores exactly the offset the click stored (lines 40 and 43-47),
\* including the offset 0, and leaves the slot empty.
ScrollRoundTrip ==
    [][RestoreStep /\ avail /\ via = "link" => scrollTop' = savedAt /\ slot' = NoValue]_vars

\* Spec section 4.4: any click on a sidebar link keeps the sidebar's offset
\* on the page it loads (comment of line 46).
LinkClickKeepsScroll ==
    [][RestoreStep /\ avail /\ via \in {"link", "number"} => scrollTop' = savedAt]_vars

\* Comment of line 49 and spec section 4.4: a page reached through the
\* next/previous buttons scrolls its active entry to the center, also
\* when storage is unavailable (spec section 7).
ButtonNavCentersActive ==
    [][RestoreStep /\ via = "button" /\ active # {} =>
         scrollTop' = Center[FirstActive]]_vars

\* URL u with a ?query or #fragment tail s: document.location.href keeps
\* the tail, which follows the file name.
AtSuffix(u, s) == [u EXCEPT ![Len(u)] = @ \o s]

\* Spec sections 1 and 4.3: the entry of the page on display is marked
\* active, also when the page was opened at one of its anchors or with a
\* query (mdBook's search results open "page.html?highlight=...#heading").
\* Line 22 compares link.href with the whole of document.location.href.
ChapterActiveAtAnchor ==
    pc \in {"listen", "done", "aborted"} =>
        \A e \in Entry, s \in Suffixes : page = AtSuffix(Href[e], s) => e \in active

\* Spec section 4.3: the walk of lines 24-32 marks only the path to the
\* active entry.
WalkMarksOnlyActivePath == marked \subseteq ActivePath

\* Spec section 8: no section heading off the active path is expanded
\* once the sidebar is rendered.
CollapsedOffActivePath ==
    pc \notin {"render", "loop", "walk"} =>
        \A e \in expanded : HasChildren(e) => e \in ActivePath

=============================================================================
