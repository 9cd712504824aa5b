----------------------------- MODULE TocAbstract -----------------------------
(***************************************************************************)
(* What one load of the sidebar script promises, as the per-load stage     *)
(* machine of spec section 4.4:                                            *)
(*   Unrendered -> Rendered -> ActiveMarked -> ScrollRestored              *)
(* The spec's LinksResolved and ActiveMarked are one step here: the code   *)
(* rewrites and compares link by link, so no state has every link          *)
(* rewritten and none compared.  Marking makes active exactly the entries  *)
(* whose link matches the page.  Restoring consumes the stored offset or   *)
(* centres the first active entry.  When storage throws, the load stops    *)
(* in Aborted instead (finding of src/toc.js:43).  Between loads the       *)
(* reader scrolls, stores an offset without leaving (a click that opens a  *)
(* new tab), or leaves for another page, storing the offset or not.        *)
(***************************************************************************)
EXTENDS TocDom

CONSTANTS Offsets, Center, NoValue, StorageModes

VARIABLES
    page,       \* the page on display
    stage,      \* the stage of the current load
    active,     \* the entries the load has marked active
    scrollTop,  \* the sidebar's offset
    slot,       \* the single-use stored offset, NoValue when absent
    avail       \* storage is usable

avars == <<page, stage, active, scrollTop, slot, avail>>

AInit ==
    /\ page \in Pages
    /\ stage = "Unrendered"
    /\ active = {}
    /\ scrollTop = 0
    /\ slot = NoValue
    /\ avail \in StorageModes

ARender ==
    /\ stage = "Unrendered"
    /\ stage' = "Rendered"
    /\ UNCHANGED <<page, active, scrollTop, slot, avail>>

\* Every link resolved and compared: the matching entries become active.
AMark ==
    /\ stage = "Rendered"
    /\ stage' = "ActiveMarked"
    /\ active' = {e \in Entry : Matches(e, page)}
    /\ UNCHANGED <<page, scrollTop, slot, avail>>

\* The first active entry in document order.
Leading(S) == CHOOSE a \in S : \A b \in S : a <= b

ARestore ==
    /\ stage = "ActiveMarked"
    /\ avail
    /\ stage' = "ScrollRestored"
    /\ IF slot # NoValue
         THEN scrollTop' = slot /\ slot' = NoValue
         ELSE /\ scrollTop' = IF active = {} THEN scrollTop ELSE Center[Leading(active)]
              /\ UNCHANGED slot
    /\ UNCHANGED <<page, active, avail>>

AAbort ==
    /\ stage = "ActiveMarked"
    /\ ~avail
    /\ stage' = "Aborted"
    /\ UNCHANGED <<page, active, scrollTop, slot, avail>>

Settled == stage \in {"ScrollRestored", "Aborted"}

AScroll(o) ==
    /\ Settled
    /\ scrollTop' = o
    /\ UNCHANGED <<page, stage, active, slot, avail>>

\* The offset is stored and the page stays.
AStore ==
    /\ Settled
    /\ avail
    /\ slot' = scrollTop
    /\ UNCHANGED <<page, stage, active, scrollTop, avail>>

\* Page p is loaded; the offset is stored on the way out, or not.
ALeave(p) ==
    /\ Settled
    /\ page' = p
    /\ stage' = "Unrendered"
    /\ active' = {}
    /\ scrollTop' = 0
    /\ \/ slot' = slot
       \/ avail /\ slot' = scrollTop
    /\ UNCHANGED avail

ALoadStep == ARender \/ AMark \/ ARestore \/ AAbort

ANext ==
    \/ ALoadStep
    \/ \E o \in Offsets : AScroll(o)
    \/ AStore
    \/ \E p \in Pages : ALeave(p)

\* A load always runs to its end; the reader need not do anything.
ASpec == AInit /\ [][ANext]_avars /\ WF_avars(ALoadStep)

=============================================================================
