# TLA+ verification of the op-alloy book sidebar

The only behavioural code in this repository is `src/toc.js`, the sidebar
script of the generated documentation book. The rest of `src/` is generated data:

- `src/trait.impl/**/*.js` are rustdoc implementor tables;
- `src/op_alloy/protocol/sidebar-items.js` is a rustdoc item index.

`spec.md` describes the sidebar as four responsibilities. All four live in
`toc.js` and run once per page load, in this order:

| part | lines of `src/toc.js` | what it does |
|---|---|---|
| NavigationTree | 6-7 | finds the scrollbox and writes the chapter list literal into it |
| LinkResolver | 16-19 | rewrites every relative href to `path_to_root + href` |
| ActivePageMarker | 8-15, 21-34 | normalises the URL, marks matching links `active`, walks `parentElement` up and marks section headings `expanded` |
| ScrollPersister | 37-54 | a click listener saves `scrollTop` in `sessionStorage`; on load the slot is read, removed and applied, or the active entry is centred |

The parts interact through DOM state and through storage:

- the marker reads the hrefs the resolver wrote;
- the persister centres the entry the marker made active;
- the only state that outlives a page is the storage slot. One load's
  listener writes it, and the next load of the tab consumes it.

## Modules

- **`TocDom.tla`**: the static inputs. The constants are:
  - the chapter tree (`ParentEntry`, `PrevSibling`);
  - the hrefs (`Href`);
  - the URLs a page can have (`Pages`);
  - the classes the literal gives (`InitiallyExpanded`).

  A URL is a sequence of path segments. The module defines:
  - `Normalize` (lines 9-11);
  - `Resolve` and `LinkHref`, i.e. what the browser makes of `link.href = path_to_root + href` on a page at a given depth (lines 16-19);
  - `Matches`, the test of line 22 with its index alias.

  The DOM the literal builds is modelled only as far as the walk sees it:
  - `ParentElement`;
  - `PrevElementSibling`;
  - `IsLI`, the tagName test;
  - `IsChapterItem`, the class test.

  Named assumptions state what mdBook guarantees of the literal: parents
  precede children, hrefs are distinct, and only the first chapter may be
  the root `index.html`.
- **`Toc.tla`**: the script across the page loads of one tab.

  Variables:
  - the script's program counter `pc` and loop index `i`;
  - the walk's `parent`;
  - the classes: `active` and `expanded`;
  - `scrollTop`;
  - the storage slot `slot`, and whether storage works (`avail`);
  - three history variables, used only by properties: `marked`, `via` and `savedAt`.

  The script's actions are:
  - `Render`;
  - `ExamineMatch` and `ExamineSkip`, one iteration of the `for`;
  - `WalkStep`, one iteration of the `while`;
  - `WalkDone`;
  - `LoopDone`;
  - `RestoreFromSlot` and `RestoreToActive`, lines 38-53;
  - `StorageThrows`, where `getItem` throws.

  The reader's actions are:
  - `Scroll`;
  - `ClickLink(e, target, newTab)`, which runs the listener of lines 38-42. The target is the anchor or the `<strong>` number inside it. A modifier click opens a new tab and keeps this page.
  - `NavButton`, any other navigation.

  A navigation starts a fresh load through `LoadPage`. Only `slot` and `avail` carry over.
- **`TocAbstract.tla`**: what one load promises, as the stage machine of
  spec §4.4: `Unrendered → Rendered → ActiveMarked → ScrollRestored`, or
  `Aborted` when storage throws.
  - The spec's `LinksResolved` has no state of its own. The code rewrites
    and compares link by link, so the abstract step `AMark` does both at
    once: it makes active exactly `{e : Matches(e, page)}`.
  - `ARestore` consumes the slot or centres the first active entry.
  - Between loads the reader scrolls (`AScroll`), stores without leaving
    (`AStore`, a modifier click), or leaves for another page (`ALeave`),
    storing the offset or not.

  `Toc` defines the refinement mapping:
  - `StageOf` translates the program counter; `loop` and `walk` are `Rendered`.
  - `MarkedActive` is empty until the loop ends, then it is `active`.
  - `Abs == INSTANCE TocAbstract WITH stage <- StageOf, active <- MarkedActive`.

  The property `AbstractSpec == Abs!ASpec` states that the script implements the stage machine.
- **`MCToc.tla`**: the repository's own tree. It has 15 entries, translated one by one from the literal of line 7. It also defines the pages:
  - the 15 chapter URLs;
  - the site root as `""`, `index.html` and `print.html`;
  - the directory URLs ending in `/` of each section;
  - a top-level and a nested chapter, each opened at `#sec` and at
    `?highlight=op#sec`, as mdBook's search results open them. The tail
    stays in the last path segment, so `Dir`, `Normalize` and the
    comparison treat it as the browser does.

  The other constants are offsets `0..2` and a centring offset per entry.
- **`TocProofs.tla`**, **`TocRefinement.tla`**, **`TocScrollProofs.tla`**, **`TocWalkProofs.tla`**: TLAPS proofs (see Proofs).

## Runs

| run | cfg | expect | shows |
|---|---|---|---|
| sidebar | `MCToc.cfg` | pass | `TypeOK`, `AtMostOneActive`, `CurrentPageActive`, `ActivePathExpanded`, `LoadCompletes`, `ScrollRoundTrip` and the refinement `AbstractSpec` hold over every page, every click sequence, storage usable or blocked (13,568 states) |
| number_click | `MCToc_number_click.cfg` | violation | a click on the `<strong>` number navigates without saving the offset (line 39) |
| stale_slot | `MCToc_stale_slot.cfg` | violation | a modifier click leaves an offset in the slot, and the next button navigation restores it instead of centring (lines 40, 49) |
| storage_blocked | `MCToc_storage_blocked.cfg` | violation | blocked storage makes `getItem` throw: no centring fallback (line 43, spec §7) |
| sibling_marked | `MCToc_sibling_marked.cfg` | violation | the walk starts at the active entry's own `<li>` and marks its previous leaf sibling `expanded` (line 26) |
| anchor_page | `MCToc_anchor_page.cfg` | violation | a chapter opened at an anchor or from a search result (`intro.html#sec`) has no active entry, because line 22 compares against the whole location (a spec gap: §4.3's exact equality against §1's "the entry of the page on display") |
| expanded_literal | `MCToc_expanded_literal.cfg` | violation | the literal makes every section expanded, so headings off the active path are not collapsed (line 7) |

The six violations are disagreements between the code and its spec or
comments. They are listed under `findings` in `PROJECT.json`.

### Properties

- `AtMostOneActive`: the loop has no `break`, and the index alias can add
  the first link on top of an exact match. Only the href assumptions keep
  the active set to one entry.
- `CurrentPageActive`: after the loop, the chapter whose href names the
  page is active. This needs the rewrite before the comparison and a loop
  that visits every link.
- `ActivePathExpanded`: after a walk, every heading above the active entry
  has been marked. It compares the walk's effect with the tree's ancestor
  relation. The walk reaches a heading only through the wrapper `<li>` of
  its section, whose previous sibling is the heading. The property bounds
  the marked set from below only. Over-marking is the question of the
  `sibling_marked` run.
- `LoadCompletes`: every load reaches the end of the script.
- `AbstractSpec`: the refinement, with weak fairness on the abstract load
  steps. The loop must visit every link, the walks must end, and the
  restore must consume the slot exactly as the stage machine says.
- `ScrollRoundTrip` is an action property. A load reached by an anchor click
  restores exactly the saved offset, including 0, and empties the slot.

Each property of the passing run has a mutant in `PROJECT.json`, and TLC
finds the property violated by it:

| mutant | breaks |
|---|---|
| the alias without `i === 0` | `AtMostOneActive` |
| the comparison on the raw attribute | `CurrentPageActive` |
| a walk that stops at the first `<ol>` | `ActivePathExpanded` |
| a walk that restarts | `LoadCompletes` |
| the loop index advanced twice for a non-matching link | `TypeOK` |
| no `removeItem` | `ScrollRoundTrip` |
| the loop stops one link early | `AbstractSpec` |

### Bounds

- The tree is the real one. It has 15 entries, three levels, sections with
  and without children, and leaf siblings before sections.
- Pages cover every `path_to_root` depth 0-2 and the root in its three spellings, so the
  alias and the normalisation are exercised.
- Three offsets are enough to tell a saved offset from 0 and from a
  centring offset.
- Every action and every disjunct of `Next` fires in the passing run.
  `StorageThrows` fires because the run includes blocked storage.

### Fairness

`Spec` has weak fairness on `ScriptStep` only. The script is synchronous
and runs to its end during page load (spec §5), so once a step of it is
enabled it is taken. The reader's scrolls, clicks and navigations get no
fairness: nobody is obliged to click. Deadlock is checked. An idle page
can always scroll, so the system never stops.

## Proofs

All theorems hold for every value of the constants that satisfies the
named assumptions of `TocDom` and `Toc`:
- tree order;
- distinct hrefs;
- only the first chapter may be the root `index.html`;
- `Offsets ⊆ Nat` with `NoValue ∉ Offsets`.

`TocProofs.tla` holds the invariance proof and the theorems that follow from it:

- `Invariance`: `Spec => []IInv`;
- `TypeCorrect`: `Spec => []TypeOK`;
- `ActiveUnique`: `Spec => []AtMostOneActive`;
- `CurrentPageCorrect`: `Spec => []CurrentPageActive`.

The inductive invariant `IInv` is `TypeOK /\ ActiveSoFar /\ WalkForLink`:

- `ActiveSoFar` says that `active` is exactly `MatchedBelow(k, page)`, the
  matching links below `k`. `k` is `i` in the loop, `i + 1` during the walk
  for link `i`, and `N + 1` once the loop is over. This is what a loop
  without `break` computes. Neither target property is inductive without it:
  - uniqueness needs to know that every active entry matches;
  - `CurrentPageActive` needs to know that every matching link was seen.
- `WalkForLink` says that a walk belongs to an existing link.

The URL lemmas behind these theorems:

- `LinkHrefIsHref`: on any page, `path_to_root + href` resolves to the
  site-relative href.
- `MatchUnique`: hence two matching links have equal hrefs.
- `RootIndex`: the alias needs a depth-0 `index.html`.

Typing of the walk rests on `ParentElementType` and `PrevChapterItemType`.

`TocRefinement.tla` proves `Refinement`: `Spec => Abs!AInit /\ [][Abs!ANext]_Abs!avars`.

- Initial states map to initial states.
- Under `IInv`, every step maps as follows:
  - `Render` maps to `ARender`.
  - Loop and walk steps are stutters.
  - `LoopDone` maps to `AMark`, by `ActiveSoFar` with `i = N + 1`.
  - The restore steps map to `ARestore` or `AAbort`.
  - Scrolls and clicks map to `AScroll`, `AStore` or a stutter.
  - Page loads map to `ALeave`.
- `AbsMarkedSet` bridges the instance's copy of `Matches` to the module's own.

`TocScrollProofs.tla` proves `RoundTrip`: `Spec => ScrollRoundTrip`.

- It uses `SlotInvariance`, whose invariant `SlotHoldsSaved` says that from an anchor
  click with storage usable until the restore, the slot holds the offset
  of the click.
- The restore step is then `RestoreFromSlot`, because the offset is never
  `NoValue`.

`TocWalkProofs.tla` proves the ancestor walk of lines 24-32 correct for
every chapter tree in which headings precede their entries.

- `AncestorsEq` is the defining equation of the recursive function
  `AncestorsOf`. A recursive function definition is a `CHOOSE`, and the
  equation holds only if some function satisfies it. The proof exhibits
  one: `Reach(e)`, the entries reachable from `e` by one or more parent
  links, written as an explicit chain `c ∈ [0..n -> Entry]`. `ReachTop`
  and `ReachStep` show that `Reach` satisfies the equation: a top-level
  entry reaches nothing, and any other entry reaches its parent and what
  its parent reaches. The proof cuts and extends chains. It needs no
  induction.
- `HeadsAbove(x)` is the set of headings that the walk, standing at
  element `x`, has still to pass. `WalkStepHeads` shows what one iteration
  at `x` does: every heading above `x` stays above `parentElement`, or
  it is the chapter-item that the iteration makes expanded. A heading
  leaves the walk's sight at its wrapper `<li>`, whose previous sibling
  is the heading's own chapter-item.
- `WalkInvariance`: `Spec => []WInv`, where `WInv` is `IInv` plus two
  further conjuncts:
  - `ActiveMarked`: every active entry has its ancestors marked, except
    the link whose walk is under way;
  - `WalkMarks`: during the walk for link `i`, each ancestor of `i` is
    marked or still in `HeadsAbove(parent)`.

  `ActivePathExpanded` is not inductive by itself, because it says
  nothing during a walk. `WalkMarks` carries the walk from its start at
  the anchor (heads = all ancestors) to `null` (heads = none). The step
  proof rests on `IInv` before and after the step, from `Invariance`.
- `ActivePathCorrect`: `Spec => []ActivePathExpanded`.
- `MarkedExpandedInvariance` and `ActivePathClassCorrect`: a marked entry
  keeps class `expanded` until the next load. Hence every heading above
  the active entry has the class itself, which is what spec §3 claims.

A walk step can also mark a previous leaf sibling (the `sibling_marked`
finding). This does not disturb these proofs, because they bound the
marked set from below and never from above.

These stay with TLC:

- Liveness: `LoadCompletes`, and the fairness part of `AbstractSpec`. The
  provers do not reason about `ENABLED` and fairness.
- The properties of the violation runs, which are false of the code.

## Not modelled

- The trait implementor tables and the sidebar item index are generated
  data. Their consumer, rustdoc's `main.js`, is not in the repository, and
  spec §1 puts them out of scope.
- A missing scrollbox is not modelled. Line 7 would throw, and every page
  of this book has the sidebar.
- Absolute and fragment hrefs are not modelled. The literal has none, so
  the guard of line 18 is always true here.

## Plan

- Prove that the walk of an active entry ends (needs a well-founded
  measure on elements and fairness, so it stays with TLC for now).
- Model the missing-scrollbox case, if a layout without a sidebar is ever
  used.
