------------------------------- MODULE TocDom -------------------------------
(***************************************************************************)
(* The static inputs of the sidebar script src/toc.js: the chapter tree    *)
(* that line 7 writes into the scrollbox as an HTML literal, the URLs a    *)
(* page of the book can be loaded at, and the DOM shape the literal        *)
(* produces.  Nothing here changes while the script runs.                  *)
(*                                                                         *)
(* A URL is a sequence of path segments below the site root; its last      *)
(* segment is the file name, "" when the URL ends with "/".                *)
(***************************************************************************)
EXTENDS Integers, Sequences, FiniteSets

CONSTANTS
    N,             \* number of chapter entries (anchors) in the sidebar
    ParentEntry,   \* ParentEntry[e]: the entry whose section holds e, 0 at top level
    PrevSibling,   \* PrevSibling[e]: the entry before e in the same list, 0 if none
    Href,          \* Href[e]: the site-relative href attribute of entry e's anchor
    Pages,         \* the URLs a page of the book can be loaded at
    InitiallyExpanded  \* the entries whose <li> the literal gives class "expanded"

\* Entries are numbered in document order, i.e. in querySelectorAll order.
Entry == 1..N

NAssumption == N \in Nat \ {0}

\* A section heading precedes the entries of its section in the document.
ParentAssumption ==
    /\ ParentEntry \in [Entry -> 0..N]
    /\ \A e \in Entry : ParentEntry[e] < e

\* PrevSibling[e] is the last entry before e with e's parent.
PrevSiblingAssumption ==
    /\ PrevSibling \in [Entry -> 0..N]
    /\ \A e \in Entry :
         /\ PrevSibling[e] < e
         /\ PrevSibling[e] # 0 => ParentEntry[PrevSibling[e]] = ParentEntry[e]
         /\ \A g \in (PrevSibling[e] + 1)..(e - 1) : ParentEntry[g] # ParentEntry[e]

\* Every href of the literal is relative, and the hrefs are distinct
\* (mdBook emits one anchor per chapter file).  Besides the first chapter,
\* no top-level chapter is the site's index.html.
HrefAssumption ==
    /\ Href \in [Entry -> Seq(STRING)]
    /\ \A e, f \in Entry : Href[e] = Href[f] => e = f
    /\ \A e \in Entry \ {1} : Href[e] # <<"index.html">>

\* Every chapter can be loaded at its own href.
PagesAssumption ==
    /\ Pages \subseteq Seq(STRING) \ {<<>>}
    /\ \A e \in Entry : Href[e] \in Pages

ExpandedAssumption == InitiallyExpanded \subseteq Entry

ASSUME NAssumption
ASSUME ParentAssumption
ASSUME PrevSiblingAssumption
ASSUME HrefAssumption
ASSUME PagesAssumption
ASSUME ExpandedAssumption

-----------------------------------------------------------------------------
(***************************************************************************)
(* URLs.                                                                   *)
(***************************************************************************)

\* The directory part of a URL and its file name.
Dir(u) == SubSeq(u, 1, Len(u) - 1)
FileName(u) == u[Len(u)]

\* The host page's global path_to_root: one "../" per directory level.
PathToRoot(u) == Len(u) - 1

\* current_page: a URL ending in "/" names that directory's index.html.
Normalize(u) == IF FileName(u) = "" THEN [u EXCEPT ![Len(u)] = "index.html"]
                                    ELSE u

\* link.href after `link.href = path_to_root + href`: the browser resolves
\* k leading "../" against the directory of the page u and appends h.
Resolve(u, k, h) == SubSeq(Dir(u), 1, Len(Dir(u)) - k) \o h

\* Mutant: the attribute compared before the rewrite of line 19.
LinkHrefUnrewritten(e, u) == Resolve(u, 0, Href[e])

LinkHref(e, u) == Resolve(u, PathToRoot(u), Href[e])

\* Mutant: the alias of line 22 without its `i === 0`.
MatchesAliasAnyLink(e, u) ==
    \/ LinkHref(e, u) = Normalize(u)
    \/ /\ PathToRoot(u) = 0
       /\ FileName(Normalize(u)) = "index.html"

\* The condition of line 22 for the link of entry e on the page at u: its
\* resolved href is the current page, or it is the first link and the page
\* is the site root's index, which aliases the first chapter.
Matches(e, u) ==
    \/ LinkHref(e, u) = Normalize(u)
    \/ /\ e = 1
       /\ PathToRoot(u) = 0
       /\ FileName(Normalize(u)) = "index.html"

-----------------------------------------------------------------------------
(***************************************************************************)
(* The DOM the literal of line 7 builds.  Entry e renders as              *)
(*   <li class="chapter-item ..."><a href=...>...</a></li>                 *)
(* and, when e has entries below it, that <li> is followed by a wrapper    *)
(*   <li><ol class="section"> ...the <li>s of e's entries... </ol></li>    *)
(* The top-level <li>s sit in <ol class="chapter"> inside the scrollbox.   *)
(***************************************************************************)

HasChildren(e) == \E c \in Entry : ParentEntry[c] = e

Anchor(e)   == <<"a", e>>
Item(e)     == <<"li", e>>
Wrapper(e)  == <<"wrap", e>>
Section(e)  == <<"section", e>>
ChapterList == <<"chapter", 0>>
Scrollbox   == <<"scrollbox", 0>>
NoElement   == <<"null", 0>>

Elements ==
    {Anchor(e) : e \in Entry} \cup {Item(e) : e \in Entry}
      \cup {Wrapper(e) : e \in {p \in Entry : HasChildren(p)}}
      \cup {Section(e) : e \in {p \in Entry : HasChildren(p)}}
      \cup {ChapterList, Scrollbox}

\* The <ol> that holds entry e's <li> (and its wrapper <li>).
ListOf(e) == IF ParentEntry[e] = 0 THEN ChapterList ELSE Section(ParentEntry[e])

\* parentElement.  Above the scrollbox come nav#sidebar, body and html,
\* none of them an <li>; they are collapsed into the walk's end.
ParentElement(x) ==
    CASE x[1] = "a"       -> Item(x[2])
      [] x[1] = "li"      -> ListOf(x[2])
      [] x[1] = "wrap"    -> ListOf(x[2])
      [] x[1] = "section" -> Wrapper(x[2])
      [] x[1] = "chapter" -> Scrollbox
      [] OTHER            -> NoElement

\* previousElementSibling of an <li>: the entry before e in its list ends
\* with its wrapper <li> when it has a section, with its own <li> otherwise.
PrevElementSibling(x) ==
    CASE x[1] = "li" /\ PrevSibling[x[2]] # 0 ->
              IF HasChildren(PrevSibling[x[2]]) THEN Wrapper(PrevSibling[x[2]])
                                                ELSE Item(PrevSibling[x[2]])
      [] x[1] = "wrap" -> Item(x[2])
      [] OTHER         -> NoElement

IsLI(x) == x[1] \in {"li", "wrap"}

IsChapterItem(x) == x[1] = "li"

=============================================================================
