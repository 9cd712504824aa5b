------------------------------- MODULE MCToc -------------------------------
(***************************************************************************)
(* The sidebar of this repository's book, as the literal of line 7 of     *)
(* src/toc.js renders it: 15 chapters, four of them section headings.     *)
(***************************************************************************)
EXTENDS Toc

\* Chapters in document order:
\*  1 intro  2 starting/installation  3 building/index  4 genesis/index
\*  5 rollup-config  6 system-config  7 consensus  8 engine  9 protocol/index
\* 10 block-info  11 examples/index  12 load-a-rollup-config
\* 13 CONTRIBUTING  14 LICENSE  15 glossary
MCN == 15

MCParentEntry == <<0, 0, 0, 3, 4, 4, 3, 3, 3, 9, 0, 11, 0, 0, 0>>

MCPrevSibling == <<0, 1, 2, 0, 0, 5, 4, 7, 8, 0, 3, 0, 11, 13, 14>>

MCHref ==
    << <<"intro.html">>,
       <<"starting", "installation.html">>,
       <<"building", "index.html">>,
       <<"building", "genesis", "index.html">>,
       <<"building", "genesis", "rollup-config.html">>,
       <<"building", "genesis", "system-config.html">>,
       <<"building", "consensus.html">>,
       <<"building", "engine.html">>,
       <<"building", "protocol", "index.html">>,
       <<"building", "protocol", "block-info.html">>,
       <<"examples", "index.html">>,
       <<"examples", "load-a-rollup-config.html">>,
       <<"CONTRIBUTING.html">>,
       <<"LICENSE.html">>,
       <<"glossary.html">> >>

\* Chapter pages opened at an anchor, or from a search result.
MCSuffixes == {"#sec", "?highlight=op#sec"}

\* Every chapter page; the site root, bare and as index.html (mdBook copies
\* the first chapter there); print.html, which is in no entry; the
\* directory URLs of the chapters that are a directory's index.html; and a
\* top-level and a nested chapter with each tail.
MCPages ==
    {MCHref[e] : e \in 1..MCN}
      \cup {<<"">>, <<"index.html">>, <<"print.html">>,
            <<"building", "">>, <<"building", "genesis", "">>,
            <<"building", "protocol", "">>, <<"examples", "">>}
      \cup {AtSuffix(MCHref[e], s) : e \in {1, 5}, s \in MCSuffixes}

\* The literal gives every chapter-item the class "expanded".
MCInitiallyExpanded == 1..MCN

MCOffsets == 0..2

\* Layout: the first chapters are near the top and centre at offset 0.
MCCenter == [e \in 1..MCN |-> IF e <= 2 THEN 0 ELSE 1 + (e % 2)]

=============================================================================
