-------------------------- MODULE MCEpisodeCatalog --------------------------
(* Instances of EpisodeCatalog for TLC *)
EXTENDS EpisodeCatalog

CONSTANTS p, q, i, j, h, s, t    \* podcasts, items and titles

TwoPodcasts == {p, q}
ThreeItems == {i, j, h}
TwoTitles == {s, t}
OnlyI == {i}
OnlyH == {h}
Nothing == {}

\* Feed p always lists item i, feed q lists one of the others.
OneTitle ==
    [x \in TwoPodcasts |->
        {[title |-> s, items |-> {y}] : y \in IF x = p THEN OnlyI ELSE {j, h}}]

\* Feeds that change their title
Retitled ==
    [x \in TwoPodcasts |-> {[title |-> y, items |-> OnlyI] : y \in TwoTitles}]

TwiceAndOnce == [x \in TwoPodcasts |-> IF x = p THEN 2 ELSE 1]
=============================================================================
