-------------------------- MODULE MCFeedLifecycle ---------------------------
(* Instances of FeedLifecycle for TLC *)
EXTENDS FeedLifecycle

CONSTANTS a, b    \* two URLs

TwoUrls == {a, b}
OneUrl == {a}

NoRedirects == [u \in Url |-> {}]
AMovesToB == [u \in Url |-> IF u = a THEN {b} ELSE {}]
Nowhere == {}

Once == [u \in Url |-> 1]
TwiceA == [u \in Url |-> IF u = a THEN 2 ELSE 0]
=============================================================================
