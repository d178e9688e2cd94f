------------------------------ MODULE MCWebApp ------------------------------
(* Instances of WebApp for TLC *)
EXTENDS WebApp

CONSTANTS x, y    \* two IDs

TwoIds == {x, y}

\* Two podcasts, two episodes, two searches and the pages without ID.
SomeRoutes ==
    [kind : {"podcast", "episode"}, id : TwoIds]
    \cup [kind : {"search"}, id : TwoIds \cup {NoId}]
    \cup [kind : {"home", "discover", "propose"}, id : {NoId}]
=============================================================================
