---------------------------- MODULE FeedRegistry ----------------------------
(***************************************************************************)
(* What the catalog promises of feeds and podcasts, with every save as one *)
(* atomic step and nothing else in sight: a podcast is registered before   *)
(* its one feed is, a registration completes only after both are there,    *)
(* nothing is ever removed or registered twice, and a feed never changes   *)
(* hands.  What becomes of a feed's URL and status is left open.           *)
(***************************************************************************)
CONSTANTS Url, FeedStatus

VARIABLES feeds, podcasts

registry == <<feeds, podcasts>>

HasFeed(p) == \E i \in DOMAIN feeds : feeds[i].podcastId = p

\* c is extended by one document, or one document of it is replaced.
Stored(c, id, doc) ==
    [i \in DOMAIN c \cup {id} |-> IF i = id THEN doc ELSE c[i]]

Init == DOMAIN feeds = {} /\ DOMAIN podcasts = {}

RegisterPodcast(p) ==
    /\ p \notin DOMAIN podcasts
    /\ podcasts' = Stored(podcasts, p, [complete |-> FALSE])
    /\ UNCHANGED feeds

RegisterFeed(i, p, u) ==
    /\ p \in DOMAIN podcasts /\ ~podcasts[p].complete /\ ~HasFeed(p)
    /\ i \notin DOMAIN feeds
    /\ feeds' = Stored(feeds, i, [podcastId |-> p, url |-> u,
                                  lastStatus |-> "NeverChecked"])
    /\ UNCHANGED podcasts

ChangeFeed(i, u, s) ==
    /\ feeds' = Stored(feeds, i, [podcastId |-> feeds[i].podcastId,
                                  url |-> u, lastStatus |-> s])
    /\ UNCHANGED podcasts

CompletePodcast(p) ==
    /\ HasFeed(p)
    /\ podcasts' = Stored(podcasts, p, [complete |-> TRUE])
    /\ UNCHANGED feeds

Next ==
    \/ \E p \in DOMAIN podcasts' : RegisterPodcast(p)
    \/ \E i \in DOMAIN feeds', p \in DOMAIN podcasts, u \in Url :
            RegisterFeed(i, p, u)
    \/ \E i \in DOMAIN feeds, u \in Url, s \in FeedStatus : ChangeFeed(i, u, s)
    \/ \E p \in DOMAIN podcasts : CompletePodcast(p)

Spec == Init /\ [][Next]_registry
=============================================================================
