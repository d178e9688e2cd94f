--------------------------- MODULE FeedLifecycle ----------------------------
(***************************************************************************)
(* The life of a feed: proposed by a user or an OPML file, registered with *)
(* a podcast of its own, crawled, parsed, and crawled again when a user    *)
(* asks for a check.  CatalogFeeds and FeedCrawl run side by side and meet *)
(* in the mailboxes.                                                       *)
(***************************************************************************)
EXTENDS CatalogFeeds, FeedCrawl, FiniteSets

CONSTANTS
    MaxProposals,   \* [Url -> Nat]: how often a URL may be proposed
    MaxChecks       \* how many checks users may request

ASSUME RequestsAssumption ==
    /\ MaxProposals \in [Url -> Nat]
    /\ MaxChecks \in Nat

VARIABLES
    proposals,   \* proposals that may still be made, per URL
    checks       \* checks that may still be requested

users == <<proposals, checks>>

vars == <<catalogBox, updaterBox, crawlerBox, parserBox,
          feeds, podcasts, calls, lastId, faults, proposals, checks>>

TypeOK ==
    /\ BoxesOK
    /\ CatalogOK
    /\ proposals \in [Url -> Nat]
    /\ checks \in Nat

Init ==
    /\ BoxesInit
    /\ CatalogInit
    /\ proposals = MaxProposals
    /\ checks = MaxChecks

-----------------------------------------------------------------------------
(***************************************************************************)
(* Users, through GuardedOperationDispatcher and the Node.                 *)
(***************************************************************************)
Propose(u) ==
    /\ proposals[u] > 0
    /\ proposals' = [proposals EXCEPT ![u] = @ - 1]
    /\ catalogBox' = Post(catalogBox, ProposeNewFeed(u))
    /\ UNCHANGED <<updaterBox, crawlerBox, parserBox, checks>>
    /\ UNCHANGED catalog

ImportOpml(urls) ==
    /\ \A u \in urls : proposals[u] > 0
    /\ proposals' = [u \in Url |-> IF u \in urls THEN proposals[u] - 1
                                   ELSE proposals[u]]
    /\ parserBox' = Post(parserBox, ParseOpml(urls))
    /\ UNCHANGED <<catalogBox, updaterBox, crawlerBox, checks>>
    /\ UNCHANGED catalog

RequestCheck(id) ==
    /\ checks > 0
    /\ checks' = checks - 1
    /\ catalogBox' = Post(catalogBox, CheckPodcast(id))
    /\ UNCHANGED <<updaterBox, crawlerBox, parserBox, proposals>>
    /\ UNCHANGED catalog

\* An OPML file lists at least two feeds; one alone is as good as proposed.
UserRequest ==
    \/ \E u \in Url : Propose(u)
    \/ \E urls \in SUBSET Url : Cardinality(urls) > 1 /\ ImportOpml(urls)
    \/ \E id \in DOMAIN podcasts : RequestCheck(id)

-----------------------------------------------------------------------------
CatalogStep == (CatalogReceive \/ DatabaseReply) /\ UNCHANGED users

Crawl ==
    /\ UpdaterReceive \/ CrawlerReceive \/ ParserReceive
    /\ UNCHANGED catalog
    /\ UNCHANGED users

Next ==
    \/ UserRequest
    \/ CatalogStep
    \/ Crawl
    \/ DatabaseFault /\ UNCHANGED users

Spec == Init /\ [][Next]_vars

(***************************************************************************)
(* The dispatchers run every actor whose mailbox is not empty, and the     *)
(* database answers every call.  Users need not do anything.               *)
(***************************************************************************)
Fairness ==
    /\ WF_vars(CatalogReceive /\ UNCHANGED users)
    /\ WF_vars(DatabaseReply /\ UNCHANGED users)
    /\ WF_vars(UpdaterReceive /\ UNCHANGED catalog /\ UNCHANGED users)
    /\ WF_vars(CrawlerReceive /\ UNCHANGED catalog /\ UNCHANGED users)
    /\ WF_vars(ParserReceive /\ UNCHANGED catalog /\ UNCHANGED users)

FairSpec == Spec /\ Fairness

-----------------------------------------------------------------------------
(***************************************************************************)
(* Safety                                                                  *)
(***************************************************************************)
\* Every feed in the database belongs to a podcast in the database: the
\* saves are chained (CatalogStore.proposeFeed), and no later save of a
\* document that was read earlier may break the reference.
FeedHasPodcast ==
    \A i \in DOMAIN feeds : feeds[i].podcastId \in DOMAIN podcasts

IsStored(id) == id \in DOMAIN podcasts /\ FeedsOfPodcast(id) # {}

\* "we chain the create calls to ensure that the message to the Updater is
\* only dispatched once we can be sure the podcast and the feed are in the
\* database" (CatalogStore.proposeFeed): every step of a crawl, and whatever
\* the crawl reports to the catalog, is about a podcast and a feed that are
\* stored.
CrawlsAreStored ==
    /\ \A m \in Queued(updaterBox) : IsStored(m.id)
    /\ \A m \in Queued(crawlerBox) : IsStored(m.id)
    /\ \A m \in Queued(parserBox) : m.type = "ParseFeedData" => IsStored(m.id)
    /\ \A m \in Queued(catalogBox) :
        m.type \in {"FeedStatusUpdate", "UpdatePodcast"} => IsStored(m.id)

\* A complete registration stays complete (CatalogStore.onUpdatePodcast): the
\* save that creates the podcast as incomplete cannot come after the one that
\* completes it.
RegistrationStaysComplete ==
    [][\A p \in DOMAIN podcasts :
            podcasts[p].complete => podcasts'[p].complete]_podcasts

\* The catalog keeps the promises of the abstract registry, whatever its
\* saves and reads do to one another (CatalogStore.proposeFeed,
\* onFeedStatusUpdate, onUpdateFeedMetadataUrl and onUpdatePodcast).
Registry == INSTANCE FeedRegistry
    WITH Url <- Url, FeedStatus <- FeedStatus,
         feeds <- feeds, podcasts <- podcasts
ImplementsRegistry == Registry!Spec

\* Podcasts without a feed whose feed is not about to be saved either.
Orphans ==
    {p \in DOMAIN podcasts :
        /\ FeedsOfPodcast(p) = {}
        /\ \A c \in Queued(calls) :
            c.op = "createFeed" => c.doc.podcastId # p}

\* proposeFeed creates the podcast before its feed, and nothing removes it
\* when the feed's save fails: a fault costs at most one orphan, and nothing
\* else leaves one.
OrphansAreFaults == Cardinality(Orphans) <= faults

-----------------------------------------------------------------------------
(***************************************************************************)
(* The strengthening of FeedHasPodcast and CrawlsAreStored that every step *)
(* preserves.  A registration under way is the only one of its podcast and *)
(* its feed, and is not in the database yet; every document that was read  *)
(* and is about to be saved is one of the database, of the same podcast.   *)
(***************************************************************************)
Creating == {c \in Queued(calls) : c.op \in {"createPodcast", "createFeed"}}

PodcastOf(c) == IF c.op = "createPodcast" THEN c.id ELSE c.doc.podcastId

FeedOf(c) == IF c.op = "createPodcast" THEN c.feedId ELSE c.id

CreatingIsFresh ==
    \A c \in Creating :
        /\ FeedOf(c) = PodcastOf(c) + 1
        /\ FeedOf(c) <= lastId
        /\ FeedOf(c) \notin DOMAIN feeds
        /\ c.op = "createPodcast" <=> PodcastOf(c) \notin DOMAIN podcasts
        /\ c.op = "createFeed" =>
            /\ ~podcasts[PodcastOf(c)].complete
            /\ c.doc.lastStatus = "NeverChecked"
        /\ calls[c] = 1
        /\ \A d \in Creating : PodcastOf(d) = PodcastOf(c) => d = c

StoredIdsAreUsed ==
    /\ \A i \in DOMAIN feeds : i <= lastId /\ i = feeds[i].podcastId + 1
    /\ \A p \in DOMAIN podcasts : p <= lastId

CallIsStored(c) ==
    /\ c.op \in {"onFeedStatusUpdate", "onUpdatePodcast", "completePodcast"}
        => IsStored(c.id)
    /\ c.op = "saveFeed" =>
        /\ c.id \in DOMAIN feeds
        /\ feeds[c.id].podcastId = c.doc.podcastId

CallsAreStored == \A c \in Queued(calls) : CallIsStored(c)

IInv ==
    /\ TypeOK
    /\ FeedHasPodcast
    /\ CrawlsAreStored
    /\ CreatingIsFresh
    /\ StoredIdsAreUsed
    /\ CallsAreStored

-----------------------------------------------------------------------------
(***************************************************************************)
(* What a settled catalog says of its feeds                                *)
(***************************************************************************)
\* Nothing waits and no call is under way.
Settled ==
    \A box \in {catalogBox, updaterBox, crawlerBox, parserBox, calls} :
        box = EmptyBag

\* A podcast whose registration is complete was downloaded, and the worker
\* reported it (CrawlerWorker.fetchContent).  Once all is quiet its feed is
\* no longer marked as never checked, but for one case: the report names the
\* location a redirect led to, and the catalog may look the feed up by it
\* before it has heard of the move.
CompletePodcastWasChecked ==
    Settled /\ faults = 0 =>
        \A i \in DOMAIN feeds :
            /\ podcasts[feeds[i].podcastId].complete
            /\ feeds[i].lastStatus = "NeverChecked"
            => \E u \in Url : feeds[i].url \in Redirects[u]

\* HeminEngine.propose: the engine processes the URL "if the URL is yet
\* unknown to the database", so no two feeds are registered for one URL.
OneFeedPerUrl ==
    faults = 0 => \A u \in Url : Cardinality(FeedsByUrl(u)) <= 1

-----------------------------------------------------------------------------
(***************************************************************************)
(* Liveness                                                                *)
(***************************************************************************)
\* No message begets messages forever: once users are quiet, so is the
\* engine (the mailboxes of CatalogStore, Updater, Crawler and Parser drain).
EventuallySettled == <>[]Settled

\* A proposal is answered by a feed of that URL (CatalogStore.proposeFeed),
\* unless the database fails.
ProposalIsAnswered ==
    \A u \in Url :
        ProposeNewFeed(u) \in Queued(catalogBox) ~> FeedsByUrl(u) # {}

\* Where every server answers and every feed parses, and the database does
\* not fail, every registration is completed in the end: no message that the
\* registration depends on (CatalogStore.proposeFeed to onUpdatePodcast) can
\* be lost or wait forever.
RegistrationsComplete ==
    MaxFaults = 0 /\ Unreachable = {} /\ Malformed = {} =>
        <>[](\A p \in DOMAIN podcasts : podcasts[p].complete)
=============================================================================
