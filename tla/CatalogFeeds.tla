---------------------------- MODULE CatalogFeeds ----------------------------
(***************************************************************************)
(* The CatalogStore's handlers that read or write feeds: ProposeNewFeed,   *)
(* FeedStatusUpdate, UpdateFeedUrl, CheckPodcast, and of UpdatePodcast what *)
(* it does to the registration of the podcast.                             *)
(*                                                                         *)
(* A handler never waits for the database.  It starts a call and returns;  *)
(* the call is executed some time later, and its callback, which runs on   *)
(* the result, may start the next one.  calls holds every call that was    *)
(* started and has not been executed; the calls of different messages, and *)
(* several calls of one message, are executed in any order.  Executing a   *)
(* call and running its callback are one step here: all a callback does is *)
(* start other calls and send messages, and both may be delayed anyway.    *)
(***************************************************************************)
EXTENDS FeedMessages

CONSTANT MaxFaults    \* bound on the database calls that fail

ASSUME FaultsAssumption == MaxFaults \in Nat

VARIABLES
    feeds,      \* collection "feeds": id -> document
    podcasts,   \* collection "podcasts": id -> document
    calls,      \* bag of the database calls under way
    lastId,     \* the IdGenerator's last ID
    faults      \* number of database calls that failed so far

catalog == <<feeds, podcasts, calls, lastId, faults>>

-----------------------------------------------------------------------------
Feed == [podcastId : Id, url : Url, lastStatus : FeedStatus]

\* registration.complete of a podcast; its metadata is left out
Podcast == [complete : BOOLEAN]

\* Reads: a name of the handler they belong to and its arguments.
ReadCall ==
    [op : {"proposeFeed"}, url : Url]
        \cup [op : {"onFeedStatusUpdate"},
              id : Id, url : Url, status : FeedStatus]
        \cup [op : {"onUpdateFeedUrl"}, url : Url, newUrl : Url]
        \cup [op : {"onCheckPodcast", "onUpdatePodcast"}, id : Id]

\* Writes: the ID of the document to upsert, and the document.  The two
\* creating calls also name what their callback needs.
WriteCall ==
    [op : {"createPodcast"}, id : Id, feedId : Id, url : Url]
        \cup [op : {"createFeed", "saveFeed"}, id : Id, doc : Feed]
        \cup [op : {"completePodcast"}, id : Id]

Call == ReadCall \cup WriteCall

\* A collection is a function from the IDs of its documents.
IsCollectionOf(c, Document) ==
    /\ DOMAIN c \subseteq Id
    /\ c \in [DOMAIN c -> Document]

CatalogOK ==
    /\ IsCollectionOf(feeds, Feed)
    /\ IsCollectionOf(podcasts, Podcast)
    /\ IsMailboxOf(calls, Call)
    /\ lastId \in Id
    /\ faults \in 0 .. MaxFaults

CatalogInit ==
    /\ feeds = [i \in {} |-> {}]
    /\ podcasts = [i \in {} |-> {}]
    /\ calls = EmptyBag
    /\ lastId = 0
    /\ faults = 0

-----------------------------------------------------------------------------
(***************************************************************************)
(* The database.                                                           *)
(***************************************************************************)
\* update({_id: id}, doc, upsert = true)
Upsert(c, id, doc) ==
    [i \in DOMAIN c \cup {id} |-> IF i = id THEN doc ELSE c[i]]

FeedsByUrl(url) == {i \in DOMAIN feeds : feeds[i].url = url}

FeedsOfPodcast(id) == {i \in DOMAIN feeds : feeds[i].podcastId = id}

-----------------------------------------------------------------------------
(***************************************************************************)
(* Receiving a message.                                                    *)
(***************************************************************************)
Receive(m, call) ==
    /\ m \in Deliverable(catalogBox, CatalogPriority)
    /\ catalogBox' = Take(catalogBox, m)
    /\ calls' = Post(calls, call)
    /\ UNCHANGED <<updaterBox, crawlerBox, parserBox>>
    /\ UNCHANGED <<feeds, podcasts, lastId, faults>>

ReceiveProposeNewFeed(m) ==
    /\ m.type = "ProposeNewFeed"
    /\ Receive(m, [op |-> "proposeFeed", url |-> m.url])

ReceiveFeedStatusUpdate(m) ==
    /\ m.type = "FeedStatusUpdate"
    /\ Receive(m, [op |-> "onFeedStatusUpdate", id |-> m.id, url |-> m.url,
                   status |-> m.status])

ReceiveUpdateFeedUrl(m) ==
    /\ m.type = "UpdateFeedUrl"
    /\ Receive(m, [op |-> "onUpdateFeedUrl", url |-> m.url,
                   newUrl |-> m.newUrl])

ReceiveCheckPodcast(m) ==
    /\ m.type = "CheckPodcast"
    /\ Receive(m, [op |-> "onCheckPodcast", id |-> m.id])

ReceiveUpdatePodcast(m) ==
    /\ m.type = "UpdatePodcast"
    /\ Receive(m, [op |-> "onUpdatePodcast", id |-> m.id])

CatalogReceive ==
    \E m \in Queued(catalogBox) :
        \/ ReceiveProposeNewFeed(m)
        \/ ReceiveFeedStatusUpdate(m)
        \/ ReceiveUpdateFeedUrl(m)
        \/ ReceiveCheckPodcast(m)
        \/ ReceiveUpdatePodcast(m)

-----------------------------------------------------------------------------
(***************************************************************************)
(* Executing a call and its callback.                                      *)
(***************************************************************************)
\* Call c is done and starts the calls of the set next.
Continue(c, next) == calls' = PostAll(Take(calls, c), next)

StartWithOldIds(c) ==   \* mutant: the IDs are not used up
    /\ UNCHANGED lastId
    /\ Continue(c, {[op |-> "createPodcast", id |-> lastId + 1,
                     feedId |-> lastId + 2, url |-> c.url]})
    /\ UNCHANGED <<feeds, podcasts>> /\ UNCHANGED boxes

\* proposeFeed, on an empty result: two new IDs, then the podcast is saved.
\* Callbacks run side by side, so the IDs of two registrations may mix; all
\* that matters is that no ID is given out twice.
StartRegistration(c) ==
    /\ lastId' = lastId + 2
    /\ Continue(c, {[op |-> "createPodcast", id |-> lastId + 1,
                     feedId |-> lastId + 2, url |-> c.url]})
    /\ UNCHANGED <<feeds, podcasts>> /\ UNCHANGED boxes

FindProposedFeed(c) ==
    /\ c.op = "proposeFeed"
    /\ FeedsByUrl(c.url) = {}
    /\ StartRegistration(c)
    /\ UNCHANGED faults

FindAnyFeed(c) ==   \* mutant: the result is not looked at
    /\ c.op = "proposeFeed"
    /\ Continue(c, {})
    /\ UNCHANGED <<feeds, podcasts, lastId, faults>> /\ UNCHANGED boxes

\* "Feed URL is already in database"
FindKnownFeed(c) ==
    /\ c.op = "proposeFeed"
    /\ FeedsByUrl(c.url) # {}
    /\ Continue(c, {})
    /\ UNCHANGED <<feeds, podcasts, lastId, faults>> /\ UNCHANGED boxes

NewFeed(podcastId, url) ==
    [podcastId |-> podcastId, url |-> url, lastStatus |-> "NeverChecked"]

CreatePodcastLast(c) ==   \* mutant: the feed is registered, not the podcast
    /\ c.op = "createPodcast"
    /\ Continue(c, {[op |-> "createFeed", id |-> c.feedId,
                     doc |-> NewFeed(c.id, c.url)]})
    /\ UNCHANGED <<feeds, podcasts, lastId, faults>> /\ UNCHANGED boxes

CreatePodcastOnly(c) ==   \* mutant: the second save is not chained
    /\ c.op = "createPodcast"
    /\ podcasts' = Upsert(podcasts, c.id, [complete |-> FALSE])
    /\ Continue(c, {})
    /\ UNCHANGED <<feeds, lastId, faults>> /\ UNCHANGED boxes

CreatePodcastAndCrawl(c) ==   \* mutant: the Updater hears of it too early
    /\ c.op = "createPodcast"
    /\ podcasts' = Upsert(podcasts, c.id, [complete |-> FALSE])
    /\ Continue(c, {[op |-> "createFeed", id |-> c.feedId,
                     doc |-> NewFeed(c.id, c.url)]})
    /\ updaterBox' = Post(updaterBox,
                          ProcessFeed(c.id, c.url, "NewPodcastFetchJob"))
    /\ UNCHANGED <<feeds, lastId, faults>>
    /\ UNCHANGED <<catalogBox, crawlerBox, parserBox>>

\* The podcast is saved; only then the feed is.
CreatePodcast(c) ==
    /\ c.op = "createPodcast"
    /\ podcasts' = Upsert(podcasts, c.id, [complete |-> FALSE])
    /\ Continue(c, {[op |-> "createFeed", id |-> c.feedId,
                     doc |-> NewFeed(c.id, c.url)]})
    /\ UNCHANGED <<feeds, lastId, faults>> /\ UNCHANGED boxes

\* The feed is saved; only then the Updater hears of it.
CreateFeed(c) ==
    /\ c.op = "createFeed"
    /\ feeds' = Upsert(feeds, c.id, c.doc)
    /\ Continue(c, {})
    /\ updaterBox' = Post(updaterBox, ProcessFeed(c.doc.podcastId, c.doc.url,
                                                  "NewPodcastFetchJob"))
    /\ UNCHANGED <<podcasts, lastId, faults>>
    /\ UNCHANGED <<catalogBox, crawlerBox, parserBox>>

\* A save whose result nobody waits for.
SaveFeed(c) ==
    /\ c.op = "saveFeed"
    /\ feeds' = Upsert(feeds, c.id, c.doc)
    /\ Continue(c, {})
    /\ UNCHANGED <<podcasts, lastId, faults>> /\ UNCHANGED boxes

SaveOf(i, doc) == [op |-> "saveFeed", id |-> i, doc |-> doc]

FindFeedOfStatusAsPodcast(c) ==   \* mutant: saved under the podcast's ID
    /\ c.op = "onFeedStatusUpdate"
    /\ LET found == FeedsByUrl(c.url) \cap FeedsOfPodcast(c.id)
       IN \/ \E i \in found :
                Continue(c, {SaveOf(c.id, [feeds[i] EXCEPT
                                              !.lastStatus = c.status])})
          \/ found = {} /\ Continue(c, {})
    /\ UNCHANGED <<feeds, podcasts, lastId, faults>> /\ UNCHANGED boxes

\* findOneByUrlAndPodcastId, then the document that was read is saved whole.
FindFeedOfStatus(c) ==
    /\ c.op = "onFeedStatusUpdate"
    /\ LET found == FeedsByUrl(c.url) \cap FeedsOfPodcast(c.id)
       IN \/ \E i \in found :
                Continue(c, {SaveOf(i, [feeds[i] EXCEPT
                                            !.lastStatus = c.status])})
          \/ found = {} /\ Continue(c, {})
    /\ UNCHANGED <<feeds, podcasts, lastId, faults>> /\ UNCHANGED boxes

FindMovedFeedsAsNew(c) ==   \* mutant: a new document instead of a copy
    /\ c.op = "onUpdateFeedUrl"
    /\ Continue(c, {SaveOf(i, NewFeed(i, c.newUrl)) : i \in FeedsByUrl(c.url)})
    /\ UNCHANGED <<feeds, podcasts, lastId, faults>> /\ UNCHANGED boxes

\* findAllByUrl, then every document that was read is saved whole.
FindMovedFeeds(c) ==
    /\ c.op = "onUpdateFeedUrl"
    /\ Continue(c, {SaveOf(i, [feeds[i] EXCEPT !.url = c.newUrl]) :
                        i \in FeedsByUrl(c.url)})
    /\ UNCHANGED <<feeds, podcasts, lastId, faults>> /\ UNCHANGED boxes

\* findOnePrimaryByPodcast and checkFeed.  Every feed is stored as primary.
FindFeedToCheck(c) ==
    /\ c.op = "onCheckPodcast"
    /\ Continue(c, {})
    /\ \/ \E i \in FeedsOfPodcast(c.id) :
            updaterBox' = Post(updaterBox, ProcessFeed(c.id, feeds[i].url,
                                                  "UpdateEpisodesFetchJob"))
       \/ FeedsOfPodcast(c.id) = {} /\ UNCHANGED updaterBox
    /\ UNCHANGED <<feeds, podcasts, lastId, faults>>
    /\ UNCHANGED <<catalogBox, crawlerBox, parserBox>>

\* A podcast that is found is merged, one that is not is added: either way
\* the registration is complete.
FindPodcastToUpdate(c) ==
    /\ c.op = "onUpdatePodcast"
    /\ Continue(c, {[op |-> "completePodcast", id |-> c.id]})
    /\ UNCHANGED <<feeds, podcasts, lastId, faults>> /\ UNCHANGED boxes

CompletePodcast(c) ==
    /\ c.op = "completePodcast"
    /\ podcasts' = Upsert(podcasts, c.id, [complete |-> TRUE])
    /\ Continue(c, {})
    /\ UNCHANGED <<feeds, lastId, faults>> /\ UNCHANGED boxes

DatabaseReply ==
    \E c \in Queued(calls) :
        \/ FindProposedFeed(c)
        \/ FindKnownFeed(c)
        \/ CreatePodcast(c)
        \/ CreateFeed(c)
        \/ SaveFeed(c)
        \/ FindFeedOfStatus(c)
        \/ FindMovedFeeds(c)
        \/ FindFeedToCheck(c)
        \/ FindPodcastToUpdate(c)
        \/ CompletePodcast(c)

-----------------------------------------------------------------------------
(***************************************************************************)
(* Database calls that fail.                                               *)
(***************************************************************************)
Fault == faults < MaxFaults /\ faults' = faults + 1

\* The call never reached the collection, so no callback runs; or findOne or
\* findAll recovered from an error with an empty result, on which the
\* callback does nothing.  (onUpdatePodcast goes on with an empty result as
\* with any other: FindPodcastToUpdate.)
ReadFails(c) ==
    /\ c \in ReadCall
    /\ Fault
    /\ Continue(c, {})
    /\ UNCHANGED <<feeds, podcasts, lastId>> /\ UNCHANGED boxes

\* findAll recovers from an error with Nil: the URL looks unknown.
FindFailsAsUnknown(c) ==
    /\ c.op = "proposeFeed"
    /\ Fault
    /\ StartRegistration(c)

\* A write that fails runs no callback ...
WriteFails(c) ==
    /\ c \in WriteCall
    /\ Fault
    /\ Continue(c, {})
    /\ UNCHANGED <<feeds, podcasts, lastId>> /\ UNCHANGED boxes

\* ... nor does one that was applied, when the read that follows the update
\* within save fails.
WriteIsNotConfirmed(c) ==
    /\ Fault
    /\ Continue(c, {})
    /\ \/ /\ c.op \in {"createFeed", "saveFeed"}
          /\ feeds' = Upsert(feeds, c.id, c.doc)
          /\ UNCHANGED podcasts
       \/ /\ c.op = "createPodcast"
          /\ podcasts' = Upsert(podcasts, c.id, [complete |-> FALSE])
          /\ UNCHANGED feeds
       \/ /\ c.op = "completePodcast"
          /\ podcasts' = Upsert(podcasts, c.id, [complete |-> TRUE])
          /\ UNCHANGED feeds
    /\ UNCHANGED lastId /\ UNCHANGED boxes

DatabaseFault ==
    \E c \in Queued(calls) :
        \/ ReadFails(c)
        \/ FindFailsAsUnknown(c)
        \/ WriteFails(c)
        \/ WriteIsNotConfirmed(c)
=============================================================================
