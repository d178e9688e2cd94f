----------------------- MODULE FeedLifecycleTheorems ------------------------
(***************************************************************************)
(* Proofs about FeedLifecycle, for any set of URLs, any behaviour of the   *)
(* servers, and any number of proposals, checks and database faults.       *)
(***************************************************************************)
EXTENDS FeedLifecycle, MailboxTheorems, TLAPS

-----------------------------------------------------------------------------
(***************************************************************************)
(* The fields of a message and of a call, by its type.                     *)
(***************************************************************************)
LEMMA CatalogMessageFields ==
    ASSUME NEW m \in CatalogMessage
    PROVE  /\ m.type = "ProposeNewFeed" => m.url \in Url
           /\ m.type \in {"CheckPodcast", "UpdatePodcast"} => m.id \in Id
           /\ m.type = "FeedStatusUpdate" =>
                m.id \in Id /\ m.url \in Url /\ m.status \in FeedStatus
           /\ m.type = "UpdateFeedUrl" => m.url \in Url /\ m.newUrl \in Url
BY DEF CatalogMessage

LEMMA ParserMessageFields ==
    ASSUME NEW m \in ParserMessage
    PROVE  /\ m.type = "ParseFeedData" =>
                m.id \in Id /\ m.url \in Url /\ m.job \in FetchJob
           /\ m.type = "ParseOpml" => m.urls \subseteq Url
BY DEF ParserMessage

LEMMA CallFields ==
    ASSUME NEW c \in Call
    PROVE  /\ c.op = "proposeFeed" => c.url \in Url
           /\ c.op = "onFeedStatusUpdate" =>
                c.id \in Id /\ c.url \in Url /\ c.status \in FeedStatus
           /\ c.op = "onUpdateFeedUrl" => c.url \in Url /\ c.newUrl \in Url
           /\ c.op \in {"onCheckPodcast", "onUpdatePodcast",
                        "completePodcast"} => c.id \in Id
           /\ c.op = "createPodcast" =>
                c.id \in Id /\ c.feedId \in Id /\ c.url \in Url
           /\ c.op \in {"createFeed", "saveFeed"} =>
                c.id \in Id /\ c.doc \in Feed
BY DEF Call, ReadCall, WriteCall

LEMMA UpsertKeepsCollection ==
    ASSUME NEW c, NEW D, IsCollectionOf(c, D), NEW id \in Id, NEW doc \in D
    PROVE  /\ IsCollectionOf(Upsert(c, id, doc), D)
           /\ DOMAIN Upsert(c, id, doc) = DOMAIN c \cup {id}
BY DEF IsCollectionOf, Upsert

LEMMA ContinueKeepsCalls ==
    ASSUME IsMailboxOf(calls, Call), NEW c, NEW S \in SUBSET Call,
           Continue(c, S)
    PROVE  IsMailboxOf(calls', Call)
BY TakeKeepsMailbox, PostAllKeepsMailbox DEF Continue

-----------------------------------------------------------------------------
(***************************************************************************)
(* Type correctness                                                        *)
(***************************************************************************)
LEMMA TypeInit == Init => TypeOK
BY RequestsAssumption, FaultsAssumption, EmptyMailbox
   DEF Init, TypeOK, BoxesInit, BoxesOK, CatalogInit, CatalogOK,
       IsCollectionOf, Id

LEMMA TypeUserRequest == TypeOK /\ UserRequest => TypeOK'
<1> SUFFICES ASSUME TypeOK, UserRequest PROVE TypeOK'
    OBVIOUS
<1> USE DEF TypeOK, BoxesOK
<1>1. ASSUME NEW u \in Url, Propose(u) PROVE TypeOK'
    <2>1. ProposeNewFeed(u) \in CatalogMessage
        BY DEF ProposeNewFeed, CatalogMessage
    <2>2. IsMailboxOf(catalogBox', CatalogMessage)
        BY <1>1, <2>1, PostKeepsMailbox DEF Propose
    <2>3. proposals' \in [Url -> Nat]
        BY <1>1 DEF Propose
    <2> QED BY <1>1, <2>2, <2>3 DEF Propose, catalog, CatalogOK
<1>2. ASSUME NEW urls \in SUBSET Url, ImportOpml(urls) PROVE TypeOK'
    <2>1. ParseOpml(urls) \in ParserMessage
        BY DEF ParseOpml, ParserMessage
    <2>2. IsMailboxOf(parserBox', ParserMessage)
        BY <1>2, <2>1, PostKeepsMailbox DEF ImportOpml
    <2>3. proposals' \in [Url -> Nat]
        BY <1>2 DEF ImportOpml
    <2> QED BY <1>2, <2>2, <2>3 DEF ImportOpml, catalog, CatalogOK
<1>3. ASSUME NEW id \in DOMAIN podcasts, RequestCheck(id) PROVE TypeOK'
    <2>1. CheckPodcast(id) \in CatalogMessage
        BY DEF CheckPodcast, CatalogMessage, CatalogOK, IsCollectionOf
    <2>2. IsMailboxOf(catalogBox', CatalogMessage)
        BY <1>3, <2>1, PostKeepsMailbox DEF RequestCheck
    <2>3. checks' \in Nat
        BY <1>3 DEF RequestCheck
    <2> QED BY <1>3, <2>2, <2>3 DEF RequestCheck, catalog, CatalogOK
<1> QED BY <1>1, <1>2, <1>3 DEF UserRequest

LEMMA TypeCatalogReceive ==
    TypeOK /\ CatalogReceive /\ UNCHANGED users => TypeOK'
<1> SUFFICES ASSUME TypeOK, UNCHANGED users,
                    NEW m \in Queued(catalogBox),
                    \/ ReceiveProposeNewFeed(m)
                    \/ ReceiveFeedStatusUpdate(m)
                    \/ ReceiveUpdateFeedUrl(m)
                    \/ ReceiveCheckPodcast(m)
                    \/ ReceiveUpdatePodcast(m)
             PROVE  TypeOK'
    BY DEF CatalogReceive
<1> USE DEF TypeOK, BoxesOK
<1>1. m \in CatalogMessage
    BY DEF IsMailboxOf
<1>2. ASSUME NEW call \in Call, Receive(m, call) PROVE TypeOK'
    <2>1. IsMailboxOf(catalogBox', CatalogMessage)
        BY <1>2, TakeKeepsMailbox DEF Receive
    <2>2. IsMailboxOf(calls', Call)
        BY <1>2, PostKeepsMailbox DEF Receive, CatalogOK
    <2> QED BY <1>2, <2>1, <2>2 DEF Receive, CatalogOK, users
<1>3. CASE ReceiveProposeNewFeed(m)
    BY <1>1, <1>2, <1>3, CatalogMessageFields
       DEF ReceiveProposeNewFeed, Call, ReadCall
<1>4. CASE ReceiveFeedStatusUpdate(m)
    BY <1>1, <1>2, <1>4, CatalogMessageFields
       DEF ReceiveFeedStatusUpdate, Call, ReadCall
<1>5. CASE ReceiveUpdateFeedUrl(m)
    BY <1>1, <1>2, <1>5, CatalogMessageFields
       DEF ReceiveUpdateFeedUrl, Call, ReadCall
<1>6. CASE ReceiveCheckPodcast(m)
    BY <1>1, <1>2, <1>6, CatalogMessageFields
       DEF ReceiveCheckPodcast, Call, ReadCall
<1>7. CASE ReceiveUpdatePodcast(m)
    BY <1>1, <1>2, <1>7, CatalogMessageFields
       DEF ReceiveUpdatePodcast, Call, ReadCall
<1> QED BY <1>3, <1>4, <1>5, <1>6, <1>7

LEMMA TypeStartRegistration ==
    ASSUME TypeOK, NEW c \in Queued(calls), c.op = "proposeFeed",
           StartRegistration(c)
    PROVE  /\ IsMailboxOf(calls', Call) /\ lastId' \in Id
           /\ UNCHANGED <<feeds, podcasts>> /\ UNCHANGED boxes
<1> DEFINE next == [op |-> "createPodcast", id |-> lastId + 1,
                    feedId |-> lastId + 2, url |-> c.url]
<1>1. c \in Call /\ lastId \in Nat
    BY DEF TypeOK, CatalogOK, IsMailboxOf, Id
<1>2. next \in Call
    BY <1>1, CallFields DEF Call, WriteCall, Id
<1>3. IsMailboxOf(calls', Call)
    BY <1>2, ContinueKeepsCalls DEF StartRegistration, TypeOK, CatalogOK
<1> QED BY <1>1, <1>3 DEF StartRegistration, Id

LEMMA TypeDatabaseReply ==
    TypeOK /\ DatabaseReply /\ UNCHANGED users => TypeOK'
<1> SUFFICES ASSUME TypeOK, UNCHANGED users,
                    NEW c \in Queued(calls),
                    \/ FindProposedFeed(c)
                    \/ FindKnownFeed(c)
                    \/ CreatePodcast(c)
                    \/ CreateFeed(c)
                    \/ SaveFeed(c)
                    \/ FindFeedOfStatus(c)
                    \/ FindMovedFeeds(c)
                    \/ FindFeedToCheck(c)
                    \/ FindPodcastToUpdate(c)
                    \/ CompletePodcast(c)
             PROVE  TypeOK'
    BY DEF DatabaseReply
<1> USE DEF TypeOK, BoxesOK, CatalogOK, users, boxes
<1>1. c \in Call
    BY DEF IsMailboxOf
<1>2. \A i \in DOMAIN feeds : i \in Id /\ feeds[i] \in Feed
    BY DEF IsCollectionOf
<1>3. CASE FindProposedFeed(c)
    BY <1>3, TypeStartRegistration DEF FindProposedFeed
<1>4. CASE FindKnownFeed(c)
    BY <1>4, ContinueKeepsCalls DEF FindKnownFeed
<1>5. CASE CreatePodcast(c)
    <2>1. c.id \in Id /\ c.feedId \in Id /\ c.url \in Url
        BY <1>1, <1>5, CallFields DEF CreatePodcast
    <2>2. IsCollectionOf(podcasts', Podcast)
        BY <1>5, <2>1, UpsertKeepsCollection DEF CreatePodcast, Podcast
    <2> DEFINE next == [op |-> "createFeed", id |-> c.feedId,
                        doc |-> NewFeed(c.id, c.url)]
    <2>3. next \in Call
        BY <2>1 DEF NewFeed, Feed, FeedStatus, Call, WriteCall
    <2>4. IsMailboxOf(calls', Call)
        BY <1>5, <2>3, ContinueKeepsCalls DEF CreatePodcast
    <2> QED BY <1>5, <2>2, <2>4 DEF CreatePodcast
<1>6. CASE CreateFeed(c)
    <2>1. c.id \in Id /\ c.doc \in Feed
        BY <1>1, <1>6, CallFields DEF CreateFeed
    <2>2. IsCollectionOf(feeds', Feed)
        BY <1>6, <2>1, UpsertKeepsCollection DEF CreateFeed
    <2>3. ProcessFeed(c.doc.podcastId, c.doc.url, "NewPodcastFetchJob")
            \in UpdaterMessage
        BY <2>1 DEF Feed, ProcessFeed, UpdaterMessage, FetchJob
    <2>4. IsMailboxOf(updaterBox', UpdaterMessage)
        BY <1>6, <2>3, PostKeepsMailbox DEF CreateFeed
    <2>5. IsMailboxOf(calls', Call)
        BY <1>6, ContinueKeepsCalls DEF CreateFeed
    <2> QED BY <1>6, <2>2, <2>4, <2>5 DEF CreateFeed
<1>7. CASE SaveFeed(c)
    <2>1. c.id \in Id /\ c.doc \in Feed
        BY <1>1, <1>7, CallFields DEF SaveFeed
    <2>2. IsCollectionOf(feeds', Feed)
        BY <1>7, <2>1, UpsertKeepsCollection DEF SaveFeed
    <2>3. IsMailboxOf(calls', Call)
        BY <1>7, ContinueKeepsCalls DEF SaveFeed
    <2> QED BY <1>7, <2>2, <2>3 DEF SaveFeed
<1>8. CASE FindFeedOfStatus(c)
    <2>1. c.status \in FeedStatus
        BY <1>1, <1>8, CallFields DEF FindFeedOfStatus
    <2>2. \A i \in DOMAIN feeds :
            SaveOf(i, [feeds[i] EXCEPT !.lastStatus = c.status]) \in Call
        BY <1>2, <2>1 DEF SaveOf, Feed, Call, WriteCall
    <2>3. \A i \in FeedsByUrl(c.url) : i \in DOMAIN feeds
        BY DEF FeedsByUrl
    <2>4. IsMailboxOf(calls', Call)
        BY <1>8, <2>2, <2>3, ContinueKeepsCalls DEF FindFeedOfStatus
    <2> QED BY <1>8, <2>4 DEF FindFeedOfStatus
<1>9. CASE FindMovedFeeds(c)
    <2>1. c.newUrl \in Url
        BY <1>1, <1>9, CallFields DEF FindMovedFeeds
    <2>2. \A i \in FeedsByUrl(c.url) :
            SaveOf(i, [feeds[i] EXCEPT !.url = c.newUrl]) \in Call
        BY <1>2, <2>1 DEF FeedsByUrl, SaveOf, Feed, Call, WriteCall
    <2>3. IsMailboxOf(calls', Call)
        BY <1>9, <2>2, ContinueKeepsCalls DEF FindMovedFeeds
    <2> QED BY <1>9, <2>3 DEF FindMovedFeeds
<1>10. CASE FindFeedToCheck(c)
    <2>1. c.id \in Id
        BY <1>1, <1>10, CallFields DEF FindFeedToCheck
    <2>2. \A i \in FeedsOfPodcast(c.id) :
            ProcessFeed(c.id, feeds[i].url, "UpdateEpisodesFetchJob")
                \in UpdaterMessage
        BY <1>2, <2>1
           DEF FeedsOfPodcast, ProcessFeed, UpdaterMessage, Feed, FetchJob
    <2>3. IsMailboxOf(updaterBox', UpdaterMessage)
        BY <1>10, <2>2, PostKeepsMailbox DEF FindFeedToCheck
    <2>4. IsMailboxOf(calls', Call)
        BY <1>10, ContinueKeepsCalls DEF FindFeedToCheck
    <2> QED BY <1>10, <2>3, <2>4 DEF FindFeedToCheck
<1>11. CASE FindPodcastToUpdate(c)
    <2>1. [op |-> "completePodcast", id |-> c.id] \in Call
        BY <1>1, <1>11, CallFields DEF FindPodcastToUpdate, Call, WriteCall
    <2>2. IsMailboxOf(calls', Call)
        BY <1>11, <2>1, ContinueKeepsCalls DEF FindPodcastToUpdate
    <2> QED BY <1>11, <2>2 DEF FindPodcastToUpdate
<1>12. CASE CompletePodcast(c)
    <2>1. IsCollectionOf(podcasts', Podcast)
        BY <1>1, <1>12, CallFields, UpsertKeepsCollection
           DEF CompletePodcast, Podcast
    <2>2. IsMailboxOf(calls', Call)
        BY <1>12, ContinueKeepsCalls DEF CompletePodcast
    <2> QED BY <1>12, <2>1, <2>2 DEF CompletePodcast
<1> QED BY <1>3, <1>4, <1>5, <1>6, <1>7, <1>8, <1>9, <1>10, <1>11, <1>12

LEMMA TypeDatabaseFault ==
    TypeOK /\ DatabaseFault /\ UNCHANGED users => TypeOK'
<1> SUFFICES ASSUME TypeOK, UNCHANGED users,
                    NEW c \in Queued(calls),
                    \/ ReadFails(c)
                    \/ FindFailsAsUnknown(c)
                    \/ WriteFails(c)
                    \/ WriteIsNotConfirmed(c)
             PROVE  TypeOK'
    BY DEF DatabaseFault
<1> USE DEF TypeOK, BoxesOK, CatalogOK, users, boxes
<1>1. c \in Call
    BY DEF IsMailboxOf
<1>2. Fault => faults' \in 0 .. MaxFaults
    BY FaultsAssumption DEF Fault
<1>3. CASE ReadFails(c)
    BY <1>2, <1>3, ContinueKeepsCalls DEF ReadFails
<1>4. CASE FindFailsAsUnknown(c)
    BY <1>2, <1>4, TypeStartRegistration DEF FindFailsAsUnknown
<1>5. CASE WriteFails(c)
    BY <1>2, <1>5, ContinueKeepsCalls DEF WriteFails
<1>6. CASE WriteIsNotConfirmed(c)
    <2>1. IsMailboxOf(calls', Call)
        BY <1>6, ContinueKeepsCalls DEF WriteIsNotConfirmed
    <2>2. CASE /\ c.op \in {"createFeed", "saveFeed"}
               /\ feeds' = Upsert(feeds, c.id, c.doc)
               /\ UNCHANGED podcasts
        <3>1. IsCollectionOf(feeds', Feed)
            BY <1>1, <2>2, CallFields, UpsertKeepsCollection
        <3> QED BY <1>2, <1>6, <2>1, <2>2, <3>1 DEF WriteIsNotConfirmed
    <2>3. ASSUME NEW b \in BOOLEAN,
                 c.op \in {"createPodcast", "completePodcast"},
                 podcasts' = Upsert(podcasts, c.id, [complete |-> b]),
                 UNCHANGED feeds
          PROVE  TypeOK'
        <3>1. IsCollectionOf(podcasts', Podcast)
            BY <1>1, <2>3, CallFields, UpsertKeepsCollection DEF Podcast
        <3> QED BY <1>2, <1>6, <2>1, <2>3, <3>1 DEF WriteIsNotConfirmed
    <2> QED BY <1>6, <2>2, <2>3 DEF WriteIsNotConfirmed
<1> QED BY <1>3, <1>4, <1>5, <1>6

LEMMA TypeCrawl == TypeOK /\ Crawl => TypeOK'
<1> SUFFICES ASSUME TypeOK, Crawl PROVE TypeOK'
    OBVIOUS
<1> USE DEF TypeOK, BoxesOK
<1>1. CatalogOK' /\ UNCHANGED users
    BY DEF Crawl, catalog, CatalogOK, FeedsByUrl
<1>2. ASSUME NEW m \in Queued(updaterBox), UpdaterProcessFeed(m)
      PROVE  BoxesOK'
    <2>1. m \in UpdaterMessage
        BY DEF IsMailboxOf
    <2>2. DownloadWithHeadCheck(m.id, m.url, m.job) \in CrawlerMessage
        BY <2>1 DEF UpdaterMessage, CrawlerMessage, DownloadWithHeadCheck
    <2>3. IsMailboxOf(updaterBox', UpdaterMessage)
        BY <1>2, TakeKeepsMailbox DEF UpdaterProcessFeed
    <2>4. IsMailboxOf(crawlerBox', CrawlerMessage)
        BY <1>2, <2>2, PostKeepsMailbox DEF UpdaterProcessFeed
    <2> QED BY <1>2, <2>3, <2>4 DEF UpdaterProcessFeed
<1>3. ASSUME NEW m \in Queued(crawlerBox),
             \/ HeadCheckSucceeds(m)
             \/ HeadCheckWithoutLocation(m)
             \/ FetchSucceeds(m)
             \/ CrawlFails(m)
      PROVE  BoxesOK'
    <2>1. m \in CrawlerMessage
        BY DEF IsMailboxOf
    <2>2. m.id \in Id /\ m.url \in Url /\ m.job \in FetchJob
        BY <2>1 DEF CrawlerMessage
    <2>3. IsMailboxOf(Take(crawlerBox, m), CrawlerMessage)
        BY TakeKeepsMailbox
    <2>4. \A s \in FeedStatus :
            FeedStatusUpdate(m.id, m.url, s) \in CatalogMessage
        BY <2>2 DEF FeedStatusUpdate, CatalogMessage
    <2>5. CASE HeadCheckSucceeds(m)
        <3>1. PICK href \in {m.url} \cup Redirects[m.url] :
                /\ catalogBox' = IF href = m.url THEN catalogBox
                                 ELSE Post(catalogBox,
                                           UpdateFeedUrl(m.url, href))
                /\ crawlerBox' = Post(Take(crawlerBox, m),
                                      DownloadContent(m.id, href, m.job))
            BY <2>5 DEF HeadCheckSucceeds
        <3>2. href \in Url
            BY <2>2, WebAssumption
        <3>3. DownloadContent(m.id, href, m.job) \in CrawlerMessage
            BY <2>2, <3>2 DEF DownloadContent, CrawlerMessage
        <3>4. UpdateFeedUrl(m.url, href) \in CatalogMessage
            BY <2>2, <3>2 DEF UpdateFeedUrl, CatalogMessage
        <3>5. IsMailboxOf(catalogBox', CatalogMessage)
            BY <3>1, <3>4, PostKeepsMailbox
        <3>6. IsMailboxOf(crawlerBox', CrawlerMessage)
            BY <2>3, <3>1, <3>3, PostKeepsMailbox
        <3> QED BY <2>5, <3>5, <3>6 DEF HeadCheckSucceeds
    <2>6. CASE HeadCheckWithoutLocation(m)
        BY <2>3, <2>4, <2>6, PostKeepsMailbox
           DEF HeadCheckWithoutLocation, FeedStatus
    <2>7. CASE FetchSucceeds(m)
        <3>1. ParseFeedData(m.id, m.url, m.job) \in ParserMessage
            BY <2>2 DEF ParseFeedData, ParserMessage
        <3> QED BY <2>3, <2>4, <2>7, <3>1, PostKeepsMailbox
                DEF FetchSucceeds, FeedStatus
    <2>8. CASE CrawlFails(m)
        BY <2>3, <2>8 DEF CrawlFails
    <2> QED BY <1>3, <2>5, <2>6, <2>7, <2>8
<1>4. ASSUME NEW m \in Queued(parserBox),
             \/ ParseSucceeds(m) \/ ParseFails(m)
             \/ ParseOpmlFile(m) \/ ParseOpmlFails(m)
      PROVE  BoxesOK'
    <2>1. m \in ParserMessage
        BY DEF IsMailboxOf
    <2>2. IsMailboxOf(Take(parserBox, m), ParserMessage)
        BY TakeKeepsMailbox
    <2>3. CASE ParseSucceeds(m)
        <3>1. UpdatePodcast(m.id) \in CatalogMessage
            BY <2>1, <2>3, ParserMessageFields
               DEF ParseSucceeds, UpdatePodcast, CatalogMessage
        <3> QED BY <2>2, <2>3, <3>1, PostKeepsMailbox DEF ParseSucceeds
    <2>4. CASE ParseFails(m)
        <3>1. FeedStatusUpdate(m.id, m.url, "ParserError") \in CatalogMessage
            BY <2>1, <2>4, ParserMessageFields
               DEF ParseFails, FeedStatusUpdate, CatalogMessage, FeedStatus
        <3> QED BY <2>2, <2>4, <3>1, PostKeepsMailbox DEF ParseFails
    <2>5. CASE ParseOpmlFile(m)
        <3>1. {ProposeNewFeed(u) : u \in m.urls} \subseteq CatalogMessage
            BY <2>1, <2>5, ParserMessageFields
               DEF ParseOpmlFile, ProposeNewFeed, CatalogMessage
        <3> QED BY <2>2, <2>5, <3>1, PostAllKeepsMailbox DEF ParseOpmlFile
    <2>6. CASE ParseOpmlFails(m)
        BY <2>2, <2>6 DEF ParseOpmlFails
    <2> QED BY <1>4, <2>3, <2>4, <2>5, <2>6
<1>5. BoxesOK'
    BY <1>2, <1>3, <1>4 DEF Crawl, UpdaterReceive, CrawlerReceive,
                            ParserReceive
<1> QED BY <1>1, <1>5 DEF users

LEMMA TypeNext == TypeOK /\ [Next]_vars => TypeOK'
<1> SUFFICES ASSUME TypeOK, [Next]_vars PROVE TypeOK'
    OBVIOUS
<1>1. CASE UNCHANGED vars
    BY <1>1 DEF TypeOK, BoxesOK, CatalogOK, vars
<1>2. CASE Next
    BY <1>2, TypeUserRequest, TypeCatalogReceive, TypeDatabaseReply,
       TypeDatabaseFault, TypeCrawl DEF Next, CatalogStep
<1> QED BY <1>1, <1>2

\* Every mailbox, collection and database call of the feed life cycle holds
\* only what its handler expects.
THEOREM TypeCorrect == Spec => []TypeOK
BY TypeInit, TypeNext, PTL DEF Spec

-----------------------------------------------------------------------------
(***************************************************************************)
(* The inductive invariant.  First, what a call that is done leaves.       *)
(***************************************************************************)
LEMMA ContinueLeaves ==
    ASSUME IsMailboxOf(calls, Call), NEW c \in Queued(calls),
           NEW S \in SUBSET Call, Continue(c, S)
    PROVE  /\ \A d \in Queued(calls') \ S :
                /\ d \in Queued(calls)
                /\ d # c => calls'[d] = calls[d]
                /\ d = c => calls[d] # 1
           /\ \A d \in S \ Queued(calls) : calls'[d] = 1
<1> DEFINE rest == Take(calls, c)
<1>1. /\ IsMailboxOf(rest, Call)
      /\ Queued(rest) \subseteq Queued(calls)
      /\ \A d \in Queued(calls) : d # c => rest[d] = calls[d]
      /\ calls[c] = 1 => c \notin Queued(rest)
    BY TakeKeepsMailbox
<1> HIDE DEF rest
<1>2. calls' = PostAll(rest, S)
    BY DEF Continue, rest
<1>3. /\ Queued(calls') = Queued(rest) \cup S
      /\ \A d \in Queued(rest) \ S : calls'[d] = rest[d]
      /\ \A d \in S \ Queued(rest) : calls'[d] = 1
    BY <1>1, <1>2, PostAllKeepsMailbox
<1> QED BY <1>1, <1>3

\* While the collections and IDs stay, the registrations under way stay
\* fresh if none is added, and the calls stay stored if the new ones are.
LEMMA CallsFrame ==
    ASSUME IInv, UNCHANGED <<feeds, podcasts, lastId>>,
           NEW N, \A d \in N : /\ d.op \notin {"createPodcast", "createFeed"}
                               /\ CallIsStored(d),
           \A d \in Queued(calls') \ N :
                /\ d \in Queued(calls)
                /\ d \in Creating => calls'[d] = calls[d]
    PROVE  FeedHasPodcast' /\ CreatingIsFresh' /\ StoredIdsAreUsed'
           /\ CallsAreStored'
<1> USE DEF IInv
<1>1. FeedHasPodcast' /\ StoredIdsAreUsed'
    BY DEF FeedHasPodcast, StoredIdsAreUsed
<1>2. \A d : CallIsStored(d) => CallIsStored(d)'
    BY DEF CallIsStored, IsStored, FeedsOfPodcast
<1>3. CallsAreStored'
    BY <1>2 DEF CallsAreStored
<1>4. \A d \in Creating' : d \in Creating /\ calls'[d] = calls[d]
    BY DEF Creating
<1>5. CreatingIsFresh'
    BY <1>4 DEF CreatingIsFresh, FeedOf, PodcastOf
<1> QED BY <1>1, <1>3, <1>5

LEMMA QuietFrame ==
    ASSUME IInv, UNCHANGED <<feeds, podcasts, lastId, calls>>
    PROVE  FeedHasPodcast' /\ CreatingIsFresh' /\ StoredIdsAreUsed'
           /\ CallsAreStored'
BY DEF IInv, FeedHasPodcast, CreatingIsFresh, Creating, FeedOf, PodcastOf,
       StoredIdsAreUsed, CallsAreStored, CallIsStored, IsStored, FeedsOfPodcast

LEMMA ContinueFrame ==
    ASSUME IInv, UNCHANGED <<feeds, podcasts, lastId>>,
           NEW c \in Queued(calls), NEW S \in SUBSET Call, Continue(c, S),
           \A d \in S : /\ d.op \notin {"createPodcast", "createFeed"}
                        /\ CallIsStored(d)
    PROVE  FeedHasPodcast' /\ CreatingIsFresh' /\ StoredIdsAreUsed'
           /\ CallsAreStored'
<1>1. IsMailboxOf(calls, Call)
    BY DEF IInv, TypeOK, CatalogOK
<1>2. \A d \in Creating : calls[d] = 1
    BY DEF IInv, CreatingIsFresh
<1>3. \A d \in Queued(calls') \ S :
        d \in Queued(calls) /\ (d \in Creating => calls'[d] = calls[d])
    BY <1>1, <1>2, ContinueLeaves
<1> QED BY <1>3, CallsFrame

\* Messages stay stored while nothing is removed from the collections.
LEMMA MessagesFrame ==
    ASSUME CrawlsAreStored, UNCHANGED boxes,
           \A id : IsStored(id) => IsStored(id)'
    PROVE  CrawlsAreStored'
BY DEF CrawlsAreStored, boxes

LEMMA StoredFrame ==
    ASSUME UNCHANGED <<feeds, podcasts>>
    PROVE  \A id : IsStored(id)' = IsStored(id)
BY DEF IsStored, FeedsOfPodcast

-----------------------------------------------------------------------------
LEMMA IInvInit == Init => IInv
<1> SUFFICES ASSUME Init PROVE IInv
    OBVIOUS
<1>1. TypeOK
    BY TypeInit
<1>2. Queued(catalogBox) = {} /\ Queued(updaterBox) = {}
      /\ Queued(crawlerBox) = {} /\ Queued(parserBox) = {}
      /\ Queued(calls) = {}
    BY EmptyMailbox DEF Init, BoxesInit, CatalogInit
<1>3. DOMAIN feeds = {} /\ DOMAIN podcasts = {}
    BY DEF Init, CatalogInit
<1> QED BY <1>1, <1>2, <1>3
        DEF IInv, FeedHasPodcast, CrawlsAreStored, CreatingIsFresh, Creating,
            StoredIdsAreUsed, CallsAreStored

LEMMA IInvUserRequest == IInv /\ UserRequest => IInv'
<1> SUFFICES ASSUME IInv, UserRequest PROVE IInv'
    OBVIOUS
<1>1. TypeOK'
    BY TypeUserRequest DEF IInv
<1>2. UNCHANGED <<feeds, podcasts, lastId, calls>>
    BY DEF UserRequest, Propose, ImportOpml, RequestCheck, catalog
<1>3. FeedHasPodcast' /\ CreatingIsFresh' /\ StoredIdsAreUsed'
      /\ CallsAreStored'
    BY <1>2, QuietFrame
<1>4. CrawlsAreStored'
    <2> USE DEF IInv, TypeOK, BoxesOK
    <2>1. \A id : IsStored(id)' = IsStored(id)
        BY <1>2, StoredFrame
    <2>2. ASSUME NEW u \in Url, Propose(u) PROVE CrawlsAreStored'
        <3>1. ProposeNewFeed(u) \in CatalogMessage
            BY DEF ProposeNewFeed, CatalogMessage
        <3>2. Queued(catalogBox') = Queued(catalogBox) \cup {ProposeNewFeed(u)}
            BY <2>2, <3>1, PostKeepsMailbox DEF Propose
        <3> QED BY <2>1, <2>2, <3>2
                DEF CrawlsAreStored, Propose, ProposeNewFeed
    <2>3. ASSUME NEW urls \in SUBSET Url, ImportOpml(urls)
          PROVE  CrawlsAreStored'
        <3>1. ParseOpml(urls) \in ParserMessage
            BY DEF ParseOpml, ParserMessage
        <3>2. Queued(parserBox') = Queued(parserBox) \cup {ParseOpml(urls)}
            BY <2>3, <3>1, PostKeepsMailbox DEF ImportOpml
        <3> QED BY <2>1, <2>3, <3>2 DEF CrawlsAreStored, ImportOpml, ParseOpml
    <2>4. ASSUME NEW id \in DOMAIN podcasts, RequestCheck(id)
          PROVE  CrawlsAreStored'
        <3>1. CheckPodcast(id) \in CatalogMessage
            BY DEF CheckPodcast, CatalogMessage, CatalogOK, IsCollectionOf
        <3>2. Queued(catalogBox') = Queued(catalogBox) \cup {CheckPodcast(id)}
            BY <2>4, <3>1, PostKeepsMailbox DEF RequestCheck
        <3> QED BY <2>1, <2>4, <3>2
                DEF CrawlsAreStored, RequestCheck, CheckPodcast
    <2> QED BY <2>2, <2>3, <2>4 DEF UserRequest
<1> QED BY <1>1, <1>3, <1>4 DEF IInv

LEMMA IInvCrawl == IInv /\ Crawl => IInv'
<1> SUFFICES ASSUME IInv, Crawl PROVE IInv'
    OBVIOUS
<1>1. TypeOK'
    BY TypeCrawl DEF IInv
<1>2. UNCHANGED <<feeds, podcasts, lastId, calls>>
    BY DEF Crawl, catalog
<1>3. FeedHasPodcast' /\ CreatingIsFresh' /\ StoredIdsAreUsed'
      /\ CallsAreStored'
    BY <1>2, QuietFrame
<1>4. CrawlsAreStored'
    <2> USE DEF IInv, TypeOK, BoxesOK
    <2>1. \A id : IsStored(id)' = IsStored(id)
        BY <1>2, StoredFrame
    <2>2. ASSUME NEW m \in Queued(updaterBox), UpdaterProcessFeed(m)
          PROVE  CrawlsAreStored'
        <3>1. DownloadWithHeadCheck(m.id, m.url, m.job) \in CrawlerMessage
            BY DEF IsMailboxOf, UpdaterMessage, CrawlerMessage,
                   DownloadWithHeadCheck
        <3>2. Queued(crawlerBox') = Queued(crawlerBox)
                \cup {DownloadWithHeadCheck(m.id, m.url, m.job)}
            BY <2>2, <3>1, PostKeepsMailbox DEF UpdaterProcessFeed
        <3>3. Queued(updaterBox') \subseteq Queued(updaterBox)
            BY <2>2, TakeKeepsMailbox DEF UpdaterProcessFeed
        <3> QED BY <2>1, <2>2, <3>2, <3>3
                DEF CrawlsAreStored, UpdaterProcessFeed, DownloadWithHeadCheck
    <2>3. ASSUME NEW m \in Queued(crawlerBox),
                 \/ HeadCheckSucceeds(m)
                 \/ HeadCheckWithoutLocation(m)
                 \/ FetchSucceeds(m)
                 \/ CrawlFails(m)
          PROVE  CrawlsAreStored'
        <3>1. /\ m.id \in Id /\ m.url \in Url /\ m.job \in FetchJob
              /\ IsStored(m.id)
            BY DEF IsMailboxOf, CrawlerMessage, CrawlsAreStored
        <3>2. /\ IsMailboxOf(Take(crawlerBox, m), CrawlerMessage)
              /\ Queued(Take(crawlerBox, m)) \subseteq Queued(crawlerBox)
            BY TakeKeepsMailbox
        <3>3. ASSUME NEW s \in FeedStatus
              PROVE  Queued(Post(catalogBox, FeedStatusUpdate(m.id, m.url, s)))
                       = Queued(catalogBox)
                            \cup {FeedStatusUpdate(m.id, m.url, s)}
            <4>1. FeedStatusUpdate(m.id, m.url, s) \in CatalogMessage
                BY <3>1 DEF FeedStatusUpdate, CatalogMessage
            <4> QED BY <4>1, PostKeepsMailbox
        <3>4. CASE HeadCheckSucceeds(m)
            <4>1. PICK href \in {m.url} \cup Redirects[m.url] :
                    /\ catalogBox' = IF href = m.url THEN catalogBox
                                     ELSE Post(catalogBox,
                                               UpdateFeedUrl(m.url, href))
                    /\ crawlerBox' = Post(Take(crawlerBox, m),
                                          DownloadContent(m.id, href, m.job))
                BY <3>4 DEF HeadCheckSucceeds
            <4>2. href \in Url
                BY <3>1, WebAssumption
            <4>3. DownloadContent(m.id, href, m.job) \in CrawlerMessage
                BY <3>1, <4>2 DEF DownloadContent, CrawlerMessage
            <4>4. UpdateFeedUrl(m.url, href) \in CatalogMessage
                BY <3>1, <4>2 DEF UpdateFeedUrl, CatalogMessage
            <4>5. Queued(catalogBox') \subseteq Queued(catalogBox)
                    \cup {UpdateFeedUrl(m.url, href)}
                BY <4>1, <4>4, PostKeepsMailbox
            <4>6. Queued(crawlerBox') \subseteq Queued(crawlerBox)
                    \cup {DownloadContent(m.id, href, m.job)}
                BY <3>2, <4>1, <4>3, PostKeepsMailbox
            <4> QED BY <2>1, <3>1, <3>4, <4>5, <4>6
                    DEF CrawlsAreStored, HeadCheckSucceeds, UpdateFeedUrl,
                        DownloadContent
        <3>5. CASE HeadCheckWithoutLocation(m)
            BY <2>1, <3>1, <3>2, <3>3, <3>5
               DEF CrawlsAreStored, HeadCheckWithoutLocation, FeedStatus,
                   FeedStatusUpdate
        <3>6. CASE FetchSucceeds(m)
            <4>1. ParseFeedData(m.id, m.url, m.job) \in ParserMessage
                BY <3>1 DEF ParseFeedData, ParserMessage
            <4>2. Queued(parserBox') = Queued(parserBox)
                    \cup {ParseFeedData(m.id, m.url, m.job)}
                BY <3>6, <4>1, PostKeepsMailbox DEF FetchSucceeds
            <4>3. Queued(catalogBox') = Queued(catalogBox)
                    \cup {FeedStatusUpdate(m.id, m.url, "DownloadSuccess")}
                BY <3>3, <3>6 DEF FetchSucceeds, FeedStatus
            <4> QED BY <2>1, <3>1, <3>2, <3>6, <4>2, <4>3
                    DEF CrawlsAreStored, FetchSucceeds, FeedStatusUpdate,
                        ParseFeedData
        <3>7. CASE CrawlFails(m)
            BY <2>1, <3>2, <3>7 DEF CrawlsAreStored, CrawlFails
        <3> QED BY <2>3, <3>4, <3>5, <3>6, <3>7
    <2>4. ASSUME NEW m \in Queued(parserBox),
                 \/ ParseSucceeds(m) \/ ParseFails(m)
                 \/ ParseOpmlFile(m) \/ ParseOpmlFails(m)
          PROVE  CrawlsAreStored'
        <3>1. m \in ParserMessage
            BY DEF IsMailboxOf
        <3>2. Queued(Take(parserBox, m)) \subseteq Queued(parserBox)
            BY TakeKeepsMailbox
        <3>3. m.type = "ParseFeedData" => IsStored(m.id)
            BY DEF CrawlsAreStored
        <3>4. CASE ParseSucceeds(m)
            <4>1. UpdatePodcast(m.id) \in CatalogMessage
                BY <3>1, <3>4, ParserMessageFields
                   DEF ParseSucceeds, UpdatePodcast, CatalogMessage
            <4>2. Queued(catalogBox') = Queued(catalogBox)
                    \cup {UpdatePodcast(m.id)}
                BY <3>4, <4>1, PostKeepsMailbox DEF ParseSucceeds
            <4> QED BY <2>1, <3>2, <3>3, <3>4, <4>2
                    DEF CrawlsAreStored, ParseSucceeds, UpdatePodcast
        <3>5. CASE ParseFails(m)
            <4>1. FeedStatusUpdate(m.id, m.url, "ParserError")
                    \in CatalogMessage
                BY <3>1, <3>5, ParserMessageFields
                   DEF ParseFails, FeedStatusUpdate, CatalogMessage, FeedStatus
            <4>2. Queued(catalogBox') = Queued(catalogBox)
                    \cup {FeedStatusUpdate(m.id, m.url, "ParserError")}
                BY <3>5, <4>1, PostKeepsMailbox DEF ParseFails
            <4> QED BY <2>1, <3>2, <3>3, <3>5, <4>2
                    DEF CrawlsAreStored, ParseFails, FeedStatusUpdate
        <3>6. CASE ParseOpmlFile(m)
            <4>1. {ProposeNewFeed(u) : u \in m.urls} \subseteq CatalogMessage
                BY <3>1, <3>6, ParserMessageFields
                   DEF ParseOpmlFile, ProposeNewFeed, CatalogMessage
            <4>2. Queued(catalogBox') = Queued(catalogBox)
                    \cup {ProposeNewFeed(u) : u \in m.urls}
                BY <3>6, <4>1, PostAllKeepsMailbox DEF ParseOpmlFile
            <4> QED BY <2>1, <3>2, <3>6, <4>2
                    DEF CrawlsAreStored, ParseOpmlFile, ProposeNewFeed
        <3>7. CASE ParseOpmlFails(m)
            BY <2>1, <3>2, <3>7 DEF CrawlsAreStored, ParseOpmlFails
        <3> QED BY <2>4, <3>4, <3>5, <3>6, <3>7
    <2> QED BY <2>2, <2>3, <2>4
            DEF Crawl, UpdaterReceive, CrawlerReceive, ParserReceive
<1> QED BY <1>1, <1>3, <1>4 DEF IInv

LEMMA IInvCatalogReceive ==
    IInv /\ CatalogReceive /\ UNCHANGED users => IInv'
<1> SUFFICES ASSUME IInv, UNCHANGED users,
                    NEW m \in Queued(catalogBox),
                    \/ ReceiveProposeNewFeed(m)
                    \/ ReceiveFeedStatusUpdate(m)
                    \/ ReceiveUpdateFeedUrl(m)
                    \/ ReceiveCheckPodcast(m)
                    \/ ReceiveUpdatePodcast(m)
             PROVE  IInv'
    BY DEF CatalogReceive
<1>1. TypeOK'
    BY TypeCatalogReceive DEF IInv, CatalogReceive
<1>2. m \in CatalogMessage
    BY DEF IInv, TypeOK, BoxesOK, IsMailboxOf
<1>3. m.type \in {"FeedStatusUpdate", "UpdatePodcast"} => IsStored(m.id)
    BY DEF IInv, CrawlsAreStored
<1>4. ASSUME NEW call \in Call, Receive(m, call),
             call.op \notin {"createPodcast", "createFeed"},
             CallIsStored(call)
      PROVE  IInv'
    <2>1. /\ Queued(calls') = Queued(calls) \cup {call}
          /\ \A d \in Queued(calls) \ {call} : calls'[d] = calls[d]
        BY <1>4, PostAllKeepsMailbox
           DEF Receive, Post, PostAll, IInv, TypeOK, CatalogOK
    <2>2. FeedHasPodcast' /\ CreatingIsFresh' /\ StoredIdsAreUsed'
          /\ CallsAreStored'
        <3> DEFINE N == {call}
        <3>1. \A d \in N : /\ d.op \notin {"createPodcast", "createFeed"}
                           /\ CallIsStored(d)
            BY <1>4
        <3>2. \A d \in Queued(calls') \ N :
                /\ d \in Queued(calls)
                /\ d \in Creating => calls'[d] = calls[d]
            BY <2>1
        <3> HIDE DEF N
        <3> QED BY <1>4, <3>1, <3>2, CallsFrame DEF Receive
    <2>3. Queued(catalogBox') \subseteq Queued(catalogBox)
        BY <1>4, TakeKeepsMailbox DEF Receive, IInv, TypeOK, BoxesOK
    <2>4. \A id : IsStored(id)' = IsStored(id)
        BY <1>4, StoredFrame DEF Receive
    <2>5. CrawlsAreStored'
        BY <1>4, <2>3, <2>4 DEF IInv, CrawlsAreStored, Receive
    <2> QED BY <1>1, <2>2, <2>5 DEF IInv
<1>5. CASE ReceiveProposeNewFeed(m)
    BY <1>2, <1>4, <1>5, CatalogMessageFields
       DEF ReceiveProposeNewFeed, Call, ReadCall, CallIsStored
<1>6. CASE ReceiveFeedStatusUpdate(m)
    BY <1>2, <1>3, <1>4, <1>6, CatalogMessageFields
       DEF ReceiveFeedStatusUpdate, Call, ReadCall, CallIsStored
<1>7. CASE ReceiveUpdateFeedUrl(m)
    BY <1>2, <1>4, <1>7, CatalogMessageFields
       DEF ReceiveUpdateFeedUrl, Call, ReadCall, CallIsStored
<1>8. CASE ReceiveCheckPodcast(m)
    BY <1>2, <1>4, <1>8, CatalogMessageFields
       DEF ReceiveCheckPodcast, Call, ReadCall, CallIsStored
<1>9. CASE ReceiveUpdatePodcast(m)
    BY <1>2, <1>3, <1>4, <1>9, CatalogMessageFields
       DEF ReceiveUpdatePodcast, Call, ReadCall, CallIsStored
<1> QED BY <1>5, <1>6, <1>7, <1>8, <1>9

-----------------------------------------------------------------------------
(***************************************************************************)
(* The steps of the database, one lemma for each way they change the       *)
(* collections.  TypeOK' is shown already, so it is assumed here.          *)
(***************************************************************************)
\* A call that changes no collection and starts only calls on what is stored.
LEMMA IInvRead ==
    ASSUME IInv, TypeOK', UNCHANGED <<feeds, podcasts, lastId>>,
           NEW c \in Queued(calls), NEW S \in SUBSET Call, Continue(c, S),
           \A d \in S : /\ d.op \notin {"createPodcast", "createFeed"}
                        /\ CallIsStored(d),
           UNCHANGED boxes
    PROVE  IInv'
<1>1. CrawlsAreStored'
    BY StoredFrame, MessagesFrame DEF IInv
<1> QED BY <1>1, ContinueFrame DEF IInv

LEMMA IInvStartRegistration ==
    ASSUME IInv, TypeOK', NEW c \in Queued(calls), c.op = "proposeFeed",
           StartRegistration(c)
    PROVE  IInv'
<1> DEFINE new == [op |-> "createPodcast", id |-> lastId + 1,
                   feedId |-> lastId + 2, url |-> c.url]
<1>1. c \in Call /\ lastId \in Nat /\ IsMailboxOf(calls, Call)
    BY DEF IInv, TypeOK, CatalogOK, IsMailboxOf, Id
<1>2. new \in Call
    BY <1>1, CallFields DEF Call, WriteCall, Id
<1>3. new.op = "createPodcast" /\ PodcastOf(new) = lastId + 1
      /\ FeedOf(new) = lastId + 2
    BY DEF PodcastOf, FeedOf
<1>4. lastId' = lastId + 2 /\ UNCHANGED <<feeds, podcasts>>
      /\ UNCHANGED boxes /\ Continue(c, {new})
    BY DEF StartRegistration
<1>5. \A d \in Creating : FeedOf(d) \in Nat /\ PodcastOf(d) \in Nat
    <2> SUFFICES ASSUME NEW d \in Creating
                 PROVE  FeedOf(d) \in Nat /\ PodcastOf(d) \in Nat
        OBVIOUS
    <2>1. d \in Call
        BY <1>1 DEF Creating, IsMailboxOf
    <2> QED BY <2>1, CallFields DEF Creating, FeedOf, PodcastOf, Feed, Id
<1>6. \A i \in DOMAIN feeds : i \in Nat /\ feeds[i].podcastId \in Nat
    BY DEF IInv, TypeOK, CatalogOK, IsCollectionOf, Feed, Id
<1>7. \A p \in DOMAIN podcasts : p \in Nat
    BY DEF IInv, TypeOK, CatalogOK, IsCollectionOf, Id
<1> HIDE DEF new
<1>8. new \notin Queued(calls)
    BY <1>1, <1>3, <1>5 DEF IInv, CreatingIsFresh, Creating
<1>9. /\ \A d \in Queued(calls') :
            d # new => /\ d \in Queued(calls)
                       /\ d \in Creating => calls'[d] = calls[d]
      /\ calls'[new] = 1
    BY <1>1, <1>2, <1>4, <1>8, ContinueLeaves
       DEF IInv, CreatingIsFresh, Creating
<1>10. FeedHasPodcast' /\ StoredIdsAreUsed'
    BY <1>1, <1>4, <1>6, <1>7 DEF IInv, FeedHasPodcast, StoredIdsAreUsed
<1>11. CallsAreStored'
    BY <1>3, <1>4, <1>9 DEF IInv, CallsAreStored, CallIsStored, IsStored,
                            FeedsOfPodcast
<1>12. CrawlsAreStored'
    BY <1>4, StoredFrame, MessagesFrame DEF IInv
<1>13. CreatingIsFresh'
    <2>1. \A d \in Creating' : d = new \/ (d \in Creating
                                            /\ calls'[d] = calls[d])
        BY <1>9 DEF Creating
    <2>2. \A d \in Creating : /\ PodcastOf(d) # PodcastOf(new)
                              /\ FeedOf(d) <= lastId'
        BY <1>1, <1>3, <1>4, <1>5 DEF IInv, CreatingIsFresh
    <2>3. /\ FeedOf(new) = PodcastOf(new) + 1
          /\ FeedOf(new) <= lastId'
          /\ FeedOf(new) \notin DOMAIN feeds
          /\ PodcastOf(new) \notin DOMAIN podcasts
        BY <1>1, <1>3, <1>4, <1>6, <1>7 DEF IInv, StoredIdsAreUsed
    <2>4. \A d : PodcastOf(d)' = PodcastOf(d) /\ FeedOf(d)' = FeedOf(d)
        BY DEF PodcastOf, FeedOf
    <2> QED BY <1>3, <1>4, <1>9, <2>1, <2>2, <2>3, <2>4
            DEF IInv, CreatingIsFresh
<1> QED BY <1>10, <1>11, <1>12, <1>13 DEF IInv

\* The podcast of a registration is written; its feed is next, or the write
\* was not confirmed and nothing follows.
LEMMA IInvCreatePodcast ==
    ASSUME IInv, TypeOK', NEW c \in Queued(calls), c.op = "createPodcast",
           podcasts' = Upsert(podcasts, c.id, [complete |-> FALSE]),
           UNCHANGED <<feeds, lastId>>, UNCHANGED boxes,
           NEW S \in SUBSET {[op |-> "createFeed", id |-> c.feedId,
                              doc |-> NewFeed(c.id, c.url)]},
           Continue(c, S)
    PROVE  IInv'
<1> DEFINE new == [op |-> "createFeed", id |-> c.feedId,
                   doc |-> NewFeed(c.id, c.url)]
<1>1. c \in Call /\ IsMailboxOf(calls, Call)
    BY DEF IInv, TypeOK, CatalogOK, IsMailboxOf
<1>2. c.id \in Id /\ c.feedId \in Id /\ c.url \in Url
    BY <1>1, CallFields
<1>3. new \in Call
    BY <1>2 DEF NewFeed, Feed, FeedStatus, Call, WriteCall
<1>4. new.op = "createFeed" /\ PodcastOf(new) = c.id /\ FeedOf(new) = c.feedId
      /\ new.doc.lastStatus = "NeverChecked" /\ new \in Call
    BY <1>3 DEF PodcastOf, FeedOf, NewFeed
<1>5. S \subseteq {new}
    OBVIOUS
<1> HIDE DEF new
<1>6. /\ c \in Creating /\ calls[c] = 1 /\ c.feedId = c.id + 1
      /\ c.feedId <= lastId /\ c.feedId \notin DOMAIN feeds
      /\ c.id \notin DOMAIN podcasts
      /\ PodcastOf(c) = c.id
      /\ \A d \in Creating : PodcastOf(d) = c.id => d = c
    BY DEF IInv, CreatingIsFresh, Creating, FeedOf, PodcastOf
<1>7. new \notin Queued(calls)
    BY <1>4, <1>6 DEF Creating
<1>8. /\ c \notin Queued(calls')
      /\ \A d \in Queued(calls') :
            d # new => /\ d \in Queued(calls)
                       /\ calls'[d] = calls[d]
      /\ new \in Queued(calls') => calls'[new] = 1
    BY <1>1, <1>4, <1>5, <1>6, <1>7, ContinueLeaves
<1>9. DOMAIN podcasts' = DOMAIN podcasts \cup {c.id}
      /\ podcasts'[c.id] = [complete |-> FALSE]
      /\ \A p \in DOMAIN podcasts : p # c.id => podcasts'[p] = podcasts[p]
    BY DEF Upsert
<1>10. \A id : IsStored(id) => IsStored(id)'
    BY <1>9 DEF IsStored, FeedsOfPodcast
<1>11. FeedHasPodcast'
    BY <1>9 DEF IInv, FeedHasPodcast
<1>12. StoredIdsAreUsed'
    BY <1>2, <1>6, <1>9 DEF IInv, StoredIdsAreUsed, TypeOK, CatalogOK, Id
<1>13. CallsAreStored'
    BY <1>4, <1>8, <1>10 DEF IInv, CallsAreStored, CallIsStored
<1>14. CrawlsAreStored'
    BY <1>10, MessagesFrame DEF IInv
<1>15. CreatingIsFresh'
    <2>1. \A d \in Creating' : d = new \/ (/\ d \in Creating
                                           /\ calls'[d] = calls[d]
                                           /\ PodcastOf(d) # c.id)
        BY <1>6, <1>8 DEF Creating
    <2>2. \A d : PodcastOf(d)' = PodcastOf(d) /\ FeedOf(d)' = FeedOf(d)
        BY DEF PodcastOf, FeedOf
    <2> QED BY <1>4, <1>6, <1>8, <1>9, <2>1, <2>2 DEF IInv, CreatingIsFresh,
                                                     Creating
<1> QED BY <1>11, <1>12, <1>13, <1>14, <1>15 DEF IInv

\* A feed is written, new or read earlier: all but the messages.
LEMMA IInvWriteFeed ==
    ASSUME IInv, NEW c \in Queued(calls), c.op \in {"createFeed", "saveFeed"},
           feeds' = Upsert(feeds, c.id, c.doc),
           UNCHANGED <<podcasts, lastId>>, Continue(c, {})
    PROVE  /\ FeedHasPodcast' /\ CreatingIsFresh' /\ StoredIdsAreUsed'
           /\ CallsAreStored'
           /\ \A id : IsStored(id) => IsStored(id)'
           /\ IsStored(c.doc.podcastId)'
<1>1. c \in Call /\ IsMailboxOf(calls, Call)
    BY DEF IInv, TypeOK, CatalogOK, IsMailboxOf
<1>2. c.id \in Nat /\ c.doc \in Feed /\ c.doc.podcastId \in Nat
    BY <1>1, CallFields DEF Feed, Id
<1>3. /\ DOMAIN feeds' = DOMAIN feeds \cup {c.id}
      /\ feeds'[c.id] = c.doc
      /\ \A i \in DOMAIN feeds : i # c.id => feeds'[i] = feeds[i]
    BY DEF Upsert
<1>4. c.op = "createFeed" =>
        /\ c \in Creating /\ calls[c] = 1 /\ c.id = c.doc.podcastId + 1
        /\ c.id <= lastId /\ c.id \notin DOMAIN feeds
        /\ c.doc.podcastId \in DOMAIN podcasts
        /\ \A d \in Creating : PodcastOf(d) = c.doc.podcastId => d = c
    BY DEF IInv, CreatingIsFresh, Creating, FeedOf, PodcastOf
<1>5. c.op = "saveFeed" =>
        /\ c.id \in DOMAIN feeds
        /\ feeds[c.id].podcastId = c.doc.podcastId
        /\ c.doc.podcastId \in DOMAIN podcasts
        /\ c.id <= lastId /\ c.id = c.doc.podcastId + 1
        /\ c \notin Creating
    BY DEF IInv, CallsAreStored, CallIsStored, FeedHasPodcast, Creating,
           StoredIdsAreUsed
<1>6. \A d \in Queued(calls') :
        /\ d \in Queued(calls)
        /\ d # c => calls'[d] = calls[d]
        /\ d = c => c.op = "saveFeed"
    BY <1>1, <1>4, ContinueLeaves
<1>7. FeedHasPodcast' /\ StoredIdsAreUsed'
    BY <1>3, <1>4, <1>5 DEF IInv, FeedHasPodcast, StoredIdsAreUsed
<1>8. \A i \in DOMAIN feeds : feeds'[i].podcastId = feeds[i].podcastId
    BY <1>3, <1>4, <1>5
<1>9. \A id : IsStored(id) => IsStored(id)'
    BY <1>3, <1>8 DEF IsStored, FeedsOfPodcast
<1>10. IsStored(c.doc.podcastId)'
    BY <1>3, <1>4, <1>5 DEF IsStored, FeedsOfPodcast
<1>11. CallsAreStored'
    BY <1>3, <1>6, <1>8, <1>9 DEF IInv, CallsAreStored, CallIsStored
<1>12. CreatingIsFresh'
    <2>1. \A d \in Creating' : /\ d \in Creating /\ calls'[d] = calls[d]
                               /\ d # c
        BY <1>5, <1>6 DEF Creating
    <2>2. \A d \in Creating : d # c => FeedOf(d) # c.id
        <3> SUFFICES ASSUME NEW d \in Creating, d # c PROVE FeedOf(d) # c.id
            OBVIOUS
        <3>1. d \in Call
            BY <1>1 DEF Creating, IsMailboxOf
        <3>2. FeedOf(d) = PodcastOf(d) + 1 /\ PodcastOf(d) \in Nat
              /\ FeedOf(d) \notin DOMAIN feeds
            BY <3>1, CallFields
               DEF IInv, CreatingIsFresh, Creating, PodcastOf, Feed, Id
        <3> QED BY <1>2, <1>4, <1>5, <3>2
    <2>3. \A d : PodcastOf(d)' = PodcastOf(d) /\ FeedOf(d)' = FeedOf(d)
        BY DEF PodcastOf, FeedOf
    <2> QED BY <1>3, <2>1, <2>2, <2>3 DEF IInv, CreatingIsFresh
<1> QED BY <1>7, <1>9, <1>10, <1>11, <1>12

\* A registration is completed: its podcast is stored with its feed, so it is
\* not one whose registration is under way.
LEMMA IInvCompletePodcast ==
    ASSUME IInv, TypeOK', NEW c \in Queued(calls), c.op = "completePodcast",
           podcasts' = Upsert(podcasts, c.id, [complete |-> TRUE]),
           UNCHANGED <<feeds, lastId>>, UNCHANGED boxes, Continue(c, {})
    PROVE  IInv'
<1>1. IsMailboxOf(calls, Call)
    BY DEF IInv, TypeOK, CatalogOK
<1>2. PICK i \in DOMAIN feeds : feeds[i].podcastId = c.id
    BY DEF IInv, CallsAreStored, CallIsStored, IsStored, FeedsOfPodcast
<1>3. c.id \in DOMAIN podcasts /\ c.id + 1 \in DOMAIN feeds
    BY <1>2 DEF IInv, CallsAreStored, CallIsStored, IsStored, StoredIdsAreUsed
<1>4. /\ DOMAIN podcasts' = DOMAIN podcasts
      /\ \A p \in DOMAIN podcasts : p # c.id => podcasts'[p] = podcasts[p]
    BY <1>3 DEF Upsert
<1>5. \A id : IsStored(id) => IsStored(id)'
    BY <1>4 DEF IsStored, FeedsOfPodcast
<1>6. \A d \in Queued(calls') :
        d \in Queued(calls) /\ (d \in Creating => calls'[d] = calls[d])
    BY <1>1, ContinueLeaves DEF Creating
<1>7. FeedHasPodcast' /\ StoredIdsAreUsed'
    BY <1>4 DEF IInv, FeedHasPodcast, StoredIdsAreUsed
<1>8. CallsAreStored'
    BY <1>5, <1>6 DEF IInv, CallsAreStored, CallIsStored
<1>9. CrawlsAreStored'
    BY <1>5, MessagesFrame DEF IInv
<1>10. CreatingIsFresh'
    <2>1. \A d \in Creating' : d \in Creating /\ calls'[d] = calls[d]
        BY <1>6 DEF Creating
    <2>2. \A d \in Creating : PodcastOf(d) # c.id
        BY <1>3 DEF IInv, CreatingIsFresh
    <2>3. \A d : PodcastOf(d)' = PodcastOf(d) /\ FeedOf(d)' = FeedOf(d)
        BY DEF PodcastOf, FeedOf
    <2> QED BY <1>4, <2>1, <2>2, <2>3 DEF IInv, CreatingIsFresh
<1> QED BY <1>7, <1>8, <1>9, <1>10 DEF IInv

-----------------------------------------------------------------------------
LEMMA IInvDatabaseReply == IInv /\ DatabaseReply /\ UNCHANGED users => IInv'
<1> SUFFICES ASSUME IInv, UNCHANGED users,
                    NEW c \in Queued(calls),
                    \/ FindProposedFeed(c)
                    \/ FindKnownFeed(c)
                    \/ CreatePodcast(c)
                    \/ CreateFeed(c)
                    \/ SaveFeed(c)
                    \/ FindFeedOfStatus(c)
                    \/ FindMovedFeeds(c)
                    \/ FindFeedToCheck(c)
                    \/ FindPodcastToUpdate(c)
                    \/ CompletePodcast(c)
             PROVE  IInv'
    BY DEF DatabaseReply
<1>1. TypeOK'
    BY TypeDatabaseReply DEF IInv, DatabaseReply
<1>2. c \in Call /\ CallIsStored(c)
    BY DEF IInv, TypeOK, CatalogOK, IsMailboxOf, CallsAreStored
<1>3. \A i \in DOMAIN feeds : i \in Id /\ feeds[i] \in Feed
    BY DEF IInv, TypeOK, CatalogOK, IsCollectionOf
<1>4. CASE FindProposedFeed(c)
    BY <1>1, <1>4, IInvStartRegistration DEF FindProposedFeed
<1>5. CASE FindKnownFeed(c)
    BY <1>1, <1>5, IInvRead DEF FindKnownFeed
<1>6. CASE CreatePodcast(c)
    BY <1>1, <1>6, IInvCreatePodcast DEF CreatePodcast
<1>7. CASE CreateFeed(c)
    <2>1. /\ FeedHasPodcast' /\ CreatingIsFresh' /\ StoredIdsAreUsed'
          /\ CallsAreStored'
          /\ \A id : IsStored(id) => IsStored(id)'
          /\ IsStored(c.doc.podcastId)'
        BY <1>7, IInvWriteFeed DEF CreateFeed
    <2>2. c.doc \in Feed
        BY <1>2, <1>7, CallFields DEF CreateFeed
    <2>3. ProcessFeed(c.doc.podcastId, c.doc.url, "NewPodcastFetchJob")
            \in UpdaterMessage
        BY <2>2 DEF Feed, ProcessFeed, UpdaterMessage, FetchJob
    <2>4. Queued(updaterBox') = Queued(updaterBox) \cup
            {ProcessFeed(c.doc.podcastId, c.doc.url, "NewPodcastFetchJob")}
        BY <1>7, <2>3, PostKeepsMailbox DEF CreateFeed, IInv, TypeOK, BoxesOK
    <2>5. CrawlsAreStored'
        BY <1>7, <2>1, <2>4 DEF IInv, CrawlsAreStored, CreateFeed, ProcessFeed
    <2> QED BY <1>1, <2>1, <2>5 DEF IInv
<1>8. CASE SaveFeed(c)
    <2>1. /\ FeedHasPodcast' /\ CreatingIsFresh' /\ StoredIdsAreUsed'
          /\ CallsAreStored'
          /\ \A id : IsStored(id) => IsStored(id)'
        BY <1>8, IInvWriteFeed DEF SaveFeed
    <2>2. CrawlsAreStored'
        BY <1>8, <2>1, MessagesFrame DEF IInv, SaveFeed
    <2> QED BY <1>1, <2>1, <2>2 DEF IInv
<1>9. CASE FindFeedOfStatus(c)
    <2>1. c.status \in FeedStatus
        BY <1>2, <1>9, CallFields DEF FindFeedOfStatus
    <2>2. ASSUME NEW i \in DOMAIN feeds
          PROVE  LET s == SaveOf(i, [feeds[i] EXCEPT !.lastStatus = c.status])
                 IN  /\ s \in Call
                     /\ s.op = "saveFeed" /\ CallIsStored(s)
        BY <1>3, <2>1 DEF SaveOf, Feed, Call, WriteCall, CallIsStored
    <2>3. CASE Continue(c, {})
        <3>1. {} \in SUBSET Call
            OBVIOUS
        <3> QED BY <1>1, <1>9, <2>3, <3>1, IInvRead DEF FindFeedOfStatus
    <2>4. ASSUME NEW i \in DOMAIN feeds,
                 Continue(c, {SaveOf(i, [feeds[i] EXCEPT
                                            !.lastStatus = c.status])})
          PROVE  IInv'
        <3> DEFINE s == SaveOf(i, [feeds[i] EXCEPT !.lastStatus = c.status])
                   S == {s}
        <3>1. s \in Call /\ s.op = "saveFeed" /\ CallIsStored(s)
            BY <2>2
        <3>2. Continue(c, S)
            BY <2>4
        <3> HIDE DEF s
        <3>3. S \in SUBSET Call
            BY <3>1
        <3>4. \A d \in S : d.op = "saveFeed" /\ CallIsStored(d)
            BY <3>1
        <3> HIDE DEF S
        <3> QED BY <1>1, <1>9, <3>2, <3>3, <3>4, IInvRead DEF FindFeedOfStatus
    <2> QED BY <1>9, <2>3, <2>4 DEF FindFeedOfStatus, FeedsByUrl
<1>10. CASE FindMovedFeeds(c)
    <2>1. c.newUrl \in Url
        BY <1>2, <1>10, CallFields DEF FindMovedFeeds
    <2>2. ASSUME NEW i \in DOMAIN feeds
          PROVE  LET s == SaveOf(i, [feeds[i] EXCEPT !.url = c.newUrl])
                 IN  /\ s \in Call
                     /\ s.op = "saveFeed" /\ CallIsStored(s)
        BY <1>3, <2>1 DEF SaveOf, Feed, Call, WriteCall, CallIsStored
    <2> DEFINE S == {SaveOf(i, [feeds[i] EXCEPT !.url = c.newUrl]) :
                        i \in FeedsByUrl(c.url)}
    <2>3. S \in SUBSET Call /\ \A d \in S : d.op = "saveFeed" /\ CallIsStored(d)
        BY <2>2 DEF FeedsByUrl
    <2>4. Continue(c, S)
        BY <1>10 DEF FindMovedFeeds
    <2> HIDE DEF S
    <2> QED BY <1>1, <1>10, <2>3, <2>4, IInvRead DEF FindMovedFeeds
<1>11. CASE FindFeedToCheck(c)
    <2>1. c.id \in Id
        BY <1>2, <1>11, CallFields DEF FindFeedToCheck
    <2>2. FeedHasPodcast' /\ CreatingIsFresh' /\ StoredIdsAreUsed'
          /\ CallsAreStored'
        BY <1>11, ContinueFrame DEF FindFeedToCheck
    <2>3. \A id : IsStored(id)' = IsStored(id)
        BY <1>11, StoredFrame DEF FindFeedToCheck
    <2>4. \A n \in Queued(updaterBox') : n \in Queued(updaterBox)
                                            \/ IsStored(n.id)
        <3> SUFFICES ASSUME NEW i \in FeedsOfPodcast(c.id),
                        updaterBox' = Post(updaterBox, ProcessFeed(c.id,
                                    feeds[i].url, "UpdateEpisodesFetchJob"))
                     PROVE  \A n \in Queued(updaterBox') :
                                n \in Queued(updaterBox) \/ IsStored(n.id)
            BY <1>11 DEF FindFeedToCheck
        <3>1. IsStored(c.id)
            BY DEF IsStored, FeedsOfPodcast, IInv, FeedHasPodcast
        <3>2. ProcessFeed(c.id, feeds[i].url, "UpdateEpisodesFetchJob")
                \in UpdaterMessage
            BY <1>3, <2>1 DEF FeedsOfPodcast, ProcessFeed, UpdaterMessage,
                              Feed, FetchJob
        <3>3. Queued(updaterBox') = Queued(updaterBox) \cup
                {ProcessFeed(c.id, feeds[i].url, "UpdateEpisodesFetchJob")}
            BY <3>2, PostKeepsMailbox DEF IInv, TypeOK, BoxesOK
        <3> QED BY <3>1, <3>3 DEF ProcessFeed
    <2>5. CrawlsAreStored'
        BY <1>11, <2>3, <2>4 DEF IInv, CrawlsAreStored, FindFeedToCheck
    <2> QED BY <1>1, <2>2, <2>5 DEF IInv
<1>12. CASE FindPodcastToUpdate(c)
    <2> DEFINE next == [op |-> "completePodcast", id |-> c.id]
    <2>1. next \in Call
        BY <1>2, <1>12, CallFields DEF FindPodcastToUpdate, Call, WriteCall
    <2>2. next.op = "completePodcast" /\ CallIsStored(next)
        BY <1>2, <1>12 DEF FindPodcastToUpdate, CallIsStored
    <2> QED BY <1>1, <1>12, <2>1, <2>2, IInvRead DEF FindPodcastToUpdate
<1>13. CASE CompletePodcast(c)
    BY <1>1, <1>13, IInvCompletePodcast DEF CompletePodcast
<1> QED BY <1>4, <1>5, <1>6, <1>7, <1>8, <1>9, <1>10, <1>11, <1>12, <1>13

LEMMA IInvDatabaseFault == IInv /\ DatabaseFault /\ UNCHANGED users => IInv'
<1> SUFFICES ASSUME IInv, UNCHANGED users,
                    NEW c \in Queued(calls),
                    \/ ReadFails(c)
                    \/ FindFailsAsUnknown(c)
                    \/ WriteFails(c)
                    \/ WriteIsNotConfirmed(c)
             PROVE  IInv'
    BY DEF DatabaseFault
<1>1. TypeOK'
    BY TypeDatabaseFault DEF IInv, DatabaseFault
<1>2. CASE ReadFails(c)
    BY <1>1, <1>2, IInvRead DEF ReadFails
<1>3. CASE FindFailsAsUnknown(c)
    BY <1>1, <1>3, IInvStartRegistration DEF FindFailsAsUnknown
<1>4. CASE WriteFails(c)
    BY <1>1, <1>4, IInvRead DEF WriteFails
<1>5. CASE WriteIsNotConfirmed(c)
    <2> USE <1>5 DEF WriteIsNotConfirmed
    <2>1. CASE /\ c.op \in {"createFeed", "saveFeed"}
               /\ feeds' = Upsert(feeds, c.id, c.doc)
               /\ UNCHANGED podcasts
        <3>1. /\ FeedHasPodcast' /\ CreatingIsFresh' /\ StoredIdsAreUsed'
              /\ CallsAreStored'
              /\ \A id : IsStored(id) => IsStored(id)'
            BY <2>1, IInvWriteFeed
        <3>2. CrawlsAreStored'
            BY <3>1, MessagesFrame DEF IInv
        <3> QED BY <1>1, <3>1, <3>2 DEF IInv
    <2>2. CASE c.op = "createPodcast"
        BY <1>1, <2>2, IInvCreatePodcast
    <2>3. CASE c.op = "completePodcast"
        BY <1>1, <2>3, IInvCompletePodcast
    <2> QED BY <2>1, <2>2, <2>3
<1> QED BY <1>2, <1>3, <1>4, <1>5

LEMMA IInvNext == IInv /\ [Next]_vars => IInv'
<1> SUFFICES ASSUME IInv, [Next]_vars PROVE IInv'
    OBVIOUS
<1>1. CASE UNCHANGED vars
    <2>1. TypeOK'
        BY <1>1, TypeNext DEF IInv
    <2>2. CrawlsAreStored'
        BY <1>1, StoredFrame, MessagesFrame DEF IInv, vars, boxes
    <2> QED BY <1>1, <2>1, <2>2, QuietFrame DEF IInv, vars
<1>2. CASE Next
    BY <1>2, IInvUserRequest, IInvCatalogReceive, IInvDatabaseReply,
       IInvDatabaseFault, IInvCrawl DEF Next, CatalogStep
<1> QED BY <1>1, <1>2

\* The inductive invariant of the feed life cycle.
THEOREM Inductive == Spec => []IInv
BY IInvInit, IInvNext, PTL DEF Spec

\* Every feed in the database belongs to a podcast in the database, whatever
\* the saves of CatalogStore do to one another and whichever of them fail.
THEOREM FeedsHavePodcasts == Spec => []FeedHasPodcast
<1>1. IInv => FeedHasPodcast
    BY DEF IInv
<1> QED BY <1>1, Inductive, PTL

\* The Updater, the Crawler and the Parser work on stored feeds only, and
\* what they report to the catalog is about stored podcasts and feeds.
THEOREM CrawlsAreOfStoredFeeds == Spec => []CrawlsAreStored
<1>1. IInv => CrawlsAreStored
    BY DEF IInv
<1> QED BY <1>1, Inductive, PTL
=============================================================================
