----------------------- MODULE FeedRegistryTheorems ------------------------
(***************************************************************************)
(* The life cycle of feeds implements the abstract registry: every save of *)
(* the catalog is one of its steps, and every other step leaves it alone.  *)
(* And what faults and redirects may do to a registration: a podcast has   *)
(* no feed only where a save has failed, and a podcast that was downloaded *)
(* has a feed that is marked as checked, or one that has moved.            *)
(***************************************************************************)
EXTENDS FeedLifecycleTheorems

-----------------------------------------------------------------------------
(***************************************************************************)
(* The saves of the catalog, whether or not they are confirmed.            *)
(***************************************************************************)
SavesPodcast(c) ==
    /\ c.op = "createPodcast"
    /\ podcasts' = Upsert(podcasts, c.id, [complete |-> FALSE])
    /\ UNCHANGED feeds

SavesFeed(c) ==
    /\ c.op \in {"createFeed", "saveFeed"}
    /\ feeds' = Upsert(feeds, c.id, c.doc)
    /\ UNCHANGED podcasts

CompletesPodcast(c) ==
    /\ c.op = "completePodcast"
    /\ podcasts' = Upsert(podcasts, c.id, [complete |-> TRUE])
    /\ UNCHANGED feeds

Saves == \E c \in Queued(calls) :
            SavesPodcast(c) \/ SavesFeed(c) \/ CompletesPodcast(c)

\* Nothing but a save changes what is stored.
LEMMA OnlySaves == [Next]_vars => UNCHANGED <<feeds, podcasts>> \/ Saves
<1> SUFFICES ASSUME [Next]_vars
             PROVE  UNCHANGED <<feeds, podcasts>> \/ Saves
    OBVIOUS
<1>1. CASE UNCHANGED vars
    BY <1>1 DEF vars
<1>2. CASE UserRequest
    BY <1>2 DEF UserRequest, Propose, ImportOpml, RequestCheck, catalog
<1>3. CASE CatalogReceive
    BY <1>3 DEF CatalogReceive, Receive, ReceiveProposeNewFeed,
                ReceiveFeedStatusUpdate, ReceiveUpdateFeedUrl,
                ReceiveCheckPodcast, ReceiveUpdatePodcast
<1>4. CASE DatabaseReply
    BY <1>4 DEF DatabaseReply, Saves, SavesPodcast, SavesFeed,
                CompletesPodcast, FindProposedFeed, StartRegistration,
                FindKnownFeed, CreatePodcast, CreateFeed, SaveFeed,
                FindFeedOfStatus, FindMovedFeeds, FindFeedToCheck,
                FindPodcastToUpdate, CompletePodcast
<1>5. CASE DatabaseFault
    BY <1>5 DEF DatabaseFault, Saves, SavesPodcast, SavesFeed,
                CompletesPodcast, ReadFails, FindFailsAsUnknown,
                StartRegistration, WriteFails, WriteIsNotConfirmed
<1>6. CASE Crawl
    BY <1>6 DEF Crawl, catalog
<1> QED BY <1>1, <1>2, <1>3, <1>4, <1>5, <1>6 DEF Next, CatalogStep

\* What the invariant says of a call that creates a document.
LEMMA CreatesOnce ==
    ASSUME IInv, NEW c \in Queued(calls)
    PROVE  /\ c.op = "createPodcast" => c.id \notin DOMAIN podcasts
           /\ c.op = "createFeed" =>
                /\ c.id \notin DOMAIN feeds
                /\ c.doc.podcastId \in DOMAIN podcasts
                /\ ~podcasts[c.doc.podcastId].complete
                /\ FeedsOfPodcast(c.doc.podcastId) = {}
                /\ c.doc.lastStatus = "NeverChecked"
<1>1. CASE c.op = "createPodcast"
    BY <1>1 DEF IInv, CreatingIsFresh, Creating, PodcastOf
<1>2. CASE c.op = "createFeed"
    <2>1. c \in Creating /\ PodcastOf(c) = c.doc.podcastId /\ FeedOf(c) = c.id
        BY <1>2 DEF Creating, PodcastOf, FeedOf
    <2>2. /\ c.id = c.doc.podcastId + 1
          /\ c.id \notin DOMAIN feeds
          /\ c.doc.podcastId \in DOMAIN podcasts
          /\ ~podcasts[c.doc.podcastId].complete
          /\ c.doc.lastStatus = "NeverChecked"
        BY <1>2, <2>1 DEF IInv, CreatingIsFresh
    <2>3. FeedsOfPodcast(c.doc.podcastId) = {}
        BY <2>2 DEF FeedsOfPodcast, IInv, StoredIdsAreUsed
    <2> QED BY <1>2, <2>2, <2>3
<1> QED BY <1>1, <1>2

-----------------------------------------------------------------------------
LEMMA CompleteStep ==
    IInv /\ [Next]_vars =>
        [\A p \in DOMAIN podcasts :
            podcasts[p].complete => podcasts'[p].complete]_podcasts
<1> SUFFICES ASSUME IInv, [Next]_vars, podcasts' # podcasts,
                    NEW p \in DOMAIN podcasts, podcasts[p].complete
             PROVE  podcasts'[p].complete
    OBVIOUS
<1>1. PICK c \in Queued(calls) : SavesPodcast(c) \/ CompletesPodcast(c)
    BY OnlySaves DEF Saves, SavesFeed
<1>2. CASE SavesPodcast(c)
    <2>1. p # c.id
        BY <1>2, CreatesOnce DEF SavesPodcast
    <2> QED BY <1>2, <2>1 DEF SavesPodcast, Upsert
<1>3. CASE CompletesPodcast(c)
    BY <1>3 DEF CompletesPodcast, Upsert
<1> QED BY <1>1, <1>2, <1>3

\* A complete registration stays complete: the save of proposeFeed never
\* comes after the one of onUpdatePodcast for the same podcast.
THEOREM CompleteForGood == Spec => RegistrationStaysComplete
BY Inductive, CompleteStep, PTL DEF Spec, RegistrationStaysComplete

-----------------------------------------------------------------------------
LEMMA RegistryInit == Init => Registry!Init
BY DEF Init, CatalogInit, Registry!Init

LEMMA RegistryStep == IInv /\ [Next]_vars => [Registry!Next]_(Registry!registry)
<1> SUFFICES ASSUME IInv, [Next]_vars, Saves
             PROVE  Registry!Next
    BY OnlySaves DEF Registry!registry
<1>1. PICK c \in Queued(calls) :
            SavesPodcast(c) \/ SavesFeed(c) \/ CompletesPodcast(c)
    BY DEF Saves
<1>2. c \in Call /\ CallIsStored(c)
    BY DEF IInv, TypeOK, CatalogOK, IsMailboxOf, CallsAreStored
<1>3. CASE SavesPodcast(c)
    <2>1. c.id \notin DOMAIN podcasts
        BY <1>3, CreatesOnce DEF SavesPodcast
    <2>2. c.id \in DOMAIN podcasts'
        BY <1>3 DEF SavesPodcast, Upsert
    <2>3. Registry!RegisterPodcast(c.id)
        BY <1>3, <2>1 DEF Registry!RegisterPodcast, Registry!Stored,
                          SavesPodcast, Upsert
    <2> QED BY <2>2, <2>3 DEF Registry!Next
<1>4. CASE SavesFeed(c)
    <2>1. c.doc \in Feed
        BY <1>2, <1>4, CallFields DEF SavesFeed
    <2>2. c.doc = [podcastId |-> c.doc.podcastId, url |-> c.doc.url,
                   lastStatus |-> c.doc.lastStatus]
        BY <2>1 DEF Feed
    <2>3. c.doc.url \in Url /\ c.doc.lastStatus \in FeedStatus
        BY <2>1 DEF Feed
    <2>4. CASE c.op = "createFeed"
        <3>1. Registry!RegisterFeed(c.id, c.doc.podcastId, c.doc.url)
            BY <1>4, <2>2, <2>4, CreatesOnce
               DEF Registry!RegisterFeed, Registry!Stored, Registry!HasFeed,
                   FeedsOfPodcast, SavesFeed, Upsert
        <3>2. c.id \in DOMAIN feeds' /\ c.doc.podcastId \in DOMAIN podcasts
            BY <1>4, <2>4, CreatesOnce DEF SavesFeed, Upsert
        <3> QED BY <2>3, <3>1, <3>2 DEF Registry!Next
    <2>5. CASE c.op = "saveFeed"
        <3>1. c.id \in DOMAIN feeds /\ feeds[c.id].podcastId = c.doc.podcastId
            BY <1>2, <2>5 DEF CallIsStored
        <3>2. Registry!ChangeFeed(c.id, c.doc.url, c.doc.lastStatus)
            BY <1>4, <2>2, <3>1 DEF Registry!ChangeFeed, Registry!Stored,
                                    SavesFeed, Upsert
        <3> QED BY <2>3, <3>1, <3>2 DEF Registry!Next
    <2> QED BY <1>4, <2>4, <2>5 DEF SavesFeed
<1>5. CASE CompletesPodcast(c)
    <2>1. IsStored(c.id)
        BY <1>2, <1>5 DEF CallIsStored, CompletesPodcast
    <2>2. Registry!CompletePodcast(c.id)
        BY <1>5, <2>1 DEF Registry!CompletePodcast, Registry!Stored,
                          Registry!HasFeed, IsStored, FeedsOfPodcast,
                          CompletesPodcast, Upsert
    <2> QED BY <2>1, <2>2 DEF Registry!Next, IsStored
<1> QED BY <1>1, <1>3, <1>4, <1>5

\* The catalog keeps the promises of the abstract registry, whatever its
\* saves and reads do to one another and whichever of them fail
\* (CatalogStore.proposeFeed to onUpdatePodcast).
THEOREM Refinement == Spec => ImplementsRegistry
BY Inductive, RegistryInit, RegistryStep, PTL
   DEF Spec, ImplementsRegistry, Registry!Spec

-----------------------------------------------------------------------------
(***************************************************************************)
(* Orphans: what a step must do to leave a podcast without a feed.         *)
(***************************************************************************)
\* A call that is done leaves every other call, and starts its own.
LEMMA ContinueQueued ==
    ASSUME IInv, NEW c, NEW S, Continue(c, S)
    PROVE  /\ Queued(calls') \subseteq Queued(calls) \cup S
           /\ S \cup (Queued(calls) \ {c}) \subseteq Queued(calls')
<1> DEFINE rest == Take(calls, c)
<1>1. IsABag(calls)
    BY DEF IInv, TypeOK, CatalogOK, IsMailboxOf
<1>2. /\ IsABag(rest) /\ Queued(rest) \subseteq Queued(calls)
      /\ Queued(calls) \ {c} \subseteq Queued(rest)
    BY <1>1, TakeQueued
<1> HIDE DEF rest
<1>3. Queued(PostAll(rest, S)) = Queued(rest) \cup S
    BY <1>2, PostAllQueued
<1> QED
    BY <1>2, <1>3 DEF Continue, rest

\* Outside of P no podcast becomes an orphan that keeps its feeds and its
\* call, or that is not new.
LEMMA OrphansFrame ==
    ASSUME NEW P, DOMAIN podcasts' \subseteq DOMAIN podcasts \cup P,
           \A p \in DOMAIN podcasts :
                FeedsOfPodcast(p) # {} => FeedsOfPodcast(p)' # {},
           \A d \in Queued(calls) :
                d.op = "createFeed" /\ d.doc.podcastId \notin P
                    => d \in Queued(calls')
    PROVE  Orphans' \subseteq Orphans \cup P
<1> SUFFICES ASSUME NEW p \in Orphans', p \notin P PROVE p \in Orphans
    OBVIOUS
<1>1. p \in DOMAIN podcasts' /\ FeedsOfPodcast(p)' = {}
      /\ \A c \in Queued(calls') : c.op = "createFeed" => c.doc.podcastId # p
    BY DEF Orphans
<1>2. p \in DOMAIN podcasts /\ FeedsOfPodcast(p) = {}
    BY <1>1
<1>3. \A c \in Queued(calls) : c.op = "createFeed" => c.doc.podcastId # p
    BY <1>1
<1> QED
    BY <1>2, <1>3 DEF Orphans

\* The podcasts that call c might leave without a feed.
AtRisk(c) ==
    CASE c.op = "createPodcast" -> {c.id}
      [] c.op = "createFeed" -> {c.doc.podcastId}
      [] OTHER -> {}

\* Whatever becomes of a call, it makes no other podcast an orphan.
LEMMA CallOrphans ==
    ASSUME IInv, NEW c \in Queued(calls), NEW S, Continue(c, S),
           \/ UNCHANGED <<feeds, podcasts>>
           \/ SavesPodcast(c)
           \/ SavesFeed(c) /\ Continue(c, {}) /\ UNCHANGED lastId
           \/ CompletesPodcast(c)
    PROVE  Orphans' \subseteq Orphans \cup AtRisk(c)
<1>1. \A d \in Queued(calls) :
        d.op = "createFeed" /\ d.doc.podcastId \notin AtRisk(c)
            => d \in Queued(calls')
    BY ContinueQueued DEF AtRisk
<1>2. CASE UNCHANGED <<feeds, podcasts>>
    BY <1>1, <1>2, OrphansFrame DEF FeedsOfPodcast
<1>3. CASE SavesPodcast(c)
    <2>1. DOMAIN podcasts' \subseteq DOMAIN podcasts \cup AtRisk(c)
        BY <1>3 DEF SavesPodcast, Upsert, AtRisk
    <2> QED
        BY <1>1, <1>3, <2>1, OrphansFrame DEF SavesPodcast, FeedsOfPodcast
<1>4. CASE SavesFeed(c) /\ Continue(c, {}) /\ UNCHANGED lastId
    <2>1. \A id : IsStored(id) => IsStored(id)'
        BY <1>4, IInvWriteFeed DEF SavesFeed
    <2>2. \A p \in DOMAIN podcasts :
            FeedsOfPodcast(p) # {} => FeedsOfPodcast(p)' # {}
        BY <2>1 DEF IsStored
    <2> QED
        BY <1>1, <1>4, <2>2, OrphansFrame DEF SavesFeed
<1>5. CASE CompletesPodcast(c)
    <2>1. IsStored(c.id)
        BY <1>5 DEF IInv, CallsAreStored, CallIsStored, CompletesPodcast
    <2>2. DOMAIN podcasts' = DOMAIN podcasts
        BY <1>5, <2>1 DEF CompletesPodcast, Upsert, IsStored
    <2> QED
        BY <1>1, <1>5, <2>2, OrphansFrame DEF CompletesPodcast, FeedsOfPodcast
<1> QED
    BY <1>2, <1>3, <1>4, <1>5

\* A call that is confirmed leaves no orphan at all: a podcast that is saved
\* has the call for its feed, a feed that is saved has its podcast.
LEMMA ReplyOrphans ==
    ASSUME IInv, DatabaseReply
    PROVE  Orphans' \subseteq Orphans /\ UNCHANGED faults
<1>1. PICK c \in Queued(calls) :
        \/ FindProposedFeed(c) \/ FindKnownFeed(c)
        \/ CreatePodcast(c) \/ CreateFeed(c) \/ SaveFeed(c)
        \/ FindFeedOfStatus(c) \/ FindMovedFeeds(c) \/ FindFeedToCheck(c)
        \/ FindPodcastToUpdate(c) \/ CompletePodcast(c)
    BY DEF DatabaseReply
<1>2. CASE CreatePodcast(c)
    <2> DEFINE next == [op |-> "createFeed", id |-> c.feedId,
                        doc |-> NewFeed(c.id, c.url)]
    <2>1. Continue(c, {next}) /\ SavesPodcast(c) /\ UNCHANGED faults
        BY <1>2 DEF CreatePodcast, SavesPodcast
    <2>2. Orphans' \subseteq Orphans \cup {c.id}
        BY <2>1, CallOrphans DEF AtRisk, SavesPodcast
    <2>3. next \in Queued(calls')
        BY <2>1, ContinueQueued
    <2>4. c.id \notin Orphans'
        BY <2>3 DEF Orphans, NewFeed
    <2> QED
        BY <2>1, <2>2, <2>4
<1>3. CASE CreateFeed(c)
    <2>1. Continue(c, {}) /\ SavesFeed(c) /\ UNCHANGED <<lastId, faults>>
          /\ c.op = "createFeed"
        BY <1>3 DEF CreateFeed, SavesFeed
    <2>2. Orphans' \subseteq Orphans \cup {c.doc.podcastId}
        BY <2>1, CallOrphans DEF AtRisk
    <2>3. IsStored(c.doc.podcastId)'
        BY <2>1, IInvWriteFeed DEF SavesFeed
    <2>4. c.doc.podcastId \notin Orphans'
        BY <2>3 DEF Orphans, IsStored
    <2> QED
        BY <2>1, <2>2, <2>4
<1>4. CASE SaveFeed(c)
    <2>1. Continue(c, {}) /\ SavesFeed(c) /\ UNCHANGED <<lastId, faults>>
          /\ c.op = "saveFeed"
        BY <1>4 DEF SaveFeed, SavesFeed
    <2> QED
        BY <2>1, CallOrphans DEF AtRisk
<1>5. CASE CompletePodcast(c)
    <2>1. Continue(c, {}) /\ CompletesPodcast(c) /\ UNCHANGED faults
          /\ c.op = "completePodcast"
        BY <1>5 DEF CompletePodcast, CompletesPodcast
    <2> QED
        BY <2>1, CallOrphans DEF AtRisk
<1>6. ASSUME NEW S, Continue(c, S), UNCHANGED <<feeds, podcasts, faults>>,
             c.op \notin {"createPodcast", "createFeed"}
      PROVE  Orphans' \subseteq Orphans /\ UNCHANGED faults
    BY <1>6, CallOrphans DEF AtRisk
<1>7. CASE FindProposedFeed(c)
    BY <1>6, <1>7 DEF FindProposedFeed, StartRegistration
<1>8. CASE FindKnownFeed(c)
    BY <1>6, <1>8 DEF FindKnownFeed
<1>9. CASE FindFeedOfStatus(c)
    BY <1>6, <1>9 DEF FindFeedOfStatus
<1>10. CASE FindMovedFeeds(c)
    BY <1>6, <1>10 DEF FindMovedFeeds
<1>11. CASE FindFeedToCheck(c)
    BY <1>6, <1>11 DEF FindFeedToCheck
<1>12. CASE FindPodcastToUpdate(c)
    BY <1>6, <1>12 DEF FindPodcastToUpdate
<1> QED
    BY <1>1, <1>2, <1>3, <1>4, <1>5, <1>7, <1>8, <1>9, <1>10, <1>11, <1>12

\* A call that fails leaves one at most.
LEMMA FaultOrphans ==
    ASSUME IInv, DatabaseFault
    PROVE  /\ faults' = faults + 1
           /\ \E p : Orphans' \subseteq Orphans \cup {p}
<1>1. PICK c \in Queued(calls) :
        ReadFails(c) \/ FindFailsAsUnknown(c) \/ WriteFails(c)
            \/ WriteIsNotConfirmed(c)
    BY DEF DatabaseFault
<1>2. faults' = faults + 1
    BY <1>1 DEF ReadFails, FindFailsAsUnknown, WriteFails,
                WriteIsNotConfirmed, Fault
<1>3. \E p : AtRisk(c) \subseteq {p}
    BY DEF AtRisk
<1>4. CASE WriteIsNotConfirmed(c)
    <2>1. /\ Continue(c, {}) /\ UNCHANGED lastId
          /\ SavesPodcast(c) \/ SavesFeed(c) \/ CompletesPodcast(c)
        BY <1>4 DEF WriteIsNotConfirmed, SavesPodcast, SavesFeed,
                    CompletesPodcast
    <2>2. Orphans' \subseteq Orphans \cup AtRisk(c)
        BY <2>1, CallOrphans
    <2> QED
        BY <1>2, <1>3, <2>2
<1>5. ASSUME NEW S, Continue(c, S), UNCHANGED <<feeds, podcasts>>
      PROVE  \E p : Orphans' \subseteq Orphans \cup {p}
    <2>1. Orphans' \subseteq Orphans \cup AtRisk(c)
        BY <1>5, CallOrphans
    <2> QED
        BY <1>3, <2>1
<1>6. CASE ReadFails(c)
    BY <1>2, <1>5, <1>6 DEF ReadFails
<1>7. CASE FindFailsAsUnknown(c)
    BY <1>2, <1>5, <1>7 DEF FindFailsAsUnknown, StartRegistration
<1>8. CASE WriteFails(c)
    BY <1>2, <1>5, <1>8 DEF WriteFails
<1> QED
    BY <1>1, <1>4, <1>6, <1>7, <1>8

\* No other step takes a call away or touches what is stored.
LEMMA OtherOrphans ==
    ASSUME IInv, \/ UserRequest
                 \/ CatalogReceive
                 \/ Crawl
                 \/ UNCHANGED vars
    PROVE  Orphans' \subseteq Orphans /\ UNCHANGED faults
<1>1. IsABag(calls)
    BY DEF IInv, TypeOK, CatalogOK, IsMailboxOf
<1>2. ASSUME Queued(calls) \subseteq Queued(calls'),
             UNCHANGED <<feeds, podcasts>>
      PROVE  Orphans' \subseteq Orphans
    BY <1>2 DEF Orphans, FeedsOfPodcast
<1>3. CASE UserRequest
    BY <1>2, <1>3 DEF UserRequest, Propose, ImportOpml, RequestCheck, catalog
<1>4. CASE CatalogReceive
    <2>1. PICK m, call : Receive(m, call)
        BY <1>4 DEF CatalogReceive, ReceiveProposeNewFeed,
                    ReceiveFeedStatusUpdate, ReceiveUpdateFeedUrl,
                    ReceiveCheckPodcast, ReceiveUpdatePodcast
    <2>2. Queued(calls) \subseteq Queued(calls')
        BY <1>1, <2>1, PostQueued DEF Receive
    <2> QED
        BY <1>2, <2>1, <2>2 DEF Receive
<1>5. CASE Crawl
    BY <1>2, <1>5 DEF Crawl, catalog
<1>6. CASE UNCHANGED vars
    BY <1>2, <1>6 DEF vars
<1> QED
    BY <1>3, <1>4, <1>5, <1>6

\* The property, and that what it counts can be counted.
OrphansAreFew == IsFiniteSet(Orphans) /\ OrphansAreFaults

LEMMA FewOrphansInit == Init => OrphansAreFew
<1> SUFFICES ASSUME Init PROVE OrphansAreFew
    OBVIOUS
<1>1. Orphans = {} /\ faults = 0
    BY DEF Init, CatalogInit, Orphans
<1> QED
    BY <1>1, FS_EmptySet DEF OrphansAreFew, OrphansAreFaults

LEMMA FewOrphansNext == IInv /\ OrphansAreFew /\ [Next]_vars => OrphansAreFew'
<1> SUFFICES ASSUME IInv, OrphansAreFew, [Next]_vars PROVE OrphansAreFew'
    OBVIOUS
<1>1. IsFiniteSet(Orphans) /\ Cardinality(Orphans) <= faults
    BY DEF OrphansAreFew, OrphansAreFaults
<1>2. faults \in Nat
    BY FaultsAssumption DEF IInv, TypeOK, CatalogOK
<1>3. CASE Orphans' \subseteq Orphans /\ UNCHANGED faults
    BY <1>1, <1>2, <1>3, SmallerSet DEF OrphansAreFew, OrphansAreFaults
<1>4. CASE DatabaseFault
    <2>1. PICK p : Orphans' \subseteq Orphans \cup {p}
        BY <1>4, FaultOrphans
    <2>2. faults' = faults + 1
        BY <1>4, FaultOrphans
    <2> QED
        BY <1>1, <1>2, <2>1, <2>2, LargerSet
           DEF OrphansAreFew, OrphansAreFaults
<1> QED
    BY <1>3, <1>4, ReplyOrphans, OtherOrphans DEF Next, CatalogStep

\* proposeFeed leaves a podcast without a feed only where the database has
\* failed: each fault costs one at most, and no interleaving costs another.
THEOREM OrphansNeedFaults == Spec => []OrphansAreFaults
<1>1. OrphansAreFew => OrphansAreFaults
    BY DEF OrphansAreFew
<1> QED
    BY <1>1, Inductive, FewOrphansInit, FewOrphansNext, PTL DEF Spec

-----------------------------------------------------------------------------
(***************************************************************************)
(* Why the feed of a complete podcast was checked.  A document is marked   *)
(* when it has the status of a check, or the location a redirect led to.   *)
(* Every save of a document that was read marks it.  So a feed that is not *)
(* marked has had no such save, and either one is on its way, or nobody    *)
(* has fetched the feed so far.                                            *)
(***************************************************************************)
Moved == UNION {Redirects[u] : u \in Url}

Marks(doc) == doc.lastStatus # "NeverChecked" \/ doc.url \in Moved

\* What the catalog is told, and what it does on it, marks the feed.
MessageMarks(m) ==
    /\ m.type = "FeedStatusUpdate" => m.status # "NeverChecked"
    /\ m.type = "UpdateFeedUrl" => m.newUrl \in Moved

CallMarks(c) ==
    /\ c.op = "onFeedStatusUpdate" => c.status # "NeverChecked"
    /\ c.op = "onUpdateFeedUrl" => c.newUrl \in Moved
    /\ c.op = "saveFeed" => Marks(c.doc)

ReportsMark ==
    /\ \A m \in Queued(catalogBox) : MessageMarks(m)
    /\ \A c \in Queued(calls) : CallMarks(c)

\* A message or a call that will mark feed i, of podcast p and with URL u.
TellsOf(m, p, u) ==
    \/ m.type = "FeedStatusUpdate" /\ m.id = p /\ m.url = u
    \/ m.type = "UpdateFeedUrl" /\ m.url = u

ActsOn(c, i, p, u) ==
    \/ c.op = "onFeedStatusUpdate" /\ c.id = p /\ c.url = u
    \/ c.op = "onUpdateFeedUrl" /\ c.url = u
    \/ c.op = "saveFeed" /\ c.id = i

Told(i, p, u) ==
    \/ \E m \in Queued(catalogBox) : TellsOf(m, p, u)
    \/ \E c \in Queued(calls) : ActsOn(c, i, p, u)

\* Nobody has fetched the feed of podcast p, and whoever is about to has its
\* URL u.
NothingFetched(p) ==
    /\ \A c \in Queued(calls) :
        c.op \in {"onUpdatePodcast", "completePodcast"} => c.id # p
    /\ \A m \in Queued(catalogBox) : m.type = "UpdatePodcast" => m.id # p
    /\ \A m \in Queued(parserBox) : m.type = "ParseFeedData" => m.id # p

FetchedBy(p, u) ==
    /\ \A m \in Queued(updaterBox) : m.id = p => m.url = u
    /\ \A m \in Queued(crawlerBox) : m.id = p => m.url = u

Unfetched(p, u) ==
    ~podcasts[p].complete /\ NothingFetched(p) /\ FetchedBy(p, u)

FetchIsTold(i) ==
    \/ Marks(feeds[i])
    \/ Told(i, feeds[i].podcastId, feeds[i].url)
    \/ Unfetched(feeds[i].podcastId, feeds[i].url)

FetchesAreTold ==
    faults = 0 => ReportsMark /\ \A i \in DOMAIN feeds : FetchIsTold(i)

-----------------------------------------------------------------------------
\* A feed whose document stays is told of as before if what tells of it stays
\* and a fetch is told of.
LEMMA ToldFrame ==
    ASSUME NEW i, FetchIsTold(i), feeds'[i] = feeds[i],
           NEW p, p = feeds[i].podcastId, NEW u, u = feeds[i].url,
           Told(i, p, u) => Told(i, p, u)',
           Unfetched(p, u) => Unfetched(p, u)' \/ Told(i, p, u)'
    PROVE  FetchIsTold(i)'
BY DEF FetchIsTold

\* While the boxes only gain what is about no fetch, all stays as it is.
LEMMA UnfetchedFrame ==
    ASSUME NEW p, NEW u, Unfetched(p, u),
           podcasts'[p].complete = podcasts[p].complete,
           \A c \in Queued(calls') \ Queued(calls) :
                c.op \in {"onUpdatePodcast", "completePodcast"} => c.id # p,
           \A m \in Queued(catalogBox') \ Queued(catalogBox) :
                m.type = "UpdatePodcast" => m.id # p,
           \A m \in Queued(parserBox') \ Queued(parserBox) :
                m.type = "ParseFeedData" => m.id # p,
           \A m \in Queued(updaterBox') \ Queued(updaterBox) :
                m.id = p => m.url = u,
           \A m \in Queued(crawlerBox') \ Queued(crawlerBox) :
                m.id = p => m.url = u
    PROVE  Unfetched(p, u)'
BY DEF Unfetched, NothingFetched, FetchedBy

LEMMA BoxesAreBags ==
    ASSUME IInv
    PROVE  /\ IsABag(catalogBox) /\ IsABag(updaterBox) /\ IsABag(crawlerBox)
           /\ IsABag(parserBox) /\ IsABag(calls)
BY DEF IInv, TypeOK, BoxesOK, CatalogOK, IsMailboxOf

-----------------------------------------------------------------------------
(***************************************************************************)
(* The steps outside of the catalog.                                       *)
(***************************************************************************)
LEMMA RequestTold ==
    ASSUME IInv, ReportsMark, UserRequest
    PROVE  /\ ReportsMark'
           /\ \A i \in DOMAIN feeds : FetchIsTold(i) => FetchIsTold(i)'
<1>1. UNCHANGED <<feeds, podcasts, calls, updaterBox, crawlerBox>>
    BY DEF UserRequest, Propose, ImportOpml, RequestCheck, catalog
<1>2. /\ Queued(catalogBox) \subseteq Queued(catalogBox')
      /\ \A m \in Queued(catalogBox') \ Queued(catalogBox) :
            m.type \in {"ProposeNewFeed", "CheckPodcast"}
      /\ \A m \in Queued(parserBox') \ Queued(parserBox) :
            m.type = "ParseOpml"
    <2>1. CASE \E u \in Url : Propose(u)
        BY <2>1, BoxesAreBags, PostQueued DEF Propose, ProposeNewFeed
    <2>2. CASE \E urls \in SUBSET Url : ImportOpml(urls)
        BY <2>2, BoxesAreBags, PostQueued DEF ImportOpml, ParseOpml
    <2>3. CASE \E id \in DOMAIN podcasts : RequestCheck(id)
        BY <2>3, BoxesAreBags, PostQueued DEF RequestCheck, CheckPodcast
    <2> QED
        BY <2>1, <2>2, <2>3 DEF UserRequest
<1>3. ReportsMark'
    BY <1>1, <1>2 DEF ReportsMark, MessageMarks
<1>4. ASSUME NEW i \in DOMAIN feeds, FetchIsTold(i) PROVE FetchIsTold(i)'
    <2>1. PICK p, u : p = feeds[i].podcastId /\ u = feeds[i].url
        OBVIOUS
    <2>2. Told(i, p, u) => Told(i, p, u)'
        BY <1>1, <1>2 DEF Told
    <2>3. Unfetched(p, u) => Unfetched(p, u)'
        BY <1>1, <1>2, UnfetchedFrame
    <2> QED
        BY <1>1, <1>4, <2>1, <2>2, <2>3, ToldFrame
<1> QED
    BY <1>3, <1>4

\* The Updater passes on the URL it was given.
LEMMA UpdaterTold ==
    ASSUME IInv, ReportsMark, UpdaterReceive, UNCHANGED catalog
    PROVE  /\ ReportsMark'
           /\ \A i \in DOMAIN feeds : FetchIsTold(i) => FetchIsTold(i)'
<1>1. PICK m \in Queued(updaterBox) : UpdaterProcessFeed(m)
    BY DEF UpdaterReceive
<1>2. UNCHANGED <<feeds, podcasts, calls, catalogBox, parserBox>>
    BY <1>1 DEF UpdaterProcessFeed, catalog
<1>3. /\ Queued(updaterBox') \subseteq Queued(updaterBox)
      /\ Queued(crawlerBox') = Queued(crawlerBox)
            \cup {DownloadWithHeadCheck(m.id, m.url, m.job)}
    BY <1>1, BoxesAreBags, TakeQueued, PostQueued DEF UpdaterProcessFeed
<1>4. ReportsMark'
    BY <1>2 DEF ReportsMark
<1>5. ASSUME NEW i \in DOMAIN feeds, FetchIsTold(i) PROVE FetchIsTold(i)'
    <2>1. PICK p, u : p = feeds[i].podcastId /\ u = feeds[i].url
        OBVIOUS
    <2>2. Told(i, p, u) => Told(i, p, u)'
        BY <1>2 DEF Told
    <2>3. ASSUME Unfetched(p, u) PROVE Unfetched(p, u)'
        <3>1. m.id = p => m.url = u
            BY <2>3 DEF Unfetched, FetchedBy
        <3> QED
            BY <1>2, <1>3, <2>3, <3>1, UnfetchedFrame
               DEF DownloadWithHeadCheck
    <2> QED
        BY <1>2, <1>5, <2>1, <2>2, <2>3, ToldFrame
<1> QED
    BY <1>4, <1>5

\* A worker that fetches from another location tells of the move, and one
\* that has fetched tells of the download, with the feed's URL.
LEMMA CrawlerTold ==
    ASSUME IInv, ReportsMark, CrawlerReceive, UNCHANGED catalog
    PROVE  /\ ReportsMark'
           /\ \A i \in DOMAIN feeds : FetchIsTold(i) => FetchIsTold(i)'
<1>1. PICK m \in Queued(crawlerBox) :
            HeadCheckSucceeds(m) \/ HeadCheckWithoutLocation(m)
                \/ FetchSucceeds(m) \/ CrawlFails(m)
    BY DEF CrawlerReceive
<1>2. m \in CrawlerMessage
    BY DEF IInv, TypeOK, BoxesOK, IsMailboxOf
<1>3. m.url \in Url
    BY <1>2 DEF CrawlerMessage
<1>4. UNCHANGED <<feeds, podcasts, calls, updaterBox>>
    BY <1>1 DEF HeadCheckSucceeds, HeadCheckWithoutLocation, FetchSucceeds,
                CrawlFails, catalog
<1>5. /\ IsABag(Take(crawlerBox, m))
      /\ Queued(Take(crawlerBox, m)) \subseteq Queued(crawlerBox)
    BY BoxesAreBags, TakeQueued
<1> DEFINE Sent == Queued(catalogBox') \ Queued(catalogBox)
\* What the step may have sent
<1>6. /\ Queued(catalogBox) \subseteq Queued(catalogBox')
      /\ \A n \in Sent : n.type # "UpdatePodcast" /\ MessageMarks(n)
      /\ \/ /\ Queued(parserBox') \subseteq Queued(parserBox)
            /\ Queued(crawlerBox') \subseteq Queued(crawlerBox)
         \/ /\ Queued(parserBox') \subseteq Queued(parserBox)
            /\ \E href, job :
                /\ Queued(crawlerBox') \subseteq Queued(crawlerBox)
                        \cup {DownloadContent(m.id, href, job)}
                /\ href # m.url =>
                    UpdateFeedUrl(m.url, href) \in Queued(catalogBox')
         \/ /\ Queued(crawlerBox') \subseteq Queued(crawlerBox)
            /\ \E job : Queued(parserBox') \subseteq Queued(parserBox)
                                \cup {ParseFeedData(m.id, m.url, job)}
            /\ FeedStatusUpdate(m.id, m.url, "DownloadSuccess")
                    \in Queued(catalogBox')
    <2>1. CASE HeadCheckSucceeds(m)
        <3>1. PICK href \in {m.url} \cup Redirects[m.url] :
                /\ catalogBox' = IF href = m.url THEN catalogBox
                                 ELSE Post(catalogBox,
                                           UpdateFeedUrl(m.url, href))
                /\ crawlerBox' = Post(Take(crawlerBox, m),
                                      DownloadContent(m.id, href, m.job))
            BY <2>1 DEF HeadCheckSucceeds
        <3>2. Queued(crawlerBox') \subseteq Queued(crawlerBox)
                    \cup {DownloadContent(m.id, href, m.job)}
            BY <1>5, <3>1, PostQueued
        <3>3. UNCHANGED parserBox
            BY <2>1 DEF HeadCheckSucceeds
        <3>4. CASE href = m.url
            BY <3>1, <3>2, <3>3, <3>4
        <3>5. CASE href # m.url
            <4>1. href \in Moved
                BY <1>3, <3>1, <3>5 DEF Moved
            <4>2. Queued(catalogBox') = Queued(catalogBox)
                        \cup {UpdateFeedUrl(m.url, href)}
                BY <3>1, <3>5, BoxesAreBags, PostQueued
            <4>3. /\ UpdateFeedUrl(m.url, href).type = "UpdateFeedUrl"
                  /\ UpdateFeedUrl(m.url, href).newUrl = href
                BY DEF UpdateFeedUrl
            <4>4. \A n \in Sent : n.type # "UpdatePodcast" /\ MessageMarks(n)
                BY <4>1, <4>2, <4>3 DEF MessageMarks
            <4> QED
                BY <3>2, <3>3, <4>2, <4>4
        <3> QED
            BY <3>4, <3>5
    <2>2. CASE HeadCheckWithoutLocation(m)
        <3>1. Queued(catalogBox') = Queued(catalogBox)
                    \cup {FeedStatusUpdate(m.id, m.url, "DownloadError")}
            BY <2>2, BoxesAreBags, PostQueued DEF HeadCheckWithoutLocation
        <3>2. \A n \in Sent : n.type # "UpdatePodcast" /\ MessageMarks(n)
            BY <3>1 DEF MessageMarks, FeedStatusUpdate
        <3> QED
            BY <1>5, <2>2, <3>1, <3>2 DEF HeadCheckWithoutLocation
    <2>3. CASE FetchSucceeds(m)
        <3>1. /\ Queued(catalogBox') = Queued(catalogBox)
                    \cup {FeedStatusUpdate(m.id, m.url, "DownloadSuccess")}
              /\ Queued(parserBox') = Queued(parserBox)
                    \cup {ParseFeedData(m.id, m.url, m.job)}
            BY <2>3, BoxesAreBags, PostQueued DEF FetchSucceeds
        <3>2. \A n \in Sent : n.type # "UpdatePodcast" /\ MessageMarks(n)
            BY <3>1 DEF MessageMarks, FeedStatusUpdate
        <3> QED
            BY <1>5, <2>3, <3>1, <3>2 DEF FetchSucceeds
    <2>4. CASE CrawlFails(m)
        BY <1>5, <2>4 DEF CrawlFails
    <2> QED
        BY <1>1, <2>1, <2>2, <2>3, <2>4
<1>7. ReportsMark'
    BY <1>4, <1>6 DEF ReportsMark
<1>8. ASSUME NEW i \in DOMAIN feeds, FetchIsTold(i) PROVE FetchIsTold(i)'
    <2>1. PICK p, u : p = feeds[i].podcastId /\ u = feeds[i].url
        OBVIOUS
    <2>2. Told(i, p, u) => Told(i, p, u)'
        BY <1>4, <1>6 DEF Told
    <2>3. ASSUME Unfetched(p, u) PROVE Unfetched(p, u)' \/ Told(i, p, u)'
        <3>1. m.id = p => m.url = u
            BY <2>3 DEF Unfetched, FetchedBy
        <3>2. CASE /\ Queued(parserBox') \subseteq Queued(parserBox)
                   /\ Queued(crawlerBox') \subseteq Queued(crawlerBox)
            BY <1>4, <1>6, <2>3, <3>2, UnfetchedFrame
        <3>3. ASSUME Queued(parserBox') \subseteq Queued(parserBox),
                     NEW href, NEW job,
                     Queued(crawlerBox') \subseteq Queued(crawlerBox)
                        \cup {DownloadContent(m.id, href, job)},
                     href # m.url =>
                        UpdateFeedUrl(m.url, href) \in Queued(catalogBox')
              PROVE  Unfetched(p, u)' \/ Told(i, p, u)'
            <4>1. CASE m.id = p /\ href # m.url
                <5>1. TellsOf(UpdateFeedUrl(m.url, href), p, u)
                    BY <3>1, <4>1 DEF TellsOf, UpdateFeedUrl
                <5> QED
                    BY <3>3, <4>1, <5>1 DEF Told
            <4>2. CASE ~(m.id = p /\ href # m.url)
                <5>1. DownloadContent(m.id, href, job).id = p
                        => DownloadContent(m.id, href, job).url = u
                    BY <3>1, <4>2 DEF DownloadContent
                <5> QED
                    BY <1>4, <1>6, <2>3, <3>3, <5>1, UnfetchedFrame
            <4> QED
                BY <4>1, <4>2
        <3>4. ASSUME Queued(crawlerBox') \subseteq Queued(crawlerBox),
                     NEW job,
                     Queued(parserBox') \subseteq Queued(parserBox)
                        \cup {ParseFeedData(m.id, m.url, job)},
                     FeedStatusUpdate(m.id, m.url, "DownloadSuccess")
                        \in Queued(catalogBox')
              PROVE  Unfetched(p, u)' \/ Told(i, p, u)'
            <4>1. CASE m.id = p
                <5>1. TellsOf(FeedStatusUpdate(m.id, m.url, "DownloadSuccess"),
                              p, u)
                    BY <3>1, <4>1 DEF TellsOf, FeedStatusUpdate
                <5> QED
                    BY <3>4, <5>1 DEF Told
            <4>2. CASE m.id # p
                <5>1. ParseFeedData(m.id, m.url, job).id # p
                    BY <4>2 DEF ParseFeedData
                <5> QED
                    BY <1>4, <1>6, <2>3, <3>4, <5>1, UnfetchedFrame
            <4> QED
                BY <4>1, <4>2
        <3> QED
            BY <1>6, <3>2, <3>3, <3>4
    <2> QED
        BY <1>4, <1>8, <2>1, <2>2, <2>3, ToldFrame
<1> QED
    BY <1>7, <1>8

\* The Parser completes a podcast only where somebody has fetched its feed.
LEMMA ParserTold ==
    ASSUME IInv, ReportsMark, ParserReceive, UNCHANGED catalog
    PROVE  /\ ReportsMark'
           /\ \A i \in DOMAIN feeds : FetchIsTold(i) => FetchIsTold(i)'
<1>1. PICK m \in Queued(parserBox) :
            ParseSucceeds(m) \/ ParseFails(m)
                \/ ParseOpmlFile(m) \/ ParseOpmlFails(m)
    BY DEF ParserReceive
<1>2. UNCHANGED <<feeds, podcasts, calls, updaterBox, crawlerBox>>
    BY <1>1 DEF ParseSucceeds, ParseFails, ParseOpmlFile, ParseOpmlFails,
                catalog
<1>3. Queued(parserBox') \subseteq Queued(parserBox)
    BY <1>1, BoxesAreBags, TakeQueued
       DEF ParseSucceeds, ParseFails, ParseOpmlFile, ParseOpmlFails
<1>4. /\ Queued(catalogBox) \subseteq Queued(catalogBox')
      /\ \A n \in Queued(catalogBox') \ Queued(catalogBox) :
            /\ MessageMarks(n)
            /\ n.type = "UpdatePodcast" =>
                m.type = "ParseFeedData" /\ n.id = m.id
    <2>1. CASE ParseSucceeds(m)
        BY <2>1, BoxesAreBags, PostQueued
           DEF ParseSucceeds, UpdatePodcast, MessageMarks
    <2>2. CASE ParseFails(m)
        BY <2>2, BoxesAreBags, PostQueued
           DEF ParseFails, FeedStatusUpdate, MessageMarks
    <2>3. CASE ParseOpmlFile(m)
        BY <2>3, BoxesAreBags, PostAllQueued
           DEF ParseOpmlFile, ProposeNewFeed, MessageMarks
    <2>4. CASE ParseOpmlFails(m)
        BY <2>4 DEF ParseOpmlFails
    <2> QED
        BY <1>1, <2>1, <2>2, <2>3, <2>4
<1>5. ReportsMark'
    BY <1>2, <1>4 DEF ReportsMark
<1>6. ASSUME NEW i \in DOMAIN feeds, FetchIsTold(i) PROVE FetchIsTold(i)'
    <2>1. PICK p, u : p = feeds[i].podcastId /\ u = feeds[i].url
        OBVIOUS
    <2>2. Told(i, p, u) => Told(i, p, u)'
        BY <1>2, <1>4 DEF Told
    <2>3. ASSUME Unfetched(p, u) PROVE Unfetched(p, u)'
        <3>1. m.type = "ParseFeedData" => m.id # p
            BY <2>3 DEF Unfetched, NothingFetched
        <3> QED
            BY <1>2, <1>3, <1>4, <2>3, <3>1, UnfetchedFrame
    <2> QED
        BY <1>2, <1>6, <2>1, <2>2, <2>3, ToldFrame
<1> QED
    BY <1>5, <1>6

-----------------------------------------------------------------------------
(***************************************************************************)
(* The steps of the catalog.                                               *)
(***************************************************************************)
\* A handler starts the call that its message asks for.
LEMMA ReceiveTold ==
    ASSUME IInv, ReportsMark, CatalogReceive
    PROVE  /\ ReportsMark'
           /\ \A i \in DOMAIN feeds : FetchIsTold(i) => FetchIsTold(i)'
<1>1. PICK m \in Queued(catalogBox) :
            \/ ReceiveProposeNewFeed(m) \/ ReceiveFeedStatusUpdate(m)
            \/ ReceiveUpdateFeedUrl(m) \/ ReceiveCheckPodcast(m)
            \/ ReceiveUpdatePodcast(m)
    BY DEF CatalogReceive
<1>2. MessageMarks(m)
    BY DEF ReportsMark
<1>3. PICK call :
        /\ Receive(m, call)
        /\ CallMarks(call)
        /\ \A i, p, u : TellsOf(m, p, u) => ActsOn(call, i, p, u)
        /\ call.op \in {"onUpdatePodcast", "completePodcast"} =>
            m.type = "UpdatePodcast" /\ call.id = m.id
    <2>1. CASE ReceiveProposeNewFeed(m)
        BY <2>1 DEF ReceiveProposeNewFeed, CallMarks, TellsOf
    <2>2. CASE ReceiveFeedStatusUpdate(m)
        BY <1>2, <2>2 DEF ReceiveFeedStatusUpdate, MessageMarks, CallMarks,
                          TellsOf, ActsOn
    <2>3. CASE ReceiveUpdateFeedUrl(m)
        BY <1>2, <2>3 DEF ReceiveUpdateFeedUrl, MessageMarks, CallMarks,
                          TellsOf, ActsOn
    <2>4. CASE ReceiveCheckPodcast(m)
        BY <2>4 DEF ReceiveCheckPodcast, CallMarks, TellsOf
    <2>5. CASE ReceiveUpdatePodcast(m)
        BY <2>5 DEF ReceiveUpdatePodcast, CallMarks, TellsOf
    <2> QED
        BY <1>1, <2>1, <2>2, <2>3, <2>4, <2>5
<1>4. UNCHANGED <<feeds, podcasts, updaterBox, crawlerBox, parserBox>>
    BY <1>3 DEF Receive
<1>5. /\ Queued(catalogBox') \subseteq Queued(catalogBox)
      /\ Queued(catalogBox) \ {m} \subseteq Queued(catalogBox')
      /\ Queued(calls') = Queued(calls) \cup {call}
    BY <1>3, BoxesAreBags, TakeQueued, PostQueued DEF Receive
<1>6. ReportsMark'
    BY <1>3, <1>5 DEF ReportsMark
<1>7. ASSUME NEW i \in DOMAIN feeds, FetchIsTold(i) PROVE FetchIsTold(i)'
    <2>1. PICK p, u : p = feeds[i].podcastId /\ u = feeds[i].url
        OBVIOUS
    <2>2. Told(i, p, u) => Told(i, p, u)'
        BY <1>3, <1>5 DEF Told
    <2>3. ASSUME Unfetched(p, u) PROVE Unfetched(p, u)'
        <3>1. m.type = "UpdatePodcast" => m.id # p
            BY <2>3 DEF Unfetched, NothingFetched
        <3> QED
            BY <1>3, <1>4, <1>5, <2>3, <3>1, UnfetchedFrame
    <2> QED
        BY <1>4, <1>7, <2>1, <2>2, <2>3, ToldFrame
<1> QED
    BY <1>6, <1>7

\* What a call that is done and stores no feed must do: whatever it was to do
\* for a feed is handed on to a call it starts.
LEMMA HandedOn ==
    ASSUME IInv, ReportsMark, NEW c \in Queued(calls), NEW S, Continue(c, S),
           UNCHANGED <<feeds, catalogBox, crawlerBox, parserBox>>,
           \A p \in DOMAIN podcasts :
                \/ podcasts'[p].complete = podcasts[p].complete
                \/ c.op = "completePodcast" /\ c.id = p,
           \A d \in S : CallMarks(d),
           \A d \in S : d.op \in {"onUpdatePodcast", "completePodcast"}
                            => c.op = "onUpdatePodcast" /\ d.id = c.id,
           \A i \in DOMAIN feeds :
                ActsOn(c, i, feeds[i].podcastId, feeds[i].url) =>
                    \E d \in S : ActsOn(d, i, feeds[i].podcastId, feeds[i].url),
           \A m \in Queued(updaterBox') \ Queued(updaterBox) :
                \A i \in DOMAIN feeds :
                    m.id = feeds[i].podcastId => m.url = feeds[i].url
    PROVE  /\ ReportsMark'
           /\ \A i \in DOMAIN feeds : FetchIsTold(i) => FetchIsTold(i)'
<1>1. /\ Queued(calls') \subseteq Queued(calls) \cup S
      /\ S \cup (Queued(calls) \ {c}) \subseteq Queued(calls')
    BY ContinueQueued
<1>2. ReportsMark'
    BY <1>1 DEF ReportsMark
<1>3. ASSUME NEW i \in DOMAIN feeds, FetchIsTold(i) PROVE FetchIsTold(i)'
    <2>1. PICK p, u : p = feeds[i].podcastId /\ u = feeds[i].url
        OBVIOUS
    <2>2. Told(i, p, u) => Told(i, p, u)'
        BY <1>1, <2>1 DEF Told
    <2>3. ASSUME Unfetched(p, u) PROVE Unfetched(p, u)'
        <3>1. c.op \in {"onUpdatePodcast", "completePodcast"} => c.id # p
            BY <2>3 DEF Unfetched, NothingFetched
        <3>2. p \in DOMAIN podcasts
            BY <2>1 DEF IInv, FeedHasPodcast
        <3>3. podcasts'[p].complete = podcasts[p].complete
            BY <3>1, <3>2
        <3>4. \A m \in Queued(updaterBox') \ Queued(updaterBox) :
                m.id = p => m.url = u
            BY <2>1
        <3> QED
            BY <1>1, <2>3, <3>1, <3>3, <3>4, UnfetchedFrame
    <2> QED
        BY <1>3, <2>1, <2>2, <2>3, ToldFrame
<1> QED
    BY <1>2, <1>3

\* The document that was read is saved with the status that was reported.
LEMMA StatusTold ==
    ASSUME IInv, ReportsMark, NEW c \in Queued(calls), FindFeedOfStatus(c)
    PROVE  /\ ReportsMark'
           /\ \A i \in DOMAIN feeds : FetchIsTold(i) => FetchIsTold(i)'
<1>1. /\ c.op = "onFeedStatusUpdate" /\ c.status # "NeverChecked"
      /\ UNCHANGED <<feeds, podcasts, updaterBox, catalogBox, crawlerBox,
                     parserBox>>
    BY DEF FindFeedOfStatus, ReportsMark, CallMarks, boxes
<1> DEFINE found == FeedsByUrl(c.url) \cap FeedsOfPodcast(c.id)
           save(i) == SaveOf(i, [feeds[i] EXCEPT !.lastStatus = c.status])
<1>2. \/ \E i \in found : Continue(c, {save(i)})
      \/ found = {} /\ Continue(c, {})
    BY DEF FindFeedOfStatus
<1>3. ASSUME NEW i \in DOMAIN feeds,
             ActsOn(c, i, feeds[i].podcastId, feeds[i].url)
      PROVE  found = {i}
    <2>1. i \in found
        BY <1>1, <1>3 DEF ActsOn, FeedsByUrl, FeedsOfPodcast
    <2>2. ASSUME NEW j \in found PROVE j = i
        <3>1. j \in DOMAIN feeds /\ feeds[j].podcastId = feeds[i].podcastId
            BY <2>1 DEF FeedsByUrl, FeedsOfPodcast
        <3> QED
            BY <3>1 DEF IInv, StoredIdsAreUsed
    <2> QED
        BY <2>1, <2>2
<1>4. CASE found = {} /\ Continue(c, {})
    BY <1>1, <1>3, <1>4, HandedOn
<1>5. ASSUME NEW j \in found, Continue(c, {save(j)})
      PROVE  /\ ReportsMark'
             /\ \A i \in DOMAIN feeds : FetchIsTold(i) => FetchIsTold(i)'
    <2>1. j \in DOMAIN feeds /\ feeds[j] \in Feed
        BY DEF FeedsByUrl, IInv, TypeOK, CatalogOK, IsCollectionOf
    <2>2. save(j).op = "saveFeed" /\ save(j).id = j
          /\ save(j).doc.lastStatus = c.status
        BY <2>1 DEF SaveOf, Feed
    <2>3. CallMarks(save(j))
        BY <1>1, <2>2 DEF CallMarks, Marks
    <2>4. \A i \in DOMAIN feeds :
            ActsOn(c, i, feeds[i].podcastId, feeds[i].url) =>
                ActsOn(save(j), i, feeds[i].podcastId, feeds[i].url)
        BY <1>3, <2>2 DEF ActsOn
    <2> HIDE DEF save, found
    <2> QED
        BY <1>1, <1>5, <2>2, <2>3, <2>4, HandedOn
<1> HIDE DEF save, found
<1> QED
    BY <1>2, <1>4, <1>5

\* Every document that was read is saved with the new location.
LEMMA MovesTold ==
    ASSUME IInv, ReportsMark, NEW c \in Queued(calls), FindMovedFeeds(c)
    PROVE  /\ ReportsMark'
           /\ \A i \in DOMAIN feeds : FetchIsTold(i) => FetchIsTold(i)'
<1> DEFINE save(i) == SaveOf(i, [feeds[i] EXCEPT !.url = c.newUrl])
           S == {save(i) : i \in FeedsByUrl(c.url)}
<1>1. /\ c.op = "onUpdateFeedUrl" /\ c.newUrl \in Moved /\ Continue(c, S)
      /\ UNCHANGED <<feeds, podcasts, updaterBox, catalogBox, crawlerBox,
                     parserBox>>
    BY DEF FindMovedFeeds, ReportsMark, CallMarks, boxes
<1>2. ASSUME NEW i \in FeedsByUrl(c.url)
      PROVE  /\ save(i).op = "saveFeed" /\ save(i).id = i
             /\ CallMarks(save(i))
    <2>1. feeds[i] \in Feed
        BY DEF FeedsByUrl, IInv, TypeOK, CatalogOK, IsCollectionOf
    <2>2. save(i).op = "saveFeed" /\ save(i).id = i
          /\ save(i).doc.url = c.newUrl
        BY <2>1 DEF SaveOf, Feed
    <2> QED
        BY <1>1, <2>2 DEF CallMarks, Marks
<1>3. ASSUME NEW i \in DOMAIN feeds,
             ActsOn(c, i, feeds[i].podcastId, feeds[i].url)
      PROVE  \E d \in S : ActsOn(d, i, feeds[i].podcastId, feeds[i].url)
    <2>1. i \in FeedsByUrl(c.url)
        BY <1>1, <1>3 DEF ActsOn, FeedsByUrl
    <2>2. save(i) \in S /\ ActsOn(save(i), i, feeds[i].podcastId, feeds[i].url)
        BY <1>2, <2>1 DEF ActsOn
    <2> QED
        BY <2>2
<1>4. \A d \in S : d.op = "saveFeed" /\ CallMarks(d)
    BY <1>2
<1> HIDE DEF save, S
<1> QED
    BY <1>1, <1>3, <1>4, HandedOn

\* A feed is saved after its podcast and before any crawl of it.
LEMMA CreateTold ==
    ASSUME IInv, ReportsMark, NEW c \in Queued(calls), CreateFeed(c)
    PROVE  /\ ReportsMark'
           /\ \A i \in DOMAIN feeds' :
                (i \in DOMAIN feeds => FetchIsTold(i)) => FetchIsTold(i)'
<1> DEFINE p0 == c.doc.podcastId
           u0 == c.doc.url
<1>1. /\ c.op = "createFeed" /\ Continue(c, {})
      /\ UNCHANGED <<podcasts, catalogBox, crawlerBox, parserBox>>
      /\ updaterBox' = Post(updaterBox,
                            ProcessFeed(p0, u0, "NewPodcastFetchJob"))
    BY DEF CreateFeed
<1>2. /\ Queued(calls') \subseteq Queued(calls)
      /\ Queued(calls) \ {c} \subseteq Queued(calls')
    BY <1>1, ContinueQueued
<1>3. Queued(updaterBox') = Queued(updaterBox)
            \cup {ProcessFeed(p0, u0, "NewPodcastFetchJob")}
    BY <1>1, BoxesAreBags, PostQueued
<1>4. /\ DOMAIN feeds' = DOMAIN feeds \cup {c.id} /\ feeds'[c.id] = c.doc
      /\ \A i \in DOMAIN feeds \ {c.id} : feeds'[i] = feeds[i]
    BY DEF CreateFeed, Upsert
<1>5. ReportsMark'
    BY <1>1, <1>2 DEF ReportsMark
\* Nothing is about a podcast without a feed.
<1>6. /\ ~podcasts[p0].complete
      /\ c.id \notin DOMAIN feeds
      /\ \A i \in DOMAIN feeds : feeds[i].podcastId # p0
    <2>1. c \in Creating
        BY <1>1 DEF Creating
    <2>2. /\ ~podcasts[p0].complete
          /\ c.id = p0 + 1 /\ c.id \notin DOMAIN feeds
        BY <1>1, <2>1 DEF IInv, CreatingIsFresh, FeedOf, PodcastOf
    <2> QED
        BY <2>2 DEF IInv, StoredIdsAreUsed
<1>7. ~IsStored(p0)
    BY <1>6 DEF IsStored, FeedsOfPodcast
<1>8. NothingFetched(p0)' /\ FetchedBy(p0, u0)'
    <2>1. NothingFetched(p0)
        BY <1>7 DEF NothingFetched, IInv, CrawlsAreStored, CallsAreStored,
                    CallIsStored
    <2>2. /\ \A m \in Queued(updaterBox) : m.id # p0
          /\ \A m \in Queued(crawlerBox) : m.id # p0
        BY <1>7 DEF IInv, CrawlsAreStored
    <2>3. NothingFetched(p0)'
        BY <1>1, <1>2, <2>1 DEF NothingFetched
    <2>4. FetchedBy(p0, u0)'
        BY <1>1, <1>3, <2>2 DEF FetchedBy, ProcessFeed
    <2> QED
        BY <2>3, <2>4
<1>9. FetchIsTold(c.id)'
    BY <1>1, <1>4, <1>6, <1>8 DEF FetchIsTold, Unfetched
<1>10. ASSUME NEW i \in DOMAIN feeds, FetchIsTold(i) PROVE FetchIsTold(i)'
    <2>1. PICK p, u : p = feeds[i].podcastId /\ u = feeds[i].url
        OBVIOUS
    <2>2. p # p0 /\ feeds'[i] = feeds[i]
        BY <1>4, <1>6, <2>1
    <2>3. Told(i, p, u) => Told(i, p, u)'
        BY <1>1, <1>2 DEF Told, ActsOn
    <2>4. ASSUME Unfetched(p, u) PROVE Unfetched(p, u)'
        BY <1>1, <1>2, <1>3, <2>2, <2>4, UnfetchedFrame DEF ProcessFeed
    <2> QED
        BY <1>10, <2>1, <2>2, <2>3, <2>4, ToldFrame
<1> QED
    BY <1>4, <1>5, <1>9, <1>10

\* A document that was read is saved marked.
LEMMA SaveTold ==
    ASSUME IInv, ReportsMark, NEW c \in Queued(calls), SaveFeed(c)
    PROVE  /\ ReportsMark' /\ DOMAIN feeds' = DOMAIN feeds
           /\ \A i \in DOMAIN feeds : FetchIsTold(i) => FetchIsTold(i)'
<1>1. /\ c.op = "saveFeed" /\ Continue(c, {})
      /\ UNCHANGED <<podcasts, updaterBox, catalogBox, crawlerBox, parserBox>>
    BY DEF SaveFeed, boxes
<1>2. c.id \in DOMAIN feeds /\ Marks(c.doc)
    BY <1>1 DEF IInv, CallsAreStored, CallIsStored, ReportsMark, CallMarks
<1>3. /\ Queued(calls') \subseteq Queued(calls)
      /\ Queued(calls) \ {c} \subseteq Queued(calls')
    BY <1>1, ContinueQueued
<1>4. /\ DOMAIN feeds' = DOMAIN feeds /\ feeds'[c.id] = c.doc
      /\ \A i \in DOMAIN feeds \ {c.id} : feeds'[i] = feeds[i]
    BY <1>2 DEF SaveFeed, Upsert
<1>5. ReportsMark'
    BY <1>1, <1>3 DEF ReportsMark
<1>6. FetchIsTold(c.id)'
    BY <1>2, <1>4 DEF FetchIsTold
<1>7. ASSUME NEW i \in DOMAIN feeds, i # c.id, FetchIsTold(i)
      PROVE  FetchIsTold(i)'
    <2>1. PICK p, u : p = feeds[i].podcastId /\ u = feeds[i].url
        OBVIOUS
    <2>2. Told(i, p, u) => Told(i, p, u)'
        BY <1>1, <1>3, <1>7 DEF Told, ActsOn
    <2>3. ASSUME Unfetched(p, u) PROVE Unfetched(p, u)'
        BY <1>1, <1>3, <2>3, UnfetchedFrame
    <2> QED
        BY <1>4, <1>7, <2>1, <2>2, <2>3, ToldFrame
<1> QED
    BY <1>4, <1>5, <1>6, <1>7

\* Whatever the database answers, without a fault.
LEMMA ReplyTold ==
    ASSUME IInv, ReportsMark, DatabaseReply
    PROVE  /\ ReportsMark'
           /\ \A i \in DOMAIN feeds' :
                (i \in DOMAIN feeds => FetchIsTold(i)) => FetchIsTold(i)'
<1>1. PICK c \in Queued(calls) :
        \/ FindProposedFeed(c) \/ FindKnownFeed(c)
        \/ CreatePodcast(c) \/ CreateFeed(c) \/ SaveFeed(c)
        \/ FindFeedOfStatus(c) \/ FindMovedFeeds(c) \/ FindFeedToCheck(c)
        \/ FindPodcastToUpdate(c) \/ CompletePodcast(c)
    BY DEF DatabaseReply
<1>2. CASE CreateFeed(c)
    BY <1>2, CreateTold
<1>3. CASE SaveFeed(c)
    BY <1>3, SaveTold
<1>4. CASE FindFeedOfStatus(c)
    BY <1>4, StatusTold DEF FindFeedOfStatus
<1>5. CASE FindMovedFeeds(c)
    BY <1>5, MovesTold DEF FindMovedFeeds
<1>6. CASE FindFeedToCheck(c)
    <2>1. /\ c.op = "onCheckPodcast" /\ Continue(c, {})
          /\ UNCHANGED <<feeds, podcasts, catalogBox, crawlerBox, parserBox>>
        BY <1>6 DEF FindFeedToCheck
    <2>2. \A m \in Queued(updaterBox') \ Queued(updaterBox) :
            \A i \in DOMAIN feeds :
                m.id = feeds[i].podcastId => m.url = feeds[i].url
        <3>1. CASE UNCHANGED updaterBox
            BY <3>1
        <3>2. ASSUME NEW j \in FeedsOfPodcast(c.id),
                     updaterBox' = Post(updaterBox,
                                        ProcessFeed(c.id, feeds[j].url,
                                                "UpdateEpisodesFetchJob"))
              PROVE  \A m \in Queued(updaterBox') \ Queued(updaterBox) :
                        \A i \in DOMAIN feeds :
                            m.id = feeds[i].podcastId => m.url = feeds[i].url
            <4>1. \A i \in DOMAIN feeds : c.id = feeds[i].podcastId => i = j
                BY DEF FeedsOfPodcast, IInv, StoredIdsAreUsed
            <4>2. \A m \in Queued(updaterBox') \ Queued(updaterBox) :
                    m.id = c.id /\ m.url = feeds[j].url
                BY <3>2, BoxesAreBags, PostQueued DEF ProcessFeed
            <4> QED
                BY <4>1, <4>2
        <3> QED
            BY <1>6, <3>1, <3>2 DEF FindFeedToCheck
    <2> QED
        BY <2>1, <2>2, HandedOn DEF ActsOn
<1>7. CASE CreatePodcast(c)
    <2> DEFINE next == [op |-> "createFeed", id |-> c.feedId,
                        doc |-> NewFeed(c.id, c.url)]
    <2>1. /\ c.op = "createPodcast" /\ Continue(c, {next})
          /\ UNCHANGED <<feeds, updaterBox, catalogBox, crawlerBox, parserBox>>
          /\ podcasts' = Upsert(podcasts, c.id, [complete |-> FALSE])
        BY <1>7 DEF CreatePodcast, boxes
    <2>2. c.id \notin DOMAIN podcasts
        BY <2>1 DEF IInv, CreatingIsFresh, Creating, PodcastOf
    <2>3. \A p \in DOMAIN podcasts : podcasts'[p].complete = podcasts[p].complete
        BY <2>1, <2>2 DEF Upsert
    <2>4. next.op = "createFeed"
        OBVIOUS
    <2> HIDE DEF next
    <2> QED
        BY <2>1, <2>3, <2>4, HandedOn DEF ActsOn, CallMarks
<1>8. CASE FindPodcastToUpdate(c)
    <2> DEFINE next == [op |-> "completePodcast", id |-> c.id]
    <2>1. /\ c.op = "onUpdatePodcast" /\ Continue(c, {next})
          /\ UNCHANGED <<feeds, podcasts, updaterBox, catalogBox, crawlerBox,
                         parserBox>>
        BY <1>8 DEF FindPodcastToUpdate, boxes
    <2>2. next.op = "completePodcast" /\ next.id = c.id
        OBVIOUS
    <2> HIDE DEF next
    <2> QED
        BY <2>1, <2>2, HandedOn DEF ActsOn, CallMarks
<1>9. CASE CompletePodcast(c)
    <2>1. /\ c.op = "completePodcast" /\ Continue(c, {})
          /\ UNCHANGED <<feeds, updaterBox, catalogBox, crawlerBox, parserBox>>
          /\ podcasts' = Upsert(podcasts, c.id, [complete |-> TRUE])
        BY <1>9 DEF CompletePodcast, boxes
    <2>2. \A p \in DOMAIN podcasts :
            podcasts'[p].complete = podcasts[p].complete \/ c.id = p
        BY <2>1 DEF Upsert
    <2> QED
        BY <2>1, <2>2, HandedOn DEF ActsOn
<1>10. CASE FindProposedFeed(c)
    <2> DEFINE next == [op |-> "createPodcast", id |-> lastId + 1,
                        feedId |-> lastId + 2, url |-> c.url]
    <2>1. /\ c.op = "proposeFeed" /\ Continue(c, {next})
          /\ UNCHANGED <<feeds, podcasts, updaterBox, catalogBox, crawlerBox,
                         parserBox>>
        BY <1>10 DEF FindProposedFeed, StartRegistration, boxes
    <2>2. next.op = "createPodcast"
        OBVIOUS
    <2> HIDE DEF next
    <2> QED
        BY <2>1, <2>2, HandedOn DEF ActsOn, CallMarks
<1>11. CASE FindKnownFeed(c)
    <2>1. /\ c.op = "proposeFeed" /\ Continue(c, {})
          /\ UNCHANGED <<feeds, podcasts, updaterBox, catalogBox, crawlerBox,
                         parserBox>>
        BY <1>11 DEF FindKnownFeed, boxes
    <2> QED
        BY <2>1, HandedOn DEF ActsOn
<1> QED
    BY <1>1, <1>2, <1>3, <1>4, <1>5, <1>6, <1>7, <1>8, <1>9, <1>10, <1>11

-----------------------------------------------------------------------------
LEMMA ToldInit == Init => FetchesAreTold
<1> SUFFICES ASSUME Init PROVE FetchesAreTold
    OBVIOUS
<1>1. Queued(catalogBox) = {} /\ Queued(calls) = {} /\ DOMAIN feeds = {}
    BY EmptyMailbox DEF Init, BoxesInit, CatalogInit
<1> QED
    BY <1>1 DEF FetchesAreTold, ReportsMark

LEMMA ToldNext == IInv /\ FetchesAreTold /\ [Next]_vars => FetchesAreTold'
<1> SUFFICES ASSUME IInv, FetchesAreTold, [Next]_vars, faults' = 0
             PROVE  /\ ReportsMark'
                    /\ \A i \in DOMAIN feeds' : FetchIsTold(i)'
    BY DEF FetchesAreTold
<1>1. CASE DatabaseFault
    <2>1. faults \in Nat /\ faults' = faults + 1
        BY <1>1, FaultOrphans, FaultsAssumption DEF IInv, TypeOK, CatalogOK
    <2> QED
        BY <2>1
<1>2. ASSUME faults = 0
      PROVE  ReportsMark /\ \A i \in DOMAIN feeds : FetchIsTold(i)
    BY <1>2 DEF FetchesAreTold
<1>3. CASE DatabaseReply
    BY <1>2, <1>3, ReplyTold, ReplyOrphans
<1>4. CASE CatalogReceive
    <2>1. UNCHANGED <<feeds, faults>>
        BY <1>4 DEF CatalogReceive, Receive, ReceiveProposeNewFeed,
                    ReceiveFeedStatusUpdate, ReceiveUpdateFeedUrl,
                    ReceiveCheckPodcast, ReceiveUpdatePodcast
    <2> QED
        BY <1>2, <1>4, <2>1, ReceiveTold
<1>5. CASE UserRequest
    <2>1. UNCHANGED <<feeds, faults>>
        BY <1>5 DEF UserRequest, Propose, ImportOpml, RequestCheck, catalog
    <2> QED
        BY <1>2, <1>5, <2>1, RequestTold
<1>6. CASE Crawl
    <2>1. UNCHANGED catalog
        BY <1>6 DEF Crawl
    <2>2. UNCHANGED <<feeds, faults>>
        BY <2>1 DEF catalog
    <2> QED
        BY <1>2, <1>6, <2>1, <2>2, UpdaterTold, CrawlerTold, ParserTold
           DEF Crawl
<1>7. CASE UNCHANGED vars
    BY <1>2, <1>7 DEF vars, ReportsMark, FetchIsTold, Told, Unfetched,
                      NothingFetched, FetchedBy
<1> QED
    BY <1>1, <1>3, <1>4, <1>5, <1>6, <1>7 DEF Next, CatalogStep

\* Where no call has failed and nothing is under way any more, a feed whose
\* podcast was completed is marked as checked or has moved: no report that
\* CrawlerWorker.fetchContent sends is lost between the catalog's reads and
\* its saves of whole documents, except one that names another location.
THEOREM CompleteMeansChecked == Spec => []CompletePodcastWasChecked
<1>1. ASSUME IInv, FetchesAreTold PROVE CompletePodcastWasChecked
    <2> SUFFICES ASSUME Settled, faults = 0, NEW i \in DOMAIN feeds,
                        podcasts[feeds[i].podcastId].complete,
                        feeds[i].lastStatus = "NeverChecked"
                 PROVE  \E u \in Url : feeds[i].url \in Redirects[u]
        BY DEF CompletePodcastWasChecked
    <2>1. Queued(catalogBox) = {} /\ Queued(calls) = {}
        BY EmptyMailbox DEF Settled
    <2>2. FetchIsTold(i)
        BY <1>1 DEF FetchesAreTold
    <2>3. Marks(feeds[i])
        BY <2>1, <2>2 DEF FetchIsTold, Told, Unfetched
    <2> QED
        BY <2>3 DEF Marks, Moved
<1>2. IInv /\ FetchesAreTold => CompletePodcastWasChecked
    BY <1>1
<1> QED
    BY <1>2, Inductive, ToldInit, ToldNext, PTL DEF Spec
=============================================================================
