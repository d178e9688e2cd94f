# Hemin: specification and proofs

TLA+ modules, TLC runs and TLAPS proofs for the Hemin podcast catalog and search engine
(`src/engine`, Scala on Akka actors, MongoDB, Solr, Neo4j) and its web application (`src/webapp`, Elm and JavaScript).
`E/` below stands for `src/engine/src/main/scala/io/hemin/engine/`, `W/` for `src/webapp/src/`.

Contents: [1 the system](#1-the-system), [2 the hard part](#2-what-is-hard),
[3 the model](#3-the-model), [4 the runs](#4-the-runs), [5 what the runs refute](#5-what-the-runs-refute),
[6 the proofs](#6-the-proofs), [7 what is not modelled](#7-what-is-not-modelled), [8 what is left](#8-what-is-left).

## 1 The system

`HeminEngine` starts an actor system with one `Node`, which creates, watches and routes to eight
children. All of them are asynchronous: a handler returns before the database, the network or the
parser has answered, and the rest of its work runs later in callbacks.

| Component | State | Operations | Talks to |
|---|---|---|---|
| `HeminEngine` (`E/HeminEngine.scala`) | `running`, the actor system | boot (polls the Node), `shutdown`, one method per request | Node, through `GuardedOperationDispatcher` |
| `HeminApp` (`E/HeminApp.scala`) | the lazy engine, its REPL's flag | boot on first use, read commands, shut down, exit; a shutdown hook | `HeminEngine`, the Java virtual machine |
| `Node` (`E/node/Node.scala`) | references to the children, `InitializationProgress` | route by message trait, collect start-up reports, shut down when a child ends | every child |
| `GuardedOperationDispatcher` (`E/util`) | a circuit breaker | asks and tells on behalf of users and the CLI | Node |
| `CatalogStore` (`E/catalog`) | collections `podcasts`, `episodes`, `feeds`, `images`; `IdGenerator` | propose a feed, update status, URL, podcast, episode, image; register an episode; check a podcast; queries | MongoDB, Updater, Crawler, IndexStore, GraphStore |
| `Updater` (`E/updater`) | references | `ProcessFeed` | Crawler, CatalogStore |
| `Crawler`, `CrawlerWorker` (`E/crawler`) | router of workers, start-up count | HEAD check, download; for feeds, websites, images | web servers, Parser, CatalogStore, itself |
| `Parser` (`E/parser`) | references | feeds, websites, images, OPML | CatalogStore, IndexStore, Crawler |
| `IndexStore`, `Searcher` (`E/index`, `E/searcher`) | Solr | add a document; search a page | Solr |
| `GraphStore` (`E/graph`) | Neo4j | nodes and relationships of podcasts, episodes, persons, websites | Neo4j |
| `CommandLineInterpreter` (`E/cli`) | parser, processor | one command, blocking | Node |
| REST API (`src/api`) | | forward requests | engine |
| Web pages (`W/Main.elm`, `W/Page`) | route, the model of one page | go to a URL, ask, take an answer, draw | REST API, JavaScript through two ports |
| Widgets (`W/*.js`) | nodes of the document, a global variable | configure the subscribe button and the player, set the content of `rendered-html` | Podlove's scripts |
| Service worker registration (`W/registerServiceWorker.js`) | the browser's one registration | register, check, unregister and reload | the browser, the server |

How a feed travels:

    user -- ProposeNewFeed --> CatalogStore -- ProcessFeed --> Updater -- DownloadWithHeadCheck --> Crawler
              ParseOpml --> Parser --^  ^                                                             |
                                        |  UpdateFeedUrl, FeedStatusUpdate                            |
                                        +-------------------------------------------------------------+
                                        |  UpdatePodcast, RegisterEpisodeIfNew, FeedStatusUpdate      v
                                        +--------------------------- Parser <-- ParseNewPodcastData --+

What makes each component correct:

* **CatalogStore, feeds**: a feed has a podcast; a crawl is only started for what is stored; a complete
  registration stays complete; a URL is registered once; status and URL follow what the crawl reported;
  every proposal is answered.
* **CatalogStore, episodes and images**: an episode is registered once, keeps its ID, follows its feed; an
  image reference resolves.
* **Crawler, Parser**: every message leads to a report or to the next message; no cycle of messages.
* **Start-up and supervision**: operational is only reported once every component has all references; the
  end of a component ends the engine, and the engine knows.
* **Dispatcher**: the breaker opens on failures of the engine only; no call waits forever.
* **Model classes**: a patch never loses a value but to the other side's.
* **Web pages**: a page shows what it was opened for, and waits for nothing it did not ask for.
* **Widgets**: what JavaScript puts into a node belongs to the page that shows the node.
* **Service worker**: a visit leaves a worker exactly where there is a script for one, and ends.

## 2 What is hard

`PROJECT.json` lists the hazards line by line. They come from seven habits of the code:

1. *Check, then act in a callback* (`proposeFeed`, `onRegisterEpisodeIfNew`, `onUpdateImage`).
2. *Read a document, copy it, save it whole* (every update): the last save wins with all its fields.
3. *Unordered or reordered messages*: priority mailboxes (`CatalogMailbox`, `ParserMailbox`) without order
   among equals; reports of one crawl that come from two actors.
4. *Errors turned into values*: `MongoRepository.findAll` returns `Nil` on an error; `save` may have been
   applied when it fails; HEAD and GET failures are logged only.
5. *Start-up and failure by messages*: references arrive by message; an exception anywhere escalates to the
   end of the engine.
6. *Two programs on one document*: Elm draws at the next animation frame, its ports call JavaScript at once, and
   JavaScript changes nodes that Elm may keep for the next page.
7. *Answers without a name*: a page's model does not say what it was opened for, and the promises of a page
   may outlive what they were about.

## 3 The model

| Module | Models | Extends |
|---|---|---|
| `Mailbox` | Akka's unbounded priority mailbox as a bag (external: modelled from how the code uses it) | |
| `FeedMessages` | the messages of a feed's life, the four mailboxes, `CatalogPriority` | `Mailbox` |
| `CatalogFeeds` | `CatalogStore`'s handlers of feeds, its database calls and their callbacks, database faults | `FeedMessages` |
| `FeedCrawl` | `Updater`, `CrawlerWorker` and `Parser` for feed jobs and OPML files | `FeedMessages` |
| `FeedLifecycle` | the composition with users; all properties | `CatalogFeeds`, `FeedCrawl` |
| `FeedRegistry` | abstract specification: atomic saves of podcasts and feeds | |
| `Patch` | `Patchable` and the two patches of the model classes | |
| `EpisodeCatalog` | what `CatalogStore` makes of a parsed feed: podcast, episodes, titles; all properties | `Mailbox`, `Patch` |
| `EngineActors` | the actor hierarchy: priority mailboxes, references, failure, escalation, stopping, the Node's part in it | `Mailbox` |
| `EngineStartup` | `Node.preStart`, the reports, `InitializationProgress`, the boot poll, `HeminEngine.shutdown` | `EngineActors` |
| `EngineLifecycle` | the composition with the work that runs through an engine while it starts and ends; all properties | `EngineStartup` |
| `AppExit` | `HeminApp`: main thread, shutdown hook, the exit of the virtual machine (external) | |
| `WebPages` | `Main.elm`, `Router.elm` and the pages: route, requests, answers, calls of the ports | |
| `PodloveWidgets` | both functions behind the ports, the custom element, the nodes they work on | |
| `WebApp` | the composition of Elm and JavaScript (`index.js`); all properties | `WebPages`, `PodloveWidgets` |
| `ServiceWorker` | `registerServiceWorker.js` in several tabs, the browser (external), the server | |
| `MailboxTheorems`, `FeedLifecycleTheorems`, `FeedRegistryTheorems`, `EpisodeCatalogTheorems`, `AppExitTheorems`, `WebAppTheorems`, `ServiceWorkerTheorems`, `EngineLifecycleTheorems` | proofs | |
| `MCEpisodeCatalog` | two podcasts, three episodes | `EpisodeCatalog` |
| `MCWebApp` | the routes of a small site | `WebApp` |
| `MCEngineLifecycle` | slices of an engine for TLC | `EngineLifecycle` |
| `MCFeedLifecycle` | two URLs and the instances for TLC | `FeedLifecycle` |

The modules form six models: what the feeds go through when all works (`FeedLifecycle`), what becomes of their
text (`EpisodeCatalog`), what the engine goes through whatever its feeds are (`EngineLifecycle`), the program around
the engine (`AppExit`), the web application in a browser (`WebApp`), and its service worker (`ServiceWorker`).
`FeedLifecycle` and `EpisodeCatalog` meet in `UpdatePodcast`: the first follows the registration, the second the podcast's
title and its episodes, and starts from what the first proves, that a podcast whose feed is parsed is stored.

### 3.1 A feed's life

**State.** `catalogBox`, `updaterBox`, `crawlerBox`, `parserBox` are bags of messages. `feeds` and
`podcasts` are functions from the IDs of the stored documents; a feed keeps `podcastId`, `url` and
`lastStatus`, a podcast keeps `registration.complete`. `calls` is the bag of database calls that were
started and have not been executed. `lastId` stands for `IdGenerator`, of which only the distinctness of
the IDs matters. Timestamps, etags, encodings, feed text and metadata are left out: nothing in this slice
is decided by them.

**Actions.** A handler of the catalog is split exactly where the code goes asynchronous. Receiving a message
(`Receive...`) takes it from the mailbox and starts the first call; each following action executes one call
together with its callback, which may start further calls or send a message:

| Code | Actions |
|---|---|
| `proposeFeed` | `ReceiveProposeNewFeed`, `FindProposedFeed` or `FindKnownFeed`, `CreatePodcast`, `CreateFeed` |
| `onFeedStatusUpdate` | `ReceiveFeedStatusUpdate`, `FindFeedOfStatus`, `SaveFeed` |
| `onUpdateFeedMetadataUrl` | `ReceiveUpdateFeedUrl`, `FindMovedFeeds`, `SaveFeed` for each feed |
| `onCheckPodcast`, `checkFeed` | `ReceiveCheckPodcast`, `FindFeedToCheck` |
| `onUpdatePodcast` | `ReceiveUpdatePodcast`, `FindPodcastToUpdate`, `CompletePodcast` |
| `Updater.receive` | `UpdaterProcessFeed` |
| `CrawlerWorker.headCheck` | `HeadCheckSucceeds`, `HeadCheckWithoutLocation`, `CrawlFails` |
| `CrawlerWorker.fetchContent` | `FetchSucceeds`, `CrawlFails` |
| `Parser.parseFeedData` | `ParseSucceeds`, `ParseFails` |
| `Parser.onParseOpml` | `ParseOpmlFile`, `ParseOpmlFails` |
| `GuardedOperationDispatcher`, `Node.receive` | `Propose`, `ImportOpml`, `RequestCheck` |

Executing a call and running its callback are one step because all a callback does is start other calls and
send messages, and both may be delayed in any case.

**Faults.** A database call fails in one of four ways, each read off `MongoRepository` and the `save` methods:
it has no effect and no callback (`ReadFails`, `WriteFails`), the error becomes an empty list
(`FindFailsAsUnknown`), or the update is applied but the read that confirms it fails
(`WriteIsNotConfirmed`). `MaxFaults` bounds them.

**The web.** `Redirects`, `Unreachable` and `Malformed` say what the servers may do; each answer is a choice
among what they allow, and may differ from one request to the next. That a 301 with a location reaches
`headCheck` at all depends on whether the HTTP library follows redirects by itself (`HttpFetchImpl` puts the requested URL back unless the
status is 301); the model takes the code's word for it, and `NoRedirects` is the instance in which it never happens.

**Bounds**, all named: `MaxProposals` per URL, `MaxChecks`, `MaxFaults`. No queue and no set of calls is
bounded. A user's request uses one up; everything else follows from the requests.

### 3.2 An engine's life

**State.** Each actor has a mailbox `box[a]`, a `status` and its fields of type `ActorRef`, `refs[a]`: a name in it is
a field that is not null. The Node has the default mailbox, a queue; what `Node.preStart` has still to send is
`unsent`, by its places in `References`; `complete` is `InitializationProgress`; `boot` is the thread that constructs the `HeminEngine`.
`lookups` and `parsings` count callbacks that are under way outside of any actor.

| Code | Actions |
|---|---|
| `Node.preStart` | `SendReference`, one per tell |
| `ActorRef...` cases of the components; of `Crawler`; of `CrawlerWorker` | `ComponentReceivesRef`; `CrawlerReceivesRef`; `WorkerReceivesRef` |
| `Crawler.receive`, `reportStartupCompleteIfViable` | `CrawlerCountsWorker`, `CrawlerRoutes`, `ReportIfViable` |
| `Node.receive`, `onTerminated`, `onSystemShutdown` | `NodeCountsReport`, `NodeAnswers`, `NodeForwards`, `NodeTerminates` |
| `supervisorStrategy` of the Crawler and of the Node | `Escalate`, `StopFailed` |
| `HeminEngine.warmup`, `shutdown`, `propose` | `Ask`, `AskTimesOut`, `Shutdown`, `Propose` |
| `proposeFeed`, `ProcessFeed`, `headCheck`, `fetchContent`, `parseFeedData`, `onParseWebsiteData` | `CatalogReceivesProposal`, `FeedIsSaved`, `UpdaterReceivesFeed`, `WorkerChecksHead`, `WorkerFetches`, `ParserReceivesFeed`, `FeedIsParsed`, `ParserReceivesWebsite`: only the references they use and what they send |
| Akka (external) | `FailToStart`, `WorkerStops`, `ComponentStops`, `NodeStopping`, `NodeStopped` |

*A null field.* A tell through it throws. In a handler this fails the actor (`Fail`): it handles nothing more, and its
parent decides. A worker's exception is escalated by the Crawler; the Node's strategy stops the child, whose
`Terminated` makes the Node shut everything down. In a Future's callback only the rest of the callback is lost.

*Priority mailboxes.* `CatalogMailbox`, `ParserMailbox` and `CrawlerMailbox` are the code's `PriorityGenerator`s. Akka
promises no order among equal priorities, and the Java heap behind the mailbox does reorder them, so any of the
smallest may be next. The generators are named in the `defaultMailbox` of each component's configuration object, which `HeminConfig.load` merges;
the actor system is given `akkaConfig` (`HeminEngine.scala:66-71`, `88`), and the mailbox blocks of `application.conf` set no `mailbox-type`. So the
engine as it is shipped seems to run with Akka's default, a queue. The models take the generators as the code states them, as the harder case: with
queues, every reference that `preStart` sends is in its mailbox before the engine is up and so before any work, and the Crawler forwards it
to the workers before it routes a download to them, so `ParserIsReady`, `WorkersAreReady` and `WorkersSurvive` do not need the priorities. `FeedLifecycle`'s
properties follow from the order of database calls, which no mailbox decides; a status may overtake a new URL there too, because the lookups of both are asynchronous.

*A head check.* `HeadCheckEnds` is a check that fails, `HeadCheckWithoutLocation` a 301 that names no location, `HeadCheckSucceeds` the rest. `redirected` is a free
choice, though the code sees another location only after a 301 that the HTTP library has not followed itself.

*Slices.* The constant `Component` names the components that take part. References to the others are treated as set
(`Holds`), and messages to them go nowhere: a run with a slice decides every question that only concerns the slice. Without
a `CatalogStore` the Node hands the Crawler the download that becomes of a proposal. Which worker the router picks
is any worker.

### 3.3 The program around the engine

`AppExit` has two threads, the main one and the hook. `HeminApp.engine` is a lazy val: `UseEngine` enters its
initializer under the monitor of `HeminApp`, `BootSucceeds` sets it, and `BootFails` does what the
initializer's error handler does, which is to use `engine` again: the same thread enters the same initializer once
more, until a boot succeeds (the handler then shuts the engine down) or the stack overflows (`MaxBoots`).
`Register`, `Command`, `Quit`, `ShutdownEngine`, `ShutdownTimesOut` are the statements of `HeminApp`; `Exit`, `Signal`
and `Halt` are the virtual machine's: the first request starts the hook, later ones block, and it halts when the
hook has ended.

### 3.4 The text of a feed

**State.** `podcasts` keeps each podcast's title, standing for all that a patch may change; `episodes` keeps of each document
whose episode it is (`podcastId`, `item`, that is its GUID) and `podcastTitle`, the field that is copied from the podcast.
What a feed may say is `Text[p]`, and any of it may be said at any check; the items of one text are a set, so a feed that lists one GUID twice
is not covered. `indexed` are the episodes that the IndexStore was told of; `aired` the items whose publication date has passed. `latest` and
`disturbed` are history variables that properties look at and no action depends on.

| Code | Actions |
|---|---|
| `Parser.parseFeedData`, `RomeFeedParser.extractEpisode` | `ParseFeedData`: one `UpdatePodcast`, one `RegisterEpisodeIfNew` for each item |
| `onUpdatePodcast` | `onUpdatePodcast` (with its `findOne`), `SavePodcast`, and beside it `updateEpisodeFieldsRelatedToPodcast`, `SaveEpisode` for each episode |
| `onRegisterEpisodeIfNew` | `onRegisterEpisodeIfNew` (with the `findOne` of the podcast), then `FindKnownEpisode`, `FindNewEpisode` or `FindByEnclosure`, then `CreateEpisode` |
| `onUpdateEpisode` | `onUpdateEpisode` |
| `EpisodeMongoRepository.querySafeguard` | `Visible`; `Air` lets the time pass |
| `MongoRepository.findOne`, `findAll`, `save` | `DatabaseFault`: `FindPodcastFails`, `MessageFails`, `FindEpisodeFails`, `CallFails`, `CreateUnconfirmed` |

A handler returns before its first call is executed, and that call may take any time; so the order of the mailbox decides nothing,
and receiving a message and executing its first call are one step, for any waiting message.

Four things the code does are in the model as they are:

* An episode that is found is sent back as `UpdateEpisode` as it was parsed, without an ID. `findOne(None)` is `None`, and the save's
  query is the empty document: MongoDB replaces the first document it comes across, so *some* episode becomes a copy of this one, without
  a podcast. A copy for the propagation of a title that was read before may be saved afterwards and undo it.
* `findOneByEnclosure` returns a list, which the match on `Some` and `None` does not know: an episode without GUID and link is never
  registered (`FindByEnclosure`).
* `findAll` never returns an episode whose date is in the future, or that has none: such an episode looks unknown, and is registered again
  by each check.
* `e.title.get` throws for an episode without title after it was saved: the index never hears of it (`CreateEpisode`).

### 3.5 The web application

**State.** `route` and `page` are `Main.Model`; `pending` the requests that are not answered; `buttonCalls` and `playerCalls` what the ports have
still to pass on. `dirty` says that an animation frame is due. `form` is the model that the drawn search form of the home page or of a search page carries. The document is three nodes: `container` of the subscribe button,
`player`, `description` (the element `rendered-html`), and `buttonData` is the global variable that the button's script reads.

| Code | Actions |
|---|---|
| `Main.updateUrlChanged`, `init` of the pages | `Visit` (`Open`, `Asks`) |
| `Main.update` of an answer, `update` of the pages | `GetAnswer` (`Receive`): a page of another kind drops the answer, a page of its kind takes it, whichever page had asked |
| `Page.Podcast.toPodloveButtonModel`, `Page.Episode.modelToPodlovePlayerModel` | the operators of the same names, handed to the ports |
| `index.js`, `podloveSubscribeButton.js` | `CallButton` (`configurePodloveSubscribeButton`) |
| `index.js`, `podloveWebPlayer.js` | `CallPlayer` (`configurePodloveWebPlayer`) |
| `UpdateModel` of `Page.Home` and `Page.Search`, `onInput` of their search forms | `Type` (`UpdateModel`) |
| `Main.view`, `customElements.js` | `Frame` (`Show`, `Draw`, `SetContent`) |

The search form's `onInput` carries the whole model of the page that was drawn, and `UpdateModel` puts it in place of the open page's. A keystroke between an answer and the frame after it
undoes the answer; one between the opening of a second search and that frame brings the result of the first one back. Both are steps of the model. Elm (external) draws at once after an input
event, so `Type` draws too. `late`, `overtaken` and `writtenBack` are history variables that properties look at and no action depends on: what was pending when the page was opened, the fields whose own
answer came while a late one was still to come, and the fields that a keystroke has set back since.

Answers keep of the data only whose it is and whether the part a view branches on is there. That a call of `podlovePlayer`, which comes from a CDN and is not part of the repository, replaces the content of its element is
an assumption (`PodloveWidgets`), on which `PlayerMatchesPage` rests. Elm's virtual DOM (external) keeps a node that two
views have in common, with all that JavaScript put into it; what matters is that it may be kept.

### 3.6 The service worker

**State.** `pc` is where the code of each tab stands, `jobs` the browser's queue of jobs of the one registration, `active` and `installing` its
workers, `version` and `script` what the server has, `online` the connection.

| Code | Actions |
|---|---|
| `register` | `Load` |
| `checkValidServiceWorker` | `Checked`, `Unregister`, `Reload` |
| `registerValidSW` | `Load` or `Checked` queue the job; `RunJob`, `Install`, `FailInstall` are the browser's |
| the user, the browser | `Visit`, `Close`, `Navigate`: a page comes from the active worker, else from the server |
| the server | `Deploy`, `Connect` |

`registerValidSW` sets `onupdatefound`, whose callbacks only log; the log is left out. A job whose page has gone is still done, but nothing follows it
(`Abandoned`).

## 4 The runs

| Run | Instance | Checks |
|---|---|---|
| `feeds` | URLs `a` and `b` each proposed once, singly or by OPML file; `a` may have moved to `b`, may be unreachable or malformed; one check; one fault | `OrphansAreFaults`, `FeedHasPodcast`, `CrawlsAreStored`, `IInv`, `CompletePodcastWasChecked`, `RegistrationStaysComplete`, `ImplementsRegistry` |
| `liveness` | `a` and `b` proposed once, `a` may move to `b`, one check; no fault, fair | `EventuallySettled`, `ProposalIsAnswered`, `RegistrationsComplete` |
| `engine_work` | `CatalogStore`, Updater, Crawler with one worker, Parser; one proposal as soon as the engine is up; no websites | `ParserIsReady`, `WorkersAreReady`, `WorkersSurvive` |
| `engine_ends` | Crawler with two workers, Parser whose constructor may throw, IndexStore; websites, unknown charsets; one proposal; fair | `TypeOK`, `AllHaveReported`, `ReportsOnce`, `BootEnds`, `EndsAsAWhole` |
| `app_exit` | a REPL with three commands, three nested boots; fair | `TypeOK`, `OneEngine`, `ExitsWithoutEngine`, `SignalShutsDown` |
| `episodes` | feed of `p`, which lists `i`, parsed twice and of `q`, which lists `j` or `h`, once, at any time; `i` is published at some time, `h` has no GUID; one fault; fair | `IInv`, `CopiesAreChecks`, `UnindexedAreFaults`, `TitlesAreRepaired`, `EpisodesKeepIdentity`, `EventuallySettled`, `EpisodesAreRegistered` |
| `web_app` | two podcasts, two episodes, two searches and the pages without ID; the user opens one page, types, goes to another and types; fair | `ShowsItsPage`, `ButtonMatchesPage`, `ButtonIsItsData`, `PlayerMatchesPage`, `DescriptionMatchesPage`, `Settles` |
| `service_worker` | two tabs, four visits, three changes of server or connection, every kind of site; fair | `JobsMatch`, `ComesToRest`, `VisitLeavesAWorker`, `MissingLeavesNoWorker`, `PublicKeepsItsWorker` |
| `duplicates`, `engine_redirect`, `app_terminates`, `metadata` | the smallest instances of section 5 | one property each |

The type invariants of `FeedLifecycle` and `EpisodeCatalog` are conjuncts of their `IInv`; those of `WebApp` and `ServiceWorker` are proved
for all values of the constants, and are not run.

What they show:

* `FeedHasPodcast`, `RegistrationStaysComplete`, `CrawlsAreStored`: the order of the chained saves survives every
  interleaving with other registrations, status updates, moves, checks and one fault of any kind.
* `OrphansAreFaults`: a podcast without a feed exists only while its feed's save is under way, or because a
  database call failed; each fault costs at most one.
* `ImplementsRegistry`: seen from the two collections, the catalog behaves as if every save were atomic and
  nothing else existed.
* `CompletePodcastWasChecked`: when all is quiet, a feed of a complete podcast is not marked as never checked,
  with one exception that the code really has and the property spells out: `FeedStatusUpdate` has a higher
  mailbox priority than the `UpdateFeedUrl` sent before it, so a status that names the new location may find no
  feed.
* `EventuallySettled`: messages do not beget messages forever. `ProposalIsAnswered`, `RegistrationsComplete`: with
  no faults, each proposal ends in a feed, and, where the servers answer and the feeds parse, each registration
  is completed.

* `AllHaveReported`, `ReportsOnce`: the Crawler's report waits for its own supervisor and for all its workers, which may
  come in any order; it is sent exactly once, and the engine is up only after it.
* `WorkersAreReady`, `ParserIsReady`, `WorkersSurvive`: a proposal may be made while references still wait in mailboxes, and may
  overtake some of them; the priorities of the mailboxes and the order in which the Crawler forwards before it
  reports are what keeps workers and Parser from a null reference. `WorkersSurvive` needs `fetchWebsites` off: section 5 says
  why.
* `BootEnds`, `EndsAsAWhole`: if an actor fails at any moment, from its constructor to its last message, or the engine is
  shut down, every actor stops and the system ends; and the thread that boots is not left asking.
* `EpisodesKeepIdentity`: `onUpdateEpisode` may write any known episode, without a podcast, over any document; that is in the model and the property does not deny it. What it says is
  where that ends. A document *belongs* to an item of a podcast if it says so, or if a save of a copy that says so is under way. No document ever comes to belong to anyone it did not belong
  to when it was created: a late copy gives back the same podcast and the same item, and a document with neither podcast nor copy is lost for good. So neither one step nor several turn it into the
  document of another podcast, or of another item of the same one.
* `CopiesAreChecks`: an episode may be stored more than once, by overlapping checks or because it cannot be found; a check adds at most one.
* `UnindexedAreFaults`: nothing but a fault, one for each, hides a stored episode with a title from the index, and the index is told of nothing
  that is not stored.
* `TitlesAreRepaired`: episodes of a first check may be stored without a title, because the podcast's title is being saved at that time; a later
  check that overlaps with nothing gives every visible episode the podcast's title.
* `EpisodesAreRegistered`: every item with a GUID that is reported gets into the catalog, unless the database fails.
  `EventuallySettled`: the catalog's messages to itself end.
* `ShowsItsPage`: a page's messages do not say what they answer, so answers that an earlier page of its kind asked for and had not got get in; no others do, except by `UpdateModel`. And the page
  recovers: once a field's own answer is there, it shows that one or its failure, however many late ones came before. Two exceptions remain, both of them steps of the code that the histories name exactly: a
  late answer that comes after the page's own (`overtaken`), and a keystroke before the page was drawn (`writtenBack`).
* `ButtonMatchesPage`, `PlayerMatchesPage`, `DescriptionMatchesPage`: once the calls are passed on, the widgets show what the page shows,
  also in nodes that an earlier page has left behind. A button may be empty: `Page.Podcast.update` drops the command that the answer about feeds
  builds, so feeds that come after the podcast leave the container as it is. For the same reason its feeds may be another podcast's, if they came late, before this podcast's answer, and the page's own feeds came after
  it: the property allows the page's own feeds and those that were pending when it was opened and have come, and no others. `ButtonIsItsData`: a container has one script, and the global variable it will read is
  the one it was added for.
* `Settles`: every part of a page gets its answer or a failure, unless a keystroke took it back before it was drawn (nothing asks again), and the document shows what the page holds.
* `VisitLeavesAWorker`, `MissingLeavesNoWorker`: the last visit decides, whatever a tab that waits since an earlier version does, as long as no tab is closed after it: `fresh` starts anew
  with every change and whenever a tab is closed, so what a tab leaves behind that is closed between its `unregister` and its reload is not judged until the next visit. `JobsMatch`: promises
  of a page that has gone do not act on the page that came instead. `ComesToRest`: no tab is reloaded for ever; a tab that misses the
  script while there is no worker waits for `serviceWorker.ready`, which is where it rests. `PublicKeepsItsWorker`: only localhost unregisters.
* `OneEngine`, `ExitsWithoutEngine`, `SignalShutsDown`: whichever thread needs the engine first, one comes up, it is not left
  running by a thread that exits, and a signal that comes early finds it.

*Why the bounds suffice.* The handlers of feeds interact through documents of one URL and one podcast. In `feeds` two
registrations meet where `a` moves to `b`'s URL, and a check is a second crawl of a feed beside its first one; two proposals of one
URL are in `duplicates` and, as nothing but IDs is shared between registrations, in the proofs. One fault meets every call of every handler; the proofs
cover any number. In the engine, the Crawler's count is about "some but not all workers", for which two suffice;
a proposal's way through the engine depends on who has which reference, which no second proposal changes. In
`app_exit` two nested boots differ from one, and a third adds nothing; the proofs cover any depth.
An episode's document is touched by two checks of its own feed and, by updates without ID, by other items: `episodes` stores two items of two podcasts, the update of
one is written over the other, and an item is unknown, visible or hidden within one run. That two feeds list the same GUID is left to the proofs. In `web_app` whatever goes wrong needs one page that leaves something behind and one that
finds it; the proofs cover any number of visits, pages and IDs. In `service_worker` one tab waits or unregisters while another registers, and three
changes take the script away, bring it back and cut the connection once; the safety proofs cover any number.

*Fairness.* `WF` of the catalog's receiving, of the database's replies, of the Updater, of the Crawler's workers and
of the Parser: the dispatchers run every actor with a non-empty mailbox and every completed Future's callback,
the database driver completes every call, and the fetcher has a read timeout. Strong fairness is
not assumed, users are not assumed to do anything, and nothing is assumed of the order among waiting messages.
In `engine_ends`, likewise, each actor, the Node, the Futures, the timer of an ask, and Akka's decisions
about failed and stopping actors; no constructor need fail and nobody need call the engine. The timer is needed for
`BootEnds`: an actor system that has ended answers no ask. In `app_exit`, each thread and the machine's halt, but
no signal and no input. In `episodes`, only that the catalog's receiving or the database's replies go on while either has something to do. In `web_app`, the browser answers or gives
up each request, passes on the calls of ports and draws the frames it was asked for; nobody need type. In `service_worker`, the code of each tab and the browser's jobs run; users, server and
connection do what they like.

*Deadlock* is not checked: when users are quiet and everything is handled the engine, or the browser, has nothing to do, and an engine or
a machine that has ended stays so.

## 5 What the runs refute

| Run | Property | What happens |
|---|---|---|
| `duplicates` | `OneFeedPerUrl` | Two proposals of one URL are received, both lookups return nothing, both are registered. `HeminEngine.propose` promises to process a URL only "if the URL is yet unknown to the database". No fault is needed. |
| `engine_redirect` | `RedirectsAreFollowed` | With `fetchWebsites` on, a worker that finds a website moved tells the IndexStore through a field that no message ever sets. The exception stops the worker, the Crawler, and the engine. It takes a 301 that the HTTP library has not followed itself, and `fetchWebsites`, which is off by default. |
| `app_terminates` | `ExitTerminates` | The hook's `shutdown` calls `System.exit`, which blocks while the hooks run; the machine waits for the hook, and never halts. |
| `metadata` | `MetadataFollowsFeed` | `onUpdatePodcast` saves `podcast.patchRight(p)`: whatever is stored wins over what was just parsed, so a feed that changes its title keeps the old one. `Parser.parseFeedData` says "we always update a podcasts metadata, this likely may have changed". `FirstTitleStays` proves it for every feed. |

Three more comments promise what a step of the model undoes; the models have those steps, and no property asks for more than the code gives:

* `Parser.parseFeedData` wants "to persist the information that this feed stinks". The worker sends the data to the Parser and then `DownloadSuccess` to
  the catalog (`CrawlerWorker.fetchContent`); the Parser sends `ParserError`. Nothing orders the two, and the save of `DownloadSuccess` may be the last.
* `CrawlerWorker.headCheck` promises that the catalog "will use the new location starting with the next update cycle". A status update reads the feed, the
  new URL is saved, the status update saves the document it read (`onFeedStatusUpdate`), and the feed has its old URL.
* `HeminEngine` promises to "wait until all subsystems in the actor hierarchy report that they are up and running". A component reports when it learns
  of its supervisor, which it may do before it handles the other references (`Node.preStart`).

## 6 The proofs

Every safety invariant and every action property that a passing run checks is a theorem.

`MailboxTheorems` proves, from the definitions of bags, how `Post`, `PostAll` and `Take` change the set of waiting messages,
the number of copies of each (`CopiesOf`), and a bound on how many of a kind there are (`AtMost`). `FeedLifecycleTheorems` proves,
for every set of URLs, every behaviour of the web and every value of the bounds:

* `TypeCorrect`: `Spec => []TypeOK`
* `Inductive`: `Spec => []IInv`
* `FeedsHavePodcasts`, `CrawlsAreOfStoredFeeds`: the two safety properties that `IInv` contains

and `FeedRegistryTheorems`:

* `CompleteForGood`: `Spec => RegistrationStaysComplete`
* `Refinement`: `Spec => ImplementsRegistry`
* `OrphansNeedFaults`: `Spec => []OrphansAreFaults`
* `CompleteMeansChecked`: `Spec => []CompletePodcastWasChecked`

and `EpisodeCatalogTheorems`, for any podcasts, items and texts, and any number of checks and faults:

* `EpisodeTypes`: `Spec => []TypeOK`
* `EpisodesInductive`: `Spec => []IInv`
* `EpisodesStayThemselves`: `Spec => EpisodesKeepIdentity`
* `FaultsHideEpisodes`: `Spec => []UnindexedAreFaults`
* `ChecksBoundCopies`: `Spec => []CopiesAreChecks`
* `ChecksRepairTitles`: `Spec => []TitlesAreRepaired`
* `FirstTitleStays`: where every text has a title, checks do not overlap and no call fails, no step changes the title a podcast has when its feed is parsed for the second time

and `EngineLifecycleTheorems`, for any slice of the components, any number of workers and proposals, and whatever fails or is
stopped in between:

* `EngineTypes`: `Spec => []TypeOK`
* `UpMeansAllReported`: `Spec => []AllHaveReported`
* `NobodyReportsTwice`: `Spec => []ReportsOnce`
* `FuturesFindTheirActors`: `Spec => []ParserIsReady`
* `WorkersFindTheirActors`: `Spec => []WorkersAreReady`
* `DownloadsAreHarmless`: `Spec => []WorkersSurvive`, where `FetchWebsites` and `UnknownCharset` are off

and `WebAppTheorems`, for any routes and IDs and any number of visits:

* `WebAppTypes`: `Spec => []TypeOK`
* `PagesShowTheirOwn`: `Spec => []ShowsItsPage`
* `KeystrokesKeepTheDrawn`: `Spec => [][Type => dirty]_vars`, a keystroke takes nothing back that has been drawn
* `ButtonsMatch`: `Spec => []ButtonMatchesPage`
* `ButtonsReadTheirData`: `Spec => []ButtonIsItsData`
* `EpisodesMatch`: `Spec => []PlayerMatchesPage`
* `DescriptionsMatch`: `Spec => []DescriptionMatchesPage`

and `ServiceWorkerTheorems`, for any tabs and any number of visits and changes:

* `WorkerTypes`: `Spec => []TypeOK`
* `CallbacksMeetTheirPage`: `Spec => []JobsMatch`
* `PublicWorkerStays`: `Spec => PublicKeepsItsWorker`

and `AppExitTheorems`, for every depth of nested boots and any number of commands, with or without a REPL:

* `TypeCorrect`: `Spec => []TypeOK`, by `Inductive`: `Spec => []IInv`
* `BootsOneEngine`: `Spec => []OneEngine`
* `ExitComesAfterShutdown`: `Spec => []ExitsWithoutEngine`

*Assumptions*: `FaultsAssumption`, `RequestsAssumption`, `AppAssumption`, `CatalogAssumption`, `ActorsAssumption`, `WorkAssumption`, `WorkerAssumption` and the
two `WebAssumption`s (of `FeedCrawl` and of `WebPages`), which say that the constants have their types, and `DataAssumption` and `NothingAssumption`, by which
what stands for "not there" is no other value. TLC evaluates them on every run.

*The argument for feeds.* `FeedHasPodcast` is not inductive: a save that is under way may store a feed whose podcast is not
there, unless we know what calls can be under way. `IInv` adds

* `CreatingIsFresh`: the IDs of a registration under way were given out to it alone; its podcast is stored
  exactly from the moment its feed is about to be saved, is not complete yet, and its feed is not stored;
* `StoredIdsAreUsed`: every stored ID was given out, and a feed's ID fixes its podcast's (the two are drawn
  together), so no second feed of a podcast can appear;
* `CallsAreStored`: a document that was read and is about to be saved is a stored one, with the same podcast; a
  call that completes a podcast is about one that is stored with its feed;
* `CrawlsAreStored`: and so is every message of a crawl.

The proof has one step per action of `Next`. Steps that only read or pass on messages are covered by frame lemmas
(`ContinueFrame`, `MessagesFrame`, `StoredFrame`); the creating calls (`IInvStartRegistration`, `IInvCreatePodcast`,
`IInvWriteFeed`, `IInvCompletePodcast`) carry the weight, and are shared by the saves that succeed and those that
are applied but not confirmed. The refinement follows from `OnlySaves` (nothing but a save changes what is
stored) and `CreatesOnce` (what `IInv` says of a creating call): a save that creates maps to a registration, any other
to a change or a completion, and every other step stutters.

*Orphans.* `OrphansAreFaults` counts, so it is proved by what a step does to the *set* of orphans. Whatever becomes of a call, only the one podcast it
creates, or creates the feed of, can become an orphan (`AtRisk`, `CallOrphans`). A call that is confirmed leaves not even that (`ReplyOrphans`): a podcast that is
saved has the call for its feed, a feed that is saved has its podcast. So a step without a fault adds no orphan, and a fault adds one at most.

*Checked feeds.* `CompletePodcastWasChecked` speaks of quiet states, and what it says is decided long before. The strengthening `FetchesAreTold` holds in
every state without a fault: a feed is marked (it has the status of a check, or the location of a redirect), or something that will mark it is on its way (`Told`: a
message that names its URL, the call it starts, the save that follows), or nobody has fetched it (`Unfetched`: no message and no call on the way to completing
the podcast is about it, and whoever is about to fetch it has its present URL). Each save of a document that was read is of a marked one, so no save takes a mark back; a lookup by URL finds
the feed because an unmarked feed still has the URL that was told. When all is quiet nothing is on its way, and the podcast of an unfetched feed is not complete.

*The argument for episodes.* A document that is about to be saved may be older than the one that is stored; what it says of the episode's identity must
agree all the same. `SavesAgree` says that the copies for one ID agree with one another and with the stored document, unless that has lost
its podcast; the first part is what lets a late copy give the podcast back. Copies come from stored documents with a podcast, and a new document has an ID that
no copy has: `StoredIdsAreUsed` and `CreatingIsFresh` say that an episode to be created is the only one of its ID, and not stored yet. `TypeOK` carries the rest: what is
parsed names no podcast, so an update without ID can take a podcast from a document and never give it another.

*Whose a document is.* The podcast of a document may go and come back, so what is stored does not say alone whose it is: a document *or a copy of it that is about to be saved* says it
(`Belongs`). `NobodyNew` holds of every step but the creation of an episode, which is stored under an ID that no document and no copy has; `EpisodesKeepIdentity` is what that means for one document.

*Counting episodes.* For the same reason unindexed documents and copies of an episode are counted by whom documents belong to.
For `UnindexedAreFaults` it remains that a creation tells the index unless it fails. For `CopiesAreChecks` each check pays for one copy, which goes from message to
lookup, from lookup to creation, from creation to document (`ChecksPay`): equal messages and calls wait more than once, so they are counted with their copies.

*Titles.* (`ChecksRepairTitles`, `FirstTitleStays`.) In the case that `TitlesAreRepaired` speaks of, a check starts when nothing is under way, and finds the title of the first check stored (`TitleComes`). From
then on no call carries another title of that podcast, because what is stored wins over what is parsed; and once the propagation has read the episodes, each of them
that the query finds has the title, or a save of it with that title is under way (`RepairUnderWay`). An update without ID takes the podcast from a document, and a save gives it back together
with the title.

*The argument for the engine.* `IInv` is `TypeOK`, `StartupInv` and `WorkInv`.

* `SupervisorOnce`: the reference to an actor's supervisor is in one place only, still to be sent, in the mailbox, or known. `WorkersCounted`: the workers' reports, counted or
  waiting, are no more than the workers that know their supervisor. `ReportsAreTrue`: who has reported, to the Node or to its queue, knows its supervisor, and the
  Crawler has counted all workers. They carry `ReportsOnce`: the Crawler reports in the later of two handlers, the one that learns of its
  supervisor and the one that counts its last worker, and neither event happens twice.
* `RefsArrive`, `RefsAreForwarded`: what `preStart` has sent to a component that runs, and what the Crawler has forwarded to a worker that runs, waits or is known.
* `BootIsComplete`, `WorkFollowsBoot`: there is no work before the engine is up, and it is up only when `preStart` has sent everything and every component has reported.
* `DownloadsAreRouted`: a worker has a download only after the Crawler has learned of the Parser and the CatalogStore, for `CrawlerMailbox` had it handle them first;
  it has forwarded both, and the worker's own mailbox puts them before the download. `ParserIsReady` is the same argument with `ParserMailbox`.

*The argument for the web application.* What a widget shows is decided by the last call that was made for it, and that call may still be under way. So the
strengthening speaks of the last entry of a port's queue, or, when there is none, of the node: `LastCallSaysPodcast`, `LastCallIsEpisode`. Any answer that changes
the page's podcast or episode makes such a call in the same step. `PendingIsOwnOrLate` says whose answers may still come and that late ones are of earlier visits, `AnsweredInOrder` that a field whose own
answer is there and was not overtaken has none to wait for, and `OtherFieldsEmpty` that a page and a form hold nothing of other kinds; together they carry `ShowsItsPage`. `FormIsDrawn` says that without a frame due the form has
the page itself, so that a keystroke changes nothing.
`ElementShowsContent` says that the custom element's shortcut, to compare with the value it remembers, loses nothing. The proof's lemmas on sequences say what
`Append` and `Tail` do to a last entry.

*The argument for the service worker.* `JobsMatch` needs that a page which goes elsewhere leaves its jobs without a tab (`Abandoned`) and that a tab queues
a job only where it waits for none. `PublicKeepsItsWorker` follows from `OnlyLocalhostChecks`: away from localhost no tab gets to `checking`, so there is no job
that unregisters.

*The argument for the program.* `OneEngine` is not inductive: two threads in the initializer would bring up two. `Monitor`
says that at most one thread is in it, that none is once the engine has its value, and that whoever has got past
`engine` has found a value; `Counted` that `booted` counts exactly the value. `ExitsWithoutEngine` follows because a
thread that exits has set `engineUp` to false, and nobody can bring an engine up after that.

*Only model-checked*: the liveness properties, `EventuallySettled`, `ProposalIsAnswered`, `RegistrationsComplete`, `EpisodesAreRegistered`, `BootEnds`, `EndsAsAWhole`,
`SignalShutsDown`, `Settles`, `ComesToRest`, `VisitLeavesAWorker` and `MissingLeavesNoWorker`: temporal reasoning about fairness and ENABLED is beyond the prover.
The four refutations of section 5 are TLC's.

## 7 What is not modelled

Left out of the slice above, because it does not touch feeds or registrations: a podcast's metadata,
images, index and graph messages of `onUpdatePodcast` and `parseFeedData`; website and image jobs; messages
no part of the repository sends (`CheckFeed`, `CheckAllFeeds`, `CrawlFyyd`, `LoadFyydEpisodes`, the Updater's
`ProposeNewFeed`). `FeedLifecycle` begins when the engine is operational, with an empty database, and no actor of it
fails.

`EngineLifecycle` leaves out requests other than proposals, image jobs, OPML files, and the messages of an operational
engine to the IndexStore, the GraphStore, the Searcher and the command line interpreter. `UnknownCharset` is the one exception other
than a null reference that it gives a worker. A worker that ends while its Crawler runs does not occur: every exception
of a worker is escalated, so the Crawler's `Terminated` case, which stops the Crawler, is not reached. `AppExit` does not
say what the engine does between boot and shutdown.

`EpisodeCatalog` leaves out images and links (`UpdateLinkById` is sent by website jobs only, and with them a worker fails first: `engine_redirect`), chapters, the
messages to the GraphStore, and every field of a podcast but one: the patch treats all alike. It begins with registered podcasts.

`WebApp` leaves out the form of `Page/Propose`, the layout, and the texts. `ServiceWorker` leaves out `unregister`, which nothing calls.

*Dropping the database.* With `create-database`, which is on by default, `CatalogStore` drops its collections by four calls nobody waits for. Both models of the catalog
begin after them; nothing but the time the boot takes orders them before the first proposals.

Components that are not modelled:

* Images: `store-images` is off by default, and nothing but the handlers of images reads them. Two images of one URL that arrive at once would both be stored as new.
* Queries, the Searcher, the REST API: they read and pass on. `(pageNumber-1) * pageSize` is an `Int` product, which a large page number overflows.
* `GuardedOperationDispatcher`'s circuit breaker: it is Akka's. `checkPodcast` asks what the catalog never answers, so every call of it counts as a failure of the one
  breaker that guards all operations.
* `GraphStore`: one Cypher statement for each message, in sessions of their own; a relationship that is created before its nodes is lost.
* `IndexStore`, `ExecutorServiceWrapper`: calls of Solr's client, which is handed the wrapper.
* The command line interpreter: it parses, asks the dispatcher and prints; its wait is bounded.
* Fetcher, feed and OPML parsers, mappers, configuration, BSON conversion: conversions and libraries without state.
* Swagger UI in `src/api/public`: vendored.

## 8 What is left

1. The initial drops of the collections in `FeedLifecycle`, with the properties that hold once they are done.
2. Towards `EventuallySettled`, the part that needs no fairness: a measure of the messages and calls that every step but a user's request makes smaller.
