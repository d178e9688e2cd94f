-------------------------- MODULE EngineLifecycle ---------------------------
(***************************************************************************)
(* An engine from its boot to its end, with the work that passes through   *)
(* it while its actors learn of one another, fail and are stopped.  What   *)
(* the work does to the database is the subject of FeedLifecycle; here a   *)
(* handler is the references it needs and the messages it sends.           *)
(*                                                                         *)
(* A tell through a field that is still null throws.  In a handler that is *)
(* the failure of the actor; in the callback of a Future only the rest of  *)
(* the callback is lost.                                                   *)
(***************************************************************************)
EXTENDS EngineStartup

CONSTANTS
    FetchWebsites,    \* CrawlerConfig.fetchWebsites
    UnknownCharset,   \* may a server name a charset the JVM does not know?
    MaxProposals

ASSUME WorkAssumption ==
    /\ FetchWebsites \in BOOLEAN
    /\ UnknownCharset \in BOOLEAN
    /\ MaxProposals \in Nat

VARIABLES
    proposals,   \* proposals that users may still make
    lookups,     \* proposals the CatalogStore has passed on to the database
    parsings     \* feeds the Parser has passed on to a Future

work == <<proposals, lookups, parsings>>

vars == <<box, status, refs, nodeBox, nodeStatus, unsent, workerReports,
          complete, boot, proposals, lookups, parsings>>

TypeOK ==
    /\ ActorsOK
    /\ StartupOK
    /\ proposals \in Nat
    /\ lookups \in Nat
    /\ parsings \in Nat

Init ==
    /\ ActorsInit
    /\ StartupInit
    /\ proposals = MaxProposals
    /\ lookups = 0
    /\ parsings = 0

-----------------------------------------------------------------------------
(***************************************************************************)
(* The messages of the work                                                *)
(***************************************************************************)
ProposeNewFeed == [type |-> "ProposeNewFeed"]

ProcessFeed == [type |-> "ProcessFeed"]

DownloadWithHeadCheck(job) == [type |-> "DownloadWithHeadCheck", job |-> job]

DownloadContent(job) == [type |-> "DownloadContent", job |-> job]

ParseData(job) ==
    [type |-> IF job = "feed" THEN "ParseNewPodcastData"
              ELSE "ParseWebsiteData"]

-----------------------------------------------------------------------------
\* HeminEngine.propose, which ifRunning lets through.
Propose ==
    /\ boot = "up"
    /\ proposals > 0
    /\ proposals' = proposals - 1
    /\ Tell(ProposeNewFeed)
    /\ UNCHANGED <<box, status, refs, nodeStatus, lookups, parsings>>
    /\ UNCHANGED startup

\* Node.receive, CatalogMessage.  Without a CatalogStore in the model the
\* Crawler is sent the download that becomes of the proposal.
NodeForwards ==
    /\ NodeReceives("ProposeNewFeed")
    /\ nodeBox' = Tail(nodeBox)
    /\ Send({IF "catalog" \in Component
             THEN Envelope("catalog", ProposeNewFeed)
             ELSE Envelope("crawler", DownloadWithHeadCheck("feed"))})
    /\ UNCHANGED <<status, refs, nodeStatus>>
    /\ UNCHANGED startup
    /\ UNCHANGED work

-----------------------------------------------------------------------------
(***************************************************************************)
(* CatalogStore.proposeFeed: the lookup, the two saves and the tell at the *)
(* end of their callbacks, on whatever thread the database answers.        *)
(***************************************************************************)
CatalogReceivesProposal ==
    /\ ProposeNewFeed \in Incoming("catalog")
    /\ Handle("catalog", ProposeNewFeed, {})
    /\ lookups' = lookups + 1
    /\ UNCHANGED <<status, refs, nodeBox, nodeStatus, proposals, parsings>>
    /\ UNCHANGED startup

\* The URL is known already, or the database fails.
ProposalEnds ==
    /\ lookups > 0
    /\ lookups' = lookups - 1
    /\ UNCHANGED actors
    /\ UNCHANGED startup
    /\ UNCHANGED <<proposals, parsings>>

FeedIsSaved ==
    /\ lookups > 0
    /\ lookups' = lookups - 1
    /\ Send(IF Holds("catalog", "updater")
            THEN {Envelope("updater", ProcessFeed)} ELSE {})
    /\ UNCHANGED <<status, refs, nodeBox, nodeStatus, proposals, parsings>>
    /\ UNCHANGED startup

-----------------------------------------------------------------------------
\* Updater.receive, ProcessFeed
UpdaterReceivesFeed ==
    /\ ProcessFeed \in Incoming("updater")
    /\ \/ /\ Holds("updater", "crawler")
          /\ Handle("updater", ProcessFeed,
                    {Envelope("crawler", DownloadWithHeadCheck("feed"))})
          /\ UNCHANGED status
       \/ ~Holds("updater", "crawler") /\ Fail("updater")
    /\ UNCHANGED <<refs, nodeBox, nodeStatus>>
    /\ UNCHANGED startup
    /\ UNCHANGED work

\* Crawler.receive, the last case: one worker gets it, and whose turn it is
\* does not matter here.
CrawlerRoutes ==
    /\ \E job \in Job, w \in Worker :
        /\ DownloadWithHeadCheck(job) \in Incoming("crawler")
        /\ Handle("crawler", DownloadWithHeadCheck(job),
                  {Envelope(w, DownloadWithHeadCheck(job))})
    /\ UNCHANGED <<status, refs, nodeBox, nodeStatus>>
    /\ UNCHANGED startup
    /\ UNCHANGED work

-----------------------------------------------------------------------------
(***************************************************************************)
(* The workers.  What they tell the CatalogStore has no part here, but     *)
(* the tell needs the reference.                                           *)
(***************************************************************************)
CatalogIsTold(w) == Holds(w, "catalog")

\* The check fails, or the job is a website and websites are not fetched.
HeadCheckEnds(w, job) ==
    Handle(w, DownloadWithHeadCheck(job), {}) /\ UNCHANGED status

\* A 301 that names no location ends the check, which the CatalogStore is told
\* (sendErrorNotificationIfFeasable) unless the job is a website.
HeadCheckWithoutLocation(w, job) ==
    IF job = "feed" /\ ~CatalogIsTold(w)
    THEN Fail(w)
    ELSE HeadCheckEnds(w, job)

\* CrawlerWorker.headCheck, Success; redirected if the href is another URL,
\* which takes a 301 that the HTTP library has not followed itself.
\* A website that has moved is told to the IndexStore as well, by a field
\* that no message to a worker ever sets.
HeadCheckSucceeds(w, job, redirected) ==
    IF redirected /\ ~(CatalogIsTold(w) /\ (job = "website" => "index" \in refs[w]))
    THEN Fail(w)
    ELSE /\ Handle(w, DownloadWithHeadCheck(job),
                   {Envelope(w, DownloadContent(job))})
         /\ UNCHANGED status

\* Mutant: fetchWebsites is not consulted.
WorkerChecksEveryHead(w) ==
    /\ \E job \in Job :
        /\ DownloadWithHeadCheck(job) \in Incoming(w)
        /\ \/ HeadCheckEnds(w, job)
           \/ HeadCheckWithoutLocation(w, job)
           \/ \E redirected \in BOOLEAN : HeadCheckSucceeds(w, job, redirected)
    /\ UNCHANGED <<refs, nodeBox, nodeStatus>>
    /\ UNCHANGED startup
    /\ UNCHANGED work

\* CrawlerWorker.receive, DownloadWithHeadCheck
WorkerChecksHead(w) ==
    /\ \E job \in Job :
        /\ DownloadWithHeadCheck(job) \in Incoming(w)
        /\ \/ HeadCheckEnds(w, job)
           \/ /\ job = "website" => FetchWebsites
              /\ \/ HeadCheckWithoutLocation(w, job)
                 \/ \E redirected \in BOOLEAN :
                        HeadCheckSucceeds(w, job, redirected)
    /\ UNCHANGED <<refs, nodeBox, nodeStatus>>
    /\ UNCHANGED startup
    /\ UNCHANGED work

\* CrawlerWorker.fetchContent; asString throws if the charset is unknown.
FetchSucceeds(w, job) ==
    IF Holds(w, "parser") /\ (job = "feed" => CatalogIsTold(w))
    THEN /\ Handle(w, DownloadContent(job), {Envelope("parser", ParseData(job))})
         /\ UNCHANGED status
    ELSE Fail(w)

WorkerFetches(w) ==
    /\ \E job \in Job :
        /\ DownloadContent(job) \in Incoming(w)
        /\ \/ Handle(w, DownloadContent(job), {}) /\ UNCHANGED status
           \/ FetchSucceeds(w, job)
           \/ UnknownCharset /\ Fail(w)
    /\ UNCHANGED <<refs, nodeBox, nodeStatus>>
    /\ UNCHANGED startup
    /\ UNCHANGED work

-----------------------------------------------------------------------------
\* Parser.onParseNewPodcastData: the feed is parsed in a Future.
ParserReceivesFeed ==
    /\ ParseData("feed") \in Incoming("parser")
    /\ Handle("parser", ParseData("feed"), {})
    /\ parsings' = parsings + 1
    /\ UNCHANGED <<status, refs, nodeBox, nodeStatus, proposals, lookups>>
    /\ UNCHANGED startup

\* Parser.parseFeedData: the podcast goes to the index first, and its website,
\* if it has one, is crawled.
FeedIsParsed ==
    /\ parsings > 0
    /\ parsings' = parsings - 1
    /\ \/ UNCHANGED box
       \/ /\ Holds("parser", "index")
          /\ Holds("parser", "crawler")
          /\ Send({Envelope("crawler", DownloadWithHeadCheck("website"))})
    /\ UNCHANGED <<status, refs, nodeBox, nodeStatus, proposals, lookups>>
    /\ UNCHANGED startup

\* Parser.onParseWebsiteData
ParserReceivesWebsite ==
    /\ ParseData("website") \in Incoming("parser")
    /\ \/ /\ Holds("parser", "index")
          /\ Handle("parser", ParseData("website"), {})
          /\ UNCHANGED status
       \/ ~Holds("parser", "index") /\ Fail("parser")
    /\ UNCHANGED <<refs, nodeBox, nodeStatus>>
    /\ UNCHANGED startup
    /\ UNCHANGED work

-----------------------------------------------------------------------------
\* What actor a may do with the messages it has.
Receive(a) ==
    \/ StartupReceive(a) /\ UNCHANGED work
    \/ a = "catalog" /\ CatalogReceivesProposal
    \/ a = "updater" /\ UpdaterReceivesFeed
    \/ a = "crawler" /\ CrawlerRoutes
    \/ a = "parser" /\ (ParserReceivesFeed \/ ParserReceivesWebsite)
    \/ a \in Worker /\ (WorkerChecksHead(a) \/ WorkerFetches(a))

NodeReceive == (NodeStartupReceive /\ UNCHANGED work) \/ NodeForwards

DatabaseAnswers == ProposalEnds \/ FeedIsSaved

BootStep == (SendReference \/ Ask) /\ UNCHANGED work

GiveUp == AskTimesOut /\ UNCHANGED work

Supervise == Supervision /\ UNCHANGED startup /\ UNCHANGED work

EngineCall == Propose \/ (Shutdown /\ UNCHANGED work)

Next ==
    \/ \E a \in Actor : Receive(a)
    \/ NodeReceive
    \/ DatabaseAnswers
    \/ FeedIsParsed
    \/ BootStep
    \/ GiveUp
    \/ Supervise
    \/ EngineCall

Spec == Init /\ [][Next]_vars

(***************************************************************************)
(* Every actor runs while it has messages, Akka decides every failure and  *)
(* completes every stop, Futures run, and the timer of an ask fires.  No   *)
(* constructor need fail, and nobody need call the engine.                 *)
(***************************************************************************)
Stopping ==
    /\ \/ \E w \in Worker : Escalate(w) \/ WorkerStops(w)
       \/ \E c \in Component : StopFailed(c) \/ ComponentStops(c)
       \/ NodeStopping \/ NodeStopped
    /\ UNCHANGED startup
    /\ UNCHANGED work

Fairness ==
    /\ \A a \in Actor : WF_vars(Receive(a))
    /\ WF_vars(NodeReceive)
    /\ WF_vars(DatabaseAnswers)
    /\ WF_vars(FeedIsParsed)
    /\ WF_vars(BootStep)
    /\ WF_vars(GiveUp)
    /\ WF_vars(Stopping)

FairSpec == Spec /\ Fairness

-----------------------------------------------------------------------------
(***************************************************************************)
(* Safety                                                                  *)
(***************************************************************************)
\* "wait until all subsystems in the actor hierarchy report that they are up
\* and running" (HeminEngine.bootSequence): the engine comes up only after
\* every component and every worker has learned of its supervisor, whatever
\* the order in which the Crawler learns of its own and its workers report.
AllHaveReported ==
    boot = "up" => \A a \in Actor : "supervisor" \in refs[a]

\* No component reports twice (InitializationProgress.signalCompletion, "is
\* already completed"): the Crawler, whose report waits for two different
\* events, is the one that might.
Reports == {i \in DOMAIN nodeBox : nodeBox[i].type = "ReportInitializationComplete"}

ReportsOnce ==
    /\ \A i \in Reports : nodeBox[i].from \notin complete
    /\ \A i, j \in Reports : nodeBox[i].from = nodeBox[j].from => i = j

\* A worker never throws for want of the Parser or the CatalogStore: when it
\* comes to a download it has been told of both, because the Crawler forwards
\* them before it reports and CrawlerMailbox puts them before downloads.
WorkersAreReady ==
    \A w \in Worker :
        (\E m \in Incoming(w) : m.type \in {"DownloadWithHeadCheck", "DownloadContent"})
            => Holds(w, "parser") /\ Holds(w, "catalog")

\* The same of the Parser's Futures, which tell the Crawler and the
\* CatalogStore: ParserMailbox puts both before any feed.
ParserIsReady ==
    parsings > 0 => Holds("parser", "crawler") /\ Holds("parser", "catalog")

\* If websites are not fetched and every charset is known, no download brings
\* the Crawler down (CrawlerWorker.headCheck and fetchContent).
WorkersSurvive == \A w \in Worker : status[w] # "failed"

\* "if the link in the feed is redirected [...] we set our records to the new
\* location" (CrawlerWorker.headCheck): a website that has moved is no reason
\* for a worker to fail.
RedirectsAreFollowed ==
    [][\A w \in Worker :
            status[w] = "running" /\ status'[w] = "failed"
                => DownloadWithHeadCheck("website") \notin Incoming(w)]_status

-----------------------------------------------------------------------------
(***************************************************************************)
(* Liveness                                                                *)
(***************************************************************************)
\* The constructor of HeminEngine ends (warmup): it does not ask forever.
BootEnds == <>(boot \in {"up", "failed", "down"})

Ended ==
    /\ nodeStatus = "stopped"
    /\ \A a \in Actor : status[a] = "stopped"

\* An engine never lives on in part (Crawler.supervisorStrategy,
\* Node.supervisorStrategy, onTerminated): when an actor has failed, or the
\* engine is shut down, every actor stops and the system ends.
EndsAsAWhole ==
    (boot = "down" \/ \E a \in Actor : status[a] # "running") ~> Ended
=============================================================================
