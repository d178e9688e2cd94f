----------------------------- MODULE FeedCrawl ------------------------------
(***************************************************************************)
(* Updater, Crawler and Parser for the jobs that fetch a feed.             *)
(*                                                                         *)
(* The Crawler hands its messages to a pool of workers round robin, and a  *)
(* worker sends DownloadContent to itself.  The workers run side by side   *)
(* and all feed messages have the same priority: the workers' mailboxes    *)
(* are one bag, from which any message may be the next.                    *)
(*                                                                         *)
(* What a server answers is up to the server.  The three constants say     *)
(* which URLs may do more than deliver a well-formed feed.                 *)
(***************************************************************************)
EXTENDS FeedMessages

CONSTANTS
    Redirects,     \* [Url -> SUBSET Url]: the locations a 301 may name
    Unreachable,   \* URLs whose HEAD or GET may fail
    Malformed      \* URLs whose content the parser may reject

ASSUME WebAssumption ==
    /\ Redirects \in [Url -> SUBSET Url]
    /\ Unreachable \subseteq Url
    /\ Malformed \subseteq Url

-----------------------------------------------------------------------------
UpdaterProcessFeed(m) ==
    /\ m.type = "ProcessFeed"
    /\ updaterBox' = Take(updaterBox, m)
    /\ crawlerBox' = Post(crawlerBox, DownloadWithHeadCheck(m.id, m.url, m.job))
    /\ UNCHANGED <<catalogBox, parserBox>>

UpdaterReceive == \E m \in Queued(updaterBox) : UpdaterProcessFeed(m)

-----------------------------------------------------------------------------
(***************************************************************************)
(* CrawlerWorker.headCheck                                                 *)
(***************************************************************************)
HeadCheckSucceedsAgain(m) ==   \* mutant: the location is checked as well
    /\ m.type = "DownloadWithHeadCheck"
    /\ \E href \in {m.url} \cup Redirects[m.url] :
        /\ catalogBox' = IF href = m.url THEN catalogBox
                         ELSE Post(catalogBox, UpdateFeedUrl(m.url, href))
        /\ crawlerBox' = Post(Take(crawlerBox, m),
                              DownloadWithHeadCheck(m.id, href, m.job))
    /\ UNCHANGED <<updaterBox, parserBox>>

\* The response names a location: the Location of a 301, else the URL asked
\* for.  The catalog hears of a feed that moved, and the content is fetched
\* from the location.
HeadCheckSucceeds(m) ==
    /\ m.type = "DownloadWithHeadCheck"
    /\ \E href \in {m.url} \cup Redirects[m.url] :
        /\ catalogBox' = IF href = m.url THEN catalogBox
                         ELSE Post(catalogBox, UpdateFeedUrl(m.url, href))
        /\ crawlerBox' = Post(Take(crawlerBox, m),
                              DownloadContent(m.id, href, m.job))
    /\ UNCHANGED <<updaterBox, parserBox>>

\* A 301 without a Location.
HeadCheckWithoutLocation(m) ==
    /\ m.type = "DownloadWithHeadCheck"
    /\ m.url \in Unreachable
    /\ crawlerBox' = Take(crawlerBox, m)
    /\ catalogBox' = Post(catalogBox,
                          FeedStatusUpdate(m.id, m.url, "DownloadError"))
    /\ UNCHANGED <<updaterBox, parserBox>>

(***************************************************************************)
(* CrawlerWorker.fetchContent                                              *)
(***************************************************************************)
FetchSucceedsSilently(m) ==   \* mutant: the catalog is not told
    /\ m.type = "DownloadContent"
    /\ crawlerBox' = Take(crawlerBox, m)
    /\ parserBox' = Post(parserBox, ParseFeedData(m.id, m.url, m.job))
    /\ UNCHANGED <<catalogBox, updaterBox>>

FetchSucceeds(m) ==
    /\ m.type = "DownloadContent"
    /\ crawlerBox' = Take(crawlerBox, m)
    /\ parserBox' = Post(parserBox, ParseFeedData(m.id, m.url, m.job))
    /\ catalogBox' = Post(catalogBox,
                          FeedStatusUpdate(m.id, m.url, "DownloadSuccess"))
    /\ UNCHANGED updaterBox

\* A HEAD or a GET that fails is logged and nobody is told.
CrawlFails(m) ==
    /\ m.url \in Unreachable
    /\ crawlerBox' = Take(crawlerBox, m)
    /\ UNCHANGED <<catalogBox, updaterBox, parserBox>>

CrawlerReceive ==
    \E m \in Queued(crawlerBox) :
        \/ HeadCheckSucceeds(m)
        \/ HeadCheckWithoutLocation(m)
        \/ FetchSucceeds(m)
        \/ CrawlFails(m)

-----------------------------------------------------------------------------
(***************************************************************************)
(* Parser.parseFeedData and onParseOpml.  Both run in a Future, which reads *)
(* no state: receiving the message and the Future's end are one step.  The *)
(* mailbox's priorities order only the starts of the Futures, so any       *)
(* message's Future may be the next to end.                                *)
(***************************************************************************)
ParseSucceedsOnUpdate(m) ==   \* mutant: a new podcast is not reported
    /\ m.type = "ParseFeedData"
    /\ parserBox' = Take(parserBox, m)
    /\ catalogBox' = IF m.job = "NewPodcastFetchJob" THEN catalogBox
                     ELSE Post(catalogBox, UpdatePodcast(m.id))
    /\ UNCHANGED <<updaterBox, crawlerBox>>

ParseSucceeds(m) ==
    /\ m.type = "ParseFeedData"
    /\ parserBox' = Take(parserBox, m)
    /\ catalogBox' = Post(catalogBox, UpdatePodcast(m.id))
    /\ UNCHANGED <<updaterBox, crawlerBox>>

ParseFails(m) ==
    /\ m.type = "ParseFeedData"
    /\ m.url \in Malformed
    /\ parserBox' = Take(parserBox, m)
    /\ catalogBox' = Post(catalogBox,
                          FeedStatusUpdate(m.id, m.url, "ParserError"))
    /\ UNCHANGED <<updaterBox, crawlerBox>>

ParseOpmlFile(m) ==
    /\ m.type = "ParseOpml"
    /\ parserBox' = Take(parserBox, m)
    /\ catalogBox' = PostAll(catalogBox, {ProposeNewFeed(u) : u \in m.urls})
    /\ UNCHANGED <<updaterBox, crawlerBox>>

\* The file is logged as unreadable and nobody is told.
ParseOpmlFails(m) ==
    /\ m.type = "ParseOpml"
    /\ parserBox' = Take(parserBox, m)
    /\ UNCHANGED <<catalogBox, updaterBox, crawlerBox>>

ParserReceive ==
    \E m \in Queued(parserBox) :
        \/ ParseSucceeds(m)
        \/ ParseFails(m)
        \/ ParseOpmlFile(m)
        \/ ParseOpmlFails(m)
=============================================================================
