---------------------------- MODULE FeedMessages ----------------------------
(***************************************************************************)
(* The messages by which a feed travels through the engine                 *)
(*                                                                         *)
(*    CatalogStore -> Updater -> Crawler (workers) -> Parser -> CatalogStore*)
(*                                                                         *)
(* and the mailboxes they wait in.  A URL is a member of Url.  An ID is a  *)
(* natural number.  Timestamps, etags, encodings and the feed's text are   *)
(* left out: no handler below decides anything by them.                    *)
(***************************************************************************)
EXTENDS Mailbox

CONSTANT Url

VARIABLES
    catalogBox,   \* mailbox of the CatalogStore
    updaterBox,   \* mailbox of the Updater
    crawlerBox,   \* mailboxes of the Crawler's workers, taken together
    parserBox     \* mailbox of the Parser

boxes == <<catalogBox, updaterBox, crawlerBox, parserBox>>

-----------------------------------------------------------------------------
Id == Nat

\* The two jobs that fetch a feed.  Website and image jobs carry no feed.
FetchJob == {"NewPodcastFetchJob", "UpdateEpisodesFetchJob"}

FeedStatus ==
    {"NeverChecked", "DownloadSuccess", "DownloadError", "Http403",
     "ParserError"}

ProcessFeed(id, url, job) ==
    [type |-> "ProcessFeed", id |-> id, url |-> url, job |-> job]

DownloadWithHeadCheck(id, url, job) ==
    [type |-> "DownloadWithHeadCheck", id |-> id, url |-> url, job |-> job]

DownloadContent(id, url, job) ==
    [type |-> "DownloadContent", id |-> id, url |-> url, job |-> job]

\* ParseNewPodcastData and ParseUpdateEpisodeData
ParseFeedData(id, url, job) ==
    [type |-> "ParseFeedData", id |-> id, url |-> url, job |-> job]

ParseOpml(urls) == [type |-> "ParseOpml", urls |-> urls]

ProposeNewFeed(url) == [type |-> "ProposeNewFeed", url |-> url]

CheckPodcast(id) == [type |-> "CheckPodcast", id |-> id]

FeedStatusUpdate(id, url, status) ==
    [type |-> "FeedStatusUpdate", id |-> id, url |-> url, status |-> status]

UpdatePodcast(id) == [type |-> "UpdatePodcast", id |-> id]

UpdateFeedUrl(oldUrl, newUrl) ==
    [type |-> "UpdateFeedUrl", url |-> oldUrl, newUrl |-> newUrl]

-----------------------------------------------------------------------------
UpdaterMessage ==
    [type : {"ProcessFeed"}, id : Id, url : Url, job : FetchJob]

CrawlerMessage ==
    [type : {"DownloadWithHeadCheck", "DownloadContent"},
     id : Id, url : Url, job : FetchJob]

ParserMessage ==
    [type : {"ParseFeedData"}, id : Id, url : Url, job : FetchJob]
        \cup [type : {"ParseOpml"}, urls : SUBSET Url]

CatalogMessage ==
    [type : {"ProposeNewFeed"}, url : Url]
        \cup [type : {"CheckPodcast", "UpdatePodcast"}, id : Id]
        \cup [type : {"FeedStatusUpdate"},
              id : Id, url : Url, status : FeedStatus]
        \cup [type : {"UpdateFeedUrl"}, url : Url, newUrl : Url]

\* The PriorityGenerator of the catalog's mailbox.  UpdateFeedUrl has no case
\* of its own and falls to the last one.
CatalogPriority ==
    [FeedStatusUpdate |-> 2, UpdatePodcast |-> 3, ProposeNewFeed |-> 4,
     CheckPodcast |-> 5, UpdateFeedUrl |-> 6]

BoxesOK ==
    /\ IsMailboxOf(catalogBox, CatalogMessage)
    /\ IsMailboxOf(updaterBox, UpdaterMessage)
    /\ IsMailboxOf(crawlerBox, CrawlerMessage)
    /\ IsMailboxOf(parserBox, ParserMessage)

BoxesInit ==
    /\ catalogBox = EmptyBag
    /\ updaterBox = EmptyBag
    /\ crawlerBox = EmptyBag
    /\ parserBox = EmptyBag
=============================================================================
