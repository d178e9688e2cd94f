--------------------------- MODULE EpisodeCatalog ---------------------------
(***************************************************************************)
(* What the CatalogStore makes of the text of a feed: the Parser sends one *)
(* UpdatePodcast and, for each episode, one RegisterEpisodeIfNew; handlers *)
(* and callbacks read and save the podcast and its episodes.               *)
(*                                                                         *)
(* A handler only starts a database call and returns, and the call may     *)
(* take as long as it likes, so the order in which the mailbox hands the   *)
(* messages over decides nothing: receiving a message and executing the    *)
(* first call of its handler are one step, for any message.  calls holds   *)
(* the calls that callbacks have started; executing one of them and its    *)
(* callback are one step too.                                              *)
(* The podcasts have been registered (FeedLifecycle: CrawlsAreStored).     *)
(* Images are not stored, the default, and websites are left out.          *)
(***************************************************************************)
EXTENDS Mailbox, Patch, FiniteSets

CONSTANTS
    Podcast,        \* IDs of registered podcasts
    Item,           \* episodes as a feed lists them, told apart by their GUID
    Title,          \* titles of podcasts
    Text,           \* [Podcast -> set of texts]: what its feed may say
    WithoutGuid,    \* items with neither a GUID nor a link
    WithoutTitle,   \* items without a title
    Future,         \* items whose publication date is still to come
    Undated,        \* items without a publication date
    MaxChecks,      \* [Podcast -> Nat]: how often a feed is parsed
    MaxFaults       \* bound on the database calls that fail

ASSUME CatalogAssumption ==
    /\ None \notin Title \cup Podcast
    /\ Text \in [Podcast ->
                    SUBSET [title : Title \cup {None}, items : SUBSET Item]]
    /\ MaxChecks \in [Podcast -> Nat]
    /\ MaxFaults \in Nat

VARIABLES
    catalogBox,   \* mailbox of the CatalogStore
    podcasts,     \* collection "podcasts": id -> document
    episodes,     \* collection "episodes": id -> document
    calls,        \* bag of the database calls under way
    indexed,      \* the IDs of the episodes sent to the index
    aired,        \* items whose publication date has passed
    lastId,       \* the IdGenerator's last ID
    parsed,       \* how often each feed was parsed
    latest,       \* history: the title that was parsed last
    disturbed,    \* history: checks disturbed, or an episode aired in between
    faults        \* number of database calls that failed so far

vars == <<catalogBox, podcasts, episodes, calls, indexed, aired, lastId,
          parsed, latest, disturbed, faults>>

store == <<podcasts, episodes, indexed>>
world == <<aired, parsed, latest, disturbed>>

-----------------------------------------------------------------------------
\* Of a podcast only its title, of an episode only what says whose it is.
PodcastDoc == [title : Title \cup {None}]

\* The Parser does not say whose an episode is, the registration does.
ParsedEpisode ==
    [podcastId : {None}, podcastTitle : Title \cup {None}, item : Item]

RegisteredEpisode ==
    [podcastId : Podcast, podcastTitle : Title \cup {None}, item : Item]

EpisodeDoc == ParsedEpisode \cup RegisteredEpisode

Id == Nat

UpdatePodcast(id, p) == [type |-> "UpdatePodcast", id |-> id, podcast |-> p]

RegisterEpisodeIfNew(id, e) ==
    [type |-> "RegisterEpisodeIfNew", id |-> id, episode |-> e]

UpdateEpisode(e) == [type |-> "UpdateEpisode", episode |-> e]

Message ==
    [type : {"UpdatePodcast"}, id : Podcast, podcast : PodcastDoc]
        \cup [type : {"RegisterEpisodeIfNew"},
              id : Podcast, episode : ParsedEpisode]
        \cup [type : {"UpdateEpisode"}, episode : ParsedEpisode]

Call ==
    [op : {"savePodcast", "propagate"}, id : Podcast, podcast : PodcastDoc]
        \cup [op : {"findEpisode"}, id : Podcast, podcast : PodcastDoc,
              episode : ParsedEpisode]
        \cup [op : {"createEpisode", "saveEpisode"},
              id : Id, episode : RegisteredEpisode]

TypeOK ==
    /\ IsMailboxOf(catalogBox, Message)
    /\ podcasts \in [Podcast -> PodcastDoc]
    /\ DOMAIN episodes \subseteq Id
    /\ episodes \in [DOMAIN episodes -> EpisodeDoc]
    /\ IsMailboxOf(calls, Call)
    /\ indexed \subseteq Id
    /\ aired \subseteq Item
    /\ lastId \in Id
    /\ parsed \in [Podcast -> Nat]
    /\ latest \in [Podcast -> Title \cup {None}]
    /\ disturbed \in BOOLEAN
    /\ faults \in 0 .. MaxFaults

Init ==
    /\ catalogBox = EmptyBag
    /\ podcasts = [p \in Podcast |-> [title |-> None]]
    /\ episodes = [d \in {} |-> {}]
    /\ calls = EmptyBag
    /\ indexed = {}
    /\ aired = Item \ (Future \cup Undated)
    /\ lastId = 0
    /\ parsed = [p \in Podcast |-> 0]
    /\ latest = [p \in Podcast |-> None]
    /\ disturbed = FALSE
    /\ faults = 0

\* Nothing waits and no call is under way.
Settled == catalogBox = EmptyBag /\ calls = EmptyBag

-----------------------------------------------------------------------------
(***************************************************************************)
(* The database.                                                           *)
(***************************************************************************)
\* update({_id: id}, doc, upsert = true)
Upsert(id, doc) ==
    episodes' = [d \in DOMAIN episodes \cup {id} |->
                    IF d = id THEN doc ELSE episodes[d]]

\* querySafeguard: every findAll asks for a publication date in the past.
Visible == {d \in DOMAIN episodes : episodes[d].item \in aired}

findAllByPodcast(p) == {d \in Visible : episodes[d].podcastId = p}

findAllByPodcastAndGuid(p, i) ==
    {d \in findAllByPodcast(p) : episodes[d].item = i}

-----------------------------------------------------------------------------
(***************************************************************************)
(* Parser.parseFeedData, on a feed that can be parsed.  The texts of two   *)
(* checks may be parsed in either order, so any text may be the next.      *)
(***************************************************************************)
extractEpisode(i, t) ==
    [podcastId |-> None, podcastTitle |-> t, item |-> i]

ParseFeedData(p, text) ==
    /\ parsed[p] < MaxChecks[p]
    /\ parsed' = [parsed EXCEPT ![p] = @ + 1]
    /\ latest' = [latest EXCEPT ![p] = text.title]
    /\ disturbed' = (disturbed \/ ~Settled)
    /\ catalogBox' = PostAll(catalogBox,
            {UpdatePodcast(p, [title |-> text.title])}
                \cup {RegisterEpisodeIfNew(p, extractEpisode(i, text.title)) :
                        i \in text.items})
    /\ UNCHANGED <<podcasts, episodes, calls, indexed, aired, lastId, faults>>

\* Time passes: a publication date is reached.
Air(i) ==
    /\ i \in Future \ aired
    /\ aired' = aired \cup {i}
    /\ disturbed' = (disturbed \/ \E p \in Podcast : parsed[p] > 0)
    /\ UNCHANGED <<catalogBox, calls, lastId, parsed, latest, faults>>
    /\ UNCHANGED store

-----------------------------------------------------------------------------
(***************************************************************************)
(* Messages: their first call, and its callback.                           *)
(***************************************************************************)
\* Message m is received and in the end starts the calls of the set next.
Handle(m, next) ==
    /\ catalogBox' = Take(catalogBox, m)
    /\ calls' = PostAll(calls, next)

\* The podcast is saved and, at the same time, its title is handed on.
SaveAndPropagate(id, podcast) ==
    {[op |-> "savePodcast", id |-> id, podcast |-> podcast],
     [op |-> "propagate", id |-> id, podcast |-> podcast]}

\* The stored values are patched over the parsed ones.
onUpdatePodcast(m) ==
    /\ m.type = "UpdatePodcast"
    /\ Handle(m, SaveAndPropagate(m.id, patchRight(m.podcast, podcasts[m.id])))
    /\ UNCHANGED lastId /\ UNCHANGED store

registerEpisodeOfTitled(m) ==   \* mutant: only once the podcast has a title
    /\ m.type = "RegisterEpisodeIfNew"
    /\ Handle(m, IF podcasts[m.id].title = None THEN {} ELSE
                 {[op |-> "findEpisode", id |-> m.id,
                   podcast |-> podcasts[m.id], episode |-> m.episode]})
    /\ UNCHANGED lastId /\ UNCHANGED store

\* The podcast is read; its title is the one the episode will have.
onRegisterEpisodeIfNew(m) ==
    /\ m.type = "RegisterEpisodeIfNew"
    /\ Handle(m, {[op |-> "findEpisode", id |-> m.id,
                   podcast |-> podcasts[m.id], episode |-> m.episode]})
    /\ UNCHANGED lastId /\ UNCHANGED store

\* The only sender passes the episode on as it was parsed, without an ID:
\* findOne(None) is None without a call, and the episode is saved as it is.
\* As its ID is None the query of the save is the empty document, and update
\* replaces the first document it comes across.  There is one: the episode
\* was found.
onUpdateEpisode(m) ==
    /\ m.type = "UpdateEpisode"
    /\ \E d \in DOMAIN episodes :
        episodes' = [episodes EXCEPT ![d] = m.episode]
    /\ Handle(m, {})
    /\ UNCHANGED <<podcasts, indexed, lastId>>

CatalogReceive ==
    /\ \E m \in Queued(catalogBox) :
        \/ onUpdatePodcast(m)
        \/ onRegisterEpisodeIfNew(m)
        \/ onUpdateEpisode(m)
    /\ UNCHANGED faults /\ UNCHANGED world

-----------------------------------------------------------------------------
(***************************************************************************)
(* The calls of callbacks.                                                 *)
(***************************************************************************)
\* Call c is done and starts the calls of the set next.
Continue(c, next) == calls' = PostAll(Take(calls, c), next)

SavePodcast(c) ==
    /\ c.op = "savePodcast"
    /\ podcasts' = [podcasts EXCEPT ![c.id] = c.podcast]
    /\ Continue(c, {})
    /\ UNCHANGED <<catalogBox, episodes, indexed, lastId>>

NoPropagation(c) ==   \* mutant: the episodes are left as they are
    /\ c.op = "propagate"
    /\ Continue(c, {})
    /\ UNCHANGED <<catalogBox, lastId>> /\ UNCHANGED store

\* The documents that are read are saved whole, with the podcast's title.
updateEpisodeFieldsRelatedToPodcast(c) ==
    /\ c.op = "propagate"
    /\ Continue(c, {[op |-> "saveEpisode", id |-> d,
                     episode |-> [episodes[d] EXCEPT
                                    !.podcastTitle = c.podcast.title]] :
                        d \in findAllByPodcast(c.id)})
    /\ UNCHANGED <<catalogBox, lastId>> /\ UNCHANGED store

SaveEpisodeAnew(c) ==   \* mutant: the copy is saved under an ID of its own
    /\ c.op = "saveEpisode"
    /\ lastId' = lastId + 1
    /\ Upsert(lastId + 1, c.episode)
    /\ Continue(c, {})
    /\ UNCHANGED <<catalogBox, podcasts, indexed>>

SaveEpisode(c) ==
    /\ c.op = "saveEpisode"
    /\ Upsert(c.id, c.episode)
    /\ Continue(c, {})
    /\ UNCHANGED <<catalogBox, podcasts, indexed, lastId>>

FindKnownEpisodeAgain(c) ==   \* mutant: the same message is sent once more
    /\ c.op = "findEpisode"
    /\ c.episode.item \notin WithoutGuid
    /\ findAllByPodcastAndGuid(c.id, c.episode.item) # {}
    /\ Continue(c, {})
    /\ catalogBox' = Post(catalogBox, RegisterEpisodeIfNew(c.id, c.episode))
    /\ UNCHANGED lastId /\ UNCHANGED store

FindKnownEpisode(c) ==
    /\ c.op = "findEpisode"
    /\ c.episode.item \notin WithoutGuid
    /\ findAllByPodcastAndGuid(c.id, c.episode.item) # {}
    /\ Continue(c, {})
    /\ catalogBox' = Post(catalogBox, UpdateEpisode(c.episode))
    /\ UNCHANGED lastId /\ UNCHANGED store

StartWithOldId(c) ==   \* mutant: the ID is not used up
    /\ UNCHANGED lastId
    /\ Continue(c, {[op |-> "createEpisode", id |-> lastId + 1,
                     episode |-> [c.episode EXCEPT
                                    !.podcastId = c.id,
                                    !.podcastTitle = c.podcast.title]]})
    /\ UNCHANGED catalogBox /\ UNCHANGED store

StartAndIndex(c) ==   \* mutant: the index hears of it before it is saved
    /\ lastId' = lastId + 1
    /\ Continue(c, {[op |-> "createEpisode", id |-> lastId + 1,
                     episode |-> [c.episode EXCEPT
                                    !.podcastId = c.id,
                                    !.podcastTitle = c.podcast.title]]})
    /\ indexed' = indexed \cup {lastId + 1}
    /\ UNCHANGED <<catalogBox, podcasts, episodes>>

\* An episode nobody has found gets an ID and is about to be saved.
StartRegistration(c) ==
    /\ lastId' = lastId + 1
    /\ Continue(c, {[op |-> "createEpisode", id |-> lastId + 1,
                     episode |-> [c.episode EXCEPT
                                    !.podcastId = c.id,
                                    !.podcastTitle = c.podcast.title]]})
    /\ UNCHANGED catalogBox /\ UNCHANGED store

FindNewEpisode(c) ==
    /\ c.op = "findEpisode"
    /\ c.episode.item \notin WithoutGuid
    /\ findAllByPodcastAndGuid(c.id, c.episode.item) = {}
    /\ StartRegistration(c)

\* findOneByEnclosure returns a list, which is neither Some nor None: the
\* MatchError stays in the Future, and nobody looks at it.
FindByEnclosure(c) ==
    /\ c.op = "findEpisode"
    /\ c.episode.item \in WithoutGuid
    /\ Continue(c, {})
    /\ UNCHANGED <<catalogBox, lastId>> /\ UNCHANGED store

\* The callback logs the title first, by title.get, which throws without one.
CreateEpisode(c) ==
    /\ c.op = "createEpisode"
    /\ Upsert(c.id, c.episode)
    /\ indexed' = IF c.episode.item \in WithoutTitle THEN indexed
                  ELSE indexed \cup {c.id}
    /\ Continue(c, {})
    /\ UNCHANGED <<catalogBox, podcasts, lastId>>

DatabaseReply ==
    /\ \E c \in Queued(calls) :
        \/ SavePodcast(c)
        \/ updateEpisodeFieldsRelatedToPodcast(c)
        \/ SaveEpisode(c)
        \/ FindKnownEpisode(c)
        \/ FindNewEpisode(c)
        \/ FindByEnclosure(c)
        \/ CreateEpisode(c)
    /\ UNCHANGED faults /\ UNCHANGED world

-----------------------------------------------------------------------------
(***************************************************************************)
(* A call fails.  findOne turns an error into None and findAll into Nil,   *)
(* so the handler goes on as if there were no document.                    *)
(***************************************************************************)
\* "Podcast to update is not yet in database": the parsed one is saved.
FindPodcastFails(m) ==
    /\ m.type = "UpdatePodcast"
    /\ Handle(m, SaveAndPropagate(m.id, m.podcast))
    /\ UNCHANGED lastId /\ UNCHANGED store

\* "No parent Podcast", or the save of an episode without an ID fails.
MessageFails(m) ==
    /\ m.type \in {"RegisterEpisodeIfNew", "UpdateEpisode"}
    /\ Handle(m, {})
    /\ UNCHANGED lastId /\ UNCHANGED store

FindEpisodeFails(c) ==
    /\ c.op = "findEpisode"
    /\ c.episode.item \notin WithoutGuid
    /\ StartRegistration(c)

\* Nothing is found to hand the title on to, or a save fails.
CallFails(c) ==
    /\ c.op # "findEpisode"
    /\ Continue(c, {})
    /\ UNCHANGED <<catalogBox, lastId>> /\ UNCHANGED store

\* The document is saved, but save cannot read it back and fails.  Only the
\* registration of an episode waits for the result.
CreateUnconfirmed(c) ==
    /\ c.op = "createEpisode"
    /\ Upsert(c.id, c.episode)
    /\ Continue(c, {})
    /\ UNCHANGED <<catalogBox, podcasts, indexed, lastId>>

DatabaseFault ==
    /\ faults < MaxFaults
    /\ faults' = faults + 1
    /\ \/ \E m \in Queued(catalogBox) : FindPodcastFails(m) \/ MessageFails(m)
       \/ \E c \in Queued(calls) :
            FindEpisodeFails(c) \/ CallFails(c) \/ CreateUnconfirmed(c)
    /\ UNCHANGED world

-----------------------------------------------------------------------------
Next ==
    \/ \E p \in Podcast : \E text \in Text[p] : ParseFeedData(p, text)
    \/ \E i \in Item : Air(i)
    \/ CatalogReceive
    \/ DatabaseReply
    \/ DatabaseFault

Spec == Init /\ [][Next]_vars

\* The dispatcher runs the CatalogStore while messages wait, and the database
\* answers every call.  It is enough that one of the two goes on while there
\* is something to do, which is less than to be fair to each.
FairSpec == Spec /\ WF_vars(CatalogReceive \/ DatabaseReply)

-----------------------------------------------------------------------------
(***************************************************************************)
(* Properties                                                              *)
(***************************************************************************)
IsOf(e, p, i) == e.podcastId = p /\ e.item = i

\* Document d is that of item i of podcast p, or is about to be it again:
\* updateEpisodeFieldsRelatedToPodcast has a copy of it to save.
Belongs(d, p, i) ==
    /\ d \in DOMAIN episodes
    /\ \/ IsOf(episodes[d], p, i)
       \/ \E c \in Queued(calls) :
            c.op = "saveEpisode" /\ c.id = d /\ IsOf(c.episode, p, i)

\* A document stays, and never comes to be that of a podcast's item it was not
\* that of before.  onUpdateEpisode may write any item over it and so take its
\* podcast away, and a late save of a copy that was read earlier may give it
\* back, but only the same podcast and the same item; once it has neither a
\* podcast nor such a copy, it is nobody's for good.  So no document passes
\* from one podcast or item to another, not in several steps either.
EpisodesKeepIdentity ==
    [][\A d \in DOMAIN episodes :
        /\ d \in DOMAIN episodes'
        /\ \A p \in Podcast, i \in Item :
            Belongs(d, p, i)' => Belongs(d, p, i)]_vars

\* The strengthening of EpisodesKeepIdentity that every step preserves: an
\* episode about to be created is the only one of its ID, which is not in the
\* database; saves of one ID are of one episode, and the stored document, if
\* it has a podcast, is of that episode too.
SameEpisode(e, f) == e.podcastId = f.podcastId /\ e.item = f.item

StoredIdsAreUsed == \A d \in DOMAIN episodes : d <= lastId

CreatingIsFresh ==
    \A c \in Queued(calls) : c.op = "createEpisode" =>
        /\ c.id <= lastId
        /\ c.id \notin DOMAIN episodes
        /\ calls[c] = 1
        /\ \A e \in Queued(calls) :
            e.op = "createEpisode" /\ e.id = c.id => e = c

SavesAgree ==
    \A c \in Queued(calls) : c.op = "saveEpisode" =>
        /\ c.id \in DOMAIN episodes
        /\ episodes[c.id].podcastId # None
            => SameEpisode(c.episode, episodes[c.id])
        /\ \A e \in Queued(calls) :
            e.op = "saveEpisode" /\ e.id = c.id
                => SameEpisode(e.episode, c.episode)

IInv == TypeOK /\ StoredIdsAreUsed /\ CreatingIsFresh /\ SavesAgree

Copies(p, i) ==
    {d \in DOMAIN episodes :
        episodes[d].podcastId = p /\ episodes[d].item = i}

\* However lookups, saves and faults interleave, and though an episode whose
\* date lies in the future is never found (querySafeguard), a check of a feed
\* adds at most one document for an episode (onRegisterEpisodeIfNew).
CopiesAreChecks ==
    \A p \in Podcast, i \in Item : Cardinality(Copies(p, i)) <= parsed[p]

\* The episodes of a podcast that a search cannot find.
Unindexed ==
    {d \in DOMAIN episodes \ indexed :
        /\ episodes[d].podcastId # None
        /\ episodes[d].item \notin WithoutTitle}

\* An episode is sent to the index once its save has succeeded: a fault hides
\* at most one episode with a title from the search, and nothing else does;
\* and the search finds no episode that is not stored.
UnindexedAreFaults ==
    /\ Cardinality(Unindexed) <= faults
    /\ indexed \subseteq DOMAIN episodes

\* The first check of a feed reads the podcast's title for its episodes while
\* the title is being saved, so episodes may be stored without one.  A later
\* check repairs that ("ensure that values that may have changed are
\* propagated"), if it does not overlap with another and finds the same
\* episodes (querySafeguard).
TitlesAreRepaired ==
    /\ Settled /\ faults = 0 /\ ~disturbed
    /\ \A p \in Podcast : \A text \in Text[p] : text.title # None
    =>  \A d \in DOMAIN episodes :
            \A p \in Podcast :
                /\ episodes[d].podcastId = p
                /\ parsed[p] > 1
                /\ episodes[d].item \in aired
                => episodes[d].podcastTitle = podcasts[p].title

\* No message begets messages forever, and no call finds its document gone.
EventuallySettled == <>[]Settled

\* An episode with a GUID that the Parser reports is in the catalog at some
\* time, unless the database fails.
EpisodesAreRegistered ==
    \A p \in Podcast :
        \A i \in UNION {text.items : text \in Text[p]} \ WithoutGuid :
            (\E m \in Queued(catalogBox) :
                /\ m.type = "RegisterEpisodeIfNew"
                /\ m.id = p /\ m.episode.item = i)
            ~> (Copies(p, i) # {} \/ faults > 0)

\* Parser.parseFeedData: "we always update a podcasts metadata, this likely
\* may have changed (new descriptions, etc)".  Once all is quiet the podcast
\* has the title that its feed had when it was parsed last.
MetadataFollowsFeed ==
    Settled /\ faults = 0 /\ ~disturbed =>
        \A p \in Podcast :
            latest[p] # None => podcasts[p].title = latest[p]
=============================================================================
