----------------------- MODULE EpisodeCatalogTheorems -----------------------
(***************************************************************************)
(* Proofs about Patch and EpisodeCatalog, for any podcasts, items, titles  *)
(* and texts, and any number of checks and database faults.                *)
(***************************************************************************)
EXTENDS EpisodeCatalog, MailboxTheorems, TLAPS

-----------------------------------------------------------------------------
(***************************************************************************)
(* Patchable                                                               *)
(***************************************************************************)
\* onUpdatePodcast patches podcasts, and what it saves is a podcast.
LEMMA PatchRightKeepsType ==
    ASSUME NEW x \in PodcastDoc, NEW y \in PodcastDoc
    PROVE  patchRight(x, y) \in PodcastDoc
<1>1. DOMAIN x = {"title"} /\ DOMAIN y = {"title"}
    BY DEF PodcastDoc
<1>2. patchRight(x, y) = [title |-> reduceRight(x.title, y.title)]
    BY <1>1 DEF patchRight
<1>3. x.title \in Title \cup {None} /\ y.title \in Title \cup {None}
    BY DEF PodcastDoc
<1>4. reduceRight(x.title, y.title) \in Title \cup {None}
    BY <1>3 DEF reduceRight
<1> QED BY <1>2, <1>4 DEF PodcastDoc

-----------------------------------------------------------------------------
(***************************************************************************)
(* The fields of a message and of a call, by its type.                     *)
(***************************************************************************)
LEMMA MessageFields ==
    ASSUME NEW m \in Message
    PROVE  /\ m.type = "UpdatePodcast" =>
                m.id \in Podcast /\ m.podcast \in PodcastDoc
           /\ m.type = "RegisterEpisodeIfNew" =>
                m.id \in Podcast /\ m.episode \in ParsedEpisode
           /\ m.type = "UpdateEpisode" => m.episode \in ParsedEpisode
BY DEF Message

LEMMA CallFields ==
    ASSUME NEW c \in Call
    PROVE  /\ c.op \in {"savePodcast", "propagate"} =>
                c.id \in Podcast /\ c.podcast \in PodcastDoc
           /\ c.op = "findEpisode" =>
                /\ c.id \in Podcast /\ c.podcast \in PodcastDoc
                /\ c.episode \in ParsedEpisode
           /\ c.op \in {"createEpisode", "saveEpisode"} =>
                c.id \in Id /\ c.episode \in RegisteredEpisode
BY DEF Call

LEMMA UpsertKeepsEpisodes ==
    ASSUME DOMAIN episodes \subseteq Id,
           episodes \in [DOMAIN episodes -> EpisodeDoc],
           NEW id \in Id, NEW doc \in EpisodeDoc, Upsert(id, doc)
    PROVE  /\ DOMAIN episodes' = DOMAIN episodes \cup {id}
           /\ DOMAIN episodes' \subseteq Id
           /\ episodes' \in [DOMAIN episodes' -> EpisodeDoc]
           /\ episodes'[id] = doc
           /\ \A d \in DOMAIN episodes : d # id => episodes'[d] = episodes[d]
BY DEF Upsert

\* What starting calls, with or without receiving a message, does to what is
\* queued.
LEMMA ContinueKeepsCalls ==
    ASSUME IsMailboxOf(calls, Call), NEW c \in Queued(calls),
           NEW S \in SUBSET Call, Continue(c, S)
    PROVE  /\ IsMailboxOf(calls', Call)
           /\ Queued(calls') \subseteq Queued(calls) \cup S
BY TakeKeepsMailbox, PostAllKeepsMailbox DEF Continue

LEMMA HandleKeepsBoxes ==
    ASSUME IsMailboxOf(calls, Call), IsMailboxOf(catalogBox, Message),
           NEW m \in Queued(catalogBox), NEW S \in SUBSET Call, Handle(m, S)
    PROVE  /\ IsMailboxOf(calls', Call)
           /\ IsMailboxOf(catalogBox', Message)
BY TakeKeepsMailbox, PostAllKeepsMailbox DEF Handle

\* A set that starts no call that creates or saves an episode.
LEMMA SaveAndPropagateIsCalls ==
    ASSUME NEW id \in Podcast, NEW podcast \in PodcastDoc
    PROVE  SaveAndPropagate(id, podcast) \in SUBSET Call
BY DEF SaveAndPropagate, Call

-----------------------------------------------------------------------------
(***************************************************************************)
(* Type correctness                                                        *)
(***************************************************************************)
LEMMA TypeInit == Init => TypeOK
<1> SUFFICES ASSUME Init PROVE TypeOK
    OBVIOUS
<1>1. IsMailboxOf(catalogBox, Message) /\ IsMailboxOf(calls, Call)
    BY EmptyMailbox DEF Init
<1>2. podcasts \in [Podcast -> PodcastDoc]
    BY DEF Init, PodcastDoc
<1>3. DOMAIN episodes = {} /\ episodes = [d \in {} |-> {}]
    BY DEF Init
<1>4. episodes \in [DOMAIN episodes -> EpisodeDoc]
    BY <1>3
<1>5. faults \in 0 .. MaxFaults
    BY CatalogAssumption DEF CatalogAssumption, Init
<1>6. /\ indexed \subseteq Id /\ aired \subseteq Item /\ lastId \in Id
      /\ parsed \in [Podcast -> Nat]
      /\ latest \in [Podcast -> Title \cup {None}]
      /\ disturbed \in BOOLEAN
    BY DEF Init, Id
<1> QED BY <1>1, <1>2, <1>3, <1>4, <1>5, <1>6 DEF TypeOK

LEMMA TypeParse ==
    ASSUME TypeOK, NEW p \in Podcast, NEW text \in Text[p],
           ParseFeedData(p, text)
    PROVE  TypeOK'
<1>1. text.title \in Title \cup {None} /\ text.items \subseteq Item
    BY CatalogAssumption DEF CatalogAssumption
<1> DEFINE S == {UpdatePodcast(p, [title |-> text.title])}
                    \cup {RegisterEpisodeIfNew(p,
                            extractEpisode(i, text.title)) :
                                i \in text.items}
<1>2. UpdatePodcast(p, [title |-> text.title]) \in Message
    BY <1>1 DEF UpdatePodcast, Message, PodcastDoc
<1>3. \A i \in text.items :
        RegisterEpisodeIfNew(p, extractEpisode(i, text.title)) \in Message
    BY <1>1 DEF RegisterEpisodeIfNew, extractEpisode, Message, ParsedEpisode
<1>4. S \in SUBSET Message
    BY <1>2, <1>3
<1>5. catalogBox' = PostAll(catalogBox, S)
    BY DEF ParseFeedData
<1> HIDE DEF S
<1>6. IsMailboxOf(catalogBox', Message)
    BY <1>4, <1>5, PostAllKeepsMailbox DEF TypeOK
<1>7. parsed' \in [Podcast -> Nat]
    BY DEF ParseFeedData, TypeOK
<1>8. latest' \in [Podcast -> Title \cup {None}]
    BY <1>1 DEF ParseFeedData, TypeOK
<1>9. disturbed' \in BOOLEAN
    BY DEF ParseFeedData, TypeOK
<1> QED BY <1>6, <1>7, <1>8, <1>9 DEF ParseFeedData, TypeOK

LEMMA TypeAir ==
    ASSUME TypeOK, NEW i \in Item, Air(i)
    PROVE  TypeOK'
<1>1. disturbed' \in BOOLEAN
    BY DEF Air, TypeOK
<1> QED BY <1>1 DEF Air, TypeOK, store

\* The call an episode is looked up by, and the one it is created by.
LEMMA FindIsCall ==
    ASSUME NEW id \in Podcast, NEW podcast \in PodcastDoc,
           NEW e \in ParsedEpisode
    PROVE  [op |-> "findEpisode", id |-> id, podcast |-> podcast,
            episode |-> e] \in Call
BY DEF Call

LEMMA CreateIsCall ==
    ASSUME NEW id \in Podcast, NEW t \in Title \cup {None},
           NEW e \in ParsedEpisode, NEW n \in Id
    PROVE  [op |-> "createEpisode", id |-> n,
            episode |-> [e EXCEPT !.podcastId = id, !.podcastTitle = t]]
                \in Call
<1>1. [e EXCEPT !.podcastId = id, !.podcastTitle = t] \in RegisteredEpisode
    BY DEF ParsedEpisode, RegisteredEpisode
<1> QED BY <1>1 DEF Call

LEMMA TypeReceive ==
    ASSUME TypeOK, NEW m \in Queued(catalogBox),
           onUpdatePodcast(m) \/ onRegisterEpisodeIfNew(m)
                \/ onUpdateEpisode(m) \/ FindPodcastFails(m)
                \/ MessageFails(m)
    PROVE  /\ IsMailboxOf(catalogBox', Message)
           /\ podcasts' = podcasts
           /\ DOMAIN episodes' = DOMAIN episodes
           /\ episodes' \in [DOMAIN episodes' -> EpisodeDoc]
           /\ IsMailboxOf(calls', Call)
           /\ indexed' = indexed
           /\ lastId' = lastId
<1> USE DEF TypeOK
<1>1. m \in Message
    BY DEF IsMailboxOf
<1>2. CASE onUpdatePodcast(m)
    <2>1. m.id \in Podcast /\ m.podcast \in PodcastDoc
        BY <1>1, <1>2, MessageFields DEF onUpdatePodcast
    <2>2. patchRight(m.podcast, podcasts[m.id]) \in PodcastDoc
        BY <2>1, PatchRightKeepsType
    <2>3. SaveAndPropagate(m.id, patchRight(m.podcast, podcasts[m.id]))
            \in SUBSET Call
        BY <2>1, <2>2, SaveAndPropagateIsCalls
    <2> QED BY <1>2, <2>3, HandleKeepsBoxes DEF onUpdatePodcast, store
<1>3. CASE onRegisterEpisodeIfNew(m)
    <2>1. m.id \in Podcast /\ m.episode \in ParsedEpisode
        BY <1>1, <1>3, MessageFields DEF onRegisterEpisodeIfNew
    <2>2. podcasts[m.id] \in PodcastDoc
        BY <2>1
    <2>3. {[op |-> "findEpisode", id |-> m.id, podcast |-> podcasts[m.id],
            episode |-> m.episode]} \in SUBSET Call
        BY <2>1, <2>2, FindIsCall
    <2> QED BY <1>3, <2>3, HandleKeepsBoxes DEF onRegisterEpisodeIfNew, store
<1>4. CASE onUpdateEpisode(m)
    <2>1. m.episode \in EpisodeDoc
        BY <1>1, <1>4, MessageFields DEF onUpdateEpisode, EpisodeDoc
    <2>2. /\ DOMAIN episodes' = DOMAIN episodes
          /\ episodes' \in [DOMAIN episodes' -> EpisodeDoc]
        BY <1>4, <2>1 DEF onUpdateEpisode
    <2> QED BY <1>4, <2>2, HandleKeepsBoxes DEF onUpdateEpisode
<1>5. CASE FindPodcastFails(m)
    <2>1. SaveAndPropagate(m.id, m.podcast) \in SUBSET Call
        BY <1>1, <1>5, MessageFields, SaveAndPropagateIsCalls
           DEF FindPodcastFails
    <2> QED BY <1>5, <2>1, HandleKeepsBoxes DEF FindPodcastFails, store
<1>6. CASE MessageFails(m)
    BY <1>6, HandleKeepsBoxes DEF MessageFails, store
<1> QED BY <1>2, <1>3, <1>4, <1>5, <1>6

LEMMA StartedIsCall ==
    ASSUME TypeOK, NEW c \in Queued(calls), c.op = "findEpisode"
    PROVE  /\ lastId + 1 \in Id
           /\ [op |-> "createEpisode", id |-> lastId + 1,
               episode |-> [c.episode EXCEPT
                             !.podcastId = c.id,
                             !.podcastTitle = c.podcast.title]] \in Call
<1>1. c \in Call /\ lastId \in Nat
    BY DEF TypeOK, IsMailboxOf, Id
<1>2. /\ c.id \in Podcast /\ c.episode \in ParsedEpisode
      /\ c.podcast.title \in Title \cup {None}
    BY <1>1, CallFields DEF PodcastDoc
<1>3. lastId + 1 \in Id
    BY <1>1 DEF Id
<1> DEFINE new == [op |-> "createEpisode", id |-> lastId + 1,
                   episode |-> [c.episode EXCEPT
                                 !.podcastId = c.id,
                                 !.podcastTitle = c.podcast.title]]
<1> DEFINE k == c.id
           t == c.podcast.title
           e == c.episode
           n == lastId + 1
<1>4. /\ k \in Podcast /\ t \in Title \cup {None}
      /\ e \in ParsedEpisode /\ n \in Id
    BY <1>2, <1>3
<1>5. new = [op |-> "createEpisode", id |-> n,
             episode |-> [e EXCEPT !.podcastId = k, !.podcastTitle = t]]
    OBVIOUS
<1>6. new \in Call
    <2> HIDE DEF k, t, e, n, new
    <2> QED BY <1>4, <1>5, CreateIsCall
<1> QED BY <1>3, <1>6

LEMMA TypeStartRegistration ==
    ASSUME TypeOK, NEW c \in Queued(calls), c.op = "findEpisode",
           StartRegistration(c)
    PROVE  /\ IsMailboxOf(calls', Call) /\ lastId' \in Id
           /\ UNCHANGED catalogBox /\ UNCHANGED store
<1> DEFINE new == [op |-> "createEpisode", id |-> lastId + 1,
                   episode |-> [c.episode EXCEPT
                                 !.podcastId = c.id,
                                 !.podcastTitle = c.podcast.title]]
<1>1. new \in Call /\ lastId + 1 \in Id
    BY StartedIsCall
<1>2. Continue(c, {new})
    BY DEF StartRegistration
<1> HIDE DEF new
<1>3. IsMailboxOf(calls', Call)
    BY <1>1, <1>2, ContinueKeepsCalls DEF TypeOK
<1> QED BY <1>1, <1>3 DEF StartRegistration

\* The copies updateEpisodeFieldsRelatedToPodcast saves.
LEMMA CopiesAreCalls ==
    ASSUME TypeOK, NEW p \in Podcast, NEW t \in Title \cup {None},
           NEW d \in findAllByPodcast(p)
    PROVE  /\ d \in DOMAIN episodes
           /\ episodes[d].podcastId = p
           /\ SameEpisode([episodes[d] EXCEPT !.podcastTitle = t],
                          episodes[d])
           /\ [op |-> "saveEpisode", id |-> d,
               episode |-> [episodes[d] EXCEPT !.podcastTitle = t]] \in Call
<1>1. /\ d \in DOMAIN episodes /\ d \in Id
      /\ episodes[d].podcastId = p
      /\ episodes[d] \in EpisodeDoc
    BY DEF findAllByPodcast, Visible, TypeOK
<1>2. p # None
    BY CatalogAssumption DEF CatalogAssumption
<1>3. episodes[d] \in RegisteredEpisode
    BY <1>1, <1>2 DEF EpisodeDoc, ParsedEpisode
<1>4. /\ [episodes[d] EXCEPT !.podcastTitle = t] \in RegisteredEpisode
      /\ SameEpisode([episodes[d] EXCEPT !.podcastTitle = t], episodes[d])
    BY <1>3 DEF RegisteredEpisode, SameEpisode
<1> QED BY <1>1, <1>4 DEF Call

LEMMA TypeReply ==
    ASSUME TypeOK, NEW c \in Queued(calls),
           \/ SavePodcast(c) \/ updateEpisodeFieldsRelatedToPodcast(c)
           \/ SaveEpisode(c) \/ FindKnownEpisode(c) \/ FindNewEpisode(c)
           \/ FindByEnclosure(c) \/ CreateEpisode(c) \/ FindEpisodeFails(c)
           \/ CallFails(c) \/ CreateUnconfirmed(c)
    PROVE  /\ IsMailboxOf(catalogBox', Message)
           /\ podcasts' \in [Podcast -> PodcastDoc]
           /\ DOMAIN episodes' \subseteq Id
           /\ episodes' \in [DOMAIN episodes' -> EpisodeDoc]
           /\ IsMailboxOf(calls', Call)
           /\ indexed' \subseteq Id
           /\ lastId' \in Id
<1> USE DEF TypeOK
<1>1. c \in Call
    BY DEF IsMailboxOf
<1>2. CASE SavePodcast(c)
    <2>1. podcasts' \in [Podcast -> PodcastDoc]
        BY <1>1, <1>2, CallFields DEF SavePodcast
    <2> QED BY <1>2, <2>1, ContinueKeepsCalls DEF SavePodcast
<1>3. CASE updateEpisodeFieldsRelatedToPodcast(c)
    <2>1. c.id \in Podcast /\ c.podcast.title \in Title \cup {None}
        BY <1>1, <1>3, CallFields
           DEF updateEpisodeFieldsRelatedToPodcast, PodcastDoc
    <2> DEFINE S == {[op |-> "saveEpisode", id |-> d,
                      episode |-> [episodes[d] EXCEPT
                                    !.podcastTitle = c.podcast.title]] :
                        d \in findAllByPodcast(c.id)}
    <2>2. S \in SUBSET Call
        BY <2>1, CopiesAreCalls
    <2>3. Continue(c, S)
        BY <1>3 DEF updateEpisodeFieldsRelatedToPodcast
    <2> HIDE DEF S
    <2>4. IsMailboxOf(calls', Call)
        BY <2>2, <2>3, ContinueKeepsCalls
    <2> QED BY <1>3, <2>4 DEF updateEpisodeFieldsRelatedToPodcast, store
<1>4. CASE SaveEpisode(c)
    <2>1. c.id \in Id /\ c.episode \in EpisodeDoc
        BY <1>1, <1>4, CallFields DEF SaveEpisode, EpisodeDoc
    <2> QED BY <1>4, <2>1, UpsertKeepsEpisodes, ContinueKeepsCalls
            DEF SaveEpisode
<1>5. CASE FindKnownEpisode(c)
    <2>1. UpdateEpisode(c.episode) \in Message
        BY <1>1, <1>5, CallFields
           DEF FindKnownEpisode, UpdateEpisode, Message
    <2>2. IsMailboxOf(catalogBox', Message)
        BY <1>5, <2>1, PostKeepsMailbox DEF FindKnownEpisode
    <2> QED BY <1>5, <2>2, ContinueKeepsCalls DEF FindKnownEpisode, store
<1>6. CASE FindNewEpisode(c)
    BY <1>6, TypeStartRegistration DEF FindNewEpisode, store
<1>7. CASE FindByEnclosure(c)
    BY <1>7, ContinueKeepsCalls DEF FindByEnclosure, store
<1>8. CASE CreateEpisode(c) \/ CreateUnconfirmed(c)
    <2>1. c.id \in Id /\ c.episode \in EpisodeDoc
        BY <1>1, <1>8, CallFields
           DEF CreateEpisode, CreateUnconfirmed, EpisodeDoc
    <2>2. indexed' \subseteq Id
        BY <1>8, <2>1 DEF CreateEpisode, CreateUnconfirmed
    <2> QED BY <1>8, <2>1, <2>2, UpsertKeepsEpisodes, ContinueKeepsCalls
            DEF CreateEpisode, CreateUnconfirmed
<1>9. CASE FindEpisodeFails(c)
    BY <1>9, TypeStartRegistration DEF FindEpisodeFails, store
<1>10. CASE CallFails(c)
    BY <1>10, ContinueKeepsCalls DEF CallFails, store
<1> QED BY <1>2, <1>3, <1>4, <1>5, <1>6, <1>7, <1>8, <1>9, <1>10

\* Every step of the catalog that is about one message or one call.
CatalogStep ==
    /\ \/ CatalogReceive
       \/ DatabaseReply
       \/ DatabaseFault

LEMMA CatalogStepCases ==
    ASSUME TypeOK, CatalogStep
    PROVE  /\ faults' \in 0 .. MaxFaults
           /\ UNCHANGED world
           /\ \/ \E m \in Queued(catalogBox) :
                    \/ onUpdatePodcast(m) \/ onRegisterEpisodeIfNew(m)
                    \/ onUpdateEpisode(m) \/ FindPodcastFails(m)
                    \/ MessageFails(m)
              \/ \E c \in Queued(calls) :
                    \/ SavePodcast(c)
                    \/ updateEpisodeFieldsRelatedToPodcast(c)
                    \/ SaveEpisode(c) \/ FindKnownEpisode(c)
                    \/ FindNewEpisode(c) \/ FindByEnclosure(c)
                    \/ CreateEpisode(c) \/ FindEpisodeFails(c)
                    \/ CallFails(c) \/ CreateUnconfirmed(c)
<1>1. MaxFaults \in Nat /\ faults \in 0 .. MaxFaults
    BY CatalogAssumption DEF CatalogAssumption, TypeOK
<1>2. CASE CatalogReceive
    BY <1>1, <1>2 DEF CatalogReceive
<1>3. CASE DatabaseReply
    BY <1>1, <1>3 DEF DatabaseReply
<1>4. CASE DatabaseFault
    BY <1>1, <1>4 DEF DatabaseFault
<1> QED BY <1>2, <1>3, <1>4 DEF CatalogStep

LEMMA TypeNext == TypeOK /\ [Next]_vars => TypeOK'
<1> SUFFICES ASSUME TypeOK, [Next]_vars PROVE TypeOK'
    OBVIOUS
<1>1. CASE UNCHANGED vars
    BY <1>1 DEF vars, TypeOK
<1>2. CASE \E p \in Podcast : \E text \in Text[p] : ParseFeedData(p, text)
    BY <1>2, TypeParse
<1>3. CASE \E i \in Item : Air(i)
    BY <1>3, TypeAir
<1>4. CASE CatalogStep
    <2>1. /\ faults' \in 0 .. MaxFaults /\ UNCHANGED world
        BY <1>4, CatalogStepCases
    <2>2. /\ IsMailboxOf(catalogBox', Message)
          /\ podcasts' \in [Podcast -> PodcastDoc]
          /\ DOMAIN episodes' \subseteq Id
          /\ episodes' \in [DOMAIN episodes' -> EpisodeDoc]
          /\ IsMailboxOf(calls', Call)
          /\ indexed' \subseteq Id
          /\ lastId' \in Id
        BY <1>4, CatalogStepCases, TypeReceive, TypeReply DEF TypeOK
    <2> QED BY <2>1, <2>2 DEF world, TypeOK
<1> QED BY <1>1, <1>2, <1>3, <1>4 DEF Next, CatalogStep

\* The type invariant of EpisodeCatalog.  It says more than types: whatever
\* the Parser sends and UpdateEpisode saves names no podcast, and whatever a
\* registration or a propagation saves names one (CatalogStore.
\* onRegisterEpisodeIfNew, updateEpisodeFieldsRelatedToPodcast).
THEOREM EpisodeTypes == Spec => []TypeOK
<1>1. Init => TypeOK
    BY TypeInit
<1>2. TypeOK /\ [Next]_vars => TypeOK'
    BY TypeNext
<1> QED BY <1>1, <1>2, PTL DEF Spec

-----------------------------------------------------------------------------
(***************************************************************************)
(* Episodes keep their identity.  IInv is preserved for three reasons: an  *)
(* ID is used up before the episode of that ID is saved, so it is new; a   *)
(* propagation saves copies of what it read; and between the two nothing   *)
(* turns a document into that of another episode.                          *)
(***************************************************************************)
\* How a callback changes the bag of calls, with multiplicities.
LEMMA ContinueCounts ==
    ASSUME IsMailboxOf(calls, Call), NEW c \in Queued(calls),
           NEW S \in SUBSET Call, Continue(c, S)
    PROVE  /\ Queued(calls') \subseteq Queued(calls) \cup S
           /\ \A e \in Queued(calls) \ S : e # c => calls'[e] = calls[e]
           /\ c \notin S /\ calls[c] = 1 => c \notin Queued(calls')
           /\ \A e \in S \ Queued(calls) : calls'[e] = 1
<1> DEFINE taken == Take(calls, c)
<1>1. /\ IsMailboxOf(taken, Call)
      /\ Queued(taken) \subseteq Queued(calls)
      /\ \A e \in Queued(calls) : e # c => /\ e \in Queued(taken)
                                          /\ taken[e] = calls[e]
      /\ calls[c] = 1 => c \notin Queued(taken)
    BY TakeKeepsMailbox
<1>2. calls' = PostAll(taken, S)
    BY DEF Continue
<1> HIDE DEF taken
<1>3. /\ Queued(calls') = Queued(taken) \cup S
      /\ \A e \in Queued(taken) \ S : calls'[e] = taken[e]
      /\ \A e \in S \ Queued(taken) : calls'[e] = 1
    BY <1>1, <1>2, PostAllKeepsMailbox
<1> QED BY <1>1, <1>3

\* A set of calls that neither creates nor saves an episode.
Harmless(S) ==
    \A e \in S : e.op \notin {"createEpisode", "saveEpisode"}

\* What waits to create or save an episode was already there, and as often.
NothingNewToSave ==
    /\ \A e \in Queued(calls') :
        e.op \in {"createEpisode", "saveEpisode"} => e \in Queued(calls)
    /\ \A e \in Queued(calls') :
        e.op = "createEpisode" => calls'[e] = calls[e]

LEMMA HandleIsQuiet ==
    ASSUME IInv, NEW m, NEW S \in SUBSET Call, Harmless(S), Handle(m, S)
    PROVE  NothingNewToSave
<1>1. IsMailboxOf(calls, Call)
    BY DEF IInv, TypeOK
<1>2. /\ Queued(calls') = Queued(calls) \cup S
      /\ \A e \in Queued(calls) \ S : calls'[e] = calls[e]
    BY <1>1, PostAllKeepsMailbox DEF Handle
<1> QED BY <1>2 DEF Harmless, NothingNewToSave

LEMMA ContinueIsQuiet ==
    ASSUME IInv, NEW c \in Queued(calls), NEW S \in SUBSET Call, Harmless(S),
           Continue(c, S)
    PROVE  NothingNewToSave
<1>1. IsMailboxOf(calls, Call)
    BY DEF IInv, TypeOK
<1>2. c.op = "createEpisode" => calls[c] = 1
    BY DEF IInv, CreatingIsFresh
<1>3. /\ Queued(calls') \subseteq Queued(calls) \cup S
      /\ \A e \in Queued(calls) \ S : e # c => calls'[e] = calls[e]
      /\ c \notin S /\ calls[c] = 1 => c \notin Queued(calls')
    BY <1>1, ContinueCounts
<1> QED BY <1>2, <1>3 DEF Harmless, NothingNewToSave

\* The documents stay, or lose their podcast.
DocumentsStay ==
    /\ DOMAIN episodes' = DOMAIN episodes
    /\ \A d \in DOMAIN episodes :
        episodes'[d] = episodes[d] \/ episodes'[d].podcastId = None

LEMMA QuietStep ==
    ASSUME IInv, TypeOK', lastId' = lastId, DocumentsStay, NothingNewToSave
    PROVE  IInv'
<1>1. StoredIdsAreUsed'
    BY DEF IInv, StoredIdsAreUsed, DocumentsStay
<1>2. CreatingIsFresh'
    BY DEF IInv, CreatingIsFresh, DocumentsStay, NothingNewToSave
<1>3. SavesAgree'
    BY DEF IInv, SavesAgree, DocumentsStay, NothingNewToSave
<1> QED BY <1>1, <1>2, <1>3 DEF IInv

LEMMA MessagesKeepIdentity ==
    ASSUME IInv, NEW m \in Queued(catalogBox),
           onUpdatePodcast(m) \/ onRegisterEpisodeIfNew(m)
                \/ onUpdateEpisode(m) \/ FindPodcastFails(m)
                \/ MessageFails(m)
    PROVE  lastId' = lastId /\ DocumentsStay /\ NothingNewToSave
<1> USE DEF IInv
<1>1. m \in Message
    BY DEF TypeOK, IsMailboxOf
<1>2. CASE onUpdatePodcast(m) \/ FindPodcastFails(m)
    <2>1. PICK doc \in PodcastDoc : Handle(m, SaveAndPropagate(m.id, doc))
        <3>1. m.id \in Podcast /\ m.podcast \in PodcastDoc
            BY <1>1, <1>2, MessageFields
               DEF onUpdatePodcast, FindPodcastFails
        <3>2. patchRight(m.podcast, podcasts[m.id]) \in PodcastDoc
            BY <3>1, PatchRightKeepsType DEF TypeOK
        <3> QED BY <1>2, <3>1, <3>2 DEF onUpdatePodcast, FindPodcastFails
    <2>2. m.id \in Podcast
        BY <1>1, <1>2, MessageFields DEF onUpdatePodcast, FindPodcastFails
    <2>3. /\ SaveAndPropagate(m.id, doc) \in SUBSET Call
          /\ Harmless(SaveAndPropagate(m.id, doc))
        BY <2>2, SaveAndPropagateIsCalls DEF SaveAndPropagate, Harmless
    <2>4. NothingNewToSave
        BY <2>1, <2>3, HandleIsQuiet
    <2> QED BY <1>2, <2>4
            DEF onUpdatePodcast, FindPodcastFails, store, DocumentsStay
<1>3. CASE onRegisterEpisodeIfNew(m)
    <2> DEFINE S == {[op |-> "findEpisode", id |-> m.id,
                      podcast |-> podcasts[m.id], episode |-> m.episode]}
    <2>1. m.id \in Podcast /\ m.episode \in ParsedEpisode
        BY <1>1, <1>3, MessageFields DEF onRegisterEpisodeIfNew
    <2>2. podcasts[m.id] \in PodcastDoc
        BY <2>1 DEF TypeOK
    <2>3. S \in SUBSET Call
        BY <2>1, <2>2, FindIsCall
    <2>4. Harmless(S)
        BY DEF Harmless
    <2>5. Handle(m, S)
        BY <1>3 DEF onRegisterEpisodeIfNew
    <2> HIDE DEF S
    <2>6. NothingNewToSave
        BY <2>3, <2>4, <2>5, HandleIsQuiet
    <2> QED BY <1>3, <2>6 DEF onRegisterEpisodeIfNew, store, DocumentsStay
<1>4. CASE onUpdateEpisode(m) \/ MessageFails(m)
    <2>1. Handle(m, {})
        BY <1>4 DEF onUpdateEpisode, MessageFails
    <2>2. NothingNewToSave
        BY <2>1, HandleIsQuiet DEF Harmless
    <2>3. CASE onUpdateEpisode(m)
        <3>1. m.episode.podcastId = None
            BY <1>1, <2>3, MessageFields DEF onUpdateEpisode, ParsedEpisode
        <3> QED BY <2>2, <2>3, <3>1 DEF onUpdateEpisode, DocumentsStay
    <2>4. CASE MessageFails(m)
        BY <2>2, <2>4 DEF MessageFails, store, DocumentsStay
    <2> QED BY <1>4, <2>3, <2>4
<1> QED BY <1>2, <1>3, <1>4

LEMMA QuietReplies ==
    ASSUME IInv, NEW c \in Queued(calls),
           SavePodcast(c) \/ FindKnownEpisode(c) \/ FindByEnclosure(c)
                \/ CallFails(c)
    PROVE  lastId' = lastId /\ DocumentsStay /\ NothingNewToSave
<1>1. Continue(c, {})
    BY DEF SavePodcast, FindKnownEpisode, FindByEnclosure, CallFails
<1>2. NothingNewToSave
    BY <1>1, ContinueIsQuiet DEF Harmless
<1> QED BY <1>2 DEF SavePodcast, FindKnownEpisode, FindByEnclosure,
                    CallFails, store, DocumentsStay

\* A copy is written over the document it was made of, or over the one that
\* has lost its podcast.
LEMMA SaveKeepsIdentity ==
    ASSUME IInv, TypeOK', NEW c \in Queued(calls), SaveEpisode(c)
    PROVE  IInv' /\ DOMAIN episodes \subseteq DOMAIN episodes'
<1> USE DEF IInv
<1>1. /\ c \in Call /\ c.op = "saveEpisode"
      /\ lastId' = lastId
    BY DEF TypeOK, IsMailboxOf, SaveEpisode
<1>2. c.id \in Id /\ c.episode \in EpisodeDoc
    BY <1>1, CallFields DEF EpisodeDoc
<1>3. c.id \in DOMAIN episodes
    BY <1>1 DEF SavesAgree
<1>4. /\ DOMAIN episodes' = DOMAIN episodes
      /\ episodes'[c.id] = c.episode
      /\ \A d \in DOMAIN episodes : d # c.id => episodes'[d] = episodes[d]
    <2>1. Upsert(c.id, c.episode)
        BY DEF SaveEpisode
    <2>2. /\ DOMAIN episodes' = DOMAIN episodes \cup {c.id}
          /\ episodes'[c.id] = c.episode
          /\ \A d \in DOMAIN episodes : d # c.id => episodes'[d] = episodes[d]
        BY <1>2, <2>1, UpsertKeepsEpisodes DEF TypeOK
    <2> QED BY <1>3, <2>2
<1>5. NothingNewToSave
    BY ContinueIsQuiet DEF SaveEpisode, Harmless
<1>6. StoredIdsAreUsed'
    BY <1>1, <1>4 DEF StoredIdsAreUsed
<1>7. CreatingIsFresh'
    BY <1>1, <1>4, <1>5 DEF CreatingIsFresh, NothingNewToSave
<1>8. SavesAgree'
    BY <1>1, <1>4, <1>5 DEF SavesAgree, NothingNewToSave, SameEpisode
<1>9. DOMAIN episodes \subseteq DOMAIN episodes'
    BY <1>1, <1>4
<1> QED BY <1>6, <1>7, <1>8, <1>9

\* An episode is created under an ID nothing else was given.
LEMMA CreateKeepsIdentity ==
    ASSUME IInv, TypeOK', NEW c \in Queued(calls),
           CreateEpisode(c) \/ CreateUnconfirmed(c)
    PROVE  IInv' /\ DOMAIN episodes \subseteq DOMAIN episodes'
<1> USE DEF IInv
<1>1. /\ c \in Call /\ c.op = "createEpisode" /\ lastId' = lastId
      /\ Continue(c, {}) /\ Upsert(c.id, c.episode)
    BY DEF TypeOK, IsMailboxOf, CreateEpisode, CreateUnconfirmed
<1>2. c.id \in Id /\ c.episode \in EpisodeDoc
    BY <1>1, CallFields DEF EpisodeDoc
<1>3. c.id \notin DOMAIN episodes /\ c.id <= lastId /\ calls[c] = 1
    BY <1>1 DEF CreatingIsFresh
<1>4. /\ DOMAIN episodes' = DOMAIN episodes \cup {c.id}
      /\ \A d \in DOMAIN episodes : episodes'[d] = episodes[d]
    BY <1>1, <1>2, <1>3, UpsertKeepsEpisodes DEF TypeOK
<1>5. NothingNewToSave /\ c \notin Queued(calls')
    BY <1>1, <1>3, ContinueIsQuiet, ContinueCounts DEF Harmless, TypeOK
<1>6. StoredIdsAreUsed'
    BY <1>1, <1>3, <1>4 DEF StoredIdsAreUsed
<1>7. CreatingIsFresh'
    BY <1>1, <1>4, <1>5 DEF CreatingIsFresh, NothingNewToSave
<1>8. SavesAgree'
    BY <1>1, <1>3, <1>4, <1>5 DEF SavesAgree, NothingNewToSave
<1>9. DOMAIN episodes \subseteq DOMAIN episodes'
    BY <1>4
<1> QED BY <1>6, <1>7, <1>8, <1>9

\* The ID an episode is given has not been used.
LEMMA StartKeepsIdentity ==
    ASSUME IInv, TypeOK', NEW c \in Queued(calls), c.op = "findEpisode",
           StartRegistration(c)
    PROVE  IInv' /\ DOMAIN episodes \subseteq DOMAIN episodes'
<1> USE DEF IInv
<1> DEFINE new == [op |-> "createEpisode", id |-> lastId + 1,
                   episode |-> [c.episode EXCEPT
                                 !.podcastId = c.id,
                                 !.podcastTitle = c.podcast.title]]
<1>1. /\ Continue(c, {new}) /\ new.id = lastId + 1
      /\ new.op = "createEpisode"
    BY DEF StartRegistration
<1>2. new \in Call
    BY StartedIsCall
<1> HIDE DEF new
<1>3. lastId' = lastId + 1 /\ lastId \in Nat /\ UNCHANGED episodes
    BY DEF StartRegistration, store, TypeOK, Id
<1>4. new \notin Queued(calls)
    BY <1>1, <1>3 DEF CreatingIsFresh
<1>5. /\ Queued(calls') \subseteq Queued(calls) \cup {new}
      /\ \A e \in Queued(calls) \ {new} : e # c => calls'[e] = calls[e]
      /\ calls'[new] = 1
    BY <1>1, <1>2, <1>4, ContinueCounts DEF TypeOK
<1>6. StoredIdsAreUsed'
    BY <1>3 DEF StoredIdsAreUsed, TypeOK, Id
<1>7. CreatingIsFresh'
    <2>1. \A d \in DOMAIN episodes : d <= lastId /\ d \in Nat
        BY DEF StoredIdsAreUsed, TypeOK, Id
    <2>2. \A e \in Queued(calls) : e.op = "createEpisode" =>
            /\ e.id <= lastId /\ e.id \in Nat /\ e.id # new.id
            /\ e.id <= lastId'
        BY <1>1, <1>3, CallFields
           DEF CreatingIsFresh, TypeOK, IsMailboxOf, Id
    <2>3. new.id \notin DOMAIN episodes /\ new.id <= lastId'
        BY <1>1, <1>3, <2>1
    <2> QED BY <1>1, <1>3, <1>5, <2>2, <2>3 DEF CreatingIsFresh
<1>8. SavesAgree'
    BY <1>1, <1>3, <1>5 DEF SavesAgree
<1>9. DOMAIN episodes \subseteq DOMAIN episodes'
    BY <1>3
<1> QED BY <1>6, <1>7, <1>8, <1>9

\* A propagation saves copies of documents that have a podcast, and which
\* therefore agree with every save of the same ID.
LEMMA PropagationKeepsIdentity ==
    ASSUME IInv, TypeOK', NEW c \in Queued(calls),
           updateEpisodeFieldsRelatedToPodcast(c)
    PROVE  IInv' /\ DOMAIN episodes \subseteq DOMAIN episodes'
<1> USE DEF IInv
<1>1. c \in Call /\ c.op = "propagate"
    BY DEF TypeOK, IsMailboxOf, updateEpisodeFieldsRelatedToPodcast
<1>2. c.id \in Podcast /\ c.podcast.title \in Title \cup {None}
    BY <1>1, CallFields DEF PodcastDoc
<1>3. c.id # None
    BY <1>2, CatalogAssumption DEF CatalogAssumption
<1> DEFINE S == {[op |-> "saveEpisode", id |-> d,
                  episode |-> [episodes[d] EXCEPT
                                !.podcastTitle = c.podcast.title]] :
                    d \in findAllByPodcast(c.id)}
<1>4. \A e \in S : /\ e \in Call /\ e.op = "saveEpisode"
                  /\ e.id \in DOMAIN episodes
                  /\ episodes[e.id].podcastId # None
                  /\ SameEpisode(e.episode, episodes[e.id])
    BY <1>2, <1>3, CopiesAreCalls
<1>5. Continue(c, S)
    BY DEF updateEpisodeFieldsRelatedToPodcast
<1> HIDE DEF S
<1>6. UNCHANGED <<episodes, lastId>>
    BY DEF updateEpisodeFieldsRelatedToPodcast, store
<1>7. /\ Queued(calls') \subseteq Queued(calls) \cup S
      /\ \A e \in Queued(calls) \ S : e # c => calls'[e] = calls[e]
    BY <1>4, <1>5, ContinueCounts DEF TypeOK
<1>8. StoredIdsAreUsed'
    BY <1>6 DEF StoredIdsAreUsed
<1>9. CreatingIsFresh'
    BY <1>1, <1>4, <1>6, <1>7 DEF CreatingIsFresh
<1>10. SavesAgree'
    BY <1>4, <1>6, <1>7 DEF SavesAgree, SameEpisode
<1>11. DOMAIN episodes \subseteq DOMAIN episodes'
    BY <1>6
<1> QED BY <1>8, <1>9, <1>10, <1>11

LEMMA IdentityInit == Init => IInv
<1> SUFFICES ASSUME Init PROVE IInv
    OBVIOUS
<1>1. TypeOK
    BY TypeInit
<1>2. Queued(calls) = {} /\ DOMAIN episodes = {}
    BY EmptyMailbox DEF Init
<1> QED BY <1>1, <1>2
        DEF IInv, StoredIdsAreUsed, CreatingIsFresh, SavesAgree

LEMMA IdentityNext ==
    IInv /\ [Next]_vars => IInv' /\ DOMAIN episodes \subseteq DOMAIN episodes'
<1> SUFFICES ASSUME IInv, [Next]_vars
             PROVE  IInv' /\ DOMAIN episodes \subseteq DOMAIN episodes'
    OBVIOUS
<1>1. TypeOK /\ TypeOK'
    BY TypeNext DEF IInv
<1>2. lastId' = lastId /\ DocumentsStay /\ NothingNewToSave =>
        IInv' /\ DOMAIN episodes \subseteq DOMAIN episodes'
    BY <1>1, QuietStep DEF DocumentsStay
<1>3. CASE UNCHANGED <<calls, episodes, lastId>>
    BY <1>2, <1>3 DEF DocumentsStay, NothingNewToSave
<1>4. CASE UNCHANGED vars
    BY <1>3, <1>4 DEF vars
<1>5. CASE \E p \in Podcast : \E text \in Text[p] : ParseFeedData(p, text)
    BY <1>3, <1>5 DEF ParseFeedData
<1>6. CASE \E i \in Item : Air(i)
    BY <1>3, <1>6 DEF Air, store
<1>7. CASE CatalogStep
    <2>1. CASE \E m \in Queued(catalogBox) :
                \/ onUpdatePodcast(m) \/ onRegisterEpisodeIfNew(m)
                \/ onUpdateEpisode(m) \/ FindPodcastFails(m)
                \/ MessageFails(m)
        BY <1>2, <2>1, MessagesKeepIdentity
    <2>2. ASSUME NEW c \in Queued(calls),
                 \/ SavePodcast(c) \/ updateEpisodeFieldsRelatedToPodcast(c)
                 \/ SaveEpisode(c) \/ FindKnownEpisode(c)
                 \/ FindNewEpisode(c) \/ FindByEnclosure(c)
                 \/ CreateEpisode(c) \/ FindEpisodeFails(c)
                 \/ CallFails(c) \/ CreateUnconfirmed(c)
          PROVE  IInv' /\ DOMAIN episodes \subseteq DOMAIN episodes'
        <3>1. CASE SavePodcast(c) \/ FindKnownEpisode(c)
                    \/ FindByEnclosure(c) \/ CallFails(c)
            BY <1>2, <3>1, QuietReplies
        <3>2. CASE updateEpisodeFieldsRelatedToPodcast(c)
            BY <1>1, <3>2, PropagationKeepsIdentity
        <3>3. CASE SaveEpisode(c)
            BY <1>1, <3>3, SaveKeepsIdentity
        <3>4. CASE FindNewEpisode(c) \/ FindEpisodeFails(c)
            BY <1>1, <3>4, StartKeepsIdentity
               DEF FindNewEpisode, FindEpisodeFails
        <3>5. CASE CreateEpisode(c) \/ CreateUnconfirmed(c)
            BY <1>1, <3>5, CreateKeepsIdentity
        <3> QED BY <2>2, <3>1, <3>2, <3>3, <3>4, <3>5
    <2> QED BY <1>1, <1>7, <2>1, <2>2, CatalogStepCases
<1> QED BY <1>4, <1>5, <1>6, <1>7 DEF Next, CatalogStep

\* Whatever is about to be created or saved in EpisodeCatalog belongs to the
\* document it will be saved under: the IDs of new episodes are fresh, and the
\* copies of updateEpisodeFieldsRelatedToPodcast are of the stored episode.
THEOREM EpisodesInductive == Spec => []IInv
<1>1. Init => IInv
    BY IdentityInit
<1>2. IInv /\ [Next]_vars => IInv'
    BY IdentityNext
<1> QED BY <1>1, <1>2, PTL DEF Spec

-----------------------------------------------------------------------------
(***************************************************************************)
(* Whose a document is, or will be again.  onUpdateEpisode may take a      *)
(* document's podcast away, and a late save of a copy may give it back, so *)
(* documents are counted by what they or the copies of them say: that      *)
(* changes only when an episode is created.                                *)
(***************************************************************************)
\* No document comes to belong to anyone it did not belong to.
NobodyNew ==
    \A p \in Podcast, i \in Item : \A d :
        Belongs(d, p, i)' => Belongs(d, p, i)

LEMMA QuietIsNobodyNew ==
    ASSUME DocumentsStay, NothingNewToSave
    PROVE  NobodyNew
<1>1. \A p \in Podcast : p # None
    BY CatalogAssumption DEF CatalogAssumption
<1> QED
    BY <1>1 DEF NobodyNew, Belongs, IsOf, DocumentsStay, NothingNewToSave

\* A copy that is saved says nothing new.
LEMMA SaveIsNobodyNew ==
    ASSUME IInv, NEW c \in Queued(calls), SaveEpisode(c)
    PROVE  NobodyNew
<1>1. c \in Call /\ c.op = "saveEpisode" /\ c.id \in DOMAIN episodes
    BY DEF IInv, TypeOK, IsMailboxOf, SaveEpisode, SavesAgree
<1>2. /\ DOMAIN episodes' = DOMAIN episodes
      /\ episodes'[c.id] = c.episode
      /\ \A d \in DOMAIN episodes : d # c.id => episodes'[d] = episodes[d]
    BY <1>1 DEF SaveEpisode, Upsert
<1>3. NothingNewToSave
    BY ContinueIsQuiet DEF SaveEpisode, Harmless
<1> QED
    BY <1>1, <1>2, <1>3 DEF NobodyNew, Belongs, IsOf, NothingNewToSave

\* A propagation copies documents of the podcast, and keeps their items.
LEMMA PropagationIsNobodyNew ==
    ASSUME IInv, NEW c \in Queued(calls),
           updateEpisodeFieldsRelatedToPodcast(c)
    PROVE  NobodyNew
<1>1. c \in Call /\ c.op = "propagate"
    BY DEF IInv, TypeOK, IsMailboxOf, updateEpisodeFieldsRelatedToPodcast
<1>2. c.id \in Podcast /\ c.podcast.title \in Title \cup {None}
    BY <1>1, CallFields DEF PodcastDoc
<1> DEFINE S == {[op |-> "saveEpisode", id |-> d,
                  episode |-> [episodes[d] EXCEPT
                                !.podcastTitle = c.podcast.title]] :
                    d \in findAllByPodcast(c.id)}
<1>3. \A e \in S : /\ e \in Call /\ e.id \in DOMAIN episodes
                   /\ SameEpisode(e.episode, episodes[e.id])
    BY <1>2, CopiesAreCalls DEF IInv
<1>4. Continue(c, S) /\ UNCHANGED episodes
    BY DEF updateEpisodeFieldsRelatedToPodcast, store
<1> HIDE DEF S
<1>5. Queued(calls') \subseteq Queued(calls) \cup S
    BY <1>3, <1>4, ContinueKeepsCalls DEF IInv, TypeOK
<1> QED
    BY <1>3, <1>4, <1>5 DEF NobodyNew, Belongs, IsOf, SameEpisode

LEMMA StartIsNobodyNew ==
    ASSUME IInv, NEW c \in Queued(calls), c.op = "findEpisode",
           StartRegistration(c)
    PROVE  NobodyNew
<1> DEFINE new == [op |-> "createEpisode", id |-> lastId + 1,
                   episode |-> [c.episode EXCEPT
                                 !.podcastId = c.id,
                                 !.podcastTitle = c.podcast.title]]
<1>1. new \in Call /\ new.op = "createEpisode"
    BY StartedIsCall DEF IInv
<1>2. Continue(c, {new}) /\ UNCHANGED episodes
    BY DEF StartRegistration, store
<1> HIDE DEF new
<1>3. Queued(calls') \subseteq Queued(calls) \cup {new}
    BY <1>1, <1>2, ContinueKeepsCalls DEF IInv, TypeOK
<1> QED
    BY <1>1, <1>2, <1>3 DEF NobodyNew, Belongs

\* Only the creation of an episode makes a document belong to someone.
LEMMA CallIsNobodyNew ==
    ASSUME IInv, NEW c \in Queued(calls),
           \/ SavePodcast(c) \/ updateEpisodeFieldsRelatedToPodcast(c)
           \/ SaveEpisode(c) \/ FindKnownEpisode(c) \/ FindNewEpisode(c)
           \/ FindByEnclosure(c) \/ FindEpisodeFails(c) \/ CallFails(c)
    PROVE  NobodyNew /\ UNCHANGED indexed
<1>1. UNCHANGED indexed
    BY DEF SavePodcast, updateEpisodeFieldsRelatedToPodcast, SaveEpisode,
           FindKnownEpisode, FindNewEpisode, FindByEnclosure,
           FindEpisodeFails, CallFails, StartRegistration, store
<1>2. CASE SavePodcast(c) \/ FindKnownEpisode(c) \/ FindByEnclosure(c)
            \/ CallFails(c)
    BY <1>1, <1>2, QuietReplies, QuietIsNobodyNew
<1>3. CASE updateEpisodeFieldsRelatedToPodcast(c)
    BY <1>1, <1>3, PropagationIsNobodyNew
<1>4. CASE SaveEpisode(c)
    BY <1>1, <1>4, SaveIsNobodyNew
<1>5. CASE FindNewEpisode(c) \/ FindEpisodeFails(c)
    BY <1>1, <1>5, StartIsNobodyNew DEF FindNewEpisode, FindEpisodeFails
<1> QED
    BY <1>2, <1>3, <1>4, <1>5

LEMMA MessageIsNobodyNew ==
    ASSUME IInv, NEW m \in Queued(catalogBox),
           onUpdatePodcast(m) \/ onRegisterEpisodeIfNew(m)
                \/ onUpdateEpisode(m) \/ FindPodcastFails(m)
                \/ MessageFails(m)
    PROVE  NobodyNew /\ UNCHANGED indexed
<1>1. UNCHANGED indexed
    BY DEF onUpdatePodcast, onRegisterEpisodeIfNew, onUpdateEpisode,
           FindPodcastFails, MessageFails, store
<1> QED
    BY <1>1, MessagesKeepIdentity, QuietIsNobodyNew

\* An episode that is created belongs to whom its call says.
LEMMA CreationBelongs ==
    ASSUME IInv, NEW c \in Queued(calls),
           CreateEpisode(c) \/ CreateUnconfirmed(c)
    PROVE  /\ c.op = "createEpisode" /\ c.episode \in RegisteredEpisode
           /\ DOMAIN episodes' = DOMAIN episodes \cup {c.id}
           /\ \A p \in Podcast, i \in Item : \A d :
                Belongs(d, p, i)' =>
                    \/ Belongs(d, p, i)
                    \/ d = c.id /\ IsOf(c.episode, p, i)
<1>1. /\ c \in Call /\ c.op = "createEpisode"
      /\ Continue(c, {}) /\ Upsert(c.id, c.episode)
    BY DEF IInv, TypeOK, IsMailboxOf, CreateEpisode, CreateUnconfirmed
<1>2. c.episode \in RegisteredEpisode
    BY <1>1, CallFields
<1>3. c.id \notin DOMAIN episodes
    BY <1>1 DEF IInv, CreatingIsFresh
<1>4. /\ DOMAIN episodes' = DOMAIN episodes \cup {c.id}
      /\ episodes'[c.id] = c.episode
      /\ \A d \in DOMAIN episodes : episodes'[d] = episodes[d]
    BY <1>1, <1>3 DEF Upsert
<1>5. NothingNewToSave
    BY <1>1, ContinueIsQuiet DEF Harmless
<1>6. \A e \in Queued(calls) : e.op = "saveEpisode" => e.id # c.id
    BY <1>3 DEF IInv, SavesAgree
<1>7. ASSUME NEW p \in Podcast, NEW i \in Item, NEW d, Belongs(d, p, i)'
      PROVE  Belongs(d, p, i) \/ (d = c.id /\ IsOf(c.episode, p, i))
    BY <1>4, <1>5, <1>6, <1>7 DEF Belongs, IsOf, NothingNewToSave
<1> QED
    BY <1>1, <1>2, <1>4, <1>7

\* The steps that neither handle a message nor execute a call.
LEMMA WorldIsNobodyNew ==
    ASSUME IInv,
           \/ \E p \in Podcast : \E text \in Text[p] : ParseFeedData(p, text)
           \/ \E i \in Item : Air(i)
           \/ UNCHANGED vars
    PROVE  NobodyNew /\ UNCHANGED <<episodes, indexed, calls, faults>>
<1>1. UNCHANGED <<episodes, indexed, calls, faults>>
    BY DEF ParseFeedData, Air, vars, store
<1> QED
    BY <1>1 DEF NobodyNew, Belongs

LEMMA IdentityStays ==
    ASSUME IInv, [Next]_vars, NEW d \in DOMAIN episodes,
           NEW p \in Podcast, NEW i \in Item, Belongs(d, p, i)'
    PROVE  Belongs(d, p, i)
<1>1. NobodyNew => Belongs(d, p, i)
    BY DEF NobodyNew
<1>2. CASE \/ \E x \in Podcast : \E text \in Text[x] : ParseFeedData(x, text)
           \/ \E x \in Item : Air(x)
           \/ UNCHANGED vars
    BY <1>1, <1>2, WorldIsNobodyNew
<1>3. CASE CatalogStep
    <2>1. CASE \E m \in Queued(catalogBox) :
                \/ onUpdatePodcast(m) \/ onRegisterEpisodeIfNew(m)
                \/ onUpdateEpisode(m) \/ FindPodcastFails(m)
                \/ MessageFails(m)
        BY <1>1, <2>1, MessageIsNobodyNew
    <2>2. CASE \E c \in Queued(calls) :
                \/ SavePodcast(c) \/ updateEpisodeFieldsRelatedToPodcast(c)
                \/ SaveEpisode(c) \/ FindKnownEpisode(c)
                \/ FindNewEpisode(c) \/ FindByEnclosure(c)
                \/ FindEpisodeFails(c) \/ CallFails(c)
        BY <1>1, <2>2, CallIsNobodyNew
    <2>3. ASSUME NEW c \in Queued(calls),
                 CreateEpisode(c) \/ CreateUnconfirmed(c)
          PROVE  Belongs(d, p, i)
        <3>1. c.op = "createEpisode"
            BY <2>3 DEF CreateEpisode, CreateUnconfirmed
        <3>2. d # c.id
            BY <3>1 DEF IInv, CreatingIsFresh
        <3> QED BY <2>3, <3>2, CreationBelongs
    <2> QED BY <1>3, <2>1, <2>2, <2>3, CatalogStepCases DEF IInv
<1> QED BY <1>2, <1>3 DEF Next, CatalogStep

\* However checks, lookups, propagations, saves of episodes without an ID and
\* faults of the database interleave, and however often a feed is checked, no
\* document ever becomes that of another podcast or of another of its items,
\* in however many steps; one that an update without ID (onUpdateEpisode) took
\* from its podcast can only be given back (CatalogStore.onUpdatePodcast,
\* onRegisterEpisodeIfNew, updateEpisodeFieldsRelatedToPodcast).
THEOREM EpisodesStayThemselves == Spec => EpisodesKeepIdentity
<1> DEFINE Stays ==
        \A d \in DOMAIN episodes :
            /\ d \in DOMAIN episodes'
            /\ \A p \in Podcast, i \in Item :
                Belongs(d, p, i)' => Belongs(d, p, i)
<1>1. IInv /\ [Next]_vars => Stays
    BY IdentityNext, IdentityStays
<1>2. Spec => [][Stays]_vars
    BY <1>1, EpisodesInductive, PTL DEF Spec
<1> QED BY <1>2 DEF EpisodesKeepIdentity

-----------------------------------------------------------------------------
(***************************************************************************)
(* What the search cannot find.                                            *)
(***************************************************************************)
\* The documents that belong to an episode with a title, and that were not
\* sent to the index: the Unindexed, and those that may yet be of them.
Hidden ==
    {d \in DOMAIN episodes \ indexed :
        \E p \in Podcast, i \in Item \ WithoutTitle : Belongs(d, p, i)}

HiddenAreFaults ==
    /\ IsFiniteSet(Hidden) /\ Cardinality(Hidden) <= faults
    /\ indexed \subseteq DOMAIN episodes

LEMMA HiddenInit == Init => HiddenAreFaults
<1> SUFFICES ASSUME Init PROVE HiddenAreFaults
    OBVIOUS
<1>1. Hidden = {} /\ faults = 0 /\ indexed = {}
    BY DEF Init, Hidden
<1> QED
    BY <1>1, FS_EmptySet DEF HiddenAreFaults

\* Faults are counted by the steps in which a call fails.
LEMMA FaultsCounted ==
    ASSUME IInv, CatalogStep
    PROVE  \/ CatalogReceive /\ UNCHANGED faults
           \/ DatabaseReply /\ UNCHANGED faults
           \/ DatabaseFault /\ faults' = faults + 1
BY DEF CatalogStep, CatalogReceive, DatabaseReply, DatabaseFault

LEMMA HiddenStep ==
    ASSUME IInv, indexed \subseteq DOMAIN episodes, [Next]_vars
    PROVE  /\ indexed' \subseteq DOMAIN episodes'
           /\ \/ Hidden' \subseteq Hidden /\ faults' \in {faults, faults + 1}
              \/ /\ faults' = faults + 1
                 /\ \E d : Hidden' \subseteq Hidden \cup {d}
<1>1. DOMAIN episodes \subseteq DOMAIN episodes'
    BY IdentityNext
<1>2. ASSUME NobodyNew, UNCHANGED indexed
      PROVE  /\ indexed' \subseteq DOMAIN episodes'
             /\ Hidden' \subseteq Hidden
    BY <1>1, <1>2 DEF Hidden, NobodyNew, Belongs
<1>3. ASSUME NEW c \in Queued(calls), CreateEpisode(c)
      PROVE  /\ indexed' \subseteq DOMAIN episodes'
             /\ Hidden' \subseteq Hidden
    <2>1. /\ DOMAIN episodes' = DOMAIN episodes \cup {c.id}
          /\ \A p \in Podcast, i \in Item : \A d :
                Belongs(d, p, i)' =>
                    \/ Belongs(d, p, i)
                    \/ d = c.id /\ IsOf(c.episode, p, i)
        BY <1>3, CreationBelongs
    <2>2. indexed' = IF c.episode.item \in WithoutTitle THEN indexed
                     ELSE indexed \cup {c.id}
        BY <1>3 DEF CreateEpisode
    <2>3. ASSUME NEW d \in Hidden' PROVE d \in Hidden
        <3>1. PICK p \in Podcast, i \in Item \ WithoutTitle :
                d \notin indexed' /\ Belongs(d, p, i)'
            BY DEF Hidden
        <3>2. Belongs(d, p, i)
            BY <2>1, <2>2, <3>1 DEF IsOf
        <3>3. d \notin indexed /\ d \in DOMAIN episodes
            BY <2>2, <3>1, <3>2 DEF Belongs
        <3> QED
            BY <3>2, <3>3 DEF Hidden
    <2> QED
        BY <2>1, <2>2, <2>3
<1>4. ASSUME NEW c \in Queued(calls), CreateUnconfirmed(c)
      PROVE  /\ indexed' \subseteq DOMAIN episodes'
             /\ \E d : Hidden' \subseteq Hidden \cup {d}
    <2>1. \A p \in Podcast, i \in Item : \A d :
                Belongs(d, p, i)' => Belongs(d, p, i) \/ d = c.id
        BY <1>4, CreationBelongs
    <2>2. indexed' = indexed
        BY <1>4 DEF CreateUnconfirmed
    <2>3. Hidden' \subseteq Hidden \cup {c.id}
        BY <2>1, <2>2 DEF Hidden, Belongs
    <2> QED
        BY <1>1, <2>2, <2>3
<1>5. CASE UNCHANGED vars \/ (\E i \in Item : Air(i))
            \/ \E p \in Podcast : \E text \in Text[p] : ParseFeedData(p, text)
    BY <1>2, <1>5, WorldIsNobodyNew
<1>6. CASE CatalogReceive /\ UNCHANGED faults
    BY <1>2, <1>6, MessageIsNobodyNew DEF CatalogReceive
<1>7. CASE DatabaseReply /\ UNCHANGED faults
    BY <1>2, <1>3, <1>7, CallIsNobodyNew DEF DatabaseReply
<1>8. CASE DatabaseFault /\ faults' = faults + 1
    BY <1>2, <1>4, <1>8, CallIsNobodyNew, MessageIsNobodyNew
       DEF DatabaseFault
<1> QED
    BY <1>5, <1>6, <1>7, <1>8, FaultsCounted DEF Next, CatalogStep

LEMMA HiddenNext == IInv /\ HiddenAreFaults /\ [Next]_vars => HiddenAreFaults'
<1> SUFFICES ASSUME IInv, HiddenAreFaults, [Next]_vars
             PROVE  HiddenAreFaults'
    OBVIOUS
<1>1. /\ IsFiniteSet(Hidden) /\ Cardinality(Hidden) <= faults
      /\ indexed \subseteq DOMAIN episodes
    BY DEF HiddenAreFaults
<1>2. faults \in Nat
    BY CatalogAssumption DEF IInv, TypeOK, CatalogAssumption
<1>3. indexed' \subseteq DOMAIN episodes'
    BY <1>1, HiddenStep
<1>4. CASE Hidden' \subseteq Hidden /\ faults' \in {faults, faults + 1}
    <2>1. faults' \in Nat /\ faults <= faults'
        BY <1>2, <1>4
    <2>2. IsFiniteSet(Hidden') /\ Cardinality(Hidden') <= faults
        BY <1>1, <1>2, <1>4, SmallerSet
    <2>3. Cardinality(Hidden') \in Nat
        BY <2>2, FS_CardinalityType
    <2> QED
        BY <1>2, <1>3, <2>1, <2>2, <2>3 DEF HiddenAreFaults
<1>5. CASE faults' = faults + 1 /\ \E d : Hidden' \subseteq Hidden \cup {d}
    <2>1. PICK d : Hidden' \subseteq Hidden \cup {d}
        BY <1>5
    <2>2. IsFiniteSet(Hidden') /\ Cardinality(Hidden') <= faults + 1
        BY <1>1, <1>2, <2>1, LargerSet
    <2> QED
        BY <1>3, <1>5, <2>2 DEF HiddenAreFaults
<1> QED
    BY <1>1, <1>4, <1>5, HiddenStep

LEMMA UnindexedAreHidden ==
    ASSUME IInv, HiddenAreFaults
    PROVE  UnindexedAreFaults
<1>1. ASSUME NEW d \in Unindexed PROVE d \in Hidden
    <2>1. episodes[d] \in RegisteredEpisode /\ d \in DOMAIN episodes \ indexed
          /\ episodes[d].item \notin WithoutTitle
        BY DEF Unindexed, IInv, TypeOK, EpisodeDoc, ParsedEpisode
    <2>2. episodes[d].podcastId \in Podcast /\ episodes[d].item \in Item
        BY <2>1 DEF RegisteredEpisode
    <2> QED
        BY <2>1, <2>2 DEF Hidden, Belongs, IsOf
<1>2. faults \in Nat
    BY CatalogAssumption DEF IInv, TypeOK, CatalogAssumption
<1> QED
    BY <1>1, <1>2, SmallerSet DEF HiddenAreFaults, UnindexedAreFaults

\* Whatever is checked, propagated, overwritten and given back, the search
\* misses at most one episode with a title for each fault of the database,
\* and finds none that is not stored (CatalogStore.onRegisterEpisodeIfNew).
THEOREM FaultsHideEpisodes == Spec => []UnindexedAreFaults
<1>1. Spec => []HiddenAreFaults
    BY HiddenInit, HiddenNext, EpisodesInductive, PTL DEF Spec
<1> QED
    BY <1>1, UnindexedAreHidden, EpisodesInductive, PTL

-----------------------------------------------------------------------------
(***************************************************************************)
(* How many documents an episode may get.  A check pays for one: what it   *)
(* pays for is a message, then the lookup it starts, then the creation the *)
(* lookup starts, then the document.                                       *)
(***************************************************************************)
Registering(p, i) ==
    {m \in Message : /\ m.type = "RegisterEpisodeIfNew"
                     /\ m.id = p
                     /\ m.episode.item = i}

Looking(p, i) ==
    {c \in Call : \/ c.op = "findEpisode" /\ c.id = p /\ c.episode.item = i
                  \/ c.op = "createEpisode" /\ IsOf(c.episode, p, i)}

Documents(p, i) == {d \in DOMAIN episodes : Belongs(d, p, i)}

\* m messages, c calls and n documents at most.
Spent(m, c, n, p, i) ==
    /\ AtMost(m, Registering(p, i), catalogBox)
    /\ AtMost(c, Looking(p, i), calls)
    /\ IsFiniteSet(Documents(p, i)) /\ Cardinality(Documents(p, i)) <= n

ChecksPay(p, i) ==
    \E m, c, n \in Nat : Spent(m, c, n, p, i) /\ m + c + n <= parsed[p]

ChecksPayForAll == \A p \in Podcast, i \in Item : ChecksPay(p, i)

LEMMA PayInit == Init => ChecksPayForAll
<1> SUFFICES ASSUME Init, NEW p \in Podcast, NEW i \in Item
             PROVE  ChecksPay(p, i)
    BY DEF ChecksPayForAll
<1>1. Documents(p, i) = {}
    BY DEF Init, Documents
<1>2. Spent(0, 0, 0, p, i)
    BY <1>1, NoTokens, FS_EmptySet DEF Init, Spent
<1>3. parsed[p] = 0
    BY DEF Init
<1> QED
    BY <1>2, <1>3 DEF ChecksPay

\* Documents stay as few if nobody new belongs to the episode.
LEMMA DocumentsFrame ==
    ASSUME NEW p \in Podcast, NEW i \in Item, NEW n \in Nat,
           IsFiniteSet(Documents(p, i)), Cardinality(Documents(p, i)) <= n,
           NobodyNew
    PROVE  IsFiniteSet(Documents(p, i)') /\ Cardinality(Documents(p, i)') <= n
<1>1. Documents(p, i)' \subseteq Documents(p, i)
    BY DEF Documents, NobodyNew, Belongs
<1> QED
    BY <1>1, SmallerSet

\* The bags are bags.
LEMMA BagsAreBags == ASSUME IInv PROVE IsABag(catalogBox) /\ IsABag(calls)
BY DEF IInv, TypeOK, IsMailboxOf

\* A check that lists the episode sends one message for it.
LEMMA ParsePays ==
    ASSUME IInv, NEW p \in Podcast, NEW i \in Item, ChecksPay(p, i),
           NEW q \in Podcast, NEW text \in Text[q], ParseFeedData(q, text)
    PROVE  ChecksPay(p, i)'
<1>1. PICK m \in Nat, c \in Nat, n \in Nat :
            Spent(m, c, n, p, i) /\ m + c + n <= parsed[p]
    BY DEF ChecksPay
<1> DEFINE K == Registering(p, i)
           M == {UpdatePodcast(q, [title |-> text.title])}
                \cup {RegisterEpisodeIfNew(q, extractEpisode(j, text.title)) :
                        j \in text.items}
           one == RegisterEpisodeIfNew(p, extractEpisode(i, text.title))
<1>2. catalogBox' = PostAll(catalogBox, M)
    BY DEF ParseFeedData
<1>3. M \cap K \subseteq (IF q = p THEN {one} ELSE {})
    BY DEF Registering, RegisterEpisodeIfNew, extractEpisode, UpdatePodcast
<1> HIDE DEF M, one
<1>4. /\ q # p => AtMost(m, K, catalogBox')
      /\ q = p => AtMost(m + 1, K, catalogBox')
    BY <1>1, <1>2, <1>3, BagsAreBags, PostAllAtMost DEF Spent
<1>5. Documents(p, i)' = Documents(p, i) /\ calls' = calls
    BY DEF ParseFeedData, Documents, Belongs
<1>6. parsed[p] \in Nat /\ parsed'[p] = parsed[p] + (IF q = p THEN 1 ELSE 0)
    BY DEF ParseFeedData, IInv, TypeOK
<1>7. CASE q # p
    <2>1. Spent(m, c, n, p, i)'
        BY <1>1, <1>4, <1>5, <1>7 DEF Spent, Registering
    <2> QED
        BY <1>1, <1>6, <1>7, <2>1 DEF ChecksPay
<1>8. CASE q = p
    <2>1. Spent(m + 1, c, n, p, i)'
        BY <1>1, <1>4, <1>5, <1>8 DEF Spent
    <2>2. m + 1 \in Nat /\ (m + 1) + c + n <= parsed'[p]
        BY <1>1, <1>6, <1>8
    <2> QED
        BY <2>1, <2>2 DEF ChecksPay
<1> QED
    BY <1>7, <1>8

\* A message that is received starts no creation, and a lookup only if it is
\* a registration.
LEMMA MessagePays ==
    ASSUME IInv, NEW p \in Podcast, NEW i \in Item, ChecksPay(p, i),
           UNCHANGED parsed, NEW m \in Queued(catalogBox),
           onUpdatePodcast(m) \/ onRegisterEpisodeIfNew(m)
                \/ onUpdateEpisode(m) \/ FindPodcastFails(m)
                \/ MessageFails(m)
    PROVE  ChecksPay(p, i)'
<1>1. PICK a \in Nat, b \in Nat, n \in Nat :
            Spent(a, b, n, p, i) /\ a + b + n <= parsed[p]
    BY DEF ChecksPay
<1>2. IsFiniteSet(Documents(p, i)') /\ Cardinality(Documents(p, i)') <= n
    BY <1>1, MessageIsNobodyNew, DocumentsFrame DEF Spent
<1>3. AtMost(a, Registering(p, i), Take(catalogBox, m))
      /\ (m \in Registering(p, i) =>
            a > 0 /\ AtMost(a - 1, Registering(p, i), Take(catalogBox, m)))
    BY <1>1, BagsAreBags, TakeAtMost DEF Spent
<1>4. ASSUME NEW S, Handle(m, S), S \cap Looking(p, i) = {}
      PROVE  ChecksPay(p, i)'
    <2>1. AtMost(a, Registering(p, i), catalogBox')
        BY <1>3, <1>4 DEF Handle
    <2>2. AtMost(b, Looking(p, i), calls')
        BY <1>1, <1>4, BagsAreBags, PostAllAtMost DEF Handle, Spent
    <2>3. Spent(a, b, n, p, i)'
        BY <1>2, <2>1, <2>2 DEF Spent
    <2> QED
        BY <1>1, <2>3 DEF ChecksPay
<1>5. CASE onRegisterEpisodeIfNew(m)
    <2> DEFINE find == [op |-> "findEpisode", id |-> m.id,
                        podcast |-> podcasts[m.id], episode |-> m.episode]
    <2>1. Handle(m, {find})
        BY <1>5 DEF onRegisterEpisodeIfNew
    <2>2. CASE find \notin Looking(p, i)
        BY <1>4, <2>1, <2>2
    <2>3. CASE find \in Looking(p, i)
        <3>1. m \in Registering(p, i)
            BY <1>5, <2>3
               DEF Registering, Looking, onRegisterEpisodeIfNew, IInv, TypeOK,
                   IsMailboxOf
        <3> HIDE DEF find
        <3>2. a - 1 \in Nat /\ AtMost(a - 1, Registering(p, i), catalogBox')
            BY <1>3, <2>1, <3>1 DEF Handle
        <3>3. AtMost(b + 1, Looking(p, i), calls')
            BY <1>1, <2>1, BagsAreBags, PostAllAtMost DEF Handle, Spent
        <3>4. Spent(a - 1, b + 1, n, p, i)'
            BY <1>2, <3>2, <3>3 DEF Spent
        <3>5. b + 1 \in Nat /\ (a - 1) + (b + 1) + n <= parsed'[p]
            BY <1>1, <3>2 DEF IInv, TypeOK
        <3> QED
            BY <3>2, <3>4, <3>5 DEF ChecksPay
    <2> QED
        BY <2>2, <2>3
<1>6. CASE onUpdatePodcast(m) \/ FindPodcastFails(m)
    <2>1. PICK doc : Handle(m, SaveAndPropagate(m.id, doc))
        BY <1>6 DEF onUpdatePodcast, FindPodcastFails
    <2>2. SaveAndPropagate(m.id, doc) \cap Looking(p, i) = {}
        BY DEF SaveAndPropagate, Looking
    <2> QED
        BY <1>4, <2>1, <2>2
<1>7. CASE onUpdateEpisode(m) \/ MessageFails(m)
    BY <1>4, <1>7 DEF onUpdateEpisode, MessageFails
<1> QED
    BY <1>5, <1>6, <1>7

\* A lookup starts one creation at most, and nothing else does.
LEMMA CallPays ==
    ASSUME IInv, NEW p \in Podcast, NEW i \in Item, ChecksPay(p, i),
           UNCHANGED parsed, NEW c \in Queued(calls),
           \/ SavePodcast(c) \/ updateEpisodeFieldsRelatedToPodcast(c)
           \/ SaveEpisode(c) \/ FindKnownEpisode(c) \/ FindNewEpisode(c)
           \/ FindByEnclosure(c) \/ FindEpisodeFails(c) \/ CallFails(c)
    PROVE  ChecksPay(p, i)'
<1>1. PICK a \in Nat, b \in Nat, n \in Nat :
            Spent(a, b, n, p, i) /\ a + b + n <= parsed[p]
    BY DEF ChecksPay
<1>2. IsFiniteSet(Documents(p, i)') /\ Cardinality(Documents(p, i)') <= n
    BY <1>1, CallIsNobodyNew, DocumentsFrame DEF Spent
<1>3. /\ IsABag(Take(calls, c))
      /\ AtMost(b, Looking(p, i), Take(calls, c))
      /\ c \in Looking(p, i) =>
            b > 0 /\ AtMost(b - 1, Looking(p, i), Take(calls, c))
    BY <1>1, BagsAreBags, TakeAtMost, TakeRemovesCopy DEF Spent
<1>4. AtMost(a, Registering(p, i), catalogBox')
    <2>1. CASE UNCHANGED catalogBox
        BY <1>1, <2>1 DEF Spent
    <2>2. CASE FindKnownEpisode(c)
        <3>1. {UpdateEpisode(c.episode)} \cap Registering(p, i) = {}
            BY DEF UpdateEpisode, Registering
        <3>2. catalogBox' = PostAll(catalogBox, {UpdateEpisode(c.episode)})
            BY <2>2 DEF FindKnownEpisode, Post, PostAll
        <3> QED
            BY <1>1, <3>1, <3>2, BagsAreBags, PostAllAtMost DEF Spent
    <2> QED
        BY <2>1, <2>2
           DEF SavePodcast, updateEpisodeFieldsRelatedToPodcast, SaveEpisode,
               FindNewEpisode, FindByEnclosure, FindEpisodeFails, CallFails,
               StartRegistration
<1>5. ASSUME NEW S, Continue(c, S), S \cap Looking(p, i) = {}
      PROVE  ChecksPay(p, i)'
    <2>1. AtMost(b, Looking(p, i), calls')
        BY <1>3, <1>5, PostAllAtMost DEF Continue
    <2>2. Spent(a, b, n, p, i)'
        BY <1>2, <1>4, <2>1 DEF Spent
    <2> QED
        BY <1>1, <2>2 DEF ChecksPay
<1>6. CASE FindNewEpisode(c) \/ FindEpisodeFails(c)
    <2> DEFINE new == [op |-> "createEpisode", id |-> lastId + 1,
                       episode |-> [c.episode EXCEPT
                                     !.podcastId = c.id,
                                     !.podcastTitle = c.podcast.title]]
    <2>1. Continue(c, {new}) /\ c.op = "findEpisode"
        BY <1>6 DEF FindNewEpisode, FindEpisodeFails, StartRegistration
    <2>2. CASE new \notin Looking(p, i)
        BY <1>5, <2>1, <2>2
    <2>3. CASE new \in Looking(p, i)
        <3>1. c \in Call /\ c.episode \in ParsedEpisode
            BY <2>1, CallFields DEF IInv, TypeOK, IsMailboxOf
        <3>2. c.id = p /\ c.episode.item = i
            BY <2>3, <3>1 DEF Looking, IsOf, ParsedEpisode
        <3>3. c \in Looking(p, i)
            BY <2>1, <3>1, <3>2 DEF Looking
        <3> HIDE DEF new
        <3>4. b - 1 \in Nat /\ AtMost(b - 1, Looking(p, i), Take(calls, c))
            BY <1>3, <3>3
        <3>5. AtMost((b - 1) + 1, Looking(p, i), calls')
            BY <1>3, <2>1, <3>4, PostAllAtMost DEF Continue
        <3>6. Spent(a, b, n, p, i)'
            BY <1>2, <1>4, <3>5 DEF Spent
        <3> QED
            BY <1>1, <3>6 DEF ChecksPay
    <2> QED
        BY <2>2, <2>3
<1>7. CASE updateEpisodeFieldsRelatedToPodcast(c)
    <2>1. {[op |-> "saveEpisode", id |-> d,
            episode |-> [episodes[d] EXCEPT
                            !.podcastTitle = c.podcast.title]] :
                d \in findAllByPodcast(c.id)} \cap Looking(p, i) = {}
        BY DEF Looking
    <2> QED
        BY <1>5, <1>7, <2>1 DEF updateEpisodeFieldsRelatedToPodcast
<1>8. CASE SavePodcast(c) \/ SaveEpisode(c) \/ FindKnownEpisode(c)
            \/ FindByEnclosure(c) \/ CallFails(c)
    BY <1>5, <1>8
       DEF SavePodcast, SaveEpisode, FindKnownEpisode, FindByEnclosure,
           CallFails
<1> QED
    BY <1>6, <1>7, <1>8

\* A creation turns into a document.
LEMMA CreationPays ==
    ASSUME IInv, NEW p \in Podcast, NEW i \in Item, ChecksPay(p, i),
           UNCHANGED parsed, NEW c \in Queued(calls),
           CreateEpisode(c) \/ CreateUnconfirmed(c)
    PROVE  ChecksPay(p, i)'
<1>1. PICK a \in Nat, b \in Nat, n \in Nat :
            Spent(a, b, n, p, i) /\ a + b + n <= parsed[p]
    BY DEF ChecksPay
<1>2. Continue(c, {}) /\ UNCHANGED catalogBox
    BY DEF CreateEpisode, CreateUnconfirmed
<1>3. /\ IsABag(Take(calls, c))
      /\ AtMost(b, Looking(p, i), Take(calls, c))
      /\ c \in Looking(p, i) =>
            b > 0 /\ AtMost(b - 1, Looking(p, i), Take(calls, c))
    BY <1>1, BagsAreBags, TakeAtMost, TakeRemovesCopy DEF Spent
<1>4. c.op = "createEpisode"
      /\ Documents(p, i)' \subseteq Documents(p, i)
            \cup (IF IsOf(c.episode, p, i) THEN {c.id} ELSE {})
    <2>1. c.op = "createEpisode"
          /\ \A d : Belongs(d, p, i)' =>
                \/ Belongs(d, p, i)
                \/ d = c.id /\ IsOf(c.episode, p, i)
        BY CreationBelongs
    <2>2. \A d : Belongs(d, p, i) => d \in Documents(p, i)
        BY DEF Documents, Belongs
    <2>3. \A d \in Documents(p, i)' : Belongs(d, p, i)'
        BY DEF Documents
    <2> QED
        BY <2>1, <2>2, <2>3
<1>5. CASE IsOf(c.episode, p, i)
    <2>1. c \in Looking(p, i)
        BY <1>4, <1>5 DEF Looking, IInv, TypeOK, IsMailboxOf
    <2>2. b - 1 \in Nat /\ AtMost(b - 1, Looking(p, i), calls')
        BY <1>2, <1>3, <2>1, PostAllAtMost DEF Continue
    <2>3. IsFiniteSet(Documents(p, i)')
          /\ Cardinality(Documents(p, i)') <= n + 1
        BY <1>1, <1>4, <1>5, LargerSet DEF Spent
    <2>4. Spent(a, b - 1, n + 1, p, i)'
        BY <1>1, <1>2, <2>2, <2>3 DEF Spent
    <2>5. n + 1 \in Nat /\ a + (b - 1) + (n + 1) <= parsed'[p]
        BY <1>1, <2>2 DEF IInv, TypeOK
    <2> QED
        BY <2>2, <2>4, <2>5 DEF ChecksPay
<1>6. CASE ~ IsOf(c.episode, p, i)
    <2>1. AtMost(b, Looking(p, i), calls')
        BY <1>2, <1>3, PostAllAtMost DEF Continue
    <2>2. IsFiniteSet(Documents(p, i)') /\ Cardinality(Documents(p, i)') <= n
        BY <1>1, <1>4, <1>6, SmallerSet DEF Spent
    <2>3. Spent(a, b, n, p, i)'
        BY <1>1, <1>2, <2>1, <2>2 DEF Spent
    <2> QED
        BY <1>1, <2>3 DEF ChecksPay
<1> QED
    BY <1>5, <1>6

LEMMA PayNext == IInv /\ ChecksPayForAll /\ [Next]_vars => ChecksPayForAll'
<1> SUFFICES ASSUME IInv, ChecksPayForAll, [Next]_vars,
                    NEW p \in Podcast, NEW i \in Item
             PROVE  ChecksPay(p, i)'
    BY DEF ChecksPayForAll
<1>1. ChecksPay(p, i)
    BY DEF ChecksPayForAll
<1>2. CASE \E q \in Podcast : \E text \in Text[q] : ParseFeedData(q, text)
    BY <1>1, <1>2, ParsePays
<1>3. CASE UNCHANGED <<catalogBox, calls, episodes, parsed>>
    BY <1>1, <1>3 DEF ChecksPay, Spent, Documents, Belongs
<1>4. CASE UNCHANGED vars \/ \E j \in Item : Air(j)
    BY <1>3, <1>4 DEF vars, Air, store
<1>5. CASE CatalogStep
    <2>1. UNCHANGED parsed
        BY <1>5, CatalogStepCases DEF IInv, world
    <2>2. CASE \E m \in Queued(catalogBox) :
                \/ onUpdatePodcast(m) \/ onRegisterEpisodeIfNew(m)
                \/ onUpdateEpisode(m) \/ FindPodcastFails(m)
                \/ MessageFails(m)
        BY <1>1, <2>1, <2>2, MessagePays
    <2>3. ASSUME NEW c \in Queued(calls),
                 \/ SavePodcast(c) \/ updateEpisodeFieldsRelatedToPodcast(c)
                 \/ SaveEpisode(c) \/ FindKnownEpisode(c)
                 \/ FindNewEpisode(c) \/ FindByEnclosure(c)
                 \/ CreateEpisode(c) \/ FindEpisodeFails(c)
                 \/ CallFails(c) \/ CreateUnconfirmed(c)
          PROVE  ChecksPay(p, i)'
        BY <1>1, <2>1, <2>3, CallPays, CreationPays
    <2> QED
        BY <1>5, <2>2, <2>3, CatalogStepCases DEF IInv
<1> QED
    BY <1>2, <1>4, <1>5 DEF Next, CatalogStep

\* However lookups, saves, propagations and faults interleave, and although a
\* lookup does not see what is being created, the documents of an episode are
\* at most as many as the checks of its feed (CatalogStore.
\* onRegisterEpisodeIfNew).
THEOREM ChecksBoundCopies == Spec => []CopiesAreChecks
<1>1. Spec => []ChecksPayForAll
    BY PayInit, PayNext, EpisodesInductive, PTL DEF Spec
<1>2. IInv /\ ChecksPayForAll => CopiesAreChecks
    <2> SUFFICES ASSUME IInv, ChecksPayForAll, NEW p \in Podcast, NEW i \in Item
                 PROVE  Cardinality(Copies(p, i)) <= parsed[p]
        BY DEF CopiesAreChecks
    <2>1. PICK a \in Nat, b \in Nat, n \in Nat :
                Spent(a, b, n, p, i) /\ a + b + n <= parsed[p]
        BY DEF ChecksPayForAll, ChecksPay
    <2>2. Copies(p, i) \subseteq Documents(p, i)
        BY DEF Copies, Documents, Belongs, IsOf
    <2>3. IsFiniteSet(Copies(p, i)) /\ Cardinality(Copies(p, i)) <= n
        BY <2>1, <2>2, SmallerSet DEF Spent
    <2>4. Cardinality(Copies(p, i)) \in Nat /\ parsed[p] \in Nat
        BY <2>3, FS_CardinalityType DEF IInv, TypeOK
    <2> QED
        BY <2>1, <2>3, <2>4
<1> QED
    BY <1>1, <1>2, EpisodesInductive, PTL

-----------------------------------------------------------------------------
(***************************************************************************)
(* Why titles are repaired.  A check that starts when all is quiet finds   *)
(* the title of an earlier one stored.  From then on no call carries       *)
(* another title of the podcast, and once the title has been propagated    *)
(* each of its episodes has it, or a save under way gives it that title.   *)
(***************************************************************************)
\* The case in which titles are repaired.
Undisturbed ==
    /\ faults = 0 /\ ~disturbed
    /\ \A p \in Podcast : \A text \in Text[p] : text.title # None

TitlesAreTold ==
    /\ \A m \in Queued(catalogBox) :
        m.type = "UpdatePodcast" => m.podcast.title # None
    /\ \A c \in Queued(calls) : c.op = "savePodcast" => c.podcast.title # None

\* Podcast p has a title, or is about to have one.
TitleComes(p) ==
    \/ podcasts[p].title # None
    \/ \E m \in Queued(catalogBox) : m.type = "UpdatePodcast" /\ m.id = p
    \/ \E c \in Queued(calls) : c.op = "savePodcast" /\ c.id = p

\* Call c saves no other title than t for podcast p or for an episode of it.
Carries(c, p, t) ==
    /\ c.op \in {"savePodcast", "propagate", "findEpisode"} /\ c.id = p
        => c.podcast.title = t
    /\ c.op \in {"createEpisode", "saveEpisode"} /\ c.episode.podcastId = p
        => c.episode.podcastTitle = t

\* The title of podcast p is still to be handed on to its episodes.
Propagating(p) ==
    \/ \E m \in Queued(catalogBox) : m.type = "UpdatePodcast" /\ m.id = p
    \/ \E c \in Queued(calls) : c.op = "propagate" /\ c.id = p

HasTitle(e, p, t) ==
    e.podcastId = p /\ e.item \in aired => e.podcastTitle = t

\* Document d is not of podcast p, or has its title, or is about to.
Repaired(d, p) ==
    \/ HasTitle(episodes[d], p, podcasts[p].title)
    \/ \E c \in Queued(calls) : c.op = "saveEpisode" /\ c.id = d

RepairUnderWay(p) ==
    /\ podcasts[p].title # None
    /\ \A c \in Queued(calls) : Carries(c, p, podcasts[p].title)
    /\ Propagating(p) \/ \A d \in DOMAIN episodes : Repaired(d, p)

RepairComes(p) ==
    /\ parsed[p] > 0 => TitleComes(p)
    /\ parsed[p] > 1 => RepairUnderWay(p)

RepairsCome ==
    Undisturbed => TitlesAreTold /\ \A p \in Podcast : RepairComes(p)

LEMMA RepairsInit == Init => RepairsCome
<1> SUFFICES ASSUME Init PROVE TitlesAreTold /\ \A p \in Podcast : RepairComes(p)
    BY DEF RepairsCome
<1>1. Queued(catalogBox) = {} /\ Queued(calls) = {}
    BY EmptyMailbox DEF Init
<1>2. \A p \in Podcast : parsed[p] = 0
    BY DEF Init
<1> QED
    BY <1>1, <1>2 DEF TitlesAreTold, RepairComes

\* A check starts when all is quiet: nothing carries an old title, and what
\* was to come has come.
LEMMA ParseRepairs ==
    ASSUME IInv, Settled, TitlesAreTold,
           \A p \in Podcast : \A text \in Text[p] : text.title # None,
           \A p \in Podcast : RepairComes(p),
           NEW q \in Podcast, NEW text \in Text[q], ParseFeedData(q, text)
    PROVE  TitlesAreTold' /\ \A p \in Podcast : RepairComes(p)'
<1> DEFINE update == UpdatePodcast(q, [title |-> text.title])
           M == {RegisterEpisodeIfNew(q, extractEpisode(i, text.title)) :
                    i \in text.items}
<1>1. /\ Queued(calls) = {} /\ Queued(catalogBox) = {}
      /\ UNCHANGED <<podcasts, episodes, calls, aired>>
      /\ catalogBox' = PostAll(catalogBox, {update} \cup M)
    BY EmptyMailbox DEF Settled, ParseFeedData
<1>2. Queued(catalogBox') = {update} \cup M
    BY <1>1, BagsAreBags, PostAllQueued
<1>3. /\ update.type = "UpdatePodcast" /\ update.id = q
      /\ update.podcast.title # None
      /\ \A m \in M : m.type = "RegisterEpisodeIfNew"
    BY DEF UpdatePodcast, RegisterEpisodeIfNew
<1> HIDE DEF update, M
<1>4. TitlesAreTold'
    BY <1>1, <1>2, <1>3 DEF TitlesAreTold
<1>5. ASSUME NEW p \in Podcast PROVE RepairComes(p)'
    <2>1. parsed[p] \in Nat /\ parsed'[p] = parsed[p] + (IF q = p THEN 1 ELSE 0)
        BY DEF ParseFeedData, IInv, TypeOK
    <2>2. parsed[p] > 0 => podcasts[p].title # None
        BY <1>1 DEF RepairComes, TitleComes
    <2>3. CASE p = q
        <3>1. TitleComes(p)' /\ Propagating(p)'
            BY <1>2, <1>3, <2>3 DEF TitleComes, Propagating
        <3>2. parsed'[p] > 1 => podcasts'[p].title # None
            BY <1>1, <2>1, <2>2
        <3> QED
            BY <1>1, <3>1, <3>2 DEF RepairComes, RepairUnderWay
    <2>4. CASE p # q
        <3>1. parsed'[p] = parsed[p]
            BY <2>1, <2>4
        <3>2. parsed[p] > 1 => RepairUnderWay(p)'
            BY <1>1 DEF RepairComes, RepairUnderWay, Propagating, Repaired,
                        HasTitle
        <3> QED
            BY <1>1, <2>2, <3>1, <3>2 DEF RepairComes, TitleComes
    <2> QED
        BY <2>3, <2>4
<1> QED
    BY <1>4, <1>5

-----------------------------------------------------------------------------
\* What a message or call that is done must leave of a repair.
LEMMA RepairFrame ==
    ASSUME NEW p \in Podcast, RepairComes(p), UNCHANGED world,
           \/ podcasts'[p].title = podcasts[p].title
           \/ ~(parsed[p] > 1),
           TitleComes(p) => TitleComes(p)',
           parsed[p] > 1 =>
                \A c \in Queued(calls') \ Queued(calls) :
                    Carries(c, p, podcasts[p].title),
           RepairUnderWay(p) =>
                Propagating(p)' \/ \A d \in DOMAIN episodes' : Repaired(d, p)'
    PROVE  RepairComes(p)'
<1>1. parsed'[p] = parsed[p]
    BY DEF world
<1>2. parsed[p] > 0 => TitleComes(p)'
    BY DEF RepairComes
<1>3. ASSUME parsed[p] > 1, podcasts'[p].title = podcasts[p].title
      PROVE  RepairUnderWay(p)'
    BY <1>3 DEF RepairComes, RepairUnderWay
<1> QED
    BY <1>1, <1>2, <1>3 DEF RepairComes

\* The stored title wins over the parsed one.
LEMMA PatchedTitle ==
    ASSUME NEW doc \in PodcastDoc, NEW stored \in PodcastDoc
    PROVE  patchRight(doc, stored).title
                = (IF stored.title = None THEN doc.title ELSE stored.title)
BY DEF PodcastDoc, patchRight, reduceRight

\* A message that is received hands on what it is about.
LEMMA MessageRepairs ==
    ASSUME IInv, TitlesAreTold, \A p \in Podcast : RepairComes(p),
           UNCHANGED world, NEW m \in Queued(catalogBox),
           onUpdatePodcast(m) \/ onRegisterEpisodeIfNew(m)
                \/ onUpdateEpisode(m)
    PROVE  TitlesAreTold' /\ \A p \in Podcast : RepairComes(p)'
<1>1. m \in Message
    BY DEF IInv, TypeOK, IsMailboxOf
<1>2. UNCHANGED podcasts /\ aired' = aired
    BY DEF onUpdatePodcast, onRegisterEpisodeIfNew, onUpdateEpisode, store,
           world
<1>3. ASSUME NEW S, Handle(m, S)
      PROVE  /\ Queued(catalogBox') \subseteq Queued(catalogBox)
             /\ Queued(catalogBox) \ {m} \subseteq Queued(catalogBox')
             /\ Queued(calls') = Queued(calls) \cup S
    BY <1>3, BagsAreBags, TakeQueued, PostAllQueued DEF Handle
<1>4. CASE onUpdatePodcast(m)
    <2> DEFINE doc == patchRight(m.podcast, podcasts[m.id])
               save == [op |-> "savePodcast", id |-> m.id, podcast |-> doc]
               hand == [op |-> "propagate", id |-> m.id, podcast |-> doc]
    <2>1. /\ m.type = "UpdatePodcast" /\ Handle(m, {save, hand})
          /\ UNCHANGED episodes
        BY <1>4 DEF onUpdatePodcast, SaveAndPropagate, store
    <2>2. m.id \in Podcast /\ m.podcast \in PodcastDoc
        BY <1>1, <2>1, MessageFields
    <2>3. doc.title = IF podcasts[m.id].title = None THEN m.podcast.title
                      ELSE podcasts[m.id].title
        BY <2>2, PatchedTitle DEF IInv, TypeOK
    <2>4. doc.title # None
        BY <2>1, <2>3 DEF TitlesAreTold
    <2>5. /\ save.op = "savePodcast" /\ save.id = m.id /\ save.podcast = doc
          /\ hand.op = "propagate" /\ hand.id = m.id /\ hand.podcast = doc
        OBVIOUS
    <2> HIDE DEF doc, save, hand
    <2>6. /\ Queued(catalogBox') \subseteq Queued(catalogBox)
          /\ Queued(catalogBox) \ {m} \subseteq Queued(catalogBox')
          /\ Queued(calls') = Queued(calls) \cup {save, hand}
        BY <1>3, <2>1
    <2>7. TitlesAreTold'
        BY <2>4, <2>5, <2>6 DEF TitlesAreTold
    <2>8. ASSUME NEW p \in Podcast PROVE RepairComes(p)'
        <3>1. TitleComes(p) => TitleComes(p)'
            BY <1>2, <2>5, <2>6 DEF TitleComes
        <3>2. parsed[p] > 1 =>
                Carries(save, p, podcasts[p].title)
                    /\ Carries(hand, p, podcasts[p].title)
            BY <2>3, <2>5 DEF RepairComes, RepairUnderWay, Carries
        <3>3. Propagating(p) => Propagating(p)'
            BY <2>5, <2>6 DEF Propagating
        <3>4. ASSUME NEW d, Repaired(d, p) PROVE Repaired(d, p)'
            BY <1>2, <2>1, <2>6, <3>4 DEF Repaired, HasTitle
        <3>5. RepairUnderWay(p) =>
                Propagating(p)' \/ \A d \in DOMAIN episodes' : Repaired(d, p)'
            BY <2>1, <3>3, <3>4 DEF RepairUnderWay
        <3> QED
            BY <1>2, <2>6, <3>1, <3>2, <3>5, RepairFrame
    <2> QED
        BY <2>7, <2>8
<1>5. ASSUME NEW S, Handle(m, S), m.type # "UpdatePodcast",
             \A c \in S : c.op = "findEpisode" /\ c.podcast = podcasts[c.id],
             DOMAIN episodes' = DOMAIN episodes,
             \A d \in DOMAIN episodes :
                episodes'[d] = episodes[d]
                    \/ episodes'[d].podcastId \notin Podcast
      PROVE  TitlesAreTold' /\ \A p \in Podcast : RepairComes(p)'
    <2>1. /\ Queued(catalogBox') \subseteq Queued(catalogBox)
          /\ Queued(catalogBox) \ {m} \subseteq Queued(catalogBox')
          /\ Queued(calls') = Queued(calls) \cup S
        BY <1>3, <1>5
    <2>2. TitlesAreTold'
        BY <1>5, <2>1 DEF TitlesAreTold
    <2>3. ASSUME NEW p \in Podcast PROVE RepairComes(p)'
        <3>1. TitleComes(p) => TitleComes(p)'
            BY <1>2, <1>5, <2>1 DEF TitleComes
        <3>2. \A c \in S : Carries(c, p, podcasts[p].title)
            BY <1>5 DEF Carries
        <3>3. Propagating(p) => Propagating(p)'
            BY <1>5, <2>1 DEF Propagating
        <3>4. ASSUME NEW d \in DOMAIN episodes, Repaired(d, p)
              PROVE  Repaired(d, p)'
            BY <1>2, <1>5, <2>1, <3>4 DEF Repaired, HasTitle
        <3>5. RepairUnderWay(p) =>
                Propagating(p)' \/ \A d \in DOMAIN episodes' : Repaired(d, p)'
            BY <1>5, <3>3, <3>4 DEF RepairUnderWay
        <3> QED
            BY <1>2, <2>1, <3>1, <3>2, <3>5, RepairFrame
    <2> QED
        BY <2>2, <2>3
<1>6. CASE onRegisterEpisodeIfNew(m)
    BY <1>5, <1>6 DEF onRegisterEpisodeIfNew, store
<1>7. CASE onUpdateEpisode(m)
    <2>1. m.type = "UpdateEpisode" /\ Handle(m, {})
        BY <1>7 DEF onUpdateEpisode
    <2>2. m.episode.podcastId = None
        BY <1>1, <2>1, MessageFields DEF ParsedEpisode
    <2>3. None \notin Podcast
        BY CatalogAssumption DEF CatalogAssumption
    <2>4. /\ DOMAIN episodes' = DOMAIN episodes
          /\ \A d \in DOMAIN episodes :
                episodes'[d] = episodes[d] \/ episodes'[d] = m.episode
        BY <1>7 DEF onUpdateEpisode
    <2> QED
        BY <1>5, <2>1, <2>2, <2>3, <2>4
<1> QED
    BY <1>4, <1>6, <1>7

LEMMA ContinueKeepsOthers ==
    ASSUME IInv, NEW c, NEW S, Continue(c, S)
    PROVE  /\ Queued(calls') \subseteq Queued(calls) \cup S
           /\ S \cup (Queued(calls) \ {c}) \subseteq Queued(calls')
<1> DEFINE rest == Take(calls, c)
<1>1. /\ IsABag(rest) /\ Queued(rest) \subseteq Queued(calls)
      /\ Queued(calls) \ {c} \subseteq Queued(rest)
    BY BagsAreBags, TakeQueued
<1> HIDE DEF rest
<1>2. Queued(PostAll(rest, S)) = Queued(rest) \cup S
    BY <1>1, PostAllQueued
<1> QED
    BY <1>1, <1>2 DEF Continue, rest

\* A lookup hands on the title it was given.
LEMMA LookupRepairs ==
    ASSUME IInv, TitlesAreTold, \A p \in Podcast : RepairComes(p),
           UNCHANGED world, NEW c \in Queued(calls),
           FindKnownEpisode(c) \/ FindNewEpisode(c) \/ FindByEnclosure(c)
    PROVE  TitlesAreTold' /\ \A p \in Podcast : RepairComes(p)'
<1> DEFINE new == [op |-> "createEpisode", id |-> lastId + 1,
                   episode |-> [c.episode EXCEPT
                                 !.podcastId = c.id,
                                 !.podcastTitle = c.podcast.title]]
<1>1. /\ c.op = "findEpisode" /\ UNCHANGED <<podcasts, episodes>>
      /\ aired' = aired
      /\ Continue(c, {}) \/ Continue(c, {new})
    BY DEF FindKnownEpisode, FindNewEpisode, FindByEnclosure,
           StartRegistration, store, world
<1>2. /\ Queued(catalogBox) \subseteq Queued(catalogBox')
      /\ \A m \in Queued(catalogBox') \ Queued(catalogBox) :
            m.type # "UpdatePodcast"
    BY BagsAreBags, PostQueued
       DEF FindKnownEpisode, FindNewEpisode, FindByEnclosure,
           StartRegistration, UpdateEpisode
<1>3. c.episode \in ParsedEpisode
    BY <1>1, CallFields DEF IInv, TypeOK, IsMailboxOf
<1>4. /\ new.op = "createEpisode" /\ new.episode.podcastId = c.id
      /\ new.episode.podcastTitle = c.podcast.title
    BY <1>3 DEF ParsedEpisode
<1> HIDE DEF new
<1>5. /\ Queued(calls') \subseteq Queued(calls) \cup {new}
      /\ Queued(calls) \ {c} \subseteq Queued(calls')
    BY <1>1, ContinueKeepsOthers
<1>6. TitlesAreTold'
    BY <1>2, <1>4, <1>5 DEF TitlesAreTold
<1>7. ASSUME NEW p \in Podcast PROVE RepairComes(p)'
    <2>1. TitleComes(p) => TitleComes(p)'
        BY <1>1, <1>2, <1>5 DEF TitleComes
    <2>2. parsed[p] > 1 => Carries(new, p, podcasts[p].title)
        BY <1>1, <1>4 DEF RepairComes, RepairUnderWay, Carries
    <2>3. Propagating(p) => Propagating(p)'
        BY <1>1, <1>2, <1>5 DEF Propagating
    <2>4. ASSUME NEW d, Repaired(d, p) PROVE Repaired(d, p)'
        BY <1>1, <1>5, <2>4 DEF Repaired, HasTitle
    <2>5. RepairUnderWay(p) =>
            Propagating(p)' \/ \A d \in DOMAIN episodes' : Repaired(d, p)'
        BY <1>1, <2>3, <2>4 DEF RepairUnderWay
    <2> QED
        BY <1>1, <1>5, <2>1, <2>2, <2>5, RepairFrame
<1> QED
    BY <1>6, <1>7

\* The save of a podcast gives it a title, and changes none that a second
\* check relies on.
LEMMA PodcastRepairs ==
    ASSUME IInv, TitlesAreTold, \A p \in Podcast : RepairComes(p),
           UNCHANGED world, NEW c \in Queued(calls), SavePodcast(c)
    PROVE  TitlesAreTold' /\ \A p \in Podcast : RepairComes(p)'
<1>1. /\ c.op = "savePodcast" /\ Continue(c, {}) /\ aired' = aired
      /\ UNCHANGED <<catalogBox, episodes>>
      /\ podcasts' = [podcasts EXCEPT ![c.id] = c.podcast]
    BY DEF SavePodcast, world
<1>2. /\ Queued(calls') \subseteq Queued(calls)
      /\ Queued(calls) \ {c} \subseteq Queued(calls')
    BY <1>1, ContinueKeepsOthers
<1>3. TitlesAreTold'
    BY <1>1, <1>2 DEF TitlesAreTold
<1>4. ASSUME NEW p \in Podcast PROVE RepairComes(p)'
    <2>1. podcasts'[p] = IF p = c.id THEN c.podcast ELSE podcasts[p]
        BY <1>1 DEF IInv, TypeOK
    <2>2. c.podcast.title # None
        BY <1>1 DEF TitlesAreTold
    <2>3. parsed[p] > 1 => podcasts'[p].title = podcasts[p].title
        BY <1>1, <2>1 DEF RepairComes, RepairUnderWay, Carries
    <2>4. TitleComes(p) => TitleComes(p)'
        BY <1>1, <1>2, <2>1, <2>2 DEF TitleComes
    <2>5. Propagating(p) => Propagating(p)'
        BY <1>1, <1>2 DEF Propagating
    <2>6. ASSUME RepairUnderWay(p), NEW d, Repaired(d, p) PROVE Repaired(d, p)'
        <3>1. podcasts'[p].title = podcasts[p].title
            BY <1>1, <2>1, <2>6 DEF RepairUnderWay, Carries
        <3> QED
            BY <1>1, <1>2, <2>6, <3>1 DEF Repaired, HasTitle
    <2>7. RepairUnderWay(p) =>
            Propagating(p)' \/ \A d \in DOMAIN episodes' : Repaired(d, p)'
        BY <1>1, <2>5, <2>6 DEF RepairUnderWay
    <2> QED
        BY <1>2, <2>3, <2>4, <2>7, RepairFrame
<1> QED
    BY <1>3, <1>4

\* The propagation of a title saves every episode the query finds.
LEMMA PropagationRepairs ==
    ASSUME IInv, TitlesAreTold, \A p \in Podcast : RepairComes(p),
           UNCHANGED world, NEW c \in Queued(calls),
           updateEpisodeFieldsRelatedToPodcast(c)
    PROVE  TitlesAreTold' /\ \A p \in Podcast : RepairComes(p)'
<1> DEFINE save(d) == [op |-> "saveEpisode", id |-> d,
                       episode |-> [episodes[d] EXCEPT
                                     !.podcastTitle = c.podcast.title]]
           S == {save(d) : d \in findAllByPodcast(c.id)}
<1>1. /\ c.op = "propagate" /\ Continue(c, S) /\ aired' = aired
      /\ UNCHANGED <<catalogBox, podcasts, episodes>>
    BY DEF updateEpisodeFieldsRelatedToPodcast, store, world
<1>2. ASSUME NEW d \in findAllByPodcast(c.id)
      PROVE  /\ save(d).op = "saveEpisode" /\ save(d).id = d
             /\ save(d).episode.podcastId = c.id
             /\ save(d).episode.podcastTitle = c.podcast.title
    <2>1. d \in DOMAIN episodes /\ episodes[d].podcastId = c.id
        BY DEF findAllByPodcast, Visible
    <2>2. episodes[d] \in EpisodeDoc
        BY <2>1 DEF IInv, TypeOK
    <2> QED
        BY <2>1, <2>2 DEF EpisodeDoc, ParsedEpisode, RegisteredEpisode
<1>3. \A e \in S : /\ e.op = "saveEpisode" /\ e.episode.podcastId = c.id
                   /\ e.episode.podcastTitle = c.podcast.title
    BY <1>2
<1>4. \A d \in findAllByPodcast(c.id) :
        \E e \in S : e.op = "saveEpisode" /\ e.id = d
    BY <1>2
<1> HIDE DEF save, S
<1>5. /\ Queued(calls') \subseteq Queued(calls) \cup S
      /\ S \cup (Queued(calls) \ {c}) \subseteq Queued(calls')
    BY <1>1, ContinueKeepsOthers
<1>6. TitlesAreTold'
    BY <1>1, <1>3, <1>5 DEF TitlesAreTold
<1>7. ASSUME NEW p \in Podcast PROVE RepairComes(p)'
    <2>1. TitleComes(p) => TitleComes(p)'
        BY <1>1, <1>5 DEF TitleComes
    <2>2. parsed[p] > 1 => \A e \in S : Carries(e, p, podcasts[p].title)
        BY <1>1, <1>3 DEF RepairComes, RepairUnderWay, Carries
    <2>3. CASE p = c.id
        <3>1. ASSUME NEW d \in DOMAIN episodes PROVE Repaired(d, p)'
            <4>1. CASE d \in findAllByPodcast(p)
                BY <1>4, <1>5, <2>3, <4>1 DEF Repaired
            <4>2. CASE d \notin findAllByPodcast(p)
                BY <1>1, <4>2
                   DEF findAllByPodcast, Visible, Repaired, HasTitle
            <4> QED
                BY <4>1, <4>2
        <3> QED
            BY <1>1, <1>5, <2>1, <2>2, <3>1, RepairFrame
    <2>4. CASE p # c.id
        <3>1. Propagating(p) => Propagating(p)'
            BY <1>1, <1>5, <2>4 DEF Propagating
        <3>2. ASSUME NEW d, Repaired(d, p) PROVE Repaired(d, p)'
            BY <1>1, <1>5, <3>2 DEF Repaired, HasTitle
        <3>3. RepairUnderWay(p) =>
                Propagating(p)' \/ \A d \in DOMAIN episodes' : Repaired(d, p)'
            BY <1>1, <3>1, <3>2 DEF RepairUnderWay
        <3> QED
            BY <1>1, <1>5, <2>1, <2>2, <3>3, RepairFrame
    <2> QED
        BY <2>3, <2>4
<1> QED
    BY <1>6, <1>7

\* A document that is saved has the title its call carries.
LEMMA DocumentRepairs ==
    ASSUME IInv, TitlesAreTold, \A p \in Podcast : RepairComes(p),
           UNCHANGED world, NEW c \in Queued(calls),
           SaveEpisode(c) \/ CreateEpisode(c)
    PROVE  TitlesAreTold' /\ \A p \in Podcast : RepairComes(p)'
<1>1. /\ c.op \in {"saveEpisode", "createEpisode"} /\ Continue(c, {})
      /\ aired' = aired /\ UNCHANGED <<catalogBox, podcasts>>
    BY DEF SaveEpisode, CreateEpisode, world
<1>2. /\ DOMAIN episodes' = DOMAIN episodes \cup {c.id}
      /\ episodes'[c.id] = c.episode
      /\ \A d \in DOMAIN episodes \ {c.id} : episodes'[d] = episodes[d]
    BY DEF SaveEpisode, CreateEpisode, Upsert
<1>3. /\ Queued(calls') \subseteq Queued(calls)
      /\ Queued(calls) \ {c} \subseteq Queued(calls')
    BY <1>1, ContinueKeepsOthers
<1>4. TitlesAreTold'
    BY <1>1, <1>3 DEF TitlesAreTold
<1>5. ASSUME NEW p \in Podcast PROVE RepairComes(p)'
    <2>1. TitleComes(p) => TitleComes(p)'
        BY <1>1, <1>3 DEF TitleComes
    <2>2. Propagating(p) => Propagating(p)'
        BY <1>1, <1>3 DEF Propagating
    <2>3. ASSUME RepairUnderWay(p) PROVE Repaired(c.id, p)'
        BY <1>1, <1>2, <2>3 DEF RepairUnderWay, Carries, Repaired, HasTitle
    <2>4. ASSUME NEW d \in DOMAIN episodes \ {c.id}, Repaired(d, p)
          PROVE  Repaired(d, p)'
        BY <1>1, <1>2, <1>3, <2>4 DEF Repaired, HasTitle
    <2>5. RepairUnderWay(p) =>
            Propagating(p)' \/ \A d \in DOMAIN episodes' : Repaired(d, p)'
        BY <1>2, <2>2, <2>3, <2>4 DEF RepairUnderWay
    <2> QED
        BY <1>1, <1>3, <2>1, <2>5, RepairFrame
<1> QED
    BY <1>4, <1>5

-----------------------------------------------------------------------------
\* What disturbs a check stays on record.
LEMMA UndisturbedBefore ==
    ASSUME IInv, [Next]_vars, Undisturbed'
    PROVE  /\ Undisturbed
           /\ \A q \in Podcast : \A text \in Text[q] :
                ParseFeedData(q, text) => Settled
           /\ \A i \in Item : Air(i) => \A p \in Podcast : ~(parsed[p] > 0)
           /\ ~DatabaseFault
<1>1. MaxFaults \in Nat /\ faults \in 0 .. MaxFaults
    BY CatalogAssumption DEF CatalogAssumption, IInv, TypeOK
<1>2. ~DatabaseFault
    BY <1>1 DEF DatabaseFault, Undisturbed
<1>3. \A q \in Podcast : \A text \in Text[q] :
        ParseFeedData(q, text) => Settled /\ ~disturbed /\ faults' = faults
    BY DEF ParseFeedData, Undisturbed
<1>4. \A i \in Item :
        Air(i) => /\ \A p \in Podcast : ~(parsed[p] > 0)
                  /\ ~disturbed /\ faults' = faults
    BY DEF Air, Undisturbed
<1>5. ASSUME CatalogReceive \/ DatabaseReply PROVE Undisturbed
    BY <1>5 DEF CatalogReceive, DatabaseReply, world, Undisturbed
<1>6. ASSUME UNCHANGED vars PROVE Undisturbed
    BY <1>6 DEF vars, Undisturbed
<1>7. Undisturbed
    BY <1>2, <1>3, <1>4, <1>5, <1>6 DEF Next, Undisturbed
<1> QED
    BY <1>2, <1>3, <1>4, <1>7

LEMMA RepairsNext == IInv /\ RepairsCome /\ [Next]_vars => RepairsCome'
<1> SUFFICES ASSUME IInv, RepairsCome, [Next]_vars, Undisturbed'
             PROVE  TitlesAreTold' /\ \A p \in Podcast : RepairComes(p)'
    BY DEF RepairsCome
<1>1. Undisturbed /\ ~DatabaseFault
    BY UndisturbedBefore
<1>2. TitlesAreTold /\ \A p \in Podcast : RepairComes(p)
    BY <1>1 DEF RepairsCome
<1>3. CASE \E q \in Podcast : \E text \in Text[q] : ParseFeedData(q, text)
    BY <1>1, <1>2, <1>3, ParseRepairs, UndisturbedBefore DEF Undisturbed
<1>4. CASE \E i \in Item : Air(i)
    <2>1. /\ \A p \in Podcast : ~(parsed[p] > 0)
          /\ UNCHANGED <<catalogBox, calls, parsed>>
        BY <1>4, UndisturbedBefore DEF Air
    <2>2. \A p \in Podcast : parsed[p] \in Nat /\ ~(parsed'[p] > 1)
        BY <2>1 DEF IInv, TypeOK
    <2> QED
        BY <1>2, <2>1, <2>2 DEF TitlesAreTold, RepairComes
<1>5. CASE CatalogReceive
    BY <1>2, <1>5, MessageRepairs DEF CatalogReceive
<1>6. CASE DatabaseReply
    BY <1>2, <1>6, LookupRepairs, PodcastRepairs, PropagationRepairs,
       DocumentRepairs DEF DatabaseReply
<1>7. CASE UNCHANGED vars
    BY <1>2, <1>7 DEF vars, TitlesAreTold, RepairComes, TitleComes,
                      RepairUnderWay, Propagating, Repaired, HasTitle
<1> QED
    BY <1>1, <1>3, <1>4, <1>5, <1>6, <1>7 DEF Next

\* No step changes a title that a second check has come upon.
TitlesStay ==
    \A p \in Podcast :
        parsed[p] > 1 => podcasts'[p].title = podcasts[p].title

LEMMA RepairsKeepTitles ==
    ASSUME IInv, RepairsCome, [Next]_vars, Undisturbed' PROVE TitlesStay
<1>1. Undisturbed /\ ~DatabaseFault
    BY UndisturbedBefore
<1>2. ASSUME NEW c \in Queued(calls), SavePodcast(c) PROVE TitlesStay
    <2>1. /\ c.op = "savePodcast"
          /\ podcasts' = [podcasts EXCEPT ![c.id] = c.podcast]
        BY <1>2 DEF SavePodcast
    <2>2. \A p \in Podcast :
            parsed[p] > 1 => Carries(c, p, podcasts[p].title)
        BY <1>1 DEF RepairsCome, RepairComes, RepairUnderWay
    <2> QED
        BY <2>1, <2>2 DEF TitlesStay, Carries, IInv, TypeOK
<1>3. CASE UNCHANGED podcasts
    BY <1>3 DEF TitlesStay
<1>4. CASE CatalogReceive
    BY <1>3, <1>4 DEF CatalogReceive, onUpdatePodcast,
       onRegisterEpisodeIfNew, onUpdateEpisode, store
<1>5. CASE DatabaseReply
    BY <1>2, <1>3, <1>5
       DEF DatabaseReply, updateEpisodeFieldsRelatedToPodcast, SaveEpisode,
           FindKnownEpisode, FindNewEpisode, StartRegistration,
           FindByEnclosure, CreateEpisode, store
<1>6. CASE \/ \E p \in Podcast : \E text \in Text[p] : ParseFeedData(p, text)
           \/ \E i \in Item : Air(i)
           \/ UNCHANGED vars
    BY <1>3, <1>6 DEF ParseFeedData, Air, store, vars
<1> QED
    BY <1>1, <1>4, <1>5, <1>6 DEF Next

\* Why the metadata of a podcast does not follow its feed: as long as checks do
\* not overlap and no call fails, and if every text has a title, the title that
\* a podcast has when it is parsed a second time is its title for good, whatever
\* the feed says from then on (CatalogStore.onUpdatePodcast patches the stored
\* values over the parsed ones).
THEOREM FirstTitleStays == Spec => [][Undisturbed' => TitlesStay]_vars
<1>1. Init => RepairsCome
    BY RepairsInit
<1>2. IInv /\ RepairsCome /\ [Next]_vars => RepairsCome'
    BY RepairsNext
<1>3. IInv /\ RepairsCome /\ [Next]_vars => (Undisturbed' => TitlesStay)
    BY RepairsKeepTitles
<1> QED BY <1>1, <1>2, <1>3, EpisodesInductive, PTL DEF Spec

\* A check that overlaps with no other gives the podcast's title to all its
\* episodes that the query finds, those of earlier checks included that were
\* stored without one: neither a lookup that read the podcast before, nor an
\* update without an ID, nor a save of a document read earlier undoes that
\* (CatalogStore.updateEpisodeFieldsRelatedToPodcast).
THEOREM ChecksRepairTitles == Spec => []TitlesAreRepaired
<1>1. ASSUME IInv, RepairsCome PROVE TitlesAreRepaired
    <2> SUFFICES ASSUME Settled, Undisturbed, NEW d \in DOMAIN episodes,
                        NEW p \in Podcast, episodes[d].podcastId = p,
                        parsed[p] > 1, episodes[d].item \in aired
                 PROVE  episodes[d].podcastTitle = podcasts[p].title
        BY DEF TitlesAreRepaired, Undisturbed
    <2>1. Queued(catalogBox) = {} /\ Queued(calls) = {}
        BY EmptyMailbox DEF Settled
    <2>2. RepairUnderWay(p)
        BY <1>1 DEF RepairsCome, RepairComes
    <2>3. Repaired(d, p)
        BY <2>1, <2>2 DEF RepairUnderWay, Propagating
    <2> QED
        BY <2>1, <2>3 DEF Repaired, HasTitle
<1>2. IInv /\ RepairsCome => TitlesAreRepaired
    BY <1>1
<1> QED
    BY <1>2, EpisodesInductive, RepairsInit, RepairsNext, PTL DEF Spec
=============================================================================
