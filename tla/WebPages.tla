------------------------------ MODULE WebPages ------------------------------
(***************************************************************************)
(* The pages of the web application (Main.elm, Router.elm and Page/*.elm): *)
(* the page that is open, what it asked of the REST API, and the answers   *)
(* it holds.  A page's model does not know what it was opened for, so an   *)
(* answer goes into whatever page of its kind is open when it arrives; and *)
(* the search form of the home page and of a search page writes back, with *)
(* every keystroke, the whole model of the page that was drawn last.       *)
(*                                                                         *)
(* A data answer keeps the ID of what it describes and whether the part    *)
(* that the views branch on is there: the entries of a list of feeds, the  *)
(* description of an episode.  The form of Page/Propose is left out.       *)
(***************************************************************************)
EXTENDS Naturals, Sequences

CONSTANTS
    Routes,       \* the places a user goes to: [kind, id]
    Id,           \* IDs of podcasts and episodes, and search queries
    NoId,         \* a route without ID, a search without parameters
    NotAsked,     \* RemoteData.NotAsked
    Failure,      \* RemoteData.Failure
    MaxVisits     \* how often a user goes somewhere

\* What a page of each kind holds of the API's answers.
Fields(kind) ==
    CASE kind = "home" -> {"newestPodcasts", "latestEpisodes", "databaseStats"}
      [] kind = "podcast" -> {"podcast", "episodes", "feeds"}
      [] kind = "episode" -> {"episode"}
      [] kind = "search" -> {"result"}
      [] kind = "discover" -> {"podcasts"}
      [] kind = "propose" -> {}

Kind == {"home", "podcast", "episode", "search", "discover", "propose"}
Field == UNION {Fields(kind) : kind \in Kind}

ASSUME WebAssumption ==
    /\ Routes \subseteq [kind : Kind, id : Id \cup {NoId}]
    /\ NoId \notin Id
    /\ MaxVisits \in Nat \ {0}

Request == [what : Field, id : Id \cup {NoId}, visit : 1 .. MaxVisits]
Answer == [id : Id \cup {NoId}, some : BOOLEAN]
WebData == Answer \cup {NotAsked, Failure}

ASSUME DataAssumption == NotAsked # Failure /\ {NotAsked, Failure} \cap Answer = {}

Success(data) == data \notin {NotAsked, Failure}

VARIABLES
    route,        \* Main.Model.route, whose kind is that of Main.Model.content
    page,         \* the open page's model; NotAsked in every other kind's field
    pending,      \* requests that are not answered
    visits,       \* how many times the URL has changed
    form,         \* the page that the search form of the document writes back
    late,         \* history: what was pending when the page was opened
    overtaken,    \* history: fields whose own answer came before a late one
    writtenBack,  \* history: fields a keystroke reset, not answered since
    buttonCalls,  \* calls of the port podloveSubscribeButton on their way
    playerCalls   \* calls of the port podloveWebPlayer on their way

histVars == <<late, overtaken, writtenBack>>
pageVars == <<route, page, pending, visits, form, histVars, buttonCalls, playerCalls>>

-----------------------------------------------------------------------------
\* PodloveButton's model; NoId stands for the empty one's.
EmptyButton == [podcast |-> NoId, feeds |-> NoId]
ButtonModel == [podcast : Id \cup {NoId}, feeds : Id \cup {NoId}]

\* The page shows a subscribe button: there are a podcast and a first feed.
HasButton(data) ==
    Success(data["podcast"]) /\ Success(data["feeds"]) /\ data["feeds"].some

toPodloveButtonModel(data) ==
    IF HasButton(data)
    THEN [podcast |-> data["podcast"].id, feeds |-> data["feeds"].id]
    ELSE EmptyButton

\* PodlovePlayer's model: the episode's audio; chapters are never filled.
PlayerModel == [episode : Id \cup {NoId}, chapters : {<<>>}]

modelToPodlovePlayerModel(data) ==
    [episode |-> IF Success(data["episode"]) THEN data["episode"].id ELSE NoId,
     chapters |-> <<>>]

\* What the view of an episode shows below its player.
HasDescription(data) == Success(data["episode"]) /\ data["episode"].some

-----------------------------------------------------------------------------
\* What a page holds when it is opened.
EmptyPage == [field \in Field |-> NotAsked]

\* The pages with a search form, which holds the model it was drawn from.
HasSearchForm(kind) == kind \in {"home", "search"}
SearchForm(kind, data) ==
    [kind |-> kind, page |-> IF HasSearchForm(kind) THEN data ELSE EmptyPage]

\* A page asks for all it shows when it is opened, and a search page only
\* with parameters.
Asks(r, visit) ==
    IF r.kind = "search" /\ r.id = NoId THEN {}
    ELSE {[what |-> field, id |-> r.id, visit |-> visit] : field \in Fields(r.kind)}

\* UrlChanged, after a click on a link, the submission of a search (whose
\* page shows Loading until then, in the same turn of the browser's event
\* loop), the browser's back button.  The requests of the page before go on.
Open(r) ==
    /\ visits < MaxVisits
    /\ visits' = visits + 1
    /\ route' = r
    /\ page' = EmptyPage
    /\ late' = pending
    /\ overtaken' = {}
    /\ writtenBack' = {}
    /\ pending' = pending \cup Asks(r, visits + 1)
    /\ UNCHANGED <<form, buttonCalls, playerCalls>>

\* What the API, or the browser when it gives up, says to a request.
AnswersTo(request) ==
    {[id |-> request.id, some |-> some] :
        some \in IF request.what \in {"feeds", "episode"} THEN BOOLEAN ELSE {TRUE}}
    \cup {Failure}

\* The histories of an answer: the page's own is overtaken when one that an
\* earlier page asked for is still to come, and makes good what a keystroke
\* has reset.
Remember(request) ==
    LET own == request \in Asks(route, visits) IN
    /\ overtaken' = IF own /\ \E other \in pending \ {request} : other.what = request.what
                    THEN overtaken \cup {request.what} ELSE overtaken
    /\ writtenBack' = IF own THEN writtenBack \ {request.what} ELSE writtenBack
    /\ UNCHANGED late

\* What the page holds after an answer to a request: a page of another kind
\* ignores it.
Filled(request, data) ==
    IF request.what \in Fields(route.kind)
    THEN [page EXCEPT ![request.what] = data] ELSE page

\* Mutant: only the first podcast a page is told of calls JavaScript.
ReceiveCallingOnce(request, data) ==
    LET filled == Filled(request, data)
        takes(what) == request.what = what /\ what \in Fields(route.kind) IN
    /\ pending' = pending \ {request}
    /\ page' = filled
    /\ buttonCalls' = IF takes("podcast") /\ ~Success(page["podcast"])
                      THEN Append(buttonCalls, toPodloveButtonModel(filled))
                      ELSE buttonCalls
    /\ playerCalls' = IF takes("episode")
                      THEN Append(playerCalls, modelToPodlovePlayerModel(filled))
                      ELSE playerCalls
    /\ Remember(request)
    /\ UNCHANGED <<route, visits, form>>

\* Mutant: a page keeps the first answer it gets for each of its fields.
ReceiveOnce(request, data) ==
    LET filled == IF page[request.what] = NotAsked THEN Filled(request, data) ELSE page
        takes(what) == request.what = what /\ what \in Fields(route.kind) IN
    /\ pending' = pending \ {request}
    /\ page' = filled
    /\ buttonCalls' = IF takes("podcast")
                      THEN Append(buttonCalls, toPodloveButtonModel(filled))
                      ELSE buttonCalls
    /\ playerCalls' = IF takes("episode")
                      THEN Append(playerCalls, modelToPodlovePlayerModel(filled))
                      ELSE playerCalls
    /\ Remember(request)
    /\ UNCHANGED <<route, visits, form>>

\* An answer arrives.  The answers about a podcast and an episode call
\* JavaScript; the one about feeds builds the call as well, and drops it.
Receive(request, data) ==
    LET filled == Filled(request, data)
        takes(what) == request.what = what /\ what \in Fields(route.kind) IN
    /\ pending' = pending \ {request}
    /\ page' = filled
    /\ buttonCalls' = IF takes("podcast")
                      THEN Append(buttonCalls, toPodloveButtonModel(filled))
                      ELSE buttonCalls
    /\ playerCalls' = IF takes("episode")
                      THEN Append(playerCalls, modelToPodlovePlayerModel(filled))
                      ELSE playerCalls
    /\ Remember(request)
    /\ UNCHANGED <<route, visits, form>>

\* A keystroke in the search form of the document, which carries the whole
\* model the document was drawn from and replaces that of the open page, if
\* that is of the same kind: what has been answered since the document was
\* drawn is gone, and a page opened since gets what the one before it held.
\* (The query is left out; a keystroke that changes nothing else is no step.)
UpdateModel ==
    /\ HasSearchForm(route.kind)
    /\ form.kind = route.kind
    /\ page # form.page
    /\ page' = form.page
    /\ writtenBack' = writtenBack
                        \cup {field \in Field : page[field] # form.page[field]}
    /\ UNCHANGED <<route, pending, visits, form, late, overtaken, buttonCalls, playerCalls>>

PagesTypeOK ==
    /\ route \in Routes
    /\ page \in [Field -> WebData]
    /\ pending \subseteq Request
    /\ visits \in 1 .. MaxVisits
    /\ form \in [kind : Kind, page : [Field -> WebData]]
    /\ late \subseteq Request
    /\ overtaken \subseteq Field
    /\ writtenBack \subseteq Field
    /\ buttonCalls \in Seq(ButtonModel)
    /\ playerCalls \in Seq(PlayerModel)
=============================================================================
