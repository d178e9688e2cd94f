------------------------------- MODULE WebApp -------------------------------
(***************************************************************************)
(* The web application in a browser: the Elm program and the JavaScript    *)
(* beside it, which index.js puts together.  An answer changes the page    *)
(* and hands calls to the ports at once; the document follows at the next  *)
(* animation frame, and a port passes a call on before or after it ("the   *)
(* button can be null, if the Elm view has not been rendered yet").        *)
(***************************************************************************)
EXTENDS WebPages, PodloveWidgets

\* The values for what is not there are no others.
ASSUME NothingAssumption ==
    /\ Nothing \notin Id \cup {NoId}
    /\ Absent \notin Seq(ButtonModel)
    /\ Absent \notin Seq({Complete(config) : config \in PlayerModel})
    /\ Absent \notin [content : Id \cup {NoId}, innerHTML : Id \cup {NoId}]

VARIABLE
    dirty       \* an animation frame has been requested

vars == <<pageVars, domVars, dirty>>

-----------------------------------------------------------------------------
\* Elm.Main.init draws the home page without data, then goes to the URL
\* that the browser opened; index.js subscribes both callbacks meanwhile.
Init ==
    /\ route \in Routes
    /\ page = EmptyPage
    /\ pending = Asks(route, 1)
    /\ visits = 1
    /\ form = SearchForm("home", EmptyPage)
    /\ late = {}
    /\ overtaken = {}
    /\ writtenBack = {}
    /\ buttonCalls = <<>>
    /\ playerCalls = <<>>
    /\ DomInit
    /\ dirty = TRUE

\* The user goes somewhere.
Visit(r) ==
    /\ Open(r)
    /\ dirty' = TRUE
    /\ UNCHANGED domVars

\* A request is answered, or given up.
GetAnswer(request, data) ==
    /\ Receive(request, data)
    /\ dirty' = TRUE
    /\ UNCHANGED domVars

\* Mutant: the port keeps a call until the button's container is drawn.
CallButtonWhenDrawn ==
    /\ buttonCalls # <<>>
    /\ container # Absent
    /\ buttonCalls' = Tail(buttonCalls)
    /\ configurePodloveSubscribeButton(Head(buttonCalls))
    /\ UNCHANGED <<route, page, pending, visits, form, histVars, playerCalls, dirty>>

\* A port passes its first call on.
CallButton ==
    /\ buttonCalls # <<>>
    /\ buttonCalls' = Tail(buttonCalls)
    /\ configurePodloveSubscribeButton(Head(buttonCalls))
    /\ UNCHANGED <<route, page, pending, visits, form, histVars, playerCalls, dirty>>

CallPlayer ==
    /\ playerCalls # <<>>
    /\ playerCalls' = Tail(playerCalls)
    /\ configurePodloveWebPlayer(Head(playerCalls))
    /\ UNCHANGED <<route, page, pending, visits, form, histVars, buttonCalls, dirty>>

\* The document becomes the view of a page.
Show(data) ==
    Draw(HasButton(data), Success(data["episode"]),
         IF HasDescription(data) THEN data["episode"].id ELSE Nothing)

\* The user types in a search form.  Elm draws at once after an input event,
\* without waiting for the frame; one that changes nothing is a Frame.
Type ==
    /\ UpdateModel
    /\ Show(form.page)
    /\ dirty' = FALSE

\* An animation frame.
Frame ==
    /\ dirty
    /\ dirty' = FALSE
    /\ Show(page)
    /\ form' = SearchForm(route.kind, page)
    /\ UNCHANGED <<route, page, pending, visits, histVars, buttonCalls, playerCalls>>

Next ==
    \/ \E r \in Routes : Visit(r)
    \/ \E request \in pending : \E data \in AnswersTo(request) :
            GetAnswer(request, data)
    \/ CallButton
    \/ CallPlayer
    \/ Type
    \/ Frame

Spec == Init /\ [][Next]_vars

\* The browser answers or gives up every request, delivers every call and
\* draws every frame it was asked for.
Fairness ==
    /\ WF_vars(\E request \in pending : \E data \in AnswersTo(request) :
                    GetAnswer(request, data))
    /\ WF_vars(CallButton)
    /\ WF_vars(CallPlayer)
    /\ WF_vars(Frame)

FairSpec == Spec /\ Fairness

-----------------------------------------------------------------------------
\* Everything has its type.
TypeOK ==
    /\ PagesTypeOK
    /\ container \in Maybe(Seq(ButtonModel))
    /\ buttonData \in ButtonModel \cup {Nothing}
    /\ player \in Maybe(Seq({Complete(config) : config \in PlayerModel}))
    /\ bodyScripts \in Nat
    /\ description \in Maybe([content : Id \cup {NoId}, innerHTML : Id \cup {NoId}])
    /\ dirty \in BOOLEAN

\* What a field of the open page may show: what the page was opened for, or
\* what an earlier page of its kind asked for and got after it was left.
MayShow(field) ==
    {route.id} \cup {request.id : request \in {r \in late \ pending : r.what = field}}

\* A page holds answers for its own fields only, its own ones or late ones
\* of earlier pages.  However many late ones came, once its own answer is
\* there a field shows that one (or its failure): only a late answer that the
\* network delivers after it, or a keystroke before the page was drawn, gives
\* a field something else.
ShowsItsPage ==
    /\ \A field \in Field :
            Success(page[field]) =>
                /\ field \in Fields(route.kind)
                /\ field \in writtenBack \/ page[field].id \in MayShow(field)
    /\ \A request \in Asks(route, visits) \ pending :
            request.what \notin overtaken \cup writtenBack =>
                \/ page[request.what] = Failure
                \/ Success(page[request.what]) /\ page[request.what].id = route.id

\* A configuration of the subscribe button is the empty one or names the
\* page's podcast and feeds that the page may show: the feeds it held when
\* it was told of the podcast, which no answer about feeds corrects.
SaysPodcast(config) ==
    \/ config = EmptyButton
    \/ config.podcast = page["podcast"].id /\ config.feeds \in MayShow("feeds")

\* Once the port has nothing left to pass on, a subscribe button on the page
\* of a podcast is empty or is that podcast's, also in a container that
\* earlier pages have left behind, and its feeds are those the page was opened
\* for, unless another podcast's were still to come then and have come.
ButtonMatchesPage ==
    Success(page["podcast"]) /\ buttonCalls = <<>> /\ container # Absent
        => \A i \in DOMAIN container : SaysPodcast(container[i])

\* The container has at most one script, and the global variable the script
\* reads, whenever the network delivers it, still holds what it was added
\* for: calls that find no container leave that variable alone.
ButtonIsItsData ==
    container # Absent => container \in {<<>>, <<buttonData>>}

\* Once the port has nothing left to pass on, a player on the page of an
\* episode plays that episode, also in an element that an earlier page has
\* left behind.
PlayerMatchesPage ==
    Success(page["episode"]) /\ playerCalls = <<>> /\ player # Absent
        => player \in {<<>>, <<Complete(modelToPodlovePlayerModel(page))>>}

\* The document that has been drawn shows the description of the episode of
\* the page, in a new element or in one that is used again.
DescriptionMatchesPage ==
    ~dirty => description = IF HasDescription(page)
                            THEN [content |-> page["episode"].id,
                                  innerHTML |-> page["episode"].id]
                            ELSE Absent

\* Whatever is answered late or never, in the end each thing the page asks
\* for has an answer or a failure, unless a keystroke took it back before it
\* was drawn (nothing asks again), the document shows it and all calls have
\* been passed on.
Settles ==
    <>[](/\ \A request \in Asks(route, visits) :
                page[request.what] # NotAsked \/ request.what \in writtenBack
         /\ buttonCalls = <<>> /\ playerCalls = <<>>
         /\ ~dirty)
=============================================================================
