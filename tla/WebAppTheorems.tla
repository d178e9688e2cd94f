--------------------------- MODULE WebAppTheorems ---------------------------
(***************************************************************************)
(* The safety properties of the web application, for every set of places   *)
(* and however often a user goes somewhere: answers that come late, calls  *)
(* that find no element, elements that are used again and keystrokes that  *)
(* write back the page drawn last included.                                *)
(***************************************************************************)
EXTENDS WebApp, SequenceTheorems, TLAPS

\* What is pending was asked for by the open page, or earlier, and was
\* pending already when the page was opened.
PendingIsOwnOrLate ==
    /\ \A request \in pending : request \in late \/ request \in Asks(route, visits)
    /\ \A request \in pending : request.visit <= visits
    /\ \A request \in late : request.visit < visits

\* A field whose own answer is there has none to wait for, unless it has been
\* overtaken.
AnsweredInOrder ==
    \A request \in Asks(route, visits) \ pending :
        request.what \notin overtaken =>
            \A other \in pending : other.what # request.what

\* A page holds nothing in the fields of other kinds, nor does the model that
\* the search form writes back, and without a form no field is written back.
OtherFieldsEmpty ==
    /\ \A field \in Field : field \notin Fields(route.kind) => page[field] = NotAsked
    /\ \A field \in Field : field \notin Fields(form.kind) => form.page[field] = NotAsked
    /\ ~HasSearchForm(route.kind) => writtenBack = {}

\* The last call on its way names the podcast of the page; when there is
\* none, the container's scripts do.
LastCallSaysPodcast ==
    Success(page["podcast"]) =>
        IF buttonCalls # <<>>
        THEN SaysPodcast(buttonCalls[Len(buttonCalls)])
        ELSE container # Absent =>
                \A i \in DOMAIN container : SaysPodcast(container[i])

\* The same of the player: the last call is the page's episode.
LastCallIsEpisode ==
    Success(page["episode"]) =>
        IF playerCalls # <<>>
        THEN playerCalls[Len(playerCalls)] = modelToPodlovePlayerModel(page)
        ELSE player # Absent =>
                player \in {<<>>, <<Complete(modelToPodlovePlayerModel(page))>>}

\* The element shows the value it remembers.
ElementShowsContent ==
    description # Absent => description.innerHTML = description.content

\* Without a frame to come, the search form holds the open page.
FormIsDrawn == ~dirty => form = SearchForm(route.kind, page)

IInv ==
    /\ TypeOK
    /\ PendingIsOwnOrLate
    /\ AnsweredInOrder
    /\ OtherFieldsEmpty
    /\ ShowsItsPage
    /\ LastCallSaysPodcast
    /\ LastCallIsEpisode
    /\ ButtonIsItsData
    /\ ElementShowsContent
    /\ DescriptionMatchesPage
    /\ FormIsDrawn

-----------------------------------------------------------------------------
\* The fields that the properties name are fields, of one kind of page each.
LEMMA FieldsOfKinds ==
    /\ \A kind \in Kind : Fields(kind) \subseteq Field
    /\ {"podcast", "feeds", "episode"} \subseteq Field
<1>1. \A kind \in Kind : Fields(kind) \subseteq Field
  BY DEF Field
<1>2. "podcast" \in Fields("podcast") /\ "feeds" \in Fields("podcast")
  BY DEF Fields
<1>3. "episode" \in Fields("episode")
  BY DEF Fields
<1>4. "podcast" \in Kind /\ "episode" \in Kind
  BY DEF Kind
<1> QED
  BY <1>1, <1>2, <1>3, <1>4

\* A page with a search form holds neither podcast nor feeds nor episode.
LEMMA FormsHoldNoMedia ==
    ASSUME NEW kind, HasSearchForm(kind)
    PROVE  {"podcast", "feeds", "episode"} \cap Fields(kind) = {}
  BY DEF HasSearchForm, Fields

\* An answer is a failure or describes what was asked for.
LEMMA AnswersDescribe ==
    ASSUME NEW request \in Request, NEW data \in AnswersTo(request)
    PROVE  /\ data \in WebData
           /\ data # NotAsked
           /\ Success(data) => data \in Answer /\ data.id = request.id
<1>1. CASE data = Failure
  BY <1>1, DataAssumption DEF DataAssumption, WebData, Success
<1>2. CASE data # Failure
  <2>1. PICK some \in BOOLEAN : data = [id |-> request.id, some |-> some]
    BY <1>2 DEF AnswersTo
  <2>2. data \in Answer /\ data.id = request.id
    BY <2>1 DEF Answer, Request
  <2> QED
    BY <2>2, DataAssumption DEF DataAssumption, WebData, Success
<1> QED
  BY <1>1, <1>2

\* A field that is filled holds an answer.
LEMMA FilledIsAnswer ==
    ASSUME NEW data \in WebData, Success(data)
    PROVE  data \in Answer /\ data.id \in Id \cup {NoId} /\ data.some \in BOOLEAN
  BY DEF WebData, Success, Answer

\* The requests of a page are requests, for what its route names.
LEMMA AsksAreRequests ==
    ASSUME NEW r \in Routes, NEW visit \in 1 .. MaxVisits
    PROVE  /\ Asks(r, visit) \subseteq Request
           /\ \A request \in Asks(r, visit) :
                /\ request.id = r.id /\ request.visit = visit
                /\ request.what \in Fields(r.kind)
           /\ \A request, other \in Asks(r, visit) :
                request.what = other.what => request = other
<1>1. r.kind \in Kind /\ r.id \in Id \cup {NoId}
  BY WebAssumption DEF WebAssumption
<1>2. Fields(r.kind) \subseteq Field
  BY <1>1, FieldsOfKinds
<1> QED
  BY <1>1, <1>2 DEF Asks, Request

\* What JavaScript is told of a page is a configuration: the empty one, or the
\* page's podcast and feeds.
LEMMA ModelsOfPage ==
    ASSUME NEW data \in [Field -> WebData]
    PROVE  /\ toPodloveButtonModel(data) \in ButtonModel
           /\ \/ toPodloveButtonModel(data) = EmptyButton
              \/ /\ Success(data["feeds"])
                 /\ toPodloveButtonModel(data).podcast = data["podcast"].id
                 /\ toPodloveButtonModel(data).feeds = data["feeds"].id
           /\ modelToPodlovePlayerModel(data) \in PlayerModel
<1>1. /\ data["podcast"] \in WebData
      /\ data["feeds"] \in WebData
      /\ data["episode"] \in WebData
  BY FieldsOfKinds
<1>2. modelToPodlovePlayerModel(data) \in PlayerModel
  BY <1>1, FilledIsAnswer DEF modelToPodlovePlayerModel, PlayerModel
<1>3. CASE HasButton(data)
  <2>1. data["podcast"].id \in Id \cup {NoId} /\ data["feeds"].id \in Id \cup {NoId}
    BY <1>1, <1>3, FilledIsAnswer DEF HasButton
  <2> QED
    BY <1>2, <1>3, <2>1 DEF toPodloveButtonModel, ButtonModel, HasButton
<1>4. CASE ~HasButton(data)
  BY <1>2, <1>4 DEF toPodloveButtonModel, ButtonModel, EmptyButton
<1> QED
  BY <1>3, <1>4

\* A sequence that takes one more ends with it.
LEMMA EndOfAppend ==
    ASSUME NEW S, NEW queue \in Seq(S), NEW e \in S
    PROVE  /\ Append(queue, e) \in Seq(S)
           /\ Append(queue, e) # <<>>
           /\ Append(queue, e)[Len(Append(queue, e))] = e
  BY AppendProperties

\* A sequence that loses its first keeps its last while any is left.
LEMMA EndOfTail ==
    ASSUME NEW S, NEW queue \in Seq(S), queue # <<>>
    PROVE  /\ Head(queue) \in S
           /\ Tail(queue) \in Seq(S)
           /\ Tail(queue) # <<>> => Tail(queue)[Len(Tail(queue))] = queue[Len(queue)]
           /\ Tail(queue) = <<>> => Head(queue) = queue[Len(queue)]
<1>1. /\ Head(queue) \in S
      /\ Tail(queue) \in Seq(S)
      /\ Len(Tail(queue)) = Len(queue) - 1
      /\ \A i \in 1 .. Len(Tail(queue)) : Tail(queue)[i] = queue[i + 1]
  BY HeadTailProperties
<1>2. Len(queue) \in Nat /\ Len(queue) >= 1
  BY EmptySeq
<1>3. Tail(queue) # <<>> => Len(Tail(queue)) \in 1 .. Len(Tail(queue))
  BY <1>1, <1>2, EmptySeq
<1>4. Tail(queue) # <<>> => Tail(queue)[Len(Tail(queue))] = queue[Len(queue)]
  BY <1>1, <1>2, <1>3
<1>5. Tail(queue) = <<>> => Len(queue) = 1
  <2>1. Tail(queue) = <<>> => Len(Tail(queue)) = 0
    BY EmptySeq
  <2> QED
    BY <1>1, <1>2, <2>1
<1>6. Head(queue) = queue[1]
  BY <1>2
<1> QED
  BY <1>1, <1>4, <1>5, <1>6

-----------------------------------------------------------------------------
\* The inductive invariant holds when the application is opened.
LEMMA InitIInv == Init => IInv
<1> SUFFICES ASSUME Init PROVE IInv
  OBVIOUS
<1>1. 1 \in 1 .. MaxVisits
  BY WebAssumption DEF WebAssumption
<1>2. \A field \in Field : page[field] = NotAsked
  BY DEF Init, EmptyPage
<1>3. form = [kind |-> "home", page |-> EmptyPage] /\ EmptyPage \in [Field -> WebData]
  BY DEF Init, SearchForm, HasSearchForm, EmptyPage, WebData
<1>4. PagesTypeOK
  <2>1. form \in [kind : Kind, page : [Field -> WebData]]
    BY <1>3 DEF Kind
  <2> QED
    BY <1>1, <1>3, <2>1, AsksAreRequests, EmptySeq DEF Init, PagesTypeOK
<1>5. TypeOK
  BY <1>4 DEF Init, DomInit, TypeOK, Maybe
<1>6. PendingIsOwnOrLate /\ AnsweredInOrder
  BY <1>1, AsksAreRequests DEF Init, PendingIsOwnOrLate, AnsweredInOrder
<1>7. OtherFieldsEmpty
  BY <1>2, <1>3 DEF Init, OtherFieldsEmpty, EmptyPage
<1>8. ShowsItsPage /\ LastCallSaysPodcast /\ LastCallIsEpisode
  BY <1>2, FieldsOfKinds
  DEF Init, ShowsItsPage, LastCallSaysPodcast, LastCallIsEpisode, Success
<1>9. ButtonIsItsData /\ ElementShowsContent /\ DescriptionMatchesPage
  BY DEF Init, DomInit, ButtonIsItsData, ElementShowsContent, DescriptionMatchesPage
<1>10. FormIsDrawn
  BY DEF Init, FormIsDrawn
<1> QED
  BY <1>5, <1>6, <1>7, <1>8, <1>9, <1>10 DEF IInv

\* Going somewhere empties the page; the requests on their way become late.
LEMMA VisitIInv ==
    ASSUME IInv, NEW r \in Routes, Visit(r)
    PROVE  IInv'
<1>1. visits \in 1 .. MaxVisits /\ visits' = visits + 1 /\ visits + 1 \in 1 .. MaxVisits
  BY WebAssumption DEF WebAssumption, IInv, TypeOK, PagesTypeOK, Visit, Open
<1>2. \A field \in Field : page'[field] = NotAsked
  BY DEF Visit, Open, EmptyPage
<1>3. PagesTypeOK'
  <2>1. pending' \subseteq Request
    BY <1>1, AsksAreRequests DEF IInv, TypeOK, PagesTypeOK, Visit, Open
  <2>2. page' \in [Field -> WebData]
    BY DEF Visit, Open, EmptyPage, WebData
  <2> QED
    BY <1>1, <2>1, <2>2 DEF IInv, TypeOK, PagesTypeOK, Visit, Open
<1>4. TypeOK'
  BY <1>3 DEF IInv, TypeOK, Visit, Open, domVars
<1>5. PendingIsOwnOrLate'
  <2>1. pending \subseteq Request /\ \A request \in pending : request.visit \in Nat
    BY DEF IInv, TypeOK, PagesTypeOK, Request
  <2>2. \A request \in pending : request.visit < visits + 1
    BY <1>1, <2>1 DEF IInv, PendingIsOwnOrLate
  <2> QED
    BY <1>1, <2>1, <2>2, AsksAreRequests DEF PendingIsOwnOrLate, Visit, Open
<1>6. AnsweredInOrder'
  BY <1>1 DEF AnsweredInOrder, Visit, Open
<1>7. OtherFieldsEmpty'
  BY <1>2 DEF IInv, OtherFieldsEmpty, Visit, Open
<1>8. ShowsItsPage' /\ LastCallSaysPodcast' /\ LastCallIsEpisode'
  <2>1. Asks(route', visits') \ pending' = {}
    BY <1>1 DEF Visit, Open
  <2> QED
    BY <1>2, <2>1, FieldsOfKinds
    DEF ShowsItsPage, LastCallSaysPodcast, LastCallIsEpisode, Success
<1>9. ButtonIsItsData' /\ ElementShowsContent' /\ DescriptionMatchesPage'
  BY DEF IInv, Visit, domVars, ButtonIsItsData, ElementShowsContent, DescriptionMatchesPage
<1>10. FormIsDrawn'
  BY DEF Visit, FormIsDrawn
<1> QED
  BY <1>4, <1>5, <1>6, <1>7, <1>8, <1>9, <1>10 DEF IInv

\* An answer is ignored, or fills its field and calls JavaScript with it.
LEMMA GetAnswerIInv ==
    ASSUME IInv, NEW request \in pending, NEW data \in AnswersTo(request),
           GetAnswer(request, data)
    PROVE  IInv'
<1> DEFINE own == request \in Asks(route, visits)
           taken == request.what \in Fields(route.kind)
           filled == Filled(request, data)
<1> USE DEF GetAnswer, Receive, Remember
<1>1. /\ request \in Request
      /\ request.what \in Field
      /\ page \in [Field -> WebData]
      /\ buttonCalls \in Seq(ButtonModel)
      /\ playerCalls \in Seq(PlayerModel)
      /\ route \in Routes /\ visits \in 1 .. MaxVisits
  BY DEF IInv, TypeOK, PagesTypeOK, Request
<1>2. /\ data \in WebData
      /\ data # NotAsked
      /\ Success(data) => data \in Answer /\ data.id = request.id
  BY <1>1, AnswersDescribe
<1>3. /\ filled \in [Field -> WebData] /\ page' = filled
      /\ taken => filled[request.what] = data
      /\ \A field \in Field : field # request.what => filled[field] = page[field]
      /\ ~taken => filled = page
  BY <1>1, <1>2 DEF Filled
<1>4. /\ toPodloveButtonModel(filled) \in ButtonModel
      /\ \/ toPodloveButtonModel(filled) = EmptyButton
         \/ /\ Success(filled["feeds"])
            /\ toPodloveButtonModel(filled).podcast = filled["podcast"].id
            /\ toPodloveButtonModel(filled).feeds = filled["feeds"].id
      /\ modelToPodlovePlayerModel(filled) \in PlayerModel
  BY <1>3, ModelsOfPage
<1>5. /\ \A q \in Asks(route, visits) :
            /\ q.id = route.id /\ q.visit = visits
            /\ q.what \in Fields(route.kind)
      /\ \A q, other \in Asks(route, visits) : q.what = other.what => q = other
  BY <1>1, AsksAreRequests
<1>6. PagesTypeOK'
  <2>1. buttonCalls' \in Seq(ButtonModel) /\ playerCalls' \in Seq(PlayerModel)
    BY <1>1, <1>4, EndOfAppend
  <2>2. overtaken' \subseteq Field /\ writtenBack' \subseteq Field
    BY <1>1 DEF IInv, TypeOK, PagesTypeOK
  <2> QED
    BY <1>3, <2>1, <2>2 DEF IInv, TypeOK, PagesTypeOK
<1>7. TypeOK'
  BY <1>6 DEF IInv, TypeOK, domVars
<1>8. PendingIsOwnOrLate'
  BY DEF IInv, PendingIsOwnOrLate
<1>9. AnsweredInOrder'
  <2> SUFFICES ASSUME NEW q \in Asks(route, visits) \ pending', q.what \notin overtaken',
                      NEW other \in pending'
               PROVE  other.what # q.what
    BY DEF AnsweredInOrder
  <2>1. CASE q = request
    BY <2>1, <1>5
  <2>2. CASE q # request
    BY <2>2 DEF IInv, AnsweredInOrder
  <2> QED
    BY <2>1, <2>2
<1>10. OtherFieldsEmpty'
  BY <1>1, <1>3 DEF IInv, OtherFieldsEmpty
<1>11. \A field \in Field : MayShow(field) \subseteq MayShow(field)'
  BY DEF MayShow
<1>12. ShowsItsPage'
  <2>1. ASSUME NEW field \in Field, Success(page'[field])
        PROVE  /\ field \in Fields(route.kind)
               /\ field \in writtenBack' \/ page'[field].id \in MayShow(field)'
    <3>1. CASE taken /\ field = request.what
      <4>1. page'[field].id = request.id
        BY <1>1, <1>2, <1>3, <2>1, <3>1
      <4>2. request.id \in MayShow(field)'
        BY <1>5, <3>1 DEF IInv, PendingIsOwnOrLate, MayShow
      <4> QED
        BY <3>1, <4>1, <4>2
    <3>2. CASE ~(taken /\ field = request.what)
      <4>1. page'[field] = page[field]
        BY <1>1, <1>3, <3>2
      <4>2. field \in Fields(route.kind)
        BY <2>1, <4>1 DEF IInv, ShowsItsPage
      <4>3. field \in writtenBack => field \in writtenBack'
        BY <1>5, <3>2, <4>2
      <4> QED
        BY <1>11, <2>1, <4>1, <4>2, <4>3 DEF IInv, ShowsItsPage
    <3> QED
      BY <3>1, <3>2
  <2>2. ASSUME NEW q \in Asks(route, visits) \ pending',
               q.what \notin overtaken' \cup writtenBack'
        PROVE  \/ page'[q.what] = Failure
               \/ Success(page'[q.what]) /\ page'[q.what].id = route.id
    <3>0. q.what \in Field /\ q.what \in Fields(route.kind)
      BY <1>1, <1>5, AsksAreRequests DEF Request
    <3>1. CASE q = request
      BY <1>1, <1>2, <1>3, <1>5, <2>2, <3>0, <3>1 DEF Success
    <3>2. CASE q # request
      <4>1. q \in Asks(route, visits) \ pending
        BY <2>2, <3>2
      <4>2. q.what # request.what
        BY <2>2, <4>1 DEF IInv, AnsweredInOrder
      <4>3. page'[q.what] = page[q.what]
        BY <1>1, <1>3, <3>0, <4>2
      <4>4. q.what \notin overtaken \cup writtenBack
        BY <2>2, <4>2
      <4> QED
        BY <4>1, <4>3, <4>4 DEF IInv, ShowsItsPage
    <3> QED
      BY <3>1, <3>2
  <2> QED
    BY <2>1, <2>2 DEF ShowsItsPage
<1>13. "feeds" \in Fields(route.kind) /\ Success(page'["feeds"])
            => page'["feeds"].id \in MayShow("feeds")'
  <2>1. "feeds" \in Fields(route.kind) => writtenBack' = {}
    BY FormsHoldNoMedia DEF IInv, OtherFieldsEmpty
  <2> QED
    BY <1>12, <2>1, FieldsOfKinds DEF ShowsItsPage
<1>14. LastCallSaysPodcast'
  <2>1. CASE taken /\ request.what = "podcast"
    <3>1. /\ buttonCalls' # <<>>
          /\ buttonCalls'[Len(buttonCalls')] = toPodloveButtonModel(filled)
      BY <1>1, <1>4, <2>1, EndOfAppend
    <3>2. Success(page'["feeds"]) => "feeds" \in Fields(route.kind)
      BY <1>12, FieldsOfKinds DEF ShowsItsPage
    <3> QED
      BY <1>3, <1>4, <1>13, <3>1, <3>2 DEF LastCallSaysPodcast, SaysPodcast
  <2>2. CASE ~(taken /\ request.what = "podcast")
    <3>1. page'["podcast"] = page["podcast"] /\ MayShow("feeds") \subseteq MayShow("feeds")'
      BY <1>1, <1>3, <1>11, <2>2, FieldsOfKinds
    <3>2. buttonCalls' = buttonCalls
      BY <2>2
    <3> QED
      BY <3>1, <3>2 DEF IInv, LastCallSaysPodcast, SaysPodcast, domVars
  <2> QED
    BY <2>1, <2>2
<1>15. LastCallIsEpisode'
  <2>1. CASE taken /\ request.what = "episode"
    <3>1. /\ playerCalls' # <<>>
          /\ playerCalls'[Len(playerCalls')] = modelToPodlovePlayerModel(filled)
      BY <1>1, <1>4, <2>1, EndOfAppend
    <3> QED
      BY <1>3, <3>1 DEF LastCallIsEpisode
  <2>2. CASE ~(taken /\ request.what = "episode")
    <3>1. page'["episode"] = page["episode"]
      BY <1>1, <1>3, <2>2, FieldsOfKinds
    <3>2. modelToPodlovePlayerModel(page') = modelToPodlovePlayerModel(page)
      BY <3>1 DEF modelToPodlovePlayerModel
    <3> QED
      BY <2>2, <3>1, <3>2 DEF IInv, LastCallIsEpisode, domVars
  <2> QED
    BY <2>1, <2>2
<1>16. ButtonIsItsData' /\ ElementShowsContent' /\ DescriptionMatchesPage'
  BY DEF IInv, domVars, ButtonIsItsData, ElementShowsContent, DescriptionMatchesPage
<1>17. FormIsDrawn'
  BY DEF FormIsDrawn
<1> QED
  BY <1>7, <1>8, <1>9, <1>10, <1>12, <1>14, <1>15, <1>16, <1>17 DEF IInv

\* A call replaces the scripts of a container that is there, with its data.
LEMMA CallButtonIInv ==
    ASSUME IInv, CallButton
    PROVE  IInv'
<1> DEFINE config == Head(buttonCalls)
<1> USE DEF CallButton, configurePodloveSubscribeButton
<1>1. buttonCalls \in Seq(ButtonModel) /\ buttonCalls # <<>>
  BY DEF IInv, TypeOK, PagesTypeOK
<1>2. /\ config \in ButtonModel
      /\ Tail(buttonCalls) \in Seq(ButtonModel)
      /\ Tail(buttonCalls) # <<>> =>
            Tail(buttonCalls)[Len(Tail(buttonCalls))] = buttonCalls[Len(buttonCalls)]
      /\ Tail(buttonCalls) = <<>> => config = buttonCalls[Len(buttonCalls)]
  BY <1>1, EndOfTail
<1>3. <<config>> \in Seq(ButtonModel)
  BY <1>2
<1>4. TypeOK' /\ PagesTypeOK'
  BY <1>2, <1>3 DEF IInv, TypeOK, PagesTypeOK, Maybe, histVars
<1>5. PendingIsOwnOrLate' /\ AnsweredInOrder' /\ OtherFieldsEmpty' /\ ShowsItsPage'
  BY DEF IInv, histVars, PendingIsOwnOrLate, AnsweredInOrder, OtherFieldsEmpty,
         ShowsItsPage, MayShow
<1>6. LastCallSaysPodcast'
  <2> SUFFICES ASSUME Success(page["podcast"])
               PROVE  IF buttonCalls' # <<>>
                      THEN SaysPodcast(buttonCalls'[Len(buttonCalls')])
                      ELSE container' # Absent =>
                            \A i \in DOMAIN container' : SaysPodcast(container'[i])
    BY DEF LastCallSaysPodcast, SaysPodcast, MayShow, histVars
  <2>1. SaysPodcast(buttonCalls[Len(buttonCalls)])
    BY <1>1 DEF IInv, LastCallSaysPodcast
  <2>2. container' # Absent => container' = <<config>>
    OBVIOUS
  <2>3. \A i \in DOMAIN <<config>> : <<config>>[i] = config
    OBVIOUS
  <2>4. CASE buttonCalls' # <<>>
    BY <1>2, <2>1, <2>4
  <2>5. CASE buttonCalls' = <<>>
    BY <1>2, <2>1, <2>2, <2>3, <2>5
  <2> QED
    BY <2>4, <2>5
<1>7. LastCallIsEpisode'
  BY DEF IInv, LastCallIsEpisode
<1>8. ButtonIsItsData'
  BY DEF IInv, ButtonIsItsData
<1>9. ElementShowsContent' /\ DescriptionMatchesPage' /\ FormIsDrawn'
  BY DEF IInv, ElementShowsContent, DescriptionMatchesPage, FormIsDrawn
<1> QED
  BY <1>4, <1>5, <1>6, <1>7, <1>8, <1>9 DEF IInv

\* A call fills the element of the player, if it is there.
LEMMA CallPlayerIInv ==
    ASSUME IInv, CallPlayer
    PROVE  IInv'
<1> DEFINE config == Head(playerCalls)
<1> USE DEF CallPlayer, configurePodloveWebPlayer, podlovePlayer
<1>1. playerCalls \in Seq(PlayerModel) /\ playerCalls # <<>>
  BY DEF IInv, TypeOK, PagesTypeOK
<1>2. /\ config \in PlayerModel
      /\ Tail(playerCalls) \in Seq(PlayerModel)
      /\ Tail(playerCalls) # <<>> =>
            Tail(playerCalls)[Len(Tail(playerCalls))] = playerCalls[Len(playerCalls)]
      /\ Tail(playerCalls) = <<>> => config = playerCalls[Len(playerCalls)]
  BY <1>1, EndOfTail
<1>3. <<Complete(config)>> \in Seq({Complete(c) : c \in PlayerModel})
  BY <1>2
<1>4. TypeOK' /\ PagesTypeOK'
  BY <1>2, <1>3 DEF IInv, TypeOK, PagesTypeOK, Maybe, histVars
<1>5. PendingIsOwnOrLate' /\ AnsweredInOrder' /\ OtherFieldsEmpty' /\ ShowsItsPage'
  BY DEF IInv, histVars, PendingIsOwnOrLate, AnsweredInOrder, OtherFieldsEmpty,
         ShowsItsPage, MayShow
<1>6. LastCallSaysPodcast'
  BY DEF IInv, LastCallSaysPodcast, SaysPodcast, MayShow, histVars
<1>7. LastCallIsEpisode'
  <2> SUFFICES ASSUME Success(page["episode"])
               PROVE  IF playerCalls' # <<>>
                      THEN playerCalls'[Len(playerCalls')] = modelToPodlovePlayerModel(page)
                      ELSE player' # Absent =>
                            player' \in {<<>>, <<Complete(modelToPodlovePlayerModel(page))>>}
    BY DEF LastCallIsEpisode, modelToPodlovePlayerModel
  <2>1. playerCalls[Len(playerCalls)] = modelToPodlovePlayerModel(page)
    BY <1>1 DEF IInv, LastCallIsEpisode
  <2>2. CASE playerCalls' # <<>>
    BY <1>2, <2>1, <2>2
  <2>3. CASE playerCalls' = <<>>
    <3>1. config = modelToPodlovePlayerModel(page)
      BY <1>2, <2>1, <2>3
    <3>2. player' # Absent => player' = <<Complete(config)>>
      OBVIOUS
    <3> QED
      BY <2>3, <3>1, <3>2
  <2> QED
    BY <2>2, <2>3
<1>8. ButtonIsItsData' /\ ElementShowsContent' /\ DescriptionMatchesPage'
  BY DEF IInv, ButtonIsItsData, ElementShowsContent, DescriptionMatchesPage
<1>9. FormIsDrawn'
  BY DEF IInv, FormIsDrawn
<1> QED
  BY <1>4, <1>5, <1>6, <1>7, <1>8, <1>9 DEF IInv

\* Showing a page keeps or creates the nodes it has, and removes the others.
LEMMA ShowIsView ==
    ASSUME IInv, NEW data \in [Field -> WebData], Show(data)
    PROVE  /\ container' \in Maybe(Seq(ButtonModel))
           /\ container' \in {Absent, <<>>, container}
           /\ player' \in Maybe(Seq({Complete(config) : config \in PlayerModel}))
           /\ player' \in {Absent, <<>>, player}
           /\ description' \in Maybe([content : Id \cup {NoId}, innerHTML : Id \cup {NoId}])
           /\ description' = IF HasDescription(data)
                             THEN [content |-> data["episode"].id,
                                   innerHTML |-> data["episode"].id]
                             ELSE Absent
           /\ UNCHANGED <<buttonData, bodyScripts>>
<1> DEFINE text == IF HasDescription(data) THEN data["episode"].id ELSE Nothing
           element == IF description = Absent THEN RenderedHtml ELSE description
<1> USE DEF Show, Draw
<1>1. HasDescription(data) => text \in Id \cup {NoId} /\ text # Nothing
  <2>1. data["episode"] \in WebData
    BY FieldsOfKinds
  <2> QED
    BY <2>1, FilledIsAnswer, NothingAssumption DEF NothingAssumption, HasDescription
<1>2. description' = IF HasDescription(data) THEN SetContent(element, text) ELSE Absent
  BY <1>1
<1>3. HasDescription(data) =>
        description' = [content |-> text, innerHTML |-> text]
  <2> SUFFICES ASSUME HasDescription(data)
               PROVE  SetContent(element, text) = [content |-> text, innerHTML |-> text]
    BY <1>2
  <2>1. CASE description = Absent
    BY <1>1, <2>1 DEF SetContent, RenderedHtml
  <2>2. CASE description # Absent
    <3>1. description \in [content : Id \cup {NoId}, innerHTML : Id \cup {NoId}]
      BY <2>2 DEF IInv, TypeOK, Maybe
    <3>2. description.innerHTML = description.content
      BY <2>2 DEF IInv, ElementShowsContent
    <3> QED
      BY <2>2, <3>1, <3>2 DEF SetContent
  <2> QED
    BY <2>1, <2>2
<1>4. /\ container' \in Maybe(Seq(ButtonModel))
      /\ player' \in Maybe(Seq({Complete(config) : config \in PlayerModel}))
  BY EmptySeq DEF IInv, TypeOK, Maybe
<1>5. description' \in Maybe([content : Id \cup {NoId}, innerHTML : Id \cup {NoId}])
  BY <1>1, <1>2, <1>3 DEF Maybe
<1> QED
  BY <1>2, <1>3, <1>4, <1>5

\* A keystroke empties or refills the fields of a page that has no media, and
\* draws it.
LEMMA TypeIInv ==
    ASSUME IInv, Type
    PROVE  IInv'
<1> USE DEF Type, UpdateModel
<1>1. /\ form.page \in [Field -> WebData]
      /\ form.kind = route.kind /\ page' = form.page
  BY DEF IInv, TypeOK, PagesTypeOK
<1>2. \A field \in Field : field \notin Fields(route.kind) => page'[field] = NotAsked
  BY <1>1 DEF IInv, OtherFieldsEmpty
<1>3. /\ page'["podcast"] = NotAsked
      /\ page'["feeds"] = NotAsked
      /\ page'["episode"] = NotAsked
  BY <1>2, FieldsOfKinds, FormsHoldNoMedia
<1>4. PagesTypeOK' /\ TypeOK'
  <2>1. PagesTypeOK'
    BY <1>1 DEF IInv, TypeOK, PagesTypeOK
  <2> QED
    BY <1>1, <2>1, ShowIsView DEF IInv, TypeOK
<1>5. PendingIsOwnOrLate' /\ AnsweredInOrder' /\ OtherFieldsEmpty'
  BY <1>2 DEF IInv, PendingIsOwnOrLate, AnsweredInOrder, OtherFieldsEmpty
<1>6. ShowsItsPage'
  <2>1. \A field \in Field :
            field \notin writtenBack' => page'[field] = page[field] /\ field \notin writtenBack
    BY <1>1
  <2>2. ASSUME NEW field \in Field, Success(page'[field])
        PROVE  /\ field \in Fields(route.kind)
               /\ field \in writtenBack' \/ page'[field].id \in MayShow(field)'
    BY <1>2, <2>1, <2>2 DEF IInv, ShowsItsPage, MayShow, Success
  <2>3. ASSUME NEW request \in Asks(route, visits) \ pending,
               request.what \notin overtaken' \cup writtenBack'
        PROVE  \/ page'[request.what] = Failure
               \/ Success(page'[request.what]) /\ page'[request.what].id = route.id
    <3>1. request.what \in Field
      BY AsksAreRequests DEF IInv, TypeOK, PagesTypeOK, Request
    <3> QED
      BY <2>1, <2>3, <3>1 DEF IInv, ShowsItsPage
  <2> QED
    BY <2>2, <2>3 DEF ShowsItsPage
<1>7. LastCallSaysPodcast' /\ LastCallIsEpisode'
  BY <1>3 DEF LastCallSaysPodcast, LastCallIsEpisode, Success
<1>8. ButtonIsItsData' /\ ElementShowsContent' /\ DescriptionMatchesPage'
  <2>1. ~HasDescription(form.page)
    BY <1>1, <1>3 DEF HasDescription, Success
  <2> QED
    BY <1>1, <2>1, ShowIsView
    DEF IInv, ButtonIsItsData, ElementShowsContent, DescriptionMatchesPage
<1>9. FormIsDrawn'
  <2>1. form = [kind |-> form.kind, page |-> form.page]
    BY DEF IInv, TypeOK, PagesTypeOK
  <2> QED
    BY <1>1, <2>1 DEF FormIsDrawn, SearchForm
<1> QED
  BY <1>4, <1>5, <1>6, <1>7, <1>8, <1>9 DEF IInv

\* A frame shows the open page, and gives its model to the search form.
LEMMA FrameIInv ==
    ASSUME IInv, Frame
    PROVE  IInv'
<1> USE DEF Frame, histVars
<1>1. page \in [Field -> WebData] /\ route \in Routes /\ route.kind \in Kind
  BY WebAssumption DEF WebAssumption, IInv, TypeOK, PagesTypeOK
<1>2. /\ form' \in [kind : Kind, page : [Field -> WebData]]
      /\ form'.kind = route.kind /\ form'.page \in {page, EmptyPage}
  BY <1>1 DEF SearchForm, EmptyPage, WebData
<1>3. PagesTypeOK'
  BY <1>2 DEF IInv, TypeOK, PagesTypeOK
<1>4. TypeOK'
  BY <1>1, <1>3, ShowIsView DEF IInv, TypeOK
<1>5. PendingIsOwnOrLate' /\ AnsweredInOrder' /\ ShowsItsPage'
  BY DEF IInv, PendingIsOwnOrLate, AnsweredInOrder, ShowsItsPage, MayShow
<1>6. OtherFieldsEmpty'
  BY <1>2 DEF IInv, OtherFieldsEmpty, EmptyPage
<1>7. LastCallSaysPodcast'
  <2>1. container' \in {Absent, <<>>, container}
    BY <1>1, ShowIsView
  <2> QED
    BY <2>1 DEF IInv, LastCallSaysPodcast, SaysPodcast, MayShow
<1>8. LastCallIsEpisode'
  <2>1. player' \in {Absent, <<>>, player}
    BY <1>1, ShowIsView
  <2> QED
    BY <2>1 DEF IInv, LastCallIsEpisode, modelToPodlovePlayerModel, Success
<1>9. ButtonIsItsData' /\ ElementShowsContent' /\ DescriptionMatchesPage'
  <2>1. /\ container' \in {Absent, <<>>, container} /\ buttonData' = buttonData
        /\ description' = IF HasDescription(page)
                          THEN [content |-> page["episode"].id,
                                innerHTML |-> page["episode"].id]
                          ELSE Absent
    BY <1>1, ShowIsView
  <2>2. ButtonIsItsData'
    BY <2>1 DEF IInv, ButtonIsItsData
  <2>3. ElementShowsContent'
    BY <2>1 DEF ElementShowsContent
  <2>4. page' = page
    OBVIOUS
  <2>5. DescriptionMatchesPage'
    BY <2>1, <2>4 DEF DescriptionMatchesPage, HasDescription
  <2> QED
    BY <2>2, <2>3, <2>5
<1>10. FormIsDrawn'
  BY DEF FormIsDrawn
<1> QED
  BY <1>4, <1>5, <1>6, <1>7, <1>8, <1>9, <1>10 DEF IInv

\* Every step preserves the inductive invariant.
LEMMA NextIInv == IInv /\ [Next]_vars => IInv'
<1> SUFFICES ASSUME IInv, [Next]_vars PROVE IInv'
  OBVIOUS
<1>1. ASSUME NEW r \in Routes, Visit(r) PROVE IInv'
  BY <1>1, VisitIInv
<1>2. ASSUME NEW request \in pending, NEW data \in AnswersTo(request),
             GetAnswer(request, data)
      PROVE  IInv'
  BY <1>2, GetAnswerIInv
<1>3. ASSUME CallButton PROVE IInv'
  BY <1>3, CallButtonIInv
<1>4. ASSUME CallPlayer PROVE IInv'
  BY <1>4, CallPlayerIInv
<1>5. ASSUME Type PROVE IInv'
  BY <1>5, TypeIInv
<1>6. ASSUME Frame PROVE IInv'
  BY <1>6, FrameIInv
<1>7. ASSUME UNCHANGED vars PROVE IInv'
  <2> USE <1>7 DEF vars, pageVars, histVars, domVars
  <2>1. PagesTypeOK'
    BY DEF IInv, TypeOK, PagesTypeOK
  <2>2. /\ TypeOK' /\ PendingIsOwnOrLate' /\ AnsweredInOrder' /\ OtherFieldsEmpty'
        /\ ShowsItsPage'
    BY <2>1 DEF IInv, TypeOK, PendingIsOwnOrLate, AnsweredInOrder, OtherFieldsEmpty,
                ShowsItsPage, MayShow
  <2>3. LastCallSaysPodcast' /\ LastCallIsEpisode'
    BY DEF IInv, LastCallSaysPodcast, SaysPodcast, MayShow, LastCallIsEpisode,
           modelToPodlovePlayerModel
  <2>4. ButtonIsItsData' /\ ElementShowsContent' /\ DescriptionMatchesPage' /\ FormIsDrawn'
    BY DEF IInv, ButtonIsItsData, ElementShowsContent, DescriptionMatchesPage, FormIsDrawn
  <2> QED
    BY <2>2, <2>3, <2>4 DEF IInv
<1> QED
  BY <1>1, <1>2, <1>3, <1>4, <1>5, <1>6, <1>7 DEF Next

LEMMA AlwaysIInv == Spec => []IInv
  BY InitIInv, NextIInv, PTL DEF Spec

-----------------------------------------------------------------------------
\* Pages, queues and document keep their types.
THEOREM WebAppTypes == Spec => []TypeOK
  BY AlwaysIInv, PTL DEF IInv

\* Once its own answer is there, each field of a page shows that answer or its
\* failure, however many answers to earlier pages came before it: only one that
\* comes after it, or a keystroke, makes the field show something else.
THEOREM PagesShowTheirOwn == Spec => []ShowsItsPage
  BY AlwaysIInv, PTL DEF IInv

\* A keystroke takes nothing back from a page that has been drawn: it changes
\* the page only while a frame is still to come.
THEOREM KeystrokesKeepTheDrawn == Spec => [][Type => dirty]_vars
<1>1. IInv /\ [Next]_vars => [Type => dirty]_vars
  <2> SUFFICES ASSUME IInv, Type, ~dirty PROVE FALSE
    OBVIOUS
  <2>1. page = form.page
    BY DEF IInv, FormIsDrawn, SearchForm, Type, UpdateModel
  <2> QED
    BY <2>1 DEF Type, UpdateModel
<1> QED
  BY <1>1, AlwaysIInv, PTL DEF Spec

\* Once the port is idle, a subscribe button is empty, or names the page's
\* podcast with the feeds the page was opened for, or with those that a page
\* left before was still waiting for and that have come since.
THEOREM ButtonsMatch == Spec => []ButtonMatchesPage
<1>1. IInv => ButtonMatchesPage
  BY DEF IInv, LastCallSaysPodcast, ButtonMatchesPage
<1> QED
  BY <1>1, AlwaysIInv, PTL

\* A subscribe button reads the data it was added for.
THEOREM ButtonsReadTheirData == Spec => []ButtonIsItsData
  BY AlwaysIInv, PTL DEF IInv

\* A player never plays an episode that is not the page's, once the port is
\* idle.
THEOREM EpisodesMatch == Spec => []PlayerMatchesPage
<1>1. IInv => PlayerMatchesPage
  BY DEF IInv, LastCallIsEpisode, PlayerMatchesPage
<1> QED
  BY <1>1, AlwaysIInv, PTL

\* The description drawn is that of the page's episode.
THEOREM DescriptionsMatch == Spec => []DescriptionMatchesPage
  BY AlwaysIInv, PTL DEF IInv
=============================================================================
