--------------------------- MODULE PodloveWidgets ---------------------------
(***************************************************************************)
(* The JavaScript beside the Elm program: the two functions that its ports *)
(* call, podloveSubscribeButton.js and podloveWebPlayer.js, the custom     *)
(* element rendered-html of customElements.js, and the three nodes of the  *)
(* document they work on.  Elm creates and removes these nodes and never   *)
(* looks into them.                                                        *)
(***************************************************************************)
EXTENDS Naturals, Sequences

CONSTANTS
    Absent,       \* no such node is in the document
    Nothing       \* a JavaScript value that is not there: undefined, ""

VARIABLES
    container,    \* #podlove-subscribe-button-container: its scripts, each
                  \* known by the configuration it was added for
    buttonData,   \* window.podloveSubscribeButtonData, which a script reads
    player,       \* #podlove-web-player: the players in it
    bodyScripts,  \* how many scripts document.body has been given
    description   \* rendered-html: its property _content and its innerHTML

domVars == <<container, buttonData, player, bodyScripts, description>>

Maybe(S) == S \cup {Absent}

-----------------------------------------------------------------------------
\* Mutant: the scripts of earlier calls stay.
SubscribeButtonDoubled(config) ==
    /\ IF container = Absent
       THEN UNCHANGED <<container, buttonData>>
       ELSE /\ container' = Append(container, config)
            /\ buttonData' = config
    /\ UNCHANGED <<player, bodyScripts, description>>

\* configurePodloveSubscribeButton: without a container the call is lost.
configurePodloveSubscribeButton(config) ==
    /\ IF container = Absent
       THEN UNCHANGED <<container, buttonData>>
       ELSE /\ container' = <<config>>
            /\ buttonData' = config
    /\ UNCHANGED <<player, bodyScripts, description>>

-----------------------------------------------------------------------------
\* What podlovePlayer is given: theme and components are added to the
\* configuration, a list of chapters without entries is deleted.
Complete(config) ==
    LET some == config.chapters # Nothing /\ Len(config.chapters) > 0
        none == config.chapters # Nothing /\ Len(config.chapters) < 1
        always == <<"tabAudio", "progressbar", "controlSteppers", "controlChapters">>
    IN [episode |-> config.episode,
        theme |-> [main |-> "#FFFFFF", highlight |-> "#000000"],
        visibleComponents |-> IF some THEN Append(always, "tabChapters") ELSE always,
        chapters |-> IF none THEN Nothing ELSE config.chapters]

\* podlovePlayer of the Podlove web player: the element holds this player.
podlovePlayer(config) == IF player = Absent THEN Absent ELSE <<config>>

\* Mutant: a player that is there is left alone.
WebPlayerOnce(config) ==
    /\ bodyScripts' = bodyScripts + 1
    /\ player' = IF player = <<>> THEN podlovePlayer(Complete(config)) ELSE player
    /\ UNCHANGED <<container, buttonData, description>>

\* configurePodloveWebPlayer: every call adds a script to the body, which
\* runs at once and is never removed.
configurePodloveWebPlayer(config) ==
    /\ bodyScripts' = bodyScripts + 1
    /\ player' = podlovePlayer(Complete(config))
    /\ UNCHANGED <<container, buttonData, description>>

-----------------------------------------------------------------------------
\* constructor of RenderedHtml
RenderedHtml == [content |-> Nothing, innerHTML |-> Nothing]

\* Mutant: the setter remembers the value only once.
SetContentOnce(element, value) ==
    IF element.content = value THEN element
    ELSE [content |-> IF element.content = Nothing THEN value ELSE element.content,
          innerHTML |-> IF element.content = Nothing THEN value ELSE element.innerHTML]

\* set content(value)
SetContent(element, value) ==
    IF element.content = value THEN element
    ELSE [content |-> value, innerHTML |-> value]

-----------------------------------------------------------------------------
\* The virtual DOM of Elm: a node that the view keeps is kept with all that
\* JavaScript put into it, a node that the view adds is new.
Draw(hasButton, hasPlayer, text) ==
    /\ container' = IF ~hasButton THEN Absent
                    ELSE IF container = Absent THEN <<>> ELSE container
    /\ player' = IF ~hasPlayer THEN Absent
                 ELSE IF player = Absent THEN <<>> ELSE player
    /\ description' = IF text = Nothing THEN Absent
                      ELSE SetContent(IF description = Absent THEN RenderedHtml
                                      ELSE description, text)
    /\ UNCHANGED <<buttonData, bodyScripts>>

DomInit ==
    /\ container = Absent
    /\ buttonData = Nothing
    /\ player = Absent
    /\ bodyScripts = 0
    /\ description = Absent
=============================================================================
