---------------------------- MODULE EngineActors ----------------------------
(***************************************************************************)
(* The actors of an engine: the Node, its children (the components), and   *)
(* the workers that are children of the Crawler; their mailboxes, the      *)
(* references they hold, and how Akka stops them when one of them fails.   *)
(*                                                                         *)
(* Component names the children that take part.  Messages to a component   *)
(* that does not take part go nowhere, and references to it are left out.  *)
(***************************************************************************)
EXTENDS Mailbox, Sequences, FiniteSets

CONSTANTS
    Component,   \* the children of the Node
    Worker,      \* the children of the Crawler
    Fragile      \* the components whose constructor may throw

Components ==
    {"catalog", "cli", "crawler", "graph", "index", "parser", "searcher",
     "updater"}

Job == {"feed", "website"}

Actor == Component \cup Worker

ASSUME ActorsAssumption ==
    /\ Component \subseteq Components
    /\ Fragile \subseteq Component
    /\ IsFiniteSet(Worker)
    /\ Worker \cap (Components \cup {"supervisor"}) = {}
    /\ Worker # {} <=> "crawler" \in Component

VARIABLES
    box,          \* a bag of messages per actor
    status,       \* how far an actor's life has got
    refs,         \* the actors it has been told of, its fields of type ActorRef
    nodeBox,      \* the mailbox of the Node: the default one, a queue
    nodeStatus

actors == <<box, status, refs, nodeBox, nodeStatus>>

-----------------------------------------------------------------------------
\* ActorRefCatalogStoreActor(catalog) is Ref("catalog"), and so on.
Ref(name) == [type |-> name]

RefName == Components \cup {"supervisor"}

Message ==
    [type : RefName \cup {"ReportWorkerInitializationComplete",
                          "ProposeNewFeed", "ProcessFeed",
                          "ParseNewPodcastData", "ParseWebsiteData"}]
        \cup [type : {"DownloadWithHeadCheck", "DownloadContent"}, job : Job]

NodeMessage ==
    [type : {"EngineOperational", "ShutdownSystem", "ProposeNewFeed"}]
        \cup [type : {"ReportInitializationComplete", "Terminated"},
              from : Component]

\* The PriorityGenerators, as if the actor system's configuration named them.
MessageType == {m.type : m \in Message}

CatalogMailbox ==
    [t \in MessageType |-> CASE t = "crawler" -> 0
                             [] t = "ProposeNewFeed" -> 4
                             [] OTHER -> 6]

ParserMailbox ==
    [t \in MessageType |-> CASE t \in {"catalog", "crawler"} -> 0
                             [] t = "ParseWebsiteData" -> 2
                             [] t = "ParseNewPodcastData" -> 3
                             [] OTHER -> 4]

\* Of the Crawler, and of every worker as well.
CrawlerMailbox ==
    [t \in MessageType |->
        CASE t \in {"parser", "catalog"} -> 0
          [] t \in {"DownloadWithHeadCheck", "DownloadContent"} -> 1
          [] OTHER -> 2]

\* Of the others; the IndexStore, whose mailbox has more, is sent but one
\* message here.
PlainMailbox == [t \in MessageType |-> 0]

Priority(a) ==
    CASE a = "catalog" -> CatalogMailbox
      [] a = "parser" -> ParserMailbox
      [] a \in Worker \cup {"crawler"} -> CrawlerMailbox
      [] OTHER -> PlainMailbox

\* An actor that failed is suspended until its parent has decided, and the
\* children of a suspended or stopping actor do not run either.
CanRun(a) ==
    /\ status[a] = "running"
    /\ a \in Worker => status["crawler"] = "running"

\* The messages that actor a may handle next.
Incoming(a) == IF CanRun(a) THEN Deliverable(box[a], Priority(a)) ELSE {}

Envelope(to, m) == [to |-> to, msg |-> m]

\* The mailboxes after the envelopes in mail have been posted.  What is sent
\* to an actor that will not run again is a dead letter.
Delivered(boxes, mail) ==
    [a \in Actor |->
        IF status[a] = "running"
        THEN PostAll(boxes[a], {e.msg : e \in {x \in mail : x.to = a}})
        ELSE boxes[a]]

\* Actor a has handled m and sent mail.
Handle(a, m, mail) ==
    box' = Delivered([box EXCEPT ![a] = Take(@, m)], mail)

\* Send mail on a thread that belongs to no actor.
Send(mail) == box' = Delivered(box, mail)

\* A field of a component outside the model is never null.
Holds(a, name) == name \in Component => name \in refs[a]

NodeRuns == nodeStatus \in {"running", "terminating"}

\* Tell the Node.
Tell(m) == nodeBox' = IF NodeRuns THEN Append(nodeBox, m) ELSE nodeBox

ActorsOK ==
    /\ DOMAIN box = Actor
    /\ \A a \in Actor : IsMailboxOf(box[a], Message)
    /\ status \in [Actor -> {"running", "failed", "stopping", "stopped"}]
    /\ refs \in [Actor -> SUBSET RefName]
    /\ nodeBox \in Seq(NodeMessage)
    /\ nodeStatus \in {"running", "terminating", "stopping", "stopped"}

\* The Crawler's constructor creates the workers (createWorker).  It knows no
\* Parser and no CatalogStore yet, so it can tell them of itself alone.
ActorsInit ==
    /\ box = [a \in Actor |->
                IF a \in Worker THEN Post(EmptyBag, Ref("supervisor"))
                ELSE EmptyBag]
    /\ status = [a \in Actor |-> "running"]
    /\ refs = [a \in Actor |-> {}]
    /\ nodeBox = <<>>
    /\ nodeStatus = "running"

-----------------------------------------------------------------------------
(***************************************************************************)
(* Failure.  The handler of a throws: nothing it would have sent after     *)
(* that is sent, and a handles no message any more.                        *)
(***************************************************************************)
Fail(a) ==
    /\ status' = [status EXCEPT ![a] = "failed"]
    /\ box' = [box EXCEPT ![a] = EmptyBag]

\* A constructor throws; the actor has not handled any message.
FailToStart(c) ==
    /\ c \in Fragile
    /\ status[c] = "running"
    /\ refs[c] = {}
    /\ Fail(c)
    /\ UNCHANGED <<refs, nodeBox, nodeStatus>>

\* Crawler.supervisorStrategy: the exception of a worker is the Crawler's own.
Escalate(w) ==
    /\ status[w] = "failed"
    /\ status["crawler"] = "running"
    /\ Fail("crawler")
    /\ UNCHANGED <<refs, nodeBox, nodeStatus>>

\* Actors in S are told to stop; what is in their mailboxes is lost.
Stop(S) ==
    LET stopping == {c \in S : status[c] # "stopped"}
    IN  /\ status' = [a \in Actor |-> IF a \in stopping THEN "stopping"
                                      ELSE status[a]]
        /\ box' = [a \in Actor |-> IF a \in stopping THEN EmptyBag
                                   ELSE box[a]]

\* Node.supervisorStrategy is stoppingStrategy.
StopFailed(c) ==
    /\ status[c] = "failed"
    /\ Stop({c})
    /\ UNCHANGED <<refs, nodeBox, nodeStatus>>

\* A worker ends when its Crawler stops.
WorkerStops(w) ==
    /\ status[w] # "stopped"
    /\ status["crawler"] = "stopping"
    /\ status' = [status EXCEPT ![w] = "stopped"]
    /\ box' = [box EXCEPT ![w] = EmptyBag]
    /\ UNCHANGED <<refs, nodeBox, nodeStatus>>

\* A component ends once its children have; the Node watches it.
ComponentStops(c) ==
    /\ status[c] = "stopping"
    /\ c = "crawler" => \A w \in Worker : status[w] = "stopped"
    /\ status' = [status EXCEPT ![c] = "stopped"]
    /\ Tell([type |-> "Terminated", from |-> c])
    /\ UNCHANGED <<box, refs, nodeStatus>>

-----------------------------------------------------------------------------
(***************************************************************************)
(* The Node.                                                               *)
(***************************************************************************)
\* Mutant: the end of a component is only logged.
OnTerminatedLog ==
    /\ nodeBox' = Tail(nodeBox)
    /\ UNCHANGED <<box, status, refs, nodeStatus>>

\* onTerminated: tell oneself to shut the system down.
OnTerminated ==
    /\ nodeBox' = Append(Tail(nodeBox), [type |-> "ShutdownSystem"])
    /\ UNCHANGED <<box, status, refs, nodeStatus>>

\* onSystemShutdown: stop every component, then terminate the system.
OnSystemShutdown ==
    /\ Stop(Component)
    /\ nodeBox' = Tail(nodeBox)
    /\ nodeStatus' = "terminating"
    /\ UNCHANGED refs

\* ActorSystem.terminate reaches the Node: it stops with all its children.
NodeStopping ==
    /\ nodeStatus = "terminating"
    /\ nodeStatus' = "stopping"
    /\ nodeBox' = <<>>
    /\ Stop(Component)
    /\ UNCHANGED refs

NodeStopped ==
    /\ nodeStatus = "stopping"
    /\ \A c \in Component : status[c] = "stopped"
    /\ nodeStatus' = "stopped"
    /\ UNCHANGED <<box, status, refs, nodeBox>>

Supervision ==
    \/ \E c \in Component : FailToStart(c)
    \/ \E w \in Worker : Escalate(w)
    \/ \E c \in Component : StopFailed(c)
    \/ \E w \in Worker : WorkerStops(w)
    \/ \E c \in Component : ComponentStops(c)
    \/ NodeStopping
    \/ NodeStopped
=============================================================================
