----------------------- MODULE EngineLifecycleTheorems ------------------------
(***************************************************************************)
(* Proofs about the engine: any slice of its components, any number of     *)
(* workers and proposals, and whatever fails or is stopped meanwhile.      *)
(***************************************************************************)
EXTENDS EngineLifecycle, MailboxTheorems, FiniteSetTheorems, SequenceTheorems,
        TLAPS

Copies(a, m) == CopiesOf(m, box[a])

WorkerReport == [type |-> "ReportWorkerInitializationComplete"]

StartupMessage == {Ref(name) : name \in RefName} \cup {WorkerReport}

\* Node.preStart has still to tell a of name.
Untold(a, name) == \E i \in unsent : References[i] = <<a, name>>

(***************************************************************************)
(* The inductive invariant, in two parts.  The boot: a reference to a      *)
(* supervisor exists once, in preStart, in a mailbox or in the actor that  *)
(* has learned of it.                                                      *)
(***************************************************************************)
SupervisorOnce ==
    \A a \in Actor :
        Copies(a, Ref("supervisor"))
            + (IF Untold(a, "supervisor") THEN 1 ELSE 0)
            + (IF "supervisor" \in refs[a] THEN 1 ELSE 0) <= 1

\* The reports of workers, counted or in the Crawler's mailbox, come from
\* different workers.
Supervised == {w \in Worker : "supervisor" \in refs[w]}

WorkersCounted ==
    /\ Worker = {} => workerReports = 0
    /\ Worker # {} =>
        workerReports + Copies("crawler", WorkerReport)
            <= Cardinality(Supervised)

\* Whoever has reported, to the Node or to its mailbox, may have.
MayReport(c) ==
    /\ "supervisor" \in refs[c]
    /\ c = "crawler" => workerReports = Cardinality(Worker)

ReportsAreTrue ==
    /\ \A i \in Reports : MayReport(nodeBox[i].from)
    /\ \A c \in complete : MayReport(c)

\* What preStart has sent to a component that runs is known or waits.
RefsArrive ==
    \A i \in PreStart \ unsent :
        LET c == References[i][1]
            name == References[i][2]
        IN  status[c] = "running" =>
                Copies(c, Ref(name)) > 0 \/ name \in refs[c]

\* So is what the Crawler has forwarded to a worker that runs.
RefsAreForwarded ==
    \A w \in Worker : \A name \in refs["crawler"] \ {"supervisor"} :
        status[w] = "running" =>
            Copies(w, Ref(name)) > 0 \/ name \in refs[w]

StartupInv ==
    /\ SupervisorOnce
    /\ WorkersCounted
    /\ ReportsAreTrue
    /\ ReportsOnce
    /\ RefsArrive
    /\ RefsAreForwarded

(***************************************************************************)
(* The work: there is none before the engine is up, and it is up only when *)
(* preStart has returned and every component has reported.                 *)
(***************************************************************************)
Started == boot \in {"up", "down"}

BootIsComplete == Started => complete = Component /\ unsent = {}

WorkFollowsBoot ==
    ~Started =>
        /\ \A a \in Actor : Queued(box[a]) \subseteq StartupMessage
        /\ \A i \in DOMAIN nodeBox : nodeBox[i].type # "ProposeNewFeed"
        /\ lookups = 0
        /\ parsings = 0

\* A download has passed through the Crawler's mailbox, behind the references
\* to the Parser and the CatalogStore.
Download == [type : {"DownloadWithHeadCheck", "DownloadContent"}, job : Job]

DownloadsAreRouted ==
    \A w \in Worker :
        Queued(box[w]) \cap Download # {} =>
            Holds("crawler", "parser") /\ Holds("crawler", "catalog")

ParsingNeedsParser == parsings > 0 => "parser" \in Component

WorkInv ==
    /\ BootIsComplete
    /\ WorkFollowsBoot
    /\ DownloadsAreRouted
    /\ ParserIsReady
    /\ ParsingNeedsParser

IInv == TypeOK /\ StartupInv /\ WorkInv

-----------------------------------------------------------------------------
(***************************************************************************)
(* Actors, messages and references                                         *)
(***************************************************************************)
\* Workers are not components, and there are workers if there is a Crawler.
LEMMA ActorFacts ==
    /\ Component \subseteq RefName
    /\ Component \subseteq Actor /\ Worker \subseteq Actor
    /\ Worker \cap RefName = {}
    /\ IsFiniteSet(Worker) /\ Cardinality(Worker) \in Nat
    /\ Worker # {} <=> "crawler" \in Component
    /\ "crawler" \notin Worker
    /\ "crawler" \in Actor <=> "crawler" \in Component
    /\ Fragile \subseteq Component
BY ActorsAssumption, FS_CardinalityType
   DEF ActorsAssumption, Actor, RefName, Components

LEMMA MessageFacts ==
    /\ \A name \in RefName : Ref(name) \in Message /\ Ref(name) # WorkerReport
    /\ \A x, y \in RefName : Ref(x) = Ref(y) => x = y
    /\ WorkerReport \in Message
    /\ ProposeNewFeed \in Message /\ ProcessFeed \in Message
    /\ \A job \in Job : /\ DownloadWithHeadCheck(job) \in Message
                        /\ DownloadContent(job) \in Message
                        /\ ParseData(job) \in Message
    /\ Download \subseteq Message /\ StartupMessage \subseteq Message
<1>1. \A name \in RefName : Ref(name) \in Message
    BY DEF Ref, Message
<1>2. \A name \in RefName : Ref(name) # WorkerReport
    <2>1. \A name \in RefName : name # "ReportWorkerInitializationComplete"
        BY DEF RefName, Components
    <2>2. \A name : Ref(name).type = name
        BY DEF Ref
    <2>3. WorkerReport.type = "ReportWorkerInitializationComplete"
        BY DEF WorkerReport
    <2> QED
        BY <2>1, <2>2, <2>3
<1>3. \A x, y \in RefName : Ref(x) = Ref(y) => x = y
    <2>1. \A name : Ref(name).type = name
        BY DEF Ref
    <2> QED
        BY <2>1
<1>4. WorkerReport \in Message
    BY DEF WorkerReport, Message
<1>5. ProposeNewFeed \in Message /\ ProcessFeed \in Message
    BY DEF ProposeNewFeed, ProcessFeed, Message
<1>6. \A job \in Job : /\ DownloadWithHeadCheck(job) \in Message
                       /\ DownloadContent(job) \in Message
                       /\ ParseData(job) \in Message
    BY DEF DownloadWithHeadCheck, DownloadContent, ParseData, Message
<1>7. Download \subseteq Message
    BY DEF Download, Message
<1> QED
    BY <1>1, <1>2, <1>3, <1>4, <1>5, <1>6, <1>7 DEF StartupMessage

\* What is not sent during the boot, by its type.
LEMMA WorkIsNotStartup ==
    /\ ProposeNewFeed \notin StartupMessage
    /\ ProcessFeed \notin StartupMessage
    /\ \A job \in Job : /\ DownloadWithHeadCheck(job) \notin StartupMessage
                        /\ DownloadContent(job) \notin StartupMessage
                        /\ ParseData(job) \notin StartupMessage
    /\ Download \cap StartupMessage = {}
    /\ \A job \in Job : /\ DownloadWithHeadCheck(job) \in Download
                        /\ DownloadContent(job) \in Download
                        /\ ParseData(job) \notin Download
    /\ ProposeNewFeed \notin Download /\ ProcessFeed \notin Download
<1> DEFINE Types == RefName \cup {"ReportWorkerInitializationComplete"}
           Work == {"ProposeNewFeed", "ProcessFeed", "DownloadWithHeadCheck",
                    "DownloadContent", "ParseNewPodcastData",
                    "ParseWebsiteData"}
<1>1. \A m \in StartupMessage : m.type \in Types
    BY DEF StartupMessage, Ref, WorkerReport
<1>2. Work \cap Types = {}
    BY DEF RefName, Components
<1>3. /\ ProposeNewFeed.type = "ProposeNewFeed"
      /\ ProcessFeed.type = "ProcessFeed"
    BY DEF ProposeNewFeed, ProcessFeed
<1>4. \A job \in Job :
        /\ DownloadWithHeadCheck(job).type = "DownloadWithHeadCheck"
        /\ DownloadContent(job).type = "DownloadContent"
        /\ ParseData(job).type \in {"ParseNewPodcastData", "ParseWebsiteData"}
    BY DEF DownloadWithHeadCheck, DownloadContent, ParseData
<1>5. \A m \in Download : m.type \in {"DownloadWithHeadCheck", "DownloadContent"}
    BY DEF Download
<1>6. \A job \in Job : /\ DownloadWithHeadCheck(job) \in Download
                       /\ DownloadContent(job) \in Download
    BY DEF Download, DownloadWithHeadCheck, DownloadContent
<1> QED
    BY <1>1, <1>2, <1>3, <1>4, <1>5, <1>6

\* References lists no reference twice; those of PreStart are to components.
LEMMA PreStartFacts ==
    /\ PreStart \subseteq Nat
    /\ \A i \in PreStart :
        /\ References[i] = <<References[i][1], References[i][2]>>
        /\ References[i][1] \in Component
        /\ References[i][2] \in Component \cup {"supervisor"}
        /\ References[i][2] \in RefName
    /\ \A i, j \in PreStart : References[i] = References[j] => i = j
<1>1. DOMAIN References = 1 .. 20
    BY DEF References
<1>2. PreStart \subseteq 1 .. 20
    BY <1>1 DEF PreStart
<1>3. \A i \in 1 .. 20 :
        i \in {1, 2, 3, 4, 5, 6, 7, 8, 9, 10, 11, 12, 13, 14, 15, 16, 17, 18, 19, 20}
    OBVIOUS
<1>4. \A i \in 1 .. 20 : References[i] = <<References[i][1], References[i][2]>>
    BY <1>3 DEF References
<1>5. \A i, j \in 1 .. 20 : References[i] = References[j] => i = j
    BY <1>3 DEF References
<1>6. \A i \in PreStart : /\ References[i][1] \in Component
                          /\ References[i][2] \in Component \cup {"supervisor"}
    BY DEF PreStart
<1>7. \A i \in PreStart : References[i][2] \in RefName
    BY <1>6, ActorFacts DEF RefName
<1>8. PreStart \subseteq Nat
    BY <1>2
<1>9. \A i \in PreStart : References[i] = <<References[i][1], References[i][2]>>
    BY <1>2, <1>4, Zenon
<1>10. \A i, j \in PreStart : References[i] = References[j] => i = j
    BY <1>2, <1>5, Zenon
<1> QED
    BY <1>6, <1>7, <1>8, <1>9, <1>10, Zenon

-----------------------------------------------------------------------------
(***************************************************************************)
(* Mailboxes: what a step does to the copies of a message.                 *)
(***************************************************************************)
BoxesOK ==
    /\ DOMAIN box = Actor
    /\ \A a \in Actor : IsMailboxOf(box[a], Message)

\* How many copies mail adds to the mailbox of a.
Sent(mail, a, m) ==
    IF status[a] = "running" /\ (\E e \in mail : e.to = a /\ e.msg = m)
    THEN 1 ELSE 0

LEMMA CopiesFacts ==
    ASSUME BoxesOK, NEW a \in Actor
    PROVE  /\ \A m : Copies(a, m) \in Nat
           /\ \A m : m \in Queued(box[a]) <=> Copies(a, m) > 0
           /\ Queued(box[a]) \subseteq Message
BY CopiesOfQueued DEF BoxesOK, IsMailboxOf, Copies

LEMMA DeliveredCopies ==
    ASSUME NEW boxes, \A a \in Actor : IsMailboxOf(boxes[a], Message),
           NEW mail, \A e \in mail : e.msg \in Message
    PROVE  /\ DOMAIN Delivered(boxes, mail) = Actor
           /\ \A a \in Actor :
                /\ IsMailboxOf(Delivered(boxes, mail)[a], Message)
                /\ \A m : CopiesOf(m, Delivered(boxes, mail)[a])
                            = CopiesOf(m, boxes[a]) + Sent(mail, a, m)
<1> DEFINE new == Delivered(boxes, mail)
           to(a) == {e.msg : e \in {x \in mail : x.to = a}}
<1>1. DOMAIN new = Actor
    BY DEF Delivered
<1>2. \A a \in Actor : new[a] = IF status[a] = "running"
                                THEN PostAll(boxes[a], to(a)) ELSE boxes[a]
    BY DEF Delivered
<1> HIDE DEF new
<1> SUFFICES ASSUME NEW a \in Actor
             PROVE  /\ IsMailboxOf(new[a], Message)
                    /\ \A m : CopiesOf(m, new[a])
                                = CopiesOf(m, boxes[a]) + Sent(mail, a, m)
    BY <1>1 DEF new
<1>3. IsMailboxOf(boxes[a], Message) /\ IsABag(boxes[a])
    BY DEF IsMailboxOf
<1>4. CASE status[a] = "running"
    <2>1. to(a) \in SUBSET Message
        OBVIOUS
    <2>2. \A m : m \in to(a) <=> \E e \in mail : e.to = a /\ e.msg = m
        OBVIOUS
    <2>3. new[a] = PostAll(boxes[a], to(a))
        BY <1>2, <1>4
    <2> HIDE DEF to
    <2>4. IsMailboxOf(new[a], Message)
        BY <1>3, <2>1, <2>3, PostAllKeepsMailbox
    <2>5. \A m : CopiesOf(m, new[a])
                    = CopiesOf(m, boxes[a]) + (IF m \in to(a) THEN 1 ELSE 0)
        BY <1>3, <2>3, PostAllAddsCopies
    <2> QED
        BY <1>4, <2>2, <2>4, <2>5 DEF Sent
<1>5. CASE status[a] # "running"
    <2>1. new[a] = boxes[a]
        BY <1>2, <1>5
    <2>2. \A m : CopiesOf(m, boxes[a]) \in Nat /\ Sent(mail, a, m) = 0
        BY <1>3, <1>5, CopiesOfQueued DEF Sent
    <2>3. \A m : CopiesOf(m, new[a]) = CopiesOf(m, boxes[a]) + Sent(mail, a, m)
        BY <2>1, <2>2
    <2> QED
        BY <1>3, <2>1, <2>3
<1> QED
    BY <1>4, <1>5

LEMMA SendCopies ==
    ASSUME BoxesOK, NEW mail, \A e \in mail : e.msg \in Message, Send(mail)
    PROVE  /\ BoxesOK'
           /\ \A a \in Actor : \A m :
                Copies(a, m)' = Copies(a, m) + Sent(mail, a, m)
BY DeliveredCopies DEF Send, BoxesOK, Copies

\* A handler takes the message that it handles.
Taken(a, m, b, n) == IF b = a /\ n = m THEN 1 ELSE 0

LEMMA HandleCopies ==
    ASSUME BoxesOK, NEW a \in Actor, NEW m \in Queued(box[a]),
           NEW mail, \A e \in mail : e.msg \in Message, Handle(a, m, mail)
    PROVE  /\ BoxesOK'
           /\ \A b \in Actor : \A n :
                Copies(b, n)' = Copies(b, n) - Taken(a, m, b, n) + Sent(mail, b, n)
<1> DEFINE boxes == [box EXCEPT ![a] = Take(@, m)]
<1>1. \A b \in Actor : boxes[b] = IF b = a THEN Take(box[a], m) ELSE box[b]
    BY DEF BoxesOK
<1>2. \A b \in Actor : IsMailboxOf(box[b], Message) /\ IsABag(box[b])
    BY DEF BoxesOK, IsMailboxOf
<1>3. IsMailboxOf(Take(box[a], m), Message)
    BY <1>2, TakeKeepsMailbox
<1>4. box' = Delivered(boxes, mail)
    BY DEF Handle
<1> HIDE DEF boxes
<1>5. \A b \in Actor : IsMailboxOf(boxes[b], Message)
    BY <1>1, <1>2, <1>3
<1>6. \A b \in Actor : \A n :
        CopiesOf(n, boxes[b]) = CopiesOf(n, box[b]) - Taken(a, m, b, n)
    <2> SUFFICES ASSUME NEW b \in Actor, NEW n
                 PROVE CopiesOf(n, boxes[b]) = CopiesOf(n, box[b]) - Taken(a, m, b, n)
        OBVIOUS
    <2>1. CopiesOf(n, box[b]) \in Nat
        BY <1>2, CopiesOfQueued
    <2>2. CASE b = a
        BY <1>1, <1>2, <2>2, TakeRemovesCopy DEF Taken
    <2>3. CASE b # a
        BY <1>1, <2>1, <2>3 DEF Taken
    <2> QED
        BY <2>2, <2>3
<1>7. /\ DOMAIN box' = Actor
      /\ \A b \in Actor :
            /\ IsMailboxOf(box'[b], Message)
            /\ \A n : CopiesOf(n, box'[b]) = CopiesOf(n, boxes[b]) + Sent(mail, b, n)
    BY <1>4, <1>5, DeliveredCopies
<1> QED
    BY <1>6, <1>7 DEF BoxesOK, Copies

\* Whatever is delivered waits in the mailbox of an actor that runs, and
\* nothing more urgent waits there.
LEMMA IncomingFacts ==
    ASSUME NEW a \in Actor, NEW m \in Incoming(a)
    PROVE  /\ m \in Queued(box[a])
           /\ status[a] = "running"
           /\ a \in Worker => status["crawler"] = "running"
           /\ \A n \in Queued(box[a]) :
                Priority(a)[m.type] <= Priority(a)[n.type]
BY DEF Incoming, Deliverable, CanRun

\* A step may stop actors, with what is in their mailboxes, but starts none.
Halting ==
    \A a \in Actor :
        \/ status'[a] = status[a] /\ box'[a] = box[a]
        \/ status'[a] # "running" /\ box'[a] \in {box[a], EmptyBag}

StatusOK == status \in [Actor -> {"running", "failed", "stopping", "stopped"}]

LEMMA FailHalts ==
    ASSUME BoxesOK, StatusOK, NEW a \in Actor, Fail(a)
    PROVE  BoxesOK' /\ StatusOK' /\ Halting
<1>1. StatusOK'
    BY DEF Fail, StatusOK
<1>2. /\ DOMAIN box' = Actor
      /\ \A b \in Actor : box'[b] = IF b = a THEN EmptyBag ELSE box[b]
      /\ \A b \in Actor : status'[b] = IF b = a THEN "failed" ELSE status[b]
    BY DEF Fail, BoxesOK, StatusOK
<1>3. BoxesOK'
    BY <1>2, EmptyMailbox DEF BoxesOK
<1>4. Halting
    BY <1>2 DEF Halting
<1> QED
    BY <1>1, <1>3, <1>4

LEMMA StopHalts ==
    ASSUME BoxesOK, StatusOK, NEW S \in SUBSET Actor, Stop(S)
    PROVE  BoxesOK' /\ StatusOK' /\ Halting
<1> DEFINE stopping == {c \in S : status[c] # "stopped"}
<1>1. /\ status' = [a \in Actor |-> IF a \in stopping THEN "stopping" ELSE status[a]]
      /\ box' = [a \in Actor |-> IF a \in stopping THEN EmptyBag ELSE box[a]]
    BY DEF Stop
<1> HIDE DEF stopping
<1>2. StatusOK'
    BY <1>1 DEF StatusOK
<1>3. BoxesOK'
    BY <1>1, EmptyMailbox DEF BoxesOK
<1>4. Halting
    BY <1>1 DEF Halting
<1> QED
    BY <1>2, <1>3, <1>4

-----------------------------------------------------------------------------
(***************************************************************************)
(* The queue of the Node.                                                  *)
(***************************************************************************)
QueueOK == nodeBox \in Seq(NodeMessage)

\* A step may tell the Node many things, but not that someone is ready.  What
\* was at place i + 1 may have moved to i.
NoNewReport ==
    \E k \in {0, 1} : \A i \in DOMAIN nodeBox' :
        \/ nodeBox'[i].type # "ReportInitializationComplete"
        \/ i + k \in DOMAIN nodeBox /\ nodeBox'[i] = nodeBox[i + k]

NoNewProposal ==
    \A i \in DOMAIN nodeBox' :
        nodeBox'[i].type = "ProposeNewFeed" =>
            \E j \in DOMAIN nodeBox : nodeBox[j].type = "ProposeNewFeed"

LEMMA SameQueue ==
    ASSUME QueueOK, UNCHANGED nodeBox
    PROVE  QueueOK' /\ NoNewReport /\ NoNewProposal
<1>1. \A i \in DOMAIN nodeBox : i + 0 = i
    BY DEF QueueOK
<1>2. NoNewReport
    BY <1>1 DEF NoNewReport
<1> QED
    BY <1>2 DEF QueueOK, NoNewProposal

LEMMA EmptiedQueue ==
    ASSUME nodeBox' = <<>>
    PROVE  QueueOK' /\ NoNewReport /\ NoNewProposal
BY EmptySeq DEF QueueOK, NoNewReport, NoNewProposal

LEMMA TellAppends ==
    ASSUME QueueOK, NEW m \in NodeMessage, Tell(m)
    PROVE  /\ QueueOK'
           /\ m.type # "ReportInitializationComplete" => NoNewReport
           /\ m.type # "ProposeNewFeed" => NoNewProposal
<1>1. CASE UNCHANGED nodeBox
    BY <1>1, SameQueue
<1>2. CASE nodeBox' = Append(nodeBox, m)
    <2>1. /\ QueueOK'
          /\ DOMAIN nodeBox = 1 .. Len(nodeBox)
          /\ DOMAIN nodeBox' = 1 .. Len(nodeBox) + 1
          /\ Len(nodeBox) \in Nat
          /\ \A i \in 1 .. Len(nodeBox) : nodeBox'[i] = nodeBox[i]
          /\ nodeBox'[Len(nodeBox) + 1] = m
        BY <1>2, AppendProperties, LenProperties DEF QueueOK
    <2>2. \A i \in DOMAIN nodeBox' :
            \/ nodeBox'[i] = m
            \/ i + 0 \in DOMAIN nodeBox /\ nodeBox'[i] = nodeBox[i + 0]
               /\ i \in DOMAIN nodeBox /\ nodeBox'[i] = nodeBox[i]
        BY <2>1
    <2>3. m.type # "ReportInitializationComplete" => NoNewReport
        BY <2>2 DEF NoNewReport
    <2>4. m.type # "ProposeNewFeed" => NoNewProposal
        BY <2>2 DEF NoNewProposal
    <2> QED
        BY <2>1, <2>3, <2>4
<1> QED
    BY <1>1, <1>2 DEF Tell

\* The first message has been handled, and m, if any, been told.
LEMMA HeadHandled ==
    ASSUME QueueOK, nodeBox # <<>>,
           \/ nodeBox' = Tail(nodeBox)
           \/ \E m \in NodeMessage :
                /\ m.type \notin {"ReportInitializationComplete", "ProposeNewFeed"}
                /\ nodeBox' = Append(Tail(nodeBox), m)
    PROVE  QueueOK' /\ NoNewReport /\ NoNewProposal
<1>1. /\ Tail(nodeBox) \in Seq(NodeMessage)
      /\ Len(Tail(nodeBox)) = Len(nodeBox) - 1
      /\ \A i \in 1 .. Len(Tail(nodeBox)) : Tail(nodeBox)[i] = nodeBox[i + 1]
      /\ Len(nodeBox) \in Nat
      /\ DOMAIN nodeBox = 1 .. Len(nodeBox)
      /\ DOMAIN Tail(nodeBox) = 1 .. Len(nodeBox) - 1
    BY HeadTailProperties, LenProperties DEF QueueOK
<1>2. \A i \in DOMAIN Tail(nodeBox) :
        i + 1 \in DOMAIN nodeBox /\ Tail(nodeBox)[i] = nodeBox[i + 1]
    BY <1>1
<1>3. CASE nodeBox' = Tail(nodeBox)
    BY <1>1, <1>2, <1>3 DEF QueueOK, NoNewReport, NoNewProposal
<1>4. ASSUME NEW m \in NodeMessage,
             m.type \notin {"ReportInitializationComplete", "ProposeNewFeed"},
             nodeBox' = Append(Tail(nodeBox), m)
      PROVE  QueueOK' /\ NoNewReport /\ NoNewProposal
    <2> DEFINE tail == Tail(nodeBox)
    <2>1. tail \in Seq(NodeMessage)
        BY <1>1
    <2>2. nodeBox' = Append(tail, m)
        BY <1>4
    <2> HIDE DEF tail
    <2>3. /\ QueueOK'
          /\ DOMAIN tail = 1 .. Len(tail)
          /\ DOMAIN nodeBox' = 1 .. Len(tail) + 1
          /\ Len(tail) \in Nat
          /\ \A i \in 1 .. Len(tail) : nodeBox'[i] = tail[i]
          /\ nodeBox'[Len(tail) + 1] = m
        BY <2>1, <2>2, AppendProperties, LenProperties DEF QueueOK
    <2>4. \A i \in DOMAIN nodeBox' :
            nodeBox'[i] = m \/ (i \in DOMAIN tail /\ nodeBox'[i] = tail[i])
        BY <2>3
    <2>5. \A i \in DOMAIN tail :
            i + 1 \in DOMAIN nodeBox /\ tail[i] = nodeBox[i + 1]
        BY <1>2 DEF tail
    <2>6. \A i \in DOMAIN nodeBox' :
            \/ nodeBox'[i] = m
            \/ i + 1 \in DOMAIN nodeBox /\ nodeBox'[i] = nodeBox[i + 1]
        BY <2>4, <2>5
    <2>7. NoNewReport /\ NoNewProposal
        BY <1>4, <2>6 DEF NoNewReport, NoNewProposal
    <2> QED
        BY <2>3, <2>7
<1> QED
    BY <1>3, <1>4

-----------------------------------------------------------------------------
(***************************************************************************)
(* Most steps are no part of the boot: they leave its messages alone, or   *)
(* lose them with the actor they are for.                                  *)
(***************************************************************************)
BootUntouched == UNCHANGED <<refs, unsent, workerReports, complete>>

Quiet ==
    /\ BootUntouched
    /\ \A a \in Actor : \A m \in StartupMessage :
        \/ Copies(a, m)' = Copies(a, m) /\ status'[a] = status[a]
        \/ Copies(a, m)' \in {Copies(a, m), 0} /\ status'[a] # "running"
    /\ QueueOK' /\ NoNewReport

LEMMA RefIsStartup ==
    /\ \A name \in RefName : Ref(name) \in StartupMessage
    /\ WorkerReport \in StartupMessage
    /\ "supervisor" \in RefName
BY DEF StartupMessage, RefName

LEMMA HaltingIsQuiet ==
    ASSUME BoxesOK, Halting, BootUntouched, QueueOK', NoNewReport
    PROVE  Quiet
<1>1. ASSUME NEW a \in Actor, NEW m \in StartupMessage
      PROVE  \/ Copies(a, m)' = Copies(a, m) /\ status'[a] = status[a]
             \/ Copies(a, m)' \in {Copies(a, m), 0} /\ status'[a] # "running"
    BY EmptyHasNoCopies DEF Halting, Copies
<1> QED
    BY <1>1 DEF Quiet

LEMMA QuietKeepsBoot ==
    ASSUME BoxesOK, refs \in [Actor -> SUBSET RefName], workerReports \in Nat,
           unsent \subseteq PreStart, StartupInv, Quiet
    PROVE  StartupInv'
<1> USE DEF BootUntouched
<1>1. \A a \in Actor : \A m \in StartupMessage :
        Copies(a, m) \in Nat /\ Copies(a, m)' \in Nat
            /\ Copies(a, m)' <= Copies(a, m)
    BY CopiesFacts DEF Quiet
<1>2. SupervisorOnce'
    <2>1. \A a \in Actor : Untold(a, "supervisor")' <=> Untold(a, "supervisor")
        BY DEF Quiet, Untold
    <2>2. ASSUME NEW a \in Actor
          PROVE  Copies(a, Ref("supervisor"))'
                    + (IF Untold(a, "supervisor") THEN 1 ELSE 0)
                    + (IF "supervisor" \in refs[a] THEN 1 ELSE 0) <= 1
        BY <1>1, RefIsStartup DEF StartupInv, SupervisorOnce
    <2> QED
        BY <2>1, <2>2 DEF Quiet, SupervisorOnce
<1>3. WorkersCounted'
    <2>1. Supervised' = Supervised /\ workerReports' = workerReports
        BY DEF Quiet, Supervised
    <2>2. CASE Worker = {}
        BY <2>1, <2>2 DEF StartupInv, WorkersCounted
    <2>3. CASE Worker # {}
        <3>1. "crawler" \in Actor
            BY <2>3, ActorFacts
        <3>2. /\ Copies("crawler", WorkerReport)' <= Copies("crawler", WorkerReport)
              /\ Copies("crawler", WorkerReport)' \in Nat
              /\ Copies("crawler", WorkerReport) \in Nat
            BY <1>1, <3>1, RefIsStartup
        <3>3. IsFiniteSet(Supervised) /\ Cardinality(Supervised) \in Nat
            BY ActorFacts, FS_Subset, FS_CardinalityType DEF Supervised
        <3> QED
            BY <2>1, <2>3, <3>2, <3>3 DEF StartupInv, WorkersCounted
    <2> QED
        BY <2>2, <2>3
<1>4. PICK k \in {0, 1} : \A i \in DOMAIN nodeBox' :
        \/ nodeBox'[i].type # "ReportInitializationComplete"
        \/ i + k \in DOMAIN nodeBox /\ nodeBox'[i] = nodeBox[i + k]
    BY DEF Quiet, NoNewReport
<1>5. \A i \in Reports' : i + k \in Reports /\ nodeBox'[i] = nodeBox[i + k]
    BY <1>4 DEF Reports
<1>6. ReportsAreTrue'
    <2>1. \A c : MayReport(c)' <=> MayReport(c)
        BY DEF Quiet, MayReport
    <2> QED
        BY <1>5, <2>1 DEF StartupInv, ReportsAreTrue, Quiet
<1>7. ReportsOnce'
    <2>1. \A i \in Reports' : i \in Int
        BY LenProperties DEF Reports, Quiet, QueueOK
    <2>2. \A i \in Reports' : nodeBox'[i].from \notin complete'
        BY <1>5 DEF StartupInv, ReportsOnce, Quiet
    <2>3. ASSUME NEW i \in Reports', NEW j \in Reports',
                 nodeBox'[i].from = nodeBox'[j].from
          PROVE  i = j
        <3>1. i + k = j + k
            BY <1>5, <2>3 DEF StartupInv, ReportsOnce
        <3>2. i \in Int /\ j \in Int /\ k \in Int
            BY <2>1
        <3> QED
            BY <3>1, <3>2
    <2> QED
        BY <2>2, <2>3 DEF ReportsOnce
<1>8. RefsArrive'
    <2> SUFFICES ASSUME NEW i \in PreStart \ unsent,
                        status'[References[i][1]] = "running"
                 PROVE  \/ Copies(References[i][1], Ref(References[i][2]))' > 0
                        \/ References[i][2] \in refs[References[i][1]]
        BY DEF RefsArrive, Quiet, PreStart
    <2> DEFINE c == References[i][1]
               name == References[i][2]
    <2>1. c \in Actor /\ name \in RefName
        BY PreStartFacts, ActorFacts
    <2>2. (status[c] = "running" => Copies(c, Ref(name)) > 0 \/ name \in refs[c])
        BY DEF StartupInv, RefsArrive
    <2>3. Ref(name) \in StartupMessage
        BY <2>1, RefIsStartup
    <2> HIDE DEF c, name
    <2>4. status'[c] = "running" =>
            status[c] = "running" /\ Copies(c, Ref(name))' = Copies(c, Ref(name))
        BY <2>1, <2>3 DEF Quiet
    <2> QED
        BY <2>2, <2>4 DEF c, name
<1>9. RefsAreForwarded'
    <2> SUFFICES ASSUME NEW w \in Worker, NEW name \in refs["crawler"] \ {"supervisor"},
                        status'[w] = "running"
                 PROVE  Copies(w, Ref(name))' > 0 \/ name \in refs[w]
        BY DEF RefsAreForwarded, Quiet
    <2>1. w \in Actor /\ name \in RefName
        BY ActorFacts
    <2>2. Ref(name) \in StartupMessage
        BY <2>1, RefIsStartup
    <2>3. status[w] = "running" /\ Copies(w, Ref(name))' = Copies(w, Ref(name))
        BY <2>1, <2>2 DEF Quiet
    <2> QED
        BY <2>3 DEF StartupInv, RefsAreForwarded
<1> QED
    BY <1>2, <1>3, <1>6, <1>7, <1>8, <1>9 DEF StartupInv

\* Handling a message of the work is quiet, and so is sending one.
LEMMA HandleIsQuiet ==
    ASSUME BoxesOK, QueueOK, NEW a \in Actor,
           NEW m \in Queued(box[a]) \ StartupMessage,
           NEW mail, \A e \in mail : e.msg \in Message \ StartupMessage,
           Handle(a, m, mail), UNCHANGED <<status, nodeBox>>, BootUntouched
    PROVE  BoxesOK' /\ Quiet
<1>1. /\ BoxesOK'
      /\ \A b \in Actor : \A n :
            Copies(b, n)' = Copies(b, n) - Taken(a, m, b, n) + Sent(mail, b, n)
    BY HandleCopies
<1>2. \A b \in Actor : \A n \in StartupMessage :
        Taken(a, m, b, n) = 0 /\ Sent(mail, b, n) = 0
    BY DEF Taken, Sent
<1>3. \A b \in Actor : \A n \in StartupMessage :
        Copies(b, n)' = Copies(b, n)
    BY <1>1, <1>2, CopiesFacts
<1> QED
    BY <1>1, <1>3, SameQueue DEF Quiet

LEMMA SendIsQuiet ==
    ASSUME BoxesOK, NEW mail, \A e \in mail : e.msg \in Message \ StartupMessage,
           Send(mail), UNCHANGED status, BootUntouched, QueueOK', NoNewReport
    PROVE  BoxesOK' /\ Quiet
<1>1. /\ BoxesOK'
      /\ \A b \in Actor : \A n :
            Copies(b, n)' = Copies(b, n) + Sent(mail, b, n)
    BY SendCopies
<1>2. \A b \in Actor : \A n \in StartupMessage : Sent(mail, b, n) = 0
    BY DEF Sent
<1>3. \A b \in Actor : \A n \in StartupMessage :
        Copies(b, n)' = Copies(b, n)
    BY <1>1, <1>2, CopiesFacts
<1> QED
    BY <1>1, <1>3 DEF Quiet

\* What may be queued after a step was queued before or has been sent.
LEMMA HandleQueues ==
    ASSUME BoxesOK, NEW a \in Actor, NEW m \in Queued(box[a]),
           NEW mail, \A e \in mail : e.msg \in Message, Handle(a, m, mail)
    PROVE  \A b \in Actor : \A n \in Queued(box'[b]) :
                n \in Queued(box[b]) \/ \E e \in mail : e.to = b /\ e.msg = n
<1>1. /\ BoxesOK'
      /\ \A b \in Actor : \A n :
            Copies(b, n)' = Copies(b, n) - Taken(a, m, b, n) + Sent(mail, b, n)
    BY HandleCopies
<1>2. SUFFICES ASSUME NEW b \in Actor, NEW n \in Queued(box'[b]),
                      ~ \E e \in mail : e.to = b /\ e.msg = n
               PROVE  n \in Queued(box[b])
    OBVIOUS
<1>3. Copies(b, n)' > 0
    BY <1>1, CopiesOfQueued DEF BoxesOK, IsMailboxOf, Copies
<1>4. Sent(mail, b, n) = 0 /\ Taken(a, m, b, n) \in {0, 1}
    BY <1>2 DEF Sent, Taken
<1>5. Copies(b, n) \in Nat
    BY CopiesFacts
<1>6. Copies(b, n) > 0
    BY <1>1, <1>3, <1>4, <1>5
<1> QED
    BY <1>6, CopiesFacts

LEMMA SendQueues ==
    ASSUME BoxesOK, NEW mail, \A e \in mail : e.msg \in Message, Send(mail)
    PROVE  \A b \in Actor : \A n \in Queued(box'[b]) :
                n \in Queued(box[b]) \/ \E e \in mail : e.to = b /\ e.msg = n
<1>1. /\ BoxesOK'
      /\ \A b \in Actor : \A n :
            Copies(b, n)' = Copies(b, n) + Sent(mail, b, n)
    BY SendCopies
<1>2. SUFFICES ASSUME NEW b \in Actor, NEW n \in Queued(box'[b]),
                      ~ \E e \in mail : e.to = b /\ e.msg = n
               PROVE  n \in Queued(box[b])
    OBVIOUS
<1>3. Copies(b, n)' > 0
    BY <1>1, CopiesOfQueued DEF BoxesOK, IsMailboxOf, Copies
<1>4. Sent(mail, b, n) = 0
    BY <1>2 DEF Sent
<1>5. Copies(b, n) > 0
    BY <1>1, <1>3, <1>4, CopiesFacts
<1> QED
    BY <1>5, CopiesFacts

LEMMA HaltingQueues ==
    ASSUME Halting
    PROVE  \A b \in Actor : Queued(box'[b]) \subseteq Queued(box[b])
BY EmptyMailbox DEF Halting

-----------------------------------------------------------------------------
(***************************************************************************)
(* How the work goes on.                                                   *)
(***************************************************************************)
\* No step forgets what the boot has reached.
Grows ==
    /\ Started => Started'
    /\ Started' => Started \/ (complete = Component /\ unsent = {})
    /\ complete \subseteq complete' /\ complete' \subseteq Component
    /\ unsent' \subseteq unsent
    /\ \A a \in Actor : refs[a] \subseteq refs'[a]

NoNewWork ==
    /\ \A a \in Actor : Queued(box'[a]) \subseteq Queued(box[a]) \cup StartupMessage
    /\ NoNewProposal
    /\ lookups' \in Nat /\ lookups' <= lookups
    /\ parsings' \in Nat /\ parsings' <= parsings

CrawlerIsReady == Holds("crawler", "parser") /\ Holds("crawler", "catalog")

LEMMA GrowsKeeps ==
    ASSUME WorkInv, Grows, complete \subseteq Component
    PROVE  /\ BootIsComplete'
           /\ Worker # {} /\ CrawlerIsReady => CrawlerIsReady'
           /\ "parser" \in Component =>
                \A name : Holds("parser", name) => Holds("parser", name)'
<1>1. BootIsComplete'
    BY DEF WorkInv, BootIsComplete, Grows
<1>2. Worker # {} => "crawler" \in Actor
    BY ActorFacts
<1>3. "parser" \in Component => "parser" \in Actor
    BY ActorFacts
<1> QED
    BY <1>1, <1>2, <1>3 DEF Grows, Holds, CrawlerIsReady

\* A step that brings no work.
LEMMA IdleKeepsWork ==
    ASSUME WorkInv, Grows, NoNewWork, complete \subseteq Component,
           lookups \in Nat, parsings \in Nat
    PROVE  WorkInv'
<1>1. BootIsComplete'
    BY GrowsKeeps
<1>2. WorkFollowsBoot'
    <2> SUFFICES ASSUME ~Started'
                 PROVE  /\ \A a \in Actor : Queued(box'[a]) \subseteq StartupMessage
                        /\ \A i \in DOMAIN nodeBox' : nodeBox'[i].type # "ProposeNewFeed"
                        /\ lookups' = 0
                        /\ parsings' = 0
        BY DEF WorkFollowsBoot
    <2>1. ~Started
        BY DEF Grows
    <2>2. /\ \A a \in Actor : Queued(box[a]) \subseteq StartupMessage
          /\ \A i \in DOMAIN nodeBox : nodeBox[i].type # "ProposeNewFeed"
          /\ lookups = 0
          /\ parsings = 0
        BY <2>1 DEF WorkInv, WorkFollowsBoot
    <2>3. \A a \in Actor : Queued(box'[a]) \subseteq StartupMessage
        BY <2>2 DEF NoNewWork
    <2> QED
        BY <2>2, <2>3 DEF NoNewWork, NoNewProposal
<1>3. DownloadsAreRouted'
    <2> SUFFICES ASSUME NEW w \in Worker, Queued(box'[w]) \cap Download # {}
                 PROVE  CrawlerIsReady'
        BY DEF DownloadsAreRouted, CrawlerIsReady
    <2>1. Queued(box[w]) \cap Download # {}
        BY WorkIsNotStartup, ActorFacts DEF NoNewWork
    <2>2. CrawlerIsReady
        BY <2>1 DEF WorkInv, DownloadsAreRouted, CrawlerIsReady
    <2> QED
        BY <2>2, GrowsKeeps
<1>4. ParserIsReady' /\ ParsingNeedsParser'
    <2>1. parsings' > 0 => parsings > 0
        BY DEF NoNewWork
    <2> QED
        BY <2>1, GrowsKeeps DEF WorkInv, ParserIsReady, ParsingNeedsParser
<1> QED
    BY <1>1, <1>2, <1>3, <1>4 DEF WorkInv

\* A step that may bring work, of an engine that is up or has been.
LEMMA BusyKeepsWork ==
    ASSUME WorkInv, Grows, Started, complete \subseteq Component,
           \A w \in Worker :
                Queued(box'[w]) \cap Download # {} =>
                    Queued(box[w]) \cap Download # {} \/ CrawlerIsReady,
           parsings' > 0 =>
                \/ parsings > 0
                \/ "parser" \in Component /\ ParserIsReady'
    PROVE  WorkInv'
<1>1. BootIsComplete' /\ WorkFollowsBoot'
    BY GrowsKeeps DEF Grows, WorkFollowsBoot
<1>2. DownloadsAreRouted'
    <2> SUFFICES ASSUME NEW w \in Worker, Queued(box'[w]) \cap Download # {}
                 PROVE  CrawlerIsReady'
        BY DEF DownloadsAreRouted, CrawlerIsReady
    <2>1. CrawlerIsReady
        BY DEF WorkInv, DownloadsAreRouted, CrawlerIsReady
    <2> QED
        BY <2>1, GrowsKeeps
<1>3. ParserIsReady' /\ ParsingNeedsParser'
    BY GrowsKeeps DEF WorkInv, ParserIsReady, ParsingNeedsParser
<1> QED
    BY <1>1, <1>2, <1>3 DEF WorkInv

-----------------------------------------------------------------------------
(***************************************************************************)
(* The kinds of steps that are no part of the boot.                        *)
(***************************************************************************)
NodeStatuses == {"running", "terminating", "stopping", "stopped"}

Boots == {"asking", "waiting", "up", "failed", "down"}

WorkTypes == proposals \in Nat /\ lookups \in Nat /\ parsings \in Nat

LEMMA TypeParts ==
    TypeOK <=>
        /\ BoxesOK /\ StatusOK /\ QueueOK /\ WorkTypes
        /\ refs \in [Actor -> SUBSET RefName]
        /\ nodeStatus \in NodeStatuses
        /\ unsent \subseteq PreStart
        /\ workerReports \in 0 .. Cardinality(Worker)
        /\ complete \subseteq Component
        /\ boot \in Boots
BY DEF TypeOK, ActorsOK, StartupOK, BoxesOK, StatusOK, QueueOK, NodeStatuses,
       Boots, WorkTypes

LEMMA TypePartsNext ==
    ASSUME BoxesOK', StatusOK', QueueOK', WorkTypes',
           refs' \in [Actor -> SUBSET RefName], nodeStatus' \in NodeStatuses,
           unsent' \subseteq PreStart,
           workerReports' \in 0 .. Cardinality(Worker),
           complete' \subseteq Component, boot' \in Boots
    PROVE  TypeOK'
BY DEF TypeOK, ActorsOK, StartupOK, BoxesOK, StatusOK, QueueOK, NodeStatuses,
       Boots, WorkTypes

LEMMA QuietIInv ==
    ASSUME IInv, Quiet, WorkInv', BoxesOK', StatusOK', QueueOK', WorkTypes',
           nodeStatus' \in NodeStatuses, boot' \in Boots
    PROVE  IInv'
<1>1. /\ BoxesOK /\ refs \in [Actor -> SUBSET RefName]
      /\ unsent \subseteq PreStart /\ complete \subseteq Component
      /\ workerReports \in 0 .. Cardinality(Worker)
    BY TypeParts DEF IInv
<1>2. workerReports \in Nat
    BY <1>1, ActorFacts
<1>3. StartupInv'
    BY <1>1, <1>2, QuietKeepsBoot DEF IInv
<1>4. /\ refs' \in [Actor -> SUBSET RefName]
      /\ unsent' \subseteq PreStart /\ complete' \subseteq Component
      /\ workerReports' \in 0 .. Cardinality(Worker)
    BY <1>1 DEF Quiet, BootUntouched
<1>5. TypeOK'
    BY <1>4, TypePartsNext
<1> QED
    BY <1>3, <1>5 DEF IInv

\* Actors fail or stop, or nothing happens to them at all.
LEMMA HaltingIInv ==
    ASSUME IInv, Halting, BoxesOK', StatusOK', BootUntouched,
           QueueOK', NoNewReport, NoNewProposal, nodeStatus' \in NodeStatuses,
           boot' \in Boots, Started => Started',
           Started' => Started \/ (complete = Component /\ unsent = {}),
           WorkTypes', lookups' <= lookups, parsings' <= parsings
    PROVE  IInv'
<1>1. BoxesOK /\ complete \subseteq Component /\ lookups \in Nat /\ parsings \in Nat
    BY TypeParts DEF IInv, WorkTypes
<1>2. Quiet
    BY <1>1, HaltingIsQuiet
<1>3. Grows
    BY <1>1 DEF Grows, BootUntouched
<1>4. NoNewWork
    BY HaltingQueues DEF NoNewWork, WorkTypes
<1>5. WorkInv'
    BY <1>1, <1>3, <1>4, IdleKeepsWork DEF IInv
<1> QED
    BY <1>2, <1>5, QuietIInv

LEMMA FailIInv ==
    ASSUME IInv, NEW a \in Actor, Fail(a),
           UNCHANGED <<refs, nodeBox, nodeStatus>>,
           UNCHANGED startup, UNCHANGED work
    PROVE  IInv'
<1> USE DEF startup, work
<1>1. /\ BoxesOK /\ StatusOK /\ QueueOK /\ WorkTypes
      /\ nodeStatus \in NodeStatuses /\ boot \in Boots
    BY TypeParts DEF IInv
<1>2. BoxesOK' /\ StatusOK' /\ Halting
    BY <1>1, FailHalts
<1>3. QueueOK' /\ NoNewReport /\ NoNewProposal
    BY <1>1, SameQueue
<1>4. /\ WorkTypes' /\ BootUntouched /\ lookups' <= lookups /\ parsings' <= parsings
      /\ Started' <=> Started
    BY <1>1 DEF WorkTypes, BootUntouched, Started
<1> QED
    BY <1>1, <1>2, <1>3, <1>4, HaltingIInv

\* A handler of the work sends what it has to.
LEMMA HandleIInv ==
    ASSUME IInv, NEW a \in Actor, NEW m \in Queued(box[a]) \ StartupMessage,
           NEW mail, \A e \in mail : e.msg \in Message \ StartupMessage,
           Handle(a, m, mail),
           UNCHANGED <<status, refs, nodeBox, nodeStatus, proposals>>,
           UNCHANGED startup, lookups' \in Nat, parsings' \in Nat,
           \A e \in mail : e.to \in Worker /\ e.msg \in Download =>
                Queued(box[e.to]) \cap Download # {} \/ CrawlerIsReady,
           parsings' > 0 =>
                \/ parsings > 0
                \/ "parser" \in Component /\ ParserIsReady'
    PROVE  IInv'
<1> USE DEF startup
<1>1. /\ BoxesOK /\ StatusOK /\ QueueOK /\ WorkTypes
      /\ nodeStatus \in NodeStatuses /\ boot \in Boots
      /\ complete \subseteq Component
    BY TypeParts DEF IInv
<1>2. BootUntouched /\ WorkTypes' /\ QueueOK' /\ StatusOK'
    BY <1>1 DEF BootUntouched, WorkTypes, QueueOK, StatusOK
<1>3. BoxesOK' /\ Quiet
    BY <1>1, <1>2, HandleIsQuiet
<1>4. Started /\ Started'
    BY DEF IInv, WorkInv, WorkFollowsBoot, Started
<1>5. Grows
    BY <1>1, <1>2, <1>4 DEF Grows, BootUntouched
<1>6. ASSUME NEW w \in Worker, Queued(box'[w]) \cap Download # {}
      PROVE  Queued(box[w]) \cap Download # {} \/ CrawlerIsReady
    <2>1. PICK n \in Queued(box'[w]) : n \in Download
        BY <1>6
    <2>2. n \in Queued(box[w]) \/ \E e \in mail : e.to = w /\ e.msg = n
        BY <1>1, HandleQueues, ActorFacts
    <2> QED
        BY <2>1, <2>2
<1>7. WorkInv'
    BY <1>1, <1>4, <1>5, <1>6, BusyKeepsWork DEF IInv
<1> QED
    BY <1>1, <1>2, <1>3, <1>7, QuietIInv

\* A thread of no actor sends what comes of the work.
LEMMA SendIInv ==
    ASSUME IInv, Started, NEW mail,
           \A e \in mail : e.msg \in Message \ StartupMessage /\ e.to \notin Worker,
           Send(mail), UNCHANGED <<status, refs, nodeStatus>>,
           UNCHANGED startup, WorkTypes', parsings' <= parsings,
           QueueOK', NoNewReport
    PROVE  IInv'
<1> USE DEF startup
<1>1. /\ BoxesOK /\ StatusOK /\ QueueOK /\ WorkTypes
      /\ nodeStatus \in NodeStatuses /\ boot \in Boots
      /\ complete \subseteq Component
    BY TypeParts DEF IInv
<1>2. BootUntouched /\ StatusOK' /\ Started'
    BY <1>1 DEF BootUntouched, StatusOK, Started
<1>3. BoxesOK' /\ Quiet
    BY <1>1, <1>2, SendIsQuiet
<1>4. Grows
    BY <1>1, <1>2 DEF Grows, BootUntouched
<1>5. ASSUME NEW w \in Worker, Queued(box'[w]) \cap Download # {}
      PROVE  Queued(box[w]) \cap Download # {}
    BY <1>1, <1>5, SendQueues, ActorFacts
<1>6. parsings' > 0 => parsings > 0
    BY <1>1 DEF WorkTypes
<1>7. WorkInv'
    BY <1>1, <1>4, <1>5, <1>6, BusyKeepsWork DEF IInv
<1> QED
    BY <1>1, <1>2, <1>3, <1>7, QuietIInv

-----------------------------------------------------------------------------
(***************************************************************************)
(* Priorities: what each mailbox hands over first.                         *)
(***************************************************************************)
LEMMA MessageTypes ==
    /\ \A m \in Message : m.type \in MessageType
    /\ \A name \in RefName : name \in MessageType
<1>1. \A m \in Message : m.type \in MessageType
    BY DEF MessageType
<1>2. \A name \in RefName : Ref(name).type = name
    BY DEF Ref
<1> QED
    BY <1>1, <1>2, MessageFacts

\* A download is not handed to the Crawler or a worker before the references
\* to the Parser and the CatalogStore that wait with it.
LEMMA DownloadsComeLater ==
    ASSUME BoxesOK, NEW a \in Worker \cup {"crawler"}, a \in Actor,
           NEW m \in Incoming(a), m \in Download,
           NEW name \in {"parser", "catalog"}
    PROVE  Copies(a, Ref(name)) = 0
<1>1. Priority(a) = CrawlerMailbox
    BY ActorFacts DEF Priority, RefName, Components
<1>2. name \in RefName /\ Ref(name).type = name
    BY DEF RefName, Components, Ref
<1>3. m \in Message
    BY MessageFacts
<1>4. m.type \in {"DownloadWithHeadCheck", "DownloadContent"}
    BY DEF Download
<1>5. CrawlerMailbox[m.type] = 1 /\ CrawlerMailbox[name] = 0
    BY <1>2, <1>3, <1>4, MessageTypes DEF CrawlerMailbox
<1>6. Ref(name) \notin Queued(box[a])
    BY <1>1, <1>2, <1>5, IncomingFacts
<1> QED
    BY <1>6, CopiesFacts

\* Nor is a feed to the Parser.
LEMMA FeedsComeLater ==
    ASSUME BoxesOK, "parser" \in Actor, NEW job \in Job,
           ParseData(job) \in Incoming("parser"),
           NEW name \in {"catalog", "crawler"}
    PROVE  Copies("parser", Ref(name)) = 0
<1>1. Priority("parser") = ParserMailbox
    BY ActorFacts DEF Priority, RefName, Components
<1>2. name \in RefName /\ Ref(name).type = name
    BY DEF RefName, Components, Ref
<1>3. ParseData(job) \in Message
    BY MessageFacts
<1>4. ParseData(job).type \in {"ParseNewPodcastData", "ParseWebsiteData"}
    BY DEF ParseData
<1>5. ParserMailbox[ParseData(job).type] \in {2, 3} /\ ParserMailbox[name] = 0
    BY <1>2, <1>3, <1>4, MessageTypes DEF ParserMailbox
<1>6. Ref(name) \notin Queued(box["parser"])
    BY <1>1, <1>2, <1>5, IncomingFacts
<1> QED
    BY <1>6, CopiesFacts

\* When the engine is up, preStart has told the components of one another.
LEMMA ToldWhenStarted ==
    ASSUME IInv, Started, NEW i \in PreStart,
           status[References[i][1]] = "running",
           Copies(References[i][1], Ref(References[i][2])) = 0
    PROVE  References[i][2] \in refs[References[i][1]]
<1>1. i \in PreStart \ unsent
    BY DEF IInv, WorkInv, BootIsComplete
<1> QED
    BY <1>1, PreStartFacts, ActorFacts, CopiesFacts, TypeParts
    DEF IInv, StartupInv, RefsArrive

LEMMA NeededReferences ==
    /\ {"crawler", "parser"} \subseteq Component =>
        \E i \in PreStart : References[i] = <<"crawler", "parser">>
    /\ {"crawler", "catalog"} \subseteq Component =>
        \E i \in PreStart : References[i] = <<"crawler", "catalog">>
    /\ {"parser", "crawler"} \subseteq Component =>
        \E i \in PreStart : References[i] = <<"parser", "crawler">>
    /\ {"parser", "catalog"} \subseteq Component =>
        \E i \in PreStart : References[i] = <<"parser", "catalog">>
<1>1. /\ References[3] = <<"crawler", "catalog">>
      /\ References[4] = <<"crawler", "parser">>
      /\ References[6] = <<"parser", "catalog">>
      /\ References[8] = <<"parser", "crawler">>
      /\ {3, 4, 6, 8} \subseteq DOMAIN References
    BY DEF References
<1> HIDE DEF References
<1>2. \A i \in {3, 4, 6, 8} :
        References[i][1] \in Component /\ References[i][2] \in Component
            => i \in PreStart
    BY <1>1 DEF PreStart
<1> QED
    BY <1>1, <1>2

\* The Crawler has been told of both when it comes to a download, and the
\* Parser when it comes to a feed.
LEMMA CrawlerWasTold ==
    ASSUME IInv, Started, "crawler" \in Actor, NEW m \in Incoming("crawler"),
           m \in Download
    PROVE  CrawlerIsReady
<1>1. BoxesOK
    BY TypeParts DEF IInv
<1>2. /\ Copies("crawler", Ref("parser")) = 0
      /\ Copies("crawler", Ref("catalog")) = 0
    BY <1>1, DownloadsComeLater
<1>3. status["crawler"] = "running"
    BY IncomingFacts
<1>4. ASSUME NEW name \in {"parser", "catalog"}, name \in Component
      PROVE  name \in refs["crawler"]
    <2>1. PICK i \in PreStart : References[i] = <<"crawler", name>>
        BY <1>4, ActorFacts, NeededReferences
    <2>2. References[i][1] = "crawler" /\ References[i][2] = name
        BY <2>1
    <2> QED
        BY <1>2, <1>3, <2>2, ToldWhenStarted
<1> QED
    BY <1>4 DEF CrawlerIsReady, Holds

LEMMA ParserWasTold ==
    ASSUME IInv, Started, "parser" \in Actor, NEW job \in Job,
           ParseData(job) \in Incoming("parser")
    PROVE  Holds("parser", "crawler") /\ Holds("parser", "catalog")
<1>1. BoxesOK
    BY TypeParts DEF IInv
<1>2. /\ Copies("parser", Ref("crawler")) = 0
      /\ Copies("parser", Ref("catalog")) = 0
    BY <1>1, FeedsComeLater
<1>3. status["parser"] = "running"
    BY IncomingFacts
<1>4. "parser" \in Component
    BY ActorFacts DEF Actor, RefName, Components
<1>5. ASSUME NEW name \in {"crawler", "catalog"}, name \in Component
      PROVE  name \in refs["parser"]
    <2>1. PICK i \in PreStart : References[i] = <<"parser", name>>
        BY <1>4, <1>5, NeededReferences
    <2>2. References[i][1] = "parser" /\ References[i][2] = name
        BY <2>1
    <2> QED
        BY <1>2, <1>3, <2>2, ToldWhenStarted
<1> QED
    BY <1>5 DEF Holds

\* And a worker, to which the Crawler has forwarded them.
LEMMA WorkerWasTold ==
    ASSUME IInv, NEW w \in Worker, NEW m \in Incoming(w), m \in Download
    PROVE  Holds(w, "parser") /\ Holds(w, "catalog")
<1>1. BoxesOK /\ w \in Actor
    BY TypeParts, ActorFacts DEF IInv
<1>2. Copies(w, Ref("parser")) = 0 /\ Copies(w, Ref("catalog")) = 0
    BY <1>1, DownloadsComeLater
<1>3. status[w] = "running" /\ m \in Queued(box[w])
    BY <1>1, IncomingFacts
<1>4. CrawlerIsReady
    BY <1>3 DEF IInv, WorkInv, DownloadsAreRouted, CrawlerIsReady
<1>5. ASSUME NEW name \in {"parser", "catalog"}, name \in Component
      PROVE  name \in refs[w]
    <2>1. name \in refs["crawler"] \ {"supervisor"}
        BY <1>4, <1>5 DEF CrawlerIsReady, Holds
    <2> QED
        BY <1>2, <1>3, <1>5, <2>1 DEF IInv, StartupInv, RefsAreForwarded
<1> QED
    BY <1>5 DEF Holds

-----------------------------------------------------------------------------
(***************************************************************************)
(* The actions of the work                                                 *)
(***************************************************************************)
LEMMA IncomingIsQueued ==
    ASSUME NEW a \in Actor, NEW m \in Incoming(a), m \notin StartupMessage
    PROVE  m \in Queued(box[a]) \ StartupMessage
BY IncomingFacts

LEMMA CatalogReceivesProposalIInv ==
    ASSUME IInv, "catalog" \in Actor, CatalogReceivesProposal
    PROVE  IInv'
<1>1. ProposeNewFeed \in Queued(box["catalog"]) \ StartupMessage
    BY IncomingIsQueued, WorkIsNotStartup DEF CatalogReceivesProposal
<1>2. WorkTypes
    BY TypeParts DEF IInv
<1> QED
    BY <1>1, <1>2, HandleIInv DEF CatalogReceivesProposal, WorkTypes

LEMMA UpdaterReceivesFeedIInv ==
    ASSUME IInv, "updater" \in Actor, UpdaterReceivesFeed
    PROVE  IInv'
<1> DEFINE mail == {Envelope("crawler", DownloadWithHeadCheck("feed"))}
<1>1. ProcessFeed \in Queued(box["updater"]) \ StartupMessage
    BY IncomingIsQueued, WorkIsNotStartup DEF UpdaterReceivesFeed
<1>2. WorkTypes
    BY TypeParts DEF IInv
<1>3. CASE Fail("updater")
    BY <1>3, FailIInv DEF UpdaterReceivesFeed
<1>4. CASE Handle("updater", ProcessFeed, mail) /\ UNCHANGED status
    <2>1. "feed" \in Job
        BY DEF Job
    <2>2. \A e \in mail : /\ e.msg \in Message \ StartupMessage
                          /\ e.to \notin Worker
        BY <2>1, MessageFacts, WorkIsNotStartup, ActorFacts DEF Envelope
    <2> HIDE DEF mail
    <2> QED
        BY <1>1, <1>2, <1>4, <2>2, HandleIInv DEF UpdaterReceivesFeed, WorkTypes, work
<1> QED
    BY <1>3, <1>4 DEF UpdaterReceivesFeed

LEMMA CrawlerRoutesIInv ==
    ASSUME IInv, "crawler" \in Actor, CrawlerRoutes
    PROVE  IInv'
<1>1. PICK job \in Job, w \in Worker :
        /\ DownloadWithHeadCheck(job) \in Incoming("crawler")
        /\ Handle("crawler", DownloadWithHeadCheck(job),
                  {Envelope(w, DownloadWithHeadCheck(job))})
    BY DEF CrawlerRoutes
<1> DEFINE m == DownloadWithHeadCheck(job)
           mail == {Envelope(w, m)}
<1>2. m \in Message \ StartupMessage /\ m \in Download
    BY MessageFacts, WorkIsNotStartup
<1>3. m \in Queued(box["crawler"]) \ StartupMessage
    BY <1>1, <1>2, IncomingIsQueued
<1>4. Started
    BY <1>3 DEF IInv, WorkInv, WorkFollowsBoot
<1>5. CrawlerIsReady
    BY <1>1, <1>2, <1>4, CrawlerWasTold
<1>6. \A e \in mail : e.msg \in Message \ StartupMessage
    BY <1>2 DEF Envelope
<1>7. WorkTypes
    BY TypeParts DEF IInv
<1>8. Handle("crawler", m, mail)
    BY <1>1
<1> HIDE DEF m, mail
<1> QED
    BY <1>3, <1>5, <1>6, <1>7, <1>8, HandleIInv DEF CrawlerRoutes, WorkTypes, work

LEMMA WorkerChecksHeadIInv ==
    ASSUME IInv, NEW w \in Worker, WorkerChecksHead(w)
    PROVE  IInv'
<1>1. PICK job \in Job :
        /\ DownloadWithHeadCheck(job) \in Incoming(w)
        /\ \/ HeadCheckEnds(w, job)
           \/ HeadCheckWithoutLocation(w, job)
           \/ \E redirected \in BOOLEAN : HeadCheckSucceeds(w, job, redirected)
    BY DEF WorkerChecksHead
<1> DEFINE m == DownloadWithHeadCheck(job)
<1>2. w \in Actor /\ WorkTypes
    BY TypeParts, ActorFacts DEF IInv
<1>3. m \in Download /\ m \in Queued(box[w]) \ StartupMessage
    BY <1>1, <1>2, IncomingIsQueued, WorkIsNotStartup
<1>4. /\ UNCHANGED <<refs, nodeBox, nodeStatus>>
      /\ UNCHANGED startup /\ UNCHANGED work
    BY DEF WorkerChecksHead
<1>5. CASE Fail(w)
    BY <1>2, <1>4, <1>5, FailIInv
<1>6. ASSUME NEW mail \in {{}, {Envelope(w, DownloadContent(job))}},
             Handle(w, m, mail), UNCHANGED status
      PROVE  IInv'
    <2>1. \A e \in mail : e.msg \in Message \ StartupMessage /\ e.to = w
        BY MessageFacts, WorkIsNotStartup DEF Envelope
    <2>2. Queued(box[w]) \cap Download # {}
        BY <1>3
    <2> HIDE DEF m
    <2> QED
        BY <1>2, <1>3, <1>4, <1>6, <2>1, <2>2, HandleIInv DEF WorkTypes, work
<1>7. CASE HeadCheckEnds(w, job)
    BY <1>6, <1>7 DEF HeadCheckEnds
<1>8. ASSUME NEW redirected \in BOOLEAN, HeadCheckSucceeds(w, job, redirected)
      PROVE  IInv'
    BY <1>5, <1>6, <1>8 DEF HeadCheckSucceeds
<1>9. CASE HeadCheckWithoutLocation(w, job)
    BY <1>5, <1>7, <1>9 DEF HeadCheckWithoutLocation
<1> QED
    BY <1>1, <1>7, <1>8, <1>9

LEMMA WorkerFetchesIInv ==
    ASSUME IInv, NEW w \in Worker, WorkerFetches(w)
    PROVE  IInv'
<1>1. PICK job \in Job :
        /\ DownloadContent(job) \in Incoming(w)
        /\ \/ Handle(w, DownloadContent(job), {}) /\ UNCHANGED status
           \/ FetchSucceeds(w, job)
           \/ UnknownCharset /\ Fail(w)
    BY DEF WorkerFetches
<1> DEFINE m == DownloadContent(job)
<1>2. w \in Actor /\ WorkTypes
    BY TypeParts, ActorFacts DEF IInv
<1>3. m \in Queued(box[w]) \ StartupMessage
    BY <1>1, <1>2, IncomingIsQueued, WorkIsNotStartup
<1>4. /\ UNCHANGED <<refs, nodeBox, nodeStatus>>
      /\ UNCHANGED startup /\ UNCHANGED work
    BY DEF WorkerFetches
<1>5. CASE Fail(w)
    BY <1>2, <1>4, <1>5, FailIInv
<1>6. ASSUME NEW mail \in {{}, {Envelope("parser", ParseData(job))}},
             Handle(w, m, mail), UNCHANGED status
      PROVE  IInv'
    <2>1. \A e \in mail : e.msg \in Message \ StartupMessage /\ e.msg \notin Download
        BY MessageFacts, WorkIsNotStartup DEF Envelope
    <2> HIDE DEF m
    <2> QED
        BY <1>2, <1>3, <1>4, <1>6, <2>1, HandleIInv DEF WorkTypes, work
<1>7. CASE FetchSucceeds(w, job)
    BY <1>5, <1>6, <1>7 DEF FetchSucceeds
<1> QED
    BY <1>1, <1>5, <1>6, <1>7

LEMMA ParserReceivesFeedIInv ==
    ASSUME IInv, "parser" \in Actor, ParserReceivesFeed
    PROVE  IInv'
<1> DEFINE m == ParseData("feed")
<1>1. m \in Incoming("parser") /\ "feed" \in Job
    BY DEF ParserReceivesFeed, Job
<1>2. m \in Queued(box["parser"]) \ StartupMessage
    BY <1>1, IncomingIsQueued, WorkIsNotStartup
<1>3. Started
    BY <1>2 DEF IInv, WorkInv, WorkFollowsBoot
<1>4. Holds("parser", "crawler") /\ Holds("parser", "catalog")
    BY <1>1, <1>3, ParserWasTold
<1>5. "parser" \in Component
    BY ActorFacts DEF Actor, RefName, Components
<1>6. ParserIsReady'
    BY <1>4 DEF ParserIsReady, Holds, ParserReceivesFeed
<1>7. WorkTypes
    BY TypeParts DEF IInv
<1>8. Handle("parser", m, {})
    BY DEF ParserReceivesFeed
<1> HIDE DEF m
<1> QED
    BY <1>2, <1>5, <1>6, <1>7, <1>8, HandleIInv DEF ParserReceivesFeed, WorkTypes

LEMMA ParserReceivesWebsiteIInv ==
    ASSUME IInv, "parser" \in Actor, ParserReceivesWebsite
    PROVE  IInv'
<1> DEFINE m == ParseData("website")
<1>1. m \in Queued(box["parser"]) \ StartupMessage
    BY IncomingIsQueued, WorkIsNotStartup DEF ParserReceivesWebsite, Job
<1>2. WorkTypes
    BY TypeParts DEF IInv
<1>3. CASE Fail("parser")
    BY <1>3, FailIInv DEF ParserReceivesWebsite
<1>4. CASE Handle("parser", m, {}) /\ UNCHANGED status
    <2> HIDE DEF m
    <2> QED
        BY <1>1, <1>2, <1>4, HandleIInv DEF ParserReceivesWebsite, WorkTypes, work
<1> QED
    BY <1>3, <1>4 DEF ParserReceivesWebsite

LEMMA ProposeIInv ==
    ASSUME IInv, Propose
    PROVE  IInv'
<1>1. /\ BoxesOK /\ StatusOK /\ QueueOK /\ WorkTypes
      /\ nodeStatus \in NodeStatuses /\ boot \in Boots
      /\ complete \subseteq Component
    BY TypeParts DEF IInv
<1>2. ProposeNewFeed \in NodeMessage
      /\ ProposeNewFeed.type # "ReportInitializationComplete"
    BY DEF ProposeNewFeed, NodeMessage
<1>3. QueueOK' /\ NoNewReport
    BY <1>1, <1>2, TellAppends DEF Propose
<1>4. /\ BoxesOK' /\ StatusOK' /\ WorkTypes' /\ BootUntouched
      /\ nodeStatus' \in NodeStatuses /\ boot' \in Boots
    BY <1>1 DEF Propose, startup, BoxesOK, StatusOK, WorkTypes, BootUntouched
<1>5. Halting
    BY DEF Halting, Propose
<1>6. Quiet
    BY <1>1, <1>3, <1>4, <1>5, HaltingIsQuiet
<1>7. Started /\ Started' /\ Grows
    BY <1>1 DEF Propose, Started, startup, Grows
<1>8. WorkInv'
    BY <1>1, <1>7, BusyKeepsWork DEF IInv, Propose
<1> QED
    BY <1>3, <1>4, <1>6, <1>8, QuietIInv

\* What the Node handles is in its queue, and the boot has told everything.
LEMMA NodeReceivesFacts ==
    ASSUME QueueOK, NEW type, NodeReceives(type)
    PROVE  /\ nodeBox # <<>> /\ unsent = {} /\ NodeRuns
           /\ 1 \in DOMAIN nodeBox
           /\ nodeBox[1] = Head(nodeBox)
           /\ nodeBox[1].type = type /\ nodeBox[1] \in NodeMessage
<1>1. nodeBox # <<>> /\ unsent = {} /\ NodeRuns /\ Head(nodeBox).type = type
    BY DEF NodeReceives
<1>2. Len(nodeBox) \in Nat \ {0} /\ DOMAIN nodeBox = 1 .. Len(nodeBox)
    BY <1>1, EmptySeq, LenProperties DEF QueueOK
<1>3. 1 \in DOMAIN nodeBox
    BY <1>2
<1>4. nodeBox[1] \in NodeMessage
    BY <1>2, ElementOfSeq DEF QueueOK
<1>5. nodeBox[1] = Head(nodeBox)
    BY DEF QueueOK
<1> QED
    BY <1>1, <1>3, <1>4, <1>5

LEMMA NodeForwardsIInv ==
    ASSUME IInv, NodeForwards
    PROVE  IInv'
<1> DEFINE mail == {IF "catalog" \in Component
                    THEN Envelope("catalog", ProposeNewFeed)
                    ELSE Envelope("crawler", DownloadWithHeadCheck("feed"))}
<1>1. QueueOK /\ WorkTypes
    BY TypeParts DEF IInv
<1>2. /\ nodeBox # <<>> /\ 1 \in DOMAIN nodeBox
      /\ nodeBox[1].type = "ProposeNewFeed"
    BY <1>1, NodeReceivesFacts DEF NodeForwards
<1>3. Started
    BY <1>2 DEF IInv, WorkInv, WorkFollowsBoot
<1>4. QueueOK' /\ NoNewReport
    BY <1>1, <1>2, HeadHandled DEF NodeForwards
<1>5. "feed" \in Job /\ "catalog" \notin Worker /\ "crawler" \notin Worker
    BY ActorFacts DEF Job, RefName, Components
<1>6. \A e \in mail : e.msg \in Message \ StartupMessage /\ e.to \notin Worker
    BY <1>5, MessageFacts, WorkIsNotStartup DEF Envelope
<1>7. Send(mail)
    BY DEF NodeForwards
<1> HIDE DEF mail
<1> QED
    BY <1>1, <1>3, <1>4, <1>6, <1>7, SendIInv DEF NodeForwards, WorkTypes, work

LEMMA DatabaseAnswersIInv ==
    ASSUME IInv, DatabaseAnswers
    PROVE  IInv'
<1> DEFINE mail == IF Holds("catalog", "updater")
                   THEN {Envelope("updater", ProcessFeed)} ELSE {}
<1>1. /\ BoxesOK /\ StatusOK /\ QueueOK /\ WorkTypes
      /\ nodeStatus \in NodeStatuses /\ boot \in Boots
    BY TypeParts DEF IInv
<1>2. /\ lookups > 0 /\ lookups' = lookups - 1
      /\ UNCHANGED <<status, refs, nodeBox, nodeStatus, proposals, parsings>>
      /\ UNCHANGED startup
    BY DEF DatabaseAnswers, ProposalEnds, FeedIsSaved, actors
<1>3. Started
    BY <1>1, <1>2 DEF IInv, WorkInv, WorkFollowsBoot
<1>4. QueueOK' /\ NoNewReport /\ NoNewProposal /\ WorkTypes'
    BY <1>1, <1>2, SameQueue DEF WorkTypes
<1>5. parsings' <= parsings /\ lookups' <= lookups
    BY <1>1, <1>2 DEF WorkTypes
<1>6. CASE ProposalEnds
    <2>1. Halting /\ BoxesOK' /\ StatusOK' /\ BootUntouched
        BY <1>1, <1>6 DEF ProposalEnds, actors, startup, Halting, BoxesOK,
                          StatusOK, BootUntouched
    <2>2. Started' <=> Started
        BY <1>2 DEF startup, Started
    <2>3. nodeStatus' \in NodeStatuses /\ boot' \in Boots
        BY <1>1, <1>2 DEF startup
    <2> QED
        BY <1>4, <1>5, <2>1, <2>2, <2>3, HaltingIInv
<1>7. CASE FeedIsSaved
    <2>1. "updater" \notin Worker
        BY ActorFacts DEF RefName, Components
    <2>2. \A e \in mail : e.msg \in Message \ StartupMessage /\ e.to \notin Worker
        BY <2>1, MessageFacts, WorkIsNotStartup DEF Envelope
    <2>3. Send(mail)
        BY <1>7 DEF FeedIsSaved
    <2> HIDE DEF mail
    <2> QED
        BY <1>2, <1>3, <1>4, <1>5, <2>2, <2>3, SendIInv
<1> QED
    BY <1>6, <1>7 DEF DatabaseAnswers

LEMMA FeedIsParsedIInv ==
    ASSUME IInv, FeedIsParsed
    PROVE  IInv'
<1> DEFINE mail == {Envelope("crawler", DownloadWithHeadCheck("website"))}
<1>1. /\ BoxesOK /\ StatusOK /\ QueueOK /\ WorkTypes
      /\ nodeStatus \in NodeStatuses /\ boot \in Boots
    BY TypeParts DEF IInv
<1>2. /\ parsings > 0 /\ parsings' = parsings - 1
      /\ UNCHANGED <<status, refs, nodeBox, nodeStatus, proposals, lookups>>
      /\ UNCHANGED startup
    BY DEF FeedIsParsed
<1>3. Started
    BY <1>1, <1>2 DEF IInv, WorkInv, WorkFollowsBoot
<1>4. QueueOK' /\ NoNewReport /\ NoNewProposal /\ WorkTypes'
    BY <1>1, <1>2, SameQueue DEF WorkTypes
<1>5. parsings' <= parsings /\ lookups' <= lookups
    BY <1>1, <1>2 DEF WorkTypes
<1>6. CASE UNCHANGED box
    <2>1. Halting /\ BoxesOK' /\ StatusOK' /\ BootUntouched
        BY <1>1, <1>2, <1>6 DEF startup, Halting, BoxesOK, StatusOK, BootUntouched
    <2>2. Started' <=> Started
        BY <1>2 DEF startup, Started
    <2>3. nodeStatus' \in NodeStatuses /\ boot' \in Boots
        BY <1>1, <1>2 DEF startup
    <2> QED
        BY <1>4, <1>5, <2>1, <2>2, <2>3, HaltingIInv
<1>7. CASE Send(mail)
    <2>1. "crawler" \notin Worker /\ "website" \in Job
        BY ActorFacts DEF Job
    <2>2. \A e \in mail : e.msg \in Message \ StartupMessage /\ e.to \notin Worker
        BY <2>1, MessageFacts, WorkIsNotStartup DEF Envelope
    <2> HIDE DEF mail
    <2> QED
        BY <1>2, <1>3, <1>4, <1>5, <1>7, <2>2, SendIInv
<1> QED
    BY <1>6, <1>7 DEF FeedIsParsed

-----------------------------------------------------------------------------
(***************************************************************************)
(* The HeminEngine, the answers of the Node, and supervision               *)
(***************************************************************************)
LEMMA EngineThreadIInv ==
    ASSUME IInv, Ask \/ AskTimesOut \/ Shutdown, UNCHANGED work
    PROVE  IInv'
<1>1. /\ BoxesOK /\ StatusOK /\ QueueOK /\ WorkTypes
      /\ nodeStatus \in NodeStatuses /\ boot \in Boots
    BY TypeParts DEF IInv
<1>2. UNCHANGED <<box, status, refs, unsent, workerReports, complete>>
    BY DEF Ask, AskTimesOut, Shutdown, actors
<1>3. /\ BoxesOK' /\ StatusOK' /\ BootUntouched /\ Halting
      /\ WorkTypes' /\ lookups' <= lookups /\ parsings' <= parsings
    BY <1>1, <1>2 DEF BoxesOK, StatusOK, BootUntouched, Halting, WorkTypes, work
<1>4. QueueOK' /\ NoNewReport /\ NoNewProposal
    <2> DEFINE m == [type |-> "EngineOperational"]
    <2>1. m \in NodeMessage /\ m.type = "EngineOperational"
        BY DEF NodeMessage
    <2>2. CASE Ask
        BY <1>1, <2>1, <2>2, TellAppends DEF Ask
    <2>3. CASE AskTimesOut \/ Shutdown
        BY <1>1, <2>3, SameQueue DEF AskTimesOut, Shutdown, actors
    <2> QED
        BY <2>2, <2>3
<1>5. /\ boot' \in Boots /\ nodeStatus' \in NodeStatuses
      /\ Started' <=> Started
    BY <1>1 DEF Ask, AskTimesOut, Shutdown, actors, Boots, NodeStatuses, Started
<1> QED
    BY <1>1, <1>3, <1>4, <1>5, HaltingIInv

LEMMA NodeAnswersIInv ==
    ASSUME IInv, NodeAnswers, UNCHANGED work
    PROVE  IInv'
<1>1. /\ BoxesOK /\ StatusOK /\ QueueOK /\ WorkTypes
      /\ nodeStatus \in NodeStatuses /\ boot \in Boots
    BY TypeParts DEF IInv
<1>2. nodeBox # <<>> /\ unsent = {}
    BY <1>1, NodeReceivesFacts DEF NodeAnswers
<1>3. QueueOK' /\ NoNewReport /\ NoNewProposal
    BY <1>1, <1>2, HeadHandled DEF NodeAnswers
<1>4. /\ BoxesOK' /\ StatusOK' /\ BootUntouched /\ Halting
      /\ WorkTypes' /\ lookups' <= lookups /\ parsings' <= parsings
      /\ nodeStatus' \in NodeStatuses
    BY <1>1 DEF NodeAnswers, BoxesOK, StatusOK, BootUntouched, Halting, WorkTypes, work
<1>5. /\ boot' \in Boots /\ (Started => Started')
      /\ Started' => Started \/ (complete = Component /\ unsent = {})
    BY <1>1, <1>2 DEF NodeAnswers, Boots, Started
<1> QED
    BY <1>1, <1>3, <1>4, <1>5, HaltingIInv

LEMMA NodeTerminatesIInv ==
    ASSUME IInv, NodeTerminates, UNCHANGED work
    PROVE  IInv'
<1>1. /\ BoxesOK /\ StatusOK /\ QueueOK /\ WorkTypes
      /\ nodeStatus \in NodeStatuses /\ boot \in Boots
    BY TypeParts DEF IInv
<1>2. nodeBox # <<>>
    BY <1>1, NodeReceivesFacts DEF NodeTerminates
<1>3. /\ UNCHANGED refs /\ UNCHANGED startup
      /\ nodeStatus' \in NodeStatuses
    BY <1>1 DEF NodeTerminates, OnTerminated, OnSystemShutdown, NodeStatuses
<1>4. BoxesOK' /\ StatusOK' /\ Halting
    <2>1. CASE OnTerminated
        BY <1>1, <2>1 DEF OnTerminated, BoxesOK, StatusOK, Halting
    <2>2. CASE OnSystemShutdown
        BY <1>1, <2>2, StopHalts, ActorFacts DEF OnSystemShutdown
    <2> QED
        BY <2>1, <2>2 DEF NodeTerminates
<1>5. QueueOK' /\ NoNewReport /\ NoNewProposal
    <2> DEFINE m == [type |-> "ShutdownSystem"]
    <2>1. m \in NodeMessage /\ m.type = "ShutdownSystem"
        BY DEF NodeMessage
    <2>2. \/ nodeBox' = Tail(nodeBox)
          \/ nodeBox' = Append(Tail(nodeBox), m)
        BY DEF NodeTerminates, OnTerminated, OnSystemShutdown
    <2> HIDE DEF m
    <2> QED
        BY <1>1, <1>2, <2>1, <2>2, HeadHandled
<1>6. /\ BootUntouched /\ boot' \in Boots /\ (Started' <=> Started)
      /\ WorkTypes' /\ lookups' <= lookups /\ parsings' <= parsings
    BY <1>1, <1>3 DEF startup, work, BootUntouched, Started, WorkTypes
<1> QED
    BY <1>1, <1>3, <1>4, <1>5, <1>6, HaltingIInv

LEMMA SuperviseIInv ==
    ASSUME IInv, Supervise
    PROVE  IInv'
<1>1. /\ BoxesOK /\ StatusOK /\ QueueOK /\ WorkTypes
      /\ nodeStatus \in NodeStatuses /\ boot \in Boots
    BY TypeParts DEF IInv
<1>2. /\ UNCHANGED startup /\ UNCHANGED work
      /\ boot' \in Boots /\ (Started' <=> Started)
      /\ WorkTypes' /\ lookups' <= lookups /\ parsings' <= parsings
    BY <1>1 DEF Supervise, startup, work, Started, WorkTypes
<1>3. ASSUME Halting, BoxesOK', StatusOK', UNCHANGED refs, QueueOK',
             NoNewReport, NoNewProposal, nodeStatus' \in NodeStatuses
      PROVE  IInv'
    BY <1>1, <1>2, <1>3, HaltingIInv DEF BootUntouched, startup
<1>4. ASSUME Halting, BoxesOK', StatusOK', UNCHANGED refs,
             UNCHANGED nodeBox, nodeStatus' \in NodeStatuses
      PROVE  IInv'
    BY <1>1, <1>3, <1>4, SameQueue
<1>5. ASSUME NEW c \in Component, FailToStart(c) PROVE IInv'
    BY <1>2, <1>5, FailIInv, ActorFacts DEF FailToStart
<1>6. ASSUME NEW w \in Worker, Escalate(w) PROVE IInv'
    BY <1>2, <1>6, FailIInv, ActorFacts DEF Escalate
<1>7. ASSUME NEW c \in Component, StopFailed(c) PROVE IInv'
    <2>1. {c} \in SUBSET Actor
        BY ActorFacts
    <2> QED
        BY <1>1, <1>4, <1>7, <2>1, StopHalts DEF StopFailed
<1>8. ASSUME NEW w \in Worker, WorkerStops(w) PROVE IInv'
    <2>1. w \in Actor
        BY ActorFacts
    <2>2. /\ DOMAIN box' = Actor
          /\ \A b \in Actor : box'[b] = IF b = w THEN EmptyBag ELSE box[b]
          /\ \A b \in Actor : status'[b] = IF b = w THEN "stopped" ELSE status[b]
        BY <1>1, <1>8 DEF WorkerStops, BoxesOK, StatusOK
    <2>3. StatusOK'
        BY <1>1, <1>8 DEF WorkerStops, StatusOK
    <2>4. BoxesOK' /\ Halting
        BY <1>1, <2>2, EmptyMailbox DEF BoxesOK, Halting
    <2> QED
        BY <1>1, <1>4, <1>8, <2>3, <2>4 DEF WorkerStops
<1>9. ASSUME NEW c \in Component, ComponentStops(c) PROVE IInv'
    <2> DEFINE m == [type |-> "Terminated", from |-> c]
    <2>1. m \in NodeMessage /\ m.type = "Terminated"
        BY DEF NodeMessage
    <2>2. QueueOK' /\ NoNewReport /\ NoNewProposal
        BY <1>1, <1>9, <2>1, TellAppends DEF ComponentStops
    <2>3. StatusOK' /\ BoxesOK' /\ Halting
        BY <1>1, <1>9 DEF ComponentStops, StatusOK, BoxesOK, Halting
    <2> QED
        BY <1>1, <1>3, <1>9, <2>2, <2>3 DEF ComponentStops
<1>10. ASSUME NodeStopping PROVE IInv'
    <2>1. QueueOK' /\ NoNewReport /\ NoNewProposal
        BY <1>10, EmptiedQueue DEF NodeStopping
    <2>2. StatusOK' /\ BoxesOK' /\ Halting
        BY <1>1, <1>10, StopHalts, ActorFacts DEF NodeStopping
    <2> QED
        BY <1>3, <1>10, <2>1, <2>2 DEF NodeStopping, NodeStatuses
<1>11. ASSUME NodeStopped PROVE IInv'
    <2>1. StatusOK' /\ BoxesOK' /\ Halting
        BY <1>1, <1>11 DEF NodeStopped, StatusOK, BoxesOK, Halting
    <2> QED
        BY <1>4, <1>11, <2>1 DEF NodeStopped, NodeStatuses
<1> QED
    BY <1>5, <1>6, <1>7, <1>8, <1>9, <1>10, <1>11 DEF Supervise, Supervision

-----------------------------------------------------------------------------
(***************************************************************************)
(* The steps of the boot                                                   *)
(***************************************************************************)
LEMMA BootStepIInv ==
    ASSUME IInv, BoxesOK', UNCHANGED <<status, nodeStatus, boot>>,
           UNCHANGED work, QueueOK', NoNewProposal,
           refs' \in [Actor -> SUBSET RefName],
           \A a \in Actor : refs[a] \subseteq refs'[a],
           unsent' \subseteq unsent,
           workerReports' \in 0 .. Cardinality(Worker),
           complete \subseteq complete', complete' \subseteq Component,
           \A a \in Actor :
                Queued(box'[a]) \subseteq Queued(box[a]) \cup StartupMessage,
           StartupInv'
    PROVE  IInv'
<1>1. /\ StatusOK /\ WorkTypes /\ unsent \subseteq PreStart
      /\ nodeStatus \in NodeStatuses /\ boot \in Boots
      /\ complete \subseteq Component
    BY TypeParts DEF IInv
<1>2. /\ StatusOK' /\ WorkTypes' /\ lookups' <= lookups /\ parsings' <= parsings
      /\ lookups' \in Nat /\ parsings' \in Nat
      /\ Started' <=> Started
    BY <1>1 DEF StatusOK, WorkTypes, work, Started
<1>3. Grows /\ NoNewWork
    BY <1>2 DEF Grows, NoNewWork
<1>4. WorkInv'
    BY <1>1, <1>3, IdleKeepsWork DEF IInv, WorkTypes
<1>5. TypeOK'
    BY <1>1, <1>2, TypePartsNext
<1> QED
    BY <1>4, <1>5 DEF IInv

LEMMA BootFacts ==
    ASSUME IInv
    PROVE  /\ BoxesOK /\ StatusOK /\ QueueOK
           /\ refs \in [Actor -> SUBSET RefName]
           /\ unsent \subseteq PreStart /\ complete \subseteq Component
           /\ workerReports \in 0 .. Cardinality(Worker) /\ workerReports \in Nat
           /\ SupervisorOnce /\ WorkersCounted /\ ReportsAreTrue
           /\ ReportsOnce /\ RefsArrive /\ RefsAreForwarded
<1>1. workerReports \in 0 .. Cardinality(Worker)
    BY TypeParts DEF IInv
<1>2. workerReports \in Nat
    BY <1>1, ActorFacts
<1> QED
    BY <1>1, <1>2, TypeParts DEF IInv, StartupInv

LEMMA ReportsAreFromComponents ==
    ASSUME QueueOK, NEW i \in Reports
    PROVE  nodeBox[i].from \in Component
<1>1. i \in 1 .. Len(nodeBox) /\ nodeBox[i].type = "ReportInitializationComplete"
    BY LenProperties DEF Reports, QueueOK
<1>2. nodeBox[i] \in NodeMessage
    BY <1>1, ElementOfSeq DEF QueueOK
<1> QED
    BY <1>1, <1>2 DEF NodeMessage

\* A component that may now report, and might not before, does.
LEMMA ReportingKeeps ==
    ASSUME QueueOK, ReportsAreTrue, ReportsOnce, complete \subseteq Component,
           UNCHANGED complete,
           \A c \in Component : MayReport(c) => MayReport(c)',
           NEW c \in Component,
           \/ UNCHANGED nodeBox
           \/ Tell(ReportTo(c)) /\ ~MayReport(c) /\ MayReport(c)'
    PROVE  QueueOK' /\ NoNewProposal /\ ReportsAreTrue' /\ ReportsOnce'
<1> DEFINE m == ReportTo(c)
<1>1. /\ m \in NodeMessage /\ m.from = c
      /\ m.type = "ReportInitializationComplete"
    BY DEF ReportTo, NodeMessage
<1>2. \A d \in complete : MayReport(d)'
    BY DEF ReportsAreTrue
<1>3. CASE UNCHANGED nodeBox
    <2>1. Reports' = Reports
        BY <1>3 DEF Reports
    <2>2. \A i \in Reports : \A d : d = nodeBox[i].from => MayReport(d)'
        BY ReportsAreFromComponents DEF ReportsAreTrue
    <2>3. ReportsAreTrue'
        BY <1>2, <1>3, <2>1, <2>2 DEF ReportsAreTrue, MayReport
    <2>4. ReportsOnce'
        BY <1>3, <2>1 DEF ReportsOnce
    <2> QED
        BY <1>3, <2>3, <2>4, SameQueue
<1>4. ASSUME nodeBox' = Append(nodeBox, m), ~MayReport(c), MayReport(c)'
      PROVE  ReportsAreTrue' /\ ReportsOnce'
    <2> HIDE DEF m
    <2> DEFINE n == Len(nodeBox)
    <2>1. /\ n \in Nat /\ DOMAIN nodeBox = 1 .. n
          /\ DOMAIN nodeBox' = 1 .. n + 1
          /\ \A i \in 1 .. n : nodeBox'[i] = nodeBox[i]
          /\ nodeBox'[n + 1] = m
        BY <1>1, <1>4, AppendProperties, LenProperties DEF QueueOK
    <2> HIDE DEF n
    <2>2. \A i \in Reports' :
            \/ i = n + 1 /\ nodeBox'[i].from = c
            \/ i \in Reports /\ nodeBox'[i] = nodeBox[i]
        BY <1>1, <2>1 DEF Reports
    <2>3. \A i \in Reports : MayReport(nodeBox[i].from)
                             /\ nodeBox[i].from \in Component
        BY ReportsAreFromComponents DEF ReportsAreTrue
    <2>4. \A i \in Reports : nodeBox[i].from # c
        BY <1>4, <2>3
    <2>5. \A d \in complete : d # c
        BY <1>4 DEF ReportsAreTrue
    <2>6. ReportsAreTrue'
        <3>1. \A i \in Reports' : \A d : d = nodeBox'[i].from => MayReport(d)'
            BY <1>4, <2>2, <2>3
        <3> QED
            BY <1>2, <3>1 DEF ReportsAreTrue, MayReport
    <2>7. ReportsOnce'
        <3>1. \A i \in Reports' : nodeBox'[i].from \notin complete'
            BY <2>2, <2>5 DEF ReportsOnce
        <3>2. \A i, j \in Reports' : nodeBox'[i].from = nodeBox'[j].from => i = j
            BY <2>2, <2>4 DEF ReportsOnce
        <3> QED
            BY <3>1, <3>2 DEF ReportsOnce
    <2> QED
        BY <2>6, <2>7
<1>5. ASSUME Tell(m), ~MayReport(c), MayReport(c)'
      PROVE  QueueOK' /\ NoNewProposal /\ ReportsAreTrue' /\ ReportsOnce'
    <2>1. QueueOK' /\ NoNewProposal
        BY <1>1, <1>5, TellAppends
    <2>2. CASE UNCHANGED nodeBox
        BY <1>3, <2>2
    <2>3. CASE nodeBox' = Append(nodeBox, m)
        BY <1>4, <1>5, <2>1, <2>3
    <2> QED
        BY <1>5, <2>2, <2>3 DEF Tell
<1> QED
    BY <1>3, <1>5

\* Actor a learns of name; the Crawler forwards what a worker needs.
LEMMA LearningKeeps ==
    ASSUME IInv, NEW a \in Actor, NEW name \in RefName,
           Ref(name) \in Queued(box[a]),
           NEW mail, \A e \in mail : e.msg \in StartupMessage \ {Ref("supervisor")},
           Handle(a, Ref(name), mail), Learn(a, name), UNCHANGED <<status, unsent>>,
           a = "crawler" /\ name # "supervisor" =>
                \A w \in Worker : Envelope(w, Ref(name)) \in mail
    PROVE  /\ BoxesOK'
           /\ refs' \in [Actor -> SUBSET RefName]
           /\ \A b \in Actor :
                refs'[b] = IF b = a THEN refs[a] \cup {name} ELSE refs[b]
           /\ \A b \in Actor :
                Queued(box'[b]) \subseteq Queued(box[b]) \cup StartupMessage
           /\ SupervisorOnce' /\ RefsArrive' /\ RefsAreForwarded'
           /\ name = "supervisor" => "supervisor" \notin refs[a]
<1>1. /\ BoxesOK /\ refs \in [Actor -> SUBSET RefName]
      /\ SupervisorOnce /\ RefsArrive /\ RefsAreForwarded
    BY BootFacts
<1>2. \A e \in mail : e.msg \in Message
    BY MessageFacts
<1>3. /\ BoxesOK'
      /\ \A b \in Actor : \A n :
            Copies(b, n)' = Copies(b, n) - Taken(a, Ref(name), b, n)
                                + Sent(mail, b, n)
    BY <1>1, <1>2, HandleCopies
<1>4. /\ refs' \in [Actor -> SUBSET RefName]
      /\ \A b \in Actor :
            refs'[b] = IF b = a THEN refs[a] \cup {name} ELSE refs[b]
    BY <1>1 DEF Learn
<1>5. \A b \in Actor : Queued(box'[b]) \subseteq Queued(box[b]) \cup StartupMessage
    BY <1>1, <1>2, HandleQueues
<1>6. \A b \in Actor : \A n : /\ Copies(b, n) \in Nat
                              /\ Sent(mail, b, n) \in {0, 1}
                              /\ Taken(a, Ref(name), b, n) \in {0, 1}
    BY <1>1, CopiesFacts DEF Sent, Taken
<1>7. Copies(a, Ref(name)) > 0
    BY <1>1, CopiesFacts
<1>8. \A b \in Actor : \A other \in RefName :
        b # a \/ other # name => Copies(b, Ref(other))' >= Copies(b, Ref(other))
    <2>1. \A b \in Actor : \A other \in RefName :
            b # a \/ other # name => Taken(a, Ref(name), b, Ref(other)) = 0
        BY MessageFacts DEF Taken
    <2> QED
        BY <1>3, <1>6, <2>1
<1>9. name = "supervisor" => "supervisor" \notin refs[a]
    <2>1. /\ Copies(a, Ref("supervisor"))
                + (IF Untold(a, "supervisor") THEN 1 ELSE 0)
                + (IF "supervisor" \in refs[a] THEN 1 ELSE 0) <= 1
          /\ Copies(a, Ref("supervisor")) \in Nat
        BY <1>1, <1>6 DEF SupervisorOnce
    <2> QED
        BY <1>7, <2>1
<1>10. SupervisorOnce'
    <2> SUFFICES ASSUME NEW b \in Actor
                 PROVE  Copies(b, Ref("supervisor"))'
                            + (IF Untold(b, "supervisor") THEN 1 ELSE 0)
                            + (IF "supervisor" \in refs'[b] THEN 1 ELSE 0) <= 1
        BY DEF SupervisorOnce, Untold
    <2>1. Sent(mail, b, Ref("supervisor")) = 0
        BY DEF Sent
    <2>2. Taken(a, Ref(name), b, Ref("supervisor"))
            = IF b = a /\ name = "supervisor" THEN 1 ELSE 0
        BY MessageFacts, RefIsStartup DEF Taken
    <2>3. /\ Copies(b, Ref("supervisor"))
                + (IF Untold(b, "supervisor") THEN 1 ELSE 0)
                + (IF "supervisor" \in refs[b] THEN 1 ELSE 0) <= 1
          /\ Copies(b, Ref("supervisor")) \in Nat
        BY <1>1, <1>6 DEF SupervisorOnce
    <2>4. Copies(b, Ref("supervisor"))' = Copies(b, Ref("supervisor"))
            - (IF b = a /\ name = "supervisor" THEN 1 ELSE 0)
        BY <1>3, <1>6, <2>1, <2>2
    <2>5. ("supervisor" \in refs'[b]) <=>
            ("supervisor" \in refs[b] \/ (b = a /\ name = "supervisor"))
        BY <1>4
    <2> QED
        BY <1>9, <2>3, <2>4, <2>5
<1>11. RefsArrive'
    <2> SUFFICES ASSUME NEW i \in PreStart \ unsent,
                        status[References[i][1]] = "running"
                 PROVE  \/ Copies(References[i][1], Ref(References[i][2]))' > 0
                        \/ References[i][2] \in refs'[References[i][1]]
        BY DEF RefsArrive, PreStart
    <2> DEFINE c == References[i][1]
               other == References[i][2]
    <2>1. c \in Actor /\ other \in RefName
        BY PreStartFacts, ActorFacts
    <2>2. Copies(c, Ref(other)) > 0 \/ other \in refs[c]
        BY <1>1 DEF RefsArrive
    <2> HIDE DEF c, other
    <2>3. CASE c = a /\ other = name
        BY <1>4, <2>1, <2>3 DEF c, other
    <2>4. CASE c # a \/ other # name
        <3>1. Copies(c, Ref(other))' >= Copies(c, Ref(other))
            BY <1>8, <2>1, <2>4
        <3>2. Copies(c, Ref(other)) \in Nat /\ Copies(c, Ref(other))' \in Int
            BY <1>3, <1>6, <2>1
        <3>3. refs[c] \subseteq refs'[c]
            BY <1>4, <2>1
        <3> QED
            BY <2>2, <3>1, <3>2, <3>3 DEF c, other
    <2> QED
        BY <2>3, <2>4
<1>12. RefsAreForwarded'
    <2> SUFFICES ASSUME NEW w \in Worker, NEW other \in refs'["crawler"] \ {"supervisor"},
                        status[w] = "running"
                 PROVE  Copies(w, Ref(other))' > 0 \/ other \in refs'[w]
        BY DEF RefsAreForwarded
    <2>1. w \in Actor /\ "crawler" \in Actor /\ w # "crawler"
        BY ActorFacts
    <2>2. other \in RefName
        BY <1>4, <2>1
    <2>3. Copies(w, Ref(other)) \in Nat /\ Copies(w, Ref(other))' \in Int
        BY <1>3, <1>6, <2>1
    <2>4. CASE w = a /\ other = name
        BY <1>4, <2>1, <2>4
    <2>5. CASE (w # a \/ other # name) /\ other \in refs["crawler"]
        <3>1. Copies(w, Ref(other)) > 0 \/ other \in refs[w]
            BY <1>1, <2>5 DEF RefsAreForwarded
        <3>2. Copies(w, Ref(other))' >= Copies(w, Ref(other))
            BY <1>8, <2>1, <2>2, <2>5
        <3>3. refs[w] \subseteq refs'[w]
            BY <1>4, <2>1
        <3> QED
            BY <2>3, <3>1, <3>2, <3>3
    <2>6. CASE w # a /\ other \notin refs["crawler"]
        <3>1. a = "crawler" /\ other = name
            BY <1>4, <2>1, <2>6
        <3>2. Envelope(w, Ref(other)) \in mail
            BY <3>1
        <3>3. Sent(mail, w, Ref(other)) = 1
            BY <3>2 DEF Sent, Envelope
        <3>4. Taken(a, Ref(name), w, Ref(other)) = 0
            BY <2>6 DEF Taken
        <3>5. Copies(w, Ref(other))' > 0
            BY <1>3, <2>1, <2>3, <3>3, <3>4
        <3> QED
            BY <3>5
    <2>7. CASE w = a /\ other # name /\ other \notin refs["crawler"]
        BY <1>4, <2>1, <2>7
    <2> QED
        BY <2>4, <2>5, <2>6, <2>7
<1> QED
    BY <1>3, <1>4, <1>5, <1>9, <1>10, <1>11, <1>12

LEMMA SendReferenceIInv ==
    ASSUME IInv, SendReference, UNCHANGED work
    PROVE  IInv'
<1> USE BootFacts
<1>1. PICK i \in unsent :
        /\ Send({Envelope(References[i][1], Ref(References[i][2]))})
        /\ unsent' = unsent \ {i}
    BY DEF SendReference
<1> DEFINE c == References[i][1]
           name == References[i][2]
           mail == {Envelope(c, Ref(name))}
<1>2. UNCHANGED <<status, refs, nodeBox, nodeStatus, workerReports, complete, boot>>
    BY DEF SendReference
<1>3. /\ c \in Actor /\ c \in Component /\ name \in RefName
      /\ References[i] = <<c, name>> /\ i \in PreStart
    BY PreStartFacts, ActorFacts
<1>4. Send(mail)
    BY <1>1
<1>5. \A e \in mail : e.to = c /\ e.msg = Ref(name)
    BY DEF Envelope
<1>6. \A b \in Actor : \A n :
        Sent(mail, b, n) = IF status[b] = "running" /\ b = c /\ n = Ref(name)
                           THEN 1 ELSE 0
    BY <1>5 DEF Sent
<1>7. \A e \in mail : e.msg \in Message /\ e.msg \in StartupMessage
    BY <1>3, <1>5, MessageFacts, RefIsStartup
<1> HIDE DEF mail
<1>8. /\ BoxesOK'
      /\ \A b \in Actor : \A n : Copies(b, n)' = Copies(b, n) + Sent(mail, b, n)
    BY <1>4, <1>7, SendCopies
<1>9. \A b \in Actor : Queued(box'[b]) \subseteq Queued(box[b]) \cup StartupMessage
    BY <1>4, <1>7, SendQueues
<1>10. \A b \in Actor : \A n : Copies(b, n) \in Nat /\ Sent(mail, b, n) \in {0, 1}
    BY CopiesFacts DEF Sent
<1>11. \A j \in unsent' : References[j] # <<c, name>>
    BY <1>1, <1>3, PreStartFacts
<1> HIDE DEF c, name
<1>12. SupervisorOnce'
    <2> SUFFICES ASSUME NEW b \in Actor
                 PROVE  Copies(b, Ref("supervisor"))'
                            + (IF Untold(b, "supervisor")' THEN 1 ELSE 0)
                            + (IF "supervisor" \in refs[b] THEN 1 ELSE 0) <= 1
        BY <1>2 DEF SupervisorOnce
    <2>1. /\ Copies(b, Ref("supervisor"))
                + (IF Untold(b, "supervisor") THEN 1 ELSE 0)
                + (IF "supervisor" \in refs[b] THEN 1 ELSE 0) <= 1
          /\ Copies(b, Ref("supervisor")) \in Nat
        BY <1>10 DEF SupervisorOnce
    <2>2. CASE b = c /\ name = "supervisor"
        <3>1. Untold(b, "supervisor")
            BY <1>1, <1>3, <2>2 DEF Untold
        <3>2. ~ Untold(b, "supervisor")'
            BY <1>11, <2>2 DEF Untold
        <3>3. Copies(b, Ref("supervisor"))' <= Copies(b, Ref("supervisor")) + 1
            BY <1>8, <1>10
        <3>4. Copies(b, Ref("supervisor"))' \in Nat
            BY <1>8, <1>10
        <3> QED
            BY <2>1, <3>1, <3>2, <3>3, <3>4
    <2>3. CASE ~(b = c /\ name = "supervisor")
        <3>1. Sent(mail, b, Ref("supervisor")) = 0
            BY <1>3, <1>6, <2>3, MessageFacts, RefIsStartup
        <3>2. Untold(b, "supervisor")' => Untold(b, "supervisor")
            BY <1>1 DEF Untold
        <3>3. Copies(b, Ref("supervisor"))' = Copies(b, Ref("supervisor"))
            BY <1>8, <1>10, <3>1
        <3> QED
            BY <2>1, <3>2, <3>3
    <2> QED
        BY <2>2, <2>3
<1>13. \A b \in Actor : Copies(b, WorkerReport)' = Copies(b, WorkerReport)
    <2>1. \A b \in Actor : Sent(mail, b, WorkerReport) = 0
        BY <1>3, <1>6, MessageFacts
    <2> QED
        BY <1>8, <1>10, <2>1
<1>14. WorkersCounted'
    <2>1. Supervised' = Supervised
        BY <1>2 DEF Supervised
    <2>2. Worker # {} => "crawler" \in Actor
        BY ActorFacts
    <2> QED
        BY <1>2, <1>13, <2>1, <2>2 DEF WorkersCounted
<1>15. ReportsAreTrue' /\ ReportsOnce'
    BY <1>2 DEF ReportsAreTrue, ReportsOnce, Reports, MayReport
<1>16. \A b \in Actor : \A n : Copies(b, n) > 0 => Copies(b, n)' > 0
    BY <1>8, <1>10
<1>17. RefsArrive'
    <2> SUFFICES ASSUME NEW j \in PreStart \ unsent',
                        status[References[j][1]] = "running"
                 PROVE  \/ Copies(References[j][1], Ref(References[j][2]))' > 0
                        \/ References[j][2] \in refs[References[j][1]]
        BY <1>2 DEF RefsArrive, PreStart
    <2>1. CASE j = i
        <3>1. Sent(mail, c, Ref(name)) = 1
            BY <1>3, <1>6, <2>1 DEF c
        <3>2. Copies(c, Ref(name))' > 0
            BY <1>3, <1>8, <1>10, <3>1
        <3> QED
            BY <2>1, <3>2 DEF c, name
    <2>2. CASE j # i
        <3>1. j \in PreStart \ unsent
            BY <1>1, <2>2
        <3>2. References[j][1] \in Actor
            BY <3>1, PreStartFacts, ActorFacts
        <3> QED
            BY <1>16, <3>1, <3>2 DEF RefsArrive
    <2> QED
        BY <2>1, <2>2
<1>18. RefsAreForwarded'
    BY <1>2, <1>16, ActorFacts DEF RefsAreForwarded
<1>19. QueueOK' /\ NoNewProposal
    BY <1>2, SameQueue
<1>20. StartupInv'
    BY <1>12, <1>14, <1>15, <1>17, <1>18 DEF StartupInv
<1> QED
    BY <1>1, <1>2, <1>8, <1>9, <1>19, <1>20, BootStepIInv

\* A worker that learns of its supervisor reports, and no other does.
LEMMA LearningCounts ==
    ASSUME IInv, NEW a \in Actor, NEW name \in RefName,
           Ref(name) \in Queued(box[a]),
           NEW mail, \A e \in mail : e.msg \in Message,
           \A e \in mail : e.msg = WorkerReport => a \in Worker /\ name = "supervisor",
           Handle(a, Ref(name), mail), UNCHANGED workerReports,
           name = "supervisor" => "supervisor" \notin refs[a],
           \A b \in Actor :
                refs'[b] = IF b = a THEN refs[a] \cup {name} ELSE refs[b]
    PROVE  WorkersCounted'
<1>1. BoxesOK /\ WorkersCounted /\ workerReports \in Nat
    BY BootFacts
<1>2. CASE Worker = {}
    BY <1>1, <1>2 DEF WorkersCounted
<1>3. CASE Worker # {}
    <2>1. "crawler" \in Actor /\ Worker \subseteq Actor
        BY <1>3, ActorFacts
    <2>2. Copies("crawler", WorkerReport) \in Nat
        BY <1>1, <2>1, CopiesFacts
    <2>3. Taken(a, Ref(name), "crawler", WorkerReport) = 0
        BY MessageFacts DEF Taken
    <2>4. Copies("crawler", WorkerReport)'
            = Copies("crawler", WorkerReport) + Sent(mail, "crawler", WorkerReport)
        BY <1>1, <2>1, <2>2, <2>3, HandleCopies DEF Sent
    <2>5. IsFiniteSet(Supervised) /\ Cardinality(Supervised) \in Nat
        BY ActorFacts, FS_Subset, FS_CardinalityType DEF Supervised
    <2>6. workerReports + Copies("crawler", WorkerReport) <= Cardinality(Supervised)
        BY <1>1, <1>3 DEF WorkersCounted
    <2>7. CASE a \in Worker /\ name = "supervisor"
        <3>1. Supervised' = Supervised \cup {a} /\ a \notin Supervised
            BY <2>1, <2>7 DEF Supervised
        <3>2. Cardinality(Supervised') = Cardinality(Supervised) + 1
            BY <2>5, <3>1, FS_AddElement
        <3>3. Sent(mail, "crawler", WorkerReport) \in {0, 1}
            BY DEF Sent
        <3> QED
            BY <1>1, <1>3, <2>2, <2>4, <2>5, <2>6, <3>2, <3>3 DEF WorkersCounted
    <2>8. CASE ~(a \in Worker /\ name = "supervisor")
        <3>1. Supervised' = Supervised
            BY <2>1, <2>8 DEF Supervised
        <3>2. Sent(mail, "crawler", WorkerReport) = 0
            BY <2>8 DEF Sent
        <3> QED
            BY <1>1, <1>3, <2>2, <2>4, <2>6, <3>1, <3>2 DEF WorkersCounted
    <2> QED
        BY <2>7, <2>8
<1> QED
    BY <1>2, <1>3

LEMMA LearningIInv ==
    ASSUME IInv, NEW a \in Actor, NEW name \in RefName,
           Ref(name) \in Incoming(a),
           NEW mail, \A e \in mail : e.msg \in StartupMessage \ {Ref("supervisor")},
           \A e \in mail : e.msg = WorkerReport => a \in Worker /\ name = "supervisor",
           Handle(a, Ref(name), mail), Learn(a, name),
           a = "crawler" /\ name # "supervisor" =>
                \A w \in Worker : Envelope(w, Ref(name)) \in mail,
           NEW c \in Component,
           \/ UNCHANGED nodeBox
           \/ /\ c = a /\ name = "supervisor" /\ Tell(ReportTo(c))
              /\ c = "crawler" => workerReports = Cardinality(Worker),
           UNCHANGED <<status, nodeStatus>>, UNCHANGED startup, UNCHANGED work
    PROVE  IInv'
<1> USE BootFacts
<1>1. Ref(name) \in Queued(box[a])
    BY IncomingFacts
<1>2. UNCHANGED <<unsent, workerReports, complete, boot>>
    BY DEF startup
<1>3. /\ BoxesOK'
      /\ refs' \in [Actor -> SUBSET RefName]
      /\ \A b \in Actor :
            refs'[b] = IF b = a THEN refs[a] \cup {name} ELSE refs[b]
      /\ \A b \in Actor : Queued(box'[b]) \subseteq Queued(box[b]) \cup StartupMessage
      /\ SupervisorOnce' /\ RefsArrive' /\ RefsAreForwarded'
      /\ name = "supervisor" => "supervisor" \notin refs[a]
    BY <1>1, <1>2, LearningKeeps
<1>4. WorkersCounted'
    BY <1>1, <1>2, <1>3, LearningCounts, MessageFacts
<1>5. \A d \in Component : MayReport(d) => MayReport(d)'
    BY <1>2, <1>3, ActorFacts DEF MayReport
<1>6. \/ UNCHANGED nodeBox
      \/ Tell(ReportTo(c)) /\ ~MayReport(c) /\ MayReport(c)'
    BY <1>2, <1>3, ActorFacts DEF MayReport
<1>7. QueueOK' /\ NoNewProposal /\ ReportsAreTrue' /\ ReportsOnce'
    BY <1>2, <1>5, <1>6, ReportingKeeps
<1>8. StartupInv'
    BY <1>3, <1>4, <1>7 DEF StartupInv
<1>9. \A b \in Actor : refs[b] \subseteq refs'[b]
    BY <1>3
<1> QED
    BY <1>2, <1>3, <1>7, <1>8, <1>9, BootStepIInv

LEMMA ComponentReceivesRefIInv ==
    ASSUME IInv, NEW c \in Component \ {"crawler"}, ComponentReceivesRef(c),
           UNCHANGED work
    PROVE  IInv'
<1>1. PICK name \in RefName :
        /\ Ref(name) \in Incoming(c)
        /\ Handle(c, Ref(name), {})
        /\ Learn(c, name)
        /\ IF name = "supervisor" THEN Tell(ReportTo(c)) ELSE UNCHANGED nodeBox
    BY DEF ComponentReceivesRef
<1>2. c \in Component /\ c \in Actor /\ c # "crawler"
    BY ActorFacts
<1>3. UNCHANGED <<status, nodeStatus>> /\ UNCHANGED startup
    BY DEF ComponentReceivesRef
<1> QED
    BY <1>1, <1>2, <1>3, LearningIInv

LEMMA CrawlerReceivesRefIInv ==
    ASSUME IInv, "crawler" \in Component, CrawlerReceivesRef, UNCHANGED work
    PROVE  IInv'
<1> USE DEF CrawlerReceivesRef
<1>1. PICK name \in RefName :
        /\ Ref(name) \in Incoming("crawler")
        /\ Handle("crawler", Ref(name),
                  IF name = "supervisor" THEN {}
                  ELSE {Envelope(w, Ref(name)) : w \in Worker})
        /\ Learn("crawler", name)
        /\ IF name = "supervisor" THEN ReportIfViable(workerReports, TRUE)
           ELSE UNCHANGED nodeBox
    OBVIOUS
<1> DEFINE mail == IF name = "supervisor" THEN {}
                   ELSE {Envelope(w, Ref(name)) : w \in Worker}
<1>2. UNCHANGED <<status, nodeStatus>> /\ UNCHANGED startup
    OBVIOUS
<1>3. "crawler" \in Actor
    BY ActorFacts
<1>4. \A e \in mail : e.msg = Ref(name) /\ name # "supervisor"
    BY DEF Envelope
<1>5. name # "supervisor" => \A w \in Worker : Envelope(w, Ref(name)) \in mail
    OBVIOUS
<1>6. Handle("crawler", Ref(name), mail)
    BY <1>1
<1> HIDE DEF mail
<1>7. \A e \in mail : /\ e.msg \in StartupMessage \ {Ref("supervisor")}
                      /\ e.msg # WorkerReport
    BY <1>4, RefIsStartup, MessageFacts
<1>8. \/ UNCHANGED nodeBox
      \/ /\ name = "supervisor" /\ Tell(ReportTo("crawler"))
         /\ workerReports = Cardinality(Worker)
    BY <1>1 DEF ReportIfViable
<1> QED
    BY <1>1, <1>2, <1>3, <1>5, <1>6, <1>7, <1>8, LearningIInv

LEMMA WorkerReceivesRefIInv ==
    ASSUME IInv, NEW w \in Worker, WorkerReceivesRef(w), UNCHANGED work
    PROVE  IInv'
<1>1. PICK name \in RefName :
        /\ Ref(name) \in Incoming(w)
        /\ Handle(w, Ref(name),
                  IF name = "supervisor"
                  THEN {Envelope("crawler",
                            [type |-> "ReportWorkerInitializationComplete"])}
                  ELSE {})
        /\ Learn(w, name)
    BY DEF WorkerReceivesRef
<1> DEFINE mail == IF name = "supervisor"
                   THEN {Envelope("crawler",
                             [type |-> "ReportWorkerInitializationComplete"])}
                   ELSE {}
<1>2. UNCHANGED <<status, nodeBox, nodeStatus>> /\ UNCHANGED startup
    BY DEF WorkerReceivesRef
<1>3. /\ w \in Actor /\ w # "crawler" /\ "crawler" \in Component
    BY ActorFacts
<1>4. \A e \in mail : e.msg = WorkerReport /\ name = "supervisor"
    BY DEF Envelope, WorkerReport
<1>5. Handle(w, Ref(name), mail)
    BY <1>1
<1> HIDE DEF mail
<1>6. \A e \in mail : e.msg \in StartupMessage \ {Ref("supervisor")}
    BY <1>4, RefIsStartup, MessageFacts
<1> QED
    BY <1>1, <1>2, <1>3, <1>4, <1>5, <1>6, LearningIInv

\* The Crawler counts a worker: it has not reported yet.
LEMMA CrawlerCountsWorkerIInv ==
    ASSUME IInv, "crawler" \in Component, CrawlerCountsWorker, UNCHANGED work
    PROVE  IInv'
<1> USE BootFacts
<1>1. /\ WorkerReport \in Incoming("crawler")
      /\ Handle("crawler", WorkerReport, {})
      /\ workerReports' = workerReports + 1
      /\ ReportIfViable(workerReports', "supervisor" \in refs["crawler"])
      /\ UNCHANGED <<status, refs, nodeStatus>>
      /\ UNCHANGED <<unsent, complete, boot>>
    BY DEF CrawlerCountsWorker, WorkerReport
<1>2. "crawler" \in Actor /\ Worker # {}
    BY ActorFacts
<1>3. WorkerReport \in Queued(box["crawler"])
    BY <1>1, <1>2, IncomingFacts
<1>4. /\ BoxesOK'
      /\ \A b \in Actor : \A n :
            Copies(b, n)' = Copies(b, n) - Taken("crawler", WorkerReport, b, n)
                                + Sent({}, b, n)
    BY <1>1, <1>2, <1>3, HandleCopies
<1>5. \A b \in Actor : \A n : Copies(b, n) \in Nat /\ Sent({}, b, n) = 0
    BY CopiesFacts DEF Sent
<1>6. \A b \in Actor : Queued(box'[b]) \subseteq Queued(box[b]) \cup StartupMessage
    <2>1. ASSUME NEW b \in Actor, NEW n \in Queued(box'[b])
          PROVE  n \in Queued(box[b])
        <3>1. Copies(b, n)' > 0
            BY <1>4, CopiesOfQueued DEF BoxesOK, IsMailboxOf, Copies
        <3>2. Taken("crawler", WorkerReport, b, n) \in {0, 1}
            BY DEF Taken
        <3>3. Copies(b, n) > 0
            BY <1>4, <1>5, <3>1, <3>2
        <3> QED
            BY <3>3, CopiesFacts
    <2> QED
        BY <2>1
<1>7. \A b \in Actor : \A name \in RefName :
        Copies(b, Ref(name))' = Copies(b, Ref(name))
    BY <1>4, <1>5, MessageFacts DEF Taken
<1>8. Copies("crawler", WorkerReport)' = Copies("crawler", WorkerReport) - 1
    BY <1>2, <1>4, <1>5 DEF Taken
<1>9. Copies("crawler", WorkerReport) > 0
    BY <1>2, <1>3, CopiesFacts
<1>10. /\ IsFiniteSet(Supervised) /\ Cardinality(Supervised) \in Nat
       /\ Cardinality(Supervised) <= Cardinality(Worker)
       /\ Cardinality(Worker) \in Nat
    BY ActorFacts, FS_Subset, FS_CardinalityType DEF Supervised
<1>11. workerReports + Copies("crawler", WorkerReport) <= Cardinality(Supervised)
    BY <1>2 DEF WorkersCounted
<1>12. /\ workerReports < Cardinality(Worker)
       /\ workerReports' \in 0 .. Cardinality(Worker)
    BY <1>1, <1>2, <1>5, <1>9, <1>10, <1>11
<1>13. ~ MayReport("crawler")
    BY <1>12 DEF MayReport
<1>14. \A c \in Component : MayReport(c) => MayReport(c)'
    BY <1>1, <1>13 DEF MayReport
<1>15. \/ UNCHANGED nodeBox
       \/ Tell(ReportTo("crawler")) /\ ~MayReport("crawler") /\ MayReport("crawler")'
    BY <1>1, <1>13 DEF ReportIfViable, MayReport
<1>16. QueueOK' /\ NoNewProposal /\ ReportsAreTrue' /\ ReportsOnce'
    BY <1>1, <1>14, <1>15, ReportingKeeps
<1>17. WorkersCounted'
    <2>1. Supervised' = Supervised
        BY <1>1 DEF Supervised
    <2> QED
        BY <1>1, <1>2, <1>5, <1>8, <1>10, <1>11, <2>1 DEF WorkersCounted
<1>18. SupervisorOnce'
    BY <1>1, <1>7, RefIsStartup DEF SupervisorOnce, Untold
<1>19. RefsArrive'
    BY <1>1, <1>7, PreStartFacts, ActorFacts DEF RefsArrive, PreStart
<1>20. RefsAreForwarded'
    BY <1>1, <1>2, <1>7, ActorFacts DEF RefsAreForwarded
<1>21. StartupInv'
    BY <1>16, <1>17, <1>18, <1>19, <1>20 DEF StartupInv
<1> QED
    BY <1>1, <1>4, <1>6, <1>12, <1>16, <1>21, BootStepIInv

\* The Node counts whoever has reported.
LEMMA NodeCountsReportIInv ==
    ASSUME IInv, NodeCountsReport, UNCHANGED work
    PROVE  IInv'
<1> USE BootFacts
<1> DEFINE c == Head(nodeBox).from
<1>1. /\ nodeBox # <<>> /\ 1 \in DOMAIN nodeBox
      /\ nodeBox[1] = Head(nodeBox)
      /\ nodeBox[1].type = "ReportInitializationComplete"
    BY NodeReceivesFacts DEF NodeCountsReport
<1>2. /\ complete' = complete \cup {c}
      /\ nodeBox' = Tail(nodeBox)
      /\ UNCHANGED <<box, status, refs, nodeStatus, unsent, workerReports, boot>>
    BY DEF NodeCountsReport
<1>3. 1 \in Reports /\ nodeBox[1].from = c
    BY <1>1 DEF Reports
<1>4. c \in Component /\ MayReport(c)
    BY <1>3, ReportsAreFromComponents DEF ReportsAreTrue
<1> HIDE DEF c
<1>5. QueueOK' /\ NoNewProposal
    BY <1>1, <1>2, HeadHandled
<1>6. /\ Len(nodeBox) \in Nat /\ DOMAIN nodeBox' = 1 .. Len(nodeBox) - 1
      /\ \A i \in 1 .. Len(nodeBox) - 1 : nodeBox'[i] = nodeBox[i + 1]
      /\ DOMAIN nodeBox = 1 .. Len(nodeBox)
    BY <1>1, <1>2, HeadTailProperties, LenProperties DEF QueueOK
<1>7. \A i \in Reports' : /\ i \in Nat \ {0} /\ i + 1 \in Reports
                          /\ nodeBox'[i] = nodeBox[i + 1]
    BY <1>6 DEF Reports
<1>8. \A d : MayReport(d)' <=> MayReport(d)
    BY <1>2 DEF MayReport
<1>9. ReportsAreTrue'
    <2>1. \A i \in Reports' : \A d : d = nodeBox'[i].from => MayReport(d)'
        BY <1>7, <1>8 DEF ReportsAreTrue
    <2>2. \A d \in complete' : MayReport(d)'
        BY <1>2, <1>4, <1>8 DEF ReportsAreTrue
    <2> QED
        BY <2>1, <2>2 DEF ReportsAreTrue, MayReport
<1>10. ReportsOnce'
    <2>1. ASSUME NEW i \in Reports'
          PROVE  nodeBox'[i].from \notin complete'
        <3>1. i + 1 # 1 /\ i + 1 \in Reports
            BY <1>7
        <3>2. nodeBox[i + 1].from # c
            BY <1>3, <3>1 DEF ReportsOnce
        <3> QED
            BY <1>2, <1>7, <3>1, <3>2 DEF ReportsOnce
    <2>2. ASSUME NEW i \in Reports', NEW j \in Reports',
                 nodeBox'[i].from = nodeBox'[j].from
          PROVE  i = j
        <3>1. i + 1 = j + 1
            BY <1>7, <2>2 DEF ReportsOnce
        <3> QED
            BY <1>7, <3>1
    <2> QED
        BY <2>1, <2>2 DEF ReportsOnce
<1>11. /\ BoxesOK' /\ SupervisorOnce' /\ WorkersCounted'
       /\ RefsArrive' /\ RefsAreForwarded'
    <2>1. BoxesOK'
        BY <1>2 DEF BoxesOK
    <2>2. SupervisorOnce'
        BY <1>2 DEF SupervisorOnce, Copies, Untold
    <2>3. WorkersCounted'
        BY <1>2 DEF WorkersCounted, Copies, Supervised
    <2>4. RefsArrive'
        BY <1>2 DEF RefsArrive, PreStart, Copies
    <2>5. RefsAreForwarded'
        BY <1>2 DEF RefsAreForwarded, Copies
    <2> QED
        BY <2>1, <2>2, <2>3, <2>4, <2>5
<1>12. StartupInv'
    BY <1>9, <1>10, <1>11 DEF StartupInv
<1>13. \A b \in Actor : Queued(box'[b]) \subseteq Queued(box[b]) \cup StartupMessage
    BY <1>2
<1> QED
    BY <1>2, <1>4, <1>5, <1>11, <1>12, <1>13, BootStepIInv

-----------------------------------------------------------------------------
(***************************************************************************)
(* The invariant holds always.                                             *)
(***************************************************************************)
LEMMA InitIInv == Init => IInv
<1> SUFFICES ASSUME Init PROVE IInv
    OBVIOUS
<1>1. /\ box = [a \in Actor |->
                    IF a \in Worker THEN Post(EmptyBag, Ref("supervisor"))
                    ELSE EmptyBag]
      /\ status = [a \in Actor |-> "running"]
      /\ refs = [a \in Actor |-> {}]
      /\ nodeBox = <<>> /\ nodeStatus = "running"
      /\ unsent = PreStart /\ workerReports = 0 /\ complete = {}
      /\ boot = "asking"
      /\ proposals = MaxProposals /\ lookups = 0 /\ parsings = 0
    BY DEF Init, ActorsInit, StartupInit
<1>2. /\ IsMailboxOf(Post(EmptyBag, Ref("supervisor")), Message)
      /\ Queued(Post(EmptyBag, Ref("supervisor"))) = {Ref("supervisor")}
    <2>1. Ref("supervisor") \in Message
        BY MessageFacts, RefIsStartup
    <2>2. IsMailboxOf(EmptyBag, Message) /\ Queued(EmptyBag) = {}
        BY EmptyMailbox
    <2> QED
        BY <2>1, <2>2, PostKeepsMailbox
<1>3. \A m : CopiesOf(m, Post(EmptyBag, Ref("supervisor")))
                = IF m = Ref("supervisor") THEN 1 ELSE 0
    <2>1. \A m : CopiesOf(m, PostAll(EmptyBag, {Ref("supervisor")}))
                    = CopiesOf(m, EmptyBag)
                        + (IF m \in {Ref("supervisor")} THEN 1 ELSE 0)
        BY EmptyHasNoCopies, PostAllAddsCopies
    <2> QED
        BY <2>1, EmptyHasNoCopies DEF Post, PostAll
<1>4. \A a \in Actor : \A m :
        Copies(a, m) = IF a \in Worker /\ m = Ref("supervisor") THEN 1 ELSE 0
    BY <1>1, <1>3, EmptyHasNoCopies DEF Copies
<1>5. BoxesOK
    BY <1>1, <1>2, EmptyMailbox DEF BoxesOK
<1>6. \A a \in Actor : Queued(box[a]) \subseteq {Ref("supervisor")}
    BY <1>1, <1>2, EmptyMailbox
<1>7. TypeOK
    <2>1. QueueOK
        BY <1>1, EmptySeq DEF QueueOK
    <2>2. workerReports \in 0 .. Cardinality(Worker)
        BY <1>1, ActorFacts
    <2>3. proposals \in Nat
        BY <1>1, WorkAssumption DEF WorkAssumption
    <2> QED
        BY <1>1, <1>5, <2>1, <2>2, <2>3, TypeParts
           DEF StatusOK, NodeStatuses, Boots, WorkTypes
<1>8. SupervisorOnce
    <2>1. \A a \in Worker : ~ Untold(a, "supervisor")
        <3>1. \A i \in unsent : References[i][1] \notin Worker
            BY <1>1, PreStartFacts, ActorFacts
        <3>2. \A i \in unsent : \A a : References[i] = <<a, "supervisor">>
                                            => References[i][1] = a
            OBVIOUS
        <3> QED
            BY <3>1, <3>2 DEF Untold
    <2>2. \A a \in Actor :
            /\ Copies(a, Ref("supervisor")) = IF a \in Worker THEN 1 ELSE 0
            /\ "supervisor" \notin refs[a]
        BY <1>1, <1>4
    <2>3. ASSUME NEW a \in Actor
          PROVE  Copies(a, Ref("supervisor"))
                    + (IF Untold(a, "supervisor") THEN 1 ELSE 0)
                    + (IF "supervisor" \in refs[a] THEN 1 ELSE 0) <= 1
        <3>1. CASE a \in Worker
            <4>1. ~ Untold(a, "supervisor")
                BY <2>1, <3>1
            <4> QED
                BY <2>2, <4>1
        <3>2. CASE a \notin Worker
            <4>1. Copies(a, Ref("supervisor")) = 0
                BY <2>2, <3>2
            <4> QED
                BY <2>2, <4>1
        <3> QED
            BY <3>1, <3>2
    <2> QED
        BY <2>3 DEF SupervisorOnce
<1>9. WorkersCounted
    <2>1. Supervised = {}
        BY <1>1, ActorFacts DEF Supervised
    <2>2. Worker # {} => Copies("crawler", WorkerReport) = 0
        BY <1>4, ActorFacts
    <2> QED
        BY <1>1, <2>1, <2>2, FS_EmptySet DEF WorkersCounted
<1>10. Reports = {}
    BY <1>1 DEF Reports
<1>11. ReportsAreTrue /\ ReportsOnce
    BY <1>1, <1>10 DEF ReportsAreTrue, ReportsOnce
<1>12. RefsArrive
    BY <1>1 DEF RefsArrive
<1>13. RefsAreForwarded
    <2>1. \A w \in Worker : refs["crawler"] = {}
        BY <1>1, ActorFacts
    <2> QED
        BY <2>1 DEF RefsAreForwarded
<1>14. WorkInv
    <2>1. ~ Started
        BY <1>1 DEF Started
    <2>2. WorkFollowsBoot
        <3>1. Ref("supervisor") \in StartupMessage
            BY RefIsStartup
        <3>2. \A a \in Actor : Queued(box[a]) \subseteq StartupMessage
            BY <1>6, <3>1
        <3>3. DOMAIN nodeBox = {}
            BY <1>1
        <3> QED
            BY <1>1, <3>2, <3>3 DEF WorkFollowsBoot
    <2>3. DownloadsAreRouted
        BY <1>6, WorkIsNotStartup, RefIsStartup, ActorFacts DEF DownloadsAreRouted
    <2> QED
        BY <1>1, <2>1, <2>2, <2>3
           DEF WorkInv, BootIsComplete, ParserIsReady, ParsingNeedsParser
<1> QED
    BY <1>7, <1>8, <1>9, <1>11, <1>12, <1>13, <1>14 DEF IInv, StartupInv

LEMMA ReceiveIInv ==
    ASSUME IInv, NEW a \in Actor, Receive(a)
    PROVE  IInv'
<1>1. CASE StartupReceive(a) /\ UNCHANGED work
    <2>1. CASE a \in Component \ {"crawler"} /\ ComponentReceivesRef(a)
        BY <1>1, <2>1, ComponentReceivesRefIInv
    <2>2. CASE a = "crawler" /\ CrawlerReceivesRef
        BY <1>1, <2>2, CrawlerReceivesRefIInv, ActorFacts
    <2>3. CASE a = "crawler" /\ CrawlerCountsWorker
        BY <1>1, <2>3, CrawlerCountsWorkerIInv, ActorFacts
    <2>4. CASE a \in Worker /\ WorkerReceivesRef(a)
        BY <1>1, <2>4, WorkerReceivesRefIInv
    <2> QED
        BY <1>1, <2>1, <2>2, <2>3, <2>4 DEF StartupReceive
<1>2. CASE a = "catalog" /\ CatalogReceivesProposal
    BY <1>2, CatalogReceivesProposalIInv
<1>3. CASE a = "updater" /\ UpdaterReceivesFeed
    BY <1>3, UpdaterReceivesFeedIInv
<1>4. CASE a = "crawler" /\ CrawlerRoutes
    BY <1>4, CrawlerRoutesIInv
<1>5. CASE a = "parser" /\ ParserReceivesFeed
    BY <1>5, ParserReceivesFeedIInv
<1>6. CASE a = "parser" /\ ParserReceivesWebsite
    BY <1>6, ParserReceivesWebsiteIInv
<1>7. CASE a \in Worker /\ WorkerChecksHead(a)
    BY <1>7, WorkerChecksHeadIInv
<1>8. CASE a \in Worker /\ WorkerFetches(a)
    BY <1>8, WorkerFetchesIInv
<1> QED
    BY <1>1, <1>2, <1>3, <1>4, <1>5, <1>6, <1>7, <1>8 DEF Receive

LEMMA UnchangedIInv ==
    ASSUME IInv, UNCHANGED vars
    PROVE  IInv'
<1>1. /\ BoxesOK /\ StatusOK /\ QueueOK /\ WorkTypes
      /\ nodeStatus \in NodeStatuses /\ boot \in Boots
    BY TypeParts DEF IInv
<1>2. /\ UNCHANGED <<box, status, nodeBox, nodeStatus, boot>> /\ BootUntouched
      /\ UNCHANGED <<proposals, lookups, parsings>>
    BY DEF vars, BootUntouched
<1>3. /\ BoxesOK' /\ StatusOK' /\ Halting
      /\ QueueOK' /\ NoNewReport /\ NoNewProposal
    BY <1>1, <1>2, SameQueue DEF BoxesOK, StatusOK, Halting
<1>4. /\ nodeStatus' \in NodeStatuses /\ boot' \in Boots /\ WorkTypes'
      /\ lookups' <= lookups /\ parsings' <= parsings
      /\ Started' <=> Started
    BY <1>1, <1>2 DEF WorkTypes, Started
<1> QED
    BY <1>1, <1>2, <1>3, <1>4, HaltingIInv

LEMMA NextIInv ==
    ASSUME IInv, [Next]_vars
    PROVE  IInv'
<1>1. ASSUME NEW a \in Actor, Receive(a) PROVE IInv'
    BY <1>1, ReceiveIInv
<1>2. CASE NodeReceive
    BY <1>2, NodeCountsReportIInv, NodeAnswersIInv, NodeTerminatesIInv,
       NodeForwardsIInv DEF NodeReceive, NodeStartupReceive
<1>3. CASE DatabaseAnswers
    BY <1>3, DatabaseAnswersIInv
<1>4. CASE FeedIsParsed
    BY <1>4, FeedIsParsedIInv
<1>5. CASE BootStep
    BY <1>5, SendReferenceIInv, EngineThreadIInv DEF BootStep
<1>6. CASE GiveUp
    BY <1>6, EngineThreadIInv DEF GiveUp
<1>7. CASE Supervise
    BY <1>7, SuperviseIInv
<1>8. CASE EngineCall
    BY <1>8, ProposeIInv, EngineThreadIInv DEF EngineCall
<1>9. CASE UNCHANGED vars
    BY <1>9, UnchangedIInv
<1> QED
    BY <1>1, <1>2, <1>3, <1>4, <1>5, <1>6, <1>7, <1>8, <1>9 DEF Next

LEMMA AlwaysIInv == Spec => []IInv
<1>1. Init => IInv
    BY InitIInv
<1>2. IInv /\ [Next]_vars => IInv'
    BY NextIInv
<1> QED
    BY <1>1, <1>2, PTL DEF Spec

-----------------------------------------------------------------------------
(***************************************************************************)
(* What every engine keeps                                                 *)
(***************************************************************************)
\* The mailboxes, the lives of the actors, the queue of the Node and the
\* counters of the boot stay what they are declared to be; the Crawler counts
\* no more workers than it has (Crawler.workerReportedStartupFinished).
THEOREM EngineTypes == Spec => []TypeOK
<1>1. IInv => TypeOK
    BY DEF IInv
<1> QED
    BY <1>1, AlwaysIInv, PTL

\* HeminEngine.bootSequence ends with a running engine only when every
\* component and every worker has learned of its supervisor: all components
\* have reported, and the Crawler has not before it counted all its workers.
THEOREM UpMeansAllReported == Spec => []AllHaveReported
<1>1. IInv => AllHaveReported
    <2> SUFFICES ASSUME IInv, boot = "up", NEW a \in Actor
                 PROVE  "supervisor" \in refs[a]
        BY DEF AllHaveReported
    <2>1. \A c \in Component : MayReport(c)
        BY BootFacts DEF IInv, WorkInv, BootIsComplete, Started, ReportsAreTrue
    <2>2. CASE a \in Component
        BY <2>1, <2>2 DEF MayReport
    <2>3. CASE a \in Worker
        <3>1. "crawler" \in Component /\ Worker # {} /\ "crawler" \in Actor
            BY <2>3, ActorFacts
        <3>2. workerReports = Cardinality(Worker)
            BY <2>1, <3>1 DEF MayReport
        <3>3. /\ IsFiniteSet(Supervised) /\ Supervised \subseteq Worker
              /\ Cardinality(Supervised) \in Nat
            BY ActorFacts, FS_Subset, FS_CardinalityType DEF Supervised
        <3>4. Copies("crawler", WorkerReport) \in Nat
            BY <3>1, BootFacts, CopiesFacts
        <3>5. Cardinality(Worker) <= Cardinality(Supervised)
            BY <3>1, <3>2, <3>3, <3>4, BootFacts, ActorFacts DEF WorkersCounted
        <3>6. Supervised = Worker
            BY <3>3, <3>5, FS_Subset, ActorFacts
        <3> QED
            BY <2>3, <3>6 DEF Supervised
    <2> QED
        BY <2>2, <2>3 DEF Actor
<1> QED
    BY <1>1, AlwaysIInv, PTL

\* InitializationProgress never hears of the same component twice: a
\* component learns of its supervisor once, and the Crawler, which reports
\* when the later of two things happens, does so in one of the two handlers.
THEOREM NobodyReportsTwice == Spec => []ReportsOnce
<1>1. IInv => ReportsOnce
    BY BootFacts
<1> QED
    BY <1>1, AlwaysIInv, PTL

\* Parser.parseFeedData, on the thread of a Future, finds the Crawler and the
\* CatalogStore: ParserMailbox hands both over before the feed.
THEOREM FuturesFindTheirActors == Spec => []ParserIsReady
<1>1. IInv => ParserIsReady
    BY DEF IInv, WorkInv
<1> QED
    BY <1>1, AlwaysIInv, PTL

\* A worker that comes to a download holds the Parser and the CatalogStore:
\* CrawlerMailbox had the Crawler handle and forward both before it routed
\* the download, and has the worker handle them before it starts on it.
THEOREM WorkersFindTheirActors == Spec => []WorkersAreReady
<1>1. \A m \in Message :
        m.type \in {"DownloadWithHeadCheck", "DownloadContent"} => m \in Download
    BY DEF Message, Download, RefName, Components
<1>2. IInv => WorkersAreReady
    <2> SUFFICES ASSUME IInv, NEW w \in Worker, NEW m \in Incoming(w),
                        m.type \in {"DownloadWithHeadCheck", "DownloadContent"}
                 PROVE  Holds(w, "parser") /\ Holds(w, "catalog")
        BY DEF WorkersAreReady
    <2>1. w \in Actor
        BY ActorFacts
    <2>2. m \in Message
        BY <2>1, BootFacts, CopiesFacts, IncomingFacts
    <2> QED
        BY <1>1, <2>2, WorkerWasTold
<1> QED
    BY <1>2, AlwaysIInv, PTL

-----------------------------------------------------------------------------
(***************************************************************************)
(* Where a worker fails.                                                   *)
(***************************************************************************)
NoWorkerFails == \A w \in Worker : status'[w] = "failed" => status[w] = "failed"

\* Only an exception in a worker's own handler is the failure of a worker.
LEMMA OthersFail ==
    ASSUME StatusOK, NEW a \in Actor \ Worker, Fail(a)
    PROVE  NoWorkerFails
BY ActorFacts DEF NoWorkerFails, Fail, StatusOK

LEMMA StopIsNoFailure ==
    ASSUME StatusOK, NEW S, Stop(S)
    PROVE  NoWorkerFails
<1>1. \A w \in Worker : status'[w] \in {status[w], "stopping"}
    BY ActorFacts DEF Stop
<1> QED
    BY <1>1 DEF NoWorkerFails

LEMMA SupervisionIsNoFailure ==
    ASSUME StatusOK, Supervision
    PROVE  NoWorkerFails
<1>1. ASSUME NEW c \in Component, FailToStart(c) PROVE NoWorkerFails
    BY <1>1, OthersFail, ActorFacts DEF FailToStart, RefName
<1>2. ASSUME NEW w \in Worker, Escalate(w) PROVE NoWorkerFails
    BY <1>2, OthersFail, ActorFacts DEF Escalate
<1>3. ASSUME NEW c \in Component, StopFailed(c) PROVE NoWorkerFails
    BY <1>3, StopIsNoFailure DEF StopFailed
<1>4. ASSUME NEW w \in Worker, WorkerStops(w) PROVE NoWorkerFails
    BY <1>4, ActorFacts DEF WorkerStops, NoWorkerFails, StatusOK
<1>5. ASSUME NEW c \in Component, ComponentStops(c) PROVE NoWorkerFails
    BY <1>5, ActorFacts DEF ComponentStops, NoWorkerFails, StatusOK
<1>6. CASE NodeStopping \/ NodeStopped
    BY <1>6, StopIsNoFailure DEF NodeStopping, NodeStopped, NoWorkerFails
<1> QED
    BY <1>1, <1>2, <1>3, <1>4, <1>5, <1>6 DEF Supervision

\* A handler of a worker throws on a website that has moved, or on a charset
\* that the JVM does not know, and on nothing else.
LEMMA HandlersDoNotFail ==
    ASSUME IInv, ~FetchWebsites, ~UnknownCharset, NEW w \in Worker,
           WorkerChecksHead(w) \/ WorkerFetches(w)
    PROVE  UNCHANGED status
<1>1. CASE WorkerChecksHead(w)
    <2>1. PICK job \in Job :
            /\ DownloadWithHeadCheck(job) \in Incoming(w)
            /\ \/ HeadCheckEnds(w, job)
               \/ HeadCheckWithoutLocation(w, job)
               \/ /\ job # "website"
                  /\ \E redirected \in BOOLEAN :
                        HeadCheckSucceeds(w, job, redirected)
        BY <1>1 DEF WorkerChecksHead
    <2>2. Holds(w, "catalog")
        BY <2>1, WorkerWasTold, WorkIsNotStartup
    <2> QED
        BY <2>1, <2>2 DEF HeadCheckEnds, HeadCheckWithoutLocation,
                          HeadCheckSucceeds, CatalogIsTold
<1>2. CASE WorkerFetches(w)
    <2>1. PICK job \in Job :
            /\ DownloadContent(job) \in Incoming(w)
            /\ UNCHANGED status \/ FetchSucceeds(w, job)
        BY <1>2 DEF WorkerFetches
    <2>2. Holds(w, "parser") /\ Holds(w, "catalog")
        BY <2>1, WorkerWasTold, WorkIsNotStartup
    <2> QED
        BY <2>1, <2>2 DEF FetchSucceeds, CatalogIsTold
<1> QED
    BY <1>1, <1>2

LEMMA ReceivingIsNoFailure ==
    ASSUME IInv, ~FetchWebsites, ~UnknownCharset, NEW a \in Actor, Receive(a)
    PROVE  NoWorkerFails
<1>1. StatusOK
    BY BootFacts
<1>2. CASE UNCHANGED status
    BY <1>2 DEF NoWorkerFails
<1>3. CASE a = "updater" /\ UpdaterReceivesFeed
    BY <1>1, <1>2, <1>3, OthersFail, ActorFacts
       DEF UpdaterReceivesFeed, RefName, Components
<1>4. CASE a = "parser" /\ ParserReceivesWebsite
    BY <1>1, <1>2, <1>4, OthersFail, ActorFacts
       DEF ParserReceivesWebsite, RefName, Components
<1>5. CASE a \in Worker /\ (WorkerChecksHead(a) \/ WorkerFetches(a))
    BY <1>2, <1>5, HandlersDoNotFail
<1>6. CASE StartupReceive(a)
    BY <1>2, <1>6 DEF StartupReceive, ComponentReceivesRef, CrawlerReceivesRef,
                      CrawlerCountsWorker, WorkerReceivesRef
<1>7. CASE a = "catalog" /\ CatalogReceivesProposal
    BY <1>2, <1>7 DEF CatalogReceivesProposal
<1>8. CASE a = "crawler" /\ CrawlerRoutes
    BY <1>2, <1>8 DEF CrawlerRoutes
<1>9. CASE a = "parser" /\ ParserReceivesFeed
    BY <1>2, <1>9 DEF ParserReceivesFeed
<1> QED
    BY <1>3, <1>4, <1>5, <1>6, <1>7, <1>8, <1>9 DEF Receive

LEMMA StepsAreNoFailure ==
    ASSUME IInv, ~FetchWebsites, ~UnknownCharset, [Next]_vars
    PROVE  NoWorkerFails
<1>1. StatusOK
    BY BootFacts
<1>2. CASE UNCHANGED status
    BY <1>2 DEF NoWorkerFails
<1>3. ASSUME NEW a \in Actor, Receive(a) PROVE NoWorkerFails
    BY <1>3, ReceivingIsNoFailure
<1>4. CASE NodeReceive
    <2>1. CASE OnSystemShutdown
        BY <1>1, <2>1, StopIsNoFailure DEF OnSystemShutdown
    <2>2. CASE ~ OnSystemShutdown
        BY <1>2, <1>4, <2>2
           DEF NodeReceive, NodeStartupReceive, NodeCountsReport, NodeAnswers,
               NodeTerminates, OnTerminated, NodeForwards
    <2> QED
        BY <2>1, <2>2
<1>5. CASE DatabaseAnswers \/ FeedIsParsed
    BY <1>2, <1>5 DEF DatabaseAnswers, ProposalEnds, FeedIsSaved, FeedIsParsed, actors
<1>6. CASE BootStep \/ GiveUp \/ EngineCall
    BY <1>2, <1>6 DEF BootStep, SendReference, Ask, GiveUp, AskTimesOut, actors,
                      EngineCall, Propose, Shutdown
<1>7. CASE Supervise
    BY <1>1, <1>7, SupervisionIsNoFailure DEF Supervise
<1>8. CASE UNCHANGED vars
    BY <1>2, <1>8 DEF vars
<1> QED
    BY <1>3, <1>4, <1>5, <1>6, <1>7, <1>8 DEF Next

\* With fetchWebsites off and only charsets that the JVM knows, no download
\* can bring a worker down, and the Crawler and the engine with it: what
\* CrawlerWorker.headCheck and fetchContent need is there, however the boot
\* and the failures of other actors interleave with the work.
THEOREM DownloadsAreHarmless ==
    ASSUME ~FetchWebsites, ~UnknownCharset
    PROVE  Spec => []WorkersSurvive
<1>1. Init => WorkersSurvive
    BY ActorFacts DEF Init, ActorsInit, WorkersSurvive
<1>2. IInv /\ WorkersSurvive /\ [Next]_vars => WorkersSurvive'
    BY StepsAreNoFailure DEF NoWorkerFails, WorkersSurvive
<1> QED
    BY <1>1, <1>2, AlwaysIInv, PTL DEF Spec
=============================================================================
