--------------------------- MODULE EngineStartup ----------------------------
(***************************************************************************)
(* The boot sequence.  Node.preStart tells every component of the others,  *)
(* one message at a time; a component that learns of its supervisor        *)
(* reports; the Node counts the reports (InitializationProgress); and the  *)
(* thread that constructs the HeminEngine asks the Node until all have     *)
(* reported (warmup).                                                      *)
(***************************************************************************)
EXTENDS EngineActors

VARIABLES
    unsent,         \* what Node.preStart has still to send, of References
    workerReports,  \* Crawler.workerReportedStartupFinished
    complete,       \* the components whose status is true in statusMap
    boot            \* the life of the HeminEngine; "up" is running = true

startup == <<unsent, workerReports, complete, boot>>

-----------------------------------------------------------------------------
\* The references in the order of Node.preStart.
References ==
    << <<"index", "supervisor">>,
       <<"cli", "supervisor">>,
       <<"crawler", "catalog">>, <<"crawler", "parser">>,
       <<"crawler", "supervisor">>,
       <<"parser", "catalog">>, <<"parser", "index">>,
       <<"parser", "crawler">>, <<"parser", "supervisor">>,
       <<"catalog", "catalog">>, <<"catalog", "index">>,
       <<"catalog", "graph">>, <<"catalog", "crawler">>,
       <<"catalog", "updater">>, <<"catalog", "supervisor">>,
       <<"searcher", "supervisor">>,
       <<"updater", "catalog">>, <<"updater", "crawler">>,
       <<"updater", "supervisor">>,
       <<"graph", "supervisor">> >>

\* Mutant: the Parser is not told of the Crawler.
PreStartOfOthers ==
    {i \in DOMAIN References :
        /\ References[i][1] \in Component
        /\ References[i][2] \in Component \cup {"supervisor"}
        /\ References[i] # <<"parser", "crawler">>}

\* The places in References of those that take part.
PreStart ==
    {i \in DOMAIN References :
        /\ References[i][1] \in Component
        /\ References[i][2] \in Component \cup {"supervisor"}}

StartupOK ==
    /\ unsent \subseteq PreStart
    /\ workerReports \in 0 .. Cardinality(Worker)
    /\ complete \subseteq Component
    /\ boot \in {"asking", "waiting", "up", "failed", "down"}

StartupInit ==
    /\ unsent = PreStart
    /\ workerReports = 0
    /\ complete = {}
    /\ boot = "asking"

-----------------------------------------------------------------------------
(***************************************************************************)
(* References arrive.                                                      *)
(***************************************************************************)
SendReference ==
    /\ \E i \in unsent :
        /\ \A j \in unsent : i <= j
        /\ Send({Envelope(References[i][1], Ref(References[i][2]))})
        /\ unsent' = unsent \ {i}
    /\ UNCHANGED <<status, refs, nodeBox, nodeStatus>>
    /\ UNCHANGED <<workerReports, complete, boot>>

Learn(a, name) == refs' = [refs EXCEPT ![a] = @ \cup {name}]

ReportTo(c) == [type |-> "ReportInitializationComplete", from |-> c]

\* Every component but the Crawler reports when it learns of its supervisor.
ComponentReceivesRef(c) ==
    /\ \E name \in RefName :
        /\ Ref(name) \in Incoming(c)
        /\ Handle(c, Ref(name), {})
        /\ Learn(c, name)
        /\ IF name = "supervisor" THEN Tell(ReportTo(c)) ELSE UNCHANGED nodeBox
    /\ UNCHANGED <<status, nodeStatus>>
    /\ UNCHANGED startup

\* Mutant: one worker too few.
ReportIfViableEarly(reports, knowsSupervisor) ==
    IF reports = Cardinality(Worker) - 1 /\ knowsSupervisor
    THEN Tell(ReportTo("crawler"))
    ELSE UNCHANGED nodeBox

\* Mutant: the workers are not counted.
ReportIfSupervised(reports, knowsSupervisor) ==
    IF knowsSupervisor THEN Tell(ReportTo("crawler")) ELSE UNCHANGED nodeBox

\* Crawler.reportStartupCompleteIfViable, with the values after the step.
ReportIfViable(reports, knowsSupervisor) ==
    IF reports = Cardinality(Worker) /\ knowsSupervisor
    THEN Tell(ReportTo("crawler"))
    ELSE UNCHANGED nodeBox

\* Mutant: the workers are not told of the Parser.
CrawlerReceivesRefAlone ==
    /\ \E name \in RefName :
        /\ Ref(name) \in Incoming("crawler")
        /\ Handle("crawler", Ref(name),
                  IF name \in {"supervisor", "parser"} THEN {}
                  ELSE {Envelope(w, Ref(name)) : w \in Worker})
        /\ Learn("crawler", name)
        /\ IF name = "supervisor" THEN ReportIfViable(workerReports, TRUE)
           ELSE UNCHANGED nodeBox
    /\ UNCHANGED <<status, nodeStatus>>
    /\ UNCHANGED startup

\* The Crawler forwards its references to the workers, all but the one to
\* its supervisor.
CrawlerReceivesRef ==
    /\ \E name \in RefName :
        /\ Ref(name) \in Incoming("crawler")
        /\ Handle("crawler", Ref(name),
                  IF name = "supervisor" THEN {}
                  ELSE {Envelope(w, Ref(name)) : w \in Worker})
        /\ Learn("crawler", name)
        /\ IF name = "supervisor" THEN ReportIfViable(workerReports, TRUE)
           ELSE UNCHANGED nodeBox
    /\ UNCHANGED <<status, nodeStatus>>
    /\ UNCHANGED startup

\* Mutant: the Crawler reports only when it learns of its supervisor.
CrawlerCountsWorkerOnly ==
    LET m == [type |-> "ReportWorkerInitializationComplete"]
    IN  /\ m \in Incoming("crawler")
        /\ Handle("crawler", m, {})
        /\ workerReports' = workerReports + 1
        /\ UNCHANGED <<status, refs, nodeBox, nodeStatus>>
        /\ UNCHANGED <<unsent, complete, boot>>

\* Mutant: the number of workers is added, and not one.
CrawlerCountsWorkers ==
    LET m == [type |-> "ReportWorkerInitializationComplete"]
    IN  /\ m \in Incoming("crawler")
        /\ Handle("crawler", m, {})
        /\ workerReports' = workerReports + Cardinality(Worker)
        /\ ReportIfViable(workerReports', "supervisor" \in refs["crawler"])
        /\ UNCHANGED <<status, refs, nodeStatus>>
        /\ UNCHANGED <<unsent, complete, boot>>

\* Crawler.receive, ReportWorkerInitializationComplete
CrawlerCountsWorker ==
    LET m == [type |-> "ReportWorkerInitializationComplete"]
    IN  /\ m \in Incoming("crawler")
        /\ Handle("crawler", m, {})
        /\ workerReports' = workerReports + 1
        /\ ReportIfViable(workerReports', "supervisor" \in refs["crawler"])
        /\ UNCHANGED <<status, refs, nodeStatus>>
        /\ UNCHANGED <<unsent, complete, boot>>

WorkerReceivesRef(w) ==
    /\ \E name \in RefName :
        /\ Ref(name) \in Incoming(w)
        /\ Handle(w, Ref(name),
                  IF name = "supervisor"
                  THEN {Envelope("crawler",
                            [type |-> "ReportWorkerInitializationComplete"])}
                  ELSE {})
        /\ Learn(w, name)
    /\ UNCHANGED <<status, nodeBox, nodeStatus>>
    /\ UNCHANGED startup

StartupReceive(a) ==
    \/ a \in Component \ {"crawler"} /\ ComponentReceivesRef(a)
    \/ a = "crawler" /\ (CrawlerReceivesRef \/ CrawlerCountsWorker)
    \/ a \in Worker /\ WorkerReceivesRef(a)

-----------------------------------------------------------------------------
(***************************************************************************)
(* The Node answers; it handles no message before preStart has returned.   *)
(***************************************************************************)
NodeReceives(type) ==
    /\ NodeRuns
    /\ unsent = {}
    /\ nodeBox # <<>>
    /\ Head(nodeBox).type = type

\* InitializationProgress.signalCompletion; a second report changes nothing.
NodeCountsReport ==
    /\ NodeReceives("ReportInitializationComplete")
    /\ complete' = complete \cup {Head(nodeBox).from}
    /\ nodeBox' = Tail(nodeBox)
    /\ UNCHANGED <<box, status, refs, nodeStatus, unsent, workerReports, boot>>

\* The answer to a thread that has given up is dropped.
NodeAnswers ==
    /\ NodeReceives("EngineOperational")
    /\ nodeBox' = Tail(nodeBox)
    /\ boot' = IF boot # "waiting" THEN boot
               ELSE IF complete = Component THEN "up" ELSE "asking"
    /\ UNCHANGED <<box, status, refs, nodeStatus>>
    /\ UNCHANGED <<unsent, workerReports, complete>>

NodeTerminates ==
    /\ \/ NodeReceives("Terminated") /\ OnTerminated
       \/ NodeReceives("ShutdownSystem") /\ OnSystemShutdown
    /\ UNCHANGED startup

NodeStartupReceive == NodeCountsReport \/ NodeAnswers \/ NodeTerminates

-----------------------------------------------------------------------------
(***************************************************************************)
(* The HeminEngine.                                                        *)
(***************************************************************************)
\* warmup asks, and asks again 25 ms after it was told false.
Ask ==
    /\ boot = "asking"
    /\ boot' = "waiting"
    /\ Tell([type |-> "EngineOperational"])
    /\ UNCHANGED <<box, status, refs, nodeStatus>>
    /\ UNCHANGED <<unsent, workerReports, complete>>

\* The answer takes longer than internalTimeout: the constructor throws.  The
\* ActorSystem it has created is left as it is.
AskTimesOut ==
    /\ boot = "waiting"
    /\ boot' = "failed"
    /\ UNCHANGED actors
    /\ UNCHANGED <<unsent, workerReports, complete>>

\* HeminEngine.shutdown: not running, whatever becomes of the ActorSystem.
Shutdown ==
    /\ boot = "up"
    /\ boot' = "down"
    /\ nodeStatus' = IF nodeStatus = "running" THEN "terminating" ELSE nodeStatus
    /\ UNCHANGED <<box, status, refs, nodeBox>>
    /\ UNCHANGED <<unsent, workerReports, complete>>
=============================================================================
