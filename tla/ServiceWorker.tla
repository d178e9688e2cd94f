--------------------------- MODULE ServiceWorker ----------------------------
(***************************************************************************)
(* registerServiceWorker.js in the tabs of one browser.  In production it  *)
(* registers the service worker that serves the application from a cache;  *)
(* on localhost it first looks whether the worker's script still exists,   *)
(* and unregisters the worker and reloads the page when it does not.       *)
(*                                                                         *)
(* The browser and the worker are external, as far as the code relies on   *)
(* them: one registration for all tabs, whose jobs run one after another,  *)
(* a job being done when the worker that it found is installed; a page     *)
(* comes from an active worker when there is one, and looks for an update  *)
(* of it.  What the callbacks log is left out.                             *)
(***************************************************************************)
EXTENDS Naturals, Sequences

CONSTANTS
    Tab,          \* tabs of the browser
    NoTab,        \* for a job whose tab has gone elsewhere
    MaxVisits,    \* how often a user opens or refreshes a page
    MaxChanges    \* how often the server or the connection changes

ASSUME WorkerAssumption ==
    /\ NoTab \notin Tab
    /\ MaxVisits \in Nat
    /\ MaxChanges \in Nat

\* Where register() leaves: not in production, without support for workers
\* or with assets of another origin it does nothing.
Site == {"off", "public", "localhost"}

\* What the server says to a request for the worker's script: a script, a
\* status 404 or another type, or a response without a type.
Script == {"script", "missing", "untyped"}

Version == 1 .. MaxChanges + 1
None == 0

VARIABLES
    site,         \* where the application runs
    version,      \* the version that the server has
    script,       \* its answer to a request for the worker's script
    online,       \* can the browser reach it?
    active,       \* the version of the active worker, or None
    installing,   \* the version of the worker that is being installed, or None
    jobs,         \* jobs of the registration: [op, tab]
    pc,           \* where the code stands in each tab
    visits,
    changes,
    fresh         \* history: since the last change the code has been loaded by a
                  \* visit, and the page has not been left for another

server == <<version, script, online, changes>>
vars == <<site, server, active, installing, jobs, pc, visits, fresh>>

Place == {"closed", "loading", "checking", "waiting", "ready",
          "registering", "unregistering", "reloading", "idle"}

TypeOK ==
    /\ site \in Site
    /\ version \in Version
    /\ script \in Script
    /\ online \in BOOLEAN
    /\ active \in Version \cup {None}
    /\ installing \in Version \cup {None}
    /\ jobs \in Seq([op : {"register", "update", "unregister"}, tab : Tab \cup {NoTab}])
    /\ pc \in [Tab -> Place]
    /\ visits \in 0 .. MaxVisits
    /\ changes \in 0 .. MaxChanges
    /\ fresh \in BOOLEAN

Init ==
    /\ site \in Site
    /\ version = 1
    /\ script \in Script
    /\ online = TRUE
    /\ active = None
    /\ installing = None
    /\ jobs = <<>>
    /\ pc = [tab \in Tab |-> "closed"]
    /\ visits = 0
    /\ changes = 0
    /\ fresh = FALSE

Job(op, tab) == [op |-> op, tab |-> tab]

-----------------------------------------------------------------------------
(***************************************************************************)
(* The code                                                                *)
(***************************************************************************)
\* Mutant: the public site is checked like localhost.
LoadEverywhereChecking(tab) ==
    /\ pc[tab] = "loading"
    /\ pc' = [pc EXCEPT ![tab] = "checking"]
    /\ UNCHANGED <<site, server, active, installing, jobs, visits, fresh>>

\* The event "load": registerValidSW, or checkValidServiceWorker's fetch.
Load(tab) ==
    /\ pc[tab] = "loading"
    /\ IF site = "localhost"
       THEN /\ pc' = [pc EXCEPT ![tab] = "checking"]
            /\ UNCHANGED jobs
       ELSE /\ pc' = [pc EXCEPT ![tab] = "registering"]
            /\ jobs' = Append(jobs, Job("register", tab))
    /\ UNCHANGED <<site, server, active, installing, visits, fresh>>

\* Mutant: the code asks for the active worker instead of waiting for one.
CheckedNotWaiting(tab) ==
    /\ pc[tab] = "checking"
    /\ \/ /\ ~online \/ script = "untyped"
          /\ pc' = [pc EXCEPT ![tab] = "idle"]
          /\ UNCHANGED jobs
       \/ /\ online /\ script = "missing"
          /\ pc' = [pc EXCEPT ![tab] = IF active # None THEN "ready" ELSE "idle"]
          /\ UNCHANGED jobs
       \/ /\ online /\ script = "script"
          /\ pc' = [pc EXCEPT ![tab] = "registering"]
          /\ jobs' = Append(jobs, Job("register", tab))
    /\ UNCHANGED <<site, server, active, installing, visits, fresh>>

\* The response of the fetch, or its failure.  An answer without a type
\* raises a TypeError, which ends where being offline does.  The promise
\* serviceWorker.ready waits for an active worker when there is none.
Checked(tab) ==
    /\ pc[tab] = "checking"
    /\ \/ /\ ~online \/ script = "untyped"
          /\ pc' = [pc EXCEPT ![tab] = "idle"]
          /\ UNCHANGED jobs
       \/ /\ online /\ script = "missing"
          /\ pc' = [pc EXCEPT ![tab] = IF active # None THEN "ready" ELSE "waiting"]
          /\ UNCHANGED jobs
       \/ /\ online /\ script = "script"
          /\ pc' = [pc EXCEPT ![tab] = "registering"]
          /\ jobs' = Append(jobs, Job("register", tab))
    /\ UNCHANGED <<site, server, active, installing, visits, fresh>>

\* Mutant: the page is reloaded while unregister() is under way.
ReloadMeanwhile(tab) ==
    /\ pc[tab] = "ready"
    /\ pc' = [pc EXCEPT ![tab] = "reloading"]
    /\ jobs' = Append(jobs, Job("unregister", tab))
    /\ UNCHANGED <<site, server, active, installing, visits, fresh>>

\* Mutant: the page is reloaded with the worker still there.
ReloadAtOnce(tab) ==
    /\ pc[tab] = "ready"
    /\ pc' = [pc EXCEPT ![tab] = "reloading"]
    /\ UNCHANGED <<site, server, active, installing, jobs, visits, fresh>>

\* registration.unregister()
Unregister(tab) ==
    /\ pc[tab] = "ready"
    /\ pc' = [pc EXCEPT ![tab] = "unregistering"]
    /\ jobs' = Append(jobs, Job("unregister", tab))
    /\ UNCHANGED <<site, server, active, installing, visits, fresh>>

\* Mutant: nothing follows the end of unregister().
StayAfterUnregister(op) == "idle"

\* What the code does when a job of its tab is done: it reloads the page
\* without the worker, or is at its end.
AfterJob(op) == IF op = "unregister" THEN "reloading" ELSE "idle"

-----------------------------------------------------------------------------
(***************************************************************************)
(* The browser                                                             *)
(***************************************************************************)
\* The jobs without a tab that goes elsewhere.
Abandoned(tab) ==
    [i \in DOMAIN jobs |->
        IF jobs[i].tab = tab THEN Job(jobs[i].op, NoTab) ELSE jobs[i]]

\* A tab navigates: from the active worker, which is looked for an update,
\* or from the server, which may have another application by now.  What the
\* tab was doing before is over, but its jobs.
Navigate(tab) ==
    /\ jobs' = IF active # None THEN Append(Abandoned(tab), Job("update", NoTab))
               ELSE Abandoned(tab)
    /\ \E runs \in BOOLEAN :
        /\ active # None => runs
        /\ active = None => (runs => online) /\ (online /\ script = "script" => runs)
        /\ pc' = [pc EXCEPT ![tab] = IF runs /\ site # "off" THEN "loading" ELSE "idle"]
    /\ UNCHANGED <<site, server, active, installing>>

Visit(tab) ==
    /\ visits < MaxVisits
    /\ visits' = visits + 1
    /\ Navigate(tab)
    /\ fresh' = (pc'[tab] = "loading")

\* window.location.reload()
Reload(tab) ==
    /\ pc[tab] = "reloading"
    /\ Navigate(tab)
    /\ UNCHANGED <<visits, fresh>>

Close(tab) ==
    /\ pc[tab] # "closed"
    /\ pc' = [pc EXCEPT ![tab] = "closed"]
    /\ jobs' = Abandoned(tab)
    /\ fresh' = FALSE
    /\ UNCHANGED <<site, server, active, installing, visits>>

\* A worker is looked for: for a registration when there is none, for an
\* update when there is one, whose version is another.
Finds(op) ==
    /\ op = "register" => active = None
    /\ op = "update" => active \notin {None, version}
    /\ op # "unregister" /\ online /\ script = "script"

RunJob ==
    /\ jobs # <<>> /\ installing = None
    /\ LET job == Head(jobs) IN
       /\ installing' = IF Finds(job.op) THEN version ELSE None
       /\ active' = IF job.op = "unregister" THEN None ELSE active
       /\ pc' = IF job.tab = NoTab THEN pc ELSE [pc EXCEPT ![job.tab] = AfterJob(job.op)]
    /\ jobs' = Tail(jobs)
    /\ UNCHANGED <<site, server, visits, fresh>>

\* A worker is installed, unless the server cannot be reached or has gone on
\* to other assets, and becomes active at once; serviceWorker.ready resolves.
Install ==
    /\ installing # None
    /\ online
    /\ active' = installing
    /\ installing' = None
    /\ pc' = [tab \in Tab |-> IF pc[tab] = "waiting" THEN "ready" ELSE pc[tab]]
    /\ UNCHANGED <<site, server, jobs, visits, fresh>>

FailInstall ==
    /\ installing # None
    /\ ~online \/ installing # version
    /\ installing' = None
    /\ UNCHANGED <<site, server, active, jobs, pc, visits, fresh>>

-----------------------------------------------------------------------------
(***************************************************************************)
(* The server and the connection                                           *)
(***************************************************************************)
Change ==
    /\ changes < MaxChanges
    /\ changes' = changes + 1
    /\ fresh' = FALSE
    /\ UNCHANGED <<site, active, installing, jobs, pc, visits>>

Deploy ==
    /\ Change
    /\ version' = version + 1
    /\ script' \in Script
    /\ UNCHANGED online

Connect ==
    /\ Change
    /\ online' = ~online
    /\ UNCHANGED <<version, script>>

Next ==
    \/ \E tab \in Tab :
        \/ Load(tab) \/ Checked(tab) \/ Unregister(tab) \/ Reload(tab)
        \/ Visit(tab) \/ Close(tab)
    \/ RunJob \/ Install \/ FailInstall
    \/ Deploy \/ Connect

Spec == Init /\ [][Next]_vars

\* Pages load, requests are answered or fail, callbacks and jobs run; what a
\* user, the server and the connection do is left to them.
Fairness ==
    /\ \A tab \in Tab :
        WF_vars(Load(tab) \/ Checked(tab) \/ Unregister(tab) \/ Reload(tab))
    /\ WF_vars(RunJob \/ Install \/ FailInstall)

FairSpec == Spec /\ Fairness

-----------------------------------------------------------------------------
\* A tab waits for a job exactly while one job of its kind is queued for it:
\* no callback of a page that has gone runs in the page that came instead.
JobsMatch ==
    LET queued(tab) == {i \in DOMAIN jobs : jobs[i].tab = tab} IN
    \A tab \in Tab :
        /\ \A i \in queued(tab) :
            pc[tab] = IF jobs[i].op = "register" THEN "registering" ELSE "unregistering"
        /\ pc[tab] \in {"registering", "unregistering"} => queued(tab) # {}
        /\ \A i, j \in queued(tab) : i = j

\* Every visit comes to rest: no page is reloaded for ever, whatever the
\* server says of the script and whichever tabs unregister its worker.
ComesToRest ==
    <>[](/\ \A tab \in Tab : pc[tab] \in {"closed", "waiting", "idle"}
         /\ jobs = <<>> /\ installing = None)

\* "It gives it offline capabilities": a visit that finds the script leaves
\* an active worker behind, even if a tab that had missed the script before,
\* and waits for a worker ever since, unregisters the new one.
VisitLeavesAWorker ==
    <>[](fresh /\ online /\ script = "script" /\ site # "off" => active # None)

\* "No service worker found. Probably a different app": on localhost a visit
\* that misses the script leaves no worker behind to serve the old pages,
\* even if another tab is about to register one.
MissingLeavesNoWorker ==
    <>[](fresh /\ online /\ script = "missing" /\ site = "localhost" => active = None)

\* Away from localhost a worker that is active stays: nothing takes from the
\* application what it can do offline.
PublicKeepsItsWorker ==
    [][site # "localhost" /\ active # None => active' # None]_vars
=============================================================================
