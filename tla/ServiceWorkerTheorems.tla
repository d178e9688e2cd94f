------------------------ MODULE ServiceWorkerTheorems ------------------------
(***************************************************************************)
(* The callbacks of registerServiceWorker.js meet the page that asked for  *)
(* them, and a public site never unregisters its worker: for every number  *)
(* of tabs, visits and deployments.                                        *)
(***************************************************************************)
EXTENDS ServiceWorker, SequenceTheorems, TLAPS

JobType == [op : {"register", "update", "unregister"}, tab : Tab \cup {NoTab}]

\* Only localhost looks whether the script exists, and only what missed it
\* unregisters.
OnlyLocalhostChecks ==
    site # "localhost" =>
        /\ \A tab \in Tab :
            pc[tab] \notin {"checking", "waiting", "ready", "unregistering", "reloading"}
        /\ \A i \in DOMAIN jobs : jobs[i].op # "unregister"

\* Every version after the first has been deployed.
VersionsAreDeployed == version <= changes + 1

IInv == TypeOK /\ JobsMatch /\ OnlyLocalhostChecks /\ VersionsAreDeployed

\* JobsMatch about two indices instead of the set of a tab's jobs.
Matched(queue, at) ==
    /\ \A tab \in Tab : \A i \in DOMAIN queue :
        queue[i].tab = tab =>
            at[tab] = IF queue[i].op = "register" THEN "registering" ELSE "unregistering"
    /\ \A tab \in Tab :
        at[tab] \in {"registering", "unregistering"} =>
            \E i \in DOMAIN queue : queue[i].tab = tab
    /\ \A tab \in Tab : \A i, j \in DOMAIN queue :
        queue[i].tab = tab /\ queue[j].tab = tab => i = j

-----------------------------------------------------------------------------
LEMMA MatchedIsJobsMatch == JobsMatch <=> Matched(jobs, pc)
  BY DEF JobsMatch, Matched

\* A job is a job, and a queue of jobs has its indices.
LEMMA JobTyped ==
    ASSUME NEW op \in {"register", "update", "unregister"}, NEW tab \in Tab \cup {NoTab}
    PROVE  Job(op, tab) \in JobType /\ Job(op, tab).op = op /\ Job(op, tab).tab = tab
  BY DEF Job, JobType

\* A queue that takes the job of a tab which had none still matches when the
\* tab goes on to wait for it.
LEMMA MatchedAppend ==
    ASSUME NEW queue \in Seq(JobType), NEW at \in [Tab -> Place], NEW tab \in Tab,
           Matched(queue, at),
           at[tab] \notin {"registering", "unregistering"},
           NEW op \in {"register", "unregister"}
    PROVE  /\ Append(queue, Job(op, tab)) \in Seq(JobType)
           /\ Matched(Append(queue, Job(op, tab)),
                      [at EXCEPT ![tab] = IF op = "register" THEN "registering"
                                          ELSE "unregistering"])
<1> DEFINE job == Job(op, tab)
           longer == Append(queue, job)
           to == [at EXCEPT ![tab] = IF op = "register" THEN "registering" ELSE "unregistering"]
<1>1. job \in JobType /\ job.op = op /\ job.tab = tab
  BY JobTyped
<1>2. /\ longer \in Seq(JobType)
      /\ Len(longer) = Len(queue) + 1
      /\ \A i \in 1 .. Len(queue) : longer[i] = queue[i]
      /\ longer[Len(queue) + 1] = job
  BY <1>1, AppendProperties
<1>3. DOMAIN longer = 1 .. Len(queue) + 1 /\ DOMAIN queue = 1 .. Len(queue) /\ Len(queue) \in Nat
  BY <1>2, LenProperties
<1>4. \A i \in DOMAIN queue : queue[i].tab # tab
  BY DEF Matched
<1>5. \A other \in Tab : to[other] = IF other # tab THEN at[other]
                         ELSE IF op = "register" THEN "registering" ELSE "unregistering"
  OBVIOUS
<1> HIDE DEF job, longer, to
<1>6. ASSUME NEW other \in Tab, NEW i \in DOMAIN longer, longer[i].tab = other
      PROVE  to[other] = IF longer[i].op = "register" THEN "registering" ELSE "unregistering"
  BY <1>1, <1>2, <1>3, <1>4, <1>5, <1>6 DEF Matched
<1>7. ASSUME NEW other \in Tab, to[other] \in {"registering", "unregistering"}
      PROVE  \E i \in DOMAIN longer : longer[i].tab = other
  <2>1. CASE other = tab
    <3>1. Len(queue) + 1 \in DOMAIN longer
      BY <1>3
    <3> QED
      BY <1>1, <1>2, <2>1, <3>1
  <2>2. CASE other # tab
    <3>1. PICK i \in DOMAIN queue : queue[i].tab = other
      BY <1>5, <1>7, <2>2 DEF Matched
    <3>2. i \in DOMAIN longer /\ longer[i] = queue[i]
      BY <1>2, <1>3
    <3> QED
      BY <3>1, <3>2
  <2> QED
    BY <2>1, <2>2
<1>8. ASSUME NEW other \in Tab, NEW i \in DOMAIN longer, NEW j \in DOMAIN longer,
             longer[i].tab = other, longer[j].tab = other
      PROVE  i = j
  BY <1>1, <1>2, <1>3, <1>4, <1>8 DEF Matched
<1> QED
  BY <1>2, <1>6, <1>7, <1>8 DEF Matched, job, longer, to

\* A queue without the jobs of a tab matches wherever that tab goes that is
\* not a place to wait for a job.
LEMMA MatchedAbandoned ==
    ASSUME TypeOK, Matched(jobs, pc), NEW tab \in Tab, NEW place \in Place,
           place \notin {"registering", "unregistering"}
    PROVE  /\ Abandoned(tab) \in Seq(JobType)
           /\ DOMAIN Abandoned(tab) = DOMAIN jobs
           /\ \A i \in DOMAIN jobs : Abandoned(tab)[i].op = jobs[i].op
           /\ Matched(Abandoned(tab), [pc EXCEPT ![tab] = place])
<1> DEFINE left == Abandoned(tab)
           to == [pc EXCEPT ![tab] = place]
<1>1. /\ jobs \in Seq(JobType)
      /\ pc \in [Tab -> Place]
      /\ NoTab \notin Tab
  BY WorkerAssumption DEF WorkerAssumption, TypeOK, JobType
<1>2. /\ Len(jobs) \in Nat
      /\ DOMAIN jobs = 1 .. Len(jobs)
      /\ \A i \in DOMAIN jobs : jobs[i] \in JobType
  BY <1>1, LenProperties
<1>3. /\ DOMAIN left = DOMAIN jobs
      /\ \A i \in DOMAIN jobs :
            /\ left[i] \in JobType
            /\ left[i].op = jobs[i].op
            /\ left[i].tab = IF jobs[i].tab = tab THEN NoTab ELSE jobs[i].tab
  BY <1>2 DEF Abandoned, Job, JobType
<1>4. left \in Seq(JobType)
  <2>1. left = [i \in 1 .. Len(jobs) |-> left[i]]
    BY <1>2 DEF Abandoned
  <2> HIDE DEF left
  <2> QED
    BY <1>2, <1>3, <2>1
<1>5. \A other \in Tab : to[other] = IF other = tab THEN place ELSE pc[other]
  BY <1>1
<1> HIDE DEF left, to
<1>6. ASSUME NEW other \in Tab, NEW i \in DOMAIN left, left[i].tab = other
      PROVE  to[other] = IF left[i].op = "register" THEN "registering" ELSE "unregistering"
  BY <1>1, <1>3, <1>5, <1>6 DEF Matched
<1>7. ASSUME NEW other \in Tab, to[other] \in {"registering", "unregistering"}
      PROVE  \E i \in DOMAIN left : left[i].tab = other
  <2>1. other # tab /\ pc[other] \in {"registering", "unregistering"}
    BY <1>5, <1>7
  <2>2. PICK i \in DOMAIN jobs : jobs[i].tab = other
    BY <2>1 DEF Matched
  <2> QED
    BY <1>3, <2>1, <2>2
<1>8. ASSUME NEW other \in Tab, NEW i \in DOMAIN left, NEW j \in DOMAIN left,
             left[i].tab = other, left[j].tab = other
      PROVE  i = j
  BY <1>1, <1>3, <1>8 DEF Matched
<1> QED
  BY <1>3, <1>4, <1>6, <1>7, <1>8 DEF Matched, left, to

\* A queue that loses its first job matches when its tab stops waiting.
LEMMA MatchedTail ==
    ASSUME NEW queue \in Seq(JobType), queue # <<>>, NEW at \in [Tab -> Place],
           Matched(queue, at), NEW place \in Place,
           place \notin {"registering", "unregistering"}
    PROVE  /\ Tail(queue) \in Seq(JobType)
           /\ Head(queue) \in JobType
           /\ Head(queue) = queue[1]
           /\ \A i \in DOMAIN Tail(queue) : \E j \in DOMAIN queue : Tail(queue)[i] = queue[j]
           /\ 1 \in DOMAIN queue
           /\ Matched(Tail(queue),
                      IF Head(queue).tab = NoTab THEN at
                      ELSE [at EXCEPT ![Head(queue).tab] = place])
<1> DEFINE rest == Tail(queue)
           job == Head(queue)
           to == IF job.tab = NoTab THEN at ELSE [at EXCEPT ![job.tab] = place]
<1>1. /\ job \in JobType
      /\ rest \in Seq(JobType)
      /\ Len(rest) = Len(queue) - 1
      /\ \A i \in 1 .. Len(rest) : rest[i] = queue[i + 1]
  BY HeadTailProperties
<1>2. /\ Len(queue) \in Nat /\ Len(queue) >= 1
      /\ DOMAIN queue = 1 .. Len(queue)
      /\ DOMAIN rest = 1 .. Len(queue) - 1
      /\ job = queue[1]
  <2>1. Len(queue) \in Nat /\ Len(queue) >= 1
    BY EmptySeq
  <2> QED
    BY <1>1, <2>1, LenProperties
<1>3. 1 \in DOMAIN queue /\ \A i \in DOMAIN rest : i + 1 \in DOMAIN queue /\ rest[i] = queue[i + 1]
  BY <1>1, <1>2
<1>4. \A other \in Tab : to[other] = IF other = job.tab THEN place ELSE at[other]
  BY WorkerAssumption DEF WorkerAssumption
<1> HIDE DEF rest, job, to
<1>5. ASSUME NEW other \in Tab, NEW i \in DOMAIN rest, rest[i].tab = other
      PROVE  other # job.tab
  <2>1. i + 1 # 1
    BY <1>2
  <2> QED
    BY <1>2, <1>3, <1>5, <2>1 DEF Matched
<1>6. ASSUME NEW other \in Tab, NEW i \in DOMAIN rest, rest[i].tab = other
      PROVE  to[other] = IF rest[i].op = "register" THEN "registering" ELSE "unregistering"
  <2>1. other # job.tab
    BY <1>5, <1>6
  <2> QED
    BY <1>3, <1>4, <1>6, <2>1 DEF Matched
<1>7. ASSUME NEW other \in Tab, to[other] \in {"registering", "unregistering"}
      PROVE  \E i \in DOMAIN rest : rest[i].tab = other
  <2>1. other # job.tab /\ at[other] \in {"registering", "unregistering"}
    BY <1>4, <1>7
  <2>2. PICK j \in DOMAIN queue : queue[j].tab = other
    BY <2>1 DEF Matched
  <2>3. j # 1
    BY <1>2, <2>1, <2>2
  <2>4. j - 1 \in DOMAIN rest /\ rest[j - 1] = queue[j]
    BY <1>2, <1>3, <2>2, <2>3
  <2> QED
    BY <2>2, <2>4
<1>8. ASSUME NEW other \in Tab, NEW i \in DOMAIN rest, NEW j \in DOMAIN rest,
             rest[i].tab = other, rest[j].tab = other
      PROVE  i = j
  <2>1. i + 1 = j + 1
    BY <1>3, <1>8 DEF Matched
  <2> QED
    BY <1>2, <2>1
<1> QED
  BY <1>1, <1>2, <1>3, <1>6, <1>7, <1>8 DEF Matched, rest, job, to

-----------------------------------------------------------------------------
\* Nothing is queued and nobody waits at the start.
LEMMA InitIInv == Init => IInv
<1> SUFFICES ASSUME Init PROVE IInv
  OBVIOUS
<1>1. TypeOK
  <2>1. 1 \in Version /\ 0 \in 0 .. MaxVisits /\ 0 \in 0 .. MaxChanges
    BY WorkerAssumption DEF WorkerAssumption, Version
  <2> QED
    BY <2>1, EmptySeq DEF Init, TypeOK, Place
<1>2. JobsMatch
  <2>1. DOMAIN jobs = {}
    BY DEF Init
  <2>2. \A tab \in Tab : pc[tab] = "closed"
    BY DEF Init
  <2> QED
    BY <2>1, <2>2, MatchedIsJobsMatch DEF Matched
<1>3. OnlyLocalhostChecks /\ VersionsAreDeployed
  BY DEF Init, OnlyLocalhostChecks, VersionsAreDeployed
<1> QED
  BY <1>1, <1>2, <1>3 DEF IInv

\* A tab that waits for no job asks for one.
LEMMA AskIInv ==
    ASSUME IInv, NEW tab \in Tab, NEW op \in {"register", "unregister"},
           op = "unregister" => site = "localhost",
           pc[tab] \notin {"registering", "unregistering"},
           jobs' = Append(jobs, Job(op, tab)),
           pc' = [pc EXCEPT ![tab] = IF op = "register" THEN "registering" ELSE "unregistering"],
           UNCHANGED <<site, server, active, installing, visits, fresh>>
    PROVE  IInv'
<1>1. /\ jobs \in Seq(JobType)
      /\ pc \in [Tab -> Place]
      /\ Matched(jobs, pc)
  BY MatchedIsJobsMatch DEF IInv, TypeOK, JobType
<1>2. jobs' \in Seq(JobType) /\ Matched(jobs', pc')
  BY <1>1, MatchedAppend
<1>3. pc' \in [Tab -> Place]
  BY <1>1 DEF Place
<1>4. TypeOK'
  BY <1>2, <1>3 DEF IInv, TypeOK, JobType, server
<1>5. JobsMatch'
  BY <1>2 DEF JobsMatch, Matched
<1>6. OnlyLocalhostChecks'
  <2> SUFFICES ASSUME site # "localhost"
               PROVE  /\ \A other \in Tab :
                            pc'[other] \notin {"checking", "waiting", "ready",
                                              "unregistering", "reloading"}
                      /\ \A i \in DOMAIN jobs' : jobs'[i].op # "unregister"
    BY DEF OnlyLocalhostChecks
  <2>1. op = "register"
    OBVIOUS
  <2>2. Job(op, tab) \in JobType /\ Job(op, tab).op = "register"
    BY <2>1, JobTyped
  <2>3. \A i \in DOMAIN jobs' : (i \in DOMAIN jobs /\ jobs'[i] = jobs[i]) \/ jobs'[i] = Job(op, tab)
    BY <1>1, <1>2, <2>2, AppendProperties, LenProperties
  <2> QED
    BY <1>1, <2>1, <2>2, <2>3 DEF IInv, OnlyLocalhostChecks
<1> QED
  BY <1>4, <1>5, <1>6 DEF IInv, VersionsAreDeployed, server

\* A tab that waits for no job goes on without one.
LEMMA GoOnIInv ==
    ASSUME IInv, NEW tab \in Tab, NEW place \in Place,
           place \notin {"registering", "unregistering"},
           pc[tab] \notin {"registering", "unregistering"},
           site # "localhost" => place \in {"closed", "loading", "idle"},
           jobs' = jobs,
           pc' = [pc EXCEPT ![tab] = place],
           UNCHANGED <<site, server, active, installing, visits, fresh>>
    PROVE  IInv'
<1>1. pc \in [Tab -> Place]
  BY DEF IInv, TypeOK
<1>2. \A other \in Tab : pc'[other] = IF other = tab THEN place ELSE pc[other]
  BY <1>1
<1>3. TypeOK'
  BY <1>1 DEF IInv, TypeOK, server
<1>4. JobsMatch'
  BY <1>2 DEF IInv, JobsMatch
<1>5. OnlyLocalhostChecks'
  BY <1>2 DEF IInv, OnlyLocalhostChecks
<1> QED
  BY <1>3, <1>4, <1>5 DEF IInv, VersionsAreDeployed, server

\* A tab leaves what it was doing, with an update to be looked for or not.
LEMMA LeaveIInv ==
    ASSUME IInv, NEW tab \in Tab, NEW place \in {"closed", "loading", "idle"},
           jobs' \in {Abandoned(tab), Append(Abandoned(tab), Job("update", NoTab))},
           pc' = [pc EXCEPT ![tab] = place],
           visits' \in 0 .. MaxVisits, fresh' \in BOOLEAN,
           UNCHANGED <<site, server, active, installing>>
    PROVE  IInv'
<1> DEFINE left == Abandoned(tab)
           update == Job("update", NoTab)
<1>1. pc \in [Tab -> Place] /\ place \in Place
  BY DEF IInv, TypeOK, Place
<1>2. /\ left \in Seq(JobType)
      /\ DOMAIN left = DOMAIN jobs
      /\ \A i \in DOMAIN jobs : left[i].op = jobs[i].op
      /\ Matched(left, pc')
  BY <1>1, MatchedIsJobsMatch, MatchedAbandoned DEF IInv
<1>3. update \in JobType /\ update.op = "update" /\ update.tab = NoTab
  BY JobTyped
<1>4. /\ jobs' \in Seq(JobType)
      /\ \A i \in DOMAIN left : i \in DOMAIN jobs' /\ jobs'[i] = left[i]
      /\ \A i \in DOMAIN jobs' : (i \in DOMAIN left /\ jobs'[i] = left[i]) \/ jobs'[i] = update
  <2> HIDE DEF left, update
  <2>1. CASE jobs' = left
    BY <1>2, <2>1
  <2>2. CASE jobs' = Append(left, update)
    BY <1>2, <1>3, <2>2, AppendProperties, LenProperties
  <2> QED
    BY <2>1, <2>2 DEF left, update
<1>5. Matched(jobs', pc')
  <2>1. NoTab \notin Tab
    BY WorkerAssumption DEF WorkerAssumption
  <2> HIDE DEF left, update
  <2>2. \A i \in DOMAIN jobs', other \in Tab :
            jobs'[i].tab = other => i \in DOMAIN left /\ jobs'[i] = left[i]
    BY <1>3, <1>4, <2>1
  <2> QED
    BY <1>2, <1>4, <2>2 DEF Matched
<1>6. JobsMatch'
  BY <1>5 DEF JobsMatch, Matched
<1>7. TypeOK'
  BY <1>1, <1>4 DEF IInv, TypeOK, JobType, server
<1>8. OnlyLocalhostChecks'
  <2>1. \A other \in Tab : pc'[other] = IF other = tab THEN place ELSE pc[other]
    BY <1>1
  <2> QED
    BY <1>2, <1>3, <1>4, <2>1 DEF IInv, OnlyLocalhostChecks
<1> QED
  BY <1>6, <1>7, <1>8 DEF IInv, VersionsAreDeployed, server, RunJob

\* A job is done: its tab, if it is still there, stops waiting.
LEMMA RunJobIInv ==
    ASSUME IInv, RunJob
    PROVE  IInv'
<1> DEFINE job == Head(jobs)
<1>1. /\ jobs \in Seq(JobType) /\ jobs # <<>>
      /\ pc \in [Tab -> Place]
      /\ Matched(jobs, pc)
  BY MatchedIsJobsMatch DEF IInv, TypeOK, JobType, RunJob
<1>2. AfterJob(job.op) \in {"reloading", "idle"} /\ AfterJob(job.op) \in Place
  BY DEF AfterJob, Place
<1>3. pc' = IF job.tab = NoTab THEN pc ELSE [pc EXCEPT ![job.tab] = AfterJob(job.op)]
  BY DEF RunJob
<1>4. /\ Tail(jobs) \in Seq(JobType)
      /\ job \in JobType
      /\ job = jobs[1] /\ 1 \in DOMAIN jobs
      /\ \A i \in DOMAIN Tail(jobs) : \E j \in DOMAIN jobs : Tail(jobs)[i] = jobs[j]
      /\ Matched(Tail(jobs), pc')
  <2> HIDE DEF job
  <2> QED
    BY <1>1, <1>2, <1>3, MatchedTail DEF job
<1>5. jobs' = Tail(jobs)
  BY DEF RunJob
<1>6. TypeOK'
  <2>1. pc' \in [Tab -> Place]
    BY <1>1, <1>2, <1>3, <1>4 DEF JobType
  <2> QED
    BY <1>4, <1>5, <2>1 DEF IInv, TypeOK, JobType, RunJob, server
<1>7. JobsMatch'
  BY <1>4, <1>5 DEF JobsMatch, Matched
<1>8. OnlyLocalhostChecks'
  <2> SUFFICES ASSUME site # "localhost"
               PROVE  /\ \A tab \in Tab :
                            pc'[tab] \notin {"checking", "waiting", "ready",
                                            "unregistering", "reloading"}
                      /\ \A i \in DOMAIN jobs' : jobs'[i].op # "unregister"
    BY DEF OnlyLocalhostChecks, RunJob
  <2>1. AfterJob(job.op) = "idle"
    BY <1>4 DEF IInv, OnlyLocalhostChecks, AfterJob
  <2> QED
    BY <1>1, <1>3, <1>4, <1>5, <2>1 DEF IInv, OnlyLocalhostChecks
<1> QED
  BY <1>6, <1>7, <1>8 DEF IInv, VersionsAreDeployed, server, RunJob

\* A worker is active: the tabs that wait for one go on.
LEMMA InstallIInv ==
    ASSUME IInv, Install \/ FailInstall
    PROVE  IInv'
<1>1. \A tab \in Tab :
        /\ pc[tab] \in Place
        /\ pc'[tab] = pc[tab] \/ (pc[tab] = "waiting" /\ pc'[tab] = "ready")
  BY DEF Install, FailInstall, IInv, TypeOK
<1>2. TypeOK'
  BY DEF IInv, TypeOK, Install, FailInstall, server, Place
<1>3. JobsMatch'
  BY <1>1 DEF IInv, JobsMatch, Install, FailInstall
<1>4. OnlyLocalhostChecks'
  BY <1>1 DEF IInv, OnlyLocalhostChecks, Install, FailInstall
<1> QED
  BY <1>2, <1>3, <1>4 DEF IInv, VersionsAreDeployed, server, Install, FailInstall

\* The server and the connection change.
LEMMA ChangeIInv ==
    ASSUME IInv, Deploy \/ Connect
    PROVE  IInv'
<1>1. changes + 1 \in 0 .. MaxChanges /\ changes \in 0 .. MaxChanges
  BY WorkerAssumption DEF WorkerAssumption, IInv, TypeOK, Deploy, Connect, Change
<1>2. /\ version' \in Version /\ script' \in Script /\ online' \in BOOLEAN
      /\ VersionsAreDeployed'
  <2>1. version \in Nat \ {0} /\ version <= changes + 1
    BY WorkerAssumption
    DEF WorkerAssumption, IInv, TypeOK, VersionsAreDeployed, Version
  <2>2. CASE Deploy
    <3>1. version' = version + 1 /\ changes' = changes + 1
      BY <2>2 DEF Deploy, Change
    <3>2. version' \in Version /\ VersionsAreDeployed'
      BY <1>1, <2>1, <3>1, WorkerAssumption
      DEF WorkerAssumption, Version, VersionsAreDeployed
    <3> QED
      BY <2>2, <3>2 DEF Deploy, IInv, TypeOK
  <2>3. CASE Connect
    <3>1. version' = version /\ changes' = changes + 1
      BY <2>3 DEF Connect, Change
    <3>2. VersionsAreDeployed'
      BY <1>1, <2>1, <3>1 DEF VersionsAreDeployed
    <3>3. online' \in BOOLEAN
      BY <2>3 DEF Connect
    <3> QED
      BY <2>3, <3>1, <3>2, <3>3 DEF Connect, IInv, TypeOK
  <2> QED
    BY <2>2, <2>3
<1>3. TypeOK'
  BY <1>1, <1>2 DEF IInv, TypeOK, Deploy, Connect, Change
<1>4. JobsMatch' /\ OnlyLocalhostChecks'
  BY DEF IInv, JobsMatch, OnlyLocalhostChecks, Deploy, Connect, Change
<1> QED
  BY <1>2, <1>3, <1>4 DEF IInv

\* Every step preserves the inductive invariant.
LEMMA NextIInv == IInv /\ [Next]_vars => IInv'
<1> SUFFICES ASSUME IInv, [Next]_vars PROVE IInv'
  OBVIOUS
<1>1. ASSUME NEW tab \in Tab, Load(tab) PROVE IInv'
  <2>1. CASE site = "localhost"
    BY <1>1, <2>1, GoOnIInv DEF Load, Place
  <2>2. CASE site # "localhost"
    BY <1>1, <2>2, AskIInv DEF Load
  <2> QED
    BY <2>1, <2>2
<1>2. ASSUME NEW tab \in Tab, Checked(tab) PROVE IInv'
  <2>0. site = "localhost"
    BY <1>2 DEF IInv, OnlyLocalhostChecks, Checked
  <2>1. CASE jobs' = jobs
    BY <1>2, <2>0, <2>1, GoOnIInv DEF Checked, Place
  <2>2. CASE jobs' # jobs
    BY <1>2, <2>2, AskIInv DEF Checked
  <2> QED
    BY <2>1, <2>2
<1>3. ASSUME NEW tab \in Tab, Unregister(tab) PROVE IInv'
  <2>0. site = "localhost"
    BY <1>3 DEF IInv, OnlyLocalhostChecks, Unregister
  <2> QED
    BY <1>3, <2>0, AskIInv DEF Unregister
<1>4. ASSUME NEW tab \in Tab, Visit(tab) \/ Reload(tab) PROVE IInv'
  <2>1. PICK place \in {"loading", "idle"} : pc' = [pc EXCEPT ![tab] = place]
    BY <1>4 DEF Visit, Reload, Navigate
  <2>2. visits' \in 0 .. MaxVisits
    BY <1>4, WorkerAssumption
    DEF WorkerAssumption, IInv, TypeOK, Visit, Reload
  <2>4. fresh' \in BOOLEAN
    <3>1. CASE Visit(tab)
      BY <3>1, Zenon DEF Visit
    <3>2. CASE Reload(tab)
      BY <3>2 DEF Reload, IInv, TypeOK
    <3> QED
      BY <1>4, <3>1, <3>2
  <2>3. jobs' \in {Abandoned(tab), Append(Abandoned(tab), Job("update", NoTab))}
    BY <1>4 DEF Visit, Reload, Navigate
  <2> QED
    BY <1>4, <2>1, <2>2, <2>3, <2>4, LeaveIInv DEF Visit, Reload, Navigate
<1>5. ASSUME NEW tab \in Tab, Close(tab) PROVE IInv'
  BY <1>5, LeaveIInv DEF Close, IInv, TypeOK
<1>6. ASSUME RunJob \/ Install \/ FailInstall \/ Deploy \/ Connect PROVE IInv'
  BY <1>6, RunJobIInv, InstallIInv, ChangeIInv
<1>7. ASSUME UNCHANGED vars PROVE IInv'
  BY <1>7 DEF IInv, TypeOK, JobsMatch, OnlyLocalhostChecks, VersionsAreDeployed, vars, server
<1> QED
  BY <1>1, <1>2, <1>3, <1>4, <1>5, <1>6, <1>7 DEF Next

LEMMA AlwaysIInv == Spec => []IInv
  BY InitIInv, NextIInv, PTL DEF Spec

-----------------------------------------------------------------------------
\* The state of the browser keeps its types.
THEOREM WorkerTypes == Spec => []TypeOK
  BY AlwaysIInv, PTL DEF IInv

\* A tab waits for a job exactly while one job of its kind is queued for it,
\* in whatever order tabs are refreshed and closed meanwhile.
THEOREM CallbacksMeetTheirPage == Spec => []JobsMatch
  BY AlwaysIInv, PTL DEF IInv

\* Away from localhost nothing ever removes an active worker.
THEOREM PublicWorkerStays == Spec => PublicKeepsItsWorker
<1>1. IInv /\ [Next]_vars => [site # "localhost" /\ active # None => active' # None]_vars
  <2> SUFFICES ASSUME IInv, Next, site # "localhost", active # None
               PROVE  active' # None
    OBVIOUS
  <2>1. ASSUME RunJob PROVE active' # None
    <3>1. jobs \in Seq(JobType) /\ jobs # <<>>
      BY <2>1 DEF IInv, TypeOK, JobType, RunJob
    <3>2. 1 \in DOMAIN jobs /\ Head(jobs) = jobs[1]
      BY <3>1, EmptySeq, LenProperties
    <3> QED
      BY <2>1, <3>2 DEF IInv, OnlyLocalhostChecks, RunJob
  <2>2. ASSUME Install PROVE active' # None
    BY <2>2 DEF Install
  <2>3. ASSUME NEW tab \in Tab,
               Load(tab) \/ Checked(tab) \/ Unregister(tab) \/ Reload(tab)
                    \/ Visit(tab) \/ Close(tab)
        PROVE  active' # None
    BY <2>3 DEF Load, Checked, Unregister, Reload, Visit, Navigate, Close
  <2>4. ASSUME FailInstall \/ Deploy \/ Connect PROVE active' # None
    BY <2>4 DEF FailInstall, Deploy, Connect, Change
  <2> QED
    BY <2>1, <2>2, <2>3, <2>4 DEF Next
<1> QED
  BY <1>1, AlwaysIInv, PTL DEF Spec, PublicKeepsItsWorker
=============================================================================
