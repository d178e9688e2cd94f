------------------------------ MODULE AppExit -------------------------------
(***************************************************************************)
(* HeminApp, the engine as a program of its own: the main thread, which    *)
(* runs the REPL, the shutdown hook, and the Java virtual machine, which   *)
(* starts the hook when a thread calls System.exit or a signal arrives.    *)
(*                                                                         *)
(* HeminApp.engine is a lazy val.  The first thread that uses it boots the *)
(* engine under the monitor of HeminApp; when the boot fails, the          *)
(* initializer calls shutdown, which uses engine: the initializer enters   *)
(* itself once more and boots again, until the stack overflows.            *)
(***************************************************************************)
EXTENDS Naturals

CONSTANTS
    Repl,       \* NodeConfig.repl
    MaxBoots,   \* how many nested boots the stack has room for
    MaxInputs   \* how many commands a user enters

ASSUME AppAssumption ==
    /\ Repl \in BOOLEAN
    /\ MaxBoots \in Nat \ {0}
    /\ MaxInputs \in Nat

Thread == {"main", "hook"}

VARIABLES
    pc,         \* what each thread does
    boots,      \* how many initializers of engine a thread has entered
    engineSet,  \* has the lazy val its value?
    engineUp,   \* HeminEngine.running
    booted,     \* how many engines have come up
    jvm,        \* "running", "exiting" or "halted"
    hooked,     \* has the hook been registered?
    inputs,     \* commands that may still be entered
    unanswered  \* commands whose Future is not complete

vars == <<pc, boots, engineSet, engineUp, booted, jvm, hooked, inputs, unanswered>>

TypeOK ==
    /\ pc \in [Thread -> {"off", "start", "engine", "booting", "repl",
                          "shutdown", "exit", "exiting", "dead"}]
    /\ boots \in [Thread -> 0 .. MaxBoots]
    /\ engineSet \in BOOLEAN
    /\ engineUp \in BOOLEAN
    /\ booted \in Nat
    /\ jvm \in {"running", "exiting", "halted"}
    /\ hooked \in BOOLEAN
    /\ inputs \in 0 .. MaxInputs
    /\ unanswered \in 0 .. MaxInputs

Init ==
    /\ pc = [t \in Thread |-> IF t = "main" THEN "start" ELSE "off"]
    /\ boots = [t \in Thread |-> 0]
    /\ engineSet = FALSE
    /\ engineUp = FALSE
    /\ booted = 0
    /\ jvm = "running"
    /\ hooked = FALSE
    /\ inputs = MaxInputs
    /\ unanswered = 0

Go(t, to) == pc' = [pc EXCEPT ![t] = to]

Alive == jvm # "halted"

-----------------------------------------------------------------------------
(***************************************************************************)
(* The virtual machine                                                     *)
(***************************************************************************)
\* The first request to exit starts the hook, which needs to be registered.
BeginExit(at) ==
    /\ jvm' = "exiting"
    /\ pc' = IF hooked THEN [at EXCEPT !["hook"] = "engine"] ELSE at

\* System.exit on thread t.  Once the exit has begun it blocks for good.
Exit(t) ==
    /\ Alive
    /\ pc[t] = "exit"
    /\ IF jvm = "running"
       THEN BeginExit([pc EXCEPT ![t] = "exiting"])
       ELSE Go(t, "exiting") /\ UNCHANGED jvm
    /\ UNCHANGED <<boots, engineSet, engineUp, booted, hooked, inputs, unanswered>>

Signal ==
    /\ jvm = "running"
    /\ BeginExit(pc)
    /\ UNCHANGED <<boots, engineSet, engineUp, booted, hooked, inputs, unanswered>>

\* The machine halts when its hooks have ended.
Halt ==
    /\ jvm = "exiting"
    /\ pc["hook"] \in {"off", "dead"}
    /\ jvm' = "halted"
    /\ UNCHANGED <<pc, boots, engineSet, engineUp, booted, hooked, inputs, unanswered>>

-----------------------------------------------------------------------------
(***************************************************************************)
(* HeminApp                                                                *)
(***************************************************************************)
\* sys.addShutdownHook; the machine refuses a hook when it is exiting.
Register ==
    /\ Alive
    /\ pc["main"] = "start"
    /\ hooked' = (jvm = "running")
    /\ Go("main", IF jvm = "running" THEN "engine" ELSE "dead")
    /\ UNCHANGED <<boots, engineSet, engineUp, booted, jvm, inputs, unanswered>>

\* Mutant: the initializer's error handler forgets the engine.
ExitAfterNestedBoot(t) ==
    IF t = "main" /\ boots[t] <= 1 THEN (IF Repl THEN "repl" ELSE "dead")
    ELSE IF t = "main" THEN "exit" ELSE "shutdown"

\* Where thread t goes with the value of engine: the main thread that has
\* entered no second initializer to its REPL, all others to their shutdown.
AfterEngine(t) ==
    IF t = "main" /\ boots[t] <= 1 THEN (IF Repl THEN "repl" ELSE "dead")
    ELSE "shutdown"

\* Mutant: the hook leaves the boot to the main thread.
UseEngineOfMain(t) ==
    /\ Alive
    /\ pc[t] = "engine"
    /\ \/ engineSet /\ Go(t, AfterEngine(t)) /\ UNCHANGED boots
       \/ /\ ~engineSet
          /\ t = "main"
          /\ Go(t, "booting")
          /\ boots' = [boots EXCEPT ![t] = 1]
    /\ UNCHANGED <<engineSet, engineUp, booted, jvm, hooked, inputs, unanswered>>

\* Mutant: engine is a val that is not guarded by a monitor.
UseEngineUnguarded(t) ==
    /\ Alive
    /\ pc[t] = "engine"
    /\ IF engineSet
       THEN Go(t, AfterEngine(t)) /\ UNCHANGED boots
       ELSE Go(t, "booting") /\ boots' = [boots EXCEPT ![t] = 1]
    /\ UNCHANGED <<engineSet, engineUp, booted, jvm, hooked, inputs, unanswered>>

\* HeminApp.engine: it has its value, or nobody else holds the monitor.
UseEngine(t) ==
    /\ Alive
    /\ pc[t] = "engine"
    /\ \/ /\ engineSet
          /\ Go(t, AfterEngine(t))
          /\ UNCHANGED boots
       \/ /\ ~engineSet
          /\ \A u \in Thread : pc[u] # "booting"
          /\ Go(t, "booting")
          /\ boots' = [boots EXCEPT ![t] = 1]
    /\ UNCHANGED <<engineSet, engineUp, booted, jvm, hooked, inputs, unanswered>>

BootSucceeds(t) ==
    /\ Alive
    /\ pc[t] = "booting"
    /\ engineSet' = TRUE
    /\ engineUp' = TRUE
    /\ booted' = booted + 1
    /\ Go(t, AfterEngine(t))
    /\ UNCHANGED <<boots, jvm, hooked, inputs, unanswered>>

\* Mutant: the depth of the nesting is off by one.
BootFailsOnceMore(t) ==
    /\ Alive
    /\ pc[t] = "booting"
    /\ IF boots[t] <= MaxBoots
       THEN boots' = [boots EXCEPT ![t] = @ + 1] /\ UNCHANGED pc
       ELSE Go(t, "dead") /\ UNCHANGED boots
    /\ UNCHANGED <<engineSet, engineUp, booted, jvm, hooked, inputs, unanswered>>

\* The error handler of the initializer uses engine.
BootFails(t) ==
    /\ Alive
    /\ pc[t] = "booting"
    /\ IF boots[t] < MaxBoots
       THEN boots' = [boots EXCEPT ![t] = @ + 1] /\ UNCHANGED pc
       ELSE Go(t, "dead") /\ UNCHANGED boots
    /\ UNCHANGED <<engineSet, engineUp, booted, jvm, hooked, inputs, unanswered>>

\* HeminApp.shutdown, after Option(engine): the engine's shutdown, which
\* fails if the engine is not running, and then System.exit either way.
ShutdownEngine(t) ==
    /\ Alive
    /\ pc[t] = "shutdown"
    /\ engineUp' = FALSE
    /\ Go(t, "exit")
    /\ UNCHANGED <<boots, engineSet, booted, jvm, hooked, inputs, unanswered>>

\* The await of the ActorSystem's end times out, outside of any Try: the
\* thread dies of the exception, and never calls System.exit.
ShutdownTimesOut(t) ==
    /\ Alive
    /\ pc[t] = "shutdown"
    /\ engineUp
    /\ engineUp' = FALSE
    /\ Go(t, "dead")
    /\ UNCHANGED <<boots, engineSet, booted, jvm, hooked, inputs, unanswered>>

\* repl: a command goes to the engine, which refuses it if it is not running.
Command ==
    /\ Alive
    /\ pc["main"] = "repl"
    /\ inputs > 0
    /\ inputs' = inputs - 1
    /\ unanswered' = IF engineUp THEN unanswered + 1 ELSE unanswered
    /\ UNCHANGED <<pc, boots, engineSet, engineUp, booted, jvm, hooked>>

\* The Future completes, with an answer or because the ask timed out.
Answer ==
    /\ Alive
    /\ unanswered > 0
    /\ unanswered' = unanswered - 1
    /\ UNCHANGED <<pc, boots, engineSet, engineUp, booted, jvm, hooked, inputs>>

\* repl: "q", "quit" or "exit"
Quit ==
    /\ Alive
    /\ pc["main"] = "repl"
    /\ Go("main", "shutdown")
    /\ UNCHANGED <<boots, engineSet, engineUp, booted, jvm, hooked, inputs, unanswered>>

-----------------------------------------------------------------------------
Run(t) ==
    \/ UseEngine(t)
    \/ BootSucceeds(t)
    \/ BootFails(t)
    \/ ShutdownEngine(t)
    \/ ShutdownTimesOut(t)
    \/ Exit(t)

Next ==
    \/ \E t \in Thread : Run(t)
    \/ Register
    \/ Command
    \/ Answer
    \/ Quit
    \/ Signal
    \/ Halt

Spec == Init /\ [][Next]_vars

\* Threads run, and the machine does what it has been asked for; nobody needs
\* to enter anything or to send a signal.
FairSpec ==
    /\ Spec
    /\ \A t \in Thread : WF_vars(Run(t))
    /\ WF_vars(Register)
    /\ WF_vars(Halt)

-----------------------------------------------------------------------------
\* Two threads may want the engine first (HeminApp.engine is lazy), and yet
\* there is one engine: the one that shutdown shuts down.
OneEngine == booted <= 1

\* No thread asks for the exit while the engine runs (HeminApp.shutdown).
ExitsWithoutEngine ==
    \A t \in Thread : pc[t] \in {"exit", "exiting"} => ~engineUp

\* A signal shuts the engine down (HeminApp, sys.addShutdownHook), also when
\* it comes before the engine is up.
SignalShutsDown == jvm = "exiting" ~> (jvm = "halted" \/ (engineSet /\ ~engineUp))

\* "exit status code of the program upon termination" (HeminApp): the program
\* that has called System.exit terminates.
ExitTerminates == \A t \in Thread : pc[t] = "exiting" ~> jvm = "halted"
=============================================================================
