-------------------------- MODULE AppExitTheorems ---------------------------
(***************************************************************************)
(* HeminApp has one engine, and no thread asks for the exit of the virtual *)
(* machine while it runs: for every depth of nested boots, with or without *)
(* a REPL, whenever the signal comes.                                      *)
(***************************************************************************)
EXTENDS AppExit, TLAPS

\* What the monitor of HeminApp guards: one thread at most is in an
\* initializer of engine, none once engine has its value, and whoever has got
\* past engine has found its value.
Monitor ==
    /\ \A t, u \in Thread : pc[t] = "booting" /\ pc[u] = "booting" => t = u
    /\ \A t \in Thread : pc[t] = "booting" => ~engineSet
    /\ \A t \in Thread :
        pc[t] \in {"repl", "shutdown", "exit", "exiting"} => engineSet

\* Every engine that came up is the value of the lazy val, and every command
\* that waits for its answer was entered.
Counted ==
    /\ booted = IF engineSet THEN 1 ELSE 0
    /\ inputs + unanswered <= MaxInputs

IInv == TypeOK /\ Monitor /\ Counted /\ (engineUp => engineSet) /\ ExitsWithoutEngine

\* The inductive invariant holds at the start.
LEMMA InitIInv == Init => IInv
<1> SUFFICES ASSUME Init PROVE IInv
  OBVIOUS
<1>1. TypeOK
  <2>1. pc \in [Thread -> {"off", "start", "engine", "booting", "repl",
                           "shutdown", "exit", "exiting", "dead"}]
    BY DEF Init
  <2>2. boots \in [Thread -> 0 .. MaxBoots] /\ booted \in Nat
    BY AppAssumption DEF AppAssumption, Init
  <2>3. inputs \in 0 .. MaxInputs /\ unanswered \in 0 .. MaxInputs
    BY AppAssumption DEF AppAssumption, Init
  <2>4. /\ engineSet \in BOOLEAN /\ engineUp \in BOOLEAN /\ hooked \in BOOLEAN
        /\ jvm \in {"running", "exiting", "halted"}
    BY DEF Init
  <2> QED
    BY <2>1, <2>2, <2>3, <2>4 DEF TypeOK
<1>2. Monitor /\ Counted /\ (engineUp => engineSet) /\ ExitsWithoutEngine
  BY AppAssumption DEF AppAssumption, Init, Monitor, Counted, ExitsWithoutEngine, Thread
<1> QED
  BY <1>1, <1>2 DEF IInv

\* Every step of the program preserves the inductive invariant.
LEMMA NextIInv == IInv /\ [Next]_vars => IInv'
<1> SUFFICES ASSUME IInv, [Next]_vars PROVE IInv'
  OBVIOUS
<1> USE AppAssumption DEF AppAssumption, IInv, TypeOK, Monitor, Counted, ExitsWithoutEngine, Thread, Go, Alive
<1>1. ASSUME NEW t \in Thread, UseEngine(t) PROVE IInv'
  BY <1>1 DEF UseEngine, AfterEngine
<1>2. ASSUME NEW t \in Thread, BootSucceeds(t) PROVE IInv'
  BY <1>2 DEF BootSucceeds, AfterEngine
<1>3. ASSUME NEW t \in Thread, BootFails(t) PROVE IInv'
  BY <1>3 DEF BootFails
<1>4. ASSUME NEW t \in Thread, ShutdownEngine(t) PROVE IInv'
  BY <1>4 DEF ShutdownEngine
<1>5. ASSUME NEW t \in Thread, ShutdownTimesOut(t) PROVE IInv'
  BY <1>5 DEF ShutdownTimesOut
<1>6. ASSUME NEW t \in Thread, Exit(t) PROVE IInv'
  BY <1>6 DEF Exit, BeginExit
<1>7. CASE Register
  BY <1>7 DEF Register
<1>8. CASE Command
  BY <1>8 DEF Command
<1>9. CASE Answer
  BY <1>9 DEF Answer
<1>10. CASE Quit
  BY <1>10 DEF Quit
<1>11. CASE Signal
  BY <1>11 DEF Signal, BeginExit
<1>12. CASE Halt
  BY <1>12 DEF Halt
<1>13. CASE UNCHANGED vars
  BY <1>13 DEF vars
<1> QED
  BY <1>1, <1>2, <1>3, <1>4, <1>5, <1>6, <1>7, <1>8, <1>9, <1>10, <1>11,
     <1>12, <1>13 DEF Next, Run

\* The inductive invariant holds in every state of every behaviour.
THEOREM Inductive == Spec => []IInv
<1>1. Init => IInv
  BY InitIInv
<1>2. IInv /\ [Next]_vars => IInv'
  BY NextIInv
<1> QED
  BY <1>1, <1>2, PTL DEF Spec

\* The types of the state are correct.
THEOREM TypeCorrect == Spec => []TypeOK
<1>1. IInv => TypeOK
  BY DEF IInv
<1> QED
  BY <1>1, Inductive, PTL

\* HeminApp.engine: however many threads want the engine first, and however
\* many boots have failed, one engine at most comes up.
THEOREM BootsOneEngine == Spec => []OneEngine
<1>1. IInv => OneEngine
  BY DEF IInv, Counted, OneEngine
<1> QED
  BY <1>1, Inductive, PTL

\* HeminApp.shutdown: a thread that is in System.exit has left no engine
\* running, its own or another thread's.
THEOREM ExitComesAfterShutdown == Spec => []ExitsWithoutEngine
<1>1. IInv => ExitsWithoutEngine
  BY DEF IInv
<1> QED
  BY <1>1, Inductive, PTL
=============================================================================
