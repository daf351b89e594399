------------------------- MODULE IntegrationProofs -------------------------
(***************************************************************************)
(* Proofs about Integration, for every set of tests, however many polls    *)
(* the readiness loop is given, and, but for the gate, whatever an earlier *)
(* run left behind.  The last part is about the staged files, which are    *)
(* followed line by line.                                                  *)
(***************************************************************************)
EXTENDS Integration, FiniteSetTheorems, TLAPS

\* Facts about the sequences that test files are.
F == INSTANCE Flattening

ConfigOK ==
  /\ transport \in {"subprocess", "http", "unix"}
  /\ prelaunched \in BOOLEAN
  /\ executable \in BOOLEAN

Starting == pc \in {"launch", "alive", "read"}
Ending == pc \in {"trap", "wait", "done"}

AllPassed == \A t \in Tests : verdict[t] = "passed"

\* Every test came to its end without failing, and not all of them by a skip.
Ran ==
  /\ \A t \in Tests : verdict[t] \in {"passed", "skipped"}
  /\ \E t \in Tests : verdict[t] = "passed"

\* While the script waits for the server it has polls left.
PollsLeft == Starting => polls < MaxPolls

\* The script knows no endpoint before the suite, and knows one in it.
Located ==
  /\ Starting => location = "none"
  /\ pc \in {"warm", "run", "judge"} => location # "none"

\* What the exit status of the runner tells of the verdicts.
RunnerTells ==
  pc = "judge" =>
    /\ runner = 139 => \E t \in Tests : verdict[t] = "pending"
    /\ runner = 0 => \A t \in Tests : verdict[t] \notin {"pending", "failed"}
    /\ runner = 1 => \E t \in Tests : verdict[t] = "failed"

\* What the exit status of the script tells, from the trap on.
StatusTells ==
  Ending =>
    /\ rc = 0 => location # "none" /\ Ran
    /\ location # "none" /\ AllPassed => rc = 0

\* Before the script has started its server there is none; one that has not come
\* to listen has opened no socket, and announced nothing but a path.
ServerOrder ==
  /\ pc = "launch" => server = "none"
  /\ server \in {"none", "forked"} => log \in {"absent", "stale"}
  /\ transport = "http" /\ log = "announced" => server \in {"listening", "dead"}
  /\ transport = "unix" /\ server \in {"forked", "started"} => ~socket
  /\ pc \in {"alive", "read"} => server # "none"

\* No log of an earlier run is there.
NoStaleLog == log # "stale" /\ location # "stale"

-----------------------------------------------------------------------------
(* Type correctness.                                                       *)

\* The script starts with variables of their kinds, and with polls left.
LEMMA TypeInit ==
  ASSUME Init
  PROVE  TypeOK /\ ConfigOK /\ PollsLeft
<1>1. prelaunched \in BOOLEAN
  BY Zenon DEF Init
<1>2. log \in {"absent", "stale", "empty", "announced"}
  BY DEF Init
<1>3. ConfigOK
  BY <1>1 DEF Init, ConfigOK
<1>4. TypeOK
  <2>1. 0 \in 0..MaxPolls
    BY IntegrationAssumption
  <2>2. verdict \in [Tests -> {"pending", "passed", "failed", "skipped"}]
    BY DEF Init
  <2>3. /\ channels \in SUBSET {"community", "core"}
        /\ complaint \in BOOLEAN /\ socket \in BOOLEAN /\ sockPath \in BOOLEAN
        /\ killed \in BOOLEAN /\ remote \in BOOLEAN
    BY Zenon DEF Init
  <2> QED
    BY <1>2, <2>1, <2>2, <2>3 DEF Init, TypeOK
<1>5. PollsLeft
  BY IntegrationAssumption DEF Init, PollsLeft
<1> QED
  BY <1>3, <1>4, <1>5

\* A step keeps the kinds; only while it has polls left does the script wait on.
LEMMA TypeStep ==
  ASSUME TypeOK, ConfigOK, PollsLeft, [Next]_vars
  PROVE  (TypeOK /\ ConfigOK /\ PollsLeft)'
<1> DEFINE IH == TypeOK /\ ConfigOK /\ PollsLeft
<1> SUFFICES IH'
  OBVIOUS
<1>1. CASE UseGiven
  BY <1>1 DEF UseGiven, Export, Spawned, config, world, TypeOK, ConfigOK,
       PollsLeft, Starting
<1>2. CASE NotExecutable
  BY <1>2 DEF NotExecutable, Exit, Spawned, config, world, TypeOK, ConfigOK,
       PollsLeft, Starting
<1>3. CASE StartServer
  BY <1>3 DEF StartServer, Spawned, config, TypeOK, ConfigOK, PollsLeft,
       Starting
<1>4. CASE PollAlive
  BY <1>4 DEF PollAlive, config, world, TypeOK, ConfigOK, PollsLeft, Starting
<1>5. CASE PollDead
  BY <1>5 DEF PollDead, Exit, config, world, TypeOK, ConfigOK, PollsLeft,
       Starting
<1>6. CASE PollFound
  BY <1>6 DEF PollFound, Export, Found, config, world, TypeOK, ConfigOK,
       PollsLeft, Starting
<1>7. CASE PollNoLog
  <2>1. /\ pc' = "trap" /\ rc' = 2
        /\ UNCHANGED <<config, polls, location, channels, verdict, runner, world>>
    BY <1>7 DEF PollNoLog, Exit
  <2>2. complaint' \in BOOLEAN
    BY <1>7, Zenon DEF PollNoLog, Exit
  <2> QED
    BY <2>1, <2>2 DEF TypeOK, ConfigOK, PollsLeft, Starting, config, world
<1>8. CASE PollAgain
  <2>1. /\ polls' = polls + 1 /\ UNCHANGED <<config, world>>
        /\ UNCHANGED <<location, channels, verdict, runner>>
        /\ pc = "read"
    BY <1>8 DEF PollAgain, CountPoll
  <2>2. polls < MaxPolls /\ polls' \in 0..MaxPolls
    BY <2>1, IntegrationAssumption DEF TypeOK, PollsLeft, Starting
  <2>3. complaint' \in BOOLEAN
    BY <1>8, Zenon DEF PollAgain, Exit, TypeOK
  <2>4. CASE polls' = MaxPolls
    <3>1. pc' = "trap" /\ rc' = 1
      BY <1>8, <2>4 DEF PollAgain, LastPoll, Exit
    <3> QED
      BY <2>1, <2>2, <2>3, <3>1 DEF TypeOK, ConfigOK, PollsLeft, Starting,
           config, world
  <2>5. CASE polls' # MaxPolls
    <3>1. pc' = "alive" /\ rc' = rc
      BY <1>8, <2>5 DEF PollAgain, LastPoll
    <3>2. polls' < MaxPolls
      BY <2>2, <2>5, IntegrationAssumption
    <3> QED
      BY <2>1, <2>2, <2>3, <3>1, <3>2 DEF TypeOK, ConfigOK, PollsLeft, Starting,
           config, world
  <2> QED
    BY <2>4, <2>5
<1>9. CASE Warm
  BY <1>9 DEF Warm, config, world, TypeOK, ConfigOK, PollsLeft, Starting
<1>10. ASSUME NEW t \in Tests, RunTest(t) PROVE  IH'
  <2>1. PICK v \in Outcomes(t) : verdict' = [verdict EXCEPT ![t] = v]
    BY <1>10 DEF RunTest
  <2>2. v \in {"passed", "failed", "skipped"}
    BY <2>1 DEF Outcomes, OutcomesOf
  <2>3. verdict' \in [Tests -> {"pending", "passed", "failed", "skipped"}]
    BY <2>1, <2>2 DEF TypeOK
  <2> QED
    BY <1>10, <2>3 DEF RunTest, config, world, TypeOK, ConfigOK, PollsLeft, Starting
<1>11. CASE RunnerEnds
  BY <1>11 DEF RunnerEnds, config, world, TypeOK, ConfigOK, PollsLeft, Starting
<1>12. CASE RunnerCrashes
  BY <1>12 DEF RunnerCrashes, config, world, TypeOK, ConfigOK, PollsLeft,
       Starting
<1>13. CASE Judge
  <2>1. /\ pc' = "trap" /\ rc' \in {1, runner}
        /\ UNCHANGED <<config, polls, location, channels, verdict, runner, world>>
    BY <1>13 DEF Judge, Exit
  <2>2. complaint' \in BOOLEAN
    BY <1>13, Zenon DEF Judge, Exit, TypeOK
  <2> QED
    BY <2>1, <2>2 DEF TypeOK, ConfigOK, PollsLeft, Starting, config, world
<1>14. CASE Kill
  BY <1>14 DEF Kill, config, TypeOK, ConfigOK, PollsLeft, Starting
<1>15. CASE Remove
  BY <1>15 DEF Remove, Waited, config, TypeOK, ConfigOK, PollsLeft, Starting
<1>16. CASE ServerExec
  BY <1>16 DEF ServerExec, config, script, TypeOK, ConfigOK, PollsLeft, Starting
<1>17. CASE ServerListen
  BY <1>17 DEF ServerListen, config, script, TypeOK, ConfigOK, PollsLeft,
       Starting
<1>18. CASE ServerAnnounce
  BY <1>18 DEF ServerAnnounce, config, script, TypeOK, ConfigOK, PollsLeft,
       Starting
<1>19. CASE ServerCrash
  BY <1>19 DEF ServerCrash, Alive, config, script, TypeOK, ConfigOK, PollsLeft,
       Starting
<1>20. CASE ServerTerminated
  BY <1>20 DEF ServerTerminated, Alive, config, script, TypeOK, ConfigOK,
       PollsLeft, Starting
<1>21. CASE RemoteChanges
  BY <1>21 DEF RemoteChanges, config, script, TypeOK, ConfigOK, PollsLeft,
       Starting
<1>22. CASE UNCHANGED vars
  BY <1>22 DEF TypeOK, ConfigOK, PollsLeft, Starting, vars, config, script,
       world
<1> QED
  BY <1>1, <1>2, <1>3, <1>4, <1>5, <1>6, <1>7, <1>8, <1>9, <1>10, <1>11, <1>12,
       <1>13, <1>14, <1>15, <1>16, <1>17, <1>18, <1>19, <1>20, <1>21, <1>22 DEF
       Next, Script

\* run-integration.sh:76: every variable keeps to its kind, and the readiness
\* loop to its polls, whatever the server does meanwhile.
THEOREM TypeCorrect == Spec => []TypeOK
<1>1. TypeOK /\ ConfigOK /\ PollsLeft /\ [Next]_vars
        => (TypeOK /\ ConfigOK /\ PollsLeft)'
  BY TypeStep
<1> QED
  BY <1>1, TypeInit, PTL DEF Spec

-----------------------------------------------------------------------------
(* The colour of the job.                                                  *)

\* Before anything ran, no verdict and no status tells anything.
LEMMA VerdictInit ==
  ASSUME Init
  PROVE  Located /\ RunnerTells /\ StatusTells
BY DEF Init, Located, RunnerTells, StatusTells, Starting, Ending

\* A step keeps what the statuses of runner and script tell of the verdicts.
LEMMA VerdictStep ==
  ASSUME TypeOK, Located, RunnerTells, StatusTells, [Next]_vars
  PROVE  (Located /\ RunnerTells /\ StatusTells)'
<1> DEFINE IH == Located /\ RunnerTells /\ StatusTells
<1> SUFFICES IH'
  OBVIOUS
<1>1. CASE UseGiven
  BY <1>1 DEF UseGiven, Export, Spawned, config, world, Located, RunnerTells,
       StatusTells, AllPassed, Ran, Starting, Ending
<1>2. CASE NotExecutable
  BY <1>2 DEF NotExecutable, Exit, Spawned, config, world, Located, RunnerTells,
       StatusTells, AllPassed, Ran, Starting, Ending
<1>3. CASE StartServer
  BY <1>3 DEF StartServer, Spawned, config, Located, RunnerTells, StatusTells,
       AllPassed, Ran, Starting, Ending
<1>4. CASE PollAlive
  BY <1>4 DEF PollAlive, config, world, Located, RunnerTells, StatusTells,
       AllPassed, Ran, Starting, Ending
<1>5. CASE PollDead
  BY <1>5 DEF PollDead, Exit, config, world, Located, RunnerTells, StatusTells,
       AllPassed, Ran, Starting, Ending
<1>6. CASE PollFound
  BY <1>6 DEF PollFound, Export, Found, config, world, Located, RunnerTells,
       StatusTells, AllPassed, Ran, Starting, Ending
<1>7. CASE PollNoLog
  BY <1>7 DEF PollNoLog, Exit, config, world, Located, RunnerTells, StatusTells,
       AllPassed, Ran, Starting, Ending
<1>8. CASE PollAgain
  BY <1>8 DEF PollAgain, Exit, CountPoll, LastPoll, Found, config, world,
       Located, RunnerTells, StatusTells, AllPassed, Ran, Starting, Ending
<1>9. CASE Warm
  BY <1>9 DEF Warm, config, world, Located, RunnerTells, StatusTells, AllPassed, Ran,
       Starting, Ending
<1>10. ASSUME NEW t \in Tests, RunTest(t) PROVE  IH'
  BY <1>10 DEF RunTest, config, world, Located, RunnerTells,
       StatusTells, AllPassed, Ran, Starting, Ending
<1>11. CASE RunnerEnds
  BY <1>11 DEF RunnerEnds, config, world, Located, RunnerTells, StatusTells,
       AllPassed, Ran, Starting, Ending
<1>12. CASE RunnerCrashes
  BY <1>12 DEF RunnerCrashes, config, world, Located, RunnerTells, StatusTells,
       AllPassed, Ran, Starting, Ending
<1>13. CASE Judge
  <2>1. /\ pc = "judge" /\ pc' = "trap" /\ location # "none"
        /\ UNCHANGED <<location, verdict, runner>>
    BY <1>13 DEF Judge, Exit, Located
  <2>2. PICK summary \in Summaries : rc' = IF Caught(summary) THEN 1 ELSE runner
    BY <1>13 DEF Judge, Exit
  <2>3. \A t \in Tests : verdict[t] \in {"pending", "passed", "failed", "skipped"}
    BY DEF TypeOK
  <2>4. ASSUME rc' = 0 PROVE Ran
    <3>1. runner = 0 /\ ~Caught(summary)
      BY <2>2, <2>4
    <3>2. \A t \in Tests : verdict[t] \in {"passed", "skipped"}
      BY <2>1, <2>3, <3>1 DEF RunnerTells
    <3>3. {t \in Tests : verdict[t] = "skipped"} # Tests
      <4>1. CASE {t \in Tests : verdict[t] = "skipped"} = {}
        BY <4>1, SelectionAssumption
      <4>2. CASE {t \in Tests : verdict[t] = "skipped"} = Tests
        <5>1. Tests # {} /\ runner # 139
          BY <3>1, SelectionAssumption
        <5>2. Summaries = {"All tests were skipped"}
          BY <4>2, <5>1, Zenon DEF Summaries
        <5> QED
          BY <2>2, <3>1, <5>2 DEF Caught
      <4> QED
        BY <4>1, <4>2
    <3> QED
      BY <3>2, <3>3 DEF Ran
  <2>5. ASSUME AllPassed PROVE rc' = 0
    <3>1. \A t \in Tests : verdict[t] # "pending" /\ verdict[t] # "failed" /\ verdict[t] # "skipped"
      BY <2>5 DEF AllPassed
    <3>2. runner = 0
      <4>1. runner \in {0, 1, 139}
        BY DEF TypeOK
      <4> QED
        BY <2>1, <3>1, <4>1 DEF RunnerTells
    <3>3. {t \in Tests : verdict[t] = "skipped"} = {}
      BY <3>1
    <3>4. Tests # {} /\ runner # 139
      BY <3>2, SelectionAssumption
    <3>5. Summaries = {"no skip"}
      BY <3>3, <3>4, Zenon DEF Summaries
    <3> QED
      BY <2>2, <3>2, <3>5 DEF Caught
  <2>6. Ran' = Ran /\ AllPassed' = AllPassed
    BY <2>1 DEF Ran, AllPassed
  <2> HIDE DEF IH
  <2>7. StatusTells'
    BY <2>1, <2>4, <2>5, <2>6 DEF StatusTells
  <2>8. Located' /\ RunnerTells'
    BY <2>1 DEF Located, RunnerTells, Starting
  <2> QED
    BY <2>7, <2>8 DEF IH
<1>14. CASE Kill
  BY <1>14 DEF Kill, config, Located, RunnerTells, StatusTells, AllPassed, Ran,
       Starting, Ending
<1>15. CASE Remove
  BY <1>15 DEF Remove, Waited, config, Located, RunnerTells, StatusTells,
       AllPassed, Ran, Starting, Ending
<1>16. CASE ServerExec
  BY <1>16 DEF ServerExec, config, script, Located, RunnerTells, StatusTells,
       AllPassed, Ran, Starting, Ending
<1>17. CASE ServerListen
  BY <1>17 DEF ServerListen, config, script, Located, RunnerTells, StatusTells,
       AllPassed, Ran, Starting, Ending
<1>18. CASE ServerAnnounce
  BY <1>18 DEF ServerAnnounce, config, script, Located, RunnerTells,
       StatusTells, AllPassed, Ran, Starting, Ending
<1>19. CASE ServerCrash
  BY <1>19 DEF ServerCrash, Alive, config, script, Located, RunnerTells,
       StatusTells, AllPassed, Ran, Starting, Ending
<1>20. CASE ServerTerminated
  BY <1>20 DEF ServerTerminated, Alive, config, script, Located, RunnerTells,
       StatusTells, AllPassed, Ran, Starting, Ending
<1>21. CASE RemoteChanges
  BY <1>21 DEF RemoteChanges, config, script, Located, RunnerTells, StatusTells,
       AllPassed, Ran, Starting, Ending
<1>22. CASE UNCHANGED vars
  BY <1>22 DEF Located, RunnerTells, StatusTells, AllPassed, Ran, Starting, Ending,
       vars, config, script, world
<1> QED
  BY <1>1, <1>2, <1>3, <1>4, <1>5, <1>6, <1>7, <1>8, <1>9, <1>10, <1>11, <1>12,
       <1>13, <1>14, <1>15, <1>16, <1>17, <1>18, <1>19, <1>20, <1>21, <1>22 DEF
       Next, Script

-----------------------------------------------------------------------------
(* The readiness gate.                                                     *)

\* In a fresh stage directory there is no log to misread.
LEMMA GateInit ==
  ASSUME StageReused = FALSE, Init
  PROVE  Located /\ ServerOrder /\ NoStaleLog /\ GateHolds
BY DEF Init, Located, ServerOrder, NoStaleLog, GateHolds, Starting

\* A step keeps the order in which the server listens and announces, and with it
\* the gate: the poll that finds an endpoint finds that of a server that listens.
LEMMA GateStep ==
  ASSUME TypeOK, ConfigOK, Located, ServerOrder, NoStaleLog, GateHolds, [Next]_vars
  PROVE  (Located /\ ServerOrder /\ NoStaleLog /\ GateHolds)'
<1> DEFINE IH == Located /\ ServerOrder /\ NoStaleLog /\ GateHolds
<1> SUFFICES IH'
  OBVIOUS
<1>1. CASE UseGiven
  BY <1>1 DEF UseGiven, Export, Spawned, config, world, Located, ServerOrder,
       NoStaleLog, GateHolds, Starting
<1>2. CASE NotExecutable
  BY <1>2 DEF NotExecutable, Exit, Spawned, config, world, Located, ServerOrder,
       NoStaleLog, GateHolds, Starting
<1>3. CASE StartServer
  BY <1>3 DEF StartServer, Spawned, config, Located, ServerOrder, NoStaleLog,
       GateHolds, Starting
<1>4. CASE PollAlive
  BY <1>4 DEF PollAlive, config, world, Located, ServerOrder, NoStaleLog,
       GateHolds, Starting
<1>5. CASE PollDead
  BY <1>5 DEF PollDead, Exit, config, world, Located, ServerOrder, NoStaleLog,
       GateHolds, Starting
<1>6. CASE PollFound
  <2>1. pc = "read" /\ log = "announced" /\ server \in {"listening", "dead"}
    <3>1. pc = "read" /\ Found /\ log # "stale"
      BY <1>6 DEF PollFound, NoStaleLog
    <3>2. log \in {"stale", "announced"}
      BY <3>1, Zenon DEF Found
    <3>3. transport = "http" \/ (transport = "unix" /\ socket)
      BY <3>1, Zenon DEF Found
    <3>4. server # "none" /\ server \in {"none", "forked", "started", "listening", "dead"}
      BY <3>1 DEF ServerOrder, TypeOK
    <3> QED
      BY <3>1, <3>2, <3>3, <3>4 DEF ServerOrder
  <2>2. /\ location' = "own" /\ pc' = "warm"
        /\ UNCHANGED <<config, world>>
    BY <1>6, <2>1 DEF PollFound, Export
  <2> QED
    BY <2>1, <2>2 DEF Located, ServerOrder, NoStaleLog, GateHolds, Starting,
         config, world
<1>7. CASE PollNoLog
  BY <1>7 DEF PollNoLog, Exit, config, world, Located, ServerOrder, NoStaleLog,
       GateHolds, Starting
<1>8. CASE PollAgain
  BY <1>8 DEF PollAgain, Exit, CountPoll, LastPoll, Found, config, world,
       Located, ServerOrder, NoStaleLog, GateHolds, Starting
<1>9. CASE Warm
  BY <1>9 DEF Warm, config, world, Located, ServerOrder, NoStaleLog, GateHolds,
       Starting
<1>10. ASSUME NEW t \in Tests, RunTest(t) PROVE  IH'
  BY <1>10 DEF RunTest, config, world, Located, ServerOrder,
       NoStaleLog, GateHolds, Starting
<1>11. CASE RunnerEnds
  BY <1>11 DEF RunnerEnds, config, world, Located, ServerOrder, NoStaleLog,
       GateHolds, Starting
<1>12. CASE RunnerCrashes
  BY <1>12 DEF RunnerCrashes, config, world, Located, ServerOrder, NoStaleLog,
       GateHolds, Starting
<1>13. CASE Judge
  BY <1>13 DEF Judge, Exit, config, world, Located, ServerOrder,
       NoStaleLog, GateHolds, Starting
<1>14. CASE Kill
  BY <1>14 DEF Kill, config, Located, ServerOrder, NoStaleLog, GateHolds,
       Starting
<1>15. CASE Remove
  BY <1>15 DEF Remove, Waited, config, Located, ServerOrder, NoStaleLog,
       GateHolds, Starting
<1>16. CASE ServerExec
  BY <1>16 DEF ServerExec, config, script, Located, ServerOrder, NoStaleLog,
       GateHolds, Starting
<1>17. CASE ServerListen
  BY <1>17 DEF ServerListen, config, script, Located, ServerOrder, NoStaleLog,
       GateHolds, Starting
<1>18. CASE ServerAnnounce
  BY <1>18 DEF ServerAnnounce, config, script, Located, ServerOrder, NoStaleLog,
       GateHolds, Starting
<1>19. CASE ServerCrash
  BY <1>19 DEF ServerCrash, Alive, config, script, Located, ServerOrder,
       NoStaleLog, GateHolds, Starting
<1>20. CASE ServerTerminated
  BY <1>20 DEF ServerTerminated, Alive, config, script, Located, ServerOrder,
       NoStaleLog, GateHolds, Starting
<1>21. CASE RemoteChanges
  BY <1>21 DEF RemoteChanges, config, script, Located, ServerOrder, NoStaleLog,
       GateHolds, Starting
<1>22. CASE UNCHANGED vars
  BY <1>22 DEF Located, ServerOrder, NoStaleLog, GateHolds, Starting, vars,
       config, script, world
<1> QED
  BY <1>1, <1>2, <1>3, <1>4, <1>5, <1>6, <1>7, <1>8, <1>9, <1>10, <1>11, <1>12,
       <1>13, <1>14, <1>15, <1>16, <1>17, <1>18, <1>19, <1>20, <1>21, <1>22 DEF
       Next, Script

\* run-integration.sh:61-62: in a stage directory of its own the suite is pointed
\* at a server of the script's only after that server listens and has said so,
\* however long it takes and however many polls there are.
THEOREM Gate ==
  ASSUME StageReused = FALSE
  PROVE  Spec => []GateHolds
<1>1. Init => TypeOK /\ ConfigOK /\ PollsLeft
  BY TypeInit
<1>2. Init => Located /\ ServerOrder /\ NoStaleLog /\ GateHolds
  BY GateInit
<1>3. TypeOK /\ ConfigOK /\ PollsLeft /\ [Next]_vars
        => (TypeOK /\ ConfigOK /\ PollsLeft)'
  BY TypeStep
<1>4. TypeOK /\ ConfigOK /\ Located /\ ServerOrder /\ NoStaleLog /\ GateHolds
      /\ [Next]_vars
        => (Located /\ ServerOrder /\ NoStaleLog /\ GateHolds)'
  BY GateStep
<1> QED
  BY <1>1, <1>2, <1>3, <1>4, PTL DEF Spec

-----------------------------------------------------------------------------
(* What the script leaves behind.                                          *)

\* A step keeps the end clean: the script removes the socket after the server has
\* gone, and no step brings back either.
LEMMA CleanStep ==
  ASSUME TypeOK, NothingLeft, [Next]_vars
  PROVE  NothingLeft'
<1> DEFINE IH == NothingLeft
<1> SUFFICES IH'
  OBVIOUS
<1>1. CASE UseGiven
  BY <1>1 DEF UseGiven, Export, Spawned, config, world, NothingLeft, Alive
<1>2. CASE NotExecutable
  BY <1>2 DEF NotExecutable, Exit, Spawned, config, world, NothingLeft, Alive
<1>3. CASE StartServer
  BY <1>3 DEF StartServer, Spawned, config, NothingLeft, Alive
<1>4. CASE PollAlive
  BY <1>4 DEF PollAlive, config, world, NothingLeft, Alive
<1>5. CASE PollDead
  BY <1>5 DEF PollDead, Exit, config, world, NothingLeft, Alive
<1>6. CASE PollFound
  BY <1>6 DEF PollFound, Export, Found, config, world, NothingLeft, Alive
<1>7. CASE PollNoLog
  BY <1>7 DEF PollNoLog, Exit, config, world, NothingLeft, Alive
<1>8. CASE PollAgain
  BY <1>8 DEF PollAgain, Exit, CountPoll, LastPoll, Found, config, world,
       NothingLeft, Alive
<1>9. CASE Warm
  BY <1>9 DEF Warm, config, world, NothingLeft, Alive
<1>10. ASSUME NEW t \in Tests, RunTest(t) PROVE  IH'
  BY <1>10 DEF RunTest, config, world, NothingLeft, Alive
<1>11. CASE RunnerEnds
  BY <1>11 DEF RunnerEnds, config, world, NothingLeft, Alive
<1>12. CASE RunnerCrashes
  BY <1>12 DEF RunnerCrashes, config, world, NothingLeft, Alive
<1>13. CASE Judge
  BY <1>13 DEF Judge, Exit, config, world, NothingLeft, Alive
<1>14. CASE Kill
  BY <1>14 DEF Kill, config, NothingLeft, Alive
<1>15. CASE Remove
  BY <1>15 DEF Remove, Waited, config, NothingLeft, Alive
<1>16. CASE ServerExec
  BY <1>16 DEF ServerExec, config, script, NothingLeft, Alive
<1>17. CASE ServerListen
  BY <1>17 DEF ServerListen, config, script, NothingLeft, Alive
<1>18. CASE ServerAnnounce
  BY <1>18 DEF ServerAnnounce, config, script, NothingLeft, Alive
<1>19. CASE ServerCrash
  BY <1>19 DEF ServerCrash, Alive, config, script, NothingLeft, Alive
<1>20. CASE ServerTerminated
  BY <1>20 DEF ServerTerminated, Alive, config, script, NothingLeft, Alive
<1>21. CASE RemoteChanges
  BY <1>21 DEF RemoteChanges, config, script, NothingLeft, Alive
<1>22. CASE UNCHANGED vars
  BY <1>22 DEF NothingLeft, Alive, vars, config, script, world
<1> QED
  BY <1>1, <1>2, <1>3, <1>4, <1>5, <1>6, <1>7, <1>8, <1>9, <1>10, <1>11, <1>12,
       <1>13, <1>14, <1>15, <1>16, <1>17, <1>18, <1>19, <1>20, <1>21, <1>22 DEF
       Next, Script

\* run-integration.sh:49-58: however the script ends, its server has ended before
\* it, and has left no socket.
THEOREM Clean == Spec => []NothingLeft
<1>1. Init => NothingLeft
  BY DEF Init, NothingLeft
<1>2. TypeOK /\ NothingLeft /\ [Next]_vars => NothingLeft'
  BY CleanStep
<1> QED
  BY <1>1, <1>2, TypeCorrect, PTL DEF Spec

-----------------------------------------------------------------------------
(* What the script says when it gives up.                                  *)

\* The script that ends without an endpoint has said why, but for the http leg,
\* where reading a log that is not there ends it with status 2.
GaveUp ==
  /\ StageReused => log # "absent"
  /\ Ending /\ location = "none" =>
       complaint \/ (transport = "http" /\ rc = 2 /\ ~StageReused)

\* Every other way to give up says so, and no step takes a word back.
LEMMA GaveUpStep ==
  ASSUME Located, GaveUp, [Next]_vars
  PROVE  GaveUp'
<1> USE DEF GaveUp, Ending
<1>1. CASE UseGiven \/ PollFound
  BY <1>1 DEF UseGiven, PollFound, Export, config, world
<1>2. CASE NotExecutable \/ PollDead
  BY <1>2 DEF NotExecutable, PollDead, Exit, config, world
<1>3. CASE StartServer
  BY <1>3 DEF StartServer, config
<1>4. CASE PollAlive
  BY <1>4 DEF PollAlive, config, world
<1>5. CASE PollNoLog
  BY <1>5 DEF PollNoLog, Exit, config, world
<1>6. CASE PollAgain
  <2>1. pc' = "alive" \/ (pc' = "trap" /\ complaint' = TRUE)
    BY <1>6 DEF PollAgain, Exit
  <2>2. UNCHANGED log
    BY <1>6 DEF PollAgain, world
  <2> QED
    BY <2>1, <2>2
<1>7. CASE Warm
  BY <1>7 DEF Warm, config, world
<1>8. ASSUME NEW t \in Tests, RunTest(t) PROVE GaveUp'
  BY <1>8 DEF RunTest, config, world
<1>9. CASE RunnerEnds \/ RunnerCrashes
  BY <1>9 DEF RunnerEnds, RunnerCrashes, config, world
<1>10. CASE Judge
  BY <1>10 DEF Judge, Located, world
<1>11. CASE Kill \/ Remove
  BY <1>11 DEF Kill, Remove, config
<1>12. CASE ServerExec
  BY <1>12 DEF ServerExec, config, script
<1>13. CASE ServerListen \/ ServerCrash \/ ServerTerminated
  BY <1>13 DEF ServerListen, ServerCrash, ServerTerminated, config, script
<1>14. CASE ServerAnnounce
  BY <1>14 DEF ServerAnnounce, config, script
<1>15. CASE RemoteChanges \/ UNCHANGED vars
  BY <1>15 DEF RemoteChanges, vars, config, script, world
<1> QED
  BY <1>1, <1>2, <1>3, <1>4, <1>5, <1>6, <1>7, <1>8, <1>9, <1>10, <1>11, <1>12,
     <1>13, <1>14, <1>15 DEF Next, Script

\* run-integration.sh:77, 84: every failure to bring a server up is explained, but
\* for one: the http leg, in a stage directory of its own, ending with status 2.
\* So the poll that finds no log is all there is to that fault, and the unix leg
\* does not have it.
THEOREM Explained ==
  Spec => [](FailuresExplained \/ (transport = "http" /\ rc = 2 /\ ~StageReused))
<1>1. Init => GaveUp
  BY DEF Init, GaveUp, Ending
<1>2. Located /\ GaveUp /\ [Next]_vars => GaveUp'
  BY GaveUpStep
<1>3. GaveUp => FailuresExplained \/ (transport = "http" /\ rc = 2 /\ ~StageReused)
  BY DEF GaveUp, FailuresExplained, Ending
<1>4. TypeOK /\ Located /\ RunnerTells /\ StatusTells /\ [Next]_vars
        => (Located /\ RunnerTells /\ StatusTells)'
  BY VerdictStep
<1> QED
  BY <1>1, <1>2, <1>3, <1>4, VerdictInit, TypeCorrect, PTL DEF Spec

-----------------------------------------------------------------------------
(* How long the script may take.                                           *)

TestsLeft == {t \in Tests : verdict[t] = "pending"}

\* A bound on the steps that the script has before it: two for each poll that is
\* left, one for each test that is left, and those in between.
StepsLeft ==
  CASE pc = "launch" -> 2 * MaxPolls + Cardinality(Tests) + 8
    [] pc = "alive" -> 2 * (MaxPolls - polls) + Cardinality(Tests) + 7
    [] pc = "read" -> 2 * (MaxPolls - polls) + Cardinality(Tests) + 6
    [] pc = "warm" -> Cardinality(Tests) + 5
    [] pc = "run" -> Cardinality(TestsLeft) + 4
    [] pc = "judge" -> 3
    [] pc = "trap" -> 2
    [] pc = "wait" -> 1
    [] pc = "done" -> 0

\* Whatever the script does brings it nearer to its end, and nothing that the
\* server does meanwhile sets it back.
ScriptAdvances ==
  [][/\ StepsLeft' \in Nat
     /\ script' # script => StepsLeft' < StepsLeft]_vars

\* A test that ran is one test less.
LEMMA TestsShrink ==
  ASSUME IsFiniteSet(Tests), TypeOK, NEW t \in Tests, RunTest(t)
  PROVE  /\ Cardinality(TestsLeft) \in Nat /\ Cardinality(TestsLeft') \in Nat
         /\ Cardinality(TestsLeft') < Cardinality(TestsLeft)
<1>1. PICK v \in Outcomes(t) : verdict' = [verdict EXCEPT ![t] = v]
  BY DEF RunTest
<1>2. v \in {"passed", "failed", "skipped"}
  BY <1>1 DEF Outcomes, OutcomesOf
<1>3. verdict'[t] = v /\ \A u \in Tests \ {t} : verdict'[u] = verdict[u]
  BY <1>1 DEF TypeOK
<1>4. TestsLeft' = TestsLeft \ {t} /\ t \in TestsLeft
  BY <1>2, <1>3 DEF TestsLeft, RunTest
<1>5. IsFiniteSet(TestsLeft) /\ Cardinality(TestsLeft) \in Nat
  BY FS_Subset, FS_CardinalityType DEF TestsLeft
<1>6. /\ IsFiniteSet(TestsLeft \ {t})
      /\ Cardinality(TestsLeft \ {t}) = Cardinality(TestsLeft) - 1
  BY <1>4, <1>5, FS_RemoveElement
<1>7. Cardinality(TestsLeft \ {t}) \in Nat
  BY <1>6, FS_CardinalityType
<1> QED
  BY <1>4, <1>5, <1>6, <1>7

\* As long as the script has polls and tests left, its bound is one.
LEMMA StepsCount ==
  ASSUME IsFiniteSet(Tests), TypeOK, PollsLeft
  PROVE  /\ MaxPolls \in Nat /\ polls \in Nat
         /\ Cardinality(Tests) \in Nat /\ Cardinality(TestsLeft) \in Nat
         /\ Cardinality(TestsLeft) <= Cardinality(Tests)
         /\ pc \in {"launch", "alive", "read"} => polls < MaxPolls
         /\ StepsLeft \in Nat
<1>1. MaxPolls \in Nat /\ polls \in Nat
  BY IntegrationAssumption DEF TypeOK
<1>2. pc \in {"launch", "alive", "read"} => polls < MaxPolls
  BY DEF PollsLeft, Starting
<1>3. Cardinality(Tests) \in Nat
  BY FS_CardinalityType
<1>4. /\ Cardinality(TestsLeft) \in Nat
      /\ Cardinality(TestsLeft) <= Cardinality(Tests)
  BY FS_Subset, FS_CardinalityType DEF TestsLeft
<1>5. StepsLeft \in Nat
  <2>1. CASE pc \in {"launch", "alive", "read"}
    BY <1>1, <1>2, <1>3, <2>1 DEF StepsLeft
  <2>2. CASE pc \in {"warm", "run", "judge", "trap", "wait", "done"}
    BY <1>3, <1>4, <2>2 DEF StepsLeft
  <2> QED
    BY <2>1, <2>2 DEF TypeOK
<1> QED
  BY <1>1, <1>2, <1>3, <1>4, <1>5

\* A step of the script leaves it fewer steps.
LEMMA ScriptStep ==
  ASSUME IsFiniteSet(Tests), TypeOK, ConfigOK, PollsLeft, Script
  PROVE  StepsLeft' < StepsLeft
<1>1. /\ MaxPolls \in Nat /\ polls \in Nat
      /\ Cardinality(Tests) \in Nat /\ Cardinality(TestsLeft) \in Nat
      /\ Cardinality(TestsLeft) <= Cardinality(Tests)
      /\ pc \in {"launch", "alive", "read"} => polls < MaxPolls
  BY StepsCount
<1>2. CASE UseGiven
  <2>1. pc = "launch" /\ pc' = "warm"
    BY <1>2 DEF UseGiven, Export
  <2> QED
    BY <1>1, <2>1 DEF StepsLeft
<1>3. CASE NotExecutable \/ PollDead \/ PollNoLog
  <2>1. pc \in {"launch", "alive", "read"} /\ pc' = "trap"
    BY <1>3 DEF NotExecutable, PollDead, PollNoLog, Exit
  <2> QED
    BY <1>1, <2>1 DEF StepsLeft
<1>4. CASE StartServer
  <2>1. pc = "launch" /\ pc' = "alive" /\ polls' = polls
    BY <1>4 DEF StartServer
  <2> QED
    BY <1>1, <2>1 DEF StepsLeft
<1>5. CASE PollAlive
  <2>1. pc = "alive" /\ pc' = "read" /\ polls' = polls
    BY <1>5 DEF PollAlive
  <2> QED
    BY <1>1, <2>1 DEF StepsLeft
<1>6. CASE PollFound
  <2>1. pc = "read" /\ pc' = "warm"
    BY <1>6 DEF PollFound, Export
  <2> QED
    BY <1>1, <2>1 DEF StepsLeft
<1>7. CASE PollAgain
  <2>1. pc = "read" /\ pc' \in {"trap", "alive"} /\ polls' = polls + 1
    BY <1>7 DEF PollAgain, Exit, CountPoll
  <2> QED
    BY <1>1, <2>1 DEF StepsLeft
<1>8. CASE Warm
  <2>1. pc = "warm" /\ pc' = "run" /\ TestsLeft' = TestsLeft
    BY <1>8 DEF Warm, TestsLeft
  <2> QED
    BY <1>1, <2>1 DEF StepsLeft
<1>9. ASSUME NEW t \in Tests, RunTest(t) PROVE StepsLeft' < StepsLeft
  <2>1. pc = "run" /\ pc' = "run"
    BY <1>9 DEF RunTest
  <2>2. /\ Cardinality(TestsLeft') \in Nat
        /\ Cardinality(TestsLeft') < Cardinality(TestsLeft)
    BY <1>9, TestsShrink
  <2>3. /\ StepsLeft = Cardinality(TestsLeft) + 4
        /\ StepsLeft' = Cardinality(TestsLeft') + 4
    BY <2>1 DEF StepsLeft
  <2> QED
    BY <1>1, <2>2, <2>3
<1>10. CASE RunnerEnds \/ RunnerCrashes
  <2>1. pc = "run" /\ pc' = "judge"
    BY <1>10 DEF RunnerEnds, RunnerCrashes
  <2> QED
    BY <1>1, <2>1 DEF StepsLeft
<1>11. CASE Judge
  <2>1. pc = "judge" /\ pc' = "trap"
    BY <1>11 DEF Judge, Exit
  <2> QED
    BY <2>1 DEF StepsLeft
<1>12. CASE Kill
  BY <1>12 DEF Kill, StepsLeft
<1>13. CASE Remove
  BY <1>13 DEF Remove, StepsLeft
<1> QED
  BY <1>2, <1>3, <1>4, <1>5, <1>6, <1>7, <1>8, <1>9, <1>10, <1>11, <1>12, <1>13
     DEF Script

\* Every other step leaves the script where it is.
LEMMA OthersWait ==
  ASSUME [Next]_vars, ~Script
  PROVE  script' = script
BY DEF Next, vars, ServerExec, ServerListen, ServerAnnounce, ServerCrash,
       ServerTerminated, RemoteChanges

\* run-integration.sh:76: for any finite suite and number of polls, and whatever
\* the server does or leaves undone, the script has no loop to stay in: each of its
\* steps uses up one of the steps it has left, of which there are two for each
\* poll, one for each test, and eight.
THEOREM ScriptAlwaysAdvances ==
  ASSUME IsFiniteSet(Tests)
  PROVE  Spec => ScriptAdvances
<1>1. TypeOK /\ ConfigOK /\ PollsLeft /\ [Next]_vars
        => (TypeOK /\ ConfigOK /\ PollsLeft)'
  BY TypeStep
<1>2. TypeOK /\ ConfigOK /\ PollsLeft => StepsLeft \in Nat
  BY StepsCount
<1>3. TypeOK /\ ConfigOK /\ PollsLeft /\ [Next]_vars
        => [script' # script => StepsLeft' < StepsLeft]_vars
  BY ScriptStep, OthersWait
<1>4. TypeOK /\ ConfigOK /\ PollsLeft /\ (TypeOK /\ ConfigOK /\ PollsLeft)'
        /\ [Next]_vars
        => [/\ StepsLeft' \in Nat
            /\ script' # script => StepsLeft' < StepsLeft]_vars
  <2>1. (TypeOK /\ ConfigOK /\ PollsLeft)' => (StepsLeft \in Nat)'
    BY <1>2, PTL
  <2> QED
    BY <1>3, <2>1
<1> QED
  BY <1>1, <1>4, TypeInit, PTL DEF Spec, ScriptAdvances

-----------------------------------------------------------------------------
(* The staged files.                                                       *)

\* The lines of a staged file: no gate is left.
StagedLine == {line \in Line : line.kind # "require"}

\* The extensions that a piece of a staged file loads.
Loads(s) == {s[k].ext : k \in {k \in DOMAIN s : s[k].kind = "load"}}

\* The line that the preprocessor makes of a line: none is a gate, only the ATTACH
\* is an ATTACH, and what loads vgi loads all that the client needs.
LEMMA RewrittenLine ==
  ASSUME NEW tr, NEW line \in Line
  PROVE  /\ Rewrite(tr, line) \in Seq(StagedLine)
         /\ \A n \in DOMAIN Rewrite(tr, line) :
              Rewrite(tr, line)[n].kind = "attach" => line = Attach
         /\ LoadsVgi(line) => AttachNeeds(tr) \subseteq Loads(Rewrite(tr, line))
<1>1. \A e \in Extensions : Install(e) \in StagedLine /\ Load(e) \in StagedLine
  BY DEF StagedLine, Line, Install, Load
<1>2. "vgi" \in Extensions /\ "httpfs" \in Extensions
  BY DEF Extensions
<1>3. ASSUME NEW e \in Extensions
      PROVE  /\ InstallAndLoad(e) \in Seq(StagedLine) /\ Len(InstallAndLoad(e)) = 2
             /\ InstallAndLoad(e)[1] = Install(e) /\ InstallAndLoad(e)[2] = Load(e)
  BY <1>1 DEF InstallAndLoad
<1>4. /\ Httpfs(tr) \in Seq(StagedLine)
      /\ tr = "http" => Httpfs(tr) = InstallAndLoad("httpfs")
      /\ tr # "http" => Httpfs(tr) = <<>>
  BY <1>2, <1>3 DEF Httpfs
<1>5. ASSUME NEW a \in Seq(StagedLine), NEW b \in Seq(StagedLine), Len(b) = 2
      PROVE  /\ a \o b \in Seq(StagedLine) /\ Len(a \o b) = Len(a) + 2
             /\ \A n \in 1..Len(a) : (a \o b)[n] = a[n]
             /\ (a \o b)[Len(a) + 1] = b[1] /\ (a \o b)[Len(a) + 2] = b[2]
  <2>1. /\ a \o b \in Seq(StagedLine) /\ Len(a \o b) = Len(a) + Len(b)
        /\ \A n \in 1..Len(a) : (a \o b)[n] = a[n]
        /\ \A n \in 1..Len(b) : (a \o b)[Len(a) + n] = b[n]
    OBVIOUS
  <2>2. 1 \in 1..Len(b) /\ 2 \in 1..Len(b)
    BY <1>5
  <2> QED
    BY <1>5, <2>1, <2>2
<1>6. CASE line = Require("vgi")
  <2> DEFINE p == InstallAndLoad("vgi") \o Httpfs(tr)
  <2>0. line # Load("vgi") /\ line \notin {Require(e) : e \in Extensions \ {"vgi"}}
    BY <1>6 DEF Require, Load
  <2>1. Rewrite(tr, line) = p
    BY <1>6, <2>0, Zenon DEF Rewrite
  <2>2. CASE tr = "http"
    <3>1. /\ p \in Seq(StagedLine) /\ Len(p) = 4
          /\ p[1] = Install("vgi") /\ p[2] = Load("vgi")
          /\ p[3] = Install("httpfs") /\ p[4] = Load("httpfs")
      <4> DEFINE a == InstallAndLoad("vgi")
                 b == InstallAndLoad("httpfs")
      <4>1. /\ a \in Seq(StagedLine) /\ Len(a) = 2
            /\ a[1] = Install("vgi") /\ a[2] = Load("vgi")
            /\ b \in Seq(StagedLine) /\ Len(b) = 2
            /\ b[1] = Install("httpfs") /\ b[2] = Load("httpfs")
        BY <1>2, <1>3
      <4>2. p = a \o b
        BY <1>4, <2>2
      <4> HIDE DEF a, b, p
      <4> QED
        BY <1>5, <4>1, <4>2
    <3> HIDE DEF p
    <3>2. {p[2].ext, p[4].ext} \subseteq Loads(p)
      BY <3>1 DEF Loads, Load
    <3>3. \A n \in DOMAIN p : p[n].kind # "attach"
      BY <3>1 DEF Load, Install
    <3> QED
      BY <2>1, <2>2, <3>1, <3>2, <3>3 DEF AttachNeeds, Load
  <2>3. CASE tr # "http"
    <3>1. /\ p \in Seq(StagedLine) /\ Len(p) = 2
          /\ p[1] = Install("vgi") /\ p[2] = Load("vgi")
      BY <1>2, <1>3, <1>4, <2>3
    <3> HIDE DEF p
    <3>2. p[2].ext \in Loads(p)
      BY <3>1 DEF Loads, Load
    <3>3. \A n \in DOMAIN p : p[n].kind # "attach"
      BY <3>1 DEF Load, Install
    <3> QED
      BY <2>1, <2>3, <3>1, <3>2, <3>3 DEF AttachNeeds, Load
  <2> QED
    BY <2>2, <2>3
<1>7. CASE line = Load("vgi")
  <2> DEFINE p == <<line>> \o Httpfs(tr)
  <2>1. Rewrite(tr, line) = p
    BY <1>7 DEF Rewrite, Require, Load
  <2>2. <<line>> \in Seq(StagedLine)
    BY <1>1, <1>2, <1>7
  <2>3. CASE tr = "http"
    <3>1. /\ p \in Seq(StagedLine) /\ Len(p) = 3
          /\ p[1] = Load("vgi") /\ p[2] = Install("httpfs") /\ p[3] = Load("httpfs")
      <4> DEFINE a == <<line>>
                 b == InstallAndLoad("httpfs")
      <4>1. /\ a \in Seq(StagedLine) /\ Len(a) = 1 /\ a[1] = Load("vgi")
            /\ b \in Seq(StagedLine) /\ Len(b) = 2
            /\ b[1] = Install("httpfs") /\ b[2] = Load("httpfs")
        BY <1>2, <1>3, <1>7, <2>2
      <4>2. p = a \o b
        BY <1>4, <2>3
      <4> HIDE DEF a, b, p
      <4>3. /\ a \o b \in Seq(StagedLine) /\ Len(a \o b) = Len(a) + 2
            /\ \A n \in 1..Len(a) : (a \o b)[n] = a[n]
            /\ (a \o b)[Len(a) + 1] = b[1] /\ (a \o b)[Len(a) + 2] = b[2]
        BY <1>5, <4>1, Zenon
      <4>4. Len(a) + 1 = 2 /\ Len(a) + 2 = 3 /\ 1 \in 1..Len(a)
        BY <4>1
      <4> QED
        BY <4>1, <4>2, <4>3, <4>4, Zenon
    <3> HIDE DEF p
    <3>2. {p[1].ext, p[3].ext} \subseteq Loads(p)
      BY <3>1 DEF Loads, Load
    <3>3. \A n \in DOMAIN p : p[n].kind # "attach"
      BY <3>1 DEF Load, Install
    <3> QED
      BY <2>1, <2>3, <3>1, <3>2, <3>3 DEF AttachNeeds, Load
  <2>4. CASE tr # "http"
    <3>1. p \in Seq(StagedLine) /\ Len(p) = 1 /\ p[1] = Load("vgi")
      BY <1>4, <1>7, <2>2, <2>4
    <3> HIDE DEF p
    <3>2. p[1].ext \in Loads(p)
      BY <3>1 DEF Loads, Load
    <3>3. \A n \in DOMAIN p : p[n].kind # "attach"
      BY <3>1 DEF Load
    <3> QED
      BY <2>1, <2>4, <3>1, <3>2, <3>3 DEF AttachNeeds, Load
  <2> QED
    BY <2>3, <2>4
<1>8. CASE line \in {Require(e) : e \in Extensions \ {"vgi"}}
  <2>1. PICK e \in Extensions \ {"vgi"} : line = Require(e)
    BY <1>8
  <2>2. line # Require("vgi") /\ line # Load("vgi") /\ line.ext = e
    BY <2>1 DEF Require, Load
  <2>3. Rewrite(tr, line) = InstallAndLoad(e)
    BY <1>8, <2>2 DEF Rewrite
  <2>4. \A n \in 1..2 : InstallAndLoad(e)[n].kind # "attach"
    <3>1. InstallAndLoad(e)[1].kind = "install" /\ InstallAndLoad(e)[2].kind = "load"
      <4>1. InstallAndLoad(e)[1] = Install(e) /\ InstallAndLoad(e)[2] = Load(e)
        BY <1>3
      <4>2. Install(e).kind = "install" /\ Load(e).kind = "load"
        BY DEF Install, Load
      <4> QED
        BY <4>1, <4>2, Zenon
    <3>2. \A n \in 1..2 : n = 1 \/ n = 2
      OBVIOUS
    <3> QED
      BY <3>1, <3>2
  <2> QED
    BY <1>3, <2>2, <2>3, <2>4 DEF LoadsVgi
<1>9. CASE line \notin {Require(e) : e \in Extensions} /\ line # Load("vgi")
  <2>1. line # Require("vgi") /\ Rewrite(tr, line) = <<line>>
    BY <1>2, <1>9 DEF Rewrite
  <2>2. line \in StagedLine
    BY <1>9 DEF StagedLine, Line, Require, Install, Load, Attach, Query
  <2>3. line.kind = "attach" => line = Attach
    BY <1>9 DEF Line, Require, Install, Load, Attach, Query
  <2> QED
    BY <1>9, <2>1, <2>2, <2>3 DEF LoadsVgi
<1> QED
  BY <1>6, <1>7, <1>8, <1>9

\* What follows on a staged piece finds loaded what the piece has loaded.
LEMMA LoadsAdd ==
  ASSUME NEW s \in Seq(StagedLine), NEW p \in Seq(StagedLine)
  PROVE  /\ s \o p \in Seq(StagedLine) /\ Len(s \o p) = Len(s) + Len(p)
         /\ Loads(s) \subseteq Loads(s \o p) /\ Loads(p) \subseteq Loads(s \o p)
         /\ \A n \in 1..Len(s) :
              /\ (s \o p)[n] = s[n]
              /\ LoadedBefore(s, n) \subseteq LoadedBefore(s \o p, n)
         /\ \A n \in 1..Len(p) :
              /\ (s \o p)[Len(s) + n] = p[n]
              /\ Loads(s) \subseteq LoadedBefore(s \o p, Len(s) + n)
<1> DEFINE w == s \o p
<1>1. /\ Len(s) \in Nat /\ Len(p) \in Nat
      /\ DOMAIN s = 1..Len(s) /\ DOMAIN p = 1..Len(p)
      /\ w \in Seq(StagedLine) /\ Len(w) = Len(s) + Len(p)
      /\ DOMAIN w = 1..(Len(s) + Len(p))
      /\ \A n \in 1..Len(s) : w[n] = s[n]
      /\ \A n \in 1..Len(p) : w[Len(s) + n] = p[n]
  OBVIOUS
<1> HIDE DEF w
<1>2. Loads(s) \subseteq Loads(w)
  BY <1>1 DEF Loads
<1>3. Loads(p) \subseteq Loads(w)
  <2>1. ASSUME NEW k \in DOMAIN p, p[k].kind = "load" PROVE p[k].ext \in Loads(w)
    <3>1. Len(s) + k \in DOMAIN w /\ w[Len(s) + k] = p[k]
      BY <1>1, <2>1
    <3> QED
      BY <2>1, <3>1 DEF Loads
  <2> QED
    BY <2>1 DEF Loads
<1>4. ASSUME NEW n \in 1..Len(s)
      PROVE  LoadedBefore(s, n) \subseteq LoadedBefore(w, n)
  BY <1>1, <1>4 DEF LoadedBefore
<1>5. ASSUME NEW n \in 1..Len(p)
      PROVE  Loads(s) \subseteq LoadedBefore(w, Len(s) + n)
  <2>1. ASSUME NEW k \in DOMAIN s, s[k].kind = "load"
        PROVE  s[k].ext \in LoadedBefore(w, Len(s) + n)
    <3>1. k \in 1..((Len(s) + n) - 1) /\ w[k] = s[k]
      BY <1>1, <1>5, <2>1
    <3> QED
      BY <2>1, <3>1 DEF LoadedBefore
  <2> QED
    BY <2>1 DEF Loads
<1> QED
  BY <1>1, <1>2, <1>3, <1>4, <1>5 DEF w

\* In a staged file no gate is left, and before each ATTACH all that the client
\* needs is loaded.
LEMMA StagedFile ==
  ASSUME NEW tr, NEW file \in Seq(Line), VgiFirst(file)
  PROVE  /\ Staged(tr, file) \in Seq(StagedLine)
         /\ \A n \in DOMAIN Staged(tr, file) :
              Staged(tr, file)[n].kind = "attach" =>
                AttachNeeds(tr) \subseteq LoadedBefore(Staged(tr, file), n)
<1> DEFINE N == Len(file)
           ss == [n \in DOMAIN file |-> Rewrite(tr, file[n])]
<1>1. N \in Nat /\ DOMAIN file = 1..N /\ \A i \in 1..N : file[i] \in Line
  OBVIOUS
<1>2. \A i \in 1..N : ss[i] = Rewrite(tr, file[i]) /\ ss[i] \in Seq(StagedLine)
  BY <1>1, RewrittenLine
<1>3. ss \in Seq(Seq(StagedLine)) /\ Len(ss) = N
  <2>1. ss \in [1..N -> Seq(StagedLine)]
    BY <1>1, <1>2
  <2> HIDE DEF ss
  <2> QED
    BY <1>1, <2>1, F!FunctionIsSeq, SMTT(30)
<1> HIDE DEF ss
<1>4. PICK G \in [0..N -> Seq(StagedLine)] :
        /\ G[0] = <<>>
        /\ \A i \in 1..N : G[i] = G[i - 1] \o ss[i]
        /\ F!FlattenSeq(ss) = G[N]
  <2>1. \E G \in [0..Len(ss) -> Seq(StagedLine)] :
          /\ G[0] = <<>>
          /\ \A i \in 1..Len(ss) : G[i] = G[i - 1] \o ss[i]
          /\ F!FlattenSeq(ss) = G[Len(ss)]
    BY <1>3, F!FlattenByPrefix, ZenonT(60)
  <2> QED
    BY <1>3, <2>1, Zenon
<1>5. Staged(tr, file) = G[N]
  BY <1>4 DEF Staged, ss, Seqs!FlattenSeq, F!FlattenSeq
<1> DEFINE Ready(i) ==
             /\ (\E k \in 1..i : LoadsVgi(file[k])) => AttachNeeds(tr) \subseteq Loads(G[i])
             /\ \A n \in DOMAIN G[i] :
                  G[i][n].kind = "attach" => AttachNeeds(tr) \subseteq LoadedBefore(G[i], n)
           P == {i \in Nat : Ready(i)}
<1>6. Ready(0)
  BY <1>4
<1>7. ASSUME NEW i \in 0..(N - 1), Ready(i) PROVE Ready(i + 1)
  <2> DEFINE s == G[i]
             p == ss[i + 1]
  <2>1. /\ i \in 0..N /\ i + 1 \in 1..N /\ (i + 1) - 1 = i
        /\ s \in Seq(StagedLine) /\ p \in Seq(StagedLine)
        /\ G[i + 1] = s \o p /\ file[i + 1] \in Line /\ p = Rewrite(tr, file[i + 1])
    <3>1. i \in 0..N /\ i + 1 \in 1..N /\ (i + 1) - 1 = i
      BY <1>1, <1>7
    <3> QED
      BY <1>1, <1>2, <1>4, <3>1
  <2>2. /\ (\E k \in 1..i : LoadsVgi(file[k])) => AttachNeeds(tr) \subseteq Loads(s)
        /\ \A n \in DOMAIN s :
             s[n].kind = "attach" => AttachNeeds(tr) \subseteq LoadedBefore(s, n)
    BY <1>7
  <2>3. /\ \A n \in DOMAIN p : p[n].kind = "attach" => file[i + 1] = Attach
        /\ LoadsVgi(file[i + 1]) => AttachNeeds(tr) \subseteq Loads(p)
    BY <2>1, RewrittenLine
  <2>4. file[i + 1] = Attach => \E k \in 1..i : LoadsVgi(file[k])
    BY <1>1, <2>1 DEF VgiFirst
  <2> HIDE DEF s, p
  <2>5. /\ Len(s \o p) = Len(s) + Len(p) /\ s \o p \in Seq(StagedLine)
        /\ Loads(s) \subseteq Loads(s \o p) /\ Loads(p) \subseteq Loads(s \o p)
        /\ \A n \in 1..Len(s) :
             /\ (s \o p)[n] = s[n]
             /\ LoadedBefore(s, n) \subseteq LoadedBefore(s \o p, n)
        /\ \A n \in 1..Len(p) :
             /\ (s \o p)[Len(s) + n] = p[n]
             /\ Loads(s) \subseteq LoadedBefore(s \o p, Len(s) + n)
    BY <2>1, LoadsAdd
  <2>6. ASSUME NEW k \in 1..(i + 1), LoadsVgi(file[k])
        PROVE  AttachNeeds(tr) \subseteq Loads(s \o p)
    <3>1. CASE k = i + 1
      BY <2>3, <2>5, <2>6, <3>1
    <3>2. CASE k # i + 1
      <4>1. k \in 1..i
        BY <1>1, <2>1, <3>2
      <4> QED
        BY <2>2, <2>5, <2>6, <4>1
    <3> QED
      BY <3>1, <3>2
  <2>7. ASSUME NEW n \in DOMAIN (s \o p), (s \o p)[n].kind = "attach"
        PROVE  AttachNeeds(tr) \subseteq LoadedBefore(s \o p, n)
    <3>1. n \in 1..(Len(s) + Len(p)) /\ Len(s) \in Nat /\ Len(p) \in Nat
      BY <2>1, <2>5, <2>7
    <3>2. CASE n \in 1..Len(s)
      <4>1. n \in DOMAIN s /\ s[n].kind = "attach"
        BY <2>1, <2>5, <2>7, <3>2
      <4> QED
        BY <2>2, <2>5, <3>2, <4>1
    <3>3. CASE n \notin 1..Len(s)
      <4> DEFINE m == n - Len(s)
      <4>1. m \in 1..Len(p) /\ n = Len(s) + m
        BY <3>1, <3>3
      <4> HIDE DEF m
      <4>2. m \in DOMAIN p /\ p[m].kind = "attach"
        BY <2>1, <2>5, <2>7, <4>1
      <4>3. AttachNeeds(tr) \subseteq Loads(s)
        BY <2>2, <2>3, <2>4, <4>2
      <4> QED
        BY <2>5, <4>1, <4>3
    <3> QED
      BY <3>2, <3>3
  <2> QED
    BY <2>1, <2>6, <2>7
<1>8. \A i \in 0..N : i \in P
  <2> HIDE DEF Ready
  <2>1. 0 \in P
    BY <1>6
  <2>2. ASSUME NEW i \in 0..(N - 1), i \in P PROVE i + 1 \in P
    BY <1>1, <1>7, <2>2
  <2> HIDE DEF P
  <2> QED
    BY <1>1, <2>1, <2>2, F!SetInduction
<1>9. Ready(N) /\ N \in 0..N
  BY <1>1, <1>8
<1> QED
  BY <1>4, <1>5, <1>9

\* With both channels and the worker there, no line of it stops the runner.
LEMMA NothingStops ==
  ASSUME NEW tr, NEW file \in Seq(Line), VgiFirst(file), NEW reachable, reachable
  PROVE  OutcomesOf(tr, Staged(tr, file), {"community", "core"}, reachable)
           = {"passed", "failed"}
<1> DEFINE staged == Staged(tr, file)
<1>1. /\ staged \in Seq(StagedLine)
      /\ \A n \in DOMAIN staged :
           staged[n].kind = "attach" => AttachNeeds(tr) \subseteq LoadedBefore(staged, n)
  BY StagedFile
<1> HIDE DEF staged
<1>2. \A n \in DOMAIN staged : staged[n].kind # "require"
  BY <1>1 DEF StagedLine
<1>3. \A e : Channel(e) \in {"community", "core"}
  BY DEF Channel
<1>4. Stops(tr, staged, {"community", "core"}, reachable) = {}
  BY <1>1, <1>2, <1>3, Zenon DEF Stops
<1> QED
  BY <1>4 DEF OutcomesOf, staged

\* preprocess-require.awk:9-18: for any set of test files that load vgi before they
\* attach the worker, over each transport, a file is skipped only where the worker
\* or an extension cannot be had.
THEOREM Skips == Spec => SkippedForCause
<1> DEFINE Caused ==
             \A t \in Tests :
               verdict[t] # "skipped" /\ verdict'[t] = "skipped" =>
                 ~Reachable \/ channels # {"community", "core"}
<1>1. ASSUME TypeOK, [Next]_vars PROVE [Caused]_vars
  <2> SUFFICES ASSUME NEW t \in Tests, verdict[t] # "skipped", verdict'[t] = "skipped",
                      Reachable, channels = {"community", "core"}
               PROVE  FALSE
    OBVIOUS
  <2>1. PICK u \in Tests : RunTest(u)
    <3>1. verdict' # verdict
      OBVIOUS
    <3> QED
      BY <1>1, <3>1
         DEF Next, Script, UseGiven, NotExecutable, StartServer, PollAlive, PollDead,
             PollFound, PollNoLog, PollAgain, Warm, RunnerEnds, RunnerCrashes, Judge,
             Kill, Remove, ServerExec, ServerListen, ServerAnnounce, ServerCrash,
             ServerTerminated, RemoteChanges, script, vars
  <2>2. PICK v \in Outcomes(u) : verdict' = [verdict EXCEPT ![u] = v]
    BY <2>1 DEF RunTest
  <2>3. t = u /\ v = "skipped"
    BY <2>2 DEF TypeOK
  <2>4. Suite[u] \in Seq(Line) /\ VgiFirst(Suite[u])
    BY IntegrationAssumption, SuiteAssumption
  <2>5. Outcomes(u) = {"passed", "failed"}
    BY <2>4, NothingStops, Zenon DEF Outcomes
  <2> QED
    BY <2>2, <2>3, <2>5
<1> QED
  BY <1>1, TypeCorrect, PTL DEF Spec, SkippedForCause

-----------------------------------------------------------------------------
(* A skip, and the colour of the job.                                      *)

\* Over subprocess and unix there is no skip path.
NoSkipPath == transport # "http" => \A t \in Tests : verdict[t] # "skipped"

\* Over subprocess and unix no staged file comes out as a skip: it has no gate left,
\* and no error of its ATTACH is one that the runner ignores.
LEMMA NoneSkips ==
  ASSUME NEW tr, tr # "http", NEW file \in Seq(Line), VgiFirst(file), NEW chs, NEW reachable
  PROVE  "skipped" \notin OutcomesOf(tr, Staged(tr, file), chs, reachable)
<1> DEFINE staged == Staged(tr, file)
           stops == Stops(tr, staged, chs, reachable)
<1>1. staged \in Seq(StagedLine)
  BY StagedFile
<1> HIDE DEF staged
<1>2. \A n \in DOMAIN staged : staged[n].kind # "require"
  BY <1>1 DEF StagedLine
<1>3. stops \subseteq DOMAIN staged
  BY DEF Stops
<1> HIDE DEF stops
<1>4. \A n \in stops : staged[n].kind # "require"
  BY <1>2, <1>3
<1>5. OutcomesOf(tr, staged, chs, reachable) \in {{"passed", "failed"}, {"failed"}}
  BY <1>4 DEF OutcomesOf, stops
<1> QED
  BY <1>5 DEF staged

\* A step finds no skip path where there is none.
LEMMA NoSkipStep ==
  ASSUME TypeOK, NoSkipPath, [Next]_vars
  PROVE  NoSkipPath'
<1>1. CASE \E u \in Tests : RunTest(u)
  <2>1. PICK u \in Tests : RunTest(u)
    BY <1>1
  <2>2. transport' = transport
    BY <2>1 DEF RunTest, config
  <2>3. PICK v \in Outcomes(u) : verdict' = [verdict EXCEPT ![u] = v]
    BY <2>1 DEF RunTest
  <2>4. Suite[u] \in Seq(Line) /\ VgiFirst(Suite[u])
    BY IntegrationAssumption, SuiteAssumption
  <2>5. transport # "http" => v # "skipped"
    BY <2>3, <2>4, NoneSkips, Zenon DEF Outcomes
  <2> QED
    BY <2>2, <2>3, <2>5 DEF NoSkipPath, TypeOK
<1>2. CASE ~\E u \in Tests : RunTest(u)
  <2>1. verdict' = verdict /\ transport' = transport
    BY <1>2
       DEF Next, Script, UseGiven, NotExecutable, StartServer, PollAlive, PollDead,
           PollFound, PollNoLog, PollAgain, Warm, RunnerEnds, RunnerCrashes, Judge,
           Kill, Remove, ServerExec, ServerListen, ServerAnnounce, ServerCrash,
           ServerTerminated, RemoteChanges, config, script, vars
  <2> QED
    BY <2>1 DEF NoSkipPath
<1> QED
  BY <1>1, <1>2

\* run-integration.sh:161-168: for any set of tests, whichever words the runner has
\* for a partial skip, and whatever goes away when, a green job has come to the end
\* of its tests, has no failed one and one at least that passed, and over subprocess
\* and unix no skipped one either; and a job whose tests all passed is green.
THEOREM Green == Spec => []GreenMeansRan
<1>1. TypeOK /\ Located /\ RunnerTells /\ StatusTells /\ [Next]_vars
        => (Located /\ RunnerTells /\ StatusTells)'
  BY VerdictStep
<1>2. Init => NoSkipPath
  BY DEF Init, NoSkipPath
<1>3. TypeOK /\ NoSkipPath /\ [Next]_vars => NoSkipPath'
  BY NoSkipStep
<1>4. TypeOK /\ ConfigOK /\ StatusTells /\ NoSkipPath => GreenMeansRan
  BY DEF StatusTells, NoSkipPath, GreenMeansRan, Ending, AllPassed, Ran
<1> QED
  BY <1>1, <1>2, <1>3, <1>4, VerdictInit, TypeCorrect, TypeInit, TypeStep, PTL DEF Spec

\* run-integration.sh:168, 178-179: a skip is no pass where there is no skip path.
THEOREM SkipsAreHttp == Spec => [](transport # "http" => SkipIsNoPass)
<1>1. Init => NoSkipPath
  BY DEF Init, NoSkipPath
<1>2. TypeOK /\ NoSkipPath /\ [Next]_vars => NoSkipPath'
  BY NoSkipStep
<1>3. NoSkipPath => (transport # "http" => SkipIsNoPass)
  BY DEF NoSkipPath, SkipIsNoPass
<1> QED
  BY <1>1, <1>2, <1>3, TypeCorrect, PTL DEF Spec

-----------------------------------------------------------------------------
(* Giving up.                                                              *)

\* run-integration.sh:76-84: for any number of polls, and whatever the server does
\* meanwhile, the script gives up on it only for a cause: there is nothing to run, it
\* has died, all polls have been made, or the http leg has found no log.
THEOREM GivesUp == Spec => []GivesUpForCause
<1>1. Init => Located /\ GivesUpForCause
  BY DEF Init, Located, GivesUpForCause, Starting
<1>2. ASSUME TypeOK, Located, RunnerTells, StatusTells, GivesUpForCause, [Next]_vars
      PROVE  GivesUpForCause'
  <2>1. CASE NotExecutable \/ PollDead \/ PollNoLog
    BY <1>2, <2>1 DEF NotExecutable, PollDead, PollNoLog, Exit, config, world,
         GivesUpForCause
  <2>2. CASE PollAgain
    BY <1>2, <2>2 DEF PollAgain, LastPoll, Exit, config, world, GivesUpForCause
  <2>3. CASE Judge
    BY <1>2, <2>3 DEF Judge, Exit, Located, GivesUpForCause
  <2>4. CASE UseGiven \/ StartServer \/ PollAlive \/ PollFound \/ Warm
             \/ (\E t \in Tests : RunTest(t)) \/ RunnerEnds \/ RunnerCrashes
             \/ Kill \/ Remove
    <3>1. pc' # "trap"
      BY <2>4 DEF UseGiven, Export, StartServer, PollAlive, PollFound, Warm, RunTest,
           RunnerEnds, RunnerCrashes, Kill, Remove
    <3> QED
      BY <3>1 DEF GivesUpForCause
  <2>5. CASE ServerExec \/ ServerListen \/ ServerAnnounce \/ ServerCrash
             \/ ServerTerminated \/ RemoteChanges \/ UNCHANGED vars
    <3>1. /\ UNCHANGED <<transport, executable, pc, polls, location, rc>>
          /\ server = "dead" => server' = "dead"
      BY <2>5 DEF ServerExec, ServerListen, ServerAnnounce, ServerCrash, ServerTerminated,
           RemoteChanges, Alive, vars, config, script, world
    <3> QED
      BY <1>2, <3>1 DEF GivesUpForCause
  <2> QED
    BY <1>2, <2>1, <2>2, <2>3, <2>4, <2>5 DEF Next, Script
<1>3. TypeOK /\ Located /\ RunnerTells /\ StatusTells /\ [Next]_vars
        => (Located /\ RunnerTells /\ StatusTells)'
  BY VerdictStep
<1> QED
  BY <1>1, <1>2, <1>3, VerdictInit, TypeCorrect, PTL DEF Spec

=============================================================================
