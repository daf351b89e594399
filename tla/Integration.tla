---------------------------- MODULE Integration ----------------------------
(***************************************************************************)
(* ci/run-integration.sh: one run of the SQL suite over one transport.     *)
(*                                                                         *)
(* The script and the worker server it starts in the background are two    *)
(* processes that share a log file and, for unix, a socket file: the       *)
(* script forks the server, polls until the log announces an endpoint,     *)
(* runs the suite, judges its report, and cleans up in an EXIT trap.  The  *)
(* server may crash at any time, say nothing, or, pre-launched elsewhere,  *)
(* come and go.                                                            *)
(***************************************************************************)
EXTENDS Preprocess

CONSTANTS
  Tests,        \* the names of the test files that TEST_PATTERN selects
  Suite,        \* Suite[t]: the lines of the test file t
  MaxPolls,     \* the polls before the script gives up: 60
  StageReused   \* STAGE names the scratch directory of an earlier run

ASSUME IntegrationAssumption ==
  /\ Suite \in [Tests -> Seq(Line)]
  /\ MaxPolls \in Nat \ {0}
  /\ StageReused \in BOOLEAN

\* A line of a test file that has vgi loaded, once it is staged.
LoadsVgi(line) == line \in {Require("vgi"), Load("vgi")}

\* A test file loads vgi before it attaches the worker, as every file of test/sql
\* does.
VgiFirst(file) ==
  \A n \in DOMAIN file : file[n] = Attach => \E k \in 1..(n - 1) : LoadsVgi(file[k])

ASSUME SuiteAssumption == \A t \in Tests : VgiFirst(Suite[t])

\* TEST_PATTERN selects a file at least, as its default, test/sql/*, does.
ASSUME SelectionAssumption == Tests # {}

VARIABLES
  transport,    \* TRANSPORT
  prelaunched,  \* VGI_YARA_WORKER came in as an http URL, which http uses as is
  executable,   \* WORKER_BIN can be run
  pc,           \* where the script is
  polls,        \* iterations of the readiness loop
  location,     \* the VGI_YARA_WORKER exported to the suite
  channels,     \* the channels that extensions can be had from
  verdict,      \* verdict[t]: how the test file t came out
  runner,       \* the exit status of the runner
  rc,           \* the exit status of the script
  complaint,    \* the script printed an ERROR line
  server,       \* the server process
  log,          \* the server's log
  socket,       \* a socket file is at SOCK_PATH
  sockPath,     \* SOCK_PATH is set
  killed,       \* the server was sent a SIGTERM
  remote        \* the pre-launched worker answers

config == <<transport, prelaunched, executable>>
script == <<pc, polls, location, channels, verdict, runner, rc, complaint>>
world == <<server, log, socket, sockPath, killed, remote>>
vars == <<config, script, world>>

-----------------------------------------------------------------------------

Init ==
  /\ transport \in {"subprocess", "http", "unix"}
  /\ prelaunched \in {p \in BOOLEAN : p => transport = "http"}
  /\ executable \in BOOLEAN
  /\ pc = "launch"
  /\ polls = 0
  /\ location = "none"
  /\ channels = {}
  /\ verdict = [t \in Tests |-> "pending"]
  /\ runner = 0
  /\ rc = 0
  /\ complaint = FALSE
  /\ server = "none"
  /\ log = IF StageReused THEN "stale" ELSE "absent"
  /\ socket \in BOOLEAN
  /\ sockPath = FALSE
  /\ killed = FALSE
  /\ remote \in BOOLEAN

\* The script exits with status c, by way of its EXIT trap.
Exit(c, said) ==
  /\ pc' = "trap"
  /\ rc' = c
  /\ complaint' = said

\* export VGI_YARA_WORKER.
Export(l) ==
  /\ location' = l
  /\ pc' = "warm"

-----------------------------------------------------------------------------
(* Bringing the worker up.                                                 *)

Spawned == transport # "subprocess" /\ ~prelaunched

UseGiven ==
  /\ pc = "launch" /\ ~Spawned
  /\ Export(IF prelaunched THEN "remote" ELSE "command")
  /\ UNCHANGED <<config, polls, channels, verdict, runner, rc, complaint, world>>

NotExecutable ==
  /\ pc = "launch" /\ Spawned
  /\ ~executable
  /\ Exit(1, TRUE)
  /\ UNCHANGED <<config, polls, location, channels, verdict, runner, world>>

\* For unix a leftover socket goes first.  The log is opened by the child.
StartServer ==
  /\ pc = "launch" /\ Spawned
  /\ executable
  /\ server' = "forked"
  /\ sockPath' = (transport = "unix")
  /\ socket' = (socket /\ transport # "unix")
  /\ pc' = "alive"
  /\ UNCHANGED <<config, polls, location, channels, verdict, runner, rc,
                 complaint, log, killed, remote>>

\* kill -0
PollAlive ==
  /\ pc = "alive"
  /\ server # "dead"
  /\ pc' = "read"
  /\ UNCHANGED <<config, polls, location, channels, verdict, runner, rc,
                 complaint, world>>

PollDead ==
  /\ pc = "alive"
  /\ server = "dead"
  /\ Exit(1, TRUE)
  /\ UNCHANGED <<config, polls, location, channels, verdict, runner, world>>

\* Mutant: the UNIX line alone will do.
FoundLine == log \in {"stale", "announced"}

\* Does the poll find the endpoint?  http: a PORT line in the log; unix: a UNIX
\* line in the log, and the socket.
Found ==
  \/ transport = "http" /\ log \in {"stale", "announced"}
  \/ transport = "unix" /\ log \in {"stale", "announced"} /\ socket

\* The port of a log that an earlier run left behind is not the server's.
PollFound ==
  /\ pc = "read"
  /\ Found
  /\ Export(IF log = "stale" THEN "stale" ELSE "own")
  /\ UNCHANGED <<config, polls, channels, verdict, runner, rc, complaint, world>>

\* http reads the log with sed under pipefail and errexit: without a log, sed
\* fails, and so does the script.
PollNoLog ==
  /\ pc = "read" /\ transport = "http"
  /\ log = "absent"
  /\ Exit(2, FALSE)
  /\ UNCHANGED <<config, polls, location, channels, verdict, runner, world>>

\* Mutant: the loop counts no polls.
CountPollNever(n) == n

CountPoll(n) == n + 1

\* Mutant: off by one.
LastPollLate(n) == n > MaxPolls

\* Mutant: off by one the other way, so that the last poll is not made.
LastPollEarly(n) == n + 1 >= MaxPolls

LastPoll(n) == n = MaxPolls

\* sleep, then once more.
PollAgain ==
  /\ pc = "read"
  /\ ~Found
  /\ ~(transport = "http" /\ log = "absent")
  /\ polls' = CountPoll(polls)
  /\ IF LastPoll(polls') THEN Exit(1, TRUE)
     ELSE pc' = "alive" /\ UNCHANGED <<rc, complaint>>
  /\ UNCHANGED <<config, location, channels, verdict, runner, world>>

-----------------------------------------------------------------------------
(* Running the suite.                                                      *)

\* INSTALL vgi; a failure is a warning.  What can be had stays so: the community
\* channel if vgi is in the cache now, the core channel if a test will find it.
Warm ==
  /\ pc = "warm"
  /\ channels' \in SUBSET {"community", "core"}
  /\ pc' = "run"
  /\ UNCHANGED <<config, polls, location, verdict, runner, rc, complaint, world>>

Reachable ==
  \/ location = "command" /\ executable
  \/ location = "remote" /\ remote
  \/ location = "own" /\ server = "listening"

Outcomes(t) ==
  OutcomesOf(transport, Staged(transport, Suite[t]), channels, Reachable)

RunTest(t) ==
  /\ pc = "run"
  /\ verdict[t] = "pending"
  /\ \E v \in Outcomes(t) : verdict' = [verdict EXCEPT ![t] = v]
  /\ UNCHANGED <<config, pc, polls, location, channels, runner, rc, complaint,
                 world>>

\* The runner reports: a skipped test is no failure.
RunnerEnds ==
  /\ pc = "run"
  /\ \A t \in Tests : verdict[t] # "pending"
  /\ runner' = IF \E t \in Tests : verdict[t] = "failed" THEN 1 ELSE 0
  /\ pc' = "judge"
  /\ UNCHANGED <<config, polls, location, channels, verdict, rc, complaint, world>>

\* The runner dies before its last test.
RunnerCrashes ==
  /\ pc = "run"
  /\ \E t \in Tests : verdict[t] = "pending"
  /\ runner' = 139
  /\ pc' = "judge"
  /\ UNCHANGED <<config, polls, location, channels, verdict, rc, complaint, world>>

\* The summaries that the runner may end its report with: none if it died; that all
\* tests were skipped, if they were; and if some were, how many, in the words that
\* the script looks for or in others, of which nothing in the repository tells.
Summaries ==
  LET skipped == {t \in Tests : verdict[t] = "skipped"}
  IN  CASE runner = 139 \/ skipped = {} -> {"no skip"}
        [] runner # 139 /\ skipped = Tests -> {"All tests were skipped"}
        [] OTHER -> {"total skipped n", "n skipped tests"}

\* Mutant: only the number of skipped tests is looked for.
CaughtTotal(summary) == summary = "total skipped n"

\* grep finds one of its two patterns in the report.
Caught(summary) == summary \in {"All tests were skipped", "total skipped n"}

\* The script exits with the runner's status, unless the report tells it of
\* skipped tests.
Judge ==
  /\ pc = "judge"
  /\ \E summary \in Summaries :
       IF Caught(summary) THEN Exit(1, TRUE) ELSE Exit(runner, complaint)
  /\ UNCHANGED <<config, polls, location, channels, verdict, runner, world>>

-----------------------------------------------------------------------------
(* cleanup, the EXIT trap.                                                 *)

Kill ==
  /\ pc = "trap"
  /\ killed' = (server # "none")
  /\ pc' = "wait"
  /\ UNCHANGED <<config, polls, location, channels, verdict, runner, rc,
                 complaint, server, log, socket, sockPath, remote>>

\* Mutant: the script does not wait for the server it killed.
WaitedAtOnce == TRUE

\* wait returns once the server has gone.
Waited == server \in {"none", "dead"}

Remove ==
  /\ pc = "wait"
  /\ Waited
  /\ socket' = (socket /\ ~sockPath)
  /\ pc' = "done"
  /\ UNCHANGED <<config, polls, location, channels, verdict, runner, rc,
                 complaint, server, log, sockPath, killed, remote>>

-----------------------------------------------------------------------------
(* The worker server, and the world.                                       *)

Alive == server \in {"forked", "started", "listening"}

\* The child opens its log, which empties it, and becomes the worker.
ServerExec ==
  /\ server = "forked"
  /\ server' = "started"
  /\ log' = "empty"
  /\ UNCHANGED <<config, script, socket, sockPath, killed, remote>>

ServerListen ==
  /\ server = "started"
  /\ server' = "listening"
  /\ socket' = (socket \/ transport = "unix")
  /\ UNCHANGED <<config, script, log, sockPath, killed, remote>>

\* An http server knows its port once it listens; a unix server knows its path.
ServerAnnounce ==
  /\ log = "empty"
  /\ server \in {"listening"} \cup (IF transport = "unix" THEN {"started"} ELSE {})
  /\ log' = "announced"
  /\ UNCHANGED <<config, script, server, socket, sockPath, killed, remote>>

ServerCrash ==
  /\ Alive
  /\ server' = "dead"
  /\ UNCHANGED <<config, script, log, socket, sockPath, killed, remote>>

\* The SIGTERM is delivered.
ServerTerminated ==
  /\ killed /\ Alive
  /\ server' = "dead"
  /\ UNCHANGED <<config, script, log, socket, sockPath, killed, remote>>

RemoteChanges ==
  /\ prelaunched /\ pc # "done"
  /\ remote' = ~remote
  /\ UNCHANGED <<config, script, server, log, socket, sockPath, killed>>

-----------------------------------------------------------------------------

Script ==
  \/ UseGiven
  \/ NotExecutable
  \/ StartServer
  \/ PollAlive
  \/ PollDead
  \/ PollFound
  \/ PollNoLog
  \/ PollAgain
  \/ Warm
  \/ \E t \in Tests : RunTest(t)
  \/ RunnerEnds
  \/ RunnerCrashes
  \/ Judge
  \/ Kill
  \/ Remove

Next ==
  \/ Script
  \/ ServerExec
  \/ ServerListen
  \/ ServerAnnounce
  \/ ServerCrash
  \/ ServerTerminated
  \/ RemoteChanges

\* The script and the runner go on while they can, and a signal that was sent
\* is delivered.  Nothing else need ever happen: the server may stay silent.
Fairness == WF_vars(Script) /\ WF_vars(ServerTerminated)

Spec == Init /\ [][Next]_vars /\ Fairness

-----------------------------------------------------------------------------
(* Properties.                                                             *)

\* Every variable holds a value of its kind; the readiness loop ends in time.
TypeOK ==
  /\ pc \in {"launch", "alive", "read", "warm", "run", "judge", "trap", "wait",
             "done"}
  /\ polls \in 0..MaxPolls
  /\ location \in {"none", "command", "remote", "own", "stale"}
  /\ channels \in SUBSET {"community", "core"}
  /\ verdict \in [Tests -> {"pending", "passed", "failed", "skipped"}]
  /\ runner \in {0, 1, 139}
  /\ rc \in {0, 1, 2, 139}
  /\ complaint \in BOOLEAN
  /\ server \in {"none", "forked", "started", "listening", "dead"}
  /\ log \in {"absent", "stale", "empty", "announced"}
  /\ socket \in BOOLEAN
  /\ sockPath \in BOOLEAN
  /\ killed \in BOOLEAN
  /\ remote \in BOOLEAN

\* run-integration.sh:161-168: whichever of worker, extension and runner went away,
\* and when, the job is green only if the runner came to its end, no test failed and
\* one at least passed, and over subprocess and unix, where "there is no skip path",
\* only if all did; and if all did, it is green.
GreenMeansRan ==
  pc = "done" =>
    /\ rc = 0 =>
         /\ location # "none"
         /\ \A t \in Tests :
              verdict[t] = "passed" \/ (transport = "http" /\ verdict[t] = "skipped")
         /\ \E t \in Tests : verdict[t] = "passed"
    /\ location # "none" /\ (\A t \in Tests : verdict[t] = "passed") => rc = 0

\* run-integration.sh:178-179, "A skip is NOT a pass": a job with a skipped test is
\* not green.
SkipIsNoPass ==
  pc = "done" /\ rc = 0 => \A t \in Tests : verdict[t] # "skipped"

\* preprocess-require.awk:9-18: a test is skipped only where the worker or an
\* extension cannot be had, never because the staged file does not ask for what
\* the transport needs.
SkippedForCause ==
  [][\A t \in Tests :
       verdict[t] # "skipped" /\ verdict'[t] = "skipped" =>
         ~Reachable \/ channels # {"community", "core"}]_vars

\* run-integration.sh:61-62, "readiness gate": the suite is pointed at a server
\* of the script's own only after that server listens and has said so.
GateHolds ==
  location \in {"own", "stale"} =>
    /\ log = "announced"
    /\ server \in {"listening", "dead"}

\* run-integration.sh:49-58: however the script ends, its server has ended
\* before it, and has left no socket.
NothingLeft ==
  pc = "done" => ~Alive /\ (sockPath => ~socket)

\* run-integration.sh:76-84: the script gives up on its server only if there is none
\* to run, it has died, or all polls have been made: one that is slow, but announces
\* itself before the last poll, is waited for.  What is left is status 2, by which
\* the http leg ends without a log.
GivesUpForCause ==
  pc = "trap" /\ location = "none" =>
    \/ ~executable
    \/ server = "dead"
    \/ polls = MaxPolls
    \/ transport = "http" /\ rc = 2

\* run-integration.sh:77, 84: a server that cannot be brought up is an ERROR
\* that the script explains.
FailuresExplained ==
  pc = "done" /\ location = "none" => complaint

\* run-integration.sh:76: the run comes to an end, even if the server never
\* says a word.
RunEnds == <>(pc = "done")

=============================================================================
