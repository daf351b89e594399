----------------------------- MODULE Container -----------------------------
(***************************************************************************)
(* A container of the image: docker-entrypoint.sh, which becomes the       *)
(* worker in one of its modes, and the health check that the Dockerfile    *)
(* declares, by which Docker tells whether the worker is ready.            *)
(*                                                                         *)
(* The worker may start slowly, stop answering for a while, and crash;     *)
(* Docker probes it at times of its own.  A port is a member of Ports; an  *)
(* unset PORT and an empty one are the same to ${PORT:-8000}.              *)
(***************************************************************************)
EXTENDS Integers, Sequences

CONSTANTS
  Null,
  Ports,        \* the values PORT may be set to, "8000" among them
  Arguments,    \* the argument lists of the container
  ShiftFatal,   \* /bin/sh exits when shift, a special built-in, has nothing to
                \* shift: TRUE for dash, the shell of the image
  Retries       \* --retries: so many failures in a row, and it is unhealthy

ASSUME ContainerAssumption ==
  /\ Null \notin {0, 1, 2}
  /\ "8000" \in Ports
  /\ Arguments \subseteq Seq(STRING)
  /\ ShiftFatal \in BOOLEAN
  /\ Retries \in Nat \ {0}

VARIABLES
  args, port,   \* the arguments, and PORT in the environment
  transport,    \* what the entrypoint became, Null before that
  status,       \* the exit status of the container, Null while it runs
  listener,     \* where the worker listens, Null if nowhere
  answering,    \* the worker answers requests in time
  grace,        \* the start period is not over
  failures,     \* the failed probes in a row that count
  health        \* "starting", "healthy" or "unhealthy"

entryVars == <<args, port>>
probeVars == <<grace, failures, health>>
vars == <<entryVars, transport, status, listener, answering, probeVars>>

-----------------------------------------------------------------------------
(* docker-entrypoint.sh                                                    *)

\* ${1:-http}
Mode == IF args = <<>> THEN "http" ELSE args[1]

\* ${PORT:-8000}, in the entrypoint and in the probe.
Port == IF port = Null THEN "8000" ELSE port
ProbePort == IF port = Null THEN "8000" ELSE port

Init ==
  /\ args \in Arguments
  /\ port \in Ports \cup {Null}
  /\ transport = Null /\ status = Null /\ listener = Null
  /\ answering = TRUE
  /\ grace = TRUE /\ failures = 0 /\ health = "starting"

AtEntry == transport = Null /\ status = Null

\* shift 2>/dev/null || true: there is nothing to shift, and the shell that
\* takes this for fatal does not come to || true.
ShiftExits ==
  /\ AtEntry /\ args = <<>> /\ ShiftFatal
  /\ status' = 2
  /\ UNCHANGED <<entryVars, transport, listener, answering, probeVars>>

Shifted == AtEntry /\ (args # <<>> \/ ~ShiftFatal)

Exec(t) ==
  /\ transport' = t
  /\ UNCHANGED <<entryVars, status, listener, answering, probeVars>>

ServeHttp == Shifted /\ Mode = "http" /\ Exec("http")
ServeTcp == Shifted /\ Mode = "tcp" /\ Exec("tcp")
ServeStdio == Shifted /\ Mode = "stdio" /\ Exec("stdio")

\* Any other argument list is executed as it is.
ExecOther ==
  /\ AtEntry
  /\ Mode \notin {"http", "tcp", "stdio"}
  /\ Exec("other")

-----------------------------------------------------------------------------
(* The worker.                                                             *)

Running == transport # Null /\ status = Null

Listener(protocol, p) == [protocol |-> protocol, port |-> p]

\* Mutant: VGI_HTTP_BIND is not exported, and its default is an ephemeral port.
BoundToDefault ==
  IF transport = "http" THEN Listener("http", "ephemeral") ELSE Listener("tcp", "8001")

\* VGI_HTTP_BIND, or the argument of --tcp; PORT_TCP has its default here.
BoundTo ==
  IF transport = "http" THEN Listener("http", Port) ELSE Listener("tcp", "8001")

Listen ==
  /\ Running /\ transport \in {"http", "tcp"}
  /\ listener = Null
  /\ listener' = BoundTo
  /\ UNCHANGED <<entryVars, transport, status, answering, probeVars>>

\* The worker is held up, or goes on.
Stall ==
  /\ Running
  /\ answering' = ~answering
  /\ UNCHANGED <<entryVars, transport, status, listener, probeVars>>

\* It crashes, or comes to the end of its input.
Stop ==
  /\ Running
  /\ status' \in {0, 1}
  /\ listener' = Null
  /\ UNCHANGED <<entryVars, transport, answering, probeVars>>

-----------------------------------------------------------------------------
(* HEALTHCHECK                                                             *)

\* curl -fsS http://localhost:${PORT:-8000}/health || exit 1, within --timeout:
\* the worker's HTTP server serves /health.
Served ==
  /\ listener # Null
  /\ listener.protocol = "http" /\ listener.port = ProbePort
  /\ answering

\* Mutant: the probe does not look at what curl returns.
ProbePassesAlways == listener # Null

ProbePasses == Served

ProbeOk ==
  /\ Running
  /\ ProbePasses
  /\ grace' = FALSE /\ failures' = 0 /\ health' = "healthy"
  /\ UNCHANGED <<entryVars, transport, status, listener, answering>>

\* A failure counts once the start period is over or a probe has passed.
ProbeFails ==
  /\ Running
  /\ ~ProbePasses
  /\ IF grace \/ failures = Retries THEN UNCHANGED failures
     ELSE failures' = failures + 1
  /\ health' = IF failures' = Retries THEN "unhealthy" ELSE health
  /\ UNCHANGED <<entryVars, transport, status, listener, answering, grace>>

StartPeriodEnds ==
  /\ Running /\ grace
  /\ grace' = FALSE
  /\ UNCHANGED <<entryVars, transport, status, listener, answering, failures, health>>

-----------------------------------------------------------------------------

Entrypoint == ShiftExits \/ ServeHttp \/ ServeTcp \/ ServeStdio \/ ExecOther
Docker == ProbeOk \/ ProbeFails \/ StartPeriodEnds

Next == Entrypoint \/ Listen \/ Stall \/ Stop \/ Docker

\* The shell and the server get on with it; Docker probes every --interval and
\* ends the start period.  The worker need neither stall, recover nor stop.
Fairness ==
  /\ WF_vars(Entrypoint)
  /\ WF_vars(Listen)
  /\ WF_vars(ProbeOk \/ ProbeFails)
  /\ WF_vars(StartPeriodEnds)

Spec == Init /\ [][Next]_vars /\ Fairness

-----------------------------------------------------------------------------

\* Dockerfile:79: the probe tells the readiness of the HTTP mode: a container
\* is healthy only as an HTTP server at the port that was asked for, and not on
\* the strength of a server that listens elsewhere or speaks another protocol.
HealthyMeansServes ==
  Running /\ health = "healthy" =>
    listener = Listener("http", IF port = Null THEN "8000" ELSE port)

\* docker-entrypoint.sh:20-22: the fixed port is there for the HEALTHCHECK to
\* reach: an HTTP container that runs and answers from some time on becomes and
\* stays healthy, whatever PORT is and however long it took or stalled before.
BecomesHealthy ==
  <>[](Running /\ Mode = "http" /\ answering) => <>[](health = "healthy")

\* Dockerfile:81: a container that runs on without answering becomes and stays
\* unhealthy.  So does one in the tcp or stdio mode, which has no HTTP server: a
\* tcp container is marked unhealthy while it serves.
SilenceShows ==
  <>[](Running /\ (~answering \/ Mode \in {"tcp", "stdio"}))
    => <>[](health = "unhealthy")

\* docker-entrypoint.sh:5 calls http the default: a container without arguments
\* comes to serve HTTP.
DefaultIsHttp == args = <<>> /\ ~AtEntry => transport = "http"

=============================================================================
