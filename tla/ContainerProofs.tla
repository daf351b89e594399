--------------------------- MODULE ContainerProofs ---------------------------
(***************************************************************************)
(* A container is healthy only as an HTTP server at the port that was      *)
(* asked for, for any arguments, ports, shell and number of retries; and   *)
(* where the shell survives a shift of nothing, http is the default.       *)
(***************************************************************************)
EXTENDS Container, TLAPS

\* A worker that listens does so where the entrypoint sent it.
ListensWhereSent == listener # Null => listener = BoundTo

\* A container that is healthy has passed a probe, and its worker listens there
\* still, as long as it runs.
HealthEarned ==
  Running /\ health = "healthy" =>
    transport = "http" /\ listener = Listener("http", Port)

\* No probe passes before the entrypoint has become the worker.
NotBeforeEntry ==
  transport = Null => listener = Null /\ health = "starting"

HInv == ListensWhereSent /\ HealthEarned /\ NotBeforeEntry

-----------------------------------------------------------------------------

\* No container starts healthy.
LEMMA HInvInit == Init => HInv
BY DEF Init, HInv, ListensWhereSent, HealthEarned, NotBeforeEntry

\* A probe that passes has found the worker of an HTTP container at its port.
LEMMA ProbeFinds ==
  ASSUME ListensWhereSent, Running, ProbePasses
  PROVE  transport = "http" /\ listener = Listener("http", Port)
<1>1. listener = BoundTo /\ listener.protocol = "http"
  BY DEF ListensWhereSent, ProbePasses, Served
<1> QED
  BY <1>1 DEF BoundTo, Listener

\* Health is earned by a probe, and nothing but the end of the worker moves it
\* from where it listens.
LEMMA HInvNext == HInv /\ [Next]_vars => HInv'
<1> SUFFICES ASSUME HInv, [Next]_vars PROVE HInv'
  OBVIOUS
<1> USE DEF HInv, ListensWhereSent, HealthEarned, NotBeforeEntry, Running, BoundTo,
            Port, entryVars, probeVars
<1>1. CASE ShiftExits
  BY <1>1 DEF ShiftExits, AtEntry
<1>2. CASE \E t \in {"http", "tcp", "stdio", "other"} : AtEntry /\ Exec(t)
  BY <1>2 DEF AtEntry, Exec
<1>3. CASE Listen
  BY <1>3 DEF Listen
<1>4. CASE Stall
  BY <1>4 DEF Stall
<1>5. CASE Stop
  BY <1>5, ContainerAssumption DEF Stop
<1>6. CASE ProbeOk
  BY <1>6, ProbeFinds DEF ProbeOk
<1>7. CASE ProbeFails
  BY <1>7 DEF ProbeFails
<1>8. CASE StartPeriodEnds
  BY <1>8 DEF StartPeriodEnds
<1>9. CASE UNCHANGED vars
  BY <1>9 DEF vars
<1>10. ServeHttp \/ ServeTcp \/ ServeStdio \/ ExecOther
         => \E t \in {"http", "tcp", "stdio", "other"} : AtEntry /\ Exec(t)
  BY DEF ServeHttp, ServeTcp, ServeStdio, ExecOther, Shifted
<1> QED
  BY <1>1, <1>2, <1>3, <1>4, <1>5, <1>6, <1>7, <1>8, <1>9, <1>10
     DEF Next, Entrypoint, Docker

\* Dockerfile:79: the health of a container speaks of an HTTP server at the port
\* that was asked for, and of nothing else.
THEOREM HealthIsEarned == Spec => []HealthyMeansServes
<1>1. HInv => HealthyMeansServes
  BY DEF HInv, HealthEarned, HealthyMeansServes, Port
<1> QED
  BY <1>1, HInvInit, HInvNext, PTL DEF Spec

-----------------------------------------------------------------------------
(* How health is lost.                                                     *)

\* The failures that count are those since a probe passed, and the container is
\* unhealthy exactly when there are as many as it may have.
FailuresCounted ==
  /\ failures \in 0..Retries
  /\ failures = Retries <=> health = "unhealthy"

\* A probe that fails after the start period counts one more, and one that passes
\* starts the count anew.
CountsInARow ==
  failures' # failures =>
    \/ ~Served /\ ~grace /\ failures' = failures + 1
    \/ Served /\ failures' = 0

\* The probe that makes a container unhealthy failed, and was the last that might.
LastToFail ==
  health # "unhealthy" /\ health' = "unhealthy" =>
    ~Served /\ failures = Retries - 1 /\ failures' = Retries

\* A container is declared unhealthy only by a probe that found nobody to serve
\* it, the last of Retries in a row after its start period.
UnhealthyIsEarned == [][CountsInARow /\ LastToFail]_vars

\* A probe that fails counts one more, if it counts at all.
LEMMA FailureCounts ==
  ASSUME FailuresCounted, ProbeFails
  PROVE  FailuresCounted' /\ CountsInARow /\ LastToFail
<1> USE DEF CountsInARow, LastToFail
<1>1. Retries \in Nat \ {0} /\ failures \in 0..Retries
  BY ContainerAssumption DEF FailuresCounted
<1>2. /\ ~Served
      /\ failures' = IF grace \/ failures = Retries THEN failures ELSE failures + 1
      /\ health' = IF failures' = Retries THEN "unhealthy" ELSE health
  BY DEF ProbeFails, ProbePasses
<1>3. CASE grace \/ failures = Retries
  BY <1>1, <1>2, <1>3 DEF FailuresCounted
<1>4. CASE ~(grace \/ failures = Retries)
  <2>1. failures' = failures + 1 /\ failures' \in 0..Retries /\ health # "unhealthy"
    BY <1>1, <1>2, <1>4 DEF FailuresCounted
  <2> QED
    BY <1>1, <1>2, <1>4, <2>1 DEF FailuresCounted
<1> QED
  BY <1>3, <1>4

\* Every other step leaves the health as it is, or makes it good.
LEMMA FailuresStep ==
  ASSUME FailuresCounted, [Next]_vars
  PROVE  FailuresCounted' /\ CountsInARow /\ LastToFail
<1>1. CASE ProbeFails
  BY <1>1, FailureCounts
<1>2. CASE ProbeOk
  BY <1>2, ContainerAssumption
     DEF ProbeOk, ProbePasses, FailuresCounted, CountsInARow, LastToFail
<1>3. CASE UNCHANGED <<failures, health>>
  BY <1>3 DEF FailuresCounted, CountsInARow, LastToFail
<1>4. CASE ServeHttp \/ ServeTcp \/ ServeStdio \/ ExecOther
  <2>1. UNCHANGED <<failures, health>>
    BY <1>4 DEF ServeHttp, ServeTcp, ServeStdio, ExecOther, Exec, probeVars
  <2> QED
    BY <1>3, <2>1
<1>5. CASE ShiftExits \/ Listen \/ Stall \/ Stop
  <2>1. UNCHANGED <<failures, health>>
    BY <1>5 DEF ShiftExits, Listen, Stall, Stop, probeVars
  <2> QED
    BY <1>3, <2>1
<1>6. CASE StartPeriodEnds \/ UNCHANGED vars
  <2>1. UNCHANGED <<failures, health>>
    BY <1>6 DEF StartPeriodEnds, vars, probeVars
  <2> QED
    BY <1>3, <2>1
<1> QED
  BY <1>1, <1>2, <1>4, <1>5, <1>6 DEF Next, Entrypoint, Docker

\* Dockerfile:81, --start-period and --retries: a worker that serves is never
\* declared unhealthy, and one that is late or stalls has, after the start period,
\* Retries probes to answer one of them.
THEOREM HealthIsLostSlowly == Spec => UnhealthyIsEarned
<1>1. Init => FailuresCounted
  BY ContainerAssumption DEF Init, FailuresCounted
<1>2. FailuresCounted /\ [Next]_vars => FailuresCounted'
  BY FailuresStep
<1>3. FailuresCounted /\ [Next]_vars => [CountsInARow /\ LastToFail]_vars
  BY FailuresStep
<1> QED
  BY <1>1, <1>2, <1>3, PTL DEF Spec, UnhealthyIsEarned

-----------------------------------------------------------------------------
(* What the arguments select.                                              *)

\* The entrypoint becomes what its first argument says, and where the shift does
\* not end it, it becomes something before it ends.
Dispatched ==
  /\ transport # Null =>
       transport = IF Mode \in {"http", "tcp", "stdio"} THEN Mode ELSE "other"
  /\ status # Null => transport # Null

\* No step undoes the choice.
LEMMA DispatchedStep ==
  ASSUME ~ShiftFatal, Dispatched, [Next]_vars
  PROVE  Dispatched'
<1> USE DEF Dispatched, Mode, entryVars
<1>1. CASE ServeHttp \/ ServeTcp \/ ServeStdio
  BY <1>1 DEF ServeHttp, ServeTcp, ServeStdio, Shifted, AtEntry, Exec
<1>2. CASE ExecOther
  BY <1>2 DEF ExecOther, AtEntry, Exec
<1>3. CASE Listen \/ Stall \/ Stop
  BY <1>3 DEF Listen, Stall, Stop, Running
<1>4. CASE Docker
  BY <1>4 DEF Docker, ProbeOk, ProbeFails, StartPeriodEnds
<1>5. CASE UNCHANGED vars
  BY <1>5 DEF vars
<1>6. ~ShiftExits
  BY DEF ShiftExits
<1> QED
  BY <1>1, <1>2, <1>3, <1>4, <1>5, <1>6 DEF Next, Entrypoint

\* docker-entrypoint.sh:5: with a shell that survives a shift of nothing, a
\* container without arguments serves HTTP as it is meant to: the special
\* built-in is all there is to that fault.
THEOREM DefaultServes ==
  ASSUME ~ShiftFatal
  PROVE  Spec => []DefaultIsHttp
<1>1. Init => Dispatched
  BY DEF Init, Dispatched
<1>2. Dispatched /\ [Next]_vars => Dispatched'
  BY DispatchedStep
<1>3. Dispatched => DefaultIsHttp
  BY DEF Dispatched, DefaultIsHttp, AtEntry, Mode
<1> QED
  BY <1>1, <1>2, <1>3, PTL DEF Spec

=============================================================================
