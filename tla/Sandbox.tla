------------------------------ MODULE Sandbox ------------------------------
(***************************************************************************)
(* One call of SandboxExecutionService.execute at a time: the gate of the  *)
(* service, the start of a container, its wait with a timeout, and the     *)
(* removal that the finally clause (Docker) or the context manager         *)
(* (Vercel) attempts on every path.  The daemon or the hosted service      *)
(* behind the backend may fail and come back between any two steps.        *)
(***************************************************************************)
EXTENDS Naturals, EventPlane

CONSTANTS NoOutput,      \* an empty capture
          MaxContainers, \* bound on the containers started
          Error          \* the call raised

ASSUME SandboxAssumption ==
    /\ NoOutput \in Outputs
    /\ MaxContainers \in Nat
    /\ None # Error /\ None \notin Outputs /\ Error \notin Outputs

VARIABLES
    backend,    \* the configured SandboxBackend
    daemon,     \* whether the container service answers
    containers, \* containers that exist
    started,    \* number of containers started so far
    phase,      \* where the call is
    box,        \* the call's container
    result      \* what the call returns

sandboxVars == <<backend, daemon, containers, started, phase, box, result>>

RunStatuses == {"completed", "failed", "timed_out"}
Result      == [status : RunStatuses, output : Outputs]
Phases      == {"none", "start", "wait", "remove", "done"}
ExitCodes   == {0, 124}
TimeoutCode == 124

SandboxInit ==
    /\ backend \in {"docker", "vercel"}
    /\ daemon = "up"
    /\ containers = {} /\ started = 0
    /\ phase = "none" /\ box = None /\ result = None

\* The gate of execute: is_available, the command allowlist, read-only mounts
\* and network policy "none" (permitted).  There is no other way to execute.
Admits(permitted) == permitted /\ daemon = "up"

\* The call is handed to the backend.
Execute ==
    /\ started < MaxContainers
    /\ phase' = "start" /\ box' = None /\ result' = None
    /\ UNCHANGED <<backend, daemon, containers, started>>

\* The call has returned or raised: its locals are gone.  Between two calls
\* nobody asks the daemon; where is_available then says no, the next call is
\* refused, which changes nothing.
Return ==
    /\ phase' = "none" /\ box' = None /\ result' = None /\ daemon' = "up"
    /\ UNCHANGED <<backend, containers, started>>

\* The container runs; its identity is fresh.
Start ==
    /\ phase = "start" /\ daemon = "up"
    /\ started' = started + 1
    /\ box' = started + 1
    /\ containers' = containers \cup {started + 1}
    /\ phase' = "wait"
    /\ UNCHANGED <<backend, daemon, result>>

\* The second is_available, or the start itself, fails: there is no container.
StartFails ==
    /\ phase = "start" /\ daemon = "down"
    /\ result' = Error
    /\ phase' = "done"
    /\ UNCHANGED <<backend, daemon, containers, started, box>>

\* The runner's status of an exit: Vercel reports 124 as a timeout, Docker
\* only a wait that ran out.
StatusOf(code) ==
    IF backend = "vercel" /\ code = TimeoutCode THEN "timed_out"
    ELSE IF code = 0 THEN "completed" ELSE "failed"

\* wait returns and the logs are read.
Exit(code, o) ==
    /\ phase = "wait" /\ daemon = "up"
    /\ result' = [status |-> StatusOf(code), output |-> o]
    /\ phase' = "remove"
    /\ UNCHANGED <<backend, daemon, containers, started, box>>

\* Mutant of TimeOut: the wait is repeated instead.
TimeOutWaitsOn(o) ==
    /\ phase = "wait" /\ daemon = "up"
    /\ o \in Outputs
    /\ UNCHANGED sandboxVars

\* wait runs out: Docker kills the container and keeps what it printed, the
\* hosted backend returns nothing.
TimeOut(o) ==
    /\ phase = "wait" /\ daemon = "up"
    /\ result' = [status |-> "timed_out",
                  output |-> IF backend = "vercel" THEN NoOutput ELSE o]
    /\ phase' = "remove"
    /\ UNCHANGED <<backend, daemon, containers, started, box>>

\* wait, or the logs after a timeout, raise: SandboxUnavailableError.  An
\* input that the hosted service does not take ends the call in the same way.
WaitFails ==
    /\ phase = "wait" /\ daemon = "down"
    /\ result' = Error
    /\ phase' = "remove"
    /\ UNCHANGED <<backend, daemon, containers, started, box>>

Remove ==
    /\ phase = "remove" /\ daemon = "up"
    /\ containers' = containers \ {box}
    /\ phase' = "done"
    /\ UNCHANGED <<backend, daemon, started, box, result>>

\* The removal fails.  Docker's is swallowed and the result stands; leaving
\* the hosted context raises.
RemoveFails ==
    /\ phase = "remove" /\ daemon = "down"
    /\ result' = IF backend = "vercel" THEN Error ELSE result
    /\ phase' = "done"
    /\ UNCHANGED <<backend, daemon, containers, started, box>>

\* The daemon is stopped, or answers again, during a call.
DaemonChanges ==
    /\ phase \in {"start", "wait", "remove"}
    /\ daemon' = IF daemon = "up" THEN "down" ELSE "up"
    /\ UNCHANGED <<backend, containers, started, phase, box, result>>

\* What the backend does by itself once called; a command need not exit.
BackendStep ==
    \/ Start \/ StartFails \/ WaitFails \/ Remove \/ RemoveFails
    \/ \E o \in Outputs : TimeOut(o)

SandboxTypeOK ==
    /\ backend \in {"docker", "vercel"} /\ daemon \in {"up", "down"}
    /\ started \in 0..MaxContainers
    /\ containers \subseteq 1..started
    /\ phase \in Phases
    /\ box \in {None} \cup 1..started
    /\ result \in {None, Error} \cup Result
=============================================================================
