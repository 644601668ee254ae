------------------------------- MODULE Server -------------------------------
(***************************************************************************)
(* internal/server/server.go: the life of a service process, from Run's    *)
(* listeners to its graceful shutdown.                                     *)
(***************************************************************************)

CONSTANT Processes

VARIABLE phase

Phases == {"down", "serving", "draining", "closed"}

\* Run up to its wait for a signal.  A listener that fails ends the process.
Start(p) ==
    /\ phase[p] = "down"
    /\ phase' = [phase EXCEPT ![p] = "serving"]

\* After a signal the HTTP servers are shut down, for up to 15 seconds, and the
\* health service says NOT_SERVING, while gRPC still serves; this step is the
\* call of GracefulStop, which refuses new calls.
Shutdown(p) ==
    /\ phase[p] = "serving"
    /\ phase' = [phase EXCEPT ![p] = "draining"]

\* A defective variant: Stop, which does not wait.
StopAtOnce(p, calls) ==
    /\ phase[p] = "draining"
    /\ phase' = [phase EXCEPT ![p] = "closed"]

\* GracefulStop waits, without a timeout, for the calls in progress; then
\* OnShutdown closes the clients.
GracefulStop(p, calls) ==
    /\ phase[p] = "draining" /\ calls = {}
    /\ phase' = [phase EXCEPT ![p] = "closed"]

\* Run returns, and main with it.
Return(p) ==
    /\ phase[p] = "closed"
    /\ phase' = [phase EXCEPT ![p] = "down"]

Crash(p) ==
    /\ phase[p] # "down"
    /\ phase' = [phase EXCEPT ![p] = "down"]
=============================================================================
