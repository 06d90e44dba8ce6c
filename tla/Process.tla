-------------------------------- MODULE Process --------------------------------
(***************************************************************************)
(* The life of an authn process: start-up, the listening goroutine, the    *)
(* health flag and the graceful shutdown (main.go, internal/routes/health, *)
(* internal/telemetry).                                                    *)
(*                                                                         *)
(* A pod runs one process at a time.  The listening goroutine marks the    *)
(* process healthy and then listens; main waits for a signal, clears the   *)
(* mark, flushes telemetry while the server still accepts requests, and    *)
(* only then shuts the server down, all within one Grace.                  *)
(***************************************************************************)
EXTENDS Naturals

CONSTANTS
  Pod,      \* the pods there can be at a time
  Grace,    \* main's shutdown timeout, and the pod's termination grace period
  MaxTime   \* bound on the clock

ASSUME ProcessAssumption == Grace \in Nat /\ MaxTime \in Nat

VARIABLES
  now,       \* the clock
  phase,     \* where main is; "gone": no such pod
  listener,  \* where the listening goroutine is
  healthy,   \* the flag /health reports
  deadline,  \* when the context of the shutdown expires
  busy       \* the pods with a login in flight (bound: one each)

process == <<phase, listener, healthy, deadline, busy>>

Leaving == {"flush", "drain"}

ProcessTypeOK ==
  /\ now \in Nat
  /\ phase \in [Pod -> {"gone", "boot", "serve"} \cup Leaving]
  /\ listener \in [Pod -> {"none", "starting", "marked", "open", "closed"}]
  /\ healthy \in [Pod -> BOOLEAN]
  /\ deadline \in [Pod -> Nat]
  /\ \A p \in Pod : phase[p] \in Leaving => now <= deadline[p]
  /\ busy \subseteq {p \in Pod : listener[p] \in {"open", "closed"}}

--------------------------------------------------------------------------------
(* Starting *)

\* main gets as far as the goroutine that listens, and waits for a signal.
Start(p) ==
  /\ phase[p] = "boot"
  /\ phase' = [phase EXCEPT ![p] = "serve"]
  /\ listener' = [listener EXCEPT ![p] = "starting"]
  /\ healthy' = [healthy EXCEPT ![p] = FALSE]
  /\ UNCHANGED <<now, deadline, busy>>

\* Mutant of MarkHealthy: the flag is never set.
MarkHealthyNever(p) ==
  /\ listener[p] = "starting"
  /\ listener' = [listener EXCEPT ![p] = "marked"]
  /\ UNCHANGED <<now, phase, healthy, deadline, busy>>

\* The goroutine sets the flag before it listens, even when main has just
\* cleared it for a shutdown.
MarkHealthy(p) ==
  /\ listener[p] = "starting"
  /\ listener' = [listener EXCEPT ![p] = "marked"]
  /\ healthy' = [healthy EXCEPT ![p] = TRUE]
  /\ UNCHANGED <<now, phase, deadline, busy>>

\* ListenAndServe: refused (ErrServerClosed) once Shutdown has begun.
Listen(p) ==
  /\ listener[p] = "marked"
  /\ listener' = [listener EXCEPT ![p] = IF phase[p] = "drain" THEN "closed" ELSE "open"]
  /\ UNCHANGED <<now, phase, healthy, deadline, busy>>

\* External: what the readiness probe finds.
Ready(p) == phase[p] = "serve" /\ listener[p] = "open" /\ healthy[p]

--------------------------------------------------------------------------------
(* Requests *)

BeginLogin(p) ==
  /\ listener[p] = "open" /\ p \notin busy
  /\ busy' = busy \cup {p}
  /\ UNCHANGED <<now, phase, listener, healthy, deadline>>

EndLogin(p) ==
  /\ p \in busy
  /\ busy' = busy \ {p}
  /\ UNCHANGED <<now, phase, listener, healthy, deadline>>

--------------------------------------------------------------------------------
(* Stopping *)

Gone(p, next) ==
  /\ phase' = [phase EXCEPT ![p] = next]
  /\ listener' = [listener EXCEPT ![p] = "none"]
  /\ healthy' = [healthy EXCEPT ![p] = FALSE]
  /\ busy' = busy \ {p}
  /\ UNCHANGED <<now, deadline>>

\* The signal: the flag is cleared and the shutdown's context starts.
Signal(p) ==
  /\ phase[p] = "serve"
  /\ phase' = [phase EXCEPT ![p] = "flush"]
  /\ healthy' = [healthy EXCEPT ![p] = FALSE]
  /\ deadline' = [deadline EXCEPT ![p] = now + Grace]
  /\ UNCHANGED <<now, listener, busy>>

\* Mutant of Flush: the server's shutdown gets a timeout of its own.
FlushExtended(p) ==
  /\ phase[p] = "flush"
  /\ phase' = [phase EXCEPT ![p] = "drain"]
  /\ listener' = [listener EXCEPT ![p] = IF @ = "open" THEN "closed" ELSE @]
  /\ deadline' = [deadline EXCEPT ![p] = now + Grace]
  /\ UNCHANGED <<now, healthy, busy>>

\* otelShutdown returns, done, failed or out of time, and Shutdown closes the
\* listener.
Flush(p) ==
  /\ phase[p] = "flush"
  /\ phase' = [phase EXCEPT ![p] = "drain"]
  /\ listener' = [listener EXCEPT ![p] = IF @ = "open" THEN "closed" ELSE @]
  /\ UNCHANGED <<now, healthy, deadline, busy>>

\* Shutdown returns once nothing is in flight.
Drained(p) == phase[p] = "drain" /\ p \notin busy /\ Gone(p, "gone")

\* Shutdown's context expires, and main exits with what is in flight.
Forced(p) == phase[p] = "drain" /\ now >= deadline[p] /\ p \in busy /\ Gone(p, "gone")

\* The process ends on its own; kubelet restarts it unless the pod is leaving.
Crash(p) == phase[p] \notin {"gone", "boot"} /\ Gone(p, IF phase[p] = "serve" THEN "boot" ELSE "gone")

\* Time passes, but no shutdown outlasts its context.
Pass ==
  /\ now < MaxTime
  /\ \A p \in Pod : phase[p] \in Leaving => now < deadline[p]
  /\ now' = now + 1
  /\ UNCHANGED process
================================================================================
