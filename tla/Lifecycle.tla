----------------------------- MODULE Lifecycle -----------------------------
(***************************************************************************)
(* The life of the server process (main in main.go): startup, the two      *)
(* net/http servers and their Serve goroutines, the signal handler, and    *)
(* the shutdown of both servers on one shared deadline.                    *)
(*                                                                         *)
(* The requests a server has accepted run in goroutines of their own and   *)
(* may take for ever: the Admin API client has no timeout.  They end with  *)
(* the process.                                                            *)
(***************************************************************************)
EXTENDS Naturals, Sequences, FiniteSets

CONSTANTS
  Reqs,       \* HTTP requests that may arrive
  ErrChCap    \* capacity of errCh, the channel the Serve goroutines report on

Servers == {"tailnet", "local"}

ASSUME LifecycleAssumption == ErrChCap \in Nat

VARIABLES
  config,     \* [stdio, localGrants]: --stdio, and --local-grants given
  pc,         \* where main has come to
  notified,   \* signal.NotifyContext is in place
  signalled,  \* its context is done
  servers,    \* the slice of servers main will shut down
  stopping,   \* servers whose Shutdown has been called
  deadline,   \* the context of the shutdown: "none", "running", "expired"
  serve,      \* the Serve goroutine of each server
  errCh,      \* what they have sent, nil as "closed"
  req,        \* the state of each request
  on,         \* the server that accepted it
  exit        \* how the process ended: "running", 0, 1 or "killed"

mainVars == <<config, notified, servers, stopping>>
vars == <<mainVars, pc, signalled, deadline, serve, errCh, req, on, exit>>

Init ==
  /\ config \in [stdio : BOOLEAN, localGrants : BOOLEAN]
  /\ pc = "configure"
  /\ notified = FALSE /\ signalled = FALSE
  /\ servers = <<>> /\ stopping = {}
  /\ deadline = "none"
  /\ serve = [s \in Servers |-> "none"]
  /\ errCh = <<>>
  /\ req = [r \in Reqs |-> "new"]
  /\ on = [r \in Reqs |-> "none"]
  /\ exit = "running"

(* The process ends: every request still running is cut off.               *)
Exit(code) ==
  /\ pc' = "exited" /\ exit' = code
  /\ req' = [r \in Reqs |-> IF req[r] = "running" THEN "cut" ELSE req[r]]

Fatal == Exit("1") /\ UNCHANGED <<mainVars, signalled, deadline, serve, errCh, on>>

Goto(next) == pc' = next /\ UNCHANGED <<req, exit>>

-----------------------------------------------------------------------------
(* Flags, credential, tags, local grants and state directory are parsed.   *)
Configure ==
  /\ pc = "configure"
  /\ \/ Fatal
     \/ Goto("validate") /\ UNCHANGED <<mainVars, signalled, deadline, serve, errCh, on>>

(* ValidateCredential answers within credentialValidationTimeout.          *)
ValidateCredential ==
  /\ pc = "validate"
  /\ \/ Fatal
     \/ Goto("profiles") /\ UNCHANGED <<mainVars, signalled, deadline, serve, errCh, on>>

(* Tools are registered, then the profile file is checked against them.    *)
LoadProfiles ==
  /\ pc = "profiles"
  /\ \/ Fatal
     \/ /\ Goto(IF config.stdio THEN "stdio" ELSE "listen")
        /\ UNCHANGED <<mainVars, signalled, deadline, serve, errCh, on>>

(* server.ServeStdio returns at the end of its input, or with an error.    *)
ServeStdio ==
  /\ pc = "stdio"
  /\ \/ Fatal
     \/ Exit("0") /\ UNCHANGED <<mainVars, signalled, deadline, serve, errCh, on>>

ListenTailnet ==
  /\ pc = "listen"
  /\ \/ Fatal
     \/ Goto("up") /\ UNCHANGED <<mainVars, signalled, deadline, serve, errCh, on>>

(* tsServer.Up waits for the node without a deadline; an error of it only  *)
(* changes the host name that is logged.                                   *)
Up ==
  /\ pc = "up"
  /\ Goto("notify")
  /\ UNCHANGED <<mainVars, signalled, deadline, serve, errCh, on>>

ServeTailnet ==
  /\ pc = "notify"
  /\ notified' = TRUE
  /\ servers' = <<"tailnet">>
  /\ serve' = [serve EXCEPT !["tailnet"] = "started"]
  /\ Goto(IF config.localGrants THEN "bind" ELSE "select")
  /\ UNCHANGED <<config, stopping, signalled, deadline, errCh, on>>

ServeLocalUnlisted ==
  /\ pc = "bind"
  /\ \/ Fatal
     \/ /\ serve' = [serve EXCEPT !["local"] = "started"]
        /\ Goto("select")
        /\ UNCHANGED <<mainVars, signalled, deadline, errCh, on>>

(* The tailnet server may be serving by now; a port in use is fatal.       *)
ServeLocal ==
  /\ pc = "bind"
  /\ \/ Fatal
     \/ /\ servers' = Append(servers, "local")
        /\ serve' = [serve EXCEPT !["local"] = "started"]
        /\ Goto("select")
        /\ UNCHANGED <<config, notified, stopping, signalled, deadline, errCh, on>>

SelectSignalOnly ==
  /\ pc = "select" /\ signalled
  /\ deadline' = "running"
  /\ Goto("shutdown")
  /\ UNCHANGED <<mainVars, signalled, serve, errCh, on>>

(* The select of main, and the shutdown context it is followed by.         *)
Select ==
  /\ pc = "select"
  /\ \/ errCh # <<>> /\ errCh' = Tail(errCh)
     \/ signalled /\ UNCHANGED errCh
  /\ deadline' = "running"
  /\ Goto("shutdown")
  /\ UNCHANGED <<mainVars, signalled, serve, on>>

(* Shutdown of one server: close its listener, ...                         *)
Shutdown ==
  /\ pc = "shutdown" /\ servers # <<>>
  /\ stopping' = stopping \cup {Head(servers)}
  /\ Goto("drain")
  /\ UNCHANGED <<config, notified, servers, signalled, deadline, serve, errCh, on>>

Running(s) == {r \in Reqs : req[r] = "running" /\ on[r] = s}

DrainWithoutDeadline ==
  /\ pc = "drain" /\ serve[Head(servers)] # "serving"
  /\ Running(Head(servers)) = {}
  /\ servers' = Tail(servers)
  /\ Goto("shutdown")
  /\ UNCHANGED <<config, notified, stopping, signalled, deadline, serve, errCh, on>>

(* ... wait for its Serve to return, then for its requests or the deadline *)
(* the servers share; the error is dropped.                                *)
Drain ==
  /\ pc = "drain" /\ serve[Head(servers)] # "serving"
  /\ Running(Head(servers)) = {} \/ deadline = "expired"
  /\ servers' = Tail(servers)
  /\ Goto("shutdown")
  /\ UNCHANGED <<config, notified, stopping, signalled, deadline, serve, errCh, on>>

(* tsServer.Close, and main returns.                                       *)
Close ==
  /\ pc = "shutdown" /\ servers = <<>>
  /\ Exit("0")
  /\ UNCHANGED <<mainVars, signalled, deadline, serve, errCh, on>>

Main ==
  \/ Configure \/ ValidateCredential \/ LoadProfiles \/ ServeStdio \/ ListenTailnet
  \/ Up \/ ServeTailnet \/ ServeLocal \/ Select \/ Shutdown \/ Drain \/ Close

-----------------------------------------------------------------------------
(* The goroutine of server s.  Serve refuses to begin once Shutdown was    *)
(* called, and returns when its listener fails or is closed by Shutdown;   *)
(* serveNamed turns ErrServerClosed into nil.                              *)
Begin(s) ==
  /\ pc # "exited" /\ serve[s] = "started"
  /\ serve' = [serve EXCEPT ![s] = IF s \in stopping THEN "closed" ELSE "serving"]
  /\ UNCHANGED <<mainVars, pc, signalled, deadline, errCh, req, on, exit>>

ListenerClosed(s) ==
  /\ pc # "exited" /\ serve[s] = "serving" /\ s \in stopping
  /\ serve' = [serve EXCEPT ![s] = "closed"]
  /\ UNCHANGED <<mainVars, pc, signalled, deadline, errCh, req, on, exit>>

ListenerFailsSilently(s) ==
  /\ pc # "exited" /\ serve[s] = "serving" /\ s \notin stopping
  /\ serve' = [serve EXCEPT ![s] = "closed"]
  /\ UNCHANGED <<mainVars, pc, signalled, deadline, errCh, req, on, exit>>

ListenerFails(s) ==
  /\ pc # "exited" /\ serve[s] = "serving" /\ s \notin stopping
  /\ serve' = [serve EXCEPT ![s] = "failed"]
  /\ UNCHANGED <<mainVars, pc, signalled, deadline, errCh, req, on, exit>>

ReportAndServeAgain(s) ==
  /\ pc # "exited" /\ serve[s] \in {"closed", "failed"}
  /\ Len(errCh) < ErrChCap
  /\ errCh' = Append(errCh, serve[s])
  /\ serve' = [serve EXCEPT ![s] = "serving"]
  /\ UNCHANGED <<mainVars, pc, signalled, deadline, req, on, exit>>

Report(s) ==
  /\ pc # "exited" /\ serve[s] \in {"closed", "failed"}
  /\ Len(errCh) < ErrChCap
  /\ errCh' = Append(errCh, serve[s])
  /\ serve' = [serve EXCEPT ![s] = "reported"]
  /\ UNCHANGED <<mainVars, pc, signalled, deadline, req, on, exit>>

Goroutine(s) == Begin(s) \/ ListenerClosed(s) \/ Report(s)

(* A request arrives at a serving listener; its handler may never return.  *)
Accept(r, s) ==
  /\ pc # "exited" /\ req[r] = "new"
  /\ serve[s] = "serving" /\ s \notin stopping
  /\ req' = [req EXCEPT ![r] = "running"]
  /\ on' = [on EXCEPT ![r] = s]
  /\ UNCHANGED <<mainVars, pc, signalled, deadline, serve, errCh, exit>>

Respond(r) ==
  /\ req[r] = "running"
  /\ req' = [req EXCEPT ![r] = "done"]
  /\ UNCHANGED <<mainVars, pc, signalled, deadline, serve, errCh, on, exit>>

(* An interrupt or SIGTERM: before NotifyContext it kills the process, and *)
(* so it does in a stdio session, whose ServeStdio ends on it; after that  *)
(* it is only recorded, the second one like the first.                     *)
Signal ==
  /\ pc # "exited"
  /\ IF notified THEN signalled' = TRUE /\ UNCHANGED <<pc, req, exit>>
                 ELSE Exit("killed") /\ UNCHANGED signalled
  /\ UNCHANGED <<mainVars, deadline, serve, errCh, on>>

DeadlineExpires ==
  /\ pc # "exited" /\ deadline = "running"
  /\ deadline' = "expired"
  /\ UNCHANGED <<mainVars, pc, signalled, serve, errCh, req, on, exit>>

Next ==
  \/ Main
  \/ \E s \in Servers : Goroutine(s) \/ ListenerFails(s) \/ \E r \in Reqs : Accept(r, s)
  \/ \E r \in Reqs : Respond(r)
  \/ Signal
  \/ DeadlineExpires

Spec == Init /\ [][Next]_vars

(* The Go scheduler runs main and the goroutines, and time passes.  Not    *)
(* assumed: that the node comes up (main may block in Up), that a request  *)
(* is ever answered, that a signal comes, that a stdio session ends.       *)
FairSpec ==
  /\ Spec
  /\ WF_vars(Configure \/ ValidateCredential \/ LoadProfiles \/ ListenTailnet)
  /\ WF_vars(ServeTailnet \/ ServeLocal \/ Select \/ Shutdown \/ Drain \/ Close)
  /\ \A s \in Servers : WF_vars(Goroutine(s))
  /\ WF_vars(DeadlineExpires)

-----------------------------------------------------------------------------
PCs == {"configure", "validate", "profiles", "stdio", "listen", "up", "notify",
        "bind", "select", "shutdown", "drain", "exited"}

(* Types, and the channel has room for every Serve goroutine: none blocks  *)
(* on its report.                                                          *)
TypeOK ==
  /\ config \in [stdio : BOOLEAN, localGrants : BOOLEAN]
  /\ pc \in PCs
  /\ notified \in BOOLEAN /\ signalled \in BOOLEAN
  /\ servers \in {<<>>, <<"tailnet">>, <<"local">>, <<"tailnet", "local">>}
  /\ stopping \subseteq Servers
  /\ deadline \in {"none", "running", "expired"}
  /\ serve \in [Servers -> {"none", "started", "serving", "closed", "failed", "reported"}]
  /\ errCh \in Seq({"closed", "failed"}) /\ Len(errCh) <= ErrChCap
  /\ req \in [Reqs -> {"new", "running", "done", "cut"}]
  /\ on \in [Reqs -> Servers \cup {"none"}]
  /\ exit \in {"running", "0", "1", "killed"}
  /\ \A s \in Servers : serve[s] \in {"closed", "failed"} => Len(errCh) < ErrChCap

(* A request the server accepted is cut off only when the shutdown context *)
(* has expired, or when startup died on the local port: whichever server   *)
(* accepted it, whatever made main stop, and however many signals came     *)
(* (the shutdown loop of main).                                            *)
CutOnlyAtDeadline ==
  \A r \in Reqs : req[r] = "cut" => deadline = "expired" \/ exit = "1"

(* "Server stopped unexpectedly" is logged only for a server that did: no  *)
(* nil of an orderly Shutdown is ever in errCh while main selects.         *)
OnlyFailuresSelected ==
  pc = "select" => \A i \in DOMAIN errCh : errCh[i] = "failed"

(* A signal stops the process, even if requests hang and however startup   *)
(* and shutdown interleave with it.                                        *)
SignalStops == signalled ~> pc = "exited"

(* The listeners stop together: neither goes on serving once the Serve of  *)
(* the other has returned.                                                 *)
StopTogether ==
  \A s \in Servers : serve[s] \in {"closed", "failed", "reported"} ~> pc = "exited"

=============================================================================
