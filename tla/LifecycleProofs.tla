-------------------------- MODULE LifecycleProofs --------------------------
(***************************************************************************)
(* Proofs about Lifecycle, for any set of requests and any capacity of     *)
(* errCh.                                                                  *)
(***************************************************************************)
EXTENDS Lifecycle, SequenceTheorems, TLAPS

(* A server main has still to shut down.                                   *)
Listed(s, list) == \E i \in DOMAIN list : list[i] = s

(* The phases before signal.NotifyContext.                                 *)
Early == {"configure", "validate", "profiles", "stdio", "listen", "up", "notify"}

(* What the types do not say: until NotifyContext nothing is served, ...   *)
Quiet ==
  /\ pc \in Early => ~notified
  /\ pc \in {"bind", "select", "shutdown", "drain"} => notified
  /\ pc \in Early \cup {"bind", "select"} => deadline = "none"
  /\ ~notified => servers = <<>> /\ \A s \in Servers : serve[s] = "none"

(* ... main goes through the servers in order, ...                         *)
InOrder ==
  /\ pc = "bind" => servers = <<"tailnet">> /\ serve["local"] = "none"
  /\ pc = "drain" => servers # <<>> /\ Head(servers) \in stopping

(* ... and it has still to drain every server that may accept a request    *)
(* or, until the deadline, has one running.                                *)
Undrained ==
  /\ \A s \in Servers : serve[s] # "none" /\ s \notin stopping => Listed(s, servers)
  /\ \A s \in Servers : serve[s] = "serving" => Listed(s, servers)
  /\ \A r \in Reqs : req[r] = "running" =>
       /\ pc # "exited" /\ on[r] \in Servers
       /\ notified
       /\ deadline = "expired" \/ Listed(on[r], servers)

ServeStates == {"none", "started", "serving", "closed", "failed", "reported"}
ServerLists == {<<>>, <<"tailnet">>, <<"local">>, <<"tailnet", "local">>}

(* The part of TypeOK the argument needs.                                  *)
Types ==
  /\ pc \in PCs
  /\ notified \in BOOLEAN
  /\ servers \in ServerLists
  /\ serve \in [Servers -> ServeStates]
  /\ req \in [Reqs -> {"new", "running", "done", "cut"}]
  /\ on \in [Reqs -> Servers \cup {"none"}]
  /\ pc # "exited" => exit = "running"

DrainInv == Types /\ Quiet /\ InOrder /\ Undrained /\ CutOnlyAtDeadline

-----------------------------------------------------------------------------
(* Appending to a sequence of one element.                                 *)
LEMMA AppendToOne ==
  ASSUME NEW a, NEW b
  PROVE  Append(<<a>>, b) = <<a, b>>
<1> DEFINE s == Append(<<a>>, b)
           t == <<a, b>>
<1>1. <<a>> \in Seq({a, b}) /\ b \in {a, b}
  OBVIOUS
<1>2. s \in Seq({a, b}) /\ Len(s) = 2 /\ s[1] = a /\ s[2] = b
  BY <1>1
<1>3. t \in Seq({a, b}) /\ Len(t) = 2 /\ t[1] = a /\ t[2] = b
  OBVIOUS
<1>4. \A i \in 1..2 : s[i] = t[i]
  BY <1>2, <1>3
<1> QED
  BY <1>2, <1>3, <1>4, SeqEqual

(* Nothing runs at the start.                                              *)
LEMMA DrainInit == Init => DrainInv
BY DEF Init, DrainInv, Types, PCs, ServerLists, ServeStates, Quiet, InOrder, Undrained, CutOnlyAtDeadline, Early, Servers

(* A process that ends with code 1, or with no request running, or after   *)
(* the deadline, keeps the invariant.                                      *)
LEMMA ExitStep ==
  ASSUME DrainInv, NEW code, Exit(code),
         code = "1" \/ deadline = "expired" \/ \A r \in Reqs : req[r] # "running",
         pc # "exited",
         UNCHANGED <<mainVars, deadline, serve, on>>
  PROVE  DrainInv'
<1>1. Types'
  BY DEF Exit, DrainInv, Types, PCs, mainVars
<1>2. Quiet' /\ InOrder'
  BY DEF Exit, DrainInv, Quiet, InOrder, mainVars, Early
<1>3. Undrained'
  BY DEF Exit, DrainInv, Types, Undrained, mainVars, Listed
<1>4. CutOnlyAtDeadline'
  BY DEF Exit, DrainInv, Types, CutOnlyAtDeadline
<1> QED
  BY <1>1, <1>2, <1>3, <1>4 DEF DrainInv

(* Startup, and the end of the process.                                    *)
LEMMA StartupStep ==
  ASSUME DrainInv,
         Configure \/ ValidateCredential \/ LoadProfiles \/ ServeStdio \/ ListenTailnet \/ Up
  PROVE  DrainInv'
<1>1. pc \in Early /\ pc # "exited" /\ \A r \in Reqs : req[r] # "running"
  BY DEF DrainInv, Quiet, Undrained, Early, Configure, ValidateCredential, LoadProfiles, ServeStdio, ListenTailnet, Up
<1>2. CASE Fatal \/ (Exit("0") /\ UNCHANGED <<mainVars, signalled, deadline, serve, errCh, on>>)
  BY <1>1, <1>2, ExitStep DEF Fatal
<1>3. ASSUME pc' \in Early,
             UNCHANGED <<mainVars, signalled, deadline, serve, errCh, on, req, exit>>
      PROVE  DrainInv'
  BY <1>1, <1>3 DEF DrainInv, Types, PCs, Quiet, InOrder, Undrained, CutOnlyAtDeadline, Listed, Early, mainVars
<1>4. CASE Configure
  BY <1>2, <1>3, <1>4 DEF Configure, Goto, Early
<1>5. CASE ValidateCredential
  BY <1>2, <1>3, <1>5 DEF ValidateCredential, Goto, Early
<1>6. CASE LoadProfiles
  <2>1. (IF config.stdio THEN "stdio" ELSE "listen") \in Early
    BY DEF Early
  <2> QED
    BY <1>2, <1>3, <1>6, <2>1 DEF LoadProfiles, Goto
<1>7. CASE ServeStdio
  BY <1>2, <1>7 DEF ServeStdio
<1>8. CASE ListenTailnet
  BY <1>2, <1>3, <1>8 DEF ListenTailnet, Goto, Early
<1>9. CASE Up
  BY <1>3, <1>9 DEF Up, Goto, Early
<1> QED
  BY <1>4, <1>5, <1>6, <1>7, <1>8, <1>9

(* Starting the servers, and choosing to stop.                             *)
LEMMA ServeStep ==
  ASSUME DrainInv, ServeTailnet \/ ServeLocal \/ Select
  PROVE  DrainInv'
<1>1. CASE ServeTailnet
  <2>1. \A r \in Reqs : req[r] # "running"
    BY <1>1 DEF ServeTailnet, DrainInv, Quiet, Undrained, Early
  <2>2. servers' = <<"tailnet">> /\ servers'[1] = "tailnet" /\ DOMAIN servers' = {1}
    BY <1>1 DEF ServeTailnet
  <2>3. serve' = [serve EXCEPT !["tailnet"] = "started"] /\ serve["local"] = "none"
    BY <1>1 DEF ServeTailnet, DrainInv, Quiet, Early, Servers
  <2> QED
    BY <1>1, <2>1, <2>2, <2>3
    DEF ServeTailnet, Goto, DrainInv, Types, PCs, ServerLists, ServeStates, Quiet, InOrder, Undrained,
        CutOnlyAtDeadline, Listed, Early, Servers
<1>2. CASE ServeLocal
  <2>1. CASE Fatal
    BY <1>2, <2>1, ExitStep DEF Fatal, ServeLocal
  <2>2. CASE ~Fatal
    <3>0. servers = <<"tailnet">> /\ servers' = Append(servers, "local")
      BY <1>2, <2>2 DEF ServeLocal, DrainInv, InOrder
    <3>1. servers' = <<"tailnet", "local">>
      BY <3>0, AppendToOne
    <3>3. DOMAIN servers' = {1, 2} /\ servers'[1] = "tailnet" /\ servers'[2] = "local"
      BY <3>1
    <3>2. \A s \in Servers : Listed(s, servers')
      BY <3>3 DEF Listed, Servers
    <3> QED
      BY <1>2, <2>2, <3>1, <3>2
      DEF ServeLocal, Goto, DrainInv, Types, PCs, ServerLists, ServeStates, Quiet, InOrder, Undrained,
          CutOnlyAtDeadline, Early, Servers
  <2> QED BY <2>1, <2>2
<1>3. CASE Select
  BY <1>3
  DEF Select, Goto, mainVars, DrainInv, Types, PCs, Quiet, InOrder, Undrained, CutOnlyAtDeadline, Listed, Early
<1> QED BY <1>1, <1>2, <1>3

(* Shutting down: a server leaves the list only when it can accept no more *)
(* requests and has none running, or the deadline has passed.              *)
LEMMA StopStep ==
  ASSUME DrainInv, Shutdown \/ Drain \/ Close
  PROVE  DrainInv'
<1>1. CASE Shutdown
  BY <1>1
  DEF Shutdown, Goto, DrainInv, Types, PCs, Quiet, InOrder, Undrained, CutOnlyAtDeadline, Listed, Early
<1>2. CASE Drain
  <2>1. servers # <<>> /\ Head(servers) \in stopping /\ servers' = Tail(servers)
    BY <1>2 DEF Drain, DrainInv, InOrder
  <2>2. servers' \in ServerLists
        /\ \A s : Listed(s, servers) /\ s # Head(servers) => Listed(s, servers')
    <3>1. CASE servers = <<"tailnet">> \/ servers = <<"local">>
      BY <2>1, <3>1 DEF ServerLists, Listed
    <3>2. CASE servers = <<"tailnet", "local">>
      <4>1. Head(servers) = "tailnet" /\ servers' = <<"local">>
        BY <2>1, <3>2
      <4>2. servers'[1] = "local" /\ DOMAIN servers' = {1}
        BY <4>1
      <4> QED
        BY <3>2, <4>1, <4>2 DEF ServerLists, Listed
    <3> QED
      BY <2>1, <3>1, <3>2 DEF DrainInv, Types, ServerLists
  <2>3. Undrained'
    <3>1. \A s \in Servers : serve[s] # "none" /\ s \notin stopping => Listed(s, servers')
      BY <2>1, <2>2 DEF DrainInv, Undrained
    <3>2. \A s \in Servers : serve[s] = "serving" => Listed(s, servers')
      BY <1>2, <2>2 DEF DrainInv, Undrained, Drain
    <3>3. \A r \in Reqs : req[r] = "running" => deadline = "expired" \/ Listed(on[r], servers')
      BY <1>2, <2>2 DEF DrainInv, Undrained, Drain, Running
    <3> QED
      BY <1>2, <3>1, <3>2, <3>3 DEF DrainInv, Undrained, Drain, Goto
  <2> QED
    BY <1>2, <2>1, <2>2, <2>3 DEF Drain, Goto, DrainInv, Types, PCs, Quiet, InOrder, CutOnlyAtDeadline, Early
<1>3. CASE Close
  <2>1. \A s : ~Listed(s, servers)
    BY <1>3 DEF Close, Listed
  <2>2. deadline = "expired" \/ \A r \in Reqs : req[r] # "running"
    BY <2>1 DEF DrainInv, Undrained
  <2> QED
    BY <1>3, <2>2, ExitStep DEF Close
<1> QED BY <1>1, <1>2, <1>3

(* The goroutines, the requests, the signal and the clock.                 *)
LEMMA OtherStep ==
  ASSUME DrainInv,
         \/ \E s \in Servers : Goroutine(s) \/ ListenerFails(s) \/ \E r \in Reqs : Accept(r, s)
         \/ \E r \in Reqs : Respond(r)
         \/ Signal
         \/ DeadlineExpires
  PROVE  DrainInv'
<1>1. ASSUME NEW s \in Servers, Goroutine(s) \/ ListenerFails(s) PROVE DrainInv'
  <2>1. /\ UNCHANGED <<mainVars, pc, deadline, req, on, exit>>
        /\ serve[s] # "none"
        /\ \E now \in ServeStates \ {"none"} :
             /\ serve' = [serve EXCEPT ![s] = now]
             /\ now = "serving" => s \notin stopping
    BY <1>1 DEF Goroutine, Begin, ListenerClosed, Report, ListenerFails, ServeStates
  <2> QED
    BY <2>1 DEF mainVars, DrainInv, Types, Quiet, InOrder, Undrained, CutOnlyAtDeadline, Listed, Servers
<1>2. ASSUME NEW s \in Servers, NEW r \in Reqs, Accept(r, s) PROVE DrainInv'
  BY <1>2 DEF Accept, mainVars, DrainInv, Types, Quiet, InOrder, Undrained, CutOnlyAtDeadline, Listed
<1>3. ASSUME NEW r \in Reqs, Respond(r) PROVE DrainInv'
  BY <1>3 DEF Respond, mainVars, DrainInv, Types, Quiet, InOrder, Undrained, CutOnlyAtDeadline, Listed
<1>4. CASE Signal
  <2>1. CASE notified
    BY <1>4, <2>1 DEF Signal, mainVars, DrainInv, Types, Quiet, InOrder, Undrained, CutOnlyAtDeadline, Listed
  <2>2. CASE ~notified
    BY <1>4, <2>2, ExitStep DEF Signal, DrainInv, Undrained
  <2> QED BY <2>1, <2>2
<1>5. CASE DeadlineExpires
  BY <1>5 DEF DeadlineExpires, mainVars, DrainInv, Types, Quiet, InOrder, Undrained, CutOnlyAtDeadline, Listed
<1> QED BY <1>1, <1>2, <1>3, <1>4, <1>5

(* A request the server accepted is cut off only at the deadline of the    *)
(* shutdown, or when startup dies on the local port.                       *)
THEOREM GracefulShutdown == Spec => []CutOnlyAtDeadline
<1>1. DrainInv /\ UNCHANGED vars => DrainInv'
  BY DEF vars, mainVars, DrainInv, Types, Quiet, InOrder, Undrained, CutOnlyAtDeadline, Listed
<1>2. DrainInv /\ [Next]_vars => DrainInv'
  BY <1>1, StartupStep, ServeStep, StopStep, OtherStep DEF Next, Main
<1>3. DrainInv => CutOnlyAtDeadline
  BY DEF DrainInv
<1> QED
  BY DrainInit, <1>2, <1>3, PTL DEF Spec

-----------------------------------------------------------------------------
(* What errCh holds: at most one report of each server, and none of an     *)
(* orderly end before a Shutdown.                                          *)
Reports(state) == IF state = "reported" THEN 1 ELSE 0

ChannelInv ==
  /\ errCh \in Seq({"closed", "failed"})
  /\ Len(errCh) <= Reports(serve["tailnet"]) + Reports(serve["local"])
  /\ pc \in PCs \ {"shutdown", "drain", "exited"} => stopping = {}
  /\ stopping = {} => /\ \A s \in Servers : serve[s] # "closed"
                     /\ \A i \in DOMAIN errCh : errCh[i] = "failed"

(* The part of TypeOK that DrainInv leaves out.                            *)
OtherTypes ==
  /\ config \in [stdio : BOOLEAN, localGrants : BOOLEAN]
  /\ signalled \in BOOLEAN
  /\ stopping \subseteq Servers
  /\ deadline \in {"none", "running", "expired"}
  /\ exit \in {"running", "0", "1", "killed"}

(* Steps that leave errCh and stopping alone.                              *)
LEMMA ChannelKept ==
  ASSUME DrainInv, ChannelInv, UNCHANGED <<errCh, stopping>>,
         pc' \in PCs \ {"shutdown", "drain", "exited"} => pc \in PCs \ {"shutdown", "drain", "exited"},
         serve' \in [Servers -> ServeStates],
         \A s \in Servers : serve'[s] = serve[s] \/ (serve[s] # "reported" /\ serve'[s] \in ServeStates),
         stopping = {} => \A s \in Servers : serve'[s] # "closed"
  PROVE  ChannelInv'
<1>1. \A s \in Servers : Reports(serve[s]) <= Reports(serve'[s])
  BY DEF Reports
<1>2. \A s \in Servers : Reports(serve[s]) \in Nat /\ Reports(serve'[s]) \in Nat
  BY DEF Reports
<1>3. Len(errCh) \in Nat /\ "tailnet" \in Servers /\ "local" \in Servers
  BY DEF ChannelInv, Servers
<1>4. Len(errCh') <= Reports(serve'["tailnet"]) + Reports(serve'["local"])
  BY <1>1, <1>2, <1>3 DEF ChannelInv
<1> QED
  BY <1>4 DEF ChannelInv

(* The goroutine of a server sends one report, when its Serve has returned.*)
LEMMA ReportStep ==
  ASSUME DrainInv, ChannelInv, NEW s \in Servers, Report(s)
  PROVE  ChannelInv'
<1>1. /\ serve[s] \in {"closed", "failed"} /\ serve' = [serve EXCEPT ![s] = "reported"]
      /\ errCh' = Append(errCh, serve[s]) /\ UNCHANGED <<pc, stopping>>
  BY DEF Report, mainVars
<1>2. errCh \in Seq({"closed", "failed"})
  BY DEF ChannelInv
<1>3. /\ errCh' \in Seq({"closed", "failed"}) /\ Len(errCh') = Len(errCh) + 1
      /\ Len(errCh) \in Nat
  BY <1>1, <1>2
<1>4. Reports(serve'["tailnet"]) + Reports(serve'["local"]) = Reports(serve["tailnet"]) + Reports(serve["local"]) + 1
  <2>1. serve \in [Servers -> ServeStates]
    BY DEF DrainInv, Types
  <2> QED
    BY <1>1, <2>1 DEF Servers, Reports
<1>5. Reports(serve["tailnet"]) + Reports(serve["local"]) \in Nat
  BY DEF Reports
<1>6. Len(errCh') <= Reports(serve'["tailnet"]) + Reports(serve'["local"])
  BY <1>3, <1>4, <1>5 DEF ChannelInv
<1>7. ASSUME stopping = {} PROVE \A i \in DOMAIN errCh' : errCh'[i] = "failed"
  <2>1. serve[s] = "failed" /\ \A i \in 1..Len(errCh) : errCh[i] = "failed"
    BY <1>1, <1>2, <1>7 DEF ChannelInv
  <2>2. DOMAIN errCh' = 1..(Len(errCh) + 1)
    BY <1>3
  <2>3. \A i \in 1..Len(errCh) : errCh'[i] = errCh[i]
    BY <1>1, <1>2
  <2>4. errCh'[Len(errCh) + 1] = serve[s]
    BY <1>1, <1>2
  <2> QED
    BY <1>3, <2>1, <2>2, <2>3, <2>4
<1>8. ASSUME stopping = {} PROVE \A t \in Servers : serve'[t] # "closed"
  BY <1>1, <1>8 DEF ChannelInv, DrainInv, Types
<1> QED
  BY <1>1, <1>3, <1>6, <1>7, <1>8 DEF ChannelInv

(* ChannelInv is inductive.                                                *)
LEMMA ChannelStep == DrainInv /\ ChannelInv /\ [Next]_vars => ChannelInv'
<1> SUFFICES ASSUME DrainInv, ChannelInv, [Next]_vars PROVE ChannelInv'
  OBVIOUS
<1>0. serve \in [Servers -> ServeStates]
  BY DEF DrainInv, Types
<1>1. CASE UNCHANGED vars
  BY <1>0, <1>1, ChannelKept DEF vars, mainVars, ChannelInv
<1>2. CASE Configure \/ ValidateCredential \/ LoadProfiles \/ ServeStdio \/ ListenTailnet \/ Up \/ Close
  <2>1. UNCHANGED <<errCh, stopping, serve>>
    BY <1>2 DEF Configure, ValidateCredential, LoadProfiles, ServeStdio, ListenTailnet, Up, Close, Fatal, mainVars
  <2>2. pc' \in PCs \ {"shutdown", "drain", "exited"} => pc \in PCs \ {"shutdown", "drain", "exited"}
    BY <1>2 DEF Configure, ValidateCredential, LoadProfiles, ServeStdio, ListenTailnet, Up, Close, Exit, PCs
  <2> QED
    BY <1>0, <2>1, <2>2, ChannelKept DEF ChannelInv
<1>3. CASE ServeTailnet
  <2>1. UNCHANGED <<errCh, stopping>> /\ serve' = [serve EXCEPT !["tailnet"] = "started"] /\ pc = "notify"
    BY <1>3 DEF ServeTailnet
  <2>2. serve["tailnet"] = "none"
    BY <2>1 DEF DrainInv, Quiet, Early, Servers
  <2> QED
    BY <1>0, <2>1, <2>2, ChannelKept DEF ChannelInv, PCs, ServeStates
<1>4. CASE ServeLocal
  <2>1. CASE Fatal
    BY <1>0, <1>4, <2>1, ChannelKept DEF Fatal, Exit, mainVars, ChannelInv, ServeLocal, PCs
  <2>2. CASE ~Fatal
    <3>1. UNCHANGED <<errCh, stopping>> /\ serve' = [serve EXCEPT !["local"] = "started"] /\ pc = "bind"
      BY <1>4, <2>2 DEF ServeLocal
    <3>2. serve["local"] = "none"
      BY <3>1 DEF DrainInv, InOrder
    <3> QED
      BY <1>0, <3>1, <3>2, ChannelKept DEF ChannelInv, PCs, ServeStates
  <2> QED
    BY <2>1, <2>2
<1>5. CASE Select
  <2>1. /\ UNCHANGED <<stopping, serve>> /\ pc = "select" /\ pc' = "shutdown"
        /\ errCh' = errCh \/ (errCh # <<>> /\ errCh' = Tail(errCh))
    BY <1>5 DEF Select, Goto, mainVars
  <2>2. errCh \in Seq({"closed", "failed"}) /\ stopping = {}
    BY <2>1 DEF ChannelInv, PCs
  <2>3. errCh' \in Seq({"closed", "failed"}) /\ Len(errCh') <= Len(errCh) /\ Len(errCh) \in Nat
        /\ Len(errCh') \in Nat
    BY <2>1, <2>2
  <2>4. \A i \in DOMAIN errCh' : \E j \in DOMAIN errCh : errCh'[i] = errCh[j]
    <3>1. CASE errCh' = errCh
      BY <3>1
    <3>2. CASE errCh # <<>> /\ errCh' = Tail(errCh)
      <4>1. DOMAIN errCh' = 1..(Len(errCh) - 1) /\ DOMAIN errCh = 1..Len(errCh)
        BY <2>2, <3>2
      <4>2. \A i \in 1..(Len(errCh) - 1) : errCh'[i] = errCh[i + 1] /\ i + 1 \in 1..Len(errCh)
        BY <2>2, <2>3, <3>2
      <4> QED
        BY <4>1, <4>2
    <3> QED
      BY <2>1, <3>1, <3>2
  <2>5. Reports(serve["tailnet"]) + Reports(serve["local"]) \in Nat
    BY DEF Reports
  <2>6. Len(errCh') <= Reports(serve["tailnet"]) + Reports(serve["local"])
    BY <2>3, <2>5 DEF ChannelInv
  <2> QED
    BY <2>1, <2>2, <2>3, <2>4, <2>6 DEF ChannelInv
<1>6. CASE Shutdown
  <2>1. UNCHANGED <<errCh, serve>> /\ stopping' # {} /\ pc' = "drain"
    BY <1>6 DEF Shutdown, Goto
  <2> QED
    BY <2>1 DEF ChannelInv
<1>7. CASE Drain
  <2>1. UNCHANGED <<errCh, stopping, serve>> /\ pc' = "shutdown"
    BY <1>7 DEF Drain, Goto
  <2> QED
    BY <1>0, <2>1, ChannelKept DEF ChannelInv
<1>8. ASSUME NEW s \in Servers, Begin(s) \/ ListenerClosed(s) \/ ListenerFails(s) PROVE ChannelInv'
  <2>1. /\ UNCHANGED <<errCh, stopping, pc>> /\ serve[s] \in {"started", "serving"}
        /\ \E now \in {"serving", "closed", "failed"} :
             /\ serve' = [serve EXCEPT ![s] = now]
             /\ now = "closed" => stopping # {}
    BY <1>8 DEF Begin, ListenerClosed, ListenerFails, mainVars
  <2>2. stopping = {} => \A t \in Servers : serve'[t] # "closed"
    BY <1>0, <2>1 DEF ChannelInv
  <2> QED
    BY <1>0, <2>1, <2>2, ChannelKept DEF ServeStates
<1>9. ASSUME NEW s \in Servers, Report(s) PROVE ChannelInv'
  BY <1>9, ReportStep
<1>10. CASE \/ \E s \in Servers, r \in Reqs : Accept(r, s)
            \/ \E r \in Reqs : Respond(r)
            \/ Signal \/ DeadlineExpires
  <2>1. UNCHANGED <<errCh, stopping, serve>> /\ (pc' = pc \/ pc' = "exited")
    BY <1>10 DEF Accept, Respond, Signal, DeadlineExpires, Exit, mainVars
  <2> QED
    BY <1>0, <2>1, ChannelKept DEF ChannelInv
<1> QED
  BY <1>1, <1>2, <1>3, <1>4, <1>5, <1>6, <1>7, <1>8, <1>9, <1>10 DEF Next, Main, Goroutine

(* The other types are preserved.                                          *)
LEMMA OtherTypesStep == DrainInv /\ OtherTypes /\ [Next]_vars => OtherTypes'
<1> SUFFICES ASSUME DrainInv, OtherTypes, [Next]_vars PROVE OtherTypes'
  OBVIOUS
<1>1. CASE UNCHANGED vars
  BY <1>1 DEF vars, mainVars, OtherTypes
<1>2. CASE Main
  <2>1. servers # <<>> => Head(servers) \in Servers
    BY DEF DrainInv, Types, ServerLists, Servers
  <2>2. CASE Shutdown
    BY <2>1, <2>2 DEF Shutdown, Goto, OtherTypes
  <2>3. CASE ~Shutdown
    BY <1>2, <2>3
    DEF Main, Configure, ValidateCredential, LoadProfiles, ServeStdio, ListenTailnet, Up, ServeTailnet,
        ServeLocal, Select, Drain, Close, Fatal, Goto, Exit, mainVars, OtherTypes
  <2> QED
    BY <2>2, <2>3
<1>3. CASE \E s \in Servers : Goroutine(s) \/ ListenerFails(s) \/ \E r \in Reqs : Accept(r, s)
  BY <1>3 DEF Goroutine, Begin, ListenerClosed, Report, ListenerFails, Accept, mainVars, OtherTypes
<1>4. CASE (\E r \in Reqs : Respond(r)) \/ Signal \/ DeadlineExpires
  BY <1>4 DEF Respond, Signal, DeadlineExpires, Exit, mainVars, OtherTypes
<1> QED
  BY <1>1, <1>2, <1>3, <1>4 DEF Next

(* All three invariants hold.                                              *)
LEMMA ChannelHolds == Spec => [](DrainInv /\ ChannelInv /\ OtherTypes)
<1>1. Init => ChannelInv /\ OtherTypes
  <2> SUFFICES ASSUME Init PROVE ChannelInv /\ OtherTypes
    OBVIOUS
  <2>1. errCh \in Seq({"closed", "failed"}) /\ Len(errCh) = 0 /\ DOMAIN errCh = {}
    BY DEF Init
  <2>2. serve["tailnet"] = "none" /\ serve["local"] = "none"
    BY DEF Init, Servers
  <2>3. Len(errCh) <= Reports(serve["tailnet"]) + Reports(serve["local"])
    BY <2>1, <2>2 DEF Reports
  <2>4. OtherTypes
    BY DEF Init, OtherTypes
  <2> QED
    BY <2>1, <2>3, <2>4 DEF Init, ChannelInv
<1>2. DrainInv /\ UNCHANGED vars => DrainInv'
  BY DEF vars, mainVars, DrainInv, Types, Quiet, InOrder, Undrained, CutOnlyAtDeadline, Listed
<1>3. DrainInv /\ [Next]_vars => DrainInv'
  BY <1>2, StartupStep, ServeStep, StopStep, OtherStep DEF Next, Main
<1> QED
  BY DrainInit, ChannelStep, OtherTypesStep, <1>1, <1>3, PTL DEF Spec

(* "Server stopped unexpectedly" is said only of a server that failed.     *)
THEOREM SelectsFailures == Spec => []OnlyFailuresSelected
<1>1. ChannelInv => OnlyFailuresSelected
  BY DEF ChannelInv, OnlyFailuresSelected, PCs
<1> QED
  BY <1>1, ChannelHolds, PTL

(* Type correctness; with room for two reports (main makes errCh with as   *)
(* much) no Serve goroutine ever blocks on its report.                     *)
THEOREM RoomToReport ==
  ASSUME ErrChCap >= 2
  PROVE  Spec => []TypeOK
<1>1. DrainInv /\ ChannelInv /\ OtherTypes => TypeOK
  <2>1. SUFFICES ASSUME DrainInv, ChannelInv, OtherTypes PROVE TypeOK
    OBVIOUS
  <2>2. ErrChCap \in Nat /\ Len(errCh) \in Nat
    BY <2>1, LifecycleAssumption DEF ChannelInv
  <2>3. Len(errCh) <= 2 /\ \A s \in Servers : serve[s] # "reported" => Len(errCh) <= 1
    BY <2>1, <2>2 DEF ChannelInv, Reports, Servers
  <2>4. Len(errCh) <= ErrChCap /\ \A s \in Servers : serve[s] # "reported" => Len(errCh) < ErrChCap
    BY <2>2, <2>3
  <2> QED
    BY <2>1, <2>4 DEF DrainInv, Types, ServeStates, ServerLists, ChannelInv, OtherTypes, TypeOK
<1> QED
  BY <1>1, ChannelHolds, PTL

-----------------------------------------------------------------------------
(* What keeps the process from ending: main waits only for what must come. *)
(* In its select, only while no Serve goroutine has reported; in Shutdown, *)
(* only for a listener it has told to close, and with the deadline running.*)
WaitsForWhatComes ==
  /\ pc = "select" /\ (\E s \in Servers : serve[s] = "reported") => errCh # <<>>
  /\ pc = "drain" => /\ servers # <<>> /\ Head(servers) \in stopping
                     /\ deadline \in {"running", "expired"}

WaitInv ==
  /\ pc \in {"bind", "select"} /\ (\E s \in Servers : serve[s] = "reported") => errCh # <<>>
  /\ pc \in {"shutdown", "drain"} => deadline \in {"running", "expired"}

(* The steps main has yet to take once it handles signals, at most.        *)
StepsLeft ==
  IF pc = "bind" THEN 7 ELSE
  IF pc = "select" THEN 6 ELSE
  IF pc = "shutdown" THEN 2 * Len(servers) + 1 ELSE
  IF pc = "drain" THEN 2 * Len(servers) ELSE 0

WindsDown ==
  [][notified => /\ StepsLeft \in 0..7 /\ StepsLeft' <= StepsLeft
                 /\ Main => StepsLeft' < StepsLeft]_vars

(* There are at most two servers.                                          *)
LEMMA ListLength ==
  ASSUME NEW list \in ServerLists
  PROVE  /\ list \in Seq({"tailnet", "local"})
         /\ Len(list) \in Nat /\ Len(list) <= 2 /\ (list # <<>> => Len(list) >= 1)
<1>1. CASE list = <<>>
  BY <1>1
<1>2. CASE list = <<"tailnet">>
  BY <1>2
<1>3. CASE list = <<"local">>
  BY <1>3
<1>4. CASE list = <<"tailnet", "local">>
  BY <1>4
<1> QED
  BY <1>1, <1>2, <1>3, <1>4 DEF ServerLists

LEMMA WaitStep == DrainInv /\ ChannelInv /\ WaitInv /\ [Next]_vars => WaitInv'
<1> SUFFICES ASSUME DrainInv, ChannelInv, WaitInv, [Next]_vars PROVE WaitInv'
  OBVIOUS
<1>1. CASE UNCHANGED vars
  BY <1>1 DEF vars, mainVars, WaitInv
<1>2. CASE \/ Configure \/ ValidateCredential \/ LoadProfiles \/ ServeStdio \/ ListenTailnet
           \/ Up \/ Select \/ Shutdown \/ Drain \/ Close
  BY <1>2
  DEF Configure, ValidateCredential, LoadProfiles, ServeStdio, ListenTailnet, Up, Select, Shutdown, Drain,
      Close, Fatal, Goto, Exit, mainVars, WaitInv
<1>3. CASE ServeTailnet
  <2>1. \A s \in Servers : serve'[s] # "reported"
    BY <1>3 DEF ServeTailnet, DrainInv, Types, Quiet, Early
  <2> QED
    BY <1>3, <2>1 DEF ServeTailnet, Goto, WaitInv
<1>4. CASE ServeLocal
  <2>1. CASE Fatal
    BY <2>1 DEF Fatal, Exit, WaitInv
  <2>2. CASE ~Fatal
    <3>1. /\ pc = "bind" /\ pc' = "select" /\ UNCHANGED errCh
          /\ serve' = [serve EXCEPT !["local"] = "started"]
      BY <1>4, <2>2 DEF ServeLocal, Goto
    <3>2. \A s \in Servers : serve'[s] = "reported" => serve[s] = "reported"
      BY <3>1 DEF DrainInv, Types
    <3> QED
      BY <3>1, <3>2 DEF WaitInv
  <2> QED
    BY <2>1, <2>2
<1>5. ASSUME NEW s \in Servers, Begin(s) \/ ListenerClosed(s) \/ ListenerFails(s) PROVE WaitInv'
  <2>1. \A t \in Servers : serve'[t] = "reported" => serve[t] = "reported"
    BY <1>5 DEF Begin, ListenerClosed, ListenerFails, DrainInv, Types
  <2> QED
    BY <1>5, <2>1 DEF Begin, ListenerClosed, ListenerFails, mainVars, WaitInv
<1>6. ASSUME NEW s \in Servers, Report(s) PROVE WaitInv'
  <2>1. serve[s] \in {"closed", "failed"} /\ errCh' = Append(errCh, serve[s]) /\ errCh \in Seq({"closed", "failed"})
    BY <1>6 DEF Report, ChannelInv
  <2>2. errCh' # <<>>
    BY <2>1
  <2> QED
    BY <1>6, <2>2 DEF Report, mainVars, WaitInv
<1>7. CASE \/ \E s \in Servers, r \in Reqs : Accept(r, s)
           \/ \E r \in Reqs : Respond(r)
           \/ Signal \/ DeadlineExpires
  BY <1>7 DEF Accept, Respond, Signal, DeadlineExpires, Exit, mainVars, WaitInv
<1> QED
  BY <1>1, <1>2, <1>3, <1>4, <1>5, <1>6, <1>7 DEF Next, Main, Goroutine

(* Main never waits for what nobody brings about.                          *)
THEOREM NeverStranded == Spec => []WaitsForWhatComes
<1>1. Init => WaitInv
  BY DEF Init, WaitInv
<1>2. DrainInv /\ WaitInv => WaitsForWhatComes
  BY DEF DrainInv, InOrder, WaitInv, WaitsForWhatComes
<1> QED
  BY <1>1, <1>2, WaitStep, ChannelHolds, PTL DEF Spec

(* Once main handles signals it ends within seven steps of its own, and    *)
(* no request, goroutine, further signal or deadline adds to them.         *)
THEOREM StopsInSevenSteps == Spec => WindsDown
<1>1. ASSUME DrainInv, notified, [Next]_vars
      PROVE  /\ StepsLeft \in 0..7 /\ StepsLeft' <= StepsLeft
             /\ Main => StepsLeft' < StepsLeft
  <2>1. pc \in {"bind", "select", "shutdown", "drain", "exited"}
    BY <1>1 DEF DrainInv, Types, PCs, Quiet, Early
  <2>2. Len(servers) \in Nat /\ Len(servers) <= 2 /\ (pc = "drain" => Len(servers) >= 1)
    BY <1>1, ListLength DEF DrainInv, Types, InOrder
  <2>3. StepsLeft \in 0..7
    BY <2>1, <2>2 DEF StepsLeft
  <2>4. CASE Main
    <3>1. CASE Fatal \/ Exit("0")
      <4>1. pc # "exited" /\ pc' = "exited"
        BY <2>4, <3>1
        DEF Fatal, Exit, Main, Configure, ValidateCredential, LoadProfiles, ServeStdio, ListenTailnet,
            Up, ServeTailnet, ServeLocal, Select, Shutdown, Drain, Close
      <4>2. StepsLeft' = 0
        BY <4>1 DEF StepsLeft
      <4>3. StepsLeft > 0
        BY <2>1, <2>2, <4>1 DEF StepsLeft
      <4> QED
        BY <2>3, <4>2, <4>3
    <3>2. CASE ServeLocal /\ ~Fatal
      <4>1. pc = "bind" /\ pc' = "select"
        BY <3>2 DEF ServeLocal, Goto
      <4> QED
        BY <4>1 DEF StepsLeft
    <3>3. CASE Select
      <4>1. pc = "select" /\ pc' = "shutdown" /\ servers' = servers
        BY <3>3 DEF Select, Goto, mainVars
      <4>2. StepsLeft = 6 /\ StepsLeft' = 2 * Len(servers) + 1
        BY <4>1 DEF StepsLeft
      <4> QED
        BY <2>2, <4>2
    <3>4. CASE Shutdown
      <4>1. pc = "shutdown" /\ pc' = "drain" /\ servers' = servers
        BY <3>4 DEF Shutdown, Goto
      <4>2. StepsLeft = 2 * Len(servers) + 1 /\ StepsLeft' = 2 * Len(servers)
        BY <4>1 DEF StepsLeft
      <4> QED
        BY <2>2, <4>2
    <3>5. CASE Drain
      <4>1. servers # <<>> /\ servers' = Tail(servers) /\ pc = "drain" /\ pc' = "shutdown"
        BY <1>1, <3>5 DEF Drain, Goto, DrainInv, InOrder
      <4>2. servers \in Seq({"tailnet", "local"})
        BY <1>1, ListLength DEF DrainInv, Types
      <4>3. Len(servers') = Len(servers) - 1
        BY <4>1, <4>2
      <4>4. StepsLeft = 2 * Len(servers) /\ StepsLeft' = 2 * Len(servers') + 1
        BY <4>1 DEF StepsLeft
      <4> QED
        BY <2>2, <4>3, <4>4
    <3>6. ~(pc \in Early)
      BY <2>1 DEF Early
    <3> QED
      BY <2>4, <3>1, <3>2, <3>3, <3>4, <3>5, <3>6
      DEF Early, Main, Configure, ValidateCredential, LoadProfiles, ServeStdio, ListenTailnet, Up, ServeTailnet, Close
  <2>5. CASE ~Main
    <3>1. UNCHANGED <<pc, servers>> \/ pc' = "exited"
      BY <1>1, <2>5
      DEF Next, Goroutine, Begin, ListenerClosed, Report, ListenerFails, Accept, Respond, Signal,
          DeadlineExpires, Exit, mainVars, vars
    <3>2. StepsLeft' <= StepsLeft
      BY <2>3, <3>1 DEF StepsLeft
    <3> QED
      BY <2>3, <2>5, <3>2
  <2> QED
    BY <2>3, <2>4, <2>5
<1> QED
  BY <1>1, ChannelHolds, PTL DEF Spec, WindsDown
=============================================================================
