-------------------- MODULE DeviceAuthorizationProofs --------------------
(***************************************************************************)
(* Proofs about DeviceAuthorization, for any clients, devices, arguments   *)
(* (a missing authorized argument included) and number of faults.          *)
(***************************************************************************)
EXTENDS DeviceAuthorization, TLAPS

-----------------------------------------------------------------------------
(* Faults stay within their bound.                                         *)
LEMMA FaultBound ==
  ASSUME faults \in 0..MaxFaults, Fault
  PROVE  faults' \in 0..MaxFaults
<1>1. MaxFaults \in Nat
  BY DeviceAssumption
<1> QED
  BY <1>1 DEF Fault

(* A call begins with well-typed lists.                                    *)
LEMMA BeginType ==
  ASSUME NEW c \in Clients, NEW ids \in SUBSET (Devices \cup {Blank}), TypeOK, Begin(c, ids)
  PROVE  /\ pc' \in [Clients -> {"new", "running", "requesting", "applied", "returned", "done"}]
         /\ call' \in [Clients -> SUBSET (Devices \cup {Blank})]
         /\ todo' \in [Clients -> SUBSET Devices]
         /\ succeeded' \in [Clients -> SUBSET Devices]
         /\ failed' \in [Clients -> SUBSET Devices]
         /\ authorized' \in [Devices -> BOOLEAN] /\ current' \in [Clients -> Devices \cup {None}]
         /\ \A d \in Clients : pc'[d] \in {"requesting", "applied"} => current'[d] \in Devices
<1>1. uniqueStrings(ids) \in SUBSET Devices
  BY DEF uniqueStrings
<1> QED
  BY <1>1 DEF Begin, TypeOK

(* Types are preserved by every step.                                      *)
LEMMA TypeStep == TypeOK /\ CallInv /\ [Next]_vars => TypeOK'
<1> SUFFICES ASSUME TypeOK, CallInv, [Next]_vars PROVE TypeOK'
  OBVIOUS
<1>1. CASE UNCHANGED vars
  BY <1>1 DEF vars, report, TypeOK
<1>2. ASSUME NEW c \in Clients, CallBulk(c) PROVE TypeOK'
  <2>1. PICK ids \in Lists, flag \in Flags :
          asked' = [asked EXCEPT ![c] = [ids |-> ids, flag |-> flag]] /\ Begin(c, ids)
    BY <1>2 DEF CallBulk
  <2>2. ids \in SUBSET (Devices \cup {Blank}) /\ flag \in BOOLEAN \cup {NoFlag}
    BY DeviceAssumption, FlagAssumption
  <2>3. asked' \in [Clients -> Wanted \cup {None}]
    BY <2>1, <2>2 DEF TypeOK, Wanted
  <2>4. faults' \in 0..MaxFaults
    BY <1>2 DEF CallBulk, TypeOK
  <2> QED
    BY <2>1, <2>2, <2>3, <2>4, BeginType DEF TypeOK
<1>3. ASSUME NEW c \in Clients, CallSingle(c) PROVE TypeOK'
  <2>1. PICK d \in Devices, flag \in BOOLEAN :
          asked' = [asked EXCEPT ![c] = [ids |-> {d}, flag |-> flag]] /\ Begin(c, {d})
    BY <1>3 DEF CallSingle
  <2>2. {d} \in SUBSET (Devices \cup {Blank})
    OBVIOUS
  <2>3. asked' \in [Clients -> Wanted \cup {None}]
    BY <2>1, <2>2 DEF TypeOK, Wanted
  <2>4. faults' \in 0..MaxFaults
    BY <1>3 DEF CallSingle, TypeOK
  <2> QED
    BY <2>1, <2>2, <2>3, <2>4, BeginType DEF TypeOK
<1>4. ASSUME NEW c \in Clients, Request(c) PROVE TypeOK'
  BY <1>4 DEF Request, report, TypeOK
<1>5. ASSUME NEW c \in Clients, Apply(c) PROVE TypeOK'
  <2>1. asked[c] \in Wanted
    BY <1>5 DEF Apply, CallInv, TypeOK
  <2>2. boolArg(asked[c].flag) \in BOOLEAN
    BY <2>1 DEF boolArg, Wanted
  <2> QED
    BY <1>5, <2>2 DEF Apply, report, TypeOK
<1>6. ASSUME NEW c \in Clients, Succeed(c) PROVE TypeOK'
  BY <1>6 DEF Succeed, TypeOK
<1>7. ASSUME NEW c \in Clients, Fail(c) PROVE TypeOK'
  <2>1. faults' \in 0..MaxFaults
    BY <1>7, FaultBound DEF Fail, TypeOK
  <2> QED
    BY <1>7, <2>1 DEF Fail, TypeOK
<1>8. ASSUME NEW c \in Clients, Return(c) PROVE TypeOK'
  BY <1>8 DEF Return, report, TypeOK
<1>9. ASSUME NEW c \in Clients, Receive(c) PROVE TypeOK'
  <2>1. CASE failed[c] = {}
    BY <1>9, <2>1 DEF Receive, report, TypeOK
  <2>2. CASE failed[c] # {}
    <3>1. failed[c] \in SUBSET (Devices \cup {Blank}) /\ Begin(c, failed[c])
      BY <1>9, <2>2 DEF Receive, TypeOK
    <3> QED
      BY <1>9, <3>1, BeginType DEF Receive, TypeOK
  <2> QED
    BY <2>1, <2>2
<1>10. ASSUME NEW c \in Clients, Lose(c) PROVE TypeOK'
  <2>1. asked[c] \in Wanted /\ Begin(c, asked[c].ids)
    BY <1>10 DEF Lose, CallInv, TypeOK
  <2>2. faults' \in 0..MaxFaults
    BY <1>10, FaultBound DEF Lose, TypeOK
  <2>3. asked[c].ids \in SUBSET (Devices \cup {Blank})
    BY <2>1 DEF Wanted
  <2> QED
    BY <1>10, <2>1, <2>2, <2>3, BeginType DEF Lose, TypeOK
<1> QED
  BY <1>1, <1>2, <1>3, <1>4, <1>5, <1>6, <1>7, <1>8, <1>9, <1>10 DEF Next, Handle

-----------------------------------------------------------------------------
(* Clients ask for devices of the tailnet.                                 *)
LEMMA AskedDevices == ASSUME TypeOK, NEW c \in Clients PROVE Asked(c) \subseteq Devices
  BY DEF TypeOK, Asked, Wanted

(* A step that changes neither the tailnet nor what is asked for, and only *)
(* adds to what is pending, keeps every call settled.                      *)
LEMMA StaysSettled ==
  ASSUME CallInv, NEW o \in Clients, asked' = asked, authorized' = authorized,
         Pending(o) \subseteq Pending(o)'
  PROVE  Settled(o)'
<1>1. Asked(o)' = Asked(o)
  BY DEF Asked
<1>2. Settled(o) /\ \A d : Agreed(d)' <=> Agreed(d)
  BY DEF CallInv, Agreed, Asked
<1> QED
  BY <1>1, <1>2 DEF Settled

(* A first call: all its devices are pending, and agreement of others on a *)
(* device can only be lost.                                                *)
LEMMA FirstCall ==
  ASSUME TypeOK, CallInv, NEW c \in Clients, pc[c] = "new",
         NEW ids \in SUBSET (Devices \cup {Blank}), NEW flag \in BOOLEAN \cup {NoFlag},
         asked' = [asked EXCEPT ![c] = [ids |-> ids, flag |-> flag]], Begin(c, ids)
  PROVE  CallInv'
<1>1. Asked(c) = {}
  BY DEF CallInv, Asked
<1>2. asked'[c] = [ids |-> ids, flag |-> flag] /\ \A o \in Clients \ {c} : asked'[o] = asked[o]
  BY DEF TypeOK
<1>3. asked'[c] # None
  BY <1>2, NoneAssumption DEF Wanted
<1>4. Asked(c)' = ids \ {Blank}
  BY <1>2, <1>3 DEF Asked
<1>5. \A o \in Clients \ {c} : Asked(o)' = Asked(o)
  BY <1>2 DEF Asked
<1>6. /\ pc'[c] = "running" /\ todo'[c] = ids \ {Blank} /\ failed'[c] = {}
      /\ \A o \in Clients \ {c} : UNCHANGED <<pc[o], todo[o], failed[o], current[o]>>
      /\ authorized' = authorized
  BY DEF Begin, uniqueStrings, TypeOK
<1>7. \A d : Agreed(d)' => Agreed(d)
  BY <1>1, <1>2, <1>5 DEF Agreed
<1>8. Settled(c)'
  BY <1>4, <1>6 DEF Settled, Pending
<1>9. ASSUME NEW o \in Clients, o # c PROVE Settled(o)'
  <2>1. Asked(o)' = Asked(o) /\ Pending(o)' = Pending(o) /\ Settled(o)
    BY <1>5, <1>6, <1>9 DEF Pending, CallInv
  <2> QED
    BY <1>2, <1>6, <1>7, <1>9, <2>1 DEF Settled
<1>10. ASSUME NEW o \in Clients, o # c
       PROVE  /\ pc'[o] = "new" <=> asked'[o] = None
              /\ todo'[o] \cup failed'[o] \subseteq Asked(o)'
              /\ pc'[o] \in {"requesting", "applied"} => current'[o] \in Asked(o)'
              /\ pc'[o] \in {"returned", "done"} => todo'[o] = {}
              /\ pc'[o] = "done" => failed'[o] = {}
  BY <1>2, <1>5, <1>6, <1>10 DEF CallInv
<1> QED
  BY <1>3, <1>4, <1>6, <1>8, <1>9, <1>10 DEF CallInv

(* CallInv is inductive.                                                   *)
LEMMA CallStep == TypeOK /\ CallInv /\ [Next]_vars => CallInv'
<1> SUFFICES ASSUME TypeOK, CallInv, [Next]_vars PROVE CallInv'
  OBVIOUS
<1> DEFINE Rest(o) == /\ pc[o] = "new" <=> asked[o] = None
                      /\ todo[o] \cup failed[o] \subseteq Asked(o)
                      /\ pc[o] \in {"requesting", "applied"} => current[o] \in Asked(o)
                      /\ pc[o] \in {"returned", "done"} => todo[o] = {}
                      /\ pc[o] = "done" => failed[o] = {}
<1>1. \A o \in Clients : Rest(o) /\ Settled(o)
  BY DEF CallInv
<1>2. (\A o \in Clients : Rest(o)' /\ Settled(o)') => CallInv'
  BY DEF CallInv
<1>3. CASE UNCHANGED vars
  BY <1>1, <1>2, <1>3, StaysSettled DEF vars, report, Pending, Asked
<1>4. ASSUME NEW c \in Clients, CallBulk(c) PROVE CallInv'
  <2>1. PICK ids \in Lists, flag \in Flags :
          asked' = [asked EXCEPT ![c] = [ids |-> ids, flag |-> flag]] /\ Begin(c, ids)
    BY <1>4 DEF CallBulk
  <2>2. ids \in SUBSET (Devices \cup {Blank}) /\ flag \in BOOLEAN \cup {NoFlag}
    BY DeviceAssumption, FlagAssumption
  <2> QED
    BY <1>4, <2>1, <2>2, FirstCall DEF CallBulk
<1>5. ASSUME NEW c \in Clients, CallSingle(c) PROVE CallInv'
  <2>1. PICK d \in Devices, flag \in BOOLEAN :
          asked' = [asked EXCEPT ![c] = [ids |-> {d}, flag |-> flag]] /\ Begin(c, {d})
    BY <1>5 DEF CallSingle
  <2>2. {d} \in SUBSET (Devices \cup {Blank}) /\ flag \in BOOLEAN \cup {NoFlag}
    OBVIOUS
  <2> QED
    BY <1>5, <2>1, <2>2, FirstCall DEF CallSingle
<1>6. ASSUME NEW c \in Clients, asked' = asked, authorized' = authorized,
             \A o \in Clients : Rest(o)' /\ Pending(o) \subseteq Pending(o)'
      PROVE  CallInv'
  BY <1>2, <1>6, StaysSettled
<1>7. ASSUME NEW c \in Clients, Request(c) PROVE CallInv'
  <2>1. PICK d \in todo[c] : /\ current' = [current EXCEPT ![c] = d]
                             /\ todo' = [todo EXCEPT ![c] = @ \ {d}]
    BY <1>7 DEF Request
  <2>2. \A o \in Clients : Rest(o)'
    BY <1>1, <1>7, <2>1 DEF Request, report, Asked, TypeOK
  <2>3. \A o \in Clients : Pending(o) \subseteq Pending(o)'
    BY <1>7, <2>1 DEF Request, report, Pending, TypeOK
  <2> QED
    BY <1>6, <1>7, <2>2, <2>3 DEF Request
<1>8. ASSUME NEW c \in Clients, Apply(c) PROVE CallInv'
  <2> DEFINE x == current[c]
  <2>1. /\ pc[c] = "requesting" /\ asked' = asked /\ pc' = [pc EXCEPT ![c] = "applied"]
        /\ UNCHANGED <<todo, failed, current>>
        /\ authorized' = [authorized EXCEPT ![x] = boolArg(asked[c].flag)]
    BY <1>8 DEF Apply, report
  <2>2. x \in Devices /\ x \in Asked(c)
    BY <1>1, <2>1 DEF TypeOK
  <2>3. (\A o \in Clients : Asked(o)' = Asked(o)) /\ \A d : Agreed(d)' <=> Agreed(d)
    BY <2>1 DEF Asked, Agreed
  <2>4. ASSUME NEW o \in Clients PROVE Settled(o)'
    <3>1. SUFFICES ASSUME NEW d \in Asked(o) \ Pending(o)', Agreed(d)
                   PROVE  authorized'[d] = boolArg(asked[o].flag)
      BY <2>1, <2>3 DEF Settled
    <3>2. d \in Devices
      BY <3>1, AskedDevices
    <3>3. CASE d = x
      BY <2>1, <2>2, <3>1, <3>3 DEF Agreed, TypeOK
    <3>4. CASE d # x
      <4>1. d \notin Pending(o)
        BY <2>1, <3>1, <3>4 DEF Pending, TypeOK
      <4>2. authorized'[d] = authorized[d]
        BY <2>1, <3>2, <3>4 DEF TypeOK
      <4> QED
        BY <1>1, <3>1, <4>1, <4>2 DEF Settled
    <3> QED
      BY <3>3, <3>4
  <2>5. \A o \in Clients : Rest(o)'
    BY <1>1, <2>1, <2>2, <2>3 DEF TypeOK
  <2> QED
    BY <1>2, <2>4, <2>5
<1>9. ASSUME NEW c \in Clients, Succeed(c) PROVE CallInv'
  <2>1. \A o \in Clients : Rest(o)' /\ Pending(o) \subseteq Pending(o)'
    BY <1>1, <1>9 DEF Succeed, Pending, Asked, TypeOK
  <2> QED
    BY <1>6, <1>9, <2>1 DEF Succeed
<1>10. ASSUME NEW c \in Clients, Fail(c) PROVE CallInv'
  <2>1. \A o \in Clients : Rest(o)' /\ Pending(o) \subseteq Pending(o)'
    BY <1>1, <1>10 DEF Fail, Pending, Asked, TypeOK
  <2> QED
    BY <1>6, <1>10, <2>1 DEF Fail
<1>11. ASSUME NEW c \in Clients, Return(c) PROVE CallInv'
  <2>1. \A o \in Clients : Rest(o)' /\ Pending(o) \subseteq Pending(o)'
    BY <1>1, <1>11 DEF Return, report, Pending, Asked, TypeOK
  <2> QED
    BY <1>6, <1>11, <2>1 DEF Return
<1>12. ASSUME NEW c \in Clients, Receive(c) PROVE CallInv'
  <2>1. \A o \in Clients : Rest(o)' /\ Pending(o) \subseteq Pending(o)'
    <3>1. CASE failed[c] = {}
      BY <1>1, <1>12, <3>1 DEF Receive, report, Pending, Asked, TypeOK
    <3>2. CASE failed[c] # {}
      <4>1. uniqueStrings(failed[c]) = failed[c]
        BY DeviceAssumption DEF uniqueStrings, TypeOK
      <4> QED
        BY <1>1, <1>12, <3>2, <4>1 DEF Receive, Begin, Pending, Asked, TypeOK
    <3> QED
      BY <3>1, <3>2
  <2> QED
    BY <1>6, <1>12, <2>1 DEF Receive, Begin
<1>13. ASSUME NEW c \in Clients, Lose(c) PROVE CallInv'
  <2>1. asked[c] # None /\ uniqueStrings(asked[c].ids) = Asked(c)
    BY <1>1, <1>13 DEF Lose, uniqueStrings, Asked
  <2>2. \A o \in Clients : Rest(o)' /\ Pending(o) \subseteq Pending(o)'
    BY <1>1, <1>13, <2>1 DEF Lose, Begin, Pending, Asked, TypeOK
  <2> QED
    BY <1>6, <1>13, <2>2 DEF Lose, Begin
<1> QED
  BY <1>3, <1>4, <1>5, <1>7, <1>8, <1>9, <1>10, <1>11, <1>12, <1>13 DEF Next, Handle

(* The initial states satisfy the invariants.                              *)
LEMMA CallInit == Init => TypeOK /\ CallInv
<1>1. 0 \in 0..MaxFaults
  <2>1. MaxFaults \in Nat
    BY DeviceAssumption
  <2> QED
    BY <2>1
<1> QED
  BY <1>1 DEF Init, TypeOK, CallInv, Asked, Settled, Pending

-----------------------------------------------------------------------------
(* Once a client is told that nothing failed, every device it named and    *)
(* nobody else names otherwise has the value it asked for.                 *)
THEOREM Convergence == Spec => []AgreedValueHolds
<1>1. Spec => [](TypeOK /\ CallInv)
  BY CallInit, TypeStep, CallStep, PTL DEF Spec
<1>2. CallInv => AgreedValueHolds
  <2>1. SUFFICES ASSUME CallInv, NEW c \in Clients, NEW d \in Devices,
                        pc[c] = "done", d \in Asked(c),
                        \A o \in Clients : d \in Asked(o) => boolArg(asked[o].flag) = boolArg(asked[c].flag)
                 PROVE  authorized[d] = boolArg(asked[c].flag)
    BY DEF AgreedValueHolds
  <2>2. Agreed(d)
    BY <2>1 DEF Agreed
  <2>3. d \notin Pending(c)
    BY <2>1 DEF CallInv, Pending
  <2> QED
    BY <2>1, <2>2, <2>3 DEF CallInv, Settled
<1> QED
  BY <1>1, <1>2, PTL

-----------------------------------------------------------------------------
(* Type correctness.                                                       *)
THEOREM TypeCorrect == Spec => []TypeOK
  BY CallInit, TypeStep, CallStep, PTL DEF Spec

(* Where the devices of c's call are, each in one place.                   *)
UnderWay(c) == IF pc[c] \in {"requesting", "applied"} THEN {current[c]} ELSE {}

Exact(c) ==
  /\ todo[c] \cap (UnderWay(c) \cup succeeded[c] \cup failed[c]) = {}
  /\ UnderWay(c) \cap (succeeded[c] \cup failed[c]) = {}
  /\ succeeded[c] \cap failed[c] = {}
  /\ todo[c] \cup UnderWay(c) \cup succeeded[c] \cup failed[c] = call[c] \ {Blank}

(* A call begins with all of its devices waiting.                          *)
LEMMA BeginExact ==
  ASSUME TypeOK, NEW c \in Clients, NEW ids, Begin(c, ids), NEW o \in Clients, Exact(o)
  PROVE  Exact(o)'
<1>1. CASE o = c
  BY <1>1 DEF Begin, Exact, UnderWay, TypeOK, uniqueStrings
<1>2. CASE o # c
  BY <1>2 DEF Begin, Exact, UnderWay, TypeOK
<1> QED
  BY <1>1, <1>2

(* Every step of a call moves a device from one place to the next.         *)
LEMMA ExactStep ==
  ASSUME TypeOK, CallInv, [Next]_vars, NEW o \in Clients, Exact(o)
  PROVE  Exact(o)'
<1>1. CASE UNCHANGED vars
  BY <1>1 DEF vars, report, Exact, UnderWay
<1>2. ASSUME NEW c \in Clients, CallBulk(c) \/ CallSingle(c) \/ Lose(c) PROVE Exact(o)'
  <2>1. \E ids : Begin(c, ids)
    BY <1>2 DEF CallBulk, CallSingle, Lose
  <2> QED
    BY <2>1, BeginExact
<1>3. ASSUME NEW c \in Clients, Request(c) PROVE Exact(o)'
  BY <1>3 DEF Request, report, Exact, UnderWay, TypeOK
<1>4. ASSUME NEW c \in Clients, Apply(c) PROVE Exact(o)'
  BY <1>4 DEF Apply, report, Exact, UnderWay, TypeOK
<1>5. ASSUME NEW c \in Clients, Succeed(c) PROVE Exact(o)'
  BY <1>5 DEF Succeed, Exact, UnderWay, TypeOK
<1>6. ASSUME NEW c \in Clients, Fail(c) PROVE Exact(o)'
  BY <1>6 DEF Fail, Exact, UnderWay, TypeOK
<1>7. ASSUME NEW c \in Clients, Return(c) PROVE Exact(o)'
  BY <1>7 DEF Return, report, Exact, UnderWay, TypeOK
<1>8. ASSUME NEW c \in Clients, Receive(c) PROVE Exact(o)'
  <2>1. CASE failed[c] = {}
    BY <1>8, <2>1 DEF Receive, report, Exact, UnderWay, TypeOK
  <2>2. CASE failed[c] # {}
    BY <1>8, <2>2, BeginExact DEF Receive
  <2> QED
    BY <2>1, <2>2
<1> QED
  BY <1>1, <1>2, <1>3, <1>4, <1>5, <1>6, <1>7, <1>8 DEF Next, Handle

(* The invariants together.                                                *)
ExactInv == \A c \in Clients : Exact(c)

LEMMA Calls == Spec => [](TypeOK /\ CallInv /\ ExactInv)
<1>1. Init => ExactInv
  BY DEF Init, Exact, UnderWay, ExactInv
<1>2. TypeOK /\ CallInv /\ ExactInv /\ [Next]_vars => ExactInv'
  BY ExactStep DEF ExactInv
<1> QED
  BY <1>1, <1>2, CallInit, TypeStep, CallStep, PTL DEF Spec

(* The report of a call is exact at every moment of the loop: no device    *)
(* is dropped, reported twice or invented, whatever fails and is repeated. *)
THEOREM ExactReport == Spec => []ReportExact
<1>1. ExactInv => ReportExact
  <2>1. ASSUME NEW c \in Clients, Exact(c), NEW i \in 1..4, NEW j \in 1..4, i # j
        PROVE  LET parts == <<todo[c], UnderWay(c), succeeded[c], failed[c]>>
               IN parts[i] \cap parts[j] = {}
    <3>1. i \in {1, 2, 3, 4} /\ j \in {1, 2, 3, 4}
      OBVIOUS
    <3> QED
      BY <2>1, <3>1 DEF Exact
  <2>2. ASSUME NEW c \in Clients, Exact(c)
        PROVE  LET parts == <<todo[c], UnderWay(c), succeeded[c], failed[c]>>
               IN UNION {parts[i] : i \in 1..4} = call[c] \ {Blank}
    <3> DEFINE parts == <<todo[c], UnderWay(c), succeeded[c], failed[c]>>
    <3>1. UNION {parts[i] : i \in 1..4} = todo[c] \cup UnderWay(c) \cup succeeded[c] \cup failed[c]
      OBVIOUS
    <3> QED
      BY <2>2, <3>1 DEF Exact
  <2> QED
    BY <2>1, <2>2 DEF ReportExact, UnderWay, ExactInv
<1> QED
  BY <1>1, Calls, PTL

(* The clients that say what they want.                                    *)
Explicit == \A c \in Clients : asked[c] # None => asked[c].flag \in BOOLEAN

(* If every call has its authorized argument, a device changes only by a   *)
(* call that names it, to what that call says.                             *)
THEOREM AsAsked ==
  ASSUME Flags \subseteq BOOLEAN
  PROVE  Spec => OnlyAsAsked
<1>1. Init => Explicit
  BY DEF Init, Explicit
<1>2. TypeOK /\ Explicit /\ [Next]_vars => Explicit'
  <2> SUFFICES ASSUME TypeOK, Explicit, [Next]_vars PROVE Explicit'
    OBVIOUS
  <2>1. asked' = asked \/ \E c \in Clients : CallBulk(c) \/ CallSingle(c)
    BY DEF Next, Handle, Request, Apply, Succeed, Fail, Return, Receive, Lose, vars
  <2>2. ASSUME NEW c \in Clients, CallBulk(c) \/ CallSingle(c) PROVE Explicit'
    <3>1. PICK flag \in BOOLEAN : \E ids : asked' = [asked EXCEPT ![c] = [ids |-> ids, flag |-> flag]]
      BY <2>2 DEF CallBulk, CallSingle
    <3> QED
      BY <3>1 DEF Explicit, TypeOK
  <2> QED
    BY <2>1, <2>2 DEF Explicit
<1>3. TypeOK /\ CallInv /\ Explicit /\ [Next]_vars
        => [\A d \in Devices : authorized'[d] # authorized[d] =>
              \E c \in Clients : d \in Asked(c) /\ authorized'[d] = asked[c].flag]_vars
  <2>1. SUFFICES ASSUME TypeOK, CallInv, Explicit, Next, NEW d \in Devices, authorized'[d] # authorized[d]
                 PROVE  \E c \in Clients : d \in Asked(c) /\ authorized'[d] = asked[c].flag
    BY DEF vars
  <2>2. PICK c \in Clients : Apply(c)
    BY <2>1 DEF Next, Handle, CallBulk, CallSingle, Begin, Request, Succeed, Fail, Return, Receive, Lose
  <2>3. d = current[c] /\ authorized'[d] = boolArg(asked[c].flag)
    BY <2>1, <2>2 DEF Apply, TypeOK
  <2>4. d \in Asked(c)
    BY <2>1, <2>2, <2>3 DEF Apply, CallInv
  <2>5. asked[c].flag \in BOOLEAN
    BY <2>1, <2>4 DEF Explicit, Asked
  <2>6. boolArg(asked[c].flag) = asked[c].flag
    BY <2>5, FlagAssumption DEF boolArg
  <2> QED
    BY <2>3, <2>4, <2>6
<1>4. Spec => [](TypeOK /\ CallInv)
  BY CallInit, TypeStep, CallStep, PTL DEF Spec
<1> QED
  BY <1>1, <1>2, <1>3, <1>4, PTL DEF Spec, OnlyAsAsked

-----------------------------------------------------------------------------
(***************************************************************************)
(* Refinement of DeviceSettings.                                           *)
(***************************************************************************)

Wish == [c \in Clients |-> IF asked[c] = None THEN None
                           ELSE [ids |-> Asked(c), flag |-> asked[c].flag = TRUE]]
Left == [c \in Clients |-> Pending(c)]
Done == {c \in Clients : pc[c] = "done"}

(* What the client wants is a value, whether it has given one or not.      *)
LEMMA FlagValue ==
  ASSUME TypeOK, NEW c \in Clients, asked[c] # None
  PROVE  (asked[c].flag = TRUE) = boolArg(asked[c].flag)
<1>1. asked[c].flag \in BOOLEAN \cup {NoFlag}
  BY DEF TypeOK, Wanted
<1>2. NoFlag \notin BOOLEAN
  BY FlagAssumption
<1> QED
  BY <1>1, <1>2 DEF boolArg

(* Whoever has asked for something has a wish.                             *)
LEMMA WishIs ==
  ASSUME TypeOK, NEW c \in Clients, asked[c] # None
  PROVE  /\ Wish[c] = [ids |-> Asked(c), flag |-> asked[c].flag = TRUE]
         /\ Wish[c].ids = Asked(c) /\ Wish[c] # None
<1>1. \A ds \in SUBSET Devices, f \in BOOLEAN : [ids |-> ds, flag |-> f] # None
  <2>1. \A ds \in SUBSET Devices, f \in BOOLEAN : [ids |-> ds, flag |-> f] \in Wanted
    BY DEF Wanted
  <2> QED
    BY <2>1, NoneAssumption
<1>2. Wish[c] = [ids |-> Asked(c), flag |-> asked[c].flag = TRUE]
  BY DEF Wish
<1>3. Asked(c) \in SUBSET Devices /\ (asked[c].flag = TRUE) \in BOOLEAN
  BY AskedDevices
<1>4. [ids |-> Asked(c), flag |-> asked[c].flag = TRUE] # None
  BY <1>1, <1>3
<1> QED
  BY <1>2, <1>4

(* A call that has nothing under way has its devices waiting, or failed.   *)
LEMMA BeginLeft ==
  ASSUME TypeOK, NEW c \in Clients, NEW ids \in SUBSET (Devices \cup {Blank}), Begin(c, ids)
  PROVE  Left' = [Left EXCEPT ![c] = ids \ {Blank}] /\ Done' = Done \ {c}
<1>1. pc'[c] = "running" /\ todo'[c] = ids \ {Blank} /\ failed'[c] = {}
  BY DEF Begin, TypeOK, uniqueStrings
<1>2. Pending(c)' = ids \ {Blank}
  BY <1>1 DEF Pending
<1>3. ASSUME NEW o \in Clients, o # c PROVE Pending(o)' = Pending(o) /\ pc'[o] = pc[o]
  BY <1>3 DEF Begin, TypeOK, Pending
<1>4. Left' = [Left EXCEPT ![c] = ids \ {Blank}]
  BY <1>2, <1>3 DEF Left
<1>5. Done' = Done \ {c}
  BY <1>1, <1>3 DEF Done
<1> QED
  BY <1>4, <1>5

(* A first call makes a wish.                                              *)
LEMMA FirstWish ==
  ASSUME TypeOK, CallInv, NEW c \in Clients, pc[c] = "new",
         NEW ids \in SUBSET (Devices \cup {Blank}), NEW flag \in BOOLEAN \cup {NoFlag},
         asked' = [asked EXCEPT ![c] = [ids |-> ids, flag |-> flag]], Begin(c, ids)
  PROVE  DS!Want(c)
<1>1. asked[c] = None /\ c \notin Done
  BY DEF CallInv, Done
<1>2. /\ asked'[c] = [ids |-> ids, flag |-> flag] /\ asked'[c] # None
      /\ \A o \in Clients \ {c} : asked'[o] = asked[o]
  <2>1. [ids |-> ids, flag |-> flag] \in Wanted
    BY DEF Wanted
  <2> QED
    BY <2>1, NoneAssumption DEF TypeOK
<1>3. Asked(c)' = ids \ {Blank} /\ \A o \in Clients \ {c} : Asked(o)' = Asked(o)
  BY <1>2 DEF Asked
<1>4. Wish' = [Wish EXCEPT ![c] = [ids |-> ids \ {Blank}, flag |-> flag = TRUE]]
  <2>1. asked'[c].flag = flag
    BY <1>2
  <2>2. Wish'[c] = [ids |-> ids \ {Blank}, flag |-> flag = TRUE]
    BY <1>2, <1>3, <2>1 DEF Wish
  <2>3. \A o \in Clients \ {c} : Wish'[o] = Wish[o]
    BY <1>2, <1>3 DEF Wish
  <2>4. /\ DOMAIN Wish = Clients /\ Wish = [o \in Clients |-> Wish[o]]
        /\ DOMAIN Wish' = Clients /\ Wish' = [o \in Clients |-> Wish'[o]]
    BY Zenon DEF Wish
  <2> HIDE DEF Wish
  <2> QED
    BY <2>2, <2>3, <2>4
<1>5. Left' = [Left EXCEPT ![c] = ids \ {Blank}] /\ Done' = Done
  BY <1>1, BeginLeft
<1>6. ids \ {Blank} \in SUBSET Devices /\ (flag = TRUE) \in BOOLEAN /\ Wish[c] = None
  BY <1>1 DEF Wish
<1>7. UNCHANGED authorized
  BY DEF Begin
<1> QED
  BY <1>4, <1>5, <1>6, <1>7 DEF DS!Want, Wish, Left, Done

(* Steps that leave tailnet, wishes and reports as they are.               *)
LEMMA SettingsStutter ==
  ASSUME asked' = asked, authorized' = authorized,
         \A c \in Clients : Pending(c)' = Pending(c) /\ (pc'[c] = "done" <=> pc[c] = "done")
  PROVE  UNCHANGED DS!settings
  BY DEF DS!settings, Asked

(* Only what one client has left to set changes.                           *)
LEMMA LeftOf ==
  ASSUME NEW c \in Clients, NEW ds, Pending(c)' = ds,
         \A o \in Clients \ {c} : Pending(o)' = Pending(o)
  PROVE  Left' = [Left EXCEPT ![c] = ds]
  BY DEF Left

(* A request is sent, answered, or fails before it took effect: what is    *)
(* left to set stays so.                                                   *)
LEMMA LoopStutters ==
  ASSUME TypeOK, CallInv, NEW c \in Clients,
         \/ Request(c) \/ Succeed(c) \/ Return(c)
         \/ Fail(c) /\ pc[c] = "requesting"
  PROVE  UNCHANGED DS!settings
<1>1. ASSUME NEW o \in Clients, o # c PROVE Pending(o)' = Pending(o) /\ pc'[o] = pc[o]
  BY <1>1 DEF Request, Succeed, Return, Fail, report, Pending, TypeOK
<1>2. Pending(c)' = Pending(c) /\ pc'[c] # "done" /\ pc[c] # "done"
  <2>1. CASE Request(c)
    <3>1. PICK d \in todo[c] : current'[c] = d /\ todo'[c] = todo[c] \ {d}
      BY <2>1 DEF Request, TypeOK
    <3>2. pc[c] = "running" /\ pc'[c] = "requesting" /\ failed' = failed
      BY <2>1 DEF Request, TypeOK, report
    <3> QED
      BY <3>1, <3>2 DEF Pending
  <2>2. CASE Succeed(c)
    BY <2>2 DEF Succeed, Pending, TypeOK
  <2>3. CASE Return(c)
    BY <2>3 DEF Return, report, Pending, TypeOK
  <2>4. CASE Fail(c) /\ pc[c] = "requesting"
    BY <2>4 DEF Fail, Pending, TypeOK
  <2> QED
    BY <2>1, <2>2, <2>3, <2>4
<1>3. asked' = asked /\ authorized' = authorized
  BY DEF Request, Succeed, Return, Fail
<1> QED
  BY <1>1, <1>2, <1>3, SettingsStutter

(* A request that takes effect sets its device, which was left to set.     *)
LEMMA ApplySets ==
  ASSUME TypeOK, CallInv, ExactInv, NEW c \in Clients, Apply(c) PROVE DS!Set(c)
<1> DEFINE d == current[c]
<1>1. pc[c] = "requesting" /\ pc'[c] = "applied" /\ d \in Devices
  BY DEF Apply, TypeOK
<1>2. d \notin todo[c] \cup failed[c]
  BY <1>1 DEF ExactInv, Exact, UnderWay
<1>3. Pending(c)' = Pending(c) \ {d} /\ d \in Pending(c)
  BY <1>1, <1>2 DEF Apply, report, Pending
<1>4. ASSUME NEW o \in Clients, o # c PROVE Pending(o)' = Pending(o) /\ pc'[o] = pc[o]
  BY <1>4 DEF Apply, report, Pending, TypeOK
<1>5. Left' = [Left EXCEPT ![c] = Pending(c) \ {d}] /\ Left[c] = Pending(c)
  BY <1>3, <1>4, LeftOf DEF Left
<1>6. Done' = Done
  BY <1>1, <1>4 DEF Done
<1>7. asked' = asked /\ asked[c] # None
  BY <1>1 DEF Apply, CallInv
<1>8. Wish' = Wish
  BY <1>7 DEF Wish, Asked
<1>9. authorized' = [authorized EXCEPT ![d] = Wish[c].flag]
  <2>1. Wish[c].flag = (asked[c].flag = TRUE)
    BY <1>7 DEF Wish
  <2>2. Wish[c].flag = boolArg(asked[c].flag)
    BY <1>7, <2>1, FlagValue
  <2>3. authorized' = [authorized EXCEPT ![d] = boolArg(asked[c].flag)]
    BY DEF Apply
  <2> QED
    BY <2>2, <2>3
<1>10. /\ d \in Left[c]
       /\ Left' = [Left EXCEPT ![c] = @ \ {d}]
  BY <1>3, <1>5
<1> QED
  BY <1>6, <1>8, <1>9, <1>10 DEF DS!Set, Wish, Left, Done

(* An answer that is lost puts devices back.                               *)
LEMMA LostAgain ==
  ASSUME TypeOK, CallInv, NEW c \in Clients,
         Lose(c) \/ (Fail(c) /\ pc[c] = "applied")
  PROVE  DS!Again(c)
<1>1. pc[c] # "new" /\ asked[c] # None /\ c \notin Done /\ asked' = asked
  BY DEF Lose, Fail, CallInv, Done
<1>2. Wish' = Wish /\ Wish[c] # None /\ Wish[c].ids = Asked(c)
  BY <1>1, WishIs DEF Wish, Asked
<1>3. authorized' = authorized
  BY DEF Lose, Fail, Begin
<1>4. PICK ds \in SUBSET Asked(c) : Left' = [Left EXCEPT ![c] = @ \cup ds] /\ Done' = Done
  <2>1. CASE Lose(c)
    <3>1. Begin(c, asked[c].ids) /\ asked[c].ids \in SUBSET (Devices \cup {Blank})
      BY <1>1, <2>1 DEF Lose, TypeOK, Wanted
    <3>2. Left' = [Left EXCEPT ![c] = Asked(c)] /\ Done' = Done
      BY <1>1, <3>1, BeginLeft DEF Asked
    <3>3. Left[c] \subseteq Asked(c)
      BY <2>1 DEF Lose, Left, Pending, CallInv
    <3> QED
      BY <3>2, <3>3
  <2>2. CASE Fail(c) /\ pc[c] = "applied"
    <3>1. current[c] \in Asked(c)
      BY <2>2 DEF CallInv
    <3>2. Pending(c)' = Pending(c) \cup {current[c]}
      BY <2>2 DEF Fail, Pending, TypeOK
    <3>3. ASSUME NEW o \in Clients, o # c PROVE Pending(o)' = Pending(o) /\ pc'[o] = pc[o]
      BY <2>2, <3>3 DEF Fail, Pending, TypeOK
    <3>4. Left' = [Left EXCEPT ![c] = Pending(c) \cup {current[c]}] /\ Left[c] = Pending(c)
      BY <3>2, <3>3, LeftOf DEF Left
    <3>5. Done' = Done
      BY <2>2, <3>3 DEF Fail, Done, TypeOK
    <3> QED
      BY <3>1, <3>4, <3>5
  <2> QED
    BY <2>1, <2>2
<1> QED
  BY <1>1, <1>2, <1>3, <1>4 DEF DS!Again, Wish, Left, Done

(* A report without failures ends the client's work; one with failures     *)
(* only begins another call for what is left.                              *)
LEMMA ReceiveFinishes ==
  ASSUME TypeOK, CallInv, NEW c \in Clients, Receive(c)
  PROVE  DS!Finish(c) \/ UNCHANGED DS!settings
<1>1. /\ pc[c] = "returned" /\ todo[c] = {} /\ asked[c] # None /\ asked' = asked
      /\ Pending(c) = failed[c] /\ c \notin Done
  BY DEF Receive, CallInv, Pending, Done
<1>2. Wish' = Wish /\ authorized' = authorized
  BY <1>1 DEF Wish, Asked, Receive, Begin
<1>3. CASE failed[c] = {}
  <2>1. \A o \in Clients : Pending(o)' = Pending(o)
    BY <1>3 DEF Receive, report, Pending, TypeOK
  <2>2. Left' = Left /\ Left[c] = {}
    BY <1>1, <1>3, <2>1 DEF Left
  <2>3. Done' = Done \cup {c}
    BY <1>3 DEF Receive, Done, TypeOK
  <2>4. Wish[c] # None
    BY <1>1, WishIs
  <2> QED
    BY <1>2, <2>2, <2>3, <2>4 DEF DS!Finish, Wish, Left, Done
<1>4. CASE failed[c] # {}
  <2>1. Begin(c, failed[c]) /\ failed[c] \in SUBSET Devices
    BY <1>4 DEF Receive, TypeOK
  <2>2. failed[c] \ {Blank} = failed[c]
    BY <2>1, DeviceAssumption
  <2>3. Left' = [Left EXCEPT ![c] = failed[c]] /\ Done' = Done
    BY <1>1, <2>1, <2>2, BeginLeft
  <2>4. Left' = Left
    BY <1>1, <2>3 DEF Left
  <2> QED
    BY <1>2, <2>3, <2>4 DEF DS!settings, Wish, Left, Done
<1> QED
  BY <1>3, <1>4

LEMMA SettingsInit == Init => DS!Init
  BY DEF Init, DS!Init, Pending

(* Every step is one of DeviceSettings, or none.                           *)
LEMMA SettingsStep == TypeOK /\ CallInv /\ ExactInv /\ [Next]_vars => [DS!Next]_(DS!settings)
<1> SUFFICES ASSUME TypeOK, CallInv, ExactInv, [Next]_vars
             PROVE  DS!Next \/ UNCHANGED DS!settings
  OBVIOUS
<1>1. CASE UNCHANGED vars
  BY <1>1, SettingsStutter DEF vars, report, Pending
<1>2. ASSUME NEW c \in Clients, CallBulk(c) PROVE DS!Want(c)
  <2>1. PICK ids \in Lists, flag \in Flags :
          asked' = [asked EXCEPT ![c] = [ids |-> ids, flag |-> flag]] /\ Begin(c, ids)
    BY <1>2 DEF CallBulk
  <2>2. ids \in SUBSET (Devices \cup {Blank}) /\ flag \in BOOLEAN \cup {NoFlag}
    BY DeviceAssumption, FlagAssumption
  <2> QED
    BY <1>2, <2>1, <2>2, FirstWish DEF CallBulk
<1>3. ASSUME NEW c \in Clients, CallSingle(c) PROVE DS!Want(c)
  <2>1. PICK d \in Devices, flag \in BOOLEAN :
          asked' = [asked EXCEPT ![c] = [ids |-> {d}, flag |-> flag]] /\ Begin(c, {d})
    BY <1>3 DEF CallSingle
  <2> QED
    BY <1>3, <2>1, FirstWish DEF CallSingle
<1>4. ASSUME NEW c \in Clients, Handle(c) PROVE DS!Next \/ UNCHANGED DS!settings
  <2>1. CASE Apply(c)
    BY <2>1, ApplySets DEF DS!Next
  <2>2. CASE Fail(c) /\ pc[c] = "applied"
    BY <2>2, LostAgain DEF DS!Next
  <2>3. CASE Request(c) \/ Succeed(c) \/ Return(c) \/ (Fail(c) /\ pc[c] = "requesting")
    BY <2>3, LoopStutters
  <2> QED
    BY <1>4, <2>1, <2>2, <2>3 DEF Handle, Fail
<1>5. ASSUME NEW c \in Clients, Receive(c) PROVE DS!Next \/ UNCHANGED DS!settings
  BY <1>5, ReceiveFinishes DEF DS!Next
<1>6. ASSUME NEW c \in Clients, Lose(c) PROVE DS!Next
  BY <1>6, LostAgain DEF DS!Next
<1> QED
  BY <1>1, <1>2, <1>3, <1>4, <1>5, <1>6 DEF Next, DS!Next

(* The tools implement DeviceSettings, for any number of clients, devices  *)
(* and faults, and any lists: loop, report, failures and repeats add       *)
(* nothing, and drop nothing that was to be set.                           *)
THEOREM Refinement == Spec => ImplementsDeviceSettings
  BY SettingsInit, SettingsStep, Calls, PTL DEF Spec, ImplementsDeviceSettings, DS!Spec
=============================================================================
