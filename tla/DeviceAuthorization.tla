------------------------ MODULE DeviceAuthorization ------------------------
(***************************************************************************)
(* Authorizing and deauthorizing devices: tailscale_set_devices_authorized *)
(* (bulkAuthorizeHandler), one Admin API request per device, and the       *)
(* single-device tools (deviceBoolTool).  Calls of several clients         *)
(* interleave; any of the requests of a call may fail, or succeed with the *)
(* answer lost; the result of the call may be lost too; and clients repeat *)
(* a call for the devices it reports as failed.                            *)
(***************************************************************************)
EXTENDS Naturals, FiniteSets

CONSTANTS
  Clients,
  Devices,    \* the devices of the tailnet
  Lists,      \* the deviceIds arguments: sets of device IDs, and Blank
  Flags,      \* the authorized arguments: TRUE, FALSE, or NoFlag
  Blank,      \* the empty device ID
  NoFlag,     \* authorized is missing, or not a boolean
  MaxFaults,  \* bound on failed requests and lost answers
  None

ASSUME DeviceAssumption ==
  /\ Blank \notin Devices
  /\ Lists \subseteq SUBSET (Devices \cup {Blank})
  /\ MaxFaults \in Nat

Wanted == [ids : SUBSET (Devices \cup {Blank}), flag : BOOLEAN \cup {NoFlag}]

ASSUME NoneAssumption == None \notin Wanted

ASSUME FlagAssumption == Flags \subseteq BOOLEAN \cup {NoFlag} /\ NoFlag \notin BOOLEAN

VARIABLES
  authorized, \* the tailnet: which devices are authorized
  faults,     \* failed requests and lost answers so far
  pc,         \* "new", "running", "requesting", "applied", "returned", "done"
  asked,      \* asked[c]: [ids, flag] the client wants, None before
  call,       \* call[c]: the deviceIds of its present call
  todo,       \* the devices that call has not come to
  current,    \* the device it is at
  succeeded, failed  \* the report of its call

report == <<succeeded, failed>>
vars == <<authorized, faults, pc, asked, call, todo, current, report>>

-----------------------------------------------------------------------------
KeepBlanks(list) == list

(* The distinct IDs of the argument without blanks; they are then gone     *)
(* through in the order the client lists them, which is any order.         *)
uniqueStrings(list) == list \ {Blank}

PresentIsTrue(flag) == flag # NoFlag

(* boolArg: anything but the boolean true is false.                        *)
boolArg(flag) == IF flag = NoFlag THEN FALSE ELSE flag

Fault == faults < MaxFaults /\ faults' = faults + 1

Init ==
  /\ authorized \in [Devices -> BOOLEAN]
  /\ faults = 0
  /\ pc        = [c \in Clients |-> "new"]
  /\ asked     = [c \in Clients |-> None]
  /\ call      = [c \in Clients |-> {}]
  /\ todo      = [c \in Clients |-> {}]
  /\ current   = [c \in Clients |-> None]
  /\ succeeded = [c \in Clients |-> {}]
  /\ failed    = [c \in Clients |-> {}]

Begin(c, ids) ==
  /\ pc' = [pc EXCEPT ![c] = "running"]
  /\ call' = [call EXCEPT ![c] = ids]
  /\ todo' = [todo EXCEPT ![c] = uniqueStrings(ids)]
  /\ succeeded' = [succeeded EXCEPT ![c] = {}]
  /\ failed' = [failed EXCEPT ![c] = {}]
  /\ UNCHANGED <<authorized, current>>

CallBulk(c) ==
  /\ pc[c] = "new"
  /\ \E ids \in Lists, flag \in Flags :
       /\ asked' = [asked EXCEPT ![c] = [ids |-> ids, flag |-> flag]]
       /\ Begin(c, ids)
  /\ UNCHANGED faults

(* tailscale_device_authorize and tailscale_device_deauthorize.            *)
CallSingle(c) ==
  /\ pc[c] = "new"
  /\ \E d \in Devices, flag \in BOOLEAN :
       /\ asked' = [asked EXCEPT ![c] = [ids |-> {d}, flag |-> flag]]
       /\ Begin(c, {d})
  /\ UNCHANGED faults

RequestAgain(c) ==
  /\ pc[c] = "running"
  /\ \E d \in todo[c] : current' = [current EXCEPT ![c] = d]
  /\ pc' = [pc EXCEPT ![c] = "requesting"]
  /\ UNCHANGED <<authorized, faults, asked, call, todo, report>>

(* One iteration: the request for a device is sent...                      *)
Request(c) ==
  /\ pc[c] = "running"
  /\ \E d \in todo[c] :
       /\ current' = [current EXCEPT ![c] = d]
       /\ todo' = [todo EXCEPT ![c] = @ \ {d}]
  /\ pc' = [pc EXCEPT ![c] = "requesting"]
  /\ UNCHANGED <<authorized, faults, asked, call, report>>

(* ... and takes effect at the Admin API...                                *)
Apply(c) ==
  /\ pc[c] = "requesting"
  /\ authorized' = [authorized EXCEPT ![current[c]] = boolArg(asked[c].flag)]
  /\ pc' = [pc EXCEPT ![c] = "applied"]
  /\ UNCHANGED <<faults, asked, call, todo, current, report>>

Succeed(c) ==
  /\ pc[c] = "applied"
  /\ succeeded' = [succeeded EXCEPT ![c] = @ \cup {current[c]}]
  /\ pc' = [pc EXCEPT ![c] = "running"]
  /\ UNCHANGED <<authorized, faults, asked, call, todo, current, failed>>

FailWithoutContinue(c) ==
  /\ pc[c] \in {"requesting", "applied"} /\ Fault
  /\ failed' = [failed EXCEPT ![c] = @ \cup {current[c]}]
  /\ succeeded' = [succeeded EXCEPT ![c] = @ \cup {current[c]}]
  /\ pc' = [pc EXCEPT ![c] = "running"]
  /\ UNCHANGED <<authorized, asked, call, todo, current>>

FailStops(c) ==
  /\ pc[c] \in {"requesting", "applied"} /\ Fault
  /\ failed' = [failed EXCEPT ![c] = @ \cup {current[c]}]
  /\ pc' = [pc EXCEPT ![c] = "returned"]
  /\ UNCHANGED <<authorized, asked, call, todo, current, succeeded>>

(* ... or fails: refused, not sent, or its answer lost after it took       *)
(* effect, which the handler cannot tell apart.  The loop goes on.         *)
Fail(c) ==
  /\ pc[c] \in {"requesting", "applied"} /\ Fault
  /\ failed' = [failed EXCEPT ![c] = @ \cup {current[c]}]
  /\ pc' = [pc EXCEPT ![c] = "running"]
  /\ UNCHANGED <<authorized, asked, call, todo, current, succeeded>>

Return(c) ==
  /\ pc[c] = "running" /\ todo[c] = {}
  /\ pc' = [pc EXCEPT ![c] = "returned"]
  /\ UNCHANGED <<authorized, faults, asked, call, todo, current, report>>

(* The client gets the report, and repeats the call for what has failed... *)
Receive(c) ==
  /\ pc[c] = "returned"
  /\ IF failed[c] = {}
       THEN pc' = [pc EXCEPT ![c] = "done"] /\ UNCHANGED <<authorized, call, todo, current, report>>
       ELSE Begin(c, failed[c])
  /\ UNCHANGED <<faults, asked>>

(* ... or does not get it, and repeats the whole call.                     *)
Lose(c) ==
  /\ pc[c] = "returned" /\ Fault
  /\ Begin(c, asked[c].ids)
  /\ UNCHANGED asked

Handle(c) == Request(c) \/ Apply(c) \/ Succeed(c) \/ Fail(c) \/ Return(c)

Next == \E c \in Clients :
  CallBulk(c) \/ CallSingle(c) \/ Handle(c) \/ Receive(c) \/ Lose(c)

Spec == Init /\ [][Next]_vars

(* The server goes on with a call it has begun; faults, bounded, end.      *)
Fairness == \A c \in Clients : WF_vars(Handle(c)) /\ WF_vars(Receive(c) \/ Lose(c))
FairSpec == Spec /\ Fairness

-----------------------------------------------------------------------------
Asked(c) == IF asked[c] = None THEN {} ELSE asked[c].ids \ {Blank}

TypeOK ==
  /\ authorized \in [Devices -> BOOLEAN]
  /\ faults \in 0..MaxFaults
  /\ pc \in [Clients -> {"new", "running", "requesting", "applied", "returned", "done"}]
  /\ asked \in [Clients -> Wanted \cup {None}]
  /\ call \in [Clients -> SUBSET (Devices \cup {Blank})]
  /\ todo \in [Clients -> SUBSET Devices]
  /\ current \in [Clients -> Devices \cup {None}]
  /\ succeeded \in [Clients -> SUBSET Devices]
  /\ failed \in [Clients -> SUBSET Devices]
  /\ \A c \in Clients : pc[c] \in {"requesting", "applied"} => current[c] \in Devices

(* "the response includes per-device success and failure details without   *)
(* hiding partial success" (operator-tool-surface/spec.md): throughout the *)
(* loop each device of the call is in exactly one place - waiting, under   *)
(* way, reported succeeded or reported failed - and nothing else is.       *)
ReportExact ==
  \A c \in Clients :
    LET now == IF pc[c] \in {"requesting", "applied"} THEN {current[c]} ELSE {}
        parts == <<todo[c], now, succeeded[c], failed[c]>> IN
    /\ \A i, j \in 1..4 : i # j => parts[i] \cap parts[j] = {}
    /\ UNION {parts[i] : i \in 1..4} = call[c] \ {Blank}

(* A client is done when every device it named has been set: if nobody     *)
(* else names a device with the other value, it has the value the client   *)
(* asked for - whatever failed, got lost or was repeated on the way.       *)
AgreedValueHolds ==
  \A c \in Clients, d \in Devices :
    /\ pc[c] = "done" /\ d \in Asked(c)
    /\ \A o \in Clients : d \in Asked(o) => boolArg(asked[o].flag) = boolArg(asked[c].flag)
    => authorized[d] = boolArg(asked[c].flag)

(* The inductive invariant behind it: the devices of a call that are not   *)
(* waiting, under way or failed have been set.                             *)
Pending(c) == todo[c] \cup failed[c] \cup (IF pc[c] = "requesting" THEN {current[c]} ELSE {})

Agreed(d) ==
  \A c, o \in Clients :
    d \in Asked(c) /\ d \in Asked(o) => boolArg(asked[c].flag) = boolArg(asked[o].flag)

Settled(c) ==
  \A d \in Asked(c) \ Pending(c) : Agreed(d) => authorized[d] = boolArg(asked[c].flag)

CallInv ==
  \A c \in Clients :
    /\ pc[c] = "new" <=> asked[c] = None
    /\ todo[c] \cup failed[c] \subseteq Asked(c)
    /\ pc[c] \in {"requesting", "applied"} => current[c] \in Asked(c)
    /\ pc[c] \in {"returned", "done"} => todo[c] = {}
    /\ pc[c] = "done" => failed[c] = {}
    /\ Settled(c)

(* The tools set devices one by one, to the values asked for, and a client *)
(* is done only when all of its devices have been set: loop, report and    *)
(* repeats implement DeviceSettings.  Left to set are the devices of the   *)
(* call that are waiting, reported failed, or requested without an effect  *)
(* so far.  (A call without a flag counts as one that asks for FALSE.)     *)
DS == INSTANCE DeviceSettings WITH
  wish <- [c \in Clients |-> IF asked[c] = None THEN None
                             ELSE [ids |-> Asked(c), flag |-> asked[c].flag = TRUE]],
  left <- [c \in Clients |-> Pending(c)],
  done <- {c \in Clients : pc[c] = "done"}

ImplementsDeviceSettings == DS!Spec

(* A device changes only by a call that names it, to what the call says.   *)
(* Meant for calls that say it; see NoFlagNoChange for those that do not.  *)
OnlyAsAsked ==
  [][\A d \in Devices : authorized'[d] # authorized[d] =>
       \E c \in Clients : d \in Asked(c) /\ authorized'[d] = asked[c].flag]_vars

(* mcp.WithBoolean("authorized", mcp.Required()): the argument is          *)
(* required, so a call without it should change nothing.                   *)
NoFlagNoChange ==
  [][\A c \in Clients :
       pc[c] = "requesting" /\ pc'[c] = "applied" /\ asked[c].flag = NoFlag
         => authorized' = authorized]_vars

(* Retrying ends: every call is eventually done.                           *)
EveryCallCompletes == \A c \in Clients : pc[c] # "new" ~> pc[c] = "done"
=============================================================================
