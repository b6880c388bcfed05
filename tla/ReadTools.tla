----------------------------- MODULE ReadTools -----------------------------
(***************************************************************************)
(* The tools and resources whose answer is put together from several       *)
(* reads: get_device_info and tailscale://device, which list the devices   *)
(* and then fetch one by its ID (findDevice); tailscale_status, which      *)
(* reads the devices and then the settings; and the diagnostics that run   *)
(* the tailscale CLI.  list_all_devices is the case of a single read.  The *)
(* tailnet changes between any two reads, and any read may fail.           *)
(*                                                                         *)
(* The server keeps nothing between calls, so one call at a time shows     *)
(* all there is; the access check before each is AccessControl's.          *)
(***************************************************************************)
EXTENDS Naturals, Sequences, FiniteSets

CONSTANTS
  Ids,          \* device IDs
  Names,        \* what a device may be called by besides: hostnames, addresses
  Records,      \* the records of devices: [hostname, addresses]
  Settings,     \* values of the tailnet settings
  Missing,      \* an argument that is absent, empty or not a string
  Blank,        \* an argument of blanks only
  BadTarget,    \* a ping target validPingTarget refuses
  ListLimit,    \* the most devices whose listing fits into 4 MiB
  MaxChanges,   \* bound on changes of the tailnet during a call
  None

ASSUME RecordAssumption ==
  Records \subseteq [hostname : Names, addresses : SUBSET Names]

ASSUME BoundAssumption == ListLimit \in Nat /\ MaxChanges \in Nat

\* A name may well be another device's ID: a hostname can be any digits.
ASSUME ArgumentAssumption ==
  /\ {Missing, Blank, BadTarget} \cap (Ids \cup Names) = {}
  /\ Missing \notin {Blank, BadTarget}
  /\ None \notin Settings \cup Ids \cup Nat

Lookups == {"get_device_info", "tailscale://device"}
Reports == {"tailscale_local_status", "tailscale_netcheck"}
Texts == {"tailscale_ping", "tailscale_local_version"}
Tools == Lookups \cup {"list_all_devices", "tailscale_status"} \cup Reports \cup Texts

Keys == Ids \cup Names
Tailnets == UNION {[ds -> Records] : ds \in SUBSET Ids}

VARIABLES
  tailnet,   \* the records of the devices there are, by ID
  settings,  \* the settings of the tailnet
  used,      \* the IDs ever given to a device
  tool, arg, \* the call in progress
  pc,        \* "idle", "devices", "device", "settings", "cli", "done"
  target,    \* findDevice: the device to fetch
  count,     \* tailscale_status: the number of devices, None if unknown
  reply,     \* the answer
  moments,   \* history: [tailnet, settings] since the call began, in order
  failures   \* history: how many reads of this call failed

world == <<tailnet, settings, used>>
asked == <<tool, arg>>
vars == <<world, asked, pc, target, count, reply, moments, failures>>

Now == [tailnet |-> tailnet, settings |-> settings]

Init ==
  /\ tailnet \in [Ids -> Records] \cup {<<>>}
  /\ settings \in Settings
  /\ used = DOMAIN tailnet
  /\ tool = "list_all_devices" /\ arg = Missing
  /\ pc = "idle" /\ target = None /\ count = None
  /\ reply = [kind |-> "none"] /\ moments = <<>> /\ failures = 0

Answer(r) == pc' = "done" /\ reply' = r

(* The answers a call can get.                                             *)
Error == [kind |-> "error"]
NotFound == [kind |-> "not found"]
Found(d, r) == [kind |-> "device", id |-> d, record |-> r]
Listing(t) == [kind |-> "devices", tailnet |-> t]
Health(n, s) == [kind |-> "status", count |-> n, settings |-> s]
Output(whole) == [kind |-> "output", whole |-> whole]

-----------------------------------------------------------------------------
(* stringArg makes "<nil>" of a target that is missing, which is no name.  *)
validPingTarget(a) == a \notin {Missing, Blank, BadTarget}

(* What the handlers refuse before any read: get_device_info a blank       *)
(* argument, the resource an empty one only.                               *)
Acceptable(t, a) ==
  CASE t = "get_device_info" -> a \notin {Missing, Blank}
    [] t = "tailscale://device" -> a # Missing
    [] t = "tailscale_ping" -> validPingTarget(a)
    [] OTHER -> TRUE

Call ==
  /\ pc = "idle"
  /\ tool' \in Tools /\ arg' \in Keys \cup {Missing, Blank, BadTarget}
  /\ moments' = <<Now>>
  /\ IF Acceptable(tool', arg')
       THEN /\ pc' = IF tool' \in Reports \cup Texts THEN "cli" ELSE "devices"
            /\ UNCHANGED reply
       ELSE Answer(Error)
  /\ UNCHANGED <<world, target, count, failures>>

-----------------------------------------------------------------------------
NamedOnly(d, r, id) == r.hostname = id

(* findDevice's condition on the device d with record r.                   *)
IsCalled(d, r, id) == d = id \/ r.hostname = id \/ id \in r.addresses

LeaveUnmatched(t, id) == DOMAIN t

FetchByArgument(t, id) == {e \in {id} : \E d \in DOMAIN t : IsCalled(d, t[d], id)}

(* The devices of a listing the argument can stand for.  findDevice takes  *)
(* the first in the order of the listing, which the API leaves open.       *)
Candidates(t, id) == {d \in DOMAIN t : IsCalled(d, t[d], id)}

\* findDevice's listing, and that of list_all_devices.
ListDevices ==
  /\ pc = "devices" /\ tool \in Lookups \cup {"list_all_devices"}
  /\ IF tool = "list_all_devices"
       THEN Answer(Listing(tailnet)) /\ UNCHANGED target
       ELSE IF Candidates(tailnet, arg) = {}
         THEN Answer(NotFound) /\ UNCHANGED target
         ELSE target' \in Candidates(tailnet, arg) /\ pc' = "device" /\ UNCHANGED reply
  /\ UNCHANGED <<world, asked, count, moments, failures>>

\* GetWithAllFields of the ID found: an error if the device is gone.
GetDevice ==
  /\ pc = "device"
  /\ Answer(IF target \in DOMAIN tailnet THEN Found(target, tailnet[target]) ELSE Error)
  /\ UNCHANGED <<world, asked, target, count, moments, failures>>

-----------------------------------------------------------------------------
ErrorAsZero(n) == IF n = None THEN 0 ELSE n

(* deviceCount; None stands for the null that comes with devicesError.     *)
DeviceCount(n) == n

(* The length of the decoded listing.  The error of Unmarshal is ignored,  *)
(* so a listing that was cut at 4 MiB counts as empty.                     *)
Length(t) == IF Cardinality(DOMAIN t) <= ListLimit THEN Cardinality(DOMAIN t) ELSE 0

\* tailscale_status: the devices first, whether or not that fails ...
StatusDevices ==
  /\ pc = "devices" /\ tool = "tailscale_status"
  /\ \/ count' = Length(tailnet) /\ UNCHANGED failures
     \/ count' = None /\ failures' = failures + 1
  /\ pc' = "settings"
  /\ UNCHANGED <<world, asked, target, reply, moments>>

EitherFails(n, s) ==
  IF n = None \/ s = None THEN Error ELSE Health(DeviceCount(n), s)

(* ... an error only if both reads fail ...                                *)
Compose(n, s) == IF n = None /\ s = None THEN Error ELSE Health(DeviceCount(n), s)

\* ... and then the settings.
StatusSettings ==
  /\ pc = "settings"
  /\ \/ Answer(Compose(count, settings)) /\ UNCHANGED failures
     \/ Answer(Compose(count, None)) /\ failures' = failures + 1
  /\ UNCHANGED <<world, asked, target, count, moments>>

\* A listing or the request for a device fails, and the call with it.
ReadFails ==
  /\ pc \in {"devices", "device"} /\ tool # "tailscale_status"
  /\ Answer(Error) /\ failures' = failures + 1
  /\ UNCHANGED <<world, asked, target, count, moments>>

(* runTailscaleCLI: the process is killed after 30 seconds; its output is  *)
(* cut at 1 MiB, and JSON that was cut does not parse.                     *)
RunCLI ==
  /\ pc = "cli"
  /\ \E inTime, exitZero, whole \in BOOLEAN :
       LET ok == inTime /\ exitZero /\ (tool \in Reports => whole)
       IN /\ Answer(IF ok THEN Output(whole) ELSE Error)
          /\ failures' = IF ok THEN 0 ELSE 1
  /\ UNCHANGED <<world, asked, target, count, moments>>

Return ==
  /\ pc = "done"
  /\ pc' = "idle" /\ reply' = [kind |-> "none"] /\ moments' = <<>>
  /\ target' = None /\ count' = None /\ failures' = 0
  /\ UNCHANGED <<world, asked>>

-----------------------------------------------------------------------------
(* The tailnet changes while a call is in progress: a device joins with a  *)
(* new ID, leaves, or changes its name or addresses; or the settings do.   *)
Changing == pc \in {"devices", "device", "settings"} /\ Len(moments) <= MaxChanges

Seen == moments' = Append(moments, Now')

Join(d, r) ==
  /\ Changing /\ d \notin used
  /\ tailnet' = [e \in DOMAIN tailnet \cup {d} |-> IF e = d THEN r ELSE tailnet[e]]
  /\ used' = used \cup {d}
  /\ UNCHANGED <<settings, asked, pc, target, count, reply, failures>>
  /\ Seen

Leave(d) ==
  /\ Changing /\ d \in DOMAIN tailnet
  /\ tailnet' = [e \in DOMAIN tailnet \ {d} |-> tailnet[e]]
  /\ UNCHANGED <<settings, used, asked, pc, target, count, reply, failures>>
  /\ Seen

Change(d, r) ==
  /\ Changing /\ d \in DOMAIN tailnet /\ r # tailnet[d]
  /\ tailnet' = [tailnet EXCEPT ![d] = r]
  /\ UNCHANGED <<settings, used, asked, pc, target, count, reply, failures>>
  /\ Seen

ChangeSettings(s) ==
  /\ Changing /\ s # settings
  /\ settings' = s
  /\ UNCHANGED <<tailnet, used, asked, pc, target, count, reply, failures>>
  /\ Seen

Serve ==
  \/ ListDevices \/ GetDevice \/ ReadFails
  \/ StatusDevices \/ StatusSettings \/ RunCLI

World ==
  \/ \E d \in Ids, r \in Records : Join(d, r) \/ Change(d, r)
  \/ \E d \in Ids : Leave(d)
  \/ \E s \in Settings : ChangeSettings(s)

Next == Call \/ Serve \/ Return \/ World

Spec == Init /\ [][Next]_vars

-----------------------------------------------------------------------------
Replies ==
  [kind : {"none", "error", "not found"}]
  \cup [kind : {"device"}, id : Ids, record : Records]
  \cup [kind : {"devices"}, tailnet : Tailnets]
  \cup [kind : {"status"}, count : Nat \cup {None}, settings : Settings \cup {None}]
  \cup [kind : {"output"}, whole : BOOLEAN]

(* The type invariant; moments end with the present while a call is on.    *)
TypeOK ==
  /\ tailnet \in Tailnets /\ settings \in Settings
  /\ DOMAIN tailnet \subseteq used /\ used \subseteq Ids
  /\ tool \in Tools /\ arg \in Keys \cup {Missing, Blank, BadTarget}
  /\ pc \in {"idle", "devices", "device", "settings", "cli", "done"}
  /\ target \in Ids \cup {None} /\ count \in Nat \cup {None}
  /\ reply \in Replies
  /\ moments \in Seq([tailnet : Tailnets, settings : Settings])
  /\ failures \in 0..2
  /\ pc # "idle" => Len(moments) > 0 /\ moments[Len(moments)] = Now

Matches(m, d) == d \in DOMAIN m.tailnet /\ arg \in {d, m.tailnet[d].hostname} \cup m.tailnet[d].addresses

(* The device get_device_info and tailscale://device answer with had the   *)
(* ID, hostname or address asked for at one moment of the call, and the    *)
(* record in the answer at that moment or a later one: nothing is mixed    *)
(* from two devices, and nothing is older than the call.                   *)
LookupJustified ==
  reply.kind = "device" =>
    \E i, j \in 1..Len(moments) :
      /\ i <= j
      /\ Matches(moments[i], reply.id)
      /\ reply.id \in DOMAIN moments[j].tailnet
      /\ moments[j].tailnet[reply.id] = reply.record

(* A lookup whose device is there under that name all through the call,    *)
(* and is the only one to be called so, finds it: it fails only if a       *)
(* request to the Admin API does.                                          *)
SteadyDeviceFound ==
  pc = "done" /\ tool \in Lookups /\ arg \in Keys /\ failures = 0 =>
    \A d \in Ids :
      (\A i \in 1..Len(moments), e \in Ids : Matches(moments[i], e) <=> e = d)
        => reply.kind = "device" /\ reply.id = d

(* tailscale_status: each part it reports was true at some moment of the   *)
(* call, the count of devices if their listing fits into the 4 MiB the     *)
(* client reads; a part is missing only if its read failed, and the other  *)
(* part is reported nevertheless.  (Both parts need not have been true at  *)
(* one moment.)                                                            *)
StatusTrue ==
  pc = "done" /\ tool = "tailscale_status" =>
    /\ reply.kind = "error" => failures = 2
    /\ reply.kind = "status" =>
         /\ reply.settings # None =>
              \E i \in 1..Len(moments) : moments[i].settings = reply.settings
         /\ reply.count # None =>
              \E i \in 1..Len(moments) :
                LET n == Cardinality(DOMAIN moments[i].tailnet)
                IN n > ListLimit \/ reply.count = n
         /\ reply.count = None \/ reply.settings = None => failures = 1
         /\ reply.count # None \/ reply.settings # None
=============================================================================
