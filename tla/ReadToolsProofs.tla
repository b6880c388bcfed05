--------------------------- MODULE ReadToolsProofs ---------------------------
(***************************************************************************)
(* Device lookup, for any devices and names and any changes of the tailnet *)
(* during the call: the answer is a device that was called as the caller   *)
(* asked, with a record it had then or later.                              *)
(***************************************************************************)
EXTENDS ReadTools, FiniteSetTheorems, TLAPS

Moment == [tailnet : Tailnets, settings : Settings]

(* LookupJustified says nothing before the answer.  Between the two        *)
(* requests the device to fetch is one that was called so at a moment past *)
(* by; and the present is the last of the moments, so the record fetched   *)
(* is one of a later moment.                                               *)
Named(ms, d, a) == \E i \in 1..Len(ms) : d \in DOMAIN ms[i].tailnet /\ IsCalled(d, ms[i].tailnet[d], a)

Justified(ms, d, r, a) ==
  \E i, j \in 1..Len(ms) :
    /\ i <= j
    /\ d \in DOMAIN ms[i].tailnet /\ IsCalled(d, ms[i].tailnet[d], a)
    /\ d \in DOMAIN ms[j].tailnet /\ ms[j].tailnet[d] = r

LookupInv ==
  /\ moments \in Seq(Moment)
  /\ tailnet \in Tailnets /\ settings \in Settings
  /\ pc # "idle" => Len(moments) > 0 /\ moments[Len(moments)] = Now
  /\ pc = "device" => Named(moments, target, arg)
  /\ reply.kind = "device" => pc = "done" /\ Justified(moments, reply.id, reply.record, arg)

-----------------------------------------------------------------------------
LEMMA LookupInit == Init => LookupInv
<1> SUFFICES ASSUME Init PROVE LookupInv
  OBVIOUS
<1>1. tailnet \in Tailnets
  <2>1. CASE tailnet \in [Ids -> Records]
    BY <2>1 DEF Tailnets
  <2>2. CASE tailnet = << >>
    <3>1. tailnet \in [{} -> Records]
      BY <2>2
    <3> QED
      BY <3>1 DEF Tailnets
  <2> QED
    BY <2>1, <2>2 DEF Init
<1> QED
  BY <1>1 DEF Init, LookupInv

(* What is named at some moments is named at more of them.                 *)
LEMMA NamedLater ==
  ASSUME NEW ms \in Seq(Moment), NEW m \in Moment, NEW d, NEW a, Named(ms, d, a)
  PROVE  Named(Append(ms, m), d, a)
<1>1. PICK i \in 1..Len(ms) : d \in DOMAIN ms[i].tailnet /\ IsCalled(d, ms[i].tailnet[d], a)
  BY DEF Named
<1>2. i \in 1..Len(Append(ms, m)) /\ Append(ms, m)[i] = ms[i]
  OBVIOUS
<1> HIDE DEF Named
<1> QED
  BY <1>1, <1>2 DEF Named

(* A change of the tailnet adds a moment.                                  *)
LEMMA WorldStep == LookupInv /\ World => LookupInv'
<1> SUFFICES ASSUME LookupInv, World PROVE LookupInv'
  OBVIOUS
<1>1. /\ moments' = Append(moments, Now')
      /\ UNCHANGED <<asked, pc, target, reply>>
      /\ pc \in {"devices", "device", "settings"}
  BY DEF World, Join, Leave, Change, ChangeSettings, Seen, Changing
<1>2. tailnet' \in Tailnets /\ settings' \in Settings
  <2>1. PICK ds \in SUBSET Ids : tailnet \in [ds -> Records]
    BY DEF LookupInv, Tailnets
  <2>2. ASSUME NEW d \in Ids, NEW r \in Records, Join(d, r) PROVE tailnet' \in [ds \cup {d} -> Records]
    BY <2>1, <2>2 DEF Join
  <2>3. ASSUME NEW d \in Ids, NEW r \in Records, Change(d, r) PROVE tailnet' \in [ds -> Records]
    BY <2>1, <2>3 DEF Change
  <2>4. ASSUME NEW d \in Ids, Leave(d) PROVE tailnet' \in [ds \ {d} -> Records]
    BY <2>1, <2>4 DEF Leave
  <2>5. ASSUME NEW s \in Settings, ChangeSettings(s) PROVE tailnet' \in [ds -> Records]
    BY <2>1, <2>5 DEF ChangeSettings
  <2>6. tailnet' \in Tailnets
    <3>1. ASSUME NEW es \in SUBSET Ids, tailnet' \in [es -> Records] PROVE tailnet' \in Tailnets
      BY <3>1 DEF Tailnets
    <3>2. CASE \E d \in Ids, r \in Records : Join(d, r) \/ Change(d, r)
      <4>1. PICK d \in Ids, r \in Records : Join(d, r) \/ Change(d, r)
        BY <3>2
      <4>2. ds \cup {d} \in SUBSET Ids
        OBVIOUS
      <4> QED
        BY <2>2, <2>3, <3>1, <4>1, <4>2
    <3>3. CASE \E d \in Ids : Leave(d)
      <4>1. PICK d \in Ids : Leave(d)
        BY <3>3
      <4>2. ds \ {d} \in SUBSET Ids
        OBVIOUS
      <4> QED
        BY <2>4, <3>1, <4>1, <4>2
    <3>4. CASE \E s \in Settings : ChangeSettings(s)
      BY <2>5, <3>1, <3>4
    <3> QED
      BY <3>2, <3>3, <3>4 DEF World
  <2>7. settings' \in Settings
    BY DEF LookupInv, World, Join, Leave, Change, ChangeSettings
  <2> QED
    BY <2>6, <2>7
<1>3. Now' \in Moment
  BY <1>2 DEF Now, Moment
<1>4. /\ moments' \in Seq(Moment) /\ Len(moments') > 0
      /\ moments'[Len(moments')] = Now'
  BY <1>1, <1>3 DEF LookupInv
<1>5. pc' = "device" => Named(moments', target', arg')
  BY <1>1, <1>3, NamedLater DEF LookupInv, asked
<1> QED
  BY <1>1, <1>2, <1>4, <1>5 DEF LookupInv

(* A listing finds a device of the present...                              *)
LEMMA ListStep == LookupInv /\ ListDevices => LookupInv'
<1> SUFFICES ASSUME LookupInv, ListDevices PROVE LookupInv'
  OBVIOUS
<1>1. pc = "devices" /\ UNCHANGED <<world, asked, moments>>
  BY DEF ListDevices
<1>2. /\ Len(moments) \in 1..Len(moments) /\ moments[Len(moments)].tailnet = tailnet
      /\ reply.kind # "device"
  <2>1. Len(moments) \in Nat
    BY DEF LookupInv
  <2> QED
    BY <1>1, <2>1 DEF LookupInv, Now
<1>3. CASE pc' = "device"
  <2>1. target' \in Candidates(tailnet, arg) /\ reply' = reply
    BY <1>3 DEF ListDevices, Answer
  <2>2. Named(moments', target', arg')
    BY <1>1, <1>2, <2>1 DEF Candidates, Named, asked
  <2> QED
    BY <1>1, <1>2, <1>3, <2>1, <2>2 DEF LookupInv, world, asked, Now
<1>4. CASE pc' = "done" /\ reply' \in {Listing(tailnet), NotFound}
  <2>1. pc' # "device" /\ reply'.kind # "device"
    <3>1. NotFound.kind = "not found" /\ Listing(tailnet).kind = "devices"
      BY DEF NotFound, Listing
    <3>2. reply' = NotFound \/ reply' = Listing(tailnet)
      BY <1>4
    <3>3. (reply').kind \in {"not found", "devices"}
      BY <3>1, <3>2
    <3> QED
      BY <1>4, <3>3
  <2>2. Now' = Now /\ pc # "idle"
    BY <1>1 DEF world, Now
  <2> QED
    BY <1>1, <2>1, <2>2 DEF LookupInv, world
<1> QED
  BY <1>3, <1>4 DEF ListDevices, Answer

(* ... and GetWithAllFields fetches its record of the present.             *)
LEMMA GetStep == LookupInv /\ GetDevice => LookupInv'
<1> SUFFICES ASSUME LookupInv, GetDevice PROVE LookupInv'
  OBVIOUS
<1>1. /\ pc = "device" /\ pc' = "done"
      /\ UNCHANGED <<world, asked, target, moments>>
      /\ reply' = IF target \in DOMAIN tailnet THEN Found(target, tailnet[target]) ELSE Error
  BY DEF GetDevice, Answer
<1>2. reply'.kind = "device" => Justified(moments', reply'.id, reply'.record, arg')
  <2>1. SUFFICES ASSUME reply'.kind = "device"
                 PROVE  Justified(moments, target, tailnet[target], arg)
    BY <1>1 DEF asked, Found, Error
  <2>2. target \in DOMAIN tailnet
    BY <1>1, <2>1 DEF Error
  <2>3. PICK i \in 1..Len(moments) :
          target \in DOMAIN moments[i].tailnet /\ IsCalled(target, moments[i].tailnet[target], arg)
    BY <1>1 DEF LookupInv, Named
  <2>4. /\ Len(moments) \in 1..Len(moments) /\ i <= Len(moments)
        /\ moments[Len(moments)].tailnet = tailnet
    <3>1. Len(moments) \in Nat
      BY DEF LookupInv
    <3> QED
      BY <1>1, <3>1 DEF LookupInv, Now
  <2> QED
    BY <2>2, <2>3, <2>4 DEF Justified
<1> QED
  BY <1>1, <1>2 DEF LookupInv, world, asked, Now

(* The rest of the steps answer with something else, or begin and end.     *)
LEMMA OtherStep ==
  LookupInv /\ (Call \/ ReadFails \/ StatusDevices \/ StatusSettings \/ RunCLI \/ Return)
    => LookupInv'
<1> SUFFICES ASSUME LookupInv,
                    Call \/ ReadFails \/ StatusDevices \/ StatusSettings \/ RunCLI \/ Return
             PROVE  LookupInv'
  OBVIOUS
<1>1. UNCHANGED world
  BY DEF Call, ReadFails, StatusDevices, StatusSettings, RunCLI, Return
<1>2. Now' = Now /\ Now \in Moment
  BY <1>1 DEF LookupInv, Now, world, Moment
<1>3. CASE Call
  <2>1. moments' = <<Now>> /\ pc = "idle" /\ pc' # "device" /\ (UNCHANGED reply \/ reply' = Error)
    BY <1>3 DEF Call, Answer
  <2>2. moments' \in Seq(Moment) /\ Len(moments') = 1 /\ moments'[1] = Now
    BY <1>2, <2>1
  <2> QED
    BY <1>1, <1>2, <2>1, <2>2 DEF LookupInv, Error, world
<1>4. CASE Return
  BY <1>1, <1>4 DEF Return, LookupInv, world
<1>5. CASE StatusDevices
  BY <1>1, <1>2, <1>5 DEF StatusDevices, LookupInv, world, asked
<1>6. CASE ReadFails \/ StatusSettings \/ RunCLI
  <2>1. /\ pc # "idle" /\ pc' = "done" /\ UNCHANGED moments /\ reply'.kind # "device"
    BY <1>6 DEF ReadFails, StatusSettings, RunCLI, Answer, Error, Output, Compose, Health
  <2> QED
    BY <1>1, <1>2, <2>1 DEF LookupInv, world
<1> QED
  BY <1>3, <1>4, <1>5, <1>6

LEMMA LookupStep == LookupInv /\ [Next]_vars => LookupInv'
<1>1. LookupInv /\ UNCHANGED vars => LookupInv'
  BY DEF vars, LookupInv, world, asked, Now
<1> QED
  BY <1>1, WorldStep, ListStep, GetStep, OtherStep DEF Next, Serve

(* A device in an answer of get_device_info or tailscale://device had the  *)
(* ID, hostname or address asked for at one moment of the call, and the    *)
(* record in the answer then or later (findDevice).                        *)
THEOREM LookupSound == Spec => []LookupJustified
<1>1. LookupInv => LookupJustified
  BY DEF LookupInv, Justified, LookupJustified, Matches, IsCalled
<1> QED
  BY <1>1, LookupInit, LookupStep, PTL DEF Spec

-----------------------------------------------------------------------------
(* What a call in progress is, and how much of it has failed; a count read *)
(* was right at one of the moments, or its listing was too long.           *)
Counted(ms, n) ==
  \E i \in 1..Len(ms) :
    LET m == Cardinality(DOMAIN ms[i].tailnet) IN m > ListLimit \/ n = m

ProgressInv ==
  /\ tool \in Tools
  /\ pc = "device" => tool \in Lookups
  /\ pc = "settings" => tool = "tailscale_status"
  /\ pc = "cli" => tool \in Reports \cup Texts
  /\ pc \in {"idle", "devices", "device", "cli"} => failures = 0
  /\ pc = "settings" =>
       \/ count = None /\ failures = 1
       \/ count \in Nat /\ failures = 0 /\ Counted(moments, count)
  /\ SteadyDeviceFound /\ StatusTrue

(* The arguments that stand for devices are accepted.                      *)
LEMMA KeysAcceptable ==
  ASSUME NEW t \in Lookups, NEW a \in Keys
  PROVE  Acceptable(t, a)
BY ArgumentAssumption DEF Lookups, Keys, Acceptable

(* The number read is that of a listing that is short enough.              *)
LEMMA LengthCounts ==
  ASSUME IsFiniteSet(Ids), NEW t \in Tailnets
  PROVE  /\ Length(t) \in Nat
         /\ Cardinality(DOMAIN t) > ListLimit \/ Length(t) = Cardinality(DOMAIN t)
<1>1. DOMAIN t \in SUBSET Ids
  BY DEF Tailnets
<1>2. Cardinality(DOMAIN t) \in Nat
  BY <1>1, FS_Subset, FS_CardinalityType
<1> QED
  BY <1>2, BoundAssumption DEF Length

(* Until the answer, more moments leave a count as true as it was.         *)
LEMMA CountedLater ==
  ASSUME NEW ms \in Seq(Moment), NEW m \in Moment, NEW n, Counted(ms, n)
  PROVE  Counted(Append(ms, m), n)
<1>1. PICK i \in 1..Len(ms) :
        LET k == Cardinality(DOMAIN ms[i].tailnet) IN k > ListLimit \/ n = k
  BY DEF Counted
<1>2. i \in 1..Len(Append(ms, m)) /\ Append(ms, m)[i] = ms[i]
  OBVIOUS
<1> HIDE DEF Counted
<1> QED
  BY <1>1, <1>2 DEF Counted

(* Nothing is said before the answer.                                      *)
LEMMA NothingSaid == pc # "done" => SteadyDeviceFound /\ StatusTrue
BY DEF SteadyDeviceFound, StatusTrue

(* The answer to a call that is neither a lookup nor tailscale_status.     *)
LEMMA NothingElseSaid ==
  tool \notin Lookups \cup {"tailscale_status"} => SteadyDeviceFound /\ StatusTrue
BY DEF SteadyDeviceFound, StatusTrue

LEMMA ProgressInit == Init => ProgressInv
BY DEF Init, ProgressInv, SteadyDeviceFound, StatusTrue, Tools

(* A lookup: its device is listed and fetched if it is there all along.    *)
LEMMA ProgressLookup ==
  ASSUME LookupInv, ProgressInv, ListDevices \/ GetDevice
  PROVE  ProgressInv'
<1> DEFINE last == moments[Len(moments)]
<1>1. /\ UNCHANGED <<world, asked, moments, failures>> /\ pc \in {"devices", "device"}
      /\ failures = 0 /\ Len(moments) \in 1..Len(moments) /\ last.tailnet = tailnet
  <2>1. pc \in {"devices", "device"} /\ UNCHANGED <<world, asked, moments, failures>>
    BY DEF ListDevices, GetDevice
  <2>2. Len(moments) \in Nat
    BY DEF LookupInv
  <2> QED
    BY <2>1, <2>2 DEF LookupInv, ProgressInv, Now
<1>2. CASE ListDevices /\ pc' = "device"
  <2>1. tool \in Lookups
    BY <1>2 DEF ListDevices, Answer
  <2> QED
    BY <1>1, <1>2, <2>1 DEF ProgressInv, SteadyDeviceFound, StatusTrue, asked
<1>3. CASE ListDevices /\ pc' = "done"
  <2>1. /\ tool \in Lookups \cup {"list_all_devices"}
        /\ tool \in Lookups => Candidates(tailnet, arg) = {}
    BY <1>3 DEF ListDevices, Answer, Lookups
  <2>2. ASSUME tool \in Lookups, NEW d \in Ids
        PROVE  ~ Matches(last, d)
    BY <1>1, <2>1, <2>2 DEF Candidates, Matches, IsCalled
  <2>3. SteadyDeviceFound'
    <3>1. SUFFICES ASSUME tool \in Lookups, NEW d \in Ids,
                          \A i \in 1..Len(moments), e \in Ids : Matches(moments[i], e) <=> e = d
                   PROVE  FALSE
      BY <1>1 DEF SteadyDeviceFound, Matches, asked
    <3> QED
      BY <1>1, <2>2, <3>1
  <2>4. StatusTrue'
    BY <1>1, <2>1 DEF StatusTrue, Lookups, asked
  <2> QED
    BY <1>1, <1>3, <2>3, <2>4 DEF ProgressInv, asked
<1>4. CASE GetDevice
  <2>1. /\ pc = "device" /\ pc' = "done" /\ tool \in Lookups
        /\ reply' = IF target \in DOMAIN tailnet THEN Found(target, tailnet[target]) ELSE Error
    BY <1>4 DEF GetDevice, Answer, ProgressInv
  <2>2. SteadyDeviceFound'
    <3>1. SUFFICES ASSUME NEW d \in Ids,
                          \A i \in 1..Len(moments), e \in Ids : Matches(moments[i], e) <=> e = d
                   PROVE  reply'.kind = "device" /\ reply'.id = d
      BY <1>1 DEF SteadyDeviceFound, Matches, asked
    <3>2. PICK i \in 1..Len(moments) :
            target \in DOMAIN moments[i].tailnet /\ IsCalled(target, moments[i].tailnet[target], arg)
      BY <2>1 DEF LookupInv, Named
    <3>3. target \in Ids
      <4>0. moments[i] \in Moment
        <5>1. moments \in Seq(Moment)
          BY DEF LookupInv
        <5> QED
          BY <5>1
      <4>1. moments[i].tailnet \in Tailnets
        BY <4>0 DEF Moment
      <4> QED
        BY <3>2, <4>1 DEF Tailnets
    <3>4. Matches(moments[i], target)
      BY <3>2 DEF Matches, IsCalled
    <3>5. target = d
      BY <3>1, <3>3, <3>4
    <3>6. target \in DOMAIN tailnet
      BY <1>1, <3>1, <3>5 DEF Matches
    <3> QED
      BY <2>1, <3>5, <3>6 DEF Found
  <2>3. StatusTrue'
    BY <1>1, <2>1 DEF StatusTrue, Lookups, asked
  <2> QED
    BY <1>1, <2>1, <2>2, <2>3 DEF ProgressInv, asked
<1> QED
  BY <1>2, <1>3, <1>4 DEF ListDevices, Answer

(* tailscale_status: the devices, ...                                      *)
LEMMA ProgressDevices ==
  ASSUME IsFiniteSet(Ids), LookupInv, ProgressInv, StatusDevices
  PROVE  ProgressInv'
<1>1. /\ pc = "devices" /\ pc' = "settings" /\ tool = "tailscale_status" /\ UNCHANGED <<asked, moments>>
      /\ failures = 0
      /\ \/ count' = Length(tailnet) /\ failures' = 0
         \/ count' = None /\ failures' = 1
  BY DEF StatusDevices, ProgressInv
<1>2. Len(moments) \in 1..Len(moments) /\ moments[Len(moments)].tailnet = tailnet
  <2>1. Len(moments) \in Nat
    BY DEF LookupInv
  <2> QED
    BY <1>1, <2>1 DEF LookupInv, Now
<1>3. Length(tailnet) \in Nat /\ Counted(moments, Length(tailnet))
  BY <1>2, LengthCounts DEF LookupInv, Counted
<1>4. SteadyDeviceFound' /\ StatusTrue'
  BY <1>1 DEF SteadyDeviceFound, StatusTrue
<1> QED
  BY <1>1, <1>3, <1>4 DEF ProgressInv, asked

(* ... and the settings.                                                   *)
LEMMA ProgressSettings ==
  ASSUME LookupInv, ProgressInv, StatusSettings
  PROVE  ProgressInv'
<1>1. /\ pc = "settings" /\ pc' = "done" /\ tool = "tailscale_status" /\ UNCHANGED <<asked, moments>>
      /\ \/ count = None /\ failures = 1
         \/ count \in Nat /\ failures = 0 /\ Counted(moments, count)
      /\ \/ reply' = Compose(count, settings) /\ failures' = failures
         \/ reply' = Compose(count, None) /\ failures' = failures + 1
  BY DEF StatusSettings, Answer, ProgressInv
<1>2. /\ Len(moments) \in 1..Len(moments) /\ moments[Len(moments)].settings = settings
      /\ settings # None /\ None \notin Nat
  <2>1. Len(moments) \in Nat
    BY DEF LookupInv
  <2> QED
    BY <1>1, <2>1, ArgumentAssumption DEF LookupInv, Now
<1>3. SteadyDeviceFound'
  BY <1>1 DEF SteadyDeviceFound, Lookups, asked
<1>4. Error.kind = "error" /\ \A n, s : /\ Health(n, s).kind = "status"
                                        /\ Health(n, s).count = n /\ Health(n, s).settings = s
  BY DEF Error, Health
<1>5. StatusTrue'
  <2>1. CASE count = None /\ failures = 1 /\ reply' = Compose(count, settings) /\ failures' = 1
    <3>1. reply' = Health(None, settings)
      BY <1>2, <2>1 DEF Compose, DeviceCount
    <3>2. reply'.kind = "status" /\ reply'.count = None /\ reply'.settings = settings
      BY <1>4, <3>1
    <3> QED
      BY <1>1, <1>2, <2>1, <3>2 DEF StatusTrue
  <2>2. CASE count = None /\ reply' = Compose(count, None) /\ failures' = 2
    <3>1. reply'.kind = "error"
      BY <1>4, <2>2 DEF Compose
    <3> QED
      BY <2>2, <3>1 DEF StatusTrue
  <2>3. CASE count \in Nat /\ Counted(moments, count) /\ reply' = Compose(count, settings)
    <3>1. reply' = Health(count, settings)
      BY <1>2, <2>3 DEF Compose, DeviceCount
    <3>2. reply'.kind = "status" /\ reply'.count = count /\ reply'.settings = settings
      BY <1>4, <3>1
    <3> QED
      BY <1>1, <1>2, <2>3, <3>2 DEF StatusTrue, Counted
  <2>4. CASE count \in Nat /\ Counted(moments, count) /\ reply' = Compose(count, None) /\ failures' = 1
    <3>1. reply' = Health(count, None)
      BY <1>2, <2>4 DEF Compose, DeviceCount
    <3>2. reply'.kind = "status" /\ reply'.count = count /\ reply'.settings = None
      BY <1>4, <3>1
    <3> QED
      BY <1>1, <1>2, <2>4, <3>2 DEF StatusTrue, Counted
  <2> QED
    BY <1>1, <2>1, <2>2, <2>3, <2>4
<1> QED
  BY <1>1, <1>3, <1>5 DEF ProgressInv, asked

(* The other steps.                                                        *)
LEMMA ProgressOther ==
  ASSUME LookupInv, ProgressInv, Call \/ ReadFails \/ RunCLI \/ Return \/ World
  PROVE  ProgressInv'
<1>1. CASE Call
  <2>1. /\ pc = "idle" /\ failures' = 0 /\ tool' \in Tools
        /\ arg' \in Keys \cup {Missing, Blank, BadTarget}
        /\ IF Acceptable(tool', arg')
             THEN pc' = IF tool' \in Reports \cup Texts THEN "cli" ELSE "devices"
             ELSE pc' = "done" /\ reply' = Error
    BY <1>1 DEF Call, Answer, ProgressInv
  <2>2. CASE Acceptable(tool', arg')
    BY <2>1, <2>2 DEF ProgressInv, SteadyDeviceFound, StatusTrue
  <2>3. CASE ~ Acceptable(tool', arg')
    <3>1. tool' # "tailscale_status"
      BY <2>3 DEF Acceptable
    <3>2. ~ (tool' \in Lookups /\ arg' \in Keys)
      BY <2>3, KeysAcceptable
    <3> QED
      BY <2>1, <2>3, <3>1, <3>2 DEF ProgressInv, SteadyDeviceFound, StatusTrue
  <2> QED
    BY <2>2, <2>3
<1>2. CASE ReadFails
  BY <1>2 DEF ReadFails, Answer, asked, ProgressInv, SteadyDeviceFound, StatusTrue
<1>3. CASE RunCLI
  <2>1. tool \notin Lookups \cup {"tailscale_status"} /\ pc' = "done" /\ UNCHANGED asked
    BY <1>3 DEF RunCLI, Answer, ProgressInv, Lookups, Reports, Texts
  <2> QED
    BY <2>1 DEF ProgressInv, SteadyDeviceFound, StatusTrue, asked
<1>4. CASE Return
  BY <1>4 DEF Return, asked, ProgressInv, SteadyDeviceFound, StatusTrue
<1>5. CASE World
  <2>1. /\ moments' = Append(moments, Now') /\ UNCHANGED <<asked, pc, count, failures>>
        /\ pc # "done"
    BY <1>5 DEF World, Join, Leave, Change, ChangeSettings, Seen, Changing
  <2>2. Now' \in Moment
    <3>1. tailnet' \in Tailnets /\ settings' \in Settings
      BY <1>5, WorldStep DEF LookupInv
    <3> QED
      BY <3>1 DEF Now, Moment
  <2>3. moments \in Seq(Moment) /\ (Counted(moments, count) => Counted(moments', count))
    BY <2>1, <2>2, CountedLater DEF LookupInv
  <2> QED
    BY <2>1, <2>3 DEF ProgressInv, SteadyDeviceFound, StatusTrue, asked
<1> QED
  BY <1>1, <1>2, <1>3, <1>4, <1>5

LEMMA ProgressHolds ==
  ASSUME IsFiniteSet(Ids)
  PROVE  Spec => [](LookupInv /\ ProgressInv)
<1>1. LookupInv /\ ProgressInv /\ UNCHANGED vars => ProgressInv'
  BY DEF vars, world, asked, ProgressInv, SteadyDeviceFound, StatusTrue, Matches
<1>2. LookupInv /\ ProgressInv /\ [Next]_vars => ProgressInv'
  BY <1>1, ProgressLookup, ProgressDevices, ProgressSettings, ProgressOther DEF Next, Serve
<1> QED
  BY <1>2, LookupInit, LookupStep, ProgressInit, PTL DEF Spec

(* A device that is there under a name of its own all through the call is  *)
(* found, whatever else changes between the two requests.                  *)
THEOREM LookupFinds ==
  ASSUME IsFiniteSet(Ids)
  PROVE  Spec => []SteadyDeviceFound
<1>1. ProgressInv => SteadyDeviceFound
  BY DEF ProgressInv
<1> QED
  BY <1>1, ProgressHolds, PTL

(* tailscale_status reports nothing that was not so at a moment of the     *)
(* call, but for a count above the listing limit, and leaves out only what *)
(* could not be read.                                                      *)
THEOREM StatusHonest ==
  ASSUME IsFiniteSet(Ids)
  PROVE  Spec => []StatusTrue
<1>1. ProgressInv => StatusTrue
  BY DEF ProgressInv
<1> QED
  BY <1>1, ProgressHolds, PTL

-----------------------------------------------------------------------------
(* TypeOK: no ID is given twice, and nothing that is not in the tailnet    *)
(* gets into an answer.                                                    *)
LEMMA RepliesTyped ==
  /\ Error \in Replies /\ NotFound \in Replies /\ [kind |-> "none"] \in Replies
  /\ \A d \in Ids, r \in Records : Found(d, r) \in Replies
  /\ \A t \in Tailnets : Listing(t) \in Replies
  /\ \A n \in Nat \cup {None}, s \in Settings \cup {None} : Compose(n, s) \in Replies
  /\ \A whole \in BOOLEAN : Output(whole) \in Replies
<1>1. Error \in Replies /\ NotFound \in Replies /\ [kind |-> "none"] \in Replies
  BY DEF Error, NotFound, Replies
<1>2. \A d \in Ids, r \in Records : Found(d, r) \in Replies
  BY DEF Found, Replies
<1>3. \A t \in Tailnets : Listing(t) \in Replies
  BY DEF Listing, Replies
<1>4. \A n \in Nat \cup {None}, s \in Settings \cup {None} : Health(n, s) \in Replies
  BY DEF Health, Replies
<1>5. \A whole \in BOOLEAN : Output(whole) \in Replies
  BY DEF Output, Replies
<1> QED
  BY <1>1, <1>2, <1>3, <1>4, <1>5 DEF Compose, DeviceCount

ValueInv ==
  /\ DOMAIN tailnet \subseteq used /\ used \subseteq Ids
  /\ arg \in Keys \cup {Missing, Blank, BadTarget}
  /\ pc \in {"idle", "devices", "device", "settings", "cli", "done"}
  /\ target \in Ids \cup {None} /\ (pc = "device" => target \in Ids)
  /\ count \in Nat \cup {None}
  /\ reply \in Replies
  /\ failures \in 0..2

LEMMA ValueInit == Init => ValueInv
<1> SUFFICES ASSUME Init PROVE ValueInv
  OBVIOUS
<1>1. DOMAIN tailnet \subseteq Ids
  BY DEF Init
<1>2. 0 \in 0..2
  OBVIOUS
<1> QED
  BY <1>1, <1>2, RepliesTyped DEF Init, ValueInv

LEMMA ValueStep ==
  ASSUME IsFiniteSet(Ids), LookupInv, ProgressInv, ValueInv, [Next]_vars
  PROVE  ValueInv'
<1> USE DEF ValueInv
<1>1. DOMAIN tailnet \subseteq Ids /\ \A d \in DOMAIN tailnet : tailnet[d] \in Records
  BY DEF LookupInv, Tailnets
<1>2. CASE Call
  BY <1>2, RepliesTyped DEF Call, Answer, world
<1>3. CASE ListDevices
  <2>1. \A d \in Candidates(tailnet, arg) : d \in Ids
    BY <1>1 DEF Candidates
  <2>2. Listing(tailnet) \in Replies /\ NotFound \in Replies
    BY RepliesTyped DEF LookupInv
  <2> QED
    BY <1>3, <2>1, <2>2 DEF ListDevices, Answer, world, asked
<1>4. CASE GetDevice
  <2>1. target \in DOMAIN tailnet => Found(target, tailnet[target]) \in Replies
    BY <1>1, RepliesTyped
  <2> QED
    BY <1>4, <2>1, RepliesTyped DEF GetDevice, Answer, world, asked
<1>5. CASE ReadFails
  <2>1. failures = 0
    BY <1>5 DEF ReadFails, ProgressInv
  <2> QED
    BY <1>5, <2>1, RepliesTyped DEF ReadFails, Answer, world, asked
<1>6. CASE StatusDevices
  <2>1. failures = 0 /\ Length(tailnet) \in Nat
    BY <1>6, LengthCounts DEF StatusDevices, ProgressInv, LookupInv
  <2> QED
    BY <1>6, <2>1 DEF StatusDevices, world, asked
<1>7. CASE StatusSettings
  <2>1. failures \in 0..1
    BY <1>7 DEF StatusSettings, ProgressInv
  <2>2. Compose(count, settings) \in Replies /\ Compose(count, None) \in Replies
    BY RepliesTyped DEF LookupInv
  <2> QED
    BY <1>7, <2>1, <2>2 DEF StatusSettings, Answer, world, asked
<1>8. CASE RunCLI
  BY <1>8, RepliesTyped DEF RunCLI, Answer, world, asked
<1>9. CASE Return
  BY <1>9, RepliesTyped DEF Return, world, asked
<1>10. CASE World
  <2>1. UNCHANGED <<asked, pc, target, count, reply, failures>>
    BY <1>10 DEF World, Join, Leave, Change, ChangeSettings
  <2>2. DOMAIN tailnet' \subseteq used' /\ used' \subseteq Ids
    BY <1>10 DEF World, Join, Leave, Change, ChangeSettings
  <2> QED
    BY <2>1, <2>2 DEF asked
<1>11. CASE UNCHANGED vars
  BY <1>11 DEF vars, world, asked
<1> QED
  BY <1>2, <1>3, <1>4, <1>5, <1>6, <1>7, <1>8, <1>9, <1>10, <1>11 DEF Next, Serve

(* Every state is well-typed, and the moments of a call end with now.      *)
THEOREM TypeCorrect ==
  ASSUME IsFiniteSet(Ids)
  PROVE  Spec => []TypeOK
<1>1. LookupInv /\ ProgressInv /\ ValueInv => TypeOK
  BY DEF LookupInv, ProgressInv, ValueInv, TypeOK, Moment
<1>2. LookupInv /\ ProgressInv /\ ValueInv /\ [Next]_vars => ValueInv'
  BY ValueStep
<1> QED
  BY <1>1, <1>2, ValueInit, ProgressHolds, PTL DEF Spec
=============================================================================
