--------------------------- MODULE ToolCallProofs ---------------------------
(***************************************************************************)
(* Proofs about single tool calls: of PolicyUpdate, for any number of      *)
(* clients and of faults, and of ToolRequests, for any calls and any       *)
(* strings.  The two share no state; their names are kept apart.           *)
(***************************************************************************)
EXTENDS PolicyUpdate, ToolRequests, TLAPS


-----------------------------------------------------------------------------
(* The pair getACL and updateACL return is well-formed and consistent.     *)
LEMMA PolicyPair ==
  ASSUME NEW t \in SUBSET Edits
  PROVE  /\ Policy(t) \in Contents /\ Policy(t).text = t
         /\ Policy(t).etag = [digest |-> t] /\ Policy(t).etag \in ETags
  BY DEF Policy, Contents, ETags

(* Faults stay within their bound.                                         *)
LEMMA FaultBound ==
  ASSUME faults \in 0..MaxFaults, Fault
  PROVE  faults' \in 0..MaxFaults
<1>1. MaxFaults \in Nat
  BY PolicyAssumption
<1> QED
  BY <1>1 DEF Fault

(* Types are preserved by every step.                                      *)
LEMMA TypeStep == TypeOK /\ [Next]_vars => TypeOK'
<1> SUFFICES ASSUME TypeOK, [Next]_vars PROVE TypeOK'
  OBVIOUS
<1> USE DEF TypeOK
<1>1. CASE UNCHANGED vars
  BY <1>1 DEF vars
<1>2. ASSUME NEW c \in Clients, CallGet(c) PROVE TypeOK'
  BY <1>2 DEF CallGet
<1>3. ASSUME NEW c \in Clients, CallUpdate(c) PROVE TypeOK'
  <2>1. copy[c] \in Contents
    BY <1>3 DEF CallUpdate
  <2>2. ASSUME NEW form \in EtagArgs
        PROVE  [policy |-> copy[c].text \cup {c}, etag |-> EtagArg(c, form)] \in Updates
    <3>1. copy[c].text \cup {c} \in SUBSET Edits /\ copy[c].etag \in ETags
      BY <2>1 DEF Contents, Edits
    <3>2. EtagArg(c, form) \in ETags \cup {Unknown, None}
      BY <3>1, PolicyAssumption DEF EtagArg
    <3> QED
      BY <3>1, <3>2 DEF Updates
  <2>3. PICK form \in EtagArgs :
          /\ args' = [args EXCEPT ![c] = [policy |-> copy[c].text \cup {c},
                                          etag |-> EtagArg(c, form)]]
          /\ IF form = "as read" THEN UNCHANGED faults ELSE Fault
    BY <1>3 DEF CallUpdate
  <2>4. args' \in [Clients -> Updates \cup {None}]
    BY <2>2, <2>3
  <2>5. faults' \in 0..MaxFaults
    <3>1. CASE form = "as read"
      BY <2>3, <3>1
    <3>2. CASE form # "as read"
      BY <2>3, <3>2, FaultBound
    <3> QED
      BY <3>1, <3>2
  <2>6. args'[c] \in Updates /\ \A d \in Clients \ {c} : args'[d] = args[d]
    BY <2>2, <2>3
  <2>7. \A d \in Clients : pc'[d] = "posting" => args'[d] \in Updates
    BY <1>3, <2>6 DEF CallUpdate
  <2> QED
    BY <1>3, <2>4, <2>5, <2>7 DEF CallUpdate
<1>4. ASSUME NEW c \in Clients, getACL(c) PROVE TypeOK'
  BY <1>4, PolicyPair DEF getACL
<1>5. ASSUME NEW c \in Clients, updateACL(c) PROVE TypeOK'
  <2>1. args[c].policy \in SUBSET Edits
    BY <1>5 DEF updateACL, Updates
  <2>2. text' \in SUBSET Edits /\ landed' \subseteq Clients
    BY <1>5, <2>1 DEF updateACL, Put
  <2>3. reply' \in [Clients -> Contents \cup {None}]
    <3>1. Policy(text') \in Contents
      BY <2>2, PolicyPair
    <3>2. reply' \in {reply, [reply EXCEPT ![c] = Policy(text')]}
      BY <1>5 DEF updateACL
    <3> QED
      BY <3>1, <3>2
  <2> QED
    BY <1>5, <2>2, <2>3 DEF updateACL
<1>6. ASSUME NEW c \in Clients, FailAPI(c) PROVE TypeOK'
  BY <1>6, FaultBound DEF FailAPI
<1>7. ASSUME NEW c \in Clients, Receive(c) PROVE TypeOK'
  BY <1>7 DEF Receive
<1>8. ASSUME NEW c \in Clients, Lose(c) PROVE TypeOK'
  BY <1>8, FaultBound DEF Lose
<1>9. ASSUME NEW e \in Edits, EditConsole(e) PROVE TypeOK'
  BY <1>9, FaultBound DEF EditConsole, Put
<1> QED
  BY <1>1, <1>2, <1>3, <1>4, <1>5, <1>6, <1>7, <1>8, <1>9 DEF Next, Serve, Finish

(* EditInv is inductive, whether clients blank their etag argument or not. *)
LEMMA EditStep == TypeOK /\ EditInv /\ [Next]_vars => EditInv'
<1> SUFFICES ASSUME TypeOK, EditInv, [Next]_vars PROVE EditInv'
  OBVIOUS
<1> USE DEF TypeOK
<1> DEFINE Copied(c) == copy[c] # None => copy[c].etag = Policy(copy[c].text).etag
           Replied(c) == reply[c] # None => reply[c].etag = Policy(reply[c].text).etag
           Posted(c) ==
             /\ pc[c] = "posting" =>
                  \E t \in SUBSET Edits : /\ args[c].policy = t \cup {c}
                                          /\ args[c].etag \in {Policy(t).etag, Unknown, None}
             /\ pc[c] = "posting" /\ args[c].etag = None => "blank" \in EtagArgs
           Silent(c) == /\ pc[c] # "answered" => reply[c] = None
                        /\ pc[c] = "getting" => args[c] = None
           Confirmed(c) == pc[c] = "answered" /\ args[c] # None /\ reply[c] # None => c \in landed
           Each(c) == Copied(c) /\ Replied(c) /\ Posted(c) /\ Silent(c) /\ Confirmed(c)
<1>1. \A c \in Clients : Each(c)
  BY DEF EditInv
<1>2. SUFFICES \A d \in Clients : Each(d)'
  BY DEF EditInv
<1>3. SUFFICES ASSUME NEW d \in Clients PROVE Each(d)'
  OBVIOUS
<1>4. CASE UNCHANGED vars
  BY <1>1, <1>4 DEF vars
<1>5. ASSUME NEW c \in Clients, CallGet(c) PROVE Each(d)'
  BY <1>1, <1>5 DEF CallGet
<1>6. ASSUME NEW c \in Clients, CallUpdate(c) PROVE Each(d)'
  <2>1. PICK form \in EtagArgs :
          args' = [args EXCEPT ![c] = [policy |-> copy[c].text \cup {c}, etag |-> EtagArg(c, form)]]
    BY <1>6 DEF CallUpdate
  <2>2. copy[c].text \in SUBSET Edits /\ copy[c].etag = Policy(copy[c].text).etag
    BY <1>1, <1>6 DEF CallUpdate, Contents
  <2>3. /\ EtagArg(c, form) \in {Policy(copy[c].text).etag, Unknown, None}
        /\ EtagArg(c, form) = None => "blank" \in EtagArgs
    <3>1. form = "as read" \/ form = "missing" \/ form = "blank"
      BY PolicyAssumption
    <3>2. Policy(copy[c].text).etag # None /\ Unknown # None
      BY <2>2, PolicyPair, NoneAssumption
    <3> QED
      BY <2>2, <3>1, <3>2 DEF EtagArg
  <2>4. Posted(d)'
    <3>1. CASE d = c
      BY <2>1, <2>2, <2>3, <3>1
    <3>2. CASE d # c
      BY <1>1, <1>6, <2>1, <3>2 DEF CallUpdate
    <3> QED
      BY <3>1, <3>2
  <2> QED
    BY <1>1, <1>6, <2>4 DEF CallUpdate
<1>7. ASSUME NEW c \in Clients, getACL(c) PROVE Each(d)'
  <2>1. Policy(text).text = text
    BY PolicyPair
  <2>2. (d = c => reply'[d] = Policy(text)) /\ (d # c => reply'[d] = reply[d])
    BY <1>7 DEF getACL
  <2>3. Replied(d)'
    BY <1>1, <2>1, <2>2
  <2> QED
    BY <1>1, <1>7, <2>2, <2>3 DEF getACL
<1>8. ASSUME NEW c \in Clients, updateACL(c) PROVE Each(d)'
  <2> DEFINE passes == Precondition(IfMatch(args[c].etag))
  <2>1. CASE passes
    <3>1. text' = args[c].policy /\ landed' = landed \cup (text' \cap Clients)
      BY <1>8, <2>1 DEF updateACL, Put
    <3>2. c \in text' /\ text' \in SUBSET Edits
      BY <1>1, <1>8, <3>1 DEF updateACL, Edits
    <3>3. Policy(text').text = text'
      BY <3>2, PolicyPair
    <3>4. (d = c => reply'[d] = Policy(text')) /\ (d # c => reply'[d] = reply[d])
      BY <1>8, <2>1 DEF updateACL
    <3>5. Replied(d)'
      BY <1>1, <3>3, <3>4
    <3> QED
      BY <1>1, <1>8, <3>1, <3>2, <3>4, <3>5 DEF updateACL
  <2>2. CASE ~passes
    <3>1. UNCHANGED <<text, landed, reply>>
      BY <1>8, <2>2 DEF updateACL
    <3>2. reply[c] = None
      BY <1>1, <1>8 DEF updateACL
    <3> QED
      BY <1>1, <1>8, <3>1, <3>2 DEF updateACL
  <2> QED
    BY <2>1, <2>2
<1>9. ASSUME NEW c \in Clients, FailAPI(c) PROVE Each(d)'
  BY <1>1, <1>9 DEF FailAPI
<1>10. ASSUME NEW c \in Clients, Receive(c) PROVE Each(d)'
  BY <1>1, <1>10 DEF Receive
<1>11. ASSUME NEW c \in Clients, Lose(c) PROVE Each(d)'
  BY <1>1, <1>11 DEF Lose
<1>12. ASSUME NEW e \in Edits, EditConsole(e) PROVE Each(d)'
  BY <1>1, <1>12 DEF EditConsole, Put
<1> QED
  BY <1>4, <1>5, <1>6, <1>7, <1>8, <1>9, <1>10, <1>11, <1>12 DEF Next, Serve, Finish

(* ToldLanded is preserved: a confirmed client is one updateACL put there. *)
LEMMA ToldStep == TypeOK /\ EditInv /\ ToldLanded /\ [Next]_vars => ToldLanded'
<1> SUFFICES ASSUME TypeOK, EditInv, ToldLanded, [Next]_vars PROVE ToldLanded'
  OBVIOUS
<1>1. landed \subseteq landed'
  BY DEF Next, Serve, Finish, CallGet, getACL, CallUpdate, updateACL, FailAPI, Receive, Lose,
         EditConsole, Put, vars
<1>2. told' \subseteq told \/ \E c \in Clients : Receive(c)
  BY DEF Next, Serve, Finish, CallGet, getACL, CallUpdate, updateACL, FailAPI, Receive, Lose,
         EditConsole, Put, vars
<1>3. ASSUME NEW c \in Clients, Receive(c) PROVE told' \subseteq landed
  BY <1>3 DEF Receive, EditInv, ToldLanded
<1> QED
  BY <1>1, <1>2, <1>3 DEF ToldLanded

(* An update that names an ETag and is accepted is one edit of the policy  *)
(* in force.                                                               *)
LEMMA Guarded ==
  ASSUME TypeOK, EditInv, NEW c \in Clients, updateACL(c), IfMatch(args[c].etag) # None
  PROVE  text' \in {text, text \cup {c}}
<1> SUFFICES ASSUME text' # text PROVE text' = text \cup {c}
  OBVIOUS
<1>1. Precondition(IfMatch(args[c].etag)) /\ text' = args[c].policy
  BY DEF updateACL, Put
<1>2. PICK t \in SUBSET Edits : /\ args[c].policy = t \cup {c}
                                /\ args[c].etag \in {Policy(t).etag, Unknown, None}
  BY DEF updateACL, EditInv
<1>3. /\ text \in SUBSET Edits
      /\ Policy(text).etag = [digest |-> text] /\ Policy(t).etag = [digest |-> t]
  BY PolicyPair DEF TypeOK
<1>4. None \notin text
  BY <1>3, NoneAssumption
<1>5. [digest |-> text] # Unknown
  BY <1>4 DEF Unknown
<1>6. args[c].etag = [digest |-> text]
  BY <1>1, <1>3 DEF Precondition, IfMatch
<1>7. t = text
  BY <1>2, <1>3, <1>5, <1>6 DEF IfMatch
<1> QED
  BY <1>1, <1>2, <1>7

(* Every step changes the policy in force by at most one edit, unless a    *)
(* client has blanked its etag argument.                                   *)
LEMMA OneEdit ==
  ASSUME "blank" \notin EtagArgs, TypeOK, EditInv, [Next]_vars
  PROVE  text' = text \/ \E e \in Edits : text' \in {text \cup {e}, text \ {e}}
<1>1. ASSUME NEW c \in Clients, updateACL(c), text' # text
      PROVE  text' = text \cup {c}
  <2>1. args[c].etag # None
    BY <1>1 DEF updateACL, EditInv
  <2> QED
    BY <1>1, <2>1, Guarded DEF IfMatch
<1>2. ASSUME NEW e \in Edits, EditConsole(e) PROVE text' \in {text \cup {e}, text \ {e}}
  BY <1>2 DEF EditConsole, Put
<1>3. \/ text' = text
      \/ \E c \in Clients : updateACL(c)
      \/ \E e \in Edits : EditConsole(e)
  BY DEF Next, Serve, Finish, CallGet, getACL, CallUpdate, FailAPI, Receive, Lose, vars
<1> QED
  BY <1>1, <1>2, <1>3 DEF Edits

-----------------------------------------------------------------------------
(* The initial states satisfy the invariants.                              *)
LEMMA EditInit == Init => TypeOK /\ EditInv /\ ToldLanded
<1>1. 0 \in 0..MaxFaults
  <2>1. MaxFaults \in Nat
    BY PolicyAssumption
  <2> QED
    BY <2>1
<1> QED
  BY <1>1 DEF Init, TypeOK, EditInv, ToldLanded, Edits

(* The inductive invariant of every specification of policy editing.       *)
LEMMA Editing == Spec => [](TypeOK /\ EditInv /\ ToldLanded)
  BY EditInit, TypeStep, EditStep, ToldStep, PTL DEF Spec

(* Type correctness, also for clients that blank their etag.               *)
THEOREM TypeCorrect == Spec => []TypeOK
  BY Editing, PTL

(* An update the client was told of was in force: what updateACL answers   *)
(* follows the response it got, however replies are lost or fail, and      *)
(* whatever ETags the clients send.                                        *)
THEOREM ConfirmedEdits == Spec => []ToldLanded
  BY Editing, PTL

(* What the ETag buys the client that sends it, whatever the others do.    *)
THEOREM GuardedUpdates == Spec => GuardedUpdate
<1>1. TypeOK /\ EditInv /\ [Next]_vars
        => [\A c \in Clients : updateACL(c) /\ IfMatch(args[c].etag) # None
                                => text' \in {text, text \cup {c}}]_vars
  BY Guarded
<1> QED
  BY <1>1, Editing, PTL DEF Spec, GuardedUpdate

(* As long as no client blanks its etag argument, no update overwrites an  *)
(* edit it has not seen.  (A run shows that the hypothesis cannot be       *)
(* dropped.)                                                               *)
THEOREM OptimisticConcurrency ==
  ASSUME "blank" \notin EtagArgs
  PROVE  Spec => NoLostUpdate
<1>1. TypeOK /\ EditInv /\ [Next]_vars
        => [\E e \in Edits : text' \in {text, text \cup {e}, text \ {e}}]_vars
  <2>1. SUFFICES ASSUME TypeOK, EditInv, [Next]_vars, ~UNCHANGED vars
                 PROVE  \E e \in Edits : text' \in {text, text \cup {e}, text \ {e}}
    OBVIOUS
  <2>2. \E e \in Edits : TRUE
    BY <2>1 DEF Next, Edits
  <2> QED
    BY <2>1, <2>2, OneEdit
<1> QED
  BY <1>1, Editing, PTL DEF Spec, NoLostUpdate

-----------------------------------------------------------------------------
(* A row of the tables: all of the path is required, and no more than path *)
(* and query have.                                                         *)
Shaped(t) == t.path \subseteq t.required /\ t.required \subseteq t.path \cup t.query

LEMMA Shapes ==
  /\ \A b : \A f \in BOOLEAN : Shaped(Tool({}, {}, {}, b, f))
  /\ \A b : \A f \in BOOLEAN : Shaped(Tool(Device, {}, {}, b, f))
  /\ \A b : \A f \in BOOLEAN : Shaped(Tool(Attribute, {}, {}, b, f))
  /\ \A b : \A f \in BOOLEAN : Shaped(Tool({}, {"filter"}, {}, b, f))
  /\ \A b : \A f \in BOOLEAN : Shaped(Tool({}, {"filter"}, {"filter"}, b, f))
  /\ \A b : \A f \in BOOLEAN : Shaped(Tool({}, {"start", "filter"}, {"start"}, b, f))
  BY DEF Tool, Shaped

(* The tools that make a body, with its keys.                              *)
CuratedBody ==
  [device_rename |-> {"name"},
   device_set_routes |-> {"routes"},
   device_set_tags |-> {"tags"},
   device_update_key |-> {"keyExpiryDisabled"},
   device_set_posture_attribute |-> {"value", "expiry"},
   device_batch_update_posture_attributes |-> {"nodes", "comment"},
   validate_acl |-> {"policy"},
   preview_acl |-> {"policy"}]

(* The curated tools, and those of the endpoint table.                     *)
LEMMA CuratedRows ==
  \A t \in DOMAIN Curated :
    /\ Shaped(Curated[t]) 
    /\ Curated[t].body = IF t \in DOMAIN CuratedBody THEN CuratedBody[t] ELSE {}
<1>1. DOMAIN Curated =
        {"list_devices", "get_device", "device_delete", "device_rename", "device_set_routes",
         "device_set_tags", "device_update_key", "device_set_posture_attribute",
         "device_delete_posture_attribute", "device_batch_update_posture_attributes",
         "validate_acl", "preview_acl"}
  BY DEF Curated
<1>2. /\ Curated.list_devices = Tool({}, {"filter"}, {}, {}, FALSE)
      /\ Curated.get_device = Tool(Device, {}, {}, {}, FALSE)
      /\ Curated.device_delete = Tool(Device, {}, {}, {}, TRUE)
      /\ Curated.device_rename = Tool(Device, {}, {}, {"name"}, TRUE)
      /\ Curated.device_set_routes = Tool(Device, {}, {}, {"routes"}, TRUE)
      /\ Curated.device_set_tags = Tool(Device, {}, {}, {"tags"}, TRUE)
      /\ Curated.device_update_key = Tool(Device, {}, {}, {"keyExpiryDisabled"}, TRUE)
      /\ Curated.device_set_posture_attribute = Tool(Attribute, {}, {}, {"value", "expiry"}, TRUE)
      /\ Curated.device_delete_posture_attribute = Tool(Attribute, {}, {}, {}, TRUE)
      /\ Curated.device_batch_update_posture_attributes =
           Tool({}, {}, {}, {"nodes", "comment"}, TRUE)
      /\ Curated.validate_acl = Tool({}, {}, {}, {"policy"}, FALSE)
      /\ Curated.preview_acl = Tool({}, {"filter"}, {"filter"}, {"policy"}, FALSE)
  BY DEF Curated
<1>3. /\ Shaped(Curated.list_devices) /\ Shaped(Curated.get_device) /\ Shaped(Curated.device_delete)
      /\ Shaped(Curated.device_rename) /\ Shaped(Curated.device_set_routes)
      /\ Shaped(Curated.device_set_tags) /\ Shaped(Curated.device_update_key)
      /\ Shaped(Curated.device_set_posture_attribute)
      /\ Shaped(Curated.device_delete_posture_attribute)
      /\ Shaped(Curated.device_batch_update_posture_attributes)
      /\ Shaped(Curated.validate_acl) /\ Shaped(Curated.preview_acl)
  BY <1>2, Shapes
<1>4. /\ Curated.list_devices.body = {} /\ Curated.get_device.body = {}
      /\ Curated.device_delete.body = {} /\ Curated.device_delete_posture_attribute.body = {}
      /\ Curated.device_rename.body = {"name"}
      /\ Curated.device_set_routes.body = {"routes"}
      /\ Curated.device_set_tags.body = {"tags"}
      /\ Curated.device_update_key.body = {"keyExpiryDisabled"}
      /\ Curated.device_set_posture_attribute.body = {"value", "expiry"}
      /\ Curated.device_batch_update_posture_attributes.body = {"nodes", "comment"}
      /\ Curated.validate_acl.body = {"policy"}
      /\ Curated.preview_acl.body = {"policy"}
  BY <1>2 DEF Tool
<1>5. DOMAIN CuratedBody =
        {"device_rename", "device_set_routes", "device_set_tags", "device_update_key",
         "device_set_posture_attribute", "device_batch_update_posture_attributes",
         "validate_acl", "preview_acl"}
  BY DEF CuratedBody
<1>6. /\ CuratedBody.device_rename = {"name"} /\ CuratedBody.device_set_routes = {"routes"}
      /\ CuratedBody.device_set_tags = {"tags"}
      /\ CuratedBody.device_update_key = {"keyExpiryDisabled"}
      /\ CuratedBody.device_set_posture_attribute = {"value", "expiry"}
      /\ CuratedBody.device_batch_update_posture_attributes = {"nodes", "comment"}
      /\ CuratedBody.validate_acl = {"policy"} /\ CuratedBody.preview_acl = {"policy"}
  BY DEF CuratedBody
<1> QED
  BY <1>1, <1>3, <1>4, <1>5, <1>6

LEMMA GeneratedRows ==
  \A t \in DOMAIN Generated : Shaped(Generated[t]) /\ Generated[t].body \subseteq {"body"}
<1>1. DOMAIN Generated =
        {"getContacts", "listUsers", "listConfigurationAuditLogs", "listDeviceRoutes",
         "getServiceDeviceApproval", "validateAwsExternalId", "previewRuleMatches",
         "validateAndTestPolicyFile", "setDnsConfiguration", "setDeviceTags", "expireDeviceKey",
         "updateServiceDeviceApproval", "deleteCustomDevicePostureAttributes"}
  BY DEF Generated
<1>2. /\ Generated.getContacts = Tool({}, {}, {}, {}, FALSE)
      /\ Generated.listUsers = Tool({}, {"filter"}, {}, {}, FALSE)
      /\ Generated.listConfigurationAuditLogs = Tool({}, {"start", "filter"}, {"start"}, {}, FALSE)
      /\ Generated.listDeviceRoutes = Tool(Device, {}, {}, {}, FALSE)
      /\ Generated.getServiceDeviceApproval = Tool(Attribute, {}, {}, {}, FALSE)
      /\ Generated.validateAwsExternalId = Tool(Device, {}, {}, {"body"}, FALSE)
      /\ Generated.previewRuleMatches = Tool({}, {"filter"}, {"filter"}, {"body"}, FALSE)
      /\ Generated.validateAndTestPolicyFile = Tool({}, {}, {}, {"body"}, FALSE)
      /\ Generated.setDnsConfiguration = Tool({}, {}, {}, {"body"}, TRUE)
      /\ Generated.setDeviceTags = Tool(Device, {}, {}, {"body"}, TRUE)
      /\ Generated.expireDeviceKey = Tool(Device, {}, {}, {}, TRUE)
      /\ Generated.updateServiceDeviceApproval = Tool(Attribute, {}, {}, {"body"}, TRUE)
      /\ Generated.deleteCustomDevicePostureAttributes = Tool(Attribute, {}, {}, {}, TRUE)
  BY DEF Generated
<1>3. /\ Shaped(Generated.getContacts) /\ Shaped(Generated.listUsers)
      /\ Shaped(Generated.listConfigurationAuditLogs) /\ Shaped(Generated.listDeviceRoutes)
      /\ Shaped(Generated.getServiceDeviceApproval) /\ Shaped(Generated.validateAwsExternalId)
      /\ Shaped(Generated.previewRuleMatches) /\ Shaped(Generated.validateAndTestPolicyFile)
      /\ Shaped(Generated.setDnsConfiguration) /\ Shaped(Generated.setDeviceTags)
      /\ Shaped(Generated.expireDeviceKey) /\ Shaped(Generated.updateServiceDeviceApproval)
      /\ Shaped(Generated.deleteCustomDevicePostureAttributes)
  BY <1>2, Shapes
<1>4. /\ Generated.getContacts.body \subseteq {"body"}
      /\ Generated.listUsers.body \subseteq {"body"}
      /\ Generated.listConfigurationAuditLogs.body \subseteq {"body"}
      /\ Generated.listDeviceRoutes.body \subseteq {"body"}
      /\ Generated.getServiceDeviceApproval.body \subseteq {"body"}
      /\ Generated.validateAwsExternalId.body \subseteq {"body"}
      /\ Generated.previewRuleMatches.body \subseteq {"body"}
      /\ Generated.validateAndTestPolicyFile.body \subseteq {"body"}
      /\ Generated.setDnsConfiguration.body \subseteq {"body"}
      /\ Generated.setDeviceTags.body \subseteq {"body"}
      /\ Generated.expireDeviceKey.body \subseteq {"body"}
      /\ Generated.updateServiceDeviceApproval.body \subseteq {"body"}
      /\ Generated.deleteCustomDevicePostureAttributes.body \subseteq {"body"}
  BY <1>2 DEF Tool
<1> QED
  BY <1>1, <1>3, <1>4

(* The tools of all kinds: only curated ones make a body.                  *)
LEMMA ToolRows ==
  \A t \in DOMAIN Tools :
    /\ Shaped(Tools[t])
    /\ t \in DOMAIN Curated =>
         Tools[t].body = IF t \in DOMAIN CuratedBody THEN CuratedBody[t] ELSE {}
    /\ t \notin DOMAIN Curated => Tools[t].body \subseteq {"body"}
    /\ t \in DOMAIN Templates => t \notin DOMAIN Curated /\ Tools[t].body = {}
<1>1. /\ DOMAIN Templates = {"device_routes", "device_attributes"}
      /\ "device_routes" \notin DOMAIN Curated \cup DOMAIN Generated
      /\ "device_attributes" \notin DOMAIN Curated \cup DOMAIN Generated
      /\ "resource" \notin DOMAIN Curated \cup DOMAIN Generated
  BY DEF Templates, Curated, Generated
<1>2. DOMAIN Curated \cap DOMAIN Generated = {}
  BY DEF Curated, Generated
<1>3. ASSUME NEW t \in DOMAIN Tools
      PROVE  \/ t \in DOMAIN Curated /\ Tools[t] = Curated[t]
             \/ t \in DOMAIN Generated /\ Tools[t] = Generated[t]
             \/ t \in DOMAIN Templates /\ Tools[t] = Tool(Device, {}, {}, {}, FALSE)
             \/ t = "resource" /\ Tools[t] = Tool({}, {}, {}, {}, FALSE)
  BY <1>1, <1>2 DEF Tools
<1>4. /\ Tool(Device, {}, {}, {}, FALSE).body = {} /\ Tool({}, {}, {}, {}, FALSE).body = {}
  BY DEF Tool
<1>5. Shaped(Tool(Device, {}, {}, {}, FALSE)) /\ Shaped(Tool({}, {}, {}, {}, FALSE))
  BY Shapes
<1> QED
  BY <1>1, <1>2, <1>3, <1>4, <1>5, CuratedRows, GeneratedRows

(* A value is printed as a string, and as nothing only if it is empty.     *)
LEMMA Printing ==
  /\ Null \notin Seq(Strings) /\ Strings \subseteq Values /\ Null \in Values
  /\ \A v \in Values : Sprint[v] \in Strings /\ (Sprint[v] = Empty <=> v = Empty)
<1>1. Strings \subseteq Scalars /\ Null \in Scalars /\ Scalars \subseteq Values
  BY DEF Scalars, Values
<1>2. Seq(Strings) \subseteq Seq(Scalars)
  BY <1>1
<1>3. Empty \in Strings
  BY ValueAssumption
<1> QED
  BY <1>1, <1>2, <1>3, ValueAssumption, PrintAssumption

(* Printed, a value is a list of strings.                                  *)
LEMMA PrintedTyped ==
  ASSUME NEW v \in Values PROVE Printed(v) \in Seq(Strings)
<1>1. CASE v \in Lists
  <2>1. v \in Seq(Scalars)
    BY <1>1, ValueAssumption
  <2>2. DOMAIN v = 1..Len(v) /\ Len(v) \in Nat /\ \A i \in 1..Len(v) : v[i] \in Scalars
    BY <2>1
  <2>3. \A i \in 1..Len(v) : Sprint[v[i]] \in Strings
    BY <2>2, Printing DEF Values
  <2>4. Printed(v) = [i \in 1..Len(v) |-> Sprint[v[i]]]
    BY <1>1, <2>2 DEF Printed
  <2> QED
    BY <2>2, <2>3, <2>4
<1>2. CASE v \notin Lists
  <2>1. Printed(v) = <<Sprint[v]>>
    BY <1>2 DEF Printed
  <2> QED
    BY <2>1, Printing
<1> QED
  BY <1>1, <1>2

(* The places of a value that is second of three.                          *)
LEMMA SecondOfThree ==
  ASSUME NEW f, NEW v, DOMAIN f = 1..3, f[1] # v, f[2] = v, f[3] # v
  PROVE  {i \in DOMAIN f : f[i] = v} = {2}
<1>1. 2 \in 1..3
  OBVIOUS
<1>2. \A i \in 1..3 : i = 1 \/ i = 2 \/ i = 3
  OBVIOUS
<1>3. \A i \in DOMAIN f : f[i] = v <=> i = 2
  BY <1>2
<1> QED
  BY <1>1, <1>3

(* Every template has three segments, and its variable in the second.      *)
LEMMA TemplateShape ==
  ASSUME NEW t \in DOMAIN Templates
  PROVE  /\ DOMAIN Templates[t] = 1..3 /\ Len(Templates[t]) = 3
         /\ Templates[t][2] = "{deviceId}" /\ Variables(Templates[t]) = {2}
<1> DEFINE Segmented(s) == <<"device", "{deviceId}", s>>
<1>1. PICK s \in {"routes", "attributes"} : Templates[t] = Segmented(s)
  <2>1. t = "device_routes" \/ t = "device_attributes"
    BY DEF Templates
  <2>2. /\ Templates["device_routes"] = Segmented("routes")
        /\ Templates["device_attributes"] = Segmented("attributes")
    BY DEF Templates
  <2> QED
    BY <2>1, <2>2
<1>2. /\ DOMAIN Segmented(s) = 1..3 /\ Len(Segmented(s)) = 3
      /\ Segmented(s)[1] = "device" /\ Segmented(s)[2] = "{deviceId}" /\ Segmented(s)[3] = s
  OBVIOUS
<1> HIDE DEF Segmented
<1>3. Segmented(s)[1] # "{deviceId}" /\ Segmented(s)[3] # "{deviceId}"
  BY <1>2
<1>4. {i \in DOMAIN Segmented(s) : Segmented(s)[i] = "{deviceId}"} = {2}
  BY <1>2, <1>3, SecondOfThree
<1>5. Variables(Templates[t]) = {2}
  BY <1>1, <1>4 DEF Variables
<1> QED
  BY <1>1, <1>2, <1>5

(* The handler sees each argument as the caller has said it.               *)
LEMMA SaidIsArg ==
  ASSUME call \in Calls, NEW n
  PROVE  Arg(ArgumentsOf(call), n) = Said(n)
<1>1. CASE FromURI(call)
  <2>1. (CHOOSE i \in {2} : TRUE) = 2
    OBVIOUS
  <2>2. ArgumentsOf(call) = [m \in Device |-> call.uri[2]]
    BY <1>1, <2>1, TemplateShape DEF ArgumentsOf, argumentsFromURI, FromURI
  <2>3. n \notin DOMAIN call.args
    <3>1. call.args = << >>
      BY <1>1 DEF FromURI
    <3> QED
      BY <3>1
  <2> QED
    BY <1>1, <2>2, <2>3 DEF Arg, Said, Device, FromURI
<1>2. CASE ~FromURI(call)
  <2>1. ArgumentsOf(call) = call.args
    BY <1>2 DEF ArgumentsOf
  <2>2. call.tool \in DOMAIN Templates => DOMAIN call.args = Device
    BY <1>2, CallAssumption DEF FromURI
  <2>3. CASE n \in DOMAIN call.args
    BY <2>1, <2>3 DEF Arg, Said
  <2>4. CASE n \notin DOMAIN call.args
    <3>1. ~(call.tool \in DOMAIN Templates /\ n = "deviceId")
      BY <2>2, <2>4 DEF Device
    <3>2. Said(n) = Null
      BY <2>4, <3>1 DEF Said
    <3>3. Arg(call.args, n) = Null
      BY <2>4 DEF Arg
    <3> QED
      BY <2>1, <3>2, <3>3
  <2> QED
    BY <2>3, <2>4
<1> QED
  BY <1>1, <1>2

(* Said in a template's URI, an argument is a segment.                     *)
LEMMA URISays ==
  ASSUME FromURI(call) PROVE Said("deviceId") = call.uri[2]
<1>1. call.args = << >> /\ call.tool \in DOMAIN Templates
  BY DEF FromURI
<1>2. "deviceId" \notin DOMAIN call.args
  BY <1>1
<1> QED
  BY <1>1, <1>2 DEF Said

(* A URI matches a template if it is the template, filled in.              *)
LEMMA MatchIsFilled ==
  ASSUME call \in Calls, FromURI(call)
  PROVE  Matches(Templates[call.tool], call.uri)
           <=> call.uri = [Templates[call.tool] EXCEPT ![2] = Said("deviceId")]
<1> DEFINE T == Templates[call.tool]
           u == call.uri
           E == [T EXCEPT ![2] = u[2]]
<1>1. /\ DOMAIN T = 1..3 /\ Len(T) = 3 /\ Variables(T) = {2}
  BY TemplateShape DEF FromURI
<1>2. u \in Seq(Strings \cup Segments)
  BY CallAssumption
<1>3. DOMAIN u = 1..Len(u) /\ Len(u) \in Nat /\ u = [i \in 1..Len(u) |-> u[i]]
  BY <1>2
<1>4. DOMAIN E = 1..3 /\ E[1] = T[1] /\ E[2] = u[2] /\ E[3] = T[3] /\ E = [i \in 1..3 |-> E[i]]
  BY <1>1
<1>5. Said("deviceId") = u[2]
  BY URISays
<1> HIDE DEF T, u, E
<1>6. Matches(T, u) <=> Len(u) = 3 /\ u[1] = T[1] /\ u[3] = T[3]
  <2>1. \A i \in 1..3 : i = 1 \/ i = 2 \/ i = 3
    OBVIOUS
  <2>2. 1 \in 1..3 /\ 3 \in 1..3
    OBVIOUS
  <2>3. DOMAIN T \ Variables(T) = {1, 3}
    BY <1>1, <2>1, <2>2
  <2> QED
    BY <1>1, <2>3 DEF Matches
<1>7. ASSUME Len(u) = 3, u[1] = T[1], u[3] = T[3] PROVE u = E
  <2>1. \A i \in 1..3 : u[i] = E[i]
    BY <1>4, <1>7
  <2> QED
    BY <1>3, <1>4, <1>7, <2>1
<1>8. ASSUME u = E PROVE Len(u) = 3 /\ u[1] = T[1] /\ u[3] = T[3]
  <2>1. 1..Len(u) = 1..3
    BY <1>3, <1>4, <1>8
  <2>2. Len(u) = 3
    BY <1>3, <2>1
  <2> QED
    BY <1>4, <1>8, <2>2
<1> QED
  BY <1>5, <1>6, <1>7, <1>8 DEF T, u, E

(* A list of strings is one of a sort if its elements are.                 *)
LEMMA SeqOfSort ==
  ASSUME NEW sort, NEW list \in Seq(Strings)
  PROVE  (\A i \in DOMAIN list : list[i] \in sort) <=> list \in Seq(sort)
<1>1. DOMAIN list = 1..Len(list) /\ Len(list) \in Nat /\ list = [i \in 1..Len(list) |-> list[i]]
  OBVIOUS
<1>2. ASSUME \A i \in DOMAIN list : list[i] \in sort PROVE list \in Seq(sort)
  BY <1>1, <1>2
<1>3. ASSUME list \in Seq(sort) PROVE \A i \in DOMAIN list : list[i] \in sort
  BY <1>1, <1>3
<1> QED
  BY <1>2, <1>3

(* Unless its URI is another's, what a call says is a value.               *)
LEMMA SaidTyped ==
  ASSUME call \in Calls, NEW n, FromURI(call) => Matches(Templates[call.tool], call.uri)
  PROVE  Said(n) \in Values
<1>1. CASE n \in DOMAIN call.args
  BY <1>1, CallAssumption DEF Said
<1>2. CASE n \notin DOMAIN call.args /\ call.tool \in DOMAIN Templates /\ n = "deviceId"
  <2>1. Said(n) = call.uri[2]
    BY <1>2 DEF Said
  <2>2. call.args = << >>
    BY <1>2, CallAssumption DEF Device
  <2>3. Len(call.uri) = 3
    BY <1>2, <2>2, TemplateShape DEF FromURI, Matches
  <2> QED
    BY <2>1, <2>3, CallAssumption, Printing
<1>3. CASE n \notin DOMAIN call.args /\ ~(call.tool \in DOMAIN Templates /\ n = "deviceId")
  <2>1. Said(n) = Null
    BY <1>3 DEF Said
  <2> QED
    BY <2>1, Printing
<1> QED
  BY <1>1, <1>2, <1>3

(* What the handlers test of a list of routes or tags, or of a value in    *)
(* its place.                                                              *)
LEMMA ListTest ==
  ASSUME NEW given, NEW n, NEW sort \in SUBSET Strings,
         Arg(given, n) = Said(n), Said(n) \in Values
  PROVE  All(stringSliceArg(given, n), sort) <=> AllSaid(n, sort)
<1> DEFINE w == Printed(Said(n))
<1>1. CASE Said(n) = Null
  BY <1>1 DEF stringSliceArg, All, AllSaid
<1>2. CASE Said(n) # Null
  <2>1. given[n] = Said(n)
    BY <1>2 DEF Arg
  <2>2. stringSliceArg(given, n) = w
    BY <1>2, <2>1 DEF stringSliceArg
  <2>3. w \in Seq(Strings) /\ w # Null
    BY PrintedTyped, Printing
  <2> HIDE DEF w
  <2>4. All(w, sort) <=> w \in Seq(sort)
    BY <2>3, SeqOfSort DEF All
  <2> QED
    BY <1>2, <2>2, <2>4 DEF AllSaid, w
<1> QED
  BY <1>1, <1>2

(* A call is refused exactly if it may be.                                 *)
LEMMA RefusedIfRefusable ==
  ASSUME call \in Calls PROVE Refused(call) <=> Refusable
<1> DEFINE given == ArgumentsOf(call)
           t == Tools[call.tool]
<1>1. ASSUME NEW n PROVE Arg(given, n) = Said(n)
  BY SaidIsArg
<1>2. CIDRs \in SUBSET Strings /\ Tags \in SUBSET Strings
  BY ValueAssumption
<1> HIDE DEF given
<1>3. CASE FromURI(call) /\ ~Matches(Templates[call.tool], call.uri)
  <2>1. Refused(call)
    BY <1>3 DEF Refused
  <2>2. Refusable
    BY <1>3, MatchIsFilled DEF Refusable, FromURI
  <2> QED
    BY <2>1, <2>2
<1>4. CASE ~(FromURI(call) /\ ~Matches(Templates[call.tool], call.uri))
  <2>1. \A n : Said(n) \in Values
    BY <1>4, SaidTyped
  <2>2. All(stringSliceArg(given, "routes"), CIDRs) <=> AllSaid("routes", CIDRs)
    BY <1>1, <1>2, <2>1, ListTest
  <2>3. All(stringSliceArg(given, "tags"), Tags) <=> AllSaid("tags", Tags)
    BY <1>1, <1>2, <2>1, ListTest
  <2>4. stringArg(given, "attributeKey") = Trim[Sprint[Said("attributeKey")]]
    BY <1>1 DEF stringArg
  <2>5. \A n : Present(given, n) <=> Said(n) \notin {Null, Empty}
    BY <1>1, <2>1, Printing DEF Present
  <2>6. Complete(t, given) <=> ~\E n \in t.required : Said(n) \in {Null, Empty}
    BY <2>5 DEF Complete
  <2>7. ~(call.tool \in DOMAIN Templates /\ call.args = << >>
            /\ call.uri # [Templates[call.tool] EXCEPT ![2] = Said("deviceId")])
    BY <1>4, MatchIsFilled DEF FromURI
  <2>8. Refused(call) <=> \/ t.confirm /\ ~call.confirmed
                          \/ Malformed(call.tool, given)
                          \/ ~Complete(t, given)
    BY <1>4 DEF Refused, given
  <2> QED
    BY <2>2, <2>3, <2>4, <2>6, <2>7, <2>8 DEF Malformed, Refusable
<1> QED
  BY <1>3, <1>4

(* What path and query get.                                                *)
LEMMA Expanded ==
  ASSUME call \in Calls, ~Refused(call)
  PROVE  LET t == Tools[call.tool] request == RequestOf(call)
         IN /\ DOMAIN request = {"path", "query", "body"}
            /\ DOMAIN request.path = t.path
            /\ \A n \in t.required :
                 n \in DOMAIN request.path \cup DOMAIN request.query \/ Printed(Said(n)) = << >>
            /\ DOMAIN request.query \subseteq t.query
            /\ \A n \in t.path : request.path[n] = Sprint[Said(n)]
            /\ \A n \in t.query :
                 IF n \in DOMAIN request.query THEN request.query[n] = Printed(Said(n))
                 ELSE Said(n) \in {Null, Empty} \/ Printed(Said(n)) = << >>
<1> DEFINE given == ArgumentsOf(call)
           t == Tools[call.tool]
           request == RequestOf(call)
<1>1. \A n : Arg(given, n) = Said(n)
  BY SaidIsArg
<1>2. Complete(t, given) /\ (FromURI(call) => Matches(Templates[call.tool], call.uri))
  BY DEF Refused
<1>3. t.path \subseteq t.required /\ t.required \subseteq t.path \cup t.query
  BY ToolRows, CallAssumption DEF Shaped
<1>4. \A n : Said(n) \in Values
  BY <1>2, SaidTyped
<1> DEFINE asked == {n \in t.query : Present(given, n) /\ Printed(given[n]) # << >>}
<1>5. /\ DOMAIN request = {"path", "query", "body"}
      /\ request.path = [n \in {m \in t.path : Present(given, m)} |-> Sprint[given[n]]]
      /\ request.query = [n \in asked |-> Printed(given[n])]
  BY DEF RequestOf, Expand
<1> HIDE DEF given, t, request
<1>6. \A n : Present(given, n) => given[n] = Said(n)
  BY <1>1 DEF Present, Arg
<1>7. \A n : ~Present(given, n) => Said(n) \in {Null, Empty}
  BY <1>1, <1>4, Printing DEF Present
<1>8. \A n \in t.required : Present(given, n)
  BY <1>2 DEF Complete
<1>9. DOMAIN request.path = t.path /\ \A n \in t.path : request.path[n] = Sprint[Said(n)]
  BY <1>3, <1>5, <1>6, <1>8
<1>10. DOMAIN request.query = asked
  BY <1>5
<1>11. ASSUME NEW n \in t.query
       PROVE  IF n \in DOMAIN request.query THEN request.query[n] = Printed(Said(n))
              ELSE Said(n) \in {Null, Empty} \/ Printed(Said(n)) = << >>
  <2>1. CASE n \in asked
    BY <1>5, <1>6, <1>10, <2>1
  <2>2. CASE n \notin asked
    BY <1>6, <1>7, <1>10, <2>2
  <2> QED
    BY <2>1, <2>2
<1>12. ASSUME NEW n \in t.required, n \notin DOMAIN request.path \cup DOMAIN request.query
       PROVE  Printed(Said(n)) = << >>
  <2>1. n \in t.query /\ Present(given, n) /\ n \notin asked
    BY <1>3, <1>8, <1>9, <1>10, <1>12
  <2> QED
    BY <1>6, <2>1
<1> QED
  BY <1>5, <1>9, <1>10, <1>11, <1>12 DEF t, request

(* The body keeps what the caller says of n.                               *)
Kept(n, w) ==
  \/ Said(n) = Null \/ Stands(w, Said(n))
  \/ n = "keyExpiryDisabled" /\ Said(n) \notin {Yes, No}
BodyKept(body, ns) ==
  /\ DOMAIN body \subseteq ns
  /\ \A n \in ns : IF n \in DOMAIN body THEN Kept(n, body[n]) ELSE Trim[Sprint[Said(n)]] = Empty

LEMMA PayloadKept ==
  ASSUME call \in Calls, call.tool \in DOMAIN CuratedBody
  PROVE  BodyKept(Payload(call.tool, ArgumentsOf(call)), CuratedBody[call.tool])
<1> DEFINE given == ArgumentsOf(call)
<1>1. \A n : Arg(given, n) = Said(n)
  BY SaidIsArg
<1>3. DOMAIN CuratedBody =
        {"device_rename", "device_set_routes", "device_set_tags", "device_update_key",
         "device_set_posture_attribute", "device_batch_update_posture_attributes",
         "validate_acl", "preview_acl"}
  BY DEF CuratedBody
<1> HIDE DEF given
<1>4. \A n : Kept(n, Arg(given, n))
  BY <1>1 DEF Kept, Stands
<1>5. \A n : Kept(n, stringArg(given, n)) /\ stringArg(given, n) = Trim[Sprint[Said(n)]]
  BY <1>1 DEF Kept, Stands, stringArg
<1>6. \A n : Kept(n, stringSliceArg(given, n))
  BY <1>1 DEF Kept, Stands, stringSliceArg, Arg
<1>7. Kept("keyExpiryDisabled", boolArg(given, "keyExpiryDisabled"))
  BY <1>1 DEF Kept, Stands, boolArg
<1>8. CASE call.tool = "device_rename"
  <2>1. Payload(call.tool, given) = [name |-> Arg(given, "name")]
    BY <1>8 DEF Payload
  <2>2. CuratedBody[call.tool] = {"name"}
    BY <1>8 DEF CuratedBody
  <2> QED
    BY <1>4, <2>1, <2>2 DEF BodyKept, given
<1>9. CASE call.tool = "device_set_routes"
  <2>1. Payload(call.tool, given) = [routes |-> stringSliceArg(given, "routes")]
    BY <1>9 DEF Payload
  <2>2. CuratedBody[call.tool] = {"routes"}
    BY <1>9 DEF CuratedBody
  <2> QED
    BY <1>6, <2>1, <2>2 DEF BodyKept, given
<1>10. CASE call.tool = "device_set_tags"
  <2>1. Payload(call.tool, given) = [tags |-> stringSliceArg(given, "tags")]
    BY <1>10 DEF Payload
  <2>2. CuratedBody[call.tool] = {"tags"}
    BY <1>10 DEF CuratedBody
  <2> QED
    BY <1>6, <2>1, <2>2 DEF BodyKept, given
<1>11. CASE call.tool = "device_update_key"
  <2>1. Payload(call.tool, given) = [keyExpiryDisabled |-> boolArg(given, "keyExpiryDisabled")]
    BY <1>11 DEF Payload
  <2>2. CuratedBody[call.tool] = {"keyExpiryDisabled"}
    BY <1>11 DEF CuratedBody
  <2> QED
    BY <1>7, <2>1, <2>2 DEF BodyKept, given
<1> DEFINE Optional(n) == {m \in {n} : stringArg(given, m) # Empty}
           With(n, optional) ==
             [m \in {n} \cup Optional(optional) |->
                IF m = n THEN Arg(given, n) ELSE stringArg(given, m)]
<1>12. ASSUME NEW n, NEW optional, n # optional PROVE BodyKept(With(n, optional), {n, optional})
  <2>1. DOMAIN With(n, optional) = {n} \cup Optional(optional)
    OBVIOUS
  <2>2. Kept(n, With(n, optional)[n])
    BY <1>4
  <2>3. optional \in DOMAIN With(n, optional) => Kept(optional, With(n, optional)[optional])
    BY <1>5, <1>12
  <2>4. optional \notin DOMAIN With(n, optional) => Trim[Sprint[Said(optional)]] = Empty
    BY <1>5
  <2> QED
    BY <2>1, <2>2, <2>3, <2>4 DEF BodyKept
<1>13. BodyKept(With("value", "expiry"), {"value", "expiry"})
  BY <1>12
<1>14. BodyKept(With("nodes", "comment"), {"nodes", "comment"})
  BY <1>12
<1>15. CASE call.tool = "device_set_posture_attribute"
  <2>1. Payload(call.tool, given) = With("value", "expiry")
    BY <1>15 DEF Payload
  <2>2. CuratedBody[call.tool] = {"value", "expiry"}
    BY <1>15 DEF CuratedBody
  <2> QED
    BY <1>13, <2>1, <2>2 DEF given
<1>16. CASE call.tool = "device_batch_update_posture_attributes"
  <2>1. Payload(call.tool, given) = With("nodes", "comment")
    BY <1>16 DEF Payload
  <2>2. CuratedBody[call.tool] = {"nodes", "comment"}
    BY <1>16 DEF CuratedBody
  <2> QED
    BY <1>14, <2>1, <2>2 DEF given
<1>17. CASE call.tool \in {"validate_acl", "preview_acl"}
  <2>1. Payload(call.tool, given) = [policy |-> stringArg(given, "policy")]
    BY <1>17 DEF Payload
  <2>2. CuratedBody[call.tool] = {"policy"}
    BY <1>17 DEF CuratedBody
  <2> QED
    BY <1>5, <2>1, <2>2 DEF BodyKept, given
<1> QED
  BY <1>3, <1>8, <1>9, <1>10, <1>11, <1>15, <1>16, <1>17

(* What the body gets.                                                     *)
LEMMA BodyFaithful ==
  ASSUME call \in Calls
  PROVE  LET t == Tools[call.tool] body == RequestOf(call).body
         IN IF t.body \subseteq {"body"}
              THEN body = IF "body" \in t.body \cap DOMAIN call.args
                            THEN call.args["body"] ELSE Nothing
              ELSE BodyKept(body, t.body)
<1> DEFINE given == ArgumentsOf(call)
           t == Tools[call.tool]
<1>1. RequestOf(call).body = BodyOf(call.tool, given)
  BY DEF RequestOf
<1>2. call.tool \in DOMAIN Tools
  BY CallAssumption
<1>3. CASE call.tool \in DOMAIN CuratedBody /\ call.tool \in DOMAIN Curated
  <2>1. t.body = CuratedBody[call.tool]
    BY <1>2, <1>3, ToolRows
  <2>2. ~(CuratedBody[call.tool] \subseteq {"body"})
    BY <1>3 DEF CuratedBody
  <2>3. BodyOf(call.tool, given) = Payload(call.tool, given)
    <3>1. t.body # {}
      BY <2>1, <2>2
    <3> QED
      BY <1>3, <3>1 DEF BodyOf
  <2> QED
    BY <1>1, <1>3, <2>1, <2>2, <2>3, PayloadKept
<1>4. CASE ~(call.tool \in DOMAIN CuratedBody /\ call.tool \in DOMAIN Curated)
  <2>1. t.body \subseteq {"body"} /\ (call.tool \in DOMAIN Curated => t.body = {})
    BY <1>2, <1>4, ToolRows
  <2>2. BodyOf(call.tool, given)
          = IF "body" \in t.body \cap DOMAIN given THEN given["body"] ELSE Nothing
    BY <2>1 DEF BodyOf
  <2>3. t.body # {} => given = call.args
    BY <1>2, ToolRows DEF ArgumentsOf, FromURI
  <2> QED
    BY <1>1, <2>1, <2>2, <2>3
<1> QED
  BY <1>3, <1>4

(* RequestInv is inductive, and there is one request at most.              *)
LEMMA RequestInit == TRInit => RequestInv
  BY DEF TRInit, RequestInv

LEMMA RequestStep == RequestInv /\ [TRNext]_trVars => RequestInv'
<1> SUFFICES ASSUME RequestInv, [TRNext]_trVars PROVE RequestInv'
  OBVIOUS
<1>1. CASE Call
  BY <1>1 DEF RequestInv, Call
<1>2. CASE Handle
  <2>1. requests = << >> /\ call \in Calls
    BY <1>2 DEF Handle, RequestInv
  <2>2. Append(requests, RequestOf(call)) = <<RequestOf(call)>>
    BY <2>1
  <2>3. CASE Refused(call)
    BY <1>2, <2>1, <2>3 DEF Handle, RequestInv
  <2>4. CASE ~Refused(call)
    BY <1>2, <2>1, <2>2, <2>4 DEF Handle, RequestInv
  <2> QED
    BY <2>3, <2>4
<1>3. CASE Answer
  BY <1>3 DEF RequestInv, Answer
<1>4. CASE Return
  BY <1>4 DEF RequestInv, Return
<1>5. CASE UNCHANGED trVars
  BY <1>5 DEF RequestInv, trVars
<1> QED
  BY <1>1, <1>2, <1>3, <1>4, <1>5 DEF TRNext

LEMMA RequestOfCall ==
  ASSUME RequestInv, NEW i \in DOMAIN requests
  PROVE  i = 1 /\ requests[i] = RequestOf(call) /\ call \in Calls /\ ~Refused(call)
<1>1. CASE requests = << >>
  BY <1>1
<1>2. CASE requests = <<RequestOf(call)>> /\ stage \in {"sent", "done"} /\ ~Refused(call)
  BY <1>2 DEF RequestInv
<1> QED
  BY <1>1, <1>2 DEF RequestInv

(* It implies the type invariant...                                        *)
LEMMA RequestInvTyped == RequestInv => TRTypeOK
<1> SUFFICES ASSUME RequestInv PROVE TRTypeOK
  OBVIOUS
<1>1. call = Nothing <=> stage = "idle"
  BY NoCallAssumption DEF RequestInv
<1>2. Len(requests) <= 1 /\ (stage = "sent" => Len(requests) = 1)
  <2>1. CASE requests = << >>
    <3>1. Len(requests) = 0 /\ requests # <<RequestOf(call)>>
      BY <2>1
    <3> QED
      BY <3>1 DEF RequestInv
  <2>2. CASE requests = <<RequestOf(call)>>
    <3>1. Len(requests) = 1
      BY <2>2
    <3> QED
      BY <3>1
  <2>3. requests = << >> \/ requests = <<RequestOf(call)>>
    BY DEF RequestInv
  <2> QED
    BY <2>1, <2>2, <2>3
<1>3. ASSUME NEW i \in DOMAIN requests
      PROVE  /\ DOMAIN requests[i] = {"path", "query", "body"}
             /\ DOMAIN requests[i].path = Tools[call.tool].path
             /\ \A n \in Tools[call.tool].required :
                  \/ n \in DOMAIN requests[i].path \cup DOMAIN requests[i].query
                  \/ Printed(Said(n)) = << >>
             /\ DOMAIN requests[i].query \subseteq Tools[call.tool].query
  <2>1. requests[i] = RequestOf(call) /\ call \in Calls /\ ~Refused(call)
    BY RequestOfCall
  <2> QED
    BY <2>1, Expanded
<1>4. stage \in {"idle", "called", "sent", "done"} /\ answer \in {"none", "error", "result"}
  BY DEF RequestInv
<1> QED
  BY <1>1, <1>2, <1>3, <1>4 DEF TRTypeOK

(* ... and faithfulness.                                                   *)
LEMMA RequestInvFaithful == RequestInv => RequestFaithful
<1> SUFFICES ASSUME RequestInv PROVE RequestFaithful
  OBVIOUS
<1>1. stage = "done" /\ requests = << >> => Refusable
  <2> SUFFICES ASSUME stage = "done", requests = << >> PROVE Refusable
    OBVIOUS
  <2>1. call \in Calls /\ Refused(call)
    <3>1. <<RequestOf(call)>> # << >>
      OBVIOUS
    <3>2. call \in Calls
      BY DEF RequestInv
    <3>3. requests = IF Refused(call) THEN << >> ELSE <<RequestOf(call)>>
      BY DEF RequestInv
    <3> QED
      BY <3>1, <3>2, <3>3
  <2> QED
    BY <2>1, RefusedIfRefusable
<1>2. ASSUME NEW i \in DOMAIN requests PROVE ~Refusable
  BY RequestOfCall, RefusedIfRefusable
<1> QED
  BY <1>1, <1>2, RequestOfCall, Expanded, BodyFaithful DEF RequestFaithful, BodyKept, Kept

(* A call is answered with at most one request, which has all that its     *)
(* endpoint requires, save a query parameter given as an empty list, and   *)
(* no parameter that it does not have (Do, Expand, addQueryValue).         *)
THEOREM RequestsTyped == TRSpec => []TRTypeOK
  BY RequestInit, RequestStep, RequestInvTyped, PTL DEF TRSpec

(* For all tools and all JSON values as arguments, and whatever mcp-go     *)
(* makes of the variables of a template: a call is refused exactly if it   *)
(* may be, a string of blanks being no missing argument, and else its      *)
(* request has what the caller says, each argument printed into its place, *)
(* and nothing that is not declared (the handlers of curatedtools, body,   *)
(* Expand, addQueryValue, argumentsFromURI).                               *)
THEOREM RequestsFaithful == TRSpec => []RequestFaithful
  BY RequestInit, RequestStep, RequestInvFaithful, PTL DEF TRSpec
=============================================================================
