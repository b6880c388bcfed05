---------------------------- MODULE ToolRequests ----------------------------
(***************************************************************************)
(* From the arguments of a tool call to the Admin API request: the curated *)
(* device and policy tools, the tools generated from the endpoint table,   *)
(* and the resource templates, whose arguments come out of the URI.  A     *)
(* handler checks the confirmation and the arguments, builds a body from   *)
(* them, expands path and query, and sends the one request; each of these  *)
(* may refuse the call.  The access check in between is AccessControl's.   *)
(*                                                                         *)
(* An argument is any JSON value: the server does not hold clients to the *)
(* schemas.  Go's conversions are constants: Sprint is fmt.Sprint, which   *)
(* prints a list as one text, and Trim is strings.TrimSpace.  They are     *)
(* applied where the code applies them, and nowhere else: a blank that is  *)
(* not the empty string is an argument like any other to Expand.           *)
(* url.PathEscape and the encodings of query and body lose nothing and are *)
(* left out.                                                               *)
(*                                                                         *)
(* What is not named after the source begins with TR where PolicyUpdate    *)
(* has the same name: one module proves both.                              *)
(***************************************************************************)
EXTENDS Naturals, Sequences

CONSTANTS
  Strings,    \* the strings of JSON
  CIDRs,      \* those that are routes
  Tags,       \* those that begin with tag:
  Attributes, \* those that begin with custom:
  Empty,      \* the empty string
  Nil,        \* "<nil>", what fmt.Sprint makes of null
  Objects,    \* numbers, objects, lists in lists
  Lists,      \* lists
  Yes, No,    \* the booleans of JSON
  Null,       \* its null
  Sprint,     \* the string a value is printed as
  Trim,       \* a string without the blanks around it
  Nothing,    \* no body, no call
  Calls       \* the calls a client may make

Scalars == Strings \cup Objects \cup {Yes, No, Null}
Values == Scalars \cup Lists
Segments == {"device", "routes", "attributes"}  \* of the URIs of resources

Names == {"deviceId", "attributeKey", "start", "filter", "body", "name", "policy", "routes",
          "tags", "keyExpiryDisabled", "value", "expiry", "nodes", "comment"}

ASSUME ValueAssumption ==
  /\ CIDRs \cup Tags \cup Attributes \cup {Empty, Nil} \subseteq Strings
  /\ Lists \subseteq Seq(Scalars)
  /\ \A x \in {Yes, No, Null, Nothing} : x \notin Strings \cup Seq(Scalars)
  /\ Yes # No /\ Null \notin {Yes, No} /\ Nothing \notin Values

(* Only the empty string is printed as nothing; a string is printed as it  *)
(* is.                                                                     *)
ASSUME PrintAssumption ==
  /\ Sprint \in [Values -> Strings] /\ Sprint[Null] = Nil
  /\ \A str \in Strings : Sprint[str] = str
  /\ \A v \in Values : Sprint[v] = Empty => v = Empty
  /\ Trim \in [Strings -> Strings] /\ Trim[Empty] = Empty /\ Trim[Nil] = Nil
  /\ \A str \in Strings : Trim[Trim[str]] = Trim[str]

-----------------------------------------------------------------------------
(* Of a tool: the arguments that are parameters of its path and query, of  *)
(* which required must be there (all of the path must); the arguments its  *)
(* handler makes the body of, where "body" is passed on as it is; whether  *)
(* it asks for a confirmation.                                             *)
Tool(path, query, required, body, confirm) ==
  [path |-> path, query |-> query, required |-> path \cup required,
   body |-> body, confirm |-> confirm]

Device == {"deviceId"}
Attribute == {"deviceId", "attributeKey"}

(* tailscale_device_rename stands for set_ip as well (namedBody), get for  *)
(* all the tools that read about one device, delete for expire_key.        *)
Curated ==
  [list_devices |-> Tool({}, {"filter"}, {}, {}, FALSE),
   get_device |-> Tool(Device, {}, {}, {}, FALSE),
   device_delete |-> Tool(Device, {}, {}, {}, TRUE),
   device_rename |-> Tool(Device, {}, {}, {"name"}, TRUE),
   device_set_routes |-> Tool(Device, {}, {}, {"routes"}, TRUE),
   device_set_tags |-> Tool(Device, {}, {}, {"tags"}, TRUE),
   device_update_key |-> Tool(Device, {}, {}, {"keyExpiryDisabled"}, TRUE),
   device_set_posture_attribute |-> Tool(Attribute, {}, {}, {"value", "expiry"}, TRUE),
   device_delete_posture_attribute |-> Tool(Attribute, {}, {}, {}, TRUE),
   device_batch_update_posture_attributes |-> Tool({}, {}, {}, {"nodes", "comment"}, TRUE),
   validate_acl |-> Tool({}, {}, {}, {"policy"}, FALSE),
   preview_acl |-> Tool({}, {"filter"}, {"filter"}, {"policy"}, FALSE)]

(* The endpoint table has an entry of each of these kinds, and no others.  *)
Generated ==
  [getContacts |-> Tool({}, {}, {}, {}, FALSE),
   listUsers |-> Tool({}, {"filter"}, {}, {}, FALSE),
   listConfigurationAuditLogs |-> Tool({}, {"start", "filter"}, {"start"}, {}, FALSE),
   listDeviceRoutes |-> Tool(Device, {}, {}, {}, FALSE),
   getServiceDeviceApproval |-> Tool(Attribute, {}, {}, {}, FALSE),
   validateAwsExternalId |-> Tool(Device, {}, {}, {"body"}, FALSE),
   previewRuleMatches |-> Tool({}, {"filter"}, {"filter"}, {"body"}, FALSE),
   validateAndTestPolicyFile |-> Tool({}, {}, {}, {"body"}, FALSE),
   setDnsConfiguration |-> Tool({}, {}, {}, {"body"}, TRUE),
   setDeviceTags |-> Tool(Device, {}, {}, {"body"}, TRUE),
   expireDeviceKey |-> Tool(Device, {}, {}, {}, TRUE),
   updateServiceDeviceApproval |-> Tool(Attribute, {}, {}, {"body"}, TRUE),
   deleteCustomDevicePostureAttributes |-> Tool(Attribute, {}, {}, {}, TRUE)]

(* The resource templates, by the segments of their URIs.                  *)
Templates ==
  [device_routes |-> <<"device", "{deviceId}", "routes">>,
   device_attributes |-> <<"device", "{deviceId}", "attributes">>]

Tools ==
  [t \in DOMAIN Curated \cup DOMAIN Generated \cup DOMAIN Templates \cup {"resource"} |->
     CASE t \in DOMAIN Curated -> Curated[t]
       [] t \in DOMAIN Generated -> Generated[t]
       [] t \in DOMAIN Templates -> Tool(Device, {}, {}, {}, FALSE)
       [] t = "resource" -> Tool({}, {}, {}, {}, FALSE)]

(* Of the arguments, args has the ones the client gave; of a template,     *)
(* those that mcp-go has found in the URI, or none.  It gives them in a    *)
(* map without types, so they may be strings, or lists of one, or others.  *)
ASSUME CallAssumption ==
  \A c \in Calls :
    /\ c.tool \in DOMAIN Tools /\ c.confirmed \in BOOLEAN
    /\ DOMAIN c.args \subseteq Names
    /\ \A n \in DOMAIN c.args : c.args[n] \in Values
    /\ c.uri \in Seq(Strings \cup Segments) /\ (Len(c.uri) = 3 => c.uri[2] \in Strings)
    /\ c.tool \in DOMAIN Templates => c.args = << >> \/ DOMAIN c.args = Device

ASSUME NoCallAssumption == Nothing \notin Calls

VARIABLES
  call,     \* the call in progress, or Nothing
  stage,    \* "idle", "called", "sent", "done"
  requests, \* the requests sent for it: [path, query, body]
  answer    \* "none", "error", or "result"

trVars == <<call, stage, requests, answer>>

TRInit == call = Nothing /\ stage = "idle" /\ requests = << >> /\ answer = "none"

-----------------------------------------------------------------------------
(* The arguments as the handlers see them.                                 *)
Arg(args, n) == IF n \in DOMAIN args THEN args[n] ELSE Null

(* A value as text: a list's items one by one, or the value alone.         *)
Printed(v) == IF v \in Lists THEN [i \in DOMAIN v |-> Sprint[v[i]]] ELSE <<Sprint[v]>>

stringArg(args, n) == Trim[Sprint[Arg(args, n)]]
boolArg(args, n) == IF Arg(args, n) = Yes THEN Yes ELSE No
stringSliceArg(args, n) == IF Arg(args, n) = Null THEN Null ELSE Printed(args[n])

All(list, sort) == list = Null \/ \A i \in DOMAIN list : list[i] \in sort

(* What a handler refuses.                                                 *)
Malformed(tool, args) ==
  \/ tool = "device_set_routes" /\ ~All(stringSliceArg(args, "routes"), CIDRs)
  \/ tool = "device_set_tags" /\ ~All(stringSliceArg(args, "tags"), Tags)
  \/ tool = "device_set_posture_attribute" /\ stringArg(args, "attributeKey") \notin Attributes

(* The body a handler makes, by its keys; the text of a policy is no JSON  *)
(* object, and has the key "policy" here.                                  *)
Payload(tool, args) ==
  LET Optional(n) == {m \in {n} : stringArg(args, m) # Empty}
      With(n, optional) ==
        [m \in {n} \cup Optional(optional) |-> IF m = n THEN Arg(args, n) ELSE stringArg(args, m)]
  IN CASE tool = "device_rename" -> [name |-> Arg(args, "name")]
       [] tool = "device_set_routes" -> [routes |-> stringSliceArg(args, "routes")]
       [] tool = "device_set_tags" -> [tags |-> stringSliceArg(args, "tags")]
       [] tool = "device_update_key" -> [keyExpiryDisabled |-> boolArg(args, "keyExpiryDisabled")]
       [] tool = "device_set_posture_attribute" -> With("value", "expiry")
       [] tool = "device_batch_update_posture_attributes" -> With("nodes", "comment")
       [] tool \in {"validate_acl", "preview_acl"} -> [policy |-> stringArg(args, "policy")]

CallersBodyKept(tool, args) ==
  IF "body" \in DOMAIN args THEN args["body"]
  ELSE IF tool \in DOMAIN Curated /\ Tools[tool].body # {} THEN Payload(tool, args) ELSE Nothing

(* body and Do: a handler that makes a body puts it in the place of any    *)
(* the caller gave; only a generated tool passes the caller's on, and only *)
(* if its endpoint has one.                                                *)
BodyOf(tool, args) ==
  IF tool \in DOMAIN Curated /\ Tools[tool].body # {} THEN Payload(tool, args)
  ELSE IF "body" \in Tools[tool].body \cap DOMAIN args THEN args["body"] ELSE Nothing

(* Expand takes an argument that is null or printed as the empty string    *)
(* for a missing one.  It does not trim.                                   *)
Present(args, n) == Arg(args, n) # Null /\ Sprint[Arg(args, n)] # Empty

CompletePath(tool, args) == \A n \in tool.path : Present(args, n)

(* Expand fails if a required argument is missing, or one of the path.     *)
Complete(tool, args) == \A n \in tool.required : Present(args, n)

(* The path gets the value as one text, the query one for each item, and   *)
(* so none for an empty list (addQueryValue).                              *)
Expand(tool, args) ==
  [path |-> [n \in {m \in tool.path : Present(args, m)} |-> Sprint[args[n]]],
   query |-> [n \in {m \in tool.query : Present(args, m) /\ Printed(args[m]) # << >>} |->
                Printed(args[n])]]

(* argumentsFromURI: fails if the URI is not one of the template's.        *)
Variables(template) == {i \in DOMAIN template : template[i] = "{deviceId}"}
Matches(template, uri) ==
  /\ Len(uri) = Len(template)
  /\ \A i \in DOMAIN template \ Variables(template) : uri[i] = template[i]
argumentsFromURI(template, uri) ==
  [n \in Device |-> uri[CHOOSE i \in Variables(template) : TRUE]]

(* The arguments of a template are in its URI, if mcp-go has not found     *)
(* them there already.                                                     *)
FromURI(c) == c.tool \in DOMAIN Templates /\ c.args = << >>
ArgumentsOf(c) == IF FromURI(c) THEN argumentsFromURI(Templates[c.tool], c.uri) ELSE c.args

-----------------------------------------------------------------------------
Refused(c) ==
  LET args == ArgumentsOf(c)
  IN \/ Tools[c.tool].confirm /\ ~c.confirmed
     \/ FromURI(c) /\ ~Matches(Templates[c.tool], c.uri)
     \/ Malformed(c.tool, args)
     \/ ~Complete(Tools[c.tool], args)

RequestOf(c) ==
  LET args == ArgumentsOf(c)
      to == Expand(Tools[c.tool], args)
  IN [path |-> to.path, query |-> to.query, body |-> BodyOf(c.tool, args)]

Call ==
  /\ stage = "idle"
  /\ call' \in Calls /\ stage' = "called"
  /\ UNCHANGED <<requests, answer>>

\* The handler up to the request, which it sends unless it refuses the call.
Handle ==
  /\ stage = "called"
  /\ IF Refused(call)
       THEN stage' = "done" /\ answer' = "error" /\ UNCHANGED requests
       ELSE /\ stage' = "sent" /\ requests' = Append(requests, RequestOf(call))
            /\ UNCHANGED answer
  /\ UNCHANGED call

\* The rest of Do: the status decides; an empty answer is a result, too.
Answer ==
  /\ stage = "sent"
  /\ stage' = "done" /\ answer' \in {"result", "error"}
  /\ UNCHANGED <<call, requests>>

Return ==
  /\ stage = "done"
  /\ stage' = "idle" /\ call' = Nothing /\ requests' = << >> /\ answer' = "none"

TRNext == Call \/ Handle \/ Answer \/ Return

TRSpec == TRInit /\ [][TRNext]_trVars

-----------------------------------------------------------------------------
(* What the caller says of n: in an argument, or in the URI.               *)
Said(n) ==
  IF n \in DOMAIN call.args THEN call.args[n]
  ELSE IF call.tool \in DOMAIN Templates /\ n = "deviceId" THEN call.uri[2] ELSE Null

(* The type invariant: a call is answered with at most one request, which  *)
(* has all that the endpoint requires, save a query parameter for which    *)
(* the caller gives an empty list, and no parameter it does not have.      *)
TRTypeOK ==
  /\ stage \in {"idle", "called", "sent", "done"}
  /\ call = Nothing <=> stage = "idle"
  /\ answer \in {"none", "error", "result"}
  /\ Len(requests) <= 1 /\ (stage = "sent" => Len(requests) = 1)
  /\ \A i \in DOMAIN requests :
       /\ DOMAIN requests[i] = {"path", "query", "body"}
       /\ DOMAIN requests[i].path = Tools[call.tool].path
       /\ \A n \in Tools[call.tool].required :
            n \in DOMAIN requests[i].path \cup DOMAIN requests[i].query \/ Printed(Said(n)) = << >>
       /\ DOMAIN requests[i].query \subseteq Tools[call.tool].query

(* A list all of whose items, or a single value, are of a sort.            *)
AllSaid(n, sort) == Said(n) = Null \/ Printed(Said(n)) \in Seq(sort)

(* A call that may be refused: not confirmed, without an argument that     *)
(* path or query need, with a bad element, or to another URI.  An argument *)
(* of blanks is not missing.                                               *)
Refusable ==
  LET t == Tools[call.tool]
  IN \/ t.confirm /\ ~call.confirmed
     \/ \E n \in t.required : Said(n) \in {Null, Empty}
     \/ call.tool = "device_set_routes" /\ ~AllSaid("routes", CIDRs)
     \/ call.tool = "device_set_tags" /\ ~AllSaid("tags", Tags)
     \/ call.tool = "device_set_posture_attribute"
          /\ Trim[Sprint[Said("attributeKey")]] \notin Attributes
     \/ call.tool \in DOMAIN Templates /\ call.args = << >>
          /\ call.uri # [Templates[call.tool] EXCEPT ![2] = Said("deviceId")]

(* What may stand for v: itself, or itself as a text or as a list of them. *)
Stands(w, v) == w \in {v, Printed(v), Trim[Sprint[v]]}

(* The request is the call's, for every tool and combination of arguments. *)
(* A call is refused exactly if it may be; each declared argument that the *)
(* caller gives goes into its place, in the path as fmt.Sprint prints it   *)
(* (untrimmed even where the check of the attribute's key trims it; a list *)
(* as one text in brackets, also if mcp-go gives a variable of a template  *)
(* as a list), in the query item by item, in the body as it is, as a list  *)
(* of texts or as a trimmed text, but for a flag that is no boolean; and   *)
(* nothing that is not declared goes anywhere: a body given to a tool that *)
(* makes its own, or has none, never reaches the API around the checks on  *)
(* routes, tags and attributes.                                            *)
RequestFaithful ==
  LET t == Tools[call.tool]
      Kept(n, w) ==
        \/ Said(n) = Null \/ Stands(w, Said(n))
        \/ n = "keyExpiryDisabled" /\ Said(n) \notin {Yes, No}
  IN /\ stage = "done" /\ requests = << >> => Refusable
     /\ \A i \in DOMAIN requests :
          LET request == requests[i]
          IN /\ ~Refusable
             /\ \A n \in t.path : request.path[n] = Sprint[Said(n)]
             /\ \A n \in t.query :
                  IF n \in DOMAIN request.query THEN request.query[n] = Printed(Said(n))
                  ELSE Said(n) \in {Null, Empty} \/ Printed(Said(n)) = << >>
             /\ IF t.body \subseteq {"body"}
                  THEN request.body = IF "body" \in t.body \cap DOMAIN call.args
                                        THEN call.args["body"] ELSE Nothing
                  ELSE /\ DOMAIN request.body \subseteq t.body
                       /\ \A n \in t.body :
                            IF n \in DOMAIN request.body THEN Kept(n, request.body[n])
                            ELSE Trim[Sprint[Said(n)]] = Empty

(* The inductive invariant behind both: a request is the one made of the   *)
(* call, and there is none exactly if the call is refused.                 *)
RequestInv ==
  /\ stage \in {"idle", "called", "sent", "done"}
  /\ answer \in {"none", "error", "result"}
  /\ IF stage = "idle" THEN call = Nothing ELSE call \in Calls
  /\ stage \in {"idle", "called"} => requests = << >>
  /\ stage \in {"sent", "done"} =>
       requests = IF Refused(call) THEN << >> ELSE <<RequestOf(call)>>
  /\ stage = "sent" => ~Refused(call)

(* expiry and comment are optional in the tools' schemas (no               *)
(* mcp.Required), and attributeSetBody and batchAttributesBody put them    *)
(* into the body only if they are not empty: a caller that leaves one out  *)
(* says nothing about it, so the request says nothing about it either.     *)
LeftOutNotSent ==
  \A i \in DOMAIN requests :
    LET body == requests[i].body
    IN body # Nothing /\ call.tool \in DOMAIN Curated =>
         \A n \in {"expiry", "comment"} \cap DOMAIN body : n \in DOMAIN call.args
=============================================================================
