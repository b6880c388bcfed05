--------------------------- MODULE AccessControl ---------------------------
(***************************************************************************)
(* The life of MCP requests in a running server: the HTTP middleware chain *)
(* of main.go (profile, origin, grant), the stdio context, the tool filter *)
(* and the access checks of grants.go, and the Admin API calls a handler   *)
(* makes, while an administrator edits the tailnet policy.                 *)
(*                                                                         *)
(* Requests are served concurrently.  The only state they share is the     *)
(* policy: each HTTP request captures its caller's grant once, in          *)
(* grantMiddleware, and every later step reads the captured copy.          *)
(***************************************************************************)
EXTENDS ToolSelectors

CONSTANTS
  Reqs,          \* the requests of one behaviour
  Users,         \* tailnet logins
  Local,         \* the caller on stdio or the loopback listener
  Policies,      \* the lists of grant entries a login may be given
  Configs,       \* the startup configurations
  ConfirmTools,  \* the tools that demand a confirm argument
  CallsOf,       \* the number of Admin API calls the tool's handler makes
  Paths,         \* the profile names clients put in the URL; None for /mcp
  MaxEdits       \* bound on policy edits

Callers == Users \cup {Local}
Items   == Names \cup Uris

\* The outcomes of a request, each from its place in the code.
Answers == {"404", "403 origin", "403 grant", "401", "listed", "not found",
            "unconfirmed", "denied", "done", "API error"}

(* A configuration: transport (FALSE: both HTTP listeners), the parsed     *)
(* --local-grants, the parsed --config, the name given with --profile, and *)
(* whether mcp-go applies the tool filter to tools/call as well as to      *)
(* tools/list (outside this repository, hence both are considered).        *)
ValidConfig(c) ==
  /\ DOMAIN c = {"stdio", "localGrants", "profiles", "profile", "filterOnCall"}
  /\ c.stdio \in BOOLEAN /\ c.filterOnCall \in BOOLEAN
  /\ ValidProfileConfig(c.profiles)
  /\ Resolves(c.profiles, c.profile)

ASSUME AccessAssumption ==
  /\ Local \notin Users
  /\ None \notin Callers \cup Answers
  /\ Names \cap Uris = {}
  /\ CallsOf \in [Tools -> Nat \ {0}]
  /\ ConfirmTools \subseteq Tools
  /\ MaxEdits \in Nat
  /\ None \in Paths
  /\ \A c \in Configs : ValidConfig(c)

VARIABLES
  config,     \* fixed at startup
  policy,     \* the grant entries that match each login, as WhoIs reports them
  edits,      \* number of policy edits so far
  pc,         \* how far each request has come
  rq,         \* what each request asks for
  profile,    \* the profile selectors in its context
  caps,       \* the captured grant in its context
  left,       \* Admin API calls its handler has still to make
  answer,     \* its outcome
  obtained,   \* the tools listed to it, or the tool or resource it used
  seen        \* history: its caller's entitlements since it arrived

ctx  == <<profile, caps>>
vars == <<config, policy, edits, pc, rq, ctx, left, answer, obtained, seen>>

(* tools/list, tools/call and resources/read.                              *)
Request ==
       [kind : {"list"}, item : {None}, confirmed : {FALSE},
        caller : Callers, path : Paths]
  \cup [kind : {"call"}, item : Names, confirmed : BOOLEAN,
        caller : Callers, path : Paths]
  \cup [kind : {"read"}, item : Uris, confirmed : {FALSE},
        caller : Callers, path : Paths]

(* The requests that tell the handlers apart: only the ones that look at   *)
(* the confirm argument see it, a stdio session has no URL, and the        *)
(* loopback listener is started only with a local grant.                   *)
Sent(q) ==
  /\ q.confirmed => q.item \in ConfirmTools
  /\ config.stdio => q.caller = Local /\ q.path = None
  /\ q.caller = Local => config.stdio \/ config.localGrants # NoGrant

-----------------------------------------------------------------------------
(***************************************************************************)
(* What the documentation entitles a caller to: nothing if an entry is     *)
(* malformed, otherwise the sum of what the entries grant one by one.      *)
(***************************************************************************)
Entitlement(entries) ==
  IF \E i \in DOMAIN entries : entries[i] = Garbled THEN {}
  ELSE {n \in Names : \E i \in DOMAIN entries : Allows(entries[i].tools, toolMeta(n))}
       \cup
       {u \in Uris : \E i \in DOMAIN entries :
                       \E g \in entries[i].resources : resourceGrantMatches(g, u)}

LocalEntries == IF config.localGrants = NoGrant THEN <<>> ELSE <<config.localGrants>>
EntriesOf(c) == IF c = Local THEN LocalEntries ELSE policy[c]

-----------------------------------------------------------------------------
(* grants.go: the filter behind tools/list and the check inside handlers.  *)
FilterMeta(t) == [toolMeta(t) EXCEPT !.readOnly = isReadOnlyTool(t)]

FilterWithoutProfile(p, c) == {t \in Tools : AllowsTool(c, FilterMeta(t))}
grantToolFilter(p, c) ==
  {t \in Tools : /\ p # None => Allows(p, FilterMeta(t))
                 /\ AllowsTool(c, FilterMeta(t))}

checkToolAccess(c, name) == AllowsTool(c, toolMeta(name))
checkResourceAccess(c, uri) == AllowsResource(c, uri)

Answer(r, code) ==
  /\ pc' = [pc EXCEPT ![r] = "answered"]
  /\ answer' = [answer EXCEPT ![r] = code]

-----------------------------------------------------------------------------
Init ==
  /\ config \in Configs
  /\ policy \in [Users -> Policies]
  /\ edits = 0
  /\ pc       = [r \in Reqs |-> "new"]
  /\ rq       = [r \in Reqs |-> None]
  /\ profile  = [r \in Reqs |-> None]
  /\ caps     = [r \in Reqs |-> NoGrant]
  /\ left     = [r \in Reqs |-> 0]
  /\ answer   = [r \in Reqs |-> None]
  /\ obtained = [r \in Reqs |-> {}]
  /\ seen     = [r \in Reqs |-> {}]

(* A client sends a request.                                               *)
Arrive(r) ==
  /\ pc[r] = "new"
  /\ \E q \in Request :
       /\ Sent(q)
       /\ rq' = [rq EXCEPT ![r] = q]
       /\ seen' = [seen EXCEPT ![r] = {Entitlement(EntriesOf(q.caller))}]
  /\ pc' = [pc EXCEPT ![r] = "received"]
  /\ UNCHANGED <<config, policy, edits, ctx, left, answer, obtained>>

(* stdioContextFunc: the local grant and the --profile selectors.          *)
stdioContext(r) ==
  /\ pc[r] = "received" /\ config.stdio
  /\ profile' = [profile EXCEPT ![r] = Resolve(config.profiles, config.profile)]
  /\ caps' = [caps EXCEPT ![r] = config.localGrants]
  /\ pc' = [pc EXCEPT ![r] = "authorized"]
  /\ UNCHANGED <<config, policy, edits, rq, left, answer, obtained, seen>>

(* profileMiddleware: an unknown profile is a 404 before authentication.   *)
profileMiddleware(r) ==
  /\ pc[r] = "received" /\ ~config.stdio
  /\ IF Resolves(config.profiles, rq[r].path)
       THEN /\ profile' = [profile EXCEPT ![r] = Resolve(config.profiles, rq[r].path)]
            /\ pc' = [pc EXCEPT ![r] = "routed"]
            /\ UNCHANGED answer
       ELSE Answer(r, "404") /\ UNCHANGED profile
  /\ UNCHANGED <<config, policy, edits, rq, caps, left, obtained, seen>>

(* allowOriginMiddleware: the Origin header may name another host.         *)
allowOriginMiddleware(r) ==
  /\ pc[r] = "routed"
  /\ \/ pc' = [pc EXCEPT ![r] = "sameOrigin"] /\ UNCHANGED answer
     \/ Answer(r, "403 origin")
  /\ UNCHANGED <<config, policy, edits, rq, ctx, left, obtained, seen>>

(* What grantMiddleware makes of a WhoIs answer: a malformed entry refuses *)
(* the request, otherwise the merged entries go into the context.          *)
FirstEntryCaps(r, entries) ==
  IF Malformed(entries) THEN Answer(r, "403 grant") /\ UNCHANGED caps
  ELSE /\ caps' = [caps EXCEPT ![r] = FirstEntry(entries)]
       /\ pc' = [pc EXCEPT ![r] = "authorized"]
       /\ UNCHANGED answer

SkipMalformedCaps(r, entries) ==
  /\ caps' = [caps EXCEPT ![r] = MergeEntries(SelectSeq(entries, LAMBDA e : e # Garbled))]
  /\ pc' = [pc EXCEPT ![r] = "authorized"]
  /\ UNCHANGED answer

Capture(r, entries) ==
  IF Malformed(entries) THEN Answer(r, "403 grant") /\ UNCHANGED caps
  ELSE /\ caps' = [caps EXCEPT ![r] = MergeEntries(entries)]
       /\ pc' = [pc EXCEPT ![r] = "authorized"]
       /\ UNCHANGED answer

(* A grant remembered from an earlier request of the same login.           *)
CachedGrant(r) ==
  LET known == {o \in Reqs \ {r} : pc[o] \in {"authorized", "calling"} /\ rq[o].caller = rq[r].caller} IN
  /\ pc[r] = "sameOrigin" /\ rq[r].caller # Local
  /\ IF known = {} THEN Capture(r, policy[rq[r].caller])
     ELSE /\ caps' = [caps EXCEPT ![r] = caps[CHOOSE o \in known : TRUE]]
          /\ pc' = [pc EXCEPT ![r] = "authorized"]
          /\ UNCHANGED answer
  /\ UNCHANGED <<config, policy, edits, rq, profile, left, obtained, seen>>

(* grantMiddleware: WhoIs on every request; it may fail.                   *)
grantMiddleware(r) ==
  /\ pc[r] = "sameOrigin" /\ rq[r].caller # Local
  /\ \/ Capture(r, policy[rq[r].caller])
     \/ Answer(r, "401") /\ UNCHANGED caps
  /\ UNCHANGED <<config, policy, edits, rq, profile, left, obtained, seen>>

localGrantMiddleware(r) ==
  /\ pc[r] = "sameOrigin" /\ rq[r].caller = Local
  /\ IF config.localGrants = NoGrant
       THEN Answer(r, "401") /\ UNCHANGED caps
       ELSE /\ caps' = [caps EXCEPT ![r] = config.localGrants]
            /\ pc' = [pc EXCEPT ![r] = "authorized"]
            /\ UNCHANGED answer
  /\ UNCHANGED <<config, policy, edits, rq, profile, left, obtained, seen>>

Start(r, calls) ==
  /\ pc' = [pc EXCEPT ![r] = "calling"]
  /\ left' = [left EXCEPT ![r] = calls]
  /\ UNCHANGED answer

ListTools(r) ==
  /\ pc[r] = "authorized" /\ rq[r].kind = "list"
  /\ obtained' = [obtained EXCEPT ![r] = grantToolFilter(profile[r], caps[r])]
  /\ Answer(r, "listed")
  /\ UNCHANGED <<config, policy, edits, rq, ctx, left, seen>>

(* The tools mcp-go finds under the request's name.                        *)
Visible(r) ==
  IF config.filterOnCall THEN grantToolFilter(profile[r], caps[r]) ELSE Tools

(* tools/call: the tool is looked up, then its handler checks the confirm  *)
(* argument, then the captured grant, and only then calls the Admin API.   *)
CallTool(r) ==
  LET tool == rq[r].item IN
  /\ pc[r] = "authorized" /\ rq[r].kind = "call"
  /\ IF tool \notin Visible(r) THEN Answer(r, "not found") /\ UNCHANGED left
     ELSE IF tool \in ConfirmTools /\ ~rq[r].confirmed
       THEN Answer(r, "unconfirmed") /\ UNCHANGED left
     ELSE IF ~checkToolAccess(caps[r], tool)
       THEN Answer(r, "denied") /\ UNCHANGED left
     ELSE Start(r, CallsOf[tool])
  /\ UNCHANGED <<config, policy, edits, rq, ctx, obtained, seen>>

ReadResource(r) ==
  /\ pc[r] = "authorized" /\ rq[r].kind = "read"
  /\ IF checkResourceAccess(caps[r], rq[r].item)
       THEN Start(r, 1)
       ELSE Answer(r, "denied") /\ UNCHANGED left
  /\ UNCHANGED <<config, policy, edits, rq, ctx, obtained, seen>>

CallAPIOnceTooOften(r) ==
  /\ pc[r] = "calling"
  /\ obtained' = [obtained EXCEPT ![r] = @ \cup {rq[r].item}]
  /\ left' = [left EXCEPT ![r] = @ - 1]
  /\ IF left[r] > 0 THEN UNCHANGED <<pc, answer>> ELSE Answer(r, "done")
  /\ UNCHANGED <<config, policy, edits, rq, ctx, seen>>

(* One Admin API call of the handler.  After a failure some handlers stop  *)
(* (findDevice) and some go on (bulk authorize).                           *)
CallAPI(r) ==
  /\ pc[r] = "calling"
  /\ obtained' = [obtained EXCEPT ![r] = @ \cup {rq[r].item}]
  /\ left' = [left EXCEPT ![r] = @ - 1]
  /\ \/ left[r] > 1 /\ UNCHANGED <<pc, answer>>
     \/ left[r] = 1 /\ Answer(r, "done")
     \/ Answer(r, "API error")
  /\ UNCHANGED <<config, policy, edits, rq, ctx, seen>>

(* The administrator edits the policy, and the node learns of it.          *)
EditPolicy(u, entries) ==
  /\ edits < MaxEdits /\ policy[u] # entries
  /\ policy' = [policy EXCEPT ![u] = entries]
  /\ edits' = edits + 1
  /\ seen' = [r \in Reqs |->
                IF pc[r] # "new" /\ rq[r].caller = u
                  THEN seen[r] \cup {Entitlement(entries)} ELSE seen[r]]
  /\ UNCHANGED <<config, pc, rq, ctx, left, answer, obtained>>

Handle(r) ==
  \/ stdioContext(r) \/ profileMiddleware(r) \/ allowOriginMiddleware(r)
  \/ grantMiddleware(r) \/ localGrantMiddleware(r)
  \/ ListTools(r) \/ CallTool(r) \/ ReadResource(r) \/ CallAPI(r)

Next ==
  \/ \E r \in Reqs : Arrive(r) \/ Handle(r)
  \/ \E u \in Users, entries \in Policies : EditPolicy(u, entries)

Spec == Init /\ [][Next]_vars

-----------------------------------------------------------------------------
PCs == {"new", "received", "routed", "sameOrigin", "authorized", "calling", "answered"}

(* Types; a handler that is calling the Admin API has calls left, and a    *)
(* request that has arrived is well-formed.                                *)
TypeOK ==
  /\ config \in Configs
  /\ policy \in [Users -> Policies]
  /\ edits \in 0..MaxEdits
  /\ pc \in [Reqs -> PCs]
  /\ rq \in [Reqs -> Request \cup {None}]
  /\ DOMAIN profile = Reqs /\ DOMAIN caps = Reqs /\ DOMAIN answer = Reqs
  /\ left \in [Reqs -> Nat]
  /\ obtained \in [Reqs -> SUBSET Items]
  /\ seen \in [Reqs -> SUBSET (SUBSET Items)]
  /\ \A r \in Reqs : /\ pc[r] # "new" => rq[r] \in Request
                     /\ pc[r] = "calling" => left[r] > 0 /\ rq[r].kind # "list"

(* Whatever a request lists, calls or reads, ONE version of its caller's   *)
(* grants in force since the request arrived permits all of it: grants are *)
(* read afresh for every request, never mixed, and a malformed entry       *)
(* grants nothing (grantMiddleware, parseMCPCapabilities, checkAccess).    *)
EffectsEntitled ==
  \A r \in Reqs :
    obtained[r] # {} => \E E \in seen[r] : obtained[r] \subseteq E

(* The inductive invariant behind EffectsEntitled: the policy now in force *)
(* is in the history, the captured grant is one of that history, and all   *)
(* a request obtained, or is about to use, lies within the captured grant. *)
Permitted(c) ==
  {n \in Names : checkToolAccess(c, n)} \cup {u \in Uris : checkResourceAccess(c, u)}

Granted(r) ==
  /\ config.stdio /\ pc[r] # "new" => rq[r].caller = Local
  /\ pc[r] # "new" => Entitlement(EntriesOf(rq[r].caller)) \in seen[r]
  /\ pc[r] \in {"authorized", "calling"} \/ obtained[r] # {} => Permitted(caps[r]) \in seen[r]
  /\ obtained[r] \subseteq Permitted(caps[r])
  /\ pc[r] = "calling" => rq[r].item \in Permitted(caps[r])
  /\ obtained[r] # {} => pc[r] \in {"calling", "answered"}

GrantInv == \A r \in Reqs : Granted(r)

(* The documented view of a profile: the named one, else the default, else *)
(* every tool.                                                             *)
View(cfg, name) ==
  LET chosen == IF name = None /\ cfg # None THEN cfg.default ELSE name IN
  {t \in Tools : chosen # None =>
     Allows(cfg.profiles[chosen], MetaOf(t, GroupOf[t], t \in ReadOnlyTools))}

ViewOf(r) == View(config.profiles, IF config.stdio THEN config.profile ELSE rq[r].path)

(* The other direction: a caller whose grants permitted an item all along  *)
(* is not told it lacks them, and its listing shows every such tool of the *)
(* profile, however its grants are spread over entries.                    *)
EntitledServed ==
  \A r \in Reqs :
    LET steady == {i \in Items : \A E \in seen[r] : i \in E} IN
    /\ answer[r] \in {"denied", "403 grant"} => rq[r].item \notin steady
    /\ answer[r] = "listed" => steady \cap ViewOf(r) \subseteq obtained[r]

(* "A tool outside the intersection is neither listed nor callable"        *)
(* (docs/profiles.md): nothing outside the profile is listed, nor called   *)
(* when mcp-go filters calls; resources are not affected by profiles.      *)
WithinProfile ==
  \A r \in Reqs :
    obtained[r] # {} /\ (config.filterOnCall \/ answer[r] = "listed")
      => obtained[r] \cap Tools \subseteq ViewOf(r)

(* Two requests of one caller on one path that see one policy: a tool is   *)
(* in the listing of the one exactly if a call of the other is not refused *)
(* as unknown or denied.  The filter reads the tool's annotation, the      *)
(* check the catalog; they must not drift apart.                           *)
ListedIffCallable ==
  \A l, q \in Reqs :
    /\ config.filterOnCall
    /\ answer[l] = "listed"
    /\ answer[q] \in {"not found", "denied", "unconfirmed", "done", "API error"}
    /\ rq[q].kind = "call" /\ rq[q].item \in Tools
    /\ rq[l].path = rq[q].path /\ rq[l].caller = rq[q].caller
    /\ seen[l] = seen[q] /\ \A E, F \in seen[l] : E = F
    => (rq[q].item \in obtained[l] <=> answer[q] \notin {"not found", "denied"})

(* The server implements the promise of GrantedAccess.                     *)
GA == INSTANCE GrantedAccess WITH
        entitled <- [c \in Callers |-> Entitlement(EntriesOf(c))],
        by <- [r \in Reqs |-> IF pc[r] = "new" THEN None ELSE rq[r].caller]

ImplementsGrantedAccess == GA!Spec

=============================================================================
