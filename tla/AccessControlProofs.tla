------------------------ MODULE AccessControlProofs ------------------------
(***************************************************************************)
(* Proofs about AccessControl, for any set of requests, logins, tools,     *)
(* policies and configurations, and whether or not mcp-go filters calls.   *)
(***************************************************************************)
EXTENDS AccessControl, TLAPS

-----------------------------------------------------------------------------
(* The union parseMCPCapabilities computes grants exactly the sum of what  *)
(* the entries grant one by one: merging neither widens nor loses a grant. *)
LEMMA MergeIsSum ==
  ASSUME NEW entries, ~Malformed(entries)
  PROVE  Permitted(MergeEntries(entries)) = Entitlement(entries)
<1> DEFINE tools     == UNION {entries[i].tools : i \in DOMAIN entries}
           resources == UNION {entries[i].resources : i \in DOMAIN entries}
<1>1. ASSUME NEW n
      PROVE  AllowsTool(MergeEntries(entries), toolMeta(n))
               <=> \E i \in DOMAIN entries : Allows(entries[i].tools, toolMeta(n))
  <2> DEFINE kept == {s \in tools : s.form # "blank"}
  <2>1. MergeEntries(entries).tools = kept
    BY DEF MergeEntries, Caps, AppendUnique
  <2>2. \A s : Matches(s, toolMeta(n)) => s.form # "blank"
    BY DEF Matches
  <2>3. Allows(kept, toolMeta(n)) <=> Allows(tools, toolMeta(n))
    BY <2>2 DEF Allows
  <2>4. Allows(tools, toolMeta(n)) <=> \E i \in DOMAIN entries : Allows(entries[i].tools, toolMeta(n))
    BY DEF Allows
  <2> QED
    BY <2>1, <2>3, <2>4 DEF AllowsTool
<1>2. ASSUME NEW u
      PROVE  AllowsResource(MergeEntries(entries), u)
               <=> \E i \in DOMAIN entries :
                     \E g \in entries[i].resources : resourceGrantMatches(g, u)
  <2> DEFINE kept == {s \in resources : s.form # "blank"}
  <2>1. MergeEntries(entries).resources = kept
    BY DEF MergeEntries, Caps, AppendUnique
  <2>2. \A s : resourceGrantMatches(s, u) => s.form # "blank"
    BY DEF resourceGrantMatches
  <2>3. (\E g \in kept : resourceGrantMatches(g, u))
          <=> \E g \in resources : resourceGrantMatches(g, u)
    BY <2>2
  <2> QED
    BY <2>1, <2>3 DEF AllowsResource
<1> QED
  BY <1>1, <1>2 DEF Permitted, checkToolAccess, checkResourceAccess, Entitlement, Malformed

(* The same for --local-grants, a single parsed entry.                     *)
LEMMA LocalIsSum ==
  Permitted(config.localGrants) = Entitlement(LocalEntries)
<1>1. CASE config.localGrants = NoGrant
  BY <1>1 DEF LocalEntries, Permitted, checkToolAccess, checkResourceAccess, Entitlement, NoGrant, Caps, AllowsTool, Allows,
              AllowsResource
<1>2. CASE config.localGrants # NoGrant /\ config.localGrants = Garbled
  BY <1>2 DEF LocalEntries, Permitted, checkToolAccess, checkResourceAccess, Entitlement, Garbled, Caps, Selector, AllowsTool,
              Allows, Matches, AllowsResource
<1>3. CASE config.localGrants # NoGrant /\ config.localGrants # Garbled
  <2> DEFINE one == <<config.localGrants>>
  <2>1. LocalEntries = one /\ DOMAIN one = {1} /\ one[1] = config.localGrants
    BY <1>3 DEF LocalEntries
  <2> QED
    BY <1>3, <2>1 DEF Permitted, checkToolAccess, checkResourceAccess, Entitlement, AllowsTool, AllowsResource
<1> QED BY <1>1, <1>2, <1>3

(* The listing shows only tools the captured grant permits.                *)
LEMMA FilterPermitted ==
  ASSUME NEW p, NEW c
  PROVE  grantToolFilter(p, c) \subseteq Permitted(c)
<1>1. ASSUME NEW t \in Tools PROVE FilterMeta(t) = toolMeta(t)
  BY <1>1 DEF FilterMeta, toolMeta, Record, MetaOf
<1> QED
  BY <1>1, CatalogAssumption DEF grantToolFilter, Permitted, checkToolAccess

-----------------------------------------------------------------------------
(***************************************************************************)
(* Type correctness.                                                       *)
(***************************************************************************)

(* Entitlements are sets of tool names and resource URIs.                  *)
LEMMA EntitlementType ==
  ASSUME NEW entries
  PROVE  Entitlement(entries) \in SUBSET Items
BY DEF Entitlement, Items

(* A listing is a set of registered tools.                                 *)
LEMMA FilterType ==
  ASSUME NEW p, NEW c
  PROVE  grantToolFilter(p, c) \in SUBSET Items
BY CatalogAssumption DEF grantToolFilter, Items

(* Every reachable state is well-typed, and a handler that is calling the  *)
(* Admin API always has a call left to make.                               *)
THEOREM TypeCorrect == Spec => []TypeOK
<1>1. Init => TypeOK
  BY AccessAssumption DEF Init, TypeOK, PCs
<1>2. TypeOK /\ [Next]_vars => TypeOK'
  <2> SUFFICES ASSUME TypeOK, [Next]_vars PROVE TypeOK'
    OBVIOUS
  <2> USE DEF TypeOK, PCs, ctx
  <2>1. ASSUME NEW r \in Reqs, Arrive(r) PROVE TypeOK'
    <3>1. PICK q \in Request :
            /\ rq' = [rq EXCEPT ![r] = q]
            /\ seen' = [seen EXCEPT ![r] = {Entitlement(EntriesOf(q.caller))}]
      BY <2>1 DEF Arrive
    <3>2. Entitlement(EntriesOf(q.caller)) \in SUBSET Items
      BY EntitlementType
    <3> QED BY <2>1, <3>1, <3>2 DEF Arrive
  <2>2. ASSUME NEW r \in Reqs, stdioContext(r) PROVE TypeOK'
    BY <2>2 DEF stdioContext
  <2>3. ASSUME NEW r \in Reqs, profileMiddleware(r) PROVE TypeOK'
    BY <2>3 DEF profileMiddleware, Answer
  <2>4. ASSUME NEW r \in Reqs, allowOriginMiddleware(r) PROVE TypeOK'
    BY <2>4 DEF allowOriginMiddleware, Answer
  <2>5. ASSUME NEW r \in Reqs, grantMiddleware(r) PROVE TypeOK'
    BY <2>5 DEF grantMiddleware, Capture, Answer
  <2>6. ASSUME NEW r \in Reqs, localGrantMiddleware(r) PROVE TypeOK'
    BY <2>6 DEF localGrantMiddleware, Answer
  <2>7. ASSUME NEW r \in Reqs, ListTools(r) PROVE TypeOK'
    BY <2>7, FilterType DEF ListTools, Answer
  <2>8. ASSUME NEW r \in Reqs, CallTool(r) PROVE TypeOK'
    <3>1. rq[r].item \in Tools => CallsOf[rq[r].item] \in Nat \ {0}
      BY AccessAssumption
    <3>2. Visible(r) \subseteq Tools
      BY DEF Visible, grantToolFilter
    <3>3. rq[r].kind # "list"
      BY <2>8 DEF CallTool
    <3>4. CASE UNCHANGED left /\ pc' = [pc EXCEPT ![r] = "answered"] /\ DOMAIN answer' = Reqs
      BY <2>8, <3>4 DEF CallTool
    <3>5. CASE Start(r, CallsOf[rq[r].item]) /\ rq[r].item \in Tools
      <4>1. left' \in [Reqs -> Nat] /\ left'[r] > 0
        BY <3>1, <3>5 DEF Start
      <4>2. ASSUME NEW q \in Reqs, q # r PROVE pc'[q] = pc[q] /\ left'[q] = left[q]
        BY <3>5, <4>2 DEF Start
      <4>3. rq[r] \in Request
        BY <2>8 DEF CallTool
      <4> HIDE DEF TypeOK
      <4>4. \A q \in Reqs : /\ pc'[q] # "new" => rq'[q] \in Request
                            /\ pc'[q] = "calling" => left'[q] > 0 /\ rq'[q].kind # "list"
        BY <2>8, <3>3, <4>1, <4>2, <4>3 DEF CallTool, TypeOK
      <4> QED BY <2>8, <3>5, <4>1, <4>4 DEF CallTool, Start, TypeOK
    <3> QED BY <2>8, <3>2, <3>4, <3>5 DEF CallTool, Answer
  <2>9. ASSUME NEW r \in Reqs, ReadResource(r) PROVE TypeOK'
    BY <2>9 DEF ReadResource, Answer, Start
  <2>10. ASSUME NEW r \in Reqs, CallAPI(r) PROVE TypeOK'
    <3>1. rq[r] \in Request /\ left[r] \in Nat /\ left[r] > 0 /\ rq[r].kind # "list"
      BY <2>10 DEF CallAPI
    <3>2. rq[r].item \in Items
      BY <3>1 DEF Request, Items
    <3>3. /\ left' = [left EXCEPT ![r] = left[r] - 1]
          /\ left[r] - 1 \in Nat
      <4>1. left' = [left EXCEPT ![r] = left[r] - 1]
        BY <2>10 DEF CallAPI
      <4>2. left[r] - 1 \in Nat
        BY <3>1
      <4> QED BY <4>1, <4>2
    <3>4. obtained' \in [Reqs -> SUBSET Items]
      BY <2>10, <3>2 DEF CallAPI
    <3>5. pc' \in [Reqs -> PCs] /\ DOMAIN answer' = Reqs
      BY <2>10 DEF CallAPI, Answer
    <3>6. pc'[r] = "calling" => left[r] - 1 > 0
      <4>1. CASE left[r] > 1 /\ UNCHANGED <<pc, answer>>
        BY <3>1, <4>1
      <4>2. CASE pc' = [pc EXCEPT ![r] = "answered"]
        BY <4>2
      <4> QED BY <2>10, <4>1, <4>2 DEF CallAPI, Answer
    <3>7. ASSUME NEW q \in Reqs, q # r PROVE pc'[q] = pc[q] /\ left'[q] = left[q]
      BY <2>10, <3>7 DEF CallAPI, Answer
    <3>8. left' \in [Reqs -> Nat] /\ left'[r] = left[r] - 1
      BY <3>3
    <3> HIDE DEF TypeOK
    <3>9. \A q \in Reqs : /\ pc'[q] # "new" => rq'[q] \in Request
                          /\ pc'[q] = "calling" => left'[q] > 0 /\ rq'[q].kind # "list"
      BY <2>10, <3>1, <3>6, <3>7, <3>8 DEF CallAPI, TypeOK
    <3> QED BY <2>10, <3>4, <3>5, <3>8, <3>9 DEF CallAPI, TypeOK
  <2>11. ASSUME NEW u \in Users, NEW entries \in Policies, EditPolicy(u, entries)
         PROVE  TypeOK'
    BY <2>11, EntitlementType, AccessAssumption DEF EditPolicy
  <2>12. CASE UNCHANGED vars
    BY <2>12 DEF vars
  <2> QED
    BY <2>1, <2>2, <2>3, <2>4, <2>5, <2>6, <2>7, <2>8, <2>9, <2>10, <2>11, <2>12
    DEF Next, Handle
<1> QED BY <1>1, <1>2, PTL DEF Spec

-----------------------------------------------------------------------------
(***************************************************************************)
(* Authorization.                                                          *)
(***************************************************************************)

(* No request has obtained anything at the start.                          *)
LEMMA GrantInit == Init => GrantInv
BY DEF Init, GrantInv, Granted

(* GrantInv is inductive: a grant captured from the policy in force is in  *)
(* the history of its request, and no later step looks beyond it.          *)
LEMMA GrantStep == TypeOK /\ GrantInv /\ [Next]_vars => GrantInv'
<1> SUFFICES ASSUME TypeOK, GrantInv, [Next]_vars, NEW q \in Reqs
             PROVE  Granted(q)'
  BY DEF GrantInv
<1>0. Granted(q)
  BY DEF GrantInv
<1> DEFINE now(r) == Entitlement(EntriesOf(rq[r].caller))
(* A step that changes no grant, no request and no history, and after      *)
(* which q is neither newly authorized nor calling.                        *)
<1>a. ASSUME UNCHANGED <<config, policy, rq, caps, obtained, seen>>,
             pc'[q] = pc[q] \/ (pc[q] # "new" /\ pc'[q] \in {"routed", "sameOrigin", "answered"}),
             obtained[q] # {} => pc'[q] \in {"calling", "answered"}
      PROVE  Granted(q)'
  BY <1>0, <1>a DEF Granted, EntriesOf, LocalEntries
(* A step of another request.                                              *)
<1>b. ASSUME UNCHANGED <<config, policy>>, pc'[q] = pc[q], rq'[q] = rq[q],
             caps'[q] = caps[q], obtained'[q] = obtained[q], seen'[q] = seen[q]
      PROVE  Granted(q)'
  BY <1>0, <1>b DEF Granted, EntriesOf, LocalEntries
(* A capture of grants the history holds.                                  *)
<1>c. ASSUME UNCHANGED <<config, policy, rq, obtained, seen>>,
             pc[q] \in {"received", "sameOrigin"}, pc'[q] = "authorized",
             Permitted(caps'[q]) = now(q)
      PROVE  Granted(q)'
  BY <1>0, <1>c DEF Granted, EntriesOf, LocalEntries
<1>1. ASSUME NEW r \in Reqs, Arrive(r) PROVE Granted(q)'
  BY <1>0, <1>1 DEF Arrive, Sent, ctx, TypeOK, Granted, EntriesOf, LocalEntries
<1>2. ASSUME NEW r \in Reqs, stdioContext(r) PROVE Granted(q)'
  <2>1. CASE r = q
    <3>1. caps'[q] = config.localGrants /\ rq[q].caller = Local
      BY <1>0, <1>2, <2>1 DEF stdioContext, TypeOK, Granted
    <3>2. Permitted(caps'[q]) = now(q)
      BY <3>1, LocalIsSum DEF EntriesOf
    <3> QED BY <1>2, <1>c, <2>1, <3>2 DEF stdioContext, ctx, TypeOK
  <2>2. CASE r # q
    BY <1>2, <1>b, <2>2 DEF stdioContext
  <2> QED BY <2>1, <2>2
<1>3. ASSUME NEW r \in Reqs, profileMiddleware(r) PROVE Granted(q)'
  BY <1>0, <1>a, <1>3 DEF profileMiddleware, Answer, TypeOK, Granted
<1>4. ASSUME NEW r \in Reqs, allowOriginMiddleware(r) PROVE Granted(q)'
  BY <1>0, <1>a, <1>4 DEF allowOriginMiddleware, Answer, ctx, TypeOK, Granted
<1>5. ASSUME NEW r \in Reqs, grantMiddleware(r) PROVE Granted(q)'
  <2> DEFINE entries == policy[rq[r].caller]
  <2>1. CASE r # q
    BY <1>5, <1>b, <2>1 DEF grantMiddleware, Capture, Answer, TypeOK
  <2>2. CASE r = q /\ UNCHANGED caps /\ pc' = [pc EXCEPT ![r] = "answered"]
    BY <1>0, <1>5, <1>a, <2>2 DEF grantMiddleware, TypeOK, Granted
  <2>3. CASE /\ r = q /\ ~Malformed(entries)
             /\ caps' = [caps EXCEPT ![r] = MergeEntries(entries)]
             /\ pc' = [pc EXCEPT ![r] = "authorized"]
    <3>1. caps'[q] = MergeEntries(entries) /\ EntriesOf(rq[q].caller) = entries
      BY <1>5, <2>3 DEF grantMiddleware, TypeOK, EntriesOf
    <3>2. Permitted(caps'[q]) = now(q)
      BY <2>3, <3>1, MergeIsSum
    <3> QED BY <1>5, <1>c, <2>3, <3>2 DEF grantMiddleware, TypeOK
  <2> QED
    BY <1>5, <2>1, <2>2, <2>3 DEF grantMiddleware, Capture, Answer
<1>6. ASSUME NEW r \in Reqs, localGrantMiddleware(r) PROVE Granted(q)'
  <2>1. CASE r # q
    BY <1>6, <1>b, <2>1 DEF localGrantMiddleware, Answer, TypeOK
  <2>2. CASE r = q /\ config.localGrants = NoGrant
    BY <1>0, <1>6, <1>a, <2>2 DEF localGrantMiddleware, Answer, TypeOK, Granted
  <2>3. CASE r = q /\ config.localGrants # NoGrant
    <3>1. caps'[q] = config.localGrants /\ rq[q].caller = Local
      BY <1>6, <2>3 DEF localGrantMiddleware, TypeOK
    <3>2. Permitted(caps'[q]) = now(q)
      BY <3>1, LocalIsSum DEF EntriesOf
    <3> QED BY <1>6, <1>c, <2>3, <3>2 DEF localGrantMiddleware, TypeOK
  <2> QED BY <2>1, <2>2, <2>3
<1>7. ASSUME NEW r \in Reqs, ListTools(r) PROVE Granted(q)'
  <2>1. CASE r # q
    BY <1>7, <1>b, <2>1 DEF ListTools, Answer, ctx
  <2>2. CASE r = q
    <3>1. obtained'[q] \subseteq Permitted(caps[q])
      BY <1>7, <2>2, FilterPermitted DEF ListTools, TypeOK
    <3> QED
      BY <1>0, <1>7, <2>2, <3>1
      DEF ListTools, Answer, ctx, TypeOK, Granted, EntriesOf, LocalEntries
  <2> QED BY <2>1, <2>2
<1>8. ASSUME NEW r \in Reqs, CallTool(r) PROVE Granted(q)'
  <2>1. CASE r # q
    BY <1>8, <1>b, <2>1 DEF CallTool, Answer, Start, ctx, TypeOK
  <2>2. CASE r = q /\ pc'[q] = "answered"
    BY <1>0, <1>8, <1>a, <2>2 DEF CallTool, ctx
  <2>3. CASE r = q /\ Start(r, CallsOf[rq[r].item]) /\ checkToolAccess(caps[r], rq[r].item)
    <3>1. rq[q].item \in Permitted(caps[q])
      <4>1. rq[q] \in Request /\ rq[q].kind = "call"
        BY <1>8, <2>3 DEF CallTool, TypeOK
      <4>2. rq[q].item \in Names
        BY <4>1 DEF Request
      <4> QED BY <2>3, <4>2 DEF Permitted
    <3> QED
      BY <1>0, <1>8, <2>3, <3>1
      DEF CallTool, Start, ctx, TypeOK, Granted, EntriesOf, LocalEntries
  <2> QED
    BY <1>8, <2>1, <2>2, <2>3 DEF CallTool, Answer, TypeOK
<1>9. ASSUME NEW r \in Reqs, ReadResource(r) PROVE Granted(q)'
  <2>1. CASE r # q
    BY <1>9, <1>b, <2>1 DEF ReadResource, Answer, Start, ctx, TypeOK
  <2>2. CASE r = q /\ pc'[q] = "answered"
    BY <1>0, <1>9, <1>a, <2>2 DEF ReadResource, ctx
  <2>3. CASE r = q /\ Start(r, 1) /\ checkResourceAccess(caps[r], rq[r].item)
    <3>1. rq[q].item \in Permitted(caps[q])
      <4>1. rq[q] \in Request /\ rq[q].kind = "read"
        BY <1>9, <2>3 DEF ReadResource, TypeOK
      <4>2. rq[q].item \in Uris
        BY <4>1 DEF Request
      <4> QED BY <2>3, <4>2 DEF Permitted
    <3> QED
      BY <1>0, <1>9, <2>3, <3>1
      DEF ReadResource, Start, ctx, TypeOK, Granted, EntriesOf, LocalEntries
  <2> QED
    BY <1>9, <2>1, <2>2, <2>3 DEF ReadResource, Answer, TypeOK
<1>10. ASSUME NEW r \in Reqs, CallAPI(r) PROVE Granted(q)'
  <2>1. CASE r # q
    BY <1>10, <1>b, <2>1 DEF CallAPI, Answer, ctx, TypeOK
  <2>2. CASE r = q
    <3>1. obtained'[q] = obtained[q] \cup {rq[q].item} /\ pc'[q] \in {"calling", "answered"}
      BY <1>10, <2>2 DEF CallAPI, Answer, TypeOK
    <3>2. Permitted(caps[q]) \in seen[q] /\ rq[q].item \in Permitted(caps[q])
      BY <1>0, <1>10, <2>2 DEF CallAPI, Granted
    <3> QED
      BY <1>0, <1>10, <2>2, <3>1, <3>2
      DEF CallAPI, ctx, Granted, EntriesOf, LocalEntries
  <2> QED BY <2>1, <2>2
<1>11. ASSUME NEW u \in Users, NEW entries \in Policies, EditPolicy(u, entries)
       PROVE  Granted(q)'
  <2>1. pc[q] # "new" => Entitlement(EntriesOf(rq[q].caller))' \in seen'[q]
    <3>1. CASE pc[q] # "new" /\ rq[q].caller = u
      <4>1. EntriesOf(rq[q].caller)' = entries
        BY <1>11, <3>1, AccessAssumption DEF EditPolicy, EntriesOf, TypeOK
      <4> QED BY <1>11, <3>1, <4>1 DEF EditPolicy
    <3>2. CASE pc[q] # "new" /\ rq[q].caller # u
      BY <1>0, <1>11, <3>2 DEF EditPolicy, EntriesOf, LocalEntries, TypeOK, Granted
    <3> QED BY <3>1, <3>2
  <2>2. seen[q] \subseteq seen'[q]
    BY <1>11 DEF EditPolicy
  <2> QED
    BY <1>0, <1>11, <2>1, <2>2 DEF EditPolicy, ctx, Granted
<1>12. CASE UNCHANGED vars
  BY <1>0, <1>12 DEF vars, ctx, Granted, EntriesOf, LocalEntries
<1> QED
  BY <1>1, <1>2, <1>3, <1>4, <1>5, <1>6, <1>7, <1>8, <1>9, <1>10, <1>11, <1>12
  DEF Next, Handle

(* Whatever a request lists, calls or reads is permitted, all of it, by    *)
(* one version of the grants its caller held since the request arrived.    *)
THEOREM Authorization == Spec => []EffectsEntitled
<1>1. GrantInv => EffectsEntitled
  BY DEF GrantInv, Granted, EffectsEntitled
<1> QED
  BY <1>1, GrantInit, GrantStep, TypeCorrect, PTL DEF Spec

-----------------------------------------------------------------------------
(***************************************************************************)
(* Refinement.                                                             *)
(***************************************************************************)

(* The initial states map to initial states of GrantedAccess.              *)
LEMMA RefinesInit == Init => GA!Init
BY EntitlementType DEF Init, GA!Init

(* A step after which no entitlement, history or result has changed.       *)
LEMMA RefinesStutter ==
  ASSUME UNCHANGED <<config, policy, rq, obtained, seen>>,
         \A r \in Reqs : pc[r] = "new" <=> pc'[r] = "new"
  PROVE  UNCHANGED GA!absVars
BY DEF GA!absVars, EntriesOf, LocalEntries

(* Every step maps to an arrival, an edit, one Obtain, or a stutter.       *)
LEMMA RefinesStep ==
  TypeOK /\ GrantInv /\ GrantInv' /\ [Next]_vars => [GA!Next]_(GA!absVars)
<1> SUFFICES ASSUME TypeOK, GrantInv, GrantInv', [Next]_vars
             PROVE  GA!Next \/ UNCHANGED GA!absVars
  OBVIOUS
<1> DEFINE entitled == [c \in Callers |-> Entitlement(EntriesOf(c))]
           by       == [r \in Reqs |-> IF pc[r] = "new" THEN None ELSE rq[r].caller]
<1>1. ASSUME NEW r \in Reqs, Arrive(r) PROVE GA!Arrive(r)
  <2>1. PICK q \in Request :
          /\ rq' = [rq EXCEPT ![r] = q]
          /\ seen' = [seen EXCEPT ![r] = {Entitlement(EntriesOf(q.caller))}]
    BY <1>1 DEF Arrive
  <2>2. q.caller \in Callers
    BY DEF Request
  <2>3. by[r] = None /\ by' = [by EXCEPT ![r] = q.caller]
    BY <1>1, <2>1 DEF Arrive, TypeOK
  <2>4. entitled' = entitled /\ entitled[q.caller] = Entitlement(EntriesOf(q.caller))
    BY <1>1, <2>2 DEF Arrive, EntriesOf, LocalEntries
  <2>5. obtained' = obtained
    BY <1>1 DEF Arrive
  <2> QED
    BY <2>1, <2>2, <2>3, <2>4, <2>5 DEF GA!Arrive
<1>2. ASSUME NEW r \in Reqs,
             stdioContext(r) \/ profileMiddleware(r) \/ allowOriginMiddleware(r)
               \/ grantMiddleware(r) \/ localGrantMiddleware(r)
      PROVE  UNCHANGED GA!absVars
  <2>1. UNCHANGED <<config, policy, rq, obtained, seen>>
    BY <1>2 DEF stdioContext, profileMiddleware, allowOriginMiddleware, grantMiddleware,
                localGrantMiddleware, ctx
  <2>2. pc[r] # "new" /\ \E v : v # "new" /\ pc' = [pc EXCEPT ![r] = v]
    BY <1>2 DEF stdioContext, profileMiddleware, allowOriginMiddleware, grantMiddleware,
                localGrantMiddleware, Capture, Answer
  <2>3. \A q \in Reqs : pc[q] = "new" <=> pc'[q] = "new"
    BY <2>2 DEF TypeOK
  <2> QED BY <2>1, <2>3, RefinesStutter
<1>3. ASSUME NEW r \in Reqs, CallTool(r) \/ ReadResource(r)
      PROVE  UNCHANGED GA!absVars
  <2>1. UNCHANGED <<config, policy, rq, obtained, seen>>
    BY <1>3 DEF CallTool, ReadResource, ctx
  <2>2. pc[r] # "new" /\ \E v : v # "new" /\ pc' = [pc EXCEPT ![r] = v]
    BY <1>3 DEF CallTool, ReadResource, Answer, Start
  <2>3. \A q \in Reqs : pc[q] = "new" <=> pc'[q] = "new"
    BY <2>2 DEF TypeOK
  <2> QED BY <2>1, <2>3, RefinesStutter
(* Both steps that obtain something do so within the captured grant.       *)
<1>4. ASSUME NEW r \in Reqs, ListTools(r) \/ CallAPI(r)
      PROVE  GA!Obtain(r)
  <2> DEFINE E == Permitted(caps[r])
             S == IF ListTools(r) THEN grantToolFilter(profile[r], caps[r])
                                  ELSE {rq[r].item}
  <2>1. E \in seen[r] /\ obtained[r] \subseteq E
    BY <1>4 DEF GrantInv, Granted, ListTools, CallAPI
  <2>2. S \subseteq E
    BY <1>4, FilterPermitted DEF GrantInv, Granted, CallAPI
  <2>3. obtained' = [obtained EXCEPT ![r] = obtained[r] \cup S]
    <3>1. CASE ListTools(r)
      <4>1. obtained[r] = {}
        BY <3>1 DEF ListTools, GrantInv, Granted
      <4> QED BY <3>1, <4>1 DEF ListTools
    <3>2. CASE ~ListTools(r)
      BY <1>4, <3>2 DEF CallAPI
    <3> QED BY <3>1, <3>2
  <2>4. UNCHANGED <<config, policy, rq, seen>>
    BY <1>4 DEF ListTools, CallAPI, ctx
  <2>5. pc[r] # "new" /\ \E v : v # "new" /\ pc' = [pc EXCEPT ![r] = v]
    <3>1. CASE ListTools(r)
      BY <3>1 DEF ListTools, Answer
    <3>2. CASE CallAPI(r)
      <4>1. CASE pc' = pc
        BY <3>2, <4>1 DEF CallAPI, TypeOK
      <4>2. CASE pc' = [pc EXCEPT ![r] = "answered"]
        BY <3>2, <4>2 DEF CallAPI
      <4> QED BY <3>2, <4>1, <4>2 DEF CallAPI, Answer
    <3> QED BY <1>4, <3>1, <3>2
  <2>6. by' = by
    <3>1. \A q \in Reqs : pc[q] = "new" <=> pc'[q] = "new"
      BY <2>5 DEF TypeOK
    <3> QED BY <2>4, <3>1
  <2>7. entitled' = entitled
    BY <2>4 DEF EntriesOf, LocalEntries
  <2>8. \E S0 \in SUBSET E : obtained[r] \subseteq E /\ obtained' = [obtained EXCEPT ![r] = @ \cup S0]
    BY <2>1, <2>2, <2>3
  <2> QED
    BY <2>1, <2>4, <2>6, <2>7, <2>8 DEF GA!Obtain
<1>5. ASSUME NEW u \in Users, NEW entries \in Policies, EditPolicy(u, entries)
      PROVE  GA!Edit
  <2>1. entitled' \in [Callers -> SUBSET Items]
    BY EntitlementType
  <2>2. by' = by /\ obtained' = obtained
    BY <1>5 DEF EditPolicy
  <2>3. ASSUME NEW q \in Reqs
        PROVE  seen'[q] = IF by[q] = None THEN seen[q] ELSE seen[q] \cup {entitled'[by[q]]}
    <3>1. CASE pc[q] = "new"
      BY <1>5, <3>1 DEF EditPolicy
    <3>2. CASE pc[q] # "new"
      <4>1. by[q] = rq[q].caller /\ by[q] \in Callers /\ by[q] # None
        BY <3>2, AccessAssumption DEF TypeOK, Request
      <4>2. entitled'[by[q]] = Entitlement(EntriesOf(rq[q].caller))'
        BY <1>5, <4>1 DEF EditPolicy
      <4>3. CASE rq[q].caller = u
        <5>1. EntriesOf(rq[q].caller)' = entries
          BY <1>5, <4>3, AccessAssumption DEF EditPolicy, EntriesOf, TypeOK
        <5> QED BY <1>5, <3>2, <4>1, <4>2, <4>3, <5>1 DEF EditPolicy
      <4>4. CASE rq[q].caller # u
        <5>1. EntriesOf(rq[q].caller)' = EntriesOf(rq[q].caller)
          BY <1>5, <4>1, <4>4, AccessAssumption
          DEF EditPolicy, EntriesOf, LocalEntries, TypeOK, Callers
        <5>2. Entitlement(EntriesOf(rq[q].caller)) \in seen[q]
          BY <3>2 DEF GrantInv, Granted
        <5> QED BY <1>5, <4>1, <4>2, <4>4, <5>1, <5>2 DEF EditPolicy
      <4> QED BY <4>3, <4>4
    <3> QED BY <3>1, <3>2
  <2>4. seen' = [q \in Reqs |-> IF by[q] = None THEN seen[q] ELSE seen[q] \cup {entitled'[by[q]]}]
    BY <1>5, <2>3 DEF EditPolicy
  <2> QED
    BY <2>1, <2>2, <2>4 DEF GA!Edit
<1>6. CASE UNCHANGED vars
  BY <1>6, RefinesStutter DEF vars
<1> QED
  BY <1>1, <1>2, <1>3, <1>4, <1>5, <1>6 DEF Next, Handle, GA!Next

(* Every behaviour of the server is one GrantedAccess allows.              *)
THEOREM Refinement == Spec => ImplementsGrantedAccess
BY RefinesInit, RefinesStep, GrantInit, GrantStep, TypeCorrect, PTL
DEF Spec, ImplementsGrantedAccess, GA!Spec

-----------------------------------------------------------------------------
(***************************************************************************)
(* Profiles, and what an answer says of the caller's grants.               *)
(***************************************************************************)

(* The profile a request asks for.                                         *)
ProfileName(r) == IF config.stdio THEN config.profile ELSE rq[r].path

(* What the filter shows is the documented view, less what is not granted. *)
LEMMA FilterIsView ==
  ASSUME NEW cfg, NEW name, ValidProfileConfig(cfg), Resolves(cfg, name), NEW c
  PROVE  grantToolFilter(Resolve(cfg, name), c) = View(cfg, name) \cap Permitted(c)
<1>1. ASSUME NEW t \in Tools
      PROVE  /\ FilterMeta(t) = toolMeta(t)
             /\ FilterMeta(t) = MetaOf(t, GroupOf[t], t \in ReadOnlyTools)
             /\ t \in Permitted(c) <=> AllowsTool(c, toolMeta(t))
  <2>1. t \in Names /\ t \notin Uris
    BY CatalogAssumption, AccessAssumption
  <2> QED
    BY <2>1 DEF FilterMeta, toolMeta, Record, MetaOf, isReadOnlyTool, Permitted, checkToolAccess
<1> DEFINE p == Resolve(cfg, name)
           chosen == IF name = None /\ cfg # None THEN cfg.default ELSE name
<1>2. /\ p # None <=> chosen # None
      /\ chosen # None => p = cfg.profiles[chosen]
  <2>1. CASE name # None
    <3>1. cfg # None /\ name \in DOMAIN cfg.profiles
      BY <2>1 DEF Resolves
    <3>2. cfg.profiles[name] # None
      BY <3>1 DEF ValidProfileConfig
    <3> QED
      BY <2>1, <3>2 DEF Resolve
  <2>2. CASE name = None /\ cfg = None
    BY <2>2 DEF Resolve
  <2>3. CASE name = None /\ cfg # None /\ cfg.default = None
    BY <2>3 DEF Resolve
  <2>4. CASE name = None /\ cfg # None /\ cfg.default # None
    <3>1. cfg.profiles[cfg.default] # None
      BY <2>4 DEF ValidProfileConfig
    <3> QED
      BY <2>4, <3>1 DEF Resolve
  <2> QED
    BY <2>1, <2>2, <2>3, <2>4
<1>3. View(cfg, name) = {t \in Tools : chosen # None => Allows(cfg.profiles[chosen], FilterMeta(t))}
  BY <1>1 DEF View
<1>4. \A t \in Tools : (p # None => Allows(p, FilterMeta(t))) <=> t \in View(cfg, name)
  BY <1>2, <1>3
<1>5. \A t \in Tools : AllowsTool(c, FilterMeta(t)) <=> t \in Permitted(c)
  BY <1>1
<1>6. View(cfg, name) \subseteq Tools
  BY <1>3
<1> QED
  BY <1>4, <1>5, <1>6 DEF grantToolFilter

(* The context of a request holds the profile asked for; and an answer     *)
(* tells of a moment at which the caller's grants called for it.           *)
InContext(r) ==
  pc[r] \in {"routed", "sameOrigin", "authorized", "calling"} =>
    /\ Resolves(config.profiles, ProfileName(r))
    /\ profile[r] = Resolve(config.profiles, ProfileName(r))

Refusals == {"not found", "denied"}
Grants == {"unconfirmed", "done", "API error"}

Told(r) ==
  /\ answer[r] # None => pc[r] = "answered"
  /\ answer[r] = "listed" => \E E \in seen[r] : obtained[r] = ViewOf(r) \cap E
  /\ answer[r] = "403 grant" => {} \in seen[r]
  /\ answer[r] = "denied" => \E E \in seen[r] : rq[r].item \notin E
  /\ config.filterOnCall /\ pc[r] # "new" =>
       /\ obtained[r] \cap Tools \subseteq ViewOf(r)
       /\ rq[r].kind = "call" /\ answer[r] \in Refusals =>
            \E E \in seen[r] : rq[r].item \notin ViewOf(r) \cap E
       /\ rq[r].kind = "call" /\ (pc[r] = "calling" \/ answer[r] \in Grants) =>
            \E E \in seen[r] : rq[r].item \in ViewOf(r) \cap E
       /\ pc[r] = "calling" => rq[r].item \in ViewOf(r) \cup Uris

AnswerInv == \A r \in Reqs : InContext(r) /\ Told(r) /\ (pc[r] = "new" => obtained[r] = {})

(* Nothing is answered at the start.                                       *)
LEMMA AnswerInit == Init => AnswerInv
BY AccessAssumption DEF Init, AnswerInv, InContext, Told, Refusals, Grants, Answers

(* AnswerInv is inductive.                                                 *)
LEMMA AnswerStep == TypeOK /\ GrantInv /\ AnswerInv /\ [Next]_vars => AnswerInv'
<1> DEFINE One(q) == InContext(q) /\ Told(q) /\ (pc[q] = "new" => obtained[q] = {})
<1> SUFFICES ASSUME TypeOK, GrantInv, AnswerInv, [Next]_vars, NEW q \in Reqs PROVE One(q)'
  BY DEF AnswerInv
<1>0. /\ One(q) /\ Granted(q)
      /\ pc[q] # "answered" => answer[q] = None
      /\ None \notin Answers
      /\ ValidProfileConfig(config.profiles) /\ Resolves(config.profiles, config.profile)
  BY AccessAssumption DEF AnswerInv, GrantInv, Told, TypeOK, ValidConfig
(* A step of another request, or of the administrator.                     *)
<1>a. ASSUME config' = config, pc'[q] = pc[q], rq'[q] = rq[q], profile'[q] = profile[q],
             answer'[q] = answer[q], obtained'[q] = obtained[q], seen[q] \subseteq seen'[q]
      PROVE  One(q)'
  <2>1. ViewOf(q)' = ViewOf(q) /\ ProfileName(q)' = ProfileName(q)
    BY <1>a DEF ViewOf, ProfileName
  <2>2. InContext(q)'
    BY <1>0, <1>a, <2>1 DEF InContext
  <2>3. Told(q)'
    BY <1>0, <1>a, <2>1 DEF Told
  <2> QED
    BY <1>0, <1>a, <2>2, <2>3
(* A step by which q comes no further than the handler.                    *)
<1>b. ASSUME UNCHANGED <<config, rq, obtained, seen>>, pc[q] \notin {"new", "answered", "calling"},
             \/ pc'[q] = "answered" /\ answer'[q] \in {"404", "403 origin", "401"}
             \/ pc'[q] = "answered" /\ answer'[q] = "403 grant" /\ {} \in seen[q]
             \/ /\ pc'[q] \in {"routed", "sameOrigin", "authorized"} /\ answer'[q] = answer[q]
                /\ Resolves(config.profiles, ProfileName(q))
                /\ profile'[q] = Resolve(config.profiles, ProfileName(q))
      PROVE  One(q)'
  <2>1. ViewOf(q)' = ViewOf(q) /\ ProfileName(q)' = ProfileName(q)
    BY <1>b DEF ViewOf, ProfileName
  <2>2. InContext(q)'
    BY <1>b, <2>1 DEF InContext
  <2>3. Told(q)'
    BY <1>0, <1>b, <2>1 DEF Told, Refusals, Grants, Answers
  <2> QED
    BY <1>b, <2>2, <2>3
<1>1. ASSUME NEW r \in Reqs, Arrive(r) PROVE One(q)'
  <2>1. CASE r # q
    BY <1>a, <1>1, <2>1 DEF Arrive, ctx, TypeOK
  <2>2. CASE r = q
    <3>1. /\ pc'[q] = "received" /\ obtained'[q] = {} /\ answer'[q] = None
      BY <1>0, <1>1, <2>2 DEF Arrive, TypeOK
    <3> QED
      BY <1>0, <3>1 DEF InContext, Told, Refusals, Grants, Answers
  <2> QED BY <2>1, <2>2
<1>2. ASSUME NEW r \in Reqs, stdioContext(r) PROVE One(q)'
  <2>1. CASE r # q
    BY <1>a, <1>2, <2>1 DEF stdioContext, TypeOK
  <2>2. CASE r = q
    BY <1>0, <1>b, <1>2, <2>2 DEF stdioContext, ProfileName, TypeOK
  <2> QED BY <2>1, <2>2
<1>3. ASSUME NEW r \in Reqs, profileMiddleware(r) PROVE One(q)'
  <2>1. CASE r # q
    BY <1>a, <1>3, <2>1 DEF profileMiddleware, Answer, TypeOK
  <2>2. CASE r = q
    BY <1>0, <1>b, <1>3, <2>2 DEF profileMiddleware, Answer, ProfileName, TypeOK
  <2> QED BY <2>1, <2>2
<1>4. ASSUME NEW r \in Reqs, allowOriginMiddleware(r) PROVE One(q)'
  <2>1. CASE r # q
    BY <1>a, <1>4, <2>1 DEF allowOriginMiddleware, Answer, ctx, TypeOK
  <2>2. CASE r = q
    BY <1>0, <1>b, <1>4, <2>2 DEF allowOriginMiddleware, Answer, ctx, InContext, TypeOK
  <2> QED BY <2>1, <2>2
<1>5. ASSUME NEW r \in Reqs, grantMiddleware(r) PROVE One(q)'
  <2> DEFINE entries == policy[rq[r].caller]
  <2>1. CASE r # q
    BY <1>a, <1>5, <2>1 DEF grantMiddleware, Capture, Answer, TypeOK
  <2>2. CASE r = q /\ Malformed(entries)
    <3>1. EntriesOf(rq[q].caller) = entries /\ Entitlement(entries) = {}
      BY <1>5, <2>2 DEF grantMiddleware, EntriesOf, Entitlement, Malformed
    <3>2. {} \in seen[q]
      BY <1>0, <1>5, <2>2, <3>1 DEF grantMiddleware, Granted
    <3> QED
      BY <1>b, <1>5, <2>2, <3>2 DEF grantMiddleware, Capture, Answer, TypeOK
  <2>3. CASE r = q /\ ~Malformed(entries)
    BY <1>0, <1>b, <1>5, <2>3 DEF grantMiddleware, Capture, Answer, InContext, TypeOK
  <2> QED BY <2>1, <2>2, <2>3
<1>6. ASSUME NEW r \in Reqs, localGrantMiddleware(r) PROVE One(q)'
  <2>1. CASE r # q
    BY <1>a, <1>6, <2>1 DEF localGrantMiddleware, Answer, TypeOK
  <2>2. CASE r = q
    BY <1>0, <1>b, <1>6, <2>2 DEF localGrantMiddleware, Answer, InContext, TypeOK
  <2> QED BY <2>1, <2>2
(* From here on q is authorized: what it is shown is the view it asked     *)
(* for, less what one version of its grants does not permit.               *)
<1>c. ASSUME pc[q] = "authorized"
      PROVE  /\ grantToolFilter(profile[q], caps[q]) = ViewOf(q) \cap Permitted(caps[q])
             /\ Permitted(caps[q]) \in seen[q]
  BY <1>0, <1>c, FilterIsView DEF InContext, Granted, ViewOf, ProfileName
<1>d. ASSUME UNCHANGED <<config, rq>> PROVE ViewOf(q)' = ViewOf(q)
  BY <1>d DEF ViewOf
<1>7. ASSUME NEW r \in Reqs, ListTools(r) PROVE One(q)'
  <2>1. CASE r # q
    BY <1>a, <1>7, <2>1 DEF ListTools, Answer, ctx, TypeOK
  <2>2. CASE r = q
    <3>1. /\ pc'[q] = "answered" /\ answer'[q] = "listed" /\ UNCHANGED <<config, rq, seen>>
          /\ obtained'[q] = ViewOf(q) \cap Permitted(caps[q]) /\ Permitted(caps[q]) \in seen[q]
      BY <1>7, <1>c, <2>2 DEF ListTools, Answer, TypeOK
    <3>2. ViewOf(q)' = ViewOf(q)
      BY <1>d, <3>1
    <3>3. \E E \in seen'[q] : obtained'[q] = ViewOf(q)' \cap E
      BY <3>1, <3>2
    <3>4. obtained'[q] \cap Tools \subseteq ViewOf(q)'
      BY <3>1, <3>2
    <3>5. Told(q)'
      BY <3>1, <3>3, <3>4 DEF Told, Refusals, Grants
    <3> QED
      BY <3>1, <3>5 DEF InContext
  <2> QED BY <2>1, <2>2
<1>8. ASSUME NEW r \in Reqs, CallTool(r) PROVE One(q)'
  <2>1. CASE r # q
    <3>1. UNCHANGED <<config, rq, profile, obtained, seen>>
      BY <1>8 DEF CallTool, ctx
    <3>2. /\ \E v : pc' = [pc EXCEPT ![r] = v]
          /\ answer' = answer \/ \E v : answer' = [answer EXCEPT ![r] = v]
      BY <1>8 DEF CallTool, Answer, Start
    <3>3. pc'[q] = pc[q] /\ answer'[q] = answer[q]
      BY <2>1, <3>2 DEF TypeOK
    <3> QED
      BY <1>a, <3>1, <3>3
  <2>2. CASE r = q
    <3> DEFINE item == rq[q].item
    <3>1. /\ pc[q] = "authorized" /\ rq[q].kind = "call" /\ UNCHANGED <<config, rq, profile, obtained, seen>>
          /\ answer[q] = None
      BY <1>0, <1>8, <2>2 DEF CallTool, ctx
    <3>2. /\ Visible(q) = IF config.filterOnCall THEN ViewOf(q) \cap Permitted(caps[q]) ELSE Tools
          /\ Permitted(caps[q]) \in seen[q] /\ Visible(q) \subseteq Tools
      BY <1>c, <3>1 DEF Visible, grantToolFilter
    <3>3. item \in Tools => (item \in Permitted(caps[q]) <=> checkToolAccess(caps[q], item))
      BY CatalogAssumption, AccessAssumption DEF Permitted
    <3>4. CASE pc'[q] = "answered" /\ answer'[q] = "not found" /\ item \notin Visible(q)
      BY <1>0, <1>d, <3>1, <3>2, <3>4 DEF InContext, Told, Refusals, Grants
    <3>5. CASE pc'[q] = "answered" /\ answer'[q] = "unconfirmed" /\ item \in Visible(q)
      BY <1>0, <1>d, <3>1, <3>2, <3>5 DEF InContext, Told, Refusals, Grants
    <3>6. CASE pc'[q] = "answered" /\ answer'[q] = "denied" /\ item \in Visible(q) /\ item \notin Permitted(caps[q])
      BY <1>0, <1>d, <3>1, <3>2, <3>6 DEF InContext, Told, Refusals, Grants
    <3>7. CASE pc'[q] = "calling" /\ answer'[q] = None /\ item \in Visible(q)
      BY <1>0, <1>d, <3>1, <3>2, <3>7 DEF InContext, Told, Refusals, Grants, Answers, ProfileName
    <3> QED
      BY <1>8, <2>2, <3>1, <3>2, <3>3, <3>4, <3>5, <3>6, <3>7 DEF CallTool, Answer, Start, TypeOK
  <2> QED BY <2>1, <2>2
<1>9. ASSUME NEW r \in Reqs, ReadResource(r) PROVE One(q)'
  <2>1. CASE r # q
    BY <1>a, <1>9, <2>1 DEF ReadResource, Answer, Start, ctx, TypeOK
  <2>2. CASE r = q
    <3> DEFINE item == rq[q].item
    <3>1. /\ pc[q] = "authorized" /\ rq[q].kind = "read" /\ UNCHANGED <<config, rq, profile, obtained, seen>>
          /\ answer[q] = None
      BY <1>0, <1>9, <2>2 DEF ReadResource, ctx
    <3>2. item \in Uris /\ item \notin Names
      <4>1. rq[q] \in Request
        BY <3>1 DEF TypeOK
      <4>2. item \in Uris
        BY <3>1, <4>1 DEF Request
      <4> QED
        BY <4>2, AccessAssumption
    <3>3. Permitted(caps[q]) \in seen[q] /\ (item \in Permitted(caps[q]) <=> checkResourceAccess(caps[q], item))
      BY <1>c, <3>1, <3>2 DEF Permitted
    <3>4. CASE pc'[q] = "answered" /\ answer'[q] = "denied" /\ item \notin Permitted(caps[q])
      BY <1>0, <1>d, <3>1, <3>3, <3>4 DEF InContext, Told, Refusals, Grants
    <3>5. CASE pc'[q] = "calling" /\ answer'[q] = None
      BY <1>0, <1>d, <3>1, <3>2, <3>5 DEF InContext, Told, Refusals, Grants, Answers, ProfileName
    <3> QED
      BY <1>9, <2>2, <3>1, <3>3, <3>4, <3>5 DEF ReadResource, Answer, Start, TypeOK
  <2> QED BY <2>1, <2>2
<1>10. ASSUME NEW r \in Reqs, CallAPI(r) PROVE One(q)'
  <2>1. CASE r # q
    BY <1>a, <1>10, <2>1 DEF CallAPI, Answer, ctx, TypeOK
  <2>2. CASE r = q
    <3>1. /\ pc[q] = "calling" /\ UNCHANGED <<config, rq, profile, seen>> /\ answer[q] = None
          /\ obtained'[q] = obtained[q] \cup {rq[q].item}
      BY <1>0, <1>10, <2>2 DEF CallAPI, ctx, TypeOK
    <3>2. \/ pc'[q] = "calling" /\ answer'[q] = None
          \/ pc'[q] = "answered" /\ answer'[q] \in {"done", "API error"}
      BY <1>10, <2>2, <3>1 DEF CallAPI, Answer, TypeOK
    <3>3. config.filterOnCall => obtained'[q] \cap Tools \subseteq ViewOf(q)
      BY <1>0, <3>1, CatalogAssumption, AccessAssumption DEF Told
    <3> QED
      BY <1>0, <1>d, <3>1, <3>2, <3>3 DEF InContext, Told, Refusals, Grants, Answers, ProfileName
  <2> QED BY <2>1, <2>2
<1>11. ASSUME NEW u \in Users, NEW entries \in Policies, EditPolicy(u, entries) PROVE One(q)'
  BY <1>a, <1>11 DEF EditPolicy, ctx, TypeOK
<1>12. CASE UNCHANGED vars
  BY <1>a, <1>12 DEF vars, ctx
<1> QED
  BY <1>1, <1>2, <1>3, <1>4, <1>5, <1>6, <1>7, <1>8, <1>9, <1>10, <1>11, <1>12
  DEF Next, Handle

(* Both invariants hold.                                                   *)
LEMMA AnswersHold == Spec => [](TypeOK /\ GrantInv /\ AnswerInv)
  BY GrantInit, GrantStep, AnswerInit, AnswerStep, TypeCorrect, PTL DEF Spec

(* A caller whose grants permitted an item all along is not told it lacks  *)
(* them, and sees it in the listing if it is in the profile.               *)
THEOREM Served == Spec => []EntitledServed
<1>1. AnswerInv => EntitledServed
  BY DEF AnswerInv, Told, EntitledServed
<1> QED
  BY <1>1, AnswersHold, PTL

(* Nothing outside of the profile is listed, nor called if calls are       *)
(* filtered, whatever the grants are and however the policy changes.       *)
THEOREM ProfileBounds == Spec => []WithinProfile
<1>1. AnswerInv => WithinProfile
  <2>1. SUFFICES ASSUME AnswerInv, NEW r \in Reqs, obtained[r] # {},
                        config.filterOnCall \/ answer[r] = "listed"
                 PROVE  obtained[r] \cap Tools \subseteq ViewOf(r)
    BY DEF WithinProfile
  <2>2. pc[r] # "new" /\ Told(r)
    BY <2>1 DEF AnswerInv
  <2> QED
    BY <2>1, <2>2 DEF Told
<1> QED
  BY <1>1, AnswersHold, PTL

(* What is listed is what can be called: the filter and the check of the   *)
(* handlers agree on every tool, under every profile and any grants.       *)
THEOREM FilterAgrees == Spec => []ListedIffCallable
<1>1. TypeOK /\ AnswerInv => ListedIffCallable
  <2>1. SUFFICES ASSUME TypeOK, AnswerInv, NEW l \in Reqs, NEW q \in Reqs, config.filterOnCall,
                        answer[l] = "listed", answer[q] \in Refusals \cup Grants,
                        rq[q].kind = "call", rq[q].item \in Tools,
                        rq[l].path = rq[q].path, seen[l] = seen[q],
                        \A E, F \in seen[l] : E = F
                 PROVE  rq[q].item \in obtained[l] <=> answer[q] \notin Refusals
    BY DEF ListedIffCallable, Refusals, Grants
  <2>2. ViewOf(l) = ViewOf(q)
    BY <2>1 DEF ViewOf
  <2>3. pc[q] # "new"
    BY <2>1, AccessAssumption DEF AnswerInv, Told, Refusals, Grants, Answers
  <2>4. PICK E \in seen[l] : obtained[l] = ViewOf(l) \cap E
    BY <2>1 DEF AnswerInv, Told
  <2>5. CASE answer[q] \in Refusals
    <3>1. PICK F \in seen[q] : rq[q].item \notin ViewOf(q) \cap F
      BY <2>1, <2>3, <2>5 DEF AnswerInv, Told
    <3>2. E = F
      BY <2>1, <2>4, <3>1
    <3> QED
      BY <2>2, <2>4, <2>5, <3>1, <3>2
  <2>6. CASE answer[q] \in Grants
    <3>1. PICK F \in seen[q] : rq[q].item \in ViewOf(q) \cap F
      BY <2>1, <2>3, <2>6 DEF AnswerInv, Told
    <3>2. E = F
      BY <2>1, <2>4, <3>1
    <3>3. answer[q] \notin Refusals
      BY <2>6 DEF Refusals, Grants
    <3> QED
      BY <2>2, <2>4, <3>1, <3>2, <3>3
  <2> QED
    BY <2>1, <2>5, <2>6
<1> QED
  BY <1>1, AnswersHold, PTL
=============================================================================
