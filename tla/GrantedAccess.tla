--------------------------- MODULE GrantedAccess ---------------------------
(***************************************************************************)
(* What the grants promise a tailnet administrator, with no mention of     *)
(* middleware, filters or contexts: whatever a request obtains, it obtains *)
(* by ONE set of entitlements its caller held at some instant between the  *)
(* request's arrival and now.  AccessControl implements this.              *)
(***************************************************************************)
CONSTANTS
  Reqs,     \* requests
  Callers,  \* tailnet users, and the local caller
  Items,    \* tools and resources
  None

VARIABLES
  entitled,  \* what each caller may use now
  by,        \* the caller of each request, None before it arrives
  seen,      \* the entitlements of its caller since each request arrived
  obtained   \* the items listed to, called for or read by each request

absVars == <<entitled, by, seen, obtained>>

Init ==
  /\ entitled \in [Callers -> SUBSET Items]
  /\ by       = [r \in Reqs |-> None]
  /\ seen     = [r \in Reqs |-> {}]
  /\ obtained = [r \in Reqs |-> {}]

Arrive(r) ==
  /\ by[r] = None
  /\ \E c \in Callers :
       /\ by'   = [by EXCEPT ![r] = c]
       /\ seen' = [seen EXCEPT ![r] = {entitled[c]}]
  /\ UNCHANGED <<entitled, obtained>>

(* Administrators edit the policy: entitlements change in any way.         *)
Edit ==
  /\ entitled' \in [Callers -> SUBSET Items]
  /\ seen' = [r \in Reqs |->
                IF by[r] = None THEN seen[r] ELSE seen[r] \cup {entitled'[by[r]]}]
  /\ UNCHANGED <<by, obtained>>

Obtain(r) ==
  /\ \E E \in seen[r] : \E S \in SUBSET E :
       /\ obtained[r] \subseteq E
       /\ obtained' = [obtained EXCEPT ![r] = @ \cup S]
  /\ UNCHANGED <<entitled, by, seen>>

Next ==
  \/ \E r \in Reqs : Arrive(r) \/ Obtain(r)
  \/ Edit

Spec == Init /\ [][Next]_absVars
=============================================================================
