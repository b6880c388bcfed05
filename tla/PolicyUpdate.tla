--------------------------- MODULE PolicyUpdate ---------------------------
(***************************************************************************)
(* Editing the tailnet policy file with tailscale_get_acl and              *)
(* tailscale_update_acl (internal/curatedtools, readapi.Client.DoRaw).     *)
(* Several clients read the policy, change it and post it back under the   *)
(* ETag they read, while administrators edit it in the console.  Replies   *)
(* are lost, and clients repeat an update they have no answer to.          *)
(*                                                                         *)
(* The policy text is the set of edits it contains.  The Admin API and its *)
(* ETags (a digest of the text) are outside this repository.               *)
(***************************************************************************)
EXTENDS Naturals, FiniteSets

CONSTANTS
  Clients,     \* MCP clients; each wants one edit, named like the client
  Others,      \* edits administrators make in the console
  EtagArgs,    \* how clients fill in the etag argument (EtagArg)
  MaxFaults,   \* bound on what others and the network do to a client
  None

Edits == Clients \cup Others

(* An ETag is a digest of the text it was sent with.                       *)
ETags == [digest : SUBSET Edits]
Unknown == [digest |-> {None}]              \* the ETag of no policy

ASSUME PolicyAssumption ==
  /\ EtagArgs \subseteq {"as read", "missing", "blank"}
  /\ MaxFaults \in Nat

ASSUME NoneAssumption == None \notin ETags /\ None \notin Edits /\ None # Unknown

VARIABLES
  text,     \* the policy in force
  faults,   \* console edits, lost replies, failures and wrong arguments so far
  pc,       \* "idle", "getting", "posting" or "answered"
  copy,     \* copy[c]: the [text, etag] the client last read, or None
  args,     \* args[c]: [policy, etag] of its update, None for a get
  reply,    \* reply[c]: [text, etag] or None for an error
  told,     \* the clients an update has been confirmed to
  landed    \* history: the clients whose edit has been in force

vars == <<text, faults, pc, copy, args, reply, told, landed>>

-----------------------------------------------------------------------------
Policy(t) == [text |-> t, etag |-> [digest |-> t]]

(* stringArg: a missing argument becomes the text "<nil>", blanks are cut. *)
EtagArg(c, form) ==
  CASE form = "as read" -> copy[c].etag
    [] form = "missing" -> Unknown
    [] form = "blank"   -> None

HeaderForgotten(etag) == None

(* DoRaw sets no header for an empty value.                                *)
IfMatch(etag) == etag

(* The Admin API's precondition: If-Match names the policy in force.       *)
Precondition(header) == header = None \/ header = Policy(text).etag

Put(t) ==
  /\ text' = t
  /\ landed' = landed \cup (t \cap Clients)

-----------------------------------------------------------------------------
Init ==
  /\ text \in SUBSET Others
  /\ faults = 0
  /\ pc    = [c \in Clients |-> "idle"]
  /\ copy  = [c \in Clients |-> None]
  /\ args  = [c \in Clients |-> None]
  /\ reply = [c \in Clients |-> None]
  /\ told = {} /\ landed = {}

Fault == faults < MaxFaults /\ faults' = faults + 1

(* tailscale_get_acl is called...                                          *)
CallGet(c) ==
  /\ pc[c] = "idle" /\ c \notin told
  /\ pc' = [pc EXCEPT ![c] = "getting"]
  /\ args' = [args EXCEPT ![c] = None]
  /\ copy' = [copy EXCEPT ![c] = None]
  /\ UNCHANGED <<text, faults, reply, told, landed>>

OtherETag(c) ==
  /\ pc[c] = "getting"
  /\ reply' = [reply EXCEPT ![c] = [text |-> text, etag |-> Unknown]]
  /\ pc' = [pc EXCEPT ![c] = "answered"]
  /\ UNCHANGED <<text, faults, copy, args, told, landed>>

(* ... and returns text and ETag of ONE response.                          *)
getACL(c) ==
  /\ pc[c] = "getting"
  /\ reply' = [reply EXCEPT ![c] = Policy(text)]
  /\ pc' = [pc EXCEPT ![c] = "answered"]
  /\ UNCHANGED <<text, faults, copy, args, told, landed>>

(* tailscale_update_acl is called with the client's edit of its copy; so   *)
(* is it again, with the same arguments, if the answer was lost.           *)
CallUpdate(c) ==
  /\ pc[c] = "idle" /\ c \notin told /\ copy[c] # None
  /\ \E form \in EtagArgs :
       /\ args' = [args EXCEPT ![c] = [policy |-> copy[c].text \cup {c},
                                       etag |-> EtagArg(c, form)]]
       /\ IF form = "as read" THEN UNCHANGED faults ELSE Fault
  /\ pc' = [pc EXCEPT ![c] = "posting"]
  /\ UNCHANGED <<text, copy, reply, told, landed>>

RefusalAsSuccess(c) ==
  /\ pc[c] = "posting"
  /\ IF Precondition(IfMatch(args[c].etag))
       THEN Put(args[c].policy) ELSE UNCHANGED <<text, landed>>
  /\ reply' = [reply EXCEPT ![c] = Policy(text')]
  /\ pc' = [pc EXCEPT ![c] = "answered"]
  /\ UNCHANGED <<faults, copy, args, told>>

(* The Admin API replaces the policy, or refuses it with a 412; the result *)
(* is the new text and ETag, or an error.                                  *)
updateACL(c) ==
  /\ pc[c] = "posting"
  /\ IF Precondition(IfMatch(args[c].etag))
       THEN /\ Put(args[c].policy)
            /\ reply' = [reply EXCEPT ![c] = Policy(text')]
       ELSE UNCHANGED <<text, landed, reply>>
  /\ pc' = [pc EXCEPT ![c] = "answered"]
  /\ UNCHANGED <<faults, copy, args, told>>

(* The Admin API fails a call for any other reason.                        *)
FailAPI(c) ==
  /\ pc[c] \in {"getting", "posting"}
  /\ pc' = [pc EXCEPT ![c] = "answered"]
  /\ Fault
  /\ UNCHANGED <<text, copy, args, reply, told, landed>>

(* The client gets the result, and forgets its copy if that is an error.   *)
Receive(c) ==
  /\ pc[c] = "answered"
  /\ pc' = [pc EXCEPT ![c] = "idle"]
  /\ copy' = [copy EXCEPT ![c] = reply[c]]
  /\ reply' = [reply EXCEPT ![c] = None]
  /\ told' = IF args[c] # None /\ reply[c] # None THEN told \cup {c} ELSE told
  /\ UNCHANGED <<text, faults, args, landed>>

(* The reply, or the answer of the Admin API to the server, is lost.       *)
Lose(c) ==
  /\ pc[c] = "answered"
  /\ pc' = [pc EXCEPT ![c] = "idle"]
  /\ reply' = [reply EXCEPT ![c] = None]
  /\ Fault
  /\ UNCHANGED <<text, copy, args, told, landed>>

(* An administrator adds or removes an edit in the console.                *)
EditConsole(e) ==
  /\ Put(IF e \in text THEN text \ {e} ELSE text \cup {e})
  /\ Fault
  /\ UNCHANGED <<pc, copy, args, reply, told>>

Serve(c) == getACL(c) \/ updateACL(c) \/ FailAPI(c)
Finish(c) == Receive(c) \/ Lose(c)

Next == \/ \E c \in Clients : CallGet(c) \/ CallUpdate(c) \/ Serve(c) \/ Finish(c)
        \/ \E e \in Edits : EditConsole(e)

Spec == Init /\ [][Next]_vars

-----------------------------------------------------------------------------
Contents == [text : SUBSET Edits, etag : ETags]
Updates == [policy : SUBSET Edits, etag : ETags \cup {Unknown, None}]

TypeOK ==
  /\ text \in SUBSET Edits
  /\ faults \in 0..MaxFaults
  /\ pc \in [Clients -> {"idle", "getting", "posting", "answered"}]
  /\ copy \in [Clients -> Contents \cup {None}]
  /\ args \in [Clients -> Updates \cup {None}]
  /\ reply \in [Clients -> Contents \cup {None}]
  /\ told \subseteq Clients /\ landed \subseteq Clients
  /\ \A c \in Clients : pc[c] = "posting" => args[c] \in Updates

(* "using an ETag to avoid overwriting concurrent edits": every change of  *)
(* the policy adds or removes one edit to the policy IN FORCE; whoever     *)
(* read it before somebody else's change is refused (tailscale_update_acl).*)
NoLostUpdate ==
  [][\E e \in Edits : text' \in {text, text \cup {e}, text \ {e}}]_vars

(* A client that is told its update succeeded had its edit in force.       *)
ToldLanded == told \subseteq landed

(* "If-Match precondition", for each client on its own: an update that     *)
(* names an ETag adds the client's edit to the policy in force and changes *)
(* nothing else, also beside clients that name none (tailscale_update_acl).*)
GuardedUpdate ==
  [][\A c \in Clients :
       updateACL(c) /\ IfMatch(args[c].etag) # None => text' \in {text, text \cup {c}}]_vars

(* The inductive invariant behind them: a copy, and a reply, pairs a text  *)
(* with its own ETag (so that a second update may go on from the reply to  *)
(* the first), and an update posts one edit of the text its ETag names, if *)
(* it names one; it names none only if the client has blanked it.          *)
EditInv ==
  \A c \in Clients :
    /\ copy[c] # None => copy[c].etag = Policy(copy[c].text).etag
    /\ reply[c] # None => reply[c].etag = Policy(reply[c].text).etag
    /\ pc[c] = "posting" =>
         \E t \in SUBSET Edits : /\ args[c].policy = t \cup {c}
                                 /\ args[c].etag \in {Policy(t).etag, Unknown, None}
    /\ pc[c] = "posting" /\ args[c].etag = None => "blank" \in EtagArgs
    /\ pc[c] # "answered" => reply[c] = None
    /\ pc[c] = "getting" => args[c] = None
    /\ pc[c] = "answered" /\ args[c] # None /\ reply[c] # None => c \in landed

-----------------------------------------------------------------------------
(***************************************************************************)
(* Progress: a client that is not done reads, and does not read forever    *)
(* without updating; the Admin API answers; the answer arrives or is lost. *)
(* Faults, being bounded, end.                                             *)
(***************************************************************************)
Fairness ==
  \A c \in Clients : /\ WF_vars(CallGet(c)) /\ SF_vars(CallUpdate(c))
                     /\ WF_vars(Serve(c)) /\ WF_vars(Finish(c))

FairSpec == Spec /\ Fairness

(* Optimistic concurrency does not starve: every client's edit comes into  *)
(* force and the client learns of it.                                      *)
EveryEditLands == \A c \in Clients : <>(c \in told)
=============================================================================
