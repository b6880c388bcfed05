--------------------------- MODULE DeviceSettings ---------------------------
(***************************************************************************)
(* What the device tools promise, with no mention of calls, loops, reports *)
(* or errors: a client wants a value for some devices; devices are set one *)
(* at a time, only by a client that wants it and only to the value it      *)
(* wants, in any order and as often as an answer is lost; and a client is  *)
(* done only when each of its devices has been set.  DeviceAuthorization   *)
(* implements this.                                                        *)
(***************************************************************************)
CONSTANTS Clients, Devices, None

VARIABLES
  authorized, \* which devices are authorized
  wish,       \* wish[c]: the [ids, flag] client c wants, None before
  left,       \* left[c]: those of its devices it still has to set
  done        \* the clients that have been told they are done

settings == <<authorized, wish, left, done>>

Init ==
  /\ authorized \in [Devices -> BOOLEAN]
  /\ wish = [c \in Clients |-> None]
  /\ left = [c \in Clients |-> {}]
  /\ done = {}

Want(c) ==
  /\ wish[c] = None
  /\ \E ds \in SUBSET Devices, v \in BOOLEAN :
       /\ wish' = [wish EXCEPT ![c] = [ids |-> ds, flag |-> v]]
       /\ left' = [left EXCEPT ![c] = ds]
  /\ UNCHANGED <<authorized, done>>

Set(c) ==
  /\ \E d \in left[c] :
       /\ authorized' = [authorized EXCEPT ![d] = wish[c].flag]
       /\ left' = [left EXCEPT ![c] = @ \ {d}]
  /\ UNCHANGED <<wish, done>>

(* An answer is lost: devices are set again that may have been set.        *)
Again(c) ==
  /\ wish[c] # None /\ c \notin done
  /\ \E ds \in SUBSET wish[c].ids : left' = [left EXCEPT ![c] = @ \cup ds]
  /\ UNCHANGED <<authorized, wish, done>>

Finish(c) ==
  /\ wish[c] # None /\ left[c] = {}
  /\ done' = done \cup {c}
  /\ UNCHANGED <<authorized, wish, left>>

Next == \E c \in Clients : Want(c) \/ Set(c) \/ Again(c) \/ Finish(c)

Spec == Init /\ [][Next]_settings
=============================================================================
