-------------------------- MODULE NetworkFlowLogs --------------------------
(***************************************************************************)
(* Paging through network flow logs (internal/readapi/                     *)
(* network_flow_logs.go).  The server keeps no session: a reply covers at  *)
(* most Chunk of the requested range and carries, in nextCursor, all that  *)
(* is needed to go on.  A client makes several calls at a time, repeats    *)
(* calls, replays old cursors and sends bad arguments; the Admin API       *)
(* fails, and replies are lost or overtake each other.                     *)
(*                                                                         *)
(* Instants are natural numbers, Zero is Go's zero time.                   *)
(***************************************************************************)
EXTENDS Naturals, FiniteSets

CONSTANTS
  Calls,      \* tool calls that can be in progress at once
  Chunk,      \* networkFlowLogChunkDuration
  Zero,       \* the instant Go's IsZero recognises
  Start, End, \* the range the client is after
  Loads,      \* possible sets of instants with more logs than a body may hold
  None

Window == [start : Nat, end : Nat]

ASSUME RangeAssumption ==
  /\ Start \in Nat /\ End \in Nat /\ Zero \in Nat
  /\ Zero < Start /\ Start < End
  /\ Chunk \in Nat \ {0}
  /\ Loads \subseteq SUBSET Nat
  /\ None \notin Window

(* The arguments of a call; a cursor is the window still to read.          *)
Args(cursor, start, end) == [cursor |-> cursor, start |-> start, end |-> end]

Garbage == [start |-> End, end |-> Start]   \* a cursor that is not in order

ArgsOf(cursors) ==
  {Args(None, Start, End), Args(None, Start, None), Args(None, End, Start),
   Args(Garbage, None, None)}
  \cup {Args(c, None, None) : c \in cursors}
  \cup {Args(c, Start, None) : c \in cursors}

VARIABLES
  oversized, \* instants whose logs exceed the 4 MiB read from a response body
  pc,      \* pc[c]: "idle", "sent", "fetching" or "replied"
  args,    \* args[c]: the arguments of the call
  range,   \* range[c]: the start and end the server took from them
  reply,   \* reply[c]: [window, next] or None for an error
  held,    \* the cursors the client has received
  got,     \* the windows whose logs the client has received
  finished \* whether a reply without a cursor has reached the client

vars == <<oversized, pc, args, range, reply, held, got, finished>>

-----------------------------------------------------------------------------
(* networkFlowLogRange: the range a call asks for, None if it is refused.  *)
DecodeCursor(c) ==
  IF c.start = Zero \/ c.end = Zero \/ ~(c.start < c.end) THEN None ELSE c

UncheckedEndRange(a) ==
  IF a.cursor # None THEN DecodeCursor(a.cursor)
  ELSE IF a.start = None THEN None ELSE [start |-> a.start, end |-> a.end]

networkFlowLogRange(a) ==
  IF a.cursor # None
    THEN IF a.start # None \/ a.end # None THEN None ELSE DecodeCursor(a.cursor)
    ELSE IF a.start = None \/ a.end = None \/ ~(a.start < a.end) THEN None
         ELSE [start |-> a.start, end |-> a.end]

ChunkEnd(w) == IF w.start + Chunk > w.end THEN w.end ELSE w.start + Chunk

Rest(from, w) == [start |-> from, end |-> w.end]

(* Ways to get it wrong: an inclusive end, an exclusive start, no advance, *)
(* an empty last window, and a last short window forgotten.                *)
OverlapNext(w)   == IF ChunkEnd(w) < w.end THEN Rest(ChunkEnd(w) - 1, w) ELSE None
SkipOneNext(w)   == IF ChunkEnd(w) + 1 < w.end THEN Rest(ChunkEnd(w) + 1, w) ELSE None
StuckNext(w)     == IF ChunkEnd(w) < w.end THEN w ELSE None
EmptyLastNext(w) == IF ChunkEnd(w) <= w.end THEN Rest(ChunkEnd(w), w) ELSE None
ForgetLastNext(w) == IF ChunkEnd(w) + Chunk <= w.end THEN Rest(ChunkEnd(w), w) ELSE None

NextCursor(w) == IF ChunkEnd(w) < w.end THEN Rest(ChunkEnd(w), w) ELSE None

(* The logs of the window do not fit the body limit: the truncated body is *)
(* not JSON, and the call fails every time.                                *)
Truncated(w) == \E t \in oversized : w.start <= t /\ t < ChunkEnd(w)

-----------------------------------------------------------------------------
Init ==
  /\ oversized \in Loads
  /\ pc    = [c \in Calls |-> "idle"]
  /\ args  = [c \in Calls |-> None]
  /\ range = [c \in Calls |-> None]
  /\ reply = [c \in Calls |-> None]
  /\ held = {} /\ got = {} /\ finished = FALSE

(* The client calls the tool, for the whole range or with a cursor it has. *)
Send(c) ==
  /\ pc[c] = "idle"
  /\ \E a \in ArgsOf(held) : args' = [args EXCEPT ![c] = a]
  /\ pc' = [pc EXCEPT ![c] = "sent"]
  /\ UNCHANGED <<oversized, range, reply, held, got, finished>>

(* The handler reads the arguments and asks the Admin API for one chunk.   *)
Handle(c) ==
  LET w == networkFlowLogRange(args[c]) IN
  /\ pc[c] = "sent"
  /\ range' = [range EXCEPT ![c] = w]
  /\ pc' = [pc EXCEPT ![c] = IF w = None THEN "replied" ELSE "fetching"]
  /\ reply' = [reply EXCEPT ![c] = None]
  /\ UNCHANGED <<oversized, args, held, got, finished>>

(* The Admin API answers with the logs of the chunk...                     *)
Succeed(c) ==
  LET w == range[c] IN
  /\ pc[c] = "fetching" /\ ~Truncated(w)
  /\ reply' = [reply EXCEPT ![c] =
                 [window |-> [start |-> w.start, end |-> ChunkEnd(w)],
                  next |-> NextCursor(w)]]
  /\ pc' = [pc EXCEPT ![c] = "replied"]
  /\ UNCHANGED <<oversized, args, range, held, got, finished>>

(* ... or not: an error, a truncated body, no answer.                      *)
Fail(c) ==
  /\ pc[c] = "fetching"
  /\ pc' = [pc EXCEPT ![c] = "replied"]
  /\ UNCHANGED <<oversized, args, range, reply, held, got, finished>>

(* The reply reaches the client, or is lost.                               *)
Receive(c) ==
  /\ pc[c] = "replied" /\ reply[c] # None
  /\ got' = got \cup {reply[c].window}
  /\ held' = IF reply[c].next = None THEN held ELSE held \cup {reply[c].next}
  /\ finished' = (finished \/ reply[c].next = None)
  /\ pc' = [pc EXCEPT ![c] = "idle"]
  /\ UNCHANGED <<oversized, args, range, reply>>

Drop(c) ==
  /\ pc[c] = "replied"
  /\ pc' = [pc EXCEPT ![c] = "idle"]
  /\ UNCHANGED <<oversized, args, range, reply, held, got, finished>>

Step(c) == Send(c) \/ Handle(c) \/ Succeed(c) \/ Fail(c) \/ Receive(c) \/ Drop(c)
Next == \E c \in Calls : Step(c)

Spec == Init /\ [][Next]_vars

-----------------------------------------------------------------------------
(***************************************************************************)
(* What paging promises.                                                   *)
(***************************************************************************)
(* Every instant of the range before t is in one of the windows.           *)
Read(windows, t) == \A i \in Start..(t - 1) : \E w \in windows : w.start <= i /\ i < w.end

TypeOK ==
  /\ oversized \in Loads
  /\ pc \in [Calls -> {"idle", "sent", "fetching", "replied"}]
  /\ \A c \in Calls : pc[c] = "sent" => args[c] \in ArgsOf(held)
  /\ DOMAIN args = Calls
  /\ range \in [Calls -> Window \cup {None}]
  /\ reply \in [Calls -> [window : Window, next : Window \cup {None}] \cup {None}]
  /\ held \subseteq Window /\ got \subseteq Window
  /\ finished \in BOOLEAN

(* A client that holds a cursor has read everything before it, whichever   *)
(* calls failed, were lost, repeated or overtaken; and the cursor still    *)
(* names the end of the range it asked for (nextCursor).                   *)
NoGap ==
  \A c \in held : c.end = End /\ Start < c.start /\ c.start < End /\ Read(got, c.start)

(* The inductive invariant behind these properties: a window is "open" if  *)
(* it lies on the grid of chunks, runs to End and all before it has been   *)
(* read.  Every cursor held, every range being fetched is open, and a      *)
(* reply holds the first chunk of an open window and a cursor for the rest.*)
OnGrid(t) == \E k \in Nat : t = Start + k * Chunk
InRange(w) == w.end = End /\ w.start < End /\ OnGrid(w.start)
Open(windows, w) == InRange(w) /\ Read(windows, w.start)
FirstChunk(w) == [start |-> w.start, end |-> ChunkEnd(w)]

PagingInv ==
  /\ \A c \in Calls :
       /\ pc[c] = "fetching" => range[c] \in Window /\ Open(got, range[c]) /\ reply[c] = None
       /\ pc[c] = "replied" /\ reply[c] # None =>
            \E w \in Window : Open(got, w) /\ reply[c] = [window |-> FirstChunk(w), next |-> NextCursor(w)]
  /\ \A w \in held : Open(got, w) /\ Start < w.start
  /\ \A v \in got : \E w \in Window : InRange(w) /\ v = FirstChunk(w)
  /\ finished => Read(got, End)

(* A reply without nextCursor means that the whole range has been read.    *)
FinishedComplete == finished => Read(got, End)

(* Received windows are not empty, at most a chunk long and never overlap  *)
(* without being equal: a repeated call returns the same window.           *)
NoOverlap ==
  /\ \A w \in got : w.start < w.end /\ w.end <= w.start + Chunk
  /\ \A w, v \in got : w = v \/ w.end <= v.start \/ v.end <= w.start

(* The server accepts every cursor it has issued.                          *)
CursorsAccepted ==
  \A c \in held : networkFlowLogRange(Args(c, None, None)) = c

(* The next window of a client that always goes on from its last cursor.   *)
Frontier ==
  IF held = {} THEN [start |-> Start, end |-> End]
  ELSE CHOOSE c \in held : \A d \in held : d.start <= c.start

(* Seen from the client, reading is chronological: ChronologicalRead.      *)
Upto == IF got = {} THEN Start
        ELSE CHOOSE t \in {w.end : w \in got} : \A w \in got : w.end <= t

CR == INSTANCE ChronologicalRead WITH upto <- Upto, done <- finished

ImplementsChronologicalRead == CR!Spec

-----------------------------------------------------------------------------
(***************************************************************************)
(* Progress.  The server's own step is always taken; the environment is    *)
(* assumed not to be hostile forever: the client keeps asking for its      *)
(* frontier, the Admin API does not fail every one of these calls, and not *)
(* every reply to them is lost.                                            *)
(***************************************************************************)
AskFrontier(c) ==
  /\ Send(c)
  /\ args'[c] = IF held = {} THEN Args(None, Start, End) ELSE Args(Frontier, None, None)

Fairness ==
  \A c \in Calls :
    /\ WF_vars(Handle(c))
    /\ WF_vars(Succeed(c) \/ Fail(c))
    /\ WF_vars(Receive(c) \/ Drop(c))
    /\ SF_vars(AskFrontier(c))
    /\ SF_vars(Succeed(c) /\ range[c] = Frontier)
    /\ SF_vars(Receive(c) /\ range[c] = Frontier)

FairSpec == Spec /\ Fairness

(* The chain of cursors ends: the whole range is read, unless it reaches a *)
(* chunk that does not fit a response body, which no retry can get past.   *)
Completes == <>(finished \/ Truncated(Frontier))

=============================================================================
