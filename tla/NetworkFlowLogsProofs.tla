---------------------- MODULE NetworkFlowLogsProofs ----------------------
(***************************************************************************)
(* Proofs about NetworkFlowLogs, for any range, chunk length, number of    *)
(* concurrent calls and amount of logs.                                    *)
(***************************************************************************)
EXTENDS NetworkFlowLogs, TLAPS

USE RangeAssumption

-----------------------------------------------------------------------------
(* The range the server takes from a call is a proper window: the one of a *)
(* cursor the client holds, or the whole range (networkFlowLogRange).      *)
LEMMA RangeOfArgs ==
  ASSUME NEW a \in ArgsOf(held), held \subseteq Window, networkFlowLogRange(a) # None
  PROVE  networkFlowLogRange(a) \in held \/ networkFlowLogRange(a) = [start |-> Start, end |-> End]
<1>1. CASE a \in {Args(None, Start, End), Args(None, Start, None), Args(None, End, Start)}
  BY <1>1 DEF Args, networkFlowLogRange
<1>2. CASE a = Args(Garbage, None, None)
  BY <1>2 DEF Args, Garbage, networkFlowLogRange, DecodeCursor
<1>3. ASSUME NEW c \in held, a = Args(c, None, None) \/ a = Args(c, Start, None)
      PROVE  networkFlowLogRange(a) = c
  BY <1>3 DEF Args, networkFlowLogRange, DecodeCursor
<1> QED
  BY <1>1, <1>2, <1>3 DEF ArgsOf

(* Where a chunk ends, and where the next one starts (networkFlowLogChunk).*)
LEMMA ChunkBounds ==
  ASSUME NEW w \in Window, w.start < w.end
  PROVE  /\ ChunkEnd(w) \in Nat /\ w.start < ChunkEnd(w)
         /\ ChunkEnd(w) <= w.end /\ ChunkEnd(w) <= w.start + Chunk
         /\ ChunkEnd(w) < w.end => ChunkEnd(w) = w.start + Chunk
         /\ FirstChunk(w) \in Window
         /\ NextCursor(w) = IF ChunkEnd(w) < w.end
                              THEN [start |-> ChunkEnd(w), end |-> w.end] ELSE None
  BY DEF Window, ChunkEnd, FirstChunk, NextCursor, Rest

(* The whole range is an open window before anything has been read.        *)
LEMMA WholeIsOpen == ASSUME NEW g PROVE Open(g, [start |-> Start, end |-> End])
<1>1. Start = Start + 0 * Chunk
  OBVIOUS
<1> QED
  BY <1>1 DEF Open, InRange, OnGrid, Read

(* One step along the grid.                                                *)
LEMMA GridStep ==
  ASSUME NEW t \in Nat, OnGrid(t)
  PROVE  OnGrid(t + Chunk) /\ Start <= t
<1>1. PICK k \in Nat : t = Start + k * Chunk
  BY DEF OnGrid
<1>2. (k + 1) * Chunk = k * Chunk + Chunk /\ k * Chunk >= 0
  BY <1>1
<1>3. t + Chunk = Start + (k + 1) * Chunk /\ k + 1 \in Nat /\ Start <= t
  BY <1>1, <1>2
<1> QED
  BY <1>3 DEF OnGrid

(* Two different instants of the grid are at least a chunk apart.          *)
LEMMA GridSpacing ==
  ASSUME NEW s \in Nat, NEW t \in Nat, OnGrid(s), OnGrid(t), s < t
  PROVE  s + Chunk <= t
<1>1. PICK k \in Nat : s = Start + k * Chunk
  BY DEF OnGrid
<1>2. PICK j \in Nat : t = Start + j * Chunk
  BY DEF OnGrid
<1>3. ~(j <= k)
  <2>1. SUFFICES ASSUME j <= k PROVE FALSE
    OBVIOUS
  <2>2. PICK d \in Nat : k = j + d
    <3>1. k - j \in Nat /\ k = j + (k - j)
      BY <2>1
    <3> QED
      BY <3>1
  <2>3. k * Chunk = j * Chunk + d * Chunk /\ d * Chunk >= 0
    BY <2>2
  <2> QED
    BY <1>1, <1>2, <2>3
<1>4. PICK d \in Nat : j = k + 1 + d
  <2>1. j - k - 1 \in Nat /\ j = k + 1 + (j - k - 1)
    BY <1>3
  <2> QED
    BY <2>1
<1>5. j * Chunk = k * Chunk + Chunk + d * Chunk /\ d * Chunk >= 0
  BY <1>4
<1> QED
  BY <1>1, <1>2, <1>5

-----------------------------------------------------------------------------
(* Types are preserved by every step.                                      *)
LEMMA TypeStep == TypeOK /\ PagingInv /\ [Next]_vars => TypeOK'
<1> SUFFICES ASSUME TypeOK, PagingInv, [Next]_vars PROVE TypeOK'
  OBVIOUS
<1> USE DEF TypeOK
<1>1. ASSUME held \subseteq held' PROVE ArgsOf(held) \subseteq ArgsOf(held')
  BY <1>1 DEF ArgsOf
<1>2. CASE UNCHANGED vars
  BY <1>2 DEF vars
<1>3. ASSUME NEW c \in Calls, Send(c) PROVE TypeOK'
  BY <1>3 DEF Send
<1>4. ASSUME NEW c \in Calls, Handle(c) PROVE TypeOK'
  <2>1. networkFlowLogRange(args[c]) \in Window \cup {None}
    BY <1>4, RangeOfArgs DEF Handle, Window
  <2> QED
    BY <1>4, <2>1 DEF Handle
<1>5. ASSUME NEW c \in Calls, Succeed(c) PROVE TypeOK'
  <2>1. range[c] \in Window /\ range[c].start < range[c].end
    BY <1>5 DEF Succeed, PagingInv, Open, InRange
  <2>2. /\ [start |-> range[c].start, end |-> ChunkEnd(range[c])] \in Window
        /\ NextCursor(range[c]) \in Window \cup {None}
    BY <2>1, ChunkBounds DEF Window
  <2> QED
    BY <1>5, <2>2 DEF Succeed
<1>6. ASSUME NEW c \in Calls, Fail(c) PROVE TypeOK'
  BY <1>6 DEF Fail
<1>7. ASSUME NEW c \in Calls, Receive(c) PROVE TypeOK'
  <2>1. reply[c] \in [window : Window, next : Window \cup {None}]
    BY <1>7 DEF Receive
  <2>2. held \subseteq held' /\ held' \subseteq Window /\ got' \subseteq Window
    BY <1>7, <2>1 DEF Receive
  <2> QED
    BY <1>1, <1>7, <2>2 DEF Receive
<1>8. ASSUME NEW c \in Calls, Drop(c) PROVE TypeOK'
  BY <1>8 DEF Drop
<1> QED
  BY <1>2, <1>3, <1>4, <1>5, <1>6, <1>7, <1>8 DEF Next, Step

(* Reading more keeps what was read, and an open window open.              *)
LEMMA OpenMonotone ==
  ASSUME NEW g, NEW h, g \subseteq h
  PROVE  /\ \A t : Read(g, t) => Read(h, t)
         /\ \A w : Open(g, w) => Open(h, w)
  BY DEF Read, Open

(* Receiving the first chunk of an open window: what follows is open.      *)
LEMMA ReceiveOpens ==
  ASSUME NEW g, NEW w \in Window, Open(g, w)
  PROVE  Read(g \cup {FirstChunk(w)}, ChunkEnd(w))
<1> DEFINE h == g \cup {FirstChunk(w)}
<1>1. w.start \in Nat /\ w.start < w.end
  BY DEF Open, InRange, Window
<1>2. ChunkEnd(w) \in Nat
  BY <1>1, ChunkBounds
<1>3. ASSUME NEW i \in Start..(ChunkEnd(w) - 1)
      PROVE  \E v \in h : v.start <= i /\ i < v.end
  <2>1. CASE i < w.start
    <3>1. i \in Start..(w.start - 1)
      BY <1>1, <1>2, <2>1
    <3> QED
      BY <3>1 DEF Open, Read
  <2>2. CASE w.start <= i
    <3>1. FirstChunk(w).start = w.start /\ FirstChunk(w).end = ChunkEnd(w)
      BY DEF FirstChunk
    <3>2. i < ChunkEnd(w)
      BY <1>2
    <3> QED
      BY <2>2, <3>1, <3>2
  <2> QED
    BY <1>1, <1>2, <2>1, <2>2
<1> QED
  BY <1>3 DEF Read

(* PagingInv is inductive.                                                 *)
LEMMA PagingStep == TypeOK /\ PagingInv /\ [Next]_vars => PagingInv'
<1> SUFFICES ASSUME TypeOK, PagingInv, [Next]_vars PROVE PagingInv'
  OBVIOUS
<1> USE DEF TypeOK
<1>1. CASE UNCHANGED vars
  BY <1>1 DEF vars, PagingInv
<1>2. ASSUME NEW c \in Calls, Send(c) PROVE PagingInv'
  BY <1>2 DEF Send, PagingInv
<1>3. ASSUME NEW c \in Calls, Handle(c) PROVE PagingInv'
  <2> DEFINE w == networkFlowLogRange(args[c])
  <2>1. w # None => w \in Window /\ Open(got, w)
    BY <1>3, RangeOfArgs, WholeIsOpen DEF Handle, PagingInv, Window
  <2>2. range' = [range EXCEPT ![c] = w] /\ reply' = [reply EXCEPT ![c] = None]
        /\ pc' = [pc EXCEPT ![c] = IF w = None THEN "replied" ELSE "fetching"]
        /\ UNCHANGED <<held, got, finished>>
    BY <1>3 DEF Handle
  <2>3. \A v : Open(got, v) => Open(got', v)
    BY <2>2, OpenMonotone
  <2>4. ASSUME NEW d \in Calls, pc'[d] = "fetching"
        PROVE  range'[d] \in Window /\ Open(got', range'[d]) /\ reply'[d] = None
    BY <2>1, <2>2, <2>3, <2>4 DEF PagingInv
  <2>5. ASSUME NEW d \in Calls, pc'[d] = "replied", reply'[d] # None
        PROVE  \E v \in Window : Open(got', v) /\ reply'[d] = [window |-> FirstChunk(v), next |-> NextCursor(v)]
    <3>1. d # c /\ pc[d] = "replied" /\ reply[d] # None /\ reply'[d] = reply[d]
      BY <2>2, <2>5
    <3> QED
      BY <2>3, <3>1 DEF PagingInv
  <2> QED
    BY <2>2, <2>3, <2>4, <2>5 DEF PagingInv
<1>4. ASSUME NEW c \in Calls, Succeed(c) PROVE PagingInv'
  <2> DEFINE w == range[c]
  <2>1. w \in Window /\ Open(got, w)
    BY <1>4 DEF Succeed, PagingInv
  <2>2. /\ reply' = [reply EXCEPT ![c] = [window |-> FirstChunk(w), next |-> NextCursor(w)]]
        /\ pc' = [pc EXCEPT ![c] = "replied"] /\ UNCHANGED <<range, held, got, finished>>
    BY <1>4 DEF Succeed, FirstChunk
  <2>3. \A v : Open(got, v) => Open(got', v)
    BY <2>2, OpenMonotone
  <2>4. ASSUME NEW d \in Calls, pc'[d] = "fetching"
        PROVE  range'[d] \in Window /\ Open(got', range'[d]) /\ reply'[d] = None
    BY <2>2, <2>3, <2>4 DEF PagingInv
  <2>5. ASSUME NEW d \in Calls, pc'[d] = "replied", reply'[d] # None
        PROVE  \E v \in Window : Open(got', v) /\ reply'[d] = [window |-> FirstChunk(v), next |-> NextCursor(v)]
    <3>1. CASE d = c
      <4>1. reply'[d] = [window |-> FirstChunk(w), next |-> NextCursor(w)]
        BY <2>2, <3>1
      <4> QED
        BY <2>1, <2>3, <4>1
    <3>2. CASE d # c
      BY <2>2, <2>3, <2>5, <3>2 DEF PagingInv
    <3> QED
      BY <3>1, <3>2
  <2> QED
    BY <2>2, <2>3, <2>4, <2>5 DEF PagingInv
<1>5. ASSUME NEW c \in Calls, Fail(c) PROVE PagingInv'
  <2> QED
    BY <1>5 DEF Fail, PagingInv
<1>6. ASSUME NEW c \in Calls, Receive(c) PROVE PagingInv'
  <2>1. PICK w \in Window : Open(got, w) /\ reply[c] = [window |-> FirstChunk(w), next |-> NextCursor(w)]
    BY <1>6 DEF Receive, PagingInv
  <2>2. /\ got' = got \cup {FirstChunk(w)}
        /\ held' = IF NextCursor(w) = None THEN held ELSE held \cup {NextCursor(w)}
        /\ finished' = (finished \/ NextCursor(w) = None)
        /\ pc' = [pc EXCEPT ![c] = "idle"] /\ UNCHANGED <<range, reply>>
    BY <1>6, <2>1 DEF Receive
  <2>3. (\A t : Read(got, t) => Read(got', t)) /\ (\A v : Open(got, v) => Open(got', v))
    BY <2>2, OpenMonotone
  <2>4. Read(got', ChunkEnd(w))
    BY <2>1, <2>2, ReceiveOpens
  <2>5. w.start \in Nat /\ w.end \in Nat /\ w.end = End /\ w.start < w.end /\ OnGrid(w.start) /\ InRange(w)
    BY <2>1 DEF Open, InRange, Window
  <2>6. NextCursor(w) # None => Open(got', NextCursor(w)) /\ Start < NextCursor(w).start
    <3>1. SUFFICES ASSUME NextCursor(w) # None
                   PROVE  Open(got', NextCursor(w)) /\ Start < NextCursor(w).start
      OBVIOUS
    <3>2. /\ NextCursor(w) = [start |-> ChunkEnd(w), end |-> w.end] /\ ChunkEnd(w) \in Nat
          /\ ChunkEnd(w) < w.end /\ ChunkEnd(w) = w.start + Chunk
      BY <2>5, <3>1, ChunkBounds
    <3>3. OnGrid(ChunkEnd(w)) /\ Start <= w.start
      BY <2>5, <3>2, GridStep
    <3> QED
      BY <2>4, <2>5, <3>2, <3>3 DEF Open, InRange, OnGrid
  <2>7. NextCursor(w) = None => Read(got', End)
    <3>1. SUFFICES ASSUME NextCursor(w) = None PROVE ChunkEnd(w) = End
      BY <2>4
    <3>2. ChunkEnd(w) < w.end => NextCursor(w) = [start |-> ChunkEnd(w), end |-> w.end] /\ ChunkEnd(w) \in Nat
      BY <2>5, ChunkBounds
    <3>3. None # [start |-> ChunkEnd(w), end |-> w.end]
      BY <2>5, ChunkBounds DEF Window
    <3> QED
      BY <2>5, <3>1, <3>2, <3>3, ChunkBounds
  <2>8. \A v \in held' : Open(got', v) /\ Start < v.start
    BY <2>2, <2>3, <2>6 DEF PagingInv
  <2>9. \A v \in got' : \E x \in Window : InRange(x) /\ v = FirstChunk(x)
    BY <2>2, <2>5 DEF PagingInv
  <2>10. ASSUME NEW d \in Calls, pc'[d] = "fetching"
        PROVE  range'[d] \in Window /\ Open(got', range'[d]) /\ reply'[d] = None
    BY <2>2, <2>3, <2>10 DEF PagingInv
  <2>11. ASSUME NEW d \in Calls, pc'[d] = "replied", reply'[d] # None
         PROVE  \E v \in Window : Open(got', v) /\ reply'[d] = [window |-> FirstChunk(v), next |-> NextCursor(v)]
    BY <2>2, <2>3, <2>11 DEF PagingInv
  <2>12. finished' => Read(got', End)
    BY <2>2, <2>3, <2>7 DEF PagingInv
  <2> QED
    BY <2>8, <2>9, <2>10, <2>11, <2>12 DEF PagingInv
<1>7. ASSUME NEW c \in Calls, Drop(c) PROVE PagingInv'
  BY <1>7 DEF Drop, PagingInv
<1> QED
  BY <1>1, <1>2, <1>3, <1>4, <1>5, <1>6, <1>7 DEF Next, Step

(* The invariant holds initially.                                          *)
LEMMA PagingInit == Init => TypeOK /\ PagingInv
  BY DEF Init, TypeOK, PagingInv

(* The inductive invariant of paging.                                      *)
THEOREM Paging == Spec => [](TypeOK /\ PagingInv)
  BY PagingInit, PagingStep, TypeStep, PTL DEF Spec

-----------------------------------------------------------------------------
(* No gaps: whatever cursor a client holds, it has received the logs of    *)
(* all the range before it, however calls fail, repeat or overtake.        *)
THEOREM Contiguous == Spec => []NoGap
<1>1. PagingInv => NoGap
  BY DEF PagingInv, NoGap, Open, InRange
<1> QED
  BY <1>1, Paging, PTL

(* A reply without nextCursor is never early.                              *)
THEOREM DoneIsComplete == Spec => []FinishedComplete
<1>1. PagingInv => FinishedComplete
  BY DEF PagingInv, FinishedComplete
<1> QED
  BY <1>1, Paging, PTL

(* Received chunks are at most Chunk long and disjoint, or the same chunk. *)
THEOREM Disjoint == Spec => []NoOverlap
<1>1. TypeOK /\ PagingInv => NoOverlap
  <2>1. SUFFICES ASSUME TypeOK, PagingInv PROVE NoOverlap
    OBVIOUS
  <2>2. ASSUME NEW v \in got
        PROVE  /\ v.start \in Nat /\ v.end \in Nat /\ OnGrid(v.start)
               /\ v.start < v.end /\ v.end <= v.start + Chunk
               /\ v = FirstChunk([start |-> v.start, end |-> End])
    <3>1. PICK w \in Window : InRange(w) /\ v = FirstChunk(w)
      BY <2>1 DEF PagingInv
    <3>2. v.start = w.start /\ v.end = ChunkEnd(w) /\ w = [start |-> v.start, end |-> End]
      BY <3>1 DEF FirstChunk, InRange, Window
    <3>3. ChunkEnd(w) \in Nat /\ w.start < ChunkEnd(w) /\ ChunkEnd(w) <= w.start + Chunk
      BY <3>1, ChunkBounds DEF InRange, Window
    <3> QED
      BY <3>1, <3>2, <3>3 DEF InRange, Window
  <2>3. ASSUME NEW v \in got, NEW w \in got
        PROVE  w = v \/ w.end <= v.start \/ v.end <= w.start
    <3>1. /\ v.start \in Nat /\ v.end \in Nat /\ OnGrid(v.start) /\ v.end <= v.start + Chunk
          /\ v = FirstChunk([start |-> v.start, end |-> End])
      BY <2>2
    <3>2. /\ w.start \in Nat /\ w.end \in Nat /\ OnGrid(w.start) /\ w.end <= w.start + Chunk
          /\ w = FirstChunk([start |-> w.start, end |-> End])
      BY <2>2
    <3>3. CASE v.start = w.start
      BY <3>1, <3>2, <3>3, Zenon
    <3>4. CASE v.start < w.start
      <4>1. v.start + Chunk <= w.start
        BY <3>1, <3>2, <3>4, GridSpacing
      <4> QED
        BY <3>1, <3>2, <4>1
    <3>5. CASE w.start < v.start
      <4>1. w.start + Chunk <= v.start
        BY <3>1, <3>2, <3>5, GridSpacing
      <4> QED
        BY <3>1, <3>2, <4>1
    <3> QED
      BY <3>1, <3>2, <3>3, <3>4, <3>5
  <2> QED
    BY <2>2, <2>3 DEF NoOverlap
<1> QED
  BY <1>1, Paging, PTL

(* The server never refuses a cursor it has issued: none is empty, and     *)
(* none is at Go's zero time.                                              *)
THEOREM CursorsUsable == Spec => []CursorsAccepted
<1>1. TypeOK /\ PagingInv => CursorsAccepted
  <2>1. SUFFICES ASSUME TypeOK, PagingInv, NEW c \in held
                 PROVE  networkFlowLogRange(Args(c, None, None)) = c
    BY DEF CursorsAccepted
  <2>2. c \in Window /\ Start < c.start /\ c.start < c.end
    BY <2>1 DEF TypeOK, PagingInv, Open, InRange
  <2>3. c # None
    BY <2>2 DEF Window
  <2>4. DecodeCursor(c) = c
    BY <2>2 DEF DecodeCursor, Window
  <2> QED
    BY <2>3, <2>4 DEF networkFlowLogRange, Args
<1> QED
  BY <1>1, Paging, PTL

(* Type correctness.                                                       *)
THEOREM TypeCorrect == Spec => []TypeOK
  BY Paging, PTL

-----------------------------------------------------------------------------
(* Refinement of ChronologicalRead.  The mark is the latest end received;  *)
(* a window that has been received reaches End exactly if the client has   *)
(* been told so.                                                           *)
MarkInv ==
  /\ got # {} => \E t \in {w.end : w \in got} : \A w \in got : w.end <= t
  /\ finished <=> \E w \in got : w.end = End

UptoInv ==
  /\ Upto \in Nat /\ Start <= Upto /\ Upto <= End
  /\ \A w \in got : w.end <= Upto
  /\ got # {} => \E w \in got : w.end = Upto
  /\ got = {} => Upto = Start
  /\ finished <=> Upto = End

LEMMA ReceivedBounds ==
  ASSUME TypeOK, PagingInv, NEW w \in got
  PROVE  w.start \in Nat /\ w.end \in Nat /\ Start <= w.start /\ w.start < w.end /\ w.end <= End
<1>1. PICK x \in Window : InRange(x) /\ w = FirstChunk(x)
  BY DEF PagingInv
<1>2. x.start \in Nat /\ x.end = End /\ x.start < x.end /\ w.start = x.start /\ w.end = ChunkEnd(x)
  BY <1>1 DEF InRange, Window, FirstChunk
<1>3. Start <= x.start
  BY <1>1, <1>2, GridStep DEF InRange
<1> QED
  BY <1>2, <1>3, ChunkBounds

LEMMA MarkIsUpto == TypeOK /\ PagingInv /\ MarkInv => UptoInv
<1> SUFFICES ASSUME TypeOK, PagingInv, MarkInv PROVE UptoInv
  OBVIOUS
<1>1. CASE got = {}
  BY <1>1 DEF Upto, UptoInv, MarkInv
<1>2. CASE got # {}
  <2>1. Upto \in {w.end : w \in got} /\ \A w \in got : w.end <= Upto
    BY <1>2 DEF Upto, MarkInv
  <2>2. PICK v \in got : v.end = Upto
    BY <2>1
  <2>3. Upto \in Nat /\ Start <= Upto /\ Upto <= End
    BY <2>2, ReceivedBounds
  <2>4. (\E w \in got : w.end = End) <=> Upto = End
    <3>1. ASSUME NEW w \in got, w.end = End PROVE Upto = End
      BY <2>1, <2>3, <3>1
    <3> QED
      BY <2>2, <3>1
  <2> QED
    BY <1>2, <2>1, <2>2, <2>3, <2>4 DEF UptoInv, MarkInv
<1> QED
  BY <1>1, <1>2

(* What Receive takes in is the first chunk of an open window.             *)
LEMMA Received ==
  ASSUME TypeOK, PagingInv, NEW c \in Calls, Receive(c)
  PROVE  \E w \in Window :
           /\ Open(got, w) /\ got' = got \cup {FirstChunk(w)}
           /\ finished' <=> (finished \/ FirstChunk(w).end = End)
           /\ FirstChunk(w).end \in Nat /\ w.start < FirstChunk(w).end
           /\ FirstChunk(w).end = IF w.start + Chunk < End THEN w.start + Chunk ELSE End
<1>1. PICK w \in Window : Open(got, w) /\ reply[c] = [window |-> FirstChunk(w), next |-> NextCursor(w)]
  BY DEF Receive, PagingInv
<1>2. got' = got \cup {FirstChunk(w)} /\ (finished' <=> (finished \/ NextCursor(w) = None))
  <2>1. reply[c].window = FirstChunk(w) /\ reply[c].next = NextCursor(w)
    BY <1>1
  <2>2. got' = got \cup {reply[c].window} /\ finished' = (finished \/ reply[c].next = None)
    BY DEF Receive
  <2> QED
    BY <2>1, <2>2
<1>3. w.start < w.end /\ w.end = End /\ FirstChunk(w).end = ChunkEnd(w)
  BY <1>1 DEF Open, InRange, FirstChunk
<1>4. NextCursor(w) = None <=> ChunkEnd(w) = End
  <2>1. None # [start |-> ChunkEnd(w), end |-> w.end]
    BY <1>3, ChunkBounds DEF Window
  <2> QED
    BY <1>3, <2>1, ChunkBounds
<1>5. ChunkEnd(w) = IF w.start + Chunk < End THEN w.start + Chunk ELSE End
  BY <1>3 DEF ChunkEnd, Window
<1> QED
  BY <1>1, <1>2, <1>3, <1>4, <1>5, ChunkBounds

(* Short of End, the mark is on the grid of chunks.                        *)
LEMMA MarkOnGrid ==
  ASSUME TypeOK, PagingInv, UptoInv, Upto < End
  PROVE  OnGrid(Upto)
<1>1. CASE got = {}
  <2>1. Upto = Start + 0 * Chunk
    BY <1>1 DEF UptoInv
  <2> QED
    BY <2>1 DEF OnGrid
<1>2. CASE got # {}
  <2>1. PICK v \in got : v.end = Upto
    BY <1>2 DEF UptoInv
  <2>2. PICK x \in Window : InRange(x) /\ v = FirstChunk(x)
    BY <2>1 DEF PagingInv
  <2>3. /\ x.start \in Nat /\ x.end = End /\ x.start < x.end /\ OnGrid(x.start)
        /\ Upto = ChunkEnd(x)
    BY <2>1, <2>2 DEF InRange, Window, FirstChunk
  <2>4. Upto = x.start + Chunk
    BY <2>3, ChunkBounds
  <2> QED
    BY <2>3, <2>4, GridStep
<1> QED
  BY <1>1, <1>2

LEMMA MarkStep == TypeOK /\ PagingInv /\ MarkInv /\ [Next]_vars => MarkInv'
<1> SUFFICES ASSUME TypeOK, PagingInv, MarkInv, [Next]_vars PROVE MarkInv'
  OBVIOUS
<1>1. CASE UNCHANGED <<got, finished>>
  BY <1>1 DEF MarkInv
<1>2. ASSUME NEW c \in Calls, Receive(c) PROVE MarkInv'
  <2>1. PICK w \in Window :
          /\ got' = got \cup {FirstChunk(w)}
          /\ finished' <=> (finished \/ FirstChunk(w).end = End)
          /\ FirstChunk(w).end \in Nat
    BY <1>2, Received
  <2> DEFINE v == FirstChunk(w)
  <2>2. \E t \in {x.end : x \in got'} : \A x \in got' : x.end <= t
    <3> HIDE DEF v
    <3>1. CASE got = {}
      BY <2>1, <3>1 DEF v
    <3>2. CASE got # {}
      <4>1. PICK t \in {x.end : x \in got} : \A x \in got : x.end <= t
        BY <3>2 DEF MarkInv
      <4>2. t \in Nat /\ v.end \in Nat /\ \A x \in got : x.end \in Nat
        BY <2>1, <4>1, ReceivedBounds DEF v
      <4>3. CASE v.end <= t
        BY <2>1, <4>1, <4>2, <4>3 DEF v
      <4>4. CASE t < v.end
        <5>1. v \in got' /\ \A x \in got' : x.end <= v.end
          BY <2>1, <4>1, <4>2, <4>4 DEF v
        <5> QED
          BY <5>1
      <4> QED
        BY <4>2, <4>3, <4>4
    <3> QED
      BY <3>1, <3>2
  <2>3. finished' <=> \E x \in got' : x.end = End
    BY <2>1 DEF MarkInv
  <2> QED
    BY <2>2, <2>3 DEF MarkInv
<1>3. (\E c \in Calls : Receive(c)) \/ UNCHANGED <<got, finished>>
  BY DEF Next, Step, vars, Send, Handle, Succeed, Fail, Drop
<1> QED
  BY <1>1, <1>2, <1>3

(* A reply moves the mark on by a chunk, or repeats what is there: the     *)
(* window beyond the mark can only be the one that starts there.           *)
LEMMA AdvanceStep ==
  ASSUME TypeOK, PagingInv, UptoInv, UptoInv', finished' \in BOOLEAN, [Next]_vars
  PROVE  [CR!Advance]_<<Upto, finished>>
<1>1. CASE UNCHANGED <<got, finished>>
  BY <1>1 DEF Upto
<1>2. ASSUME NEW c \in Calls, Receive(c) PROVE [CR!Advance]_<<Upto, finished>>
  <2>1. PICK w \in Window :
           /\ Open(got, w) /\ got' = got \cup {FirstChunk(w)}
           /\ finished' <=> (finished \/ FirstChunk(w).end = End)
           /\ FirstChunk(w).end \in Nat /\ w.start < FirstChunk(w).end
           /\ FirstChunk(w).end = IF w.start + Chunk < End THEN w.start + Chunk ELSE End
    BY <1>2, Received
  <2> DEFINE last == FirstChunk(w).end
  <2>2. w.start \in Nat /\ Start <= w.start /\ w.start <= Upto
    <3>1. w.start \in Nat /\ Start <= w.start
      BY <2>1, GridStep DEF Open, InRange, Window
    <3>2. CASE w.start = Start
      BY <3>1, <3>2 DEF UptoInv
    <3>3. CASE Start < w.start
      <4>1. w.start - 1 \in Start..(w.start - 1)
        BY <3>1, <3>3
      <4>2. PICK x \in got : x.start <= w.start - 1 /\ w.start - 1 < x.end
        BY <2>1, <4>1 DEF Open, Read
      <4>3. x.end \in Nat /\ x.end <= Upto /\ Upto \in Nat
        BY ReceivedBounds DEF UptoInv
      <4> QED
        BY <3>1, <4>2, <4>3
    <3> QED
      BY <3>1, <3>2, <3>3
  <2>3. Upto \in Nat /\ Upto' \in Nat /\ last \in Nat /\ last <= Upto'
    BY <2>1 DEF UptoInv
  <2>4. \E x \in got' : x.end = Upto'
    BY <2>1 DEF UptoInv
  <2>5. CASE last <= Upto
    <3>1. got # {} /\ \E x \in got : x.end = Upto
      <4>1. ~(Upto = Start)
        BY <2>1, <2>2, <2>3, <2>5
      <4> QED
        BY <4>1 DEF UptoInv
    <3>2. Upto <= Upto'
      BY <2>1, <3>1 DEF UptoInv
    <3>3. Upto' <= Upto
      BY <2>1, <2>4, <2>5 DEF UptoInv
    <3>4. Upto' = Upto
      BY <2>3, <3>2, <3>3
    <3>5. finished' = finished
      BY <3>4 DEF UptoInv, TypeOK
    <3> QED
      BY <3>4, <3>5
  <2>6. CASE Upto < last
    <3>1. Upto' = last
      <4>1. \A x \in got' : x.end <= last
        <5>1. \A x \in got : x.end \in Nat /\ x.end <= Upto
          BY ReceivedBounds DEF UptoInv
        <5> QED
          BY <2>1, <2>3, <2>6, <5>1
      <4> QED
        BY <2>3, <2>4, <4>1
    <3>2. Upto < End /\ Upto' = IF Upto + Chunk < End THEN Upto + Chunk ELSE End
      <4>1. last <= End /\ last <= w.start + Chunk
        BY <2>1, <2>2, <2>3
      <4>2. Upto < End
        BY <2>3, <2>6, <4>1
      <4>3. OnGrid(w.start) /\ OnGrid(Upto)
        BY <2>1, <4>2, MarkOnGrid DEF Open, InRange
      <4>4. w.start = Upto
        <5>1. ASSUME w.start < Upto PROVE FALSE
          <6>1. w.start + Chunk <= Upto
            BY <2>2, <2>3, <4>3, <5>1, GridSpacing
          <6> QED
            BY <2>2, <2>3, <2>6, <4>1, <6>1
        <5> QED
          BY <2>2, <2>3, <5>1
      <4> QED
        BY <2>1, <3>1, <4>2, <4>4
    <3>3. finished' = (Upto' = End)
      BY DEF UptoInv
    <3> QED
      BY <3>2, <3>3 DEF CR!Advance
  <2> QED
    BY <2>3, <2>5, <2>6
<1>3. (\E c \in Calls : Receive(c)) \/ UNCHANGED <<got, finished>>
  BY DEF Next, Step, vars, Send, Handle, Succeed, Fail, Drop
<1> QED
  BY <1>1, <1>2, <1>3

(* Seen from the client, paging is a chronological read: what it has moves *)
(* on a whole chunk at a time, and it is told it is done exactly at End.   *)
THEOREM Chronological == Spec => ImplementsChronologicalRead
<1>1. Init => MarkInv /\ CR!Init
  BY DEF Init, MarkInv, CR!Init, Upto
<1>2. TypeOK' => finished' \in BOOLEAN
  BY DEF TypeOK
<1> QED
  BY <1>1, <1>2, MarkStep, MarkIsUpto, AdvanceStep, Paging, PTL
  DEF Spec, ImplementsChronologicalRead, CR!Spec
=============================================================================
