--------------------------- MODULE CoverageProofs ---------------------------
(***************************************************************************)
(* The snapshot: whatever upstream serves, wherever a refresh is stopped   *)
(* and whatever mcpcoverage does meanwhile, metadata that do not describe  *)
(* the schema are the trace of a stopped refresh.  The report: whatever    *)
(* the schema, the mappings and the exclusions, the files of a finished    *)
(* run are those of one report, which is complete and adds up.             *)
(***************************************************************************)
EXTENDS Coverage, FiniteSetTheorems, WellFoundedInduction, TLAPS

(* SnapshotFits does not say what a running refresh is about to write: it  *)
(* has checked what it fetched, and when it comes to the schema it has     *)
(* written the metadata of just that.                                      *)
IsSchema(s) == s.version /\ s.ops # {}

SnapshotInv ==
  /\ refresh \in {"idle", "metadata", "schema"}
  /\ refresh # "idle" => IsSchema(fetched)
  /\ refresh = "schema" => metadata = fetched
  /\ refresh = "idle" /\ ~torn => metadata = schema /\ IsSchema(schema)

LEMMA SnapshotInit == Init => SnapshotInv
BY DEF Init, SnapshotInv, IsSchema

LEMMA SnapshotStep == SnapshotInv /\ [Next]_vars => SnapshotInv'
<1> SUFFICES ASSUME SnapshotInv, [Next]_vars PROVE SnapshotInv'
  OBVIOUS
<1> USE DEF SnapshotInv, IsSchema, snapshot
<1>1. CASE Fetch
  BY <1>1 DEF Fetch, Acceptable
<1>2. CASE BeginWrite
  BY <1>2 DEF BeginWrite, refresher
<1>3. CASE WriteMetadata
  BY <1>3 DEF WriteMetadata
<1>4. CASE WriteSchema
  BY <1>4 DEF WriteSchema
<1>5. CASE StopRefresh
  BY <1>5 DEF StopRefresh
<1>6. CASE Generate \/ Accept
  <2>1. UNCHANGED <<snapshot, refresher>>
    BY <1>6 DEF Generate, Accept, Load, WriteJSON, WriteMarkdown, WriteBacklog, WriteDiff, StopReport
  <2> QED
    BY <2>1 DEF refresher
<1>7. CASE UNCHANGED vars
  BY <1>7 DEF vars, refresher
<1> QED
  BY <1>1, <1>2, <1>3, <1>4, <1>5, <1>6, <1>7 DEF Next, Refresh

(* Unless a refresh was stopped and none has finished since, the metadata  *)
(* describe the schema beside them (openapirefresh).                       *)
THEOREM SnapshotConsistent == Spec => []SnapshotFits
<1>1. SnapshotInv => SnapshotFits
  BY DEF SnapshotInv, SnapshotFits, IsSchema
<1> QED
  BY <1>1, SnapshotInit, SnapshotStep, PTL DEF Spec

-----------------------------------------------------------------------------
(* What a report says of the operations it is made of.                     *)

(* A nonempty set of positions of a sequence has a last one.               *)
LEMMA LastPosition ==
  ASSUME NEW n \in Nat, NEW S \in SUBSET (1..n), S # {}
  PROVE  \E i \in S : \A j \in S : j <= i
<1> DEFINE FromEnd == {n - i : i \in S}
<1>1. FromEnd \subseteq Nat /\ FromEnd # {}
  <2>1. \A i \in S : i \in 1..n /\ n - i \in Nat
    OBVIOUS
  <2> QED
    BY <2>1
<1> DEFINE Less == {pair \in Nat \X Nat : pair[1] < pair[2]}
<1>2. IsWellFoundedOn(Less, Nat)
  BY NatLessThanWellFounded DEF OpToRel
<1> HIDE DEF Less
<1>3. PICK x \in FromEnd : \A y \in FromEnd : ~(<<y, x>> \in Less)
  BY <1>1, <1>2, WFMin
<1>4. \A y \in FromEnd : ~(y < x)
  BY <1>1, <1>3 DEF Less
<1>5. PICK i \in S : x = n - i
  OBVIOUS
<1>6. \A j \in S : j <= i
  <2> SUFFICES ASSUME NEW j \in S PROVE j <= i
    OBVIOUS
  <2>1. n - j \in FromEnd
    OBVIOUS
  <2> QED
    BY <2>1, <1>4, <1>5
<1> QED
  BY <1>6

(* CurrentMappings gives a mapped operation a type and an item.            *)
LEMMA MappingType ==
  ASSUME NEW ms \in Mappings, NEW id \in Mapped(ms)
  PROVE  MappingOf(ms, id).type \in {"tool", "resource"} /\ MappingOf(ms, id).item \in Items
<1> DEFINE M == [id : Ids, type : {"tool", "resource"}, item : Items]
           S == {i \in DOMAIN ms : ms[i].id = id}
<1>1. ms \in Seq(M)
  BY MappingAssumption
<1>2. \A m \in M : m.type \in {"tool", "resource"} /\ m.item \in Items
  OBVIOUS
<1> HIDE DEF M
<1>3. S \in SUBSET (1..Len(ms)) /\ S # {} /\ Len(ms) \in Nat
  BY <1>1 DEF Mapped
<1>4. \E i \in S : \A j \in S : j <= i
  BY <1>3, LastPosition
<1>5. \E i \in DOMAIN ms : ms[i].id = id /\ \A j \in DOMAIN ms : ms[j].id = id => j <= i
  BY <1>4
<1>6. \A i \in DOMAIN ms : ms[i] \in M
  BY <1>1
<1> QED
  BY <1>2, <1>5, <1>6 DEF MappingOf

IsInput(ops, ms, ex) ==
  ops \subseteq Operations /\ ms \in Mappings /\ ex \in LoadExclusions /\ Reportable(ops, ms, ex)

(* Each operation of the schema is in the report, with its own record.     *)
LEMMA RecordOfOperation ==
  ASSUME NEW ops, NEW ms, NEW ex, IsInput(ops, ms, ex)
  PROVE  LET r == BuildReport(ops, ms, ex)
         IN /\ DOMAIN r.records = {op.id : op \in ops}
            /\ \A op \in ops : r.records[op.id] = Record(op, ms, ex)
<1> DEFINE r == BuildReport(ops, ms, ex)
<1>1. r.records = [id \in {op.id : op \in ops} |-> Record(CHOOSE op \in ops : op.id = id, ms, ex)]
  BY DEF BuildReport
<1>2. ASSUME NEW op \in ops PROVE r.records[op.id] = Record(op, ms, ex)
  <2>1. (CHOOSE o \in ops : o.id = op.id) = op
    BY DEF IsInput, Reportable
  <2> QED
    BY <2>1, <1>1
<1> QED
  BY <1>1, <1>2

LEMMA RecordTyped ==
  ASSUME NEW ops, NEW ms, NEW ex, IsInput(ops, ms, ex), NEW op \in ops
  PROVE  /\ Record(op, ms, ex) \in Records
         /\ Record(op, ms, ex).status = "excluded" <=> Record(op, ms, ex).type = "none"
         /\ Record(op, ms, ex).status = "excluded" <=> op.id \in ex
         /\ Record(op, ms, ex).status = "implemented" <=> op.id \in Mapped(ms) \ ex
         /\ Record(op, ms, ex).status = "implemented" /\ Record(op, ms, ex).mutating =>
              Record(op, ms, ex).type = "tool"
<1>1. op \in Operations /\ op.mutating \in BOOLEAN /\ ms \in Mappings
  BY OperationAssumption DEF IsInput
<1>2. op.id \in Mapped(ms) =>
        MappingOf(ms, op.id).type \in {"tool", "resource"} /\ MappingOf(ms, op.id).item \in Items
  BY <1>1, MappingType
<1>3. ClassifyDefault(op) \in {"tool", "resource"}
  BY DEF ClassifyDefault
<1>4. op.id \in Mapped(ms) \ ex => ~(op.mutating /\ MappingOf(ms, op.id).type = "resource")
  BY DEF IsInput, Reportable, ValidateMapping
<1>5. CASE op.id \in ex
  BY <1>1, <1>5 DEF Record, Records, Implemented, Unmapped
<1>6. CASE op.id \in Mapped(ms) \ ex
  BY <1>1, <1>2, <1>4, <1>6 DEF Record, Records, Implemented, Unmapped
<1>7. CASE op.id \notin Mapped(ms) \cup ex
  BY <1>1, <1>3, <1>7 DEF Record, Records, Implemented, Unmapped
<1> QED
  BY <1>5, <1>6, <1>7

(* The totals: each operation counts once, and each gap has its own ID.    *)
LEMMA Totals ==
  ASSUME NEW ops, NEW ms, NEW ex, IsInput(ops, ms, ex), IsFiniteSet(Operations)
  PROVE  LET r == BuildReport(ops, ms, ex)
         IN /\ r.total = Cardinality(ops)
            /\ r.implemented + r.gaps + r.excluded = r.total
            /\ r.gaps = Cardinality(Gaps(r))
<1> DEFINE r == BuildReport(ops, ms, ex)
           With(st) == {op \in ops : Record(op, ms, ex).status = st}
<1>1. /\ r.total = Cardinality(ops) /\ r.implemented = Cardinality(With("implemented"))
      /\ r.gaps = Cardinality(With("gap")) /\ r.excluded = Cardinality(With("excluded"))
  BY DEF BuildReport
<1>2. IsFiniteSet(ops)
  BY FS_Subset DEF IsInput
<1>3. \A st : IsFiniteSet(With(st)) /\ Cardinality(With(st)) \in Nat
  <2> SUFFICES ASSUME NEW st PROVE IsFiniteSet(With(st)) /\ Cardinality(With(st)) \in Nat
    OBVIOUS
  <2>1. With(st) \in SUBSET ops
    OBVIOUS
  <2>2. IsFiniteSet(With(st))
    BY <1>2, <2>1, FS_Subset
  <2> QED
    BY <2>2, FS_CardinalityType
<1>4. ops = With("implemented") \cup (With("gap") \cup With("excluded"))
  BY RecordTyped DEF Records
<1>5. /\ With("gap") \cap With("excluded") = {}
      /\ With("implemented") \cap (With("gap") \cup With("excluded")) = {}
  OBVIOUS
<1> HIDE DEF With
<1>6. /\ IsFiniteSet(With("gap") \cup With("excluded"))
      /\ Cardinality(With("gap") \cup With("excluded"))
           = Cardinality(With("gap")) + Cardinality(With("excluded"))
  BY <1>3, <1>5, FS_Union, FS_EmptySet
<1>7. Cardinality(ops) = Cardinality(With("implemented")) + Cardinality(With("gap")) + Cardinality(With("excluded"))
  <2>1. Cardinality(With("implemented") \cup (With("gap") \cup With("excluded")))
          = Cardinality(With("implemented")) + Cardinality(With("gap") \cup With("excluded"))
    BY <1>3, <1>5, <1>6, FS_Union, FS_EmptySet
  <2> QED
    BY <1>3, <1>4, <1>6, <2>1
<1>8. Cardinality(Gaps(r)) = Cardinality(With("gap"))
  <2> DEFINE f == [op \in With("gap") |-> op.id]
  <2>1. DOMAIN r.records = {op.id : op \in ops} /\ \A op \in ops : r.records[op.id] = Record(op, ms, ex)
    BY RecordOfOperation
  <2> HIDE DEF r
  <2>2. Gaps(r) = {op.id : op \in With("gap")}
    BY <2>1 DEF Gaps, With
  <2>3. \A o, p \in With("gap") : o.id = p.id => o = p
    BY DEF IsInput, Reportable, With
  <2>4. f \in Bijection(With("gap"), Gaps(r))
    BY <2>2, <2>3 DEF Bijection, Injection, Surjection, IsInjective
  <2>5. ExistsBijection(With("gap"), Gaps(r))
    BY <2>4 DEF ExistsBijection
  <2> QED
    BY <2>5, <1>3, FS_Bijection
<1> QED
  BY <1>1, <1>3, <1>7, <1>8

-----------------------------------------------------------------------------
(* The files.                                                              *)

IsReport(r) ==
  /\ DOMAIN r.records \subseteq Ids
  /\ \A id \in DOMAIN r.records :
       /\ r.records[id] \in Records
       /\ r.records[id].status = "excluded" <=> r.records[id].type = "none"

LEMMA BuiltTyped ==
  ASSUME NEW ops, NEW ms, NEW ex, IsInput(ops, ms, ex)
  PROVE  IsReport(BuildReport(ops, ms, ex))
<1> DEFINE r == BuildReport(ops, ms, ex)
<1>1. DOMAIN r.records = {op.id : op \in ops} /\ \A op \in ops : r.records[op.id] = Record(op, ms, ex)
  BY RecordOfOperation
<1> HIDE DEF r
<1>2. \A op \in ops : Record(op, ms, ex) \in Records
                   /\ (Record(op, ms, ex).status = "excluded" <=> Record(op, ms, ex).type = "none")
  BY RecordTyped
<1>3. \A op \in ops : op.id \in Ids
  BY DEF IsInput, Ids
<1>4. IsReport(r)
  BY <1>1, <1>2, <1>3 DEF IsReport
<1> QED
  BY <1>4 DEF r

(* The schema stays one of operations, whatever is written of it.          *)
SchemaInv ==
  /\ schema.ops \subseteq Operations /\ schema.version \in BOOLEAN
  /\ refresh \in {"idle", "metadata", "schema"}
  /\ refresh # "idle" => fetched \in Schemas
  /\ runs \in 0..MaxRuns

(* ReportSound and TypeOK speak of the files; what is about to be written  *)
(* is the report of the inputs, and so are the files up to the next.       *)
MadeOf(r, in) ==
  /\ in = [ops |-> in.ops, mappings |-> in.mappings, exclusions |-> in.exclusions, baseline |-> in.baseline]
  /\ IsInput(in.ops, in.mappings, in.exclusions)
  /\ r = BuildReport(in.ops, in.mappings, in.exclusions)

FileInv ==
  /\ generate \in {"idle", "json", "markdown", "backlog", "diff"}
  /\ generate # "idle" => MadeOf(report, inputs)
  /\ generate \in {"markdown", "backlog", "diff"} => json = report
  /\ generate \in {"backlog", "diff"} => markdown = report
  /\ generate = "diff" => backlog = Gaps(report)
  /\ generate = "idle" /\ ~partial =>
       /\ MadeOf(json, inputs) /\ markdown = json /\ backlog = Gaps(json)
       /\ inputs.baseline # None => diff = Difference(inputs.baseline, json)

LEMMA SchemaInvHolds == Spec => []SchemaInv
<1>1. Init => SchemaInv
  BY OperationAssumption, MappingAssumption DEF Init, SchemaInv
<1>2. SchemaInv /\ [Next]_vars => SchemaInv'
  <2> SUFFICES ASSUME SchemaInv, [Next]_vars PROVE SchemaInv'
    OBVIOUS
  <2>1. runs' \in 0..MaxRuns
    <3>1. runs' = runs \/ (runs < MaxRuns /\ runs' = runs + 1)
      BY DEF Next, vars, Refresh, Generate, Accept, Fetch, BeginWrite, WriteMetadata, WriteSchema,
             StopRefresh, Load, WriteJSON, WriteMarkdown, WriteBacklog, WriteDiff, StopReport, Run
    <3> QED
      BY <3>1, MappingAssumption DEF SchemaInv
  <2> DEFINE Rest == /\ schema'.ops \subseteq Operations /\ schema'.version \in BOOLEAN
                     /\ refresh' \in {"idle", "metadata", "schema"}
                     /\ refresh' # "idle" => fetched' \in Schemas
  <2>2. CASE Fetch
    BY <2>1, <2>2 DEF SchemaInv, Fetch, snapshot
  <2>3. CASE BeginWrite
    <3>1. \A s \in Schemas : \A part \in Parts(s) : part.ops \subseteq s.ops /\ part.version \in BOOLEAN
      <4> SUFFICES ASSUME NEW s \in Schemas, NEW ops \in SUBSET s.ops
                   PROVE  LET part == [version |-> s.version /\ ops # {}, ops |-> ops]
                          IN part.ops \subseteq s.ops /\ part.version \in BOOLEAN
        BY DEF Parts
      <4>1. (s.version /\ ops # {}) \in BOOLEAN
        OBVIOUS
      <4> QED
        BY <4>1
    <3> QED
      BY <2>1, <2>3, <3>1, OperationAssumption DEF SchemaInv, BeginWrite, refresher
  <2>4. CASE WriteMetadata
    BY <2>1, <2>4 DEF SchemaInv, WriteMetadata
  <2>5. CASE WriteSchema
    BY <2>1, <2>5, OperationAssumption DEF SchemaInv, WriteSchema
  <2>6. CASE StopRefresh
    BY <2>1, <2>6 DEF SchemaInv, StopRefresh, snapshot
  <2>7. CASE Generate \/ Accept \/ UNCHANGED vars
    <3>1. UNCHANGED <<snapshot, refresher>>
      BY <2>7 DEF Generate, Accept, Load, WriteJSON, WriteMarkdown, WriteBacklog, WriteDiff, StopReport, vars
    <3> QED
      BY <2>1, <3>1 DEF SchemaInv, snapshot, refresher
  <2> QED
    BY <2>2, <2>3, <2>4, <2>5, <2>6, <2>7 DEF Next, Refresh
<1> QED
  BY <1>1, <1>2, PTL DEF Spec

LEMMA FileInit == Init => FileInv
BY DEF Init, FileInv

LEMMA FileStep == SchemaInv /\ FileInv /\ [Next]_vars => FileInv'
<1> SUFFICES ASSUME SchemaInv, FileInv, [Next]_vars PROVE FileInv'
  OBVIOUS
<1>1. CASE Load
  <2>1. CASE UNCHANGED <<report, generate, inputs>>
    BY <1>1, <2>1 DEF Load, FileInv, MadeOf, artifacts
  <2>2. CASE ~UNCHANGED <<report, generate, inputs>>
    <3>1. PICK ms \in Mappings, ex \in LoadExclusions :
            /\ Reportable(schema.ops, ms, ex)
            /\ report' = BuildReport(schema.ops, ms, ex)
            /\ generate' = "json"
            /\ inputs' = [ops |-> schema.ops, mappings |-> ms, exclusions |-> ex, baseline |-> None]
      BY <1>1, <2>2 DEF Load, LoadOpenAPI
    <3>2. IsInput(schema.ops, ms, ex)
      BY <3>1 DEF IsInput, SchemaInv
    <3>3. MadeOf(report', inputs')
      BY <3>1, <3>2 DEF MadeOf
    <3> QED
      BY <3>1, <3>3 DEF FileInv, MadeOf
  <2> QED
    BY <2>1, <2>2
<1>2. CASE WriteJSON
  BY <1>2 DEF WriteJSON, FileInv, MadeOf
<1>3. CASE WriteMarkdown
  BY <1>3 DEF WriteMarkdown, FileInv, MadeOf
<1>4. CASE WriteBacklog
  BY <1>4 DEF WriteBacklog, FileInv, MadeOf
<1>5. CASE WriteDiff
  <2>1. MadeOf(report, inputs) /\ json = report /\ markdown = report /\ backlog = Gaps(report)
    BY <1>5 DEF WriteDiff, FileInv
  <2>2. inputs' = [ops |-> inputs.ops, mappings |-> inputs.mappings,
                   exclusions |-> inputs.exclusions, baseline |-> baseline]
    BY <1>5, <2>1 DEF WriteDiff, MadeOf
  <2>3. MadeOf(json', inputs')
    BY <1>5, <2>1, <2>2 DEF WriteDiff, MadeOf
  <2>4. inputs'.baseline # None => diff' = Difference(inputs'.baseline, json')
    BY <1>5, <2>1, <2>2 DEF WriteDiff
  <2> QED
    BY <1>5, <2>1, <2>3, <2>4 DEF WriteDiff, FileInv
<1>6. CASE StopReport
  BY <1>6 DEF StopReport, FileInv
<1>7. CASE Refresh \/ Accept \/ UNCHANGED vars
  <2>1. UNCHANGED <<artifacts, generator>>
    BY <1>7 DEF Refresh, Fetch, BeginWrite, WriteMetadata, WriteSchema, StopRefresh, Accept, vars
  <2> QED
    BY <2>1 DEF FileInv, MadeOf, artifacts, generator
<1> QED
  BY <1>1, <1>2, <1>3, <1>4, <1>5, <1>6, <1>7 DEF Next, Generate

(* What a finished run says, from the files it wrote.                      *)
LEMMA FilesSound ==
  ASSUME FileInv, IsFiniteSet(Operations) PROVE ReportSound
<1> SUFFICES ASSUME generate = "idle", ~partial
             PROVE  ReportSound
  BY DEF ReportSound
<1> DEFINE ops == inputs.ops  ms == inputs.mappings  ex == inputs.exclusions
           records == json.records
           With(st) == {id \in DOMAIN records : records[id].status = st}
<1>1. /\ IsInput(ops, ms, ex) /\ json = BuildReport(ops, ms, ex)
      /\ markdown = json /\ backlog = Gaps(json)
      /\ inputs.baseline # None => diff = Difference(inputs.baseline, json)
  BY DEF FileInv, MadeOf
<1>2. DOMAIN records = {op.id : op \in ops} /\ \A op \in ops : records[op.id] = Record(op, ms, ex)
  BY <1>1, RecordOfOperation
<1>3. /\ json.total = Cardinality(ops) /\ json.gaps = Cardinality(Gaps(json))
      /\ json.implemented + json.gaps + json.excluded = json.total
  BY <1>1, Totals
<1>4. \A op \in ops :
        /\ Record(op, ms, ex).status = "excluded" <=> op.id \in ex
        /\ Record(op, ms, ex).status = "implemented" <=> op.id \in Mapped(ms) \ ex
        /\ Record(op, ms, ex).status = "implemented" /\ Record(op, ms, ex).mutating =>
             Record(op, ms, ex).type = "tool"
  BY <1>1, RecordTyped
<1>5. Mapped(ms) \subseteq DOMAIN records
  BY <1>1, <1>2 DEF IsInput, Reportable
<1> HIDE DEF ops, ms, ex
<1>6. With("gap") = backlog /\ backlog = Gaps(json)
  BY <1>1 DEF Gaps
<1>7. With("excluded") = ex \cap DOMAIN records
  BY <1>2, <1>4
<1>8. With("implemented") = Mapped(ms) \ ex
  BY <1>2, <1>4, <1>5
<1>9. \A id \in With("implemented") : records[id].mutating => records[id].type = "tool"
  BY <1>2, <1>4
<1>10. ASSUME inputs.baseline # None
       PROVE  LET old == inputs.baseline
              IN /\ With("gap") = ((Gaps(old) \cap DOMAIN records) \ diff.closed) \cup diff.new
                 /\ diff.new \cap Gaps(old) = {} /\ diff.closed \subseteq Gaps(old)
                 /\ \A id \in (DOMAIN old.records \cap DOMAIN records)
                           \ (diff.new \cup diff.closed \cup diff.changed) :
                      /\ id \in Gaps(old) <=> id \in backlog
                      /\ records[id].type = old.records[id].type
                      /\ records[id].item = old.records[id].item
  <2> DEFINE old == inputs.baseline
  <2>1. diff.new = Gaps(json) \ Gaps(old)
        /\ diff.closed = Gaps(old) \cap (DOMAIN records \ Gaps(json))
    BY <1>1, <1>10 DEF Difference
  <2>3. diff.changed = {id \in DOMAIN old.records \cap DOMAIN records :
                          \/ old.records[id].type # records[id].type
                          \/ old.records[id].item # records[id].item}
    BY <1>1, <1>10 DEF Difference, Changed
  <2>2. Gaps(json) \subseteq DOMAIN records
    BY DEF Gaps
  <2> HIDE DEF old
  <2> QED
    BY <1>6, <2>1, <2>2, <2>3 DEF old
<1> QED
  BY <1>1, <1>2, <1>3, <1>5, <1>6, <1>7, <1>8, <1>9, <1>10 DEF ReportSound, ops, ms, ex

(* The files of a finished run are those of one report, which has every    *)
(* operation of the schema once with the status its inputs give it, adds   *)
(* up, and differs from the baseline as the diff says (mcpcoverage).       *)
THEOREM ReportsSound == IsFiniteSet(Operations) => (Spec => []ReportSound)
<1> SUFFICES ASSUME IsFiniteSet(Operations) PROVE Spec => []ReportSound
  OBVIOUS
<1>1. FileInv => ReportSound
  BY FilesSound
<1> QED
  BY <1>1, FileInit, FileStep, SchemaInvHolds, PTL DEF Spec

(* What the files hold, if anything, is a report.                          *)
FilesTyped == \A r \in {json, markdown, baseline, report} \ {None} : IsReport(r)

(* Every state is well-typed: a report has only operations of the schema,  *)
(* and maps none that it excludes.                                         *)
THEOREM TypeCorrect == Spec => []TypeOK
<1>1. Init => FilesTyped
  BY DEF Init, FilesTyped
<1>2. SchemaInv /\ FileInv /\ FilesTyped /\ [Next]_vars => FilesTyped'
  <2> SUFFICES ASSUME SchemaInv, FileInv, FilesTyped, [Next]_vars PROVE FilesTyped'
    OBVIOUS
  <2>1. \/ {json', markdown', baseline', report'} \subseteq {json, markdown, baseline, report, None}
        \/ Load /\ ~UNCHANGED <<report, generate, inputs>>
    BY DEF Next, vars, Refresh, Generate, Accept, Fetch, BeginWrite, WriteMetadata, WriteSchema, StopRefresh,
           Load, WriteJSON, WriteMarkdown, WriteBacklog, WriteDiff, StopReport, artifacts, generator
  <2>2. CASE {json', markdown', baseline', report'} \subseteq {json, markdown, baseline, report, None}
    BY <2>2 DEF FilesTyped, IsReport
  <2>3. CASE Load /\ ~UNCHANGED <<report, generate, inputs>>
    <3>1. {json', markdown', baseline'} \subseteq {json, markdown, baseline}
      BY <2>3 DEF Load, artifacts
    <3>2. PICK ms \in Mappings, ex \in LoadExclusions :
            Reportable(schema.ops, ms, ex) /\ report' = BuildReport(schema.ops, ms, ex)
      BY <2>3 DEF Load, LoadOpenAPI
    <3>3. IsReport(report')
      BY <3>2, BuiltTyped DEF IsInput, SchemaInv
    <3> QED
      BY <3>1, <3>3 DEF FilesTyped, IsReport
  <2> QED
    BY <2>1, <2>2, <2>3
<1>3. SchemaInv /\ FileInv /\ FilesTyped => TypeOK
  BY DEF SchemaInv, FileInv, FilesTyped, IsReport, TypeOK
<1> QED
  BY <1>1, <1>2, <1>3, FileInit, FileStep, SchemaInvHolds, PTL DEF Spec
=============================================================================
