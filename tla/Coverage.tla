------------------------------ MODULE Coverage ------------------------------
(***************************************************************************)
(* The tools around the vendored OpenAPI schema.  openapirefresh fetches   *)
(* the schema and writes its metadata and then the schema; mcpcoverage     *)
(* reads the schema, the exclusions and the mappings in the code, and      *)
(* writes a report in four files, the last of them the difference to a     *)
(* baseline, which a developer accepts by copying the first.  Each is a    *)
(* process that can be stopped at any write, which truncates the file      *)
(* before it fills it, and nothing keeps the two from running together.    *)
(*                                                                         *)
(* A schema is the set of its operations; its other content counts only    *)
(* in so far as it is there (the version).                                 *)
(***************************************************************************)
EXTENDS Naturals, Sequences, FiniteSets

CONSTANTS
  Operations, \* the operations: [at, id, mutating, fixed]
  Schemas,    \* what upstream may serve: [version : BOOLEAN, ops]
  Items,      \* MCP names and resource URIs, a mapping's two as one
  Mappings,   \* what CurrentMappings may return: sequences of [id, type, item]
  Exclusions, \* the sets of IDs exclusions.yaml may list
  MaxRuns,    \* bound on runs of the tools
  None        \* a file that does not exist

\* at is the method and path; a path without parameters is fixed.
ASSUME OperationAssumption ==
  /\ \A op \in Operations :
       /\ DOMAIN op = {"at", "id", "mutating", "fixed"}
       /\ op.mutating \in BOOLEAN /\ op.fixed \in BOOLEAN
  /\ \A s \in Schemas : s.version \in BOOLEAN /\ s.ops \subseteq Operations

Ids == {op.id : op \in Operations}

ASSUME MappingAssumption ==
  /\ Mappings \subseteq Seq([id : Ids, type : {"tool", "resource"}, item : Items])
  /\ Exclusions \subseteq SUBSET Ids
  /\ MaxRuns \in Nat

VARIABLES
  schema, metadata,              \* the snapshot; the metadata stand for the schema they sum
  json, markdown, backlog, diff, \* the report's files
  baseline,                      \* the accepted report, or None
  refresh, fetched,              \* openapirefresh: "idle", or the file it writes next; the schema
  report, generate,              \* mcpcoverage: "idle", or the file it writes next
  runs,                          \* history: how many runs there were
  torn, partial,                 \* history: the last writes of either were not finished
  inputs                         \* history: what the report was made of: [ops, mappings, exclusions, baseline]

snapshot == <<schema, metadata>>
artifacts == <<json, markdown, backlog, diff>>
refresher == <<refresh, fetched, torn>>
generator == <<generate, report, partial, inputs>>
vars == <<snapshot, artifacts, baseline, refresher, generator, runs>>

-----------------------------------------------------------------------------
(* openapirefresh.                                                         *)
VersionOnly(s) == s.version

(* buildSnapshotMetadata refuses what is no schema.                        *)
Acceptable(s) == s.version /\ s.ops # {}

\* What may be in the schema file while it is written, or if that is stopped.
Parts(s) == {[version |-> s.version /\ ops # {}, ops |-> ops] : ops \in SUBSET s.ops}

Run == runs < MaxRuns /\ runs' = runs + 1

Fetch ==
  /\ refresh = "idle" /\ Run
  /\ \E s \in Schemas :
       IF Acceptable(s) THEN fetched' = s /\ refresh' = "metadata"
       ELSE UNCHANGED <<fetched, refresh>>
  /\ UNCHANGED <<snapshot, artifacts, baseline, torn, generator>>

\* writeFiles, in the order of the names.
WriteMetadata ==
  /\ refresh = "metadata"
  /\ metadata' = fetched /\ refresh' = "schema"
  /\ UNCHANGED <<schema, artifacts, baseline, fetched, torn, generator, runs>>

WriteSchema ==
  /\ refresh = "schema"
  /\ schema' = fetched /\ torn' = FALSE /\ refresh' = "idle" /\ fetched' = None
  /\ UNCHANGED <<metadata, artifacts, baseline, generator, runs>>

\* os.WriteFile truncates the file before it fills it; a reader sees a part.
BeginWrite ==
  /\ \/ refresh = "metadata" /\ metadata' = None /\ UNCHANGED schema
     \/ refresh = "schema" /\ schema' \in Parts(fetched) /\ UNCHANGED metadata
  /\ UNCHANGED <<artifacts, baseline, refresher, generator, runs>>

\* A write fails, or the process is stopped.
StopRefresh ==
  /\ refresh # "idle"
  /\ torn' = TRUE /\ refresh' = "idle" /\ fetched' = None
  /\ UNCHANGED <<snapshot, artifacts, baseline, generator, runs>>

-----------------------------------------------------------------------------
(* mcpcoverage.                                                            *)
ClassifyDefault(op) == IF ~op.mutating /\ op.fixed THEN "resource" ELSE "tool"

(* The mapping of an operation; the last wins.                             *)
MappingOf(ms, id) ==
  ms[CHOOSE i \in DOMAIN ms : ms[i].id = id /\ \A j \in DOMAIN ms : ms[j].id = id => j <= i]

Mapped(ms) == {ms[i].id : i \in DOMAIN ms}

ValidateMapping(op, m) == ~(op.mutating /\ m.type = "resource")

Implemented(op, ms) ==
  LET m == MappingOf(ms, op.id)
  IN [status |-> "implemented", type |-> m.type, item |-> m.item, mutating |-> op.mutating]
Unmapped(op, status, type) ==
  [status |-> status, type |-> type, item |-> None, mutating |-> op.mutating]

MappingFirst(op, ms, ex) ==
  IF op.id \in Mapped(ms) THEN Implemented(op, ms)
  ELSE IF op.id \in ex THEN Unmapped(op, "excluded", "tool")
  ELSE Unmapped(op, "gap", ClassifyDefault(op))

(* The record of an operation: an exclusion, or else a mapping; only the   *)
(* latter has an item.                                                     *)
Record(op, ms, ex) ==
  IF op.id \in ex THEN Unmapped(op, "excluded", "none")
  ELSE IF op.id \in Mapped(ms) THEN Implemented(op, ms)
  ELSE Unmapped(op, "gap", ClassifyDefault(op))

UnknownAccepted(ops, ms, ex) ==
  /\ \A o, p \in ops : o.id = p.id => o = p
  /\ \A op \in ops : op.id \in Mapped(ms) \ ex => ValidateMapping(op, MappingOf(ms, op.id))

(* What BuildReport does not refuse: unique IDs, valid mappings in use, no *)
(* mapping of an operation the schema does not have.                       *)
Reportable(ops, ms, ex) ==
  /\ \A o, p \in ops : o.id = p.id => o = p
  /\ \A op \in ops : op.id \in Mapped(ms) \ ex => ValidateMapping(op, MappingOf(ms, op.id))
  /\ Mapped(ms) \subseteq {op.id : op \in ops}

(* The records by ID, and the summary.                                     *)
BuildReport(ops, ms, ex) ==
  LET With(st) == Cardinality({op \in ops : Record(op, ms, ex).status = st})
  IN [records |-> [id \in {op.id : op \in ops} |->
                     Record(CHOOSE op \in ops : op.id = id, ms, ex)],
      total |-> Cardinality(ops), implemented |-> With("implemented"),
      gaps |-> With("gap"), excluded |-> With("excluded")]

Gaps(r) == {id \in DOMAIN r.records : r.records[id].status = "gap"}

Changed(old, new) ==
  {id \in DOMAIN old.records \cap DOMAIN new.records :
     \/ old.records[id].type # new.records[id].type
     \/ old.records[id].item # new.records[id].item}

NewOnly(old, new) ==
  [new |-> Gaps(new) \ DOMAIN old.records,
   closed |-> {id \in Gaps(old) \cap DOMAIN new.records : new.records[id].status # "gap"},
   changed |-> Changed(old, new)]

(* WriteDiff; what has left the schema is in no list.                      *)
Difference(old, new) ==
  [new |-> Gaps(new) \ Gaps(old),
   closed |-> Gaps(old) \cap (DOMAIN new.records \ Gaps(new)),
   changed |-> Changed(old, new)]

\* What there is of the schema, should it be written at the moment.
LoadOpenAPI == schema.ops

\* Reviewed exclusions; a file that does not exist has none.
LoadExclusions == Exclusions \cup {{}}

\* main up to the first file, with the mappings in the code of the day; an
\* input that does not parse ends it, too.
Load ==
  /\ generate = "idle" /\ Run
  /\ \/ \E ms \in Mappings, ex \in LoadExclusions :
          /\ Reportable(LoadOpenAPI, ms, ex)
          /\ report' = BuildReport(LoadOpenAPI, ms, ex)
          /\ generate' = "json"
          /\ inputs' = [ops |-> LoadOpenAPI, mappings |-> ms, exclusions |-> ex, baseline |-> None]
     \/ UNCHANGED <<report, generate, inputs>>
  /\ UNCHANGED <<snapshot, artifacts, baseline, refresher, partial>>

WriteJSON ==
  /\ generate = "json" /\ json' = report /\ generate' = "markdown"
  /\ UNCHANGED <<snapshot, markdown, backlog, diff, baseline, refresher, report, partial, inputs, runs>>

WriteMarkdown ==
  /\ generate = "markdown" /\ markdown' = report /\ generate' = "backlog"
  /\ UNCHANGED <<snapshot, json, backlog, diff, baseline, refresher, report, partial, inputs, runs>>

WriteBacklog ==
  /\ generate = "backlog" /\ backlog' = Gaps(report) /\ generate' = "diff"
  /\ UNCHANGED <<snapshot, json, markdown, diff, baseline, refresher, report, partial, inputs, runs>>

WriteDiff ==
  /\ generate = "diff"
  /\ diff' = IF baseline = None THEN None ELSE Difference(baseline, report)
  /\ inputs' = [inputs EXCEPT !.baseline = baseline]
  /\ partial' = FALSE /\ generate' = "idle" /\ report' = None
  /\ UNCHANGED <<snapshot, json, markdown, backlog, baseline, refresher, runs>>

\* A write fails, or the process is stopped: the file is as it was, or cut.
StopReport ==
  /\ generate # "idle"
  /\ partial' = TRUE /\ generate' = "idle" /\ report' = None
  /\ \/ UNCHANGED artifacts
     \/ generate = "json" /\ json' = None /\ UNCHANGED <<markdown, backlog, diff>>
     \/ generate = "markdown" /\ markdown' = None /\ UNCHANGED <<json, backlog, diff>>
     \/ generate = "backlog" /\ backlog' = None /\ UNCHANGED <<json, markdown, diff>>
     \/ generate = "diff" /\ diff' = None /\ UNCHANGED <<json, markdown, backlog>>
  /\ UNCHANGED <<snapshot, baseline, refresher, inputs, runs>>

-----------------------------------------------------------------------------
Init ==
  /\ schema \in Schemas /\ schema.version /\ schema.ops # {} /\ metadata = schema
  /\ json = None /\ markdown = None /\ backlog = None /\ diff = None /\ baseline = None
  /\ refresh = "idle" /\ fetched = None
  /\ generate = "idle" /\ report = None
  /\ runs = 0 /\ torn = FALSE /\ partial = TRUE
  /\ inputs = None

\* A developer accepts the report as the baseline.
Accept ==
  /\ generate = "idle" /\ json # None /\ baseline' = json
  /\ UNCHANGED <<snapshot, artifacts, refresher, generator, runs>>

Refresh == Fetch \/ BeginWrite \/ WriteMetadata \/ WriteSchema \/ StopRefresh
Generate == Load \/ WriteJSON \/ WriteMarkdown \/ WriteBacklog \/ WriteDiff \/ StopReport

Next == Refresh \/ Generate \/ Accept

Spec == Init /\ [][Next]_vars

-----------------------------------------------------------------------------
Records ==
  [status : {"implemented", "gap", "excluded"}, type : {"tool", "resource", "none"},
   item : Items \cup {None}, mutating : BOOLEAN]

(* The type invariant; an excluded operation is mapped to nothing.         *)
TypeOK ==
  /\ schema.ops \subseteq Operations /\ schema.version \in BOOLEAN
  /\ refresh \in {"idle", "metadata", "schema"}
  /\ generate \in {"idle", "json", "markdown", "backlog", "diff"}
  /\ runs \in 0..MaxRuns
  /\ \A r \in {json, markdown, baseline, report} \ {None} :
       /\ DOMAIN r.records \subseteq Ids
       /\ \A id \in DOMAIN r.records :
            /\ r.records[id] \in Records
            /\ r.records[id].status = "excluded" <=> r.records[id].type = "none"

(* Unless a refresh was stopped at its writes and none has finished since, *)
(* the metadata describe the schema beside them, and that is a schema: a   *)
(* refresh that fetches something else leaves the snapshot alone, and a    *)
(* later one repairs what a stopped one left.                              *)
SnapshotFits == refresh = "idle" /\ ~torn => metadata = schema /\ schema.version /\ schema.ops # {}

(* The files of a finished run agree.  The report has every operation of   *)
(* the schema once, with the status its inputs give it, has every mapped   *)
(* operation (so a schema cut to fewer operations does not pass for one),  *)
(* maps nothing that mutates to a resource, and adds up; the backlog has   *)
(* its gaps; and its gaps are those of the baseline, without the closed    *)
(* ones and those that left the schema, with the new ones; an operation    *)
(* of both reports that is in no list is mapped as it was.                 *)
ReportSound ==
  generate = "idle" /\ ~partial =>
    LET records == json.records
        With(st) == {id \in DOMAIN records : records[id].status = st}
        old == inputs.baseline
    IN /\ markdown = json /\ backlog = With("gap")
       /\ DOMAIN records = {op.id : op \in inputs.ops}
       /\ json.total = Cardinality(inputs.ops)
       /\ json.implemented + json.gaps + json.excluded = json.total
       /\ json.gaps = Cardinality(backlog)
       /\ With("excluded") = inputs.exclusions \cap DOMAIN records
       /\ With("implemented") = Mapped(inputs.mappings) \ inputs.exclusions
       /\ Mapped(inputs.mappings) \subseteq DOMAIN records
       /\ \A id \in With("implemented") : records[id].mutating => records[id].type = "tool"
       /\ old # None =>
            /\ With("gap") = ((Gaps(old) \cap DOMAIN records) \ diff.closed) \cup diff.new
            /\ diff.new \cap Gaps(old) = {} /\ diff.closed \subseteq Gaps(old)
            /\ \A id \in (DOMAIN old.records \cap DOMAIN records)
                      \ (diff.new \cup diff.closed \cup diff.changed) :
                 /\ id \in Gaps(old) <=> id \in backlog
                 /\ records[id].type = old.records[id].type
                 /\ records[id].item = old.records[id].item
=============================================================================
