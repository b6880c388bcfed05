# Tailscale MCP server: TLA+ specifications

The repository is an MCP server for the Tailscale Admin API. It joins a tailnet
with tsnet, authorizes every request by the caller's tailnet grants, and exposes
the Admin API as MCP tools and resources. This directory holds TLA+ modules that
model its logic, TLC configurations that check them on small instances, and
proofs about them checked by TLAPS.

    tlc -workers 2 -config MCAccessControl.cfg MCAccessControl
    tlapm AccessControlProofs.tla

`PROJECT.json` lists components, runs, the mutant that shows each property can
fail, the source lines behind each definition, hazards, findings and theorems.

## The system

| Component | Source | State | Operations | Interacts with |
|---|---|---|---|---|
| Selectors and catalog | `internal/toolmeta` | the tool catalog, filled at startup | `matches`, `Allows`, `ValidateSelectors`, `Add` | grants, profiles, registration |
| Grants | `grants.go` | the capabilities in a request's context | `parseMCPCapabilities`, `grantToolFilter`, `checkToolAccess`, `checkResourceAccess` | middleware writes, handlers read the context |
| Profiles | `profiles.go` | the profile file, read once | `parseProfileConfig`, `Resolve`, `profileMiddleware` | the tool filter |
| Local grants | `localgrants.go` | one parsed grant | `localGrantMiddleware`, `stdioContextFunc` | as grants |
| Middleware | `main.go` | per-request context | origin check, `grantMiddleware` (WhoIs) | tailnet policy |
| Registration | `internal/readapi/register.go`, `internal/curatedtools` | none | confirm, access check, handler | catalog, Admin API client |
| Flow logs | `internal/readapi/network_flow_logs.go` | none: the cursor carries it | range, chunk, cursor | Admin API client |
| Policy tools | `curatedtools.go` | none: the ETag carries it | get and update the policy | Admin API client |
| Device tools | `curatedtools.go` | the report of a running call | bulk and single authorization | Admin API client |
| Admin API client | `internal/readapi/client.go` | none | `Do`, `DoRaw`, `Expand` | the Admin API |
| Lifecycle | `main.go` | servers, error channel, shutdown context | startup, serve, shutdown | all of the above |
| Device lookup, status, local CLI | `main.go`, `curatedtools.go` | none: the parts of one answer | `findDevice`, `tailscale_status`, `runTailscaleCLI` | Admin API, the tailscale CLI |
| Arguments and requests | `curatedtools.go`, `internal/readapi` | none | confirmation, argument checks, bodies, path and query | Admin API client |
| Credential, tsnet state | `main.go` | credential, state directory or store, the clients' access tokens | parsing, validation, `idToken`, `ConfigureTSNet` | lifecycle, identity provider, the ID-token file |
| Coverage tools | `tools/coverage` | snapshot (metadata, schema), four report files, baseline | `openapirefresh`, `mcpcoverage` | each other, by the files |
| Logging, annotations, version | `main.go`, `internal` | none | | not modelled |

What is hard in it:

* **Concurrency.** Requests run concurrently, each with a grant captured once;
  the tailnet policy changes under them. Clients edit the same policy file and
  the same devices through read-modify-write tools or loops of requests.
  One answer is put together from several reads while devices join, leave and
  are renamed. A token file is replaced behind the server's back.
* **Delivery.** A request to the Admin API can take effect while its answer is
  lost, and so can the answer to the MCP client; clients repeat calls and replay
  old cursors.
* **Partial failure.** A bulk loop goes on after a failure. One malformed grant
  entry sits between good ones. One of two servers stops. Metadata, schema and
  four report files are written one after the other, and any write may be the
  last.
* **Boundaries.** The last flow-log window, the 4 MiB body limit, the channel of
  capacity two, the one shutdown deadline for two servers, the expiry of a token
  during a call, an argument that is absent rather than empty.
* **Liveness.** Nothing the server does toward the Admin API has a timeout.

What makes each part correct: nothing is obtained beyond one version of the
caller's grants in force since its request arrived, and nothing entitled is
refused; listing and calling agree; paging has no gaps, overlaps, early end or
dead end; no policy update overwrites an edit it has not seen; a bulk report is
exact and a call reported clean has taken effect; an answer made of several
reads says nothing that was not so during the call; a request is what its
arguments say and nothing else; a startup that is not refused can work, and goes
on working while tokens rotate; shutdown ends, and cuts requests only at the
deadline; report files and snapshot are consistent unless a run was stopped.

## The modules

| Module | Models | State and actions |
|---|---|---|
| `ToolSelectors` | selectors, catalog, merge of entries, profile file | operators only, named as in the source |
| `AccessControl` | middleware, filter, checks and dispatch of concurrent requests | `pc[r]` is the middleware a request has passed; `profile`, `caps` its context; one action per middleware and handler phase; `EditPolicy` is the administrator |
| `GrantedAccess` | what the grants promise, without any mechanism | refined by `AccessControl` |
| `NetworkFlowLogs` | the paging tool and its clients | a call is sent, handled, answered, received or lost; a cursor is the window it encodes |
| `ChronologicalRead` | what paging looks like to a client | refined by `NetworkFlowLogs` |
| `PolicyUpdate` | `tailscale_get_acl`, `tailscale_update_acl` | a policy text is a set of edits, its ETag a digest of it |
| `DeviceAuthorization` | the bulk and single authorization tools | each device of the loop: request, effect, outcome |
| `DeviceSettings` | what these tools promise, without calls, loops or errors | refined by `DeviceAuthorization` |
| `ReadTools` | `findDevice` behind `get_device_info` and `tailscale://device`, `list_all_devices`, `tailscale_status`, the CLI diagnostics | `pc` is the next read of the call; `target`, `count` what it has found; `reply`; `moments` the history of the tailnet since the call began; devices join, leave and change between reads |
| `ToolRequests` | confirmation, argument checks, body, path and query of the curated tools, of the endpoint table and of the resource templates | one call; `requests` is what would be sent. Its state and properties carry the prefix `TR`, so that one proof module can extend it beside `PolicyUpdate` |
| `TSNetState` | `tsnetStateDir`, `resolveTSNetState`, `normalizeTSNetStateStore` | operators only, named as in the source |
| `Startup` | `main` up to serving, and the credential in use | `config`, `cred`, `state`; `pc` of `main`; each client's call (`at`, `presented`, `access`); `file` and its refresher, the clock |
| `Coverage` | `openapirefresh` and `mcpcoverage`, which may run together and stop at any write | `schema`, `metadata`, the four report files, `baseline`; `refresh` and `generate` are the file to be written next |
| `Lifecycle` | `main` | `pc` is where `main` has come to; `serve[s]` the Serve goroutines; `errCh`, `stopping`, `deadline` as in the code |

`MC*` modules and their `.cfg` files give the constants values. `*Proofs`
modules hold the theorems. Operators such as `FirstEntryCaps` or `SkipOneNext`
that no specification uses are the mutants.

Abstractions. Tool names, logins, resource URIs (sequences of segments) and
profile names are members of small sets; a selector is its syntactic form and
argument. The Origin header matches its host or not, freely. mcp-go is outside
the repository: whether it applies the tool filter to `tools/call` is a field of
the configuration, and both values are checked. So are the Admin API, its ETags
and its If-Match precondition, WhoIs, net/http's draining of connections
(`Shutdown` waits for `Serve` to return and then for the requests, as Go does
since 1.20), mcp-go passing arguments that the schema requires but the client
leaves out, or that have another type, and the type in which it gives a
template's variables to the handler (see below). Entries that cannot be parsed are the one value `Garbled`.
Nil and empty grants are one value, as no step tells them apart. A handler's
Admin API calls are a count, with a free outcome each. A request to the Admin
API that was reported failed has taken effect by then or never does.

A string is what the handlers test it for: blank, a route, a tag, a posture
attribute, a device's ID or name. In `ToolRequests` an argument is any JSON value,
and Go's conversions are constant functions, applied where the code applies them
(`Sprint` is `fmt.Sprint`, `Trim` is `strings.TrimSpace`). The characters of a
hostname are taken by class, `TSNET_STATE` as the lexemes the code looks for, and a
field of the credential is blank or not. The order of a device listing is free.
`ToolRequests` has one tool of each kind of the endpoint table (path only, with a
query, with a body, confirmed). mcp-go may give a template's variables as arguments
or not, and as values of any type: `register.go:105` takes its untyped map as it is,
and the repository does not settle what is in it (its one test parses a URI itself,
`register_test.go:107-115`). If it is a list, as mcp-go's URI matcher has one for
each variable, the path gets the printed list, `/device/%5Bid%5D/routes`, and not
the ID. `ReadTools`, `ToolRequests` and the device and policy modules leave the
access check to `AccessControl`. A file is replaced at once, or truncated first and
seen empty or in part. A mapping's MCP name and resource URI are one `item`, which
the report's diff compares beside the type; schemas are sets of operations.

## The runs

**access_control** (778 425 states). Two requests of any kind from one login and
the local caller, three tools in two groups, two resources, four lists of grant
entries (none, two to be merged, one malformed, everything), four
configurations over both transports, and one policy edit at any moment. Two
requests show grants kept or mixed between requests; one edit separates "the
grant at arrival" from "the grant now"; two entries are needed to lose one.
`EffectsEntitled`: all a request obtained is permitted by one version of its
caller's grants. `EntitledServed`: who is entitled all along is not denied, and
is listed the tool. `WithinProfile`: nothing outside the profile is listed, nor
called if mcp-go filters calls (docs/profiles.md). `ListedIffCallable`: under
one policy, listed exactly if callable. `ImplementsGrantedAccess`: refinement.
Deadlock is not checked: the answered requests and used-up edits are an end.

**flow_logs** (24 581 states). A range of two and a half chunks has a first, an
inner and a short last window; two calls overtake and repeat each other; cursors
are replayed, malformed, or combined with other arguments; either all chunks fit
a response body or the last does not. `NoGap`, `NoOverlap`, `FinishedComplete`,
`CursorsAccepted` and the refinement of `ChronologicalRead` (a chunk at a time, in
as many steps as the range has chunks) are safety; `Completes` is progress. Calls go on for ever.

**policy_update** (34 952 states). Two clients with one edit each, one console
edit, three faults (console edits, lost replies, errors, missing ETags).
`NoLostUpdate`: each step changes the policy in force by at most one edit;
`ToldLanded`: a confirmed edit was in force; `EveryEditLands`: progress. The
text an update returns may be the base of the client's next one, so replies
carry text and ETag. The system stops when all edits have landed.

**policy_update_blank** (violation). The same with a blank `etag` argument, as
`get_acl` itself returns when a reply had no ETag header: `DoRaw` drops the empty
If-Match and `NoLostUpdate` fails. The tool description promises the contrary.

**device_authorization** (127 640 states). Two clients, two devices, bulk and
single calls with equal or opposite values, blank IDs, two faults.
`ReportExact`: at every moment of the loop each device is in exactly one of
waiting, under way, succeeded, failed. `AgreedValueHolds`: when a client is done
each device it named, which nobody names otherwise, has its value.
`ImplementsDeviceSettings`: what the devices see is clients that want a value for
some devices and set it one device at a time, again where an answer was lost, and
that are done only when all are set; so a device changes only as a call that
names it says. `EveryCallCompletes`: progress. The system stops when the calls are done.

**device_authorization_no_flag** (violation). A bulk call without the required
boolean `authorized` deauthorizes the devices it lists.

**lifecycle** (39 195 states). Both transports, with and without local grants,
three requests: one running on each server while a third arrives during the
shutdown. `CutOnlyAtDeadline`: an accepted request is cut only when the shared
context has expired, or when the local port was in use. `OnlyFailuresSelected`:
what `main` logs as unexpected was. `SignalStops`: a signal ends the process
although requests hang. `StopTogether`: no server goes on alone. `TypeOK` says
that `errCh` has room for each goroutine. The process ends.

**read_tools** (661 752 states). Two device IDs, one of which may also be the
other device's hostname, one more name, two settings, two changes during a call,
a listing limit of one device, so that a full tailnet is cut. Two changes are
enough to rename one device and give its name to the other between the two reads
of a lookup. `LookupJustified`: the device answered with was called as asked at
one moment of the call and had the record in the answer then or later.
`SteadyDeviceFound`: a device that alone has the name all along is found.
`StatusTrue`: no part of a status is made up or lost (the two parts need not have
been true together, and a count that was cut is exempt: see the hazards).

**tool_requests** (24 873 states). Every kind of tool with every combination of
good, bad, empty, null and absent values of its arguments, of strings of blanks
and with blanks around them, of lists and objects where the schema has a string,
beside an argument it does not declare; the templates with and without arguments
of mcp-go, a list among them. `TRTypeOK`: one request at most, with all its
endpoint requires and no parameter it does not have; a required query parameter
given as an empty list is the exception, as `addQueryValue` adds nothing for it.
`RequestFaithful`: a call is refused exactly if it may be, and a request has each
argument in its place, in the form the code prints it there, and nothing that is
not declared. It says what the code does at two places where one might expect
otherwise: `Expand` takes only null and the empty string for missing
(client.go:160-163), so a path argument of blanks is sent; and the key of a
posture attribute is checked trimmed (curatedtools.go:324) and sent as it is.

**tool_requests_omitted** (violation). A posture attribute set without the
optional `expiry` is sent with the expiry `"<nil>"`, as `stringArg` of an absent
argument is not empty (curatedtools.go:328); so is the comment of a batch.

**startup** (412 733 states). Credentials of every type with up to three fields, raw
forms, tags, every `TSNET_STATE` of up to three lexemes (and `aws://` with two
more), every hostname of up to two characters; ID tokens live two ticks, access
tokens one, the clock has two, so that a token expires during a call and between
calls. Three lexemes are a scheme, its slashes and one part; two characters tell a
trimmed blank from a replaced one. `StartupSound`: what is not refused can work.
`FreshToken`: no token is exchanged that had left the file before the call.
`Recovers`: once the file stays valid, so do the calls. Deadlock is not checked: a
refused startup ends.

**coverage** (1 982 344 states). Four operations, two with the same ID; five
schemas, two of them unacceptable; valid, overridden, renamed, invalid and outdated
mappings; three runs of the two tools in any order, overlapping and stopped
anywhere: one to write a baseline, one to be stopped, one to repair. `SnapshotFits`:
metadata and schema differ only after a stopped refresh. `ReportSound`: the files of
a finished run are of one report, complete, adding up, with the diff to the
baseline: an operation in none of its lists is mapped as it was. The system stops
when the runs are used up.

## Fairness

* `NetworkFlowLogs`: the server's steps are weakly fair, as goroutines are. The
  client keeps asking for its frontier, some of these calls succeed and some
  replies arrive: strong fairness, an assumption about the environment without
  which no retry protocol progresses. It is not given for a chunk too large for a
  body: `Completes` has that exception.
* `PolicyUpdate`: serving and finishing are weakly fair; a client that is not
  done reads, and if it can update again and again it does. Faults are bounded.
* `DeviceAuthorization`: the loop and the delivery of its report are weakly
  fair; faults are bounded.
* `Startup`: `main` goes on, and the callers of both clients go on with their
  calls, as goroutines do. Nothing is assumed of the clock or the refresher:
  `Recovers` says what follows if the file stays valid.
* `Lifecycle`: `main` outside of `Up` and `ServeStdio`, the Serve goroutines and
  the deadline are weakly fair. Requests, the node's coming up and signals are not.

## The proofs

All are for arbitrary values of the constants, from the assumptions named in the
modules (`CatalogAssumption`, `AccessAssumption`, `RangeAssumption`,
`PolicyAssumption`, `NoneAssumption`, `DeviceAssumption`, `FlagAssumption`,
`LifecycleAssumption`, `RecordAssumption`, `BoundAssumption`,
`ArgumentAssumption`, `TokenAssumption`, `TimeAssumption`, `ConfigAssumption`,
`OperationAssumption`, `MappingAssumption`, `ValueAssumption`, `PrintAssumption`,
`CallAssumption`, `NoCallAssumption`); TLC evaluates these on its instances. Every invariant of the
passing runs is proved, and so are the three refinements.

* `AccessControlProofs`. `TypeCorrect`. `Authorization` proves `EffectsEntitled`
  from `GrantInv`: the policy in force is in every request's history, the
  captured grant is a member of that history, and all obtained or about to be used
  lies within the captured grant; the property alone says nothing of grants
  captured but not used. `MergeIsSum` shows that the union the code computes
  permits the sum of the entries, blanks included. `Refinement` maps arrivals and
  edits to themselves, listings and API calls to `Obtain`, the rest to stutters.
  `Served`, `ProfileBounds` and `FilterAgrees` follow from `AnswerInv`: the
  context holds the profile asked for, and an answer tells of a moment of the
  request at which the caller's grants called for just that answer.
* `NetworkFlowLogsProofs`. `Paging` is the inductive invariant `PagingInv`: every
  window held, fetched or to be received starts on the grid of chunks, runs to
  `End`, and all before it has been read. `Contiguous`, `DoneIsComplete`,
  `Disjoint` (grid points are a chunk apart) and `CursorsUsable` follow.
  `Chronological` is the refinement: `MarkInv` ties the latest end received to
  what the client has been told; short of `End` the mark is on the grid, so a
  window that reaches beyond it starts there, and a reply moves the mark on by a
  chunk or repeats what is there.
* `ToolCallProofs`, of policy editing: `ConfirmedEdits` (`ToldLanded`) and
  `GuardedUpdates` (an update under an ETag changes the policy in force by its
  client's own edit only) hold whatever ETags the clients send;
  `OptimisticConcurrency` (`NoLostUpdate`) assumes that none is blanked, which the
  violation run shows necessary. `EditInv` says that a posted policy is one edit on
  top of the very text its ETag names, or has no ETag.
* `ToolCallProofs`, of requests: `RequestsTyped` and `RequestsFaithful` from
  `RequestInv`, for all JSON values as arguments and any conversions of which
  `PrintAssumption` holds (a string is printed as it is, and only the empty one as
  nothing): a call is refused exactly if it may be (`RefusedIfRefusable`), path and
  query have the printed arguments in place (`Expanded`, `PrintedTyped`), and a
  body holds what the caller gave (`PayloadKept`). Nothing is assumed of the types
  of arguments or of the variables of a template.
* `DeviceAuthorizationProofs`. `Convergence` proves `AgreedValueHolds`: devices of
  a call that are neither waiting, under way nor failed are at its value.
  `ExactReport` needs the same of each device's place in the loop; `AsAsked`
  assumes that the flag is sent, which the other violation run shows necessary.
  `Refinement` maps the application of a request to `Set`, a lost answer to
  `Again`, the report that arrives to `Finish`, the steps of the loop to stutters;
  that a device set is nowhere else in the loop (`ExactInv`) makes it one step.
* `LifecycleProofs`. `GracefulShutdown` proves `CutOnlyAtDeadline`: a server that
  may accept, or has a request running before the deadline, is still in the
  list `main` works through. `SelectsFailures` and `RoomToReport` count the
  goroutines that may still report (`ChannelInv`); the latter assumes the capacity
  of the code, two. The core of `SignalStops` and `StopTogether` is proved as
  safety: main waits only for a report, for a listener it has told to close or for
  a running deadline (`NeverStranded`), and once it handles signals it has at most
  seven steps left, which nothing adds to (`StopsInSevenSteps`); what remains is
  fairness.
* `ReadToolsProofs`. `LookupSound` from `LookupInv`: the device to fetch was called
  so at a moment past, and the present is the last moment. `LookupFinds`,
  `StatusHonest` and `TypeCorrect` from `ProgressInv` and `ValueInv`, for finitely
  many IDs, as they count.
* `StartupProofs`. `TokensFresh` from `TokenInv`: tokens reach the file in the
  order of their times. `TypeCorrect` from `UsedInv`: a credential that is used
  has been validated, so it has the field its token is read from.
  `StartupChecked` proves `StartupSound` for every configuration from `SoundInv`
  (nothing of what `main` made sure of changes, and only the typed client calls
  before `main` serves) and from lemmas about `TSNET_STATE` and hostnames of any
  length.
* `CoverageProofs`. `SnapshotConsistent` from `SnapshotInv`: what a refresh is
  about to write has been checked, and its metadata come first. `ReportsSound`
  from `FileInv`: the files up to the next are the report of the inputs; that
  report is complete (`RecordOfOperation`), typed (`RecordTyped`) and adds up
  (`Totals`: the three statuses partition the operations, and gaps have IDs of
  their own), for finitely many operations. `TypeCorrect`.

Only model-checked: liveness under fairness (`Completes`, `EveryEditLands`,
`EveryCallCompletes`, `SignalStops`, `StopTogether`, `Recovers`). It needs ENABLED,
which TLAPS does not reach, and induction over a decreasing measure, whose library
theorems take an operator as a parameter, which no installed prover can
instantiate. The other way round, `OnlyAsAsked`, `GuardedUpdate`,
`WaitsForWhatComes` and `WindsDown` are proved and listed by no run.

## Not modelled, and the plan

1. **Body limit in `PolicyUpdate`**: a read cut at 4 MiB with a valid ETag. As
   it is the API refuses the cut text; completed by a client, it deletes the rest.
2. **Composition**: `PolicyUpdate` under `AccessControl`, so that an update by
   MCP changes the grants that authorize MCP.
3. **`tailscale_set_policy_file`**: the endpoint that posts the policy without a
   precondition, as a client of `PolicyUpdate` that never sends an ETag.

Left out for good: logging, wording of errors, tool descriptions and annotations
beyond the read-only flag, the table of `--list-groups`, YAML and JSON syntax,
build information, the tsnet internals.
