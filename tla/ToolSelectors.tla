--------------------------- MODULE ToolSelectors ---------------------------
(***************************************************************************)
(* The selector language shared by tool profiles, ACL grants and           *)
(* --local-grants (internal/toolmeta), the merge of grant entries          *)
(* (grants.go) and the profile file (profiles.go).                         *)
(*                                                                         *)
(* A selector string is a record [form, arg]: the form is the syntactic    *)
(* case its text falls in, the arg is the name after the prefix.  A        *)
(* resource URI is the sequence of its path segments.                      *)
(***************************************************************************)
EXTENDS Naturals, Sequences, FiniteSets

CONSTANTS
  Tools,          \* the names of the registered tools
  Names,          \* the tool names a client may call, registered or not
  Uris,           \* the resource URIs a client may read
  Groups,         \* the groups a selector may name (toolmeta.Groups)
  GroupOf,        \* the group each registered tool derives from its API path
  ReadOnlyTools,  \* the tools registered with a read-only hint
  None            \* "no argument", "no selectors": Go's nil or ""

ASSUME CatalogAssumption ==
  /\ Tools \subseteq Names
  /\ ReadOnlyTools \subseteq Tools
  /\ GroupOf \in [Tools -> Groups]
  /\ None \notin Groups \cup Names

-----------------------------------------------------------------------------
(***************************************************************************)
(* Selectors.                                                              *)
(***************************************************************************)
Selector(form, arg) == [form |-> form, arg |-> arg]

Blank      == Selector("blank", None)           \* "" after TrimSpace
All        == Selector("all", None)             \* "*"
Read       == Selector("read", None)            \* "read:*"
Group(g)     == Selector("group", g)            \* "group:<g>"
GroupRead(g) == Selector("groupRead", g)        \* "group:<g>:read"
Name(n)      == Selector("name", n)             \* a tool name

(* The metadata of a tool; zero values where the tool is not registered.   *)
MetaOf(name, group, readOnly) ==
  [name |-> name, group |-> group, readOnly |-> readOnly]

Matches(sel, m) ==
  \/ sel.form = "all"
  \/ sel.form = "read"      /\ m.readOnly
  \/ sel.form = "group"     /\ m.group = sel.arg
  \/ sel.form = "groupRead" /\ m.readOnly /\ m.group = sel.arg
  \/ sel.form = "name"      /\ m.name = sel.arg

Allows(sels, m) == \E sel \in sels : Matches(sel, m)

(* A profile may only use selectors that pass this check; a grant is never *)
(* checked.                                                                *)
ValidateSelectors(sels) ==
  \A sel \in sels :
    \/ sel.form \in {"all", "read"}
    \/ sel.form \in {"group", "groupRead"} /\ sel.arg \in Groups
    \/ sel.form = "name" /\ sel.arg \in Tools

-----------------------------------------------------------------------------
(***************************************************************************)
(* The catalog.  Every registration path records the read-only flag it     *)
(* also puts in the MCP annotation of the tool.                            *)
(***************************************************************************)
isReadOnlyTool(t) == t \in ReadOnlyTools

RecordForgetsReadOnly(t) == MetaOf(t, GroupOf[t], FALSE)
Record(t) == MetaOf(t, GroupOf[t], isReadOnlyTool(t))

toolMeta(name) == IF name \in Tools THEN Record(name)
                                    ELSE MetaOf(name, None, FALSE)

-----------------------------------------------------------------------------
(***************************************************************************)
(* Resource grants: "*", an exact URI, or "<uri>/*" for everything beneath *)
(* a path segment.                                                         *)
(***************************************************************************)
Exact(uri)   == Selector("exact", uri)
Under(uri)   == Selector("under", uri)

Beneath(uri, prefix) ==
  /\ Len(uri) > Len(prefix)
  /\ SubSeq(uri, 1, Len(prefix)) = prefix

resourceGrantMatches(grant, uri) ==
  \/ grant.form = "all"
  \/ grant.form = "under" /\ Beneath(uri, grant.arg)
  \/ grant.form = "exact" /\ uri = grant.arg

-----------------------------------------------------------------------------
(***************************************************************************)
(* Capabilities.  One grant entry is [tools, resources]; Tailscale hands   *)
(* the node the list of every entry whose rule matches the caller.  An     *)
(* entry that is not valid JSON is the value Garbled.  Go's nil grant and  *)
(* an empty one are told apart by no step, and are both NoGrant.           *)
(***************************************************************************)
Caps(tools, resources) == [tools |-> tools, resources |-> resources]
NoGrant == Caps({}, {})
Garbled == Caps({Selector("garbled", None)}, {})

AppendUnique(dst, src) == dst \cup {s \in src : s.form # "blank"}

Malformed(entries) == \E i \in DOMAIN entries : entries[i] = Garbled

FirstEntry(entries) ==
  IF entries = <<>> THEN NoGrant
  ELSE Caps(AppendUnique({}, entries[1].tools),
            AppendUnique({}, entries[1].resources))

MergeEntries(entries) ==
  Caps(AppendUnique({}, UNION {entries[i].tools : i \in DOMAIN entries}),
       AppendUnique({}, UNION {entries[i].resources : i \in DOMAIN entries}))

AllowsTool(caps, m) == Allows(caps.tools, m)
AllowsResource(caps, uri) ==
  \E g \in caps.resources : resourceGrantMatches(g, uri)

-----------------------------------------------------------------------------
(***************************************************************************)
(* Tool profiles.  A configuration is None when no --config was given, or  *)
(* [default, profiles] with profiles a function from names to selectors.   *)
(* A request path is None for /mcp and /mcp/, or the name after /mcp/.     *)
(***************************************************************************)
ValidProfileConfig(cfg) ==
  cfg # None =>
    /\ DOMAIN cfg.profiles # {}
    /\ \A p \in DOMAIN cfg.profiles :
         cfg.profiles[p] \notin {{}, None} /\ ValidateSelectors(cfg.profiles[p])
    /\ cfg.default # None => cfg.default \in DOMAIN cfg.profiles

Resolves(cfg, name) ==
  IF name = None THEN TRUE
  ELSE cfg # None /\ name \in DOMAIN cfg.profiles

(* None: everything the grant allows.                                      *)
Resolve(cfg, name) ==
  IF name # None THEN cfg.profiles[name]
  ELSE IF cfg = None \/ cfg.default = None THEN None
  ELSE cfg.profiles[cfg.default]

=============================================================================
