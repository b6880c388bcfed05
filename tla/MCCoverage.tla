---------------------------- MODULE MCCoverage ----------------------------
(* A collection, a device and a deletion, and a second operation with the  *)
(* ID of the first; schemas with and without that clash, a shorter one,    *)
(* one without a version and one without paths; mappings that are valid,   *)
(* overridden, renamed, invalid, or of an operation that may be missing.   *)
EXTENDS Coverage

CONSTANTS list, get, delete, other

Op(at, id, mutating, fixed) == [at |-> at, id |-> id, mutating |-> mutating, fixed |-> fixed]
All == {Op(list, list, FALSE, TRUE), Op(get, get, FALSE, FALSE), Op(delete, delete, TRUE, FALSE)}

MCOperations == All \cup {Op(other, list, FALSE, FALSE)}
MCSchemas ==
  {[version |-> TRUE, ops |-> All], [version |-> TRUE, ops |-> {op \in All : op.id # get}],
   [version |-> TRUE, ops |-> MCOperations], [version |-> FALSE, ops |-> All],
   [version |-> TRUE, ops |-> {}]}

MCItems == {"name", "renamed"}
To(id, type) == [id |-> id, type |-> type, item |-> "name"]
MCMappings ==
  {<<To(list, "resource"), To(delete, "tool")>>,
   <<To(delete, "resource"), [To(delete, "tool") EXCEPT !.item = "renamed"]>>,
   <<To(delete, "tool"), To(delete, "resource")>>,
   <<To(get, "tool")>>}
MCExclusions == {{}, {delete}}
=============================================================================
