-------------------------- MODULE MCToolRequests --------------------------
(* Every tool with every subset of its arguments and a body, each with     *)
(* every value that the handlers tell apart: blanks, blanks around a key   *)
(* or a text, lists and objects where a string is expected.                *)
EXTENDS ToolRequests

CONSTANTS cidr, tag, attr, text, blanks, paddedAttr, paddedText, printed, object

MCStrings == {cidr, tag, attr, text, blanks, paddedAttr, paddedText, printed, Empty, Nil}
MCCIDRs == {cidr}
MCTags == {tag}
MCAttributes == {attr}
MCObjects == {object}
MCLists == UNION {[1..n -> {cidr, tag, text, object, Null}] : n \in 0..2}

\* All that is not a string is printed alike, but for null.
MCSprint ==
  [v \in Values |-> IF v \in Strings THEN v ELSE IF v = Null THEN Nil ELSE printed]
MCTrim ==
  [str \in Strings |-> IF str = paddedAttr THEN attr
                       ELSE IF str = paddedText THEN text
                       ELSE IF str = blanks THEN Empty ELSE str]

ValuesOf(n) ==
  CASE n = "routes" -> {Null, text, cidr, << >>, <<cidr>>, <<cidr, text>>, <<object, cidr>>}
    [] n = "tags" -> {Null, text, tag, << >>, <<tag>>, <<tag, text>>, <<Null, tag>>}
    [] n = "deviceId" -> {Null, Empty, blanks, text, <<text>>}
    [] n = "attributeKey" -> {Null, Empty, text, attr, paddedAttr}
    [] n = "keyExpiryDisabled" -> {Null, Yes, No, text}
    [] n = "body" -> {Null, object}
    [] n \in {"start", "filter"} -> {Null, Empty, blanks, text, << >>, <<text, object>>}
    [] OTHER -> {Null, Empty, blanks, paddedText, object}

Arguments(ns) ==
  {f \in [ns -> UNION {ValuesOf(n) : n \in ns}] : \A n \in ns : f[n] \in ValuesOf(n)}

ToolCalls ==
  UNION {{[tool |-> t, confirmed |-> c, args |-> a, uri |-> << >>] :
            c \in BOOLEAN,
            a \in UNION {Arguments(ns) :
                    ns \in SUBSET (Tools[t].path \cup Tools[t].query \cup Tools[t].body \cup {"body"})}} :
         t \in DOMAIN Curated \cup DOMAIN Generated}

MCURIs ==
  {<<"device", d, s>> : d \in {text, blanks, Empty}, s \in {"routes", "attributes"}}
  \cup {<<"device", text>>, <<"device", text, text, "routes">>}

\* A template's variable may be a list of the one segment.
ResourceCalls ==
  {[tool |-> t, confirmed |-> FALSE, args |-> << >>, uri |-> u] :
     t \in DOMAIN Templates, u \in MCURIs}
  \cup {[tool |-> t, confirmed |-> FALSE, args |-> [deviceId |-> d],
         uri |-> [Templates[t] EXCEPT ![2] = text]] :
          t \in DOMAIN Templates, d \in {text, Empty, <<text>>, Null}}
  \cup {[tool |-> "resource", confirmed |-> FALSE, args |-> << >>, uri |-> << >>]}

MCCalls == ToolCalls \cup ResourceCalls
=============================================================================
