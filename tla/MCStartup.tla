----------------------------- MODULE MCStartup -----------------------------
(* The configurations: every credential of at most three fields; every     *)
(* type without tags, and every form of a raw credential; every            *)
(* TSNET_STATE of at most three lexemes, and aws:// with two more; every   *)
(* hostname of at most two characters.                                     *)
EXTENDS Startup

Base ==
  [form |-> "key", type |-> "", has |-> {}, clientKey |-> FALSE, envID |-> FALSE,
   tags |-> {"tag"}, stdio |-> FALSE, scoped |-> TRUE, state |-> <<>>, hostname |-> <<"a">>]

Credentials ==
  {[Base EXCEPT !.form = "json", !.type = t, !.has = f] : t \in Types, f \in {g \in SUBSET Fields : Cardinality(g) <= 3}}
Tags ==
  {[Base EXCEPT !.form = "json", !.type = t, !.has = Fields \ {"idTokenFile"},
                !.clientKey = k, !.tags = {"blank"}, !.stdio = o] :
     t \in Types, k, o \in BOOLEAN}
Raws ==
  {[Base EXCEPT !.form = f, !.envID = e, !.tags = g, !.scoped = s] :
     f \in {"empty", "garbled", "client secret", "key"}, e, s \in BOOLEAN,
     g \in SUBSET {"blank", "tag", "other"}}

AWS == {<<"aws:", "//">> \o s : s \in [1..2 -> {"name", "path", "/", " "}]}
States ==
  {[Base EXCEPT !.state = s] : s \in AWS \cup UNION {[1..n -> Lexemes] : n \in 0..3}}
Hosts == {[Base EXCEPT !.hostname = h] : h \in UNION {[1..n -> Chars] : n \in 0..2}}

MCConfigs == Credentials \cup Tags \cup Raws \cup States \cup Hosts
=============================================================================
