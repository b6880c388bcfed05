----------------------------- MODULE TSNetState -----------------------------
(***************************************************************************)
(* Where the tailnet node keeps its state: tsnetStateDir derives a         *)
(* directory from the hostname, resolveTSNetState reads TSNET_STATE.  A    *)
(* hostname is a sequence of characters; TSNET_STATE is the sequence of    *)
(* the lexemes the code looks for: "file:", "kube:", "aws:", "//", "/",    *)
(* "arn:aws:ssm:", "mem:", " ", "name" (letters), "path" (a region, an     *)
(* account and parameter/<name>).                                          *)
(***************************************************************************)
EXTENDS Naturals, Sequences, SequencesExt

Lexemes == {"file:", "kube:", "aws:", "//", "/", "arn:aws:ssm:", "mem:", " ", "name", "path"}

IsBlank(str) == \A i \in DOMAIN str : str[i] = " "

TrimSpace(str) ==
  LET solid == {i \in DOMAIN str : str[i] # " "}
  IN IF solid = {} THEN <<>> ELSE SubSeq(str, Min(solid), Max(solid))

After(prefix, str) == SubSeq(str, Len(prefix) + 1, Len(str))

(* The characters: "a" and "A" stand for the letters, "1" for the digits,  *)
(* "-" for itself, "_" and ".", "/" and " " for all that is replaced.      *)
Chars == {"a", "b", "A", "1", "-", "/", " "}
Lower(ch) == IF ch = "A" THEN "a" ELSE ch
Safe == {"a", "b", "1", "-"}

HostnameIgnored(hostname) == <<"a">>

(* tsnetStateDir without its prefix "tsnet-"; <<"a">> stands for ts-mcp,   *)
(* the name of a server without a hostname.                                *)
tsnetStateDir(hostname) ==
  LET name == TrimSpace(hostname)
      Clean(ch) == IF Lower(ch) \in Safe THEN Lower(ch) ELSE "-"
  IN IF name = <<>> THEN <<"a">> ELSE [i \in DOMAIN name |-> Clean(name[i])]

Rejected == [dir |-> <<>>, store |-> <<>>]

(* What url.Parse finds in an aws:// URL: names before a region are part   *)
(* of it, and whatever comes after the parameter's name is, too.           *)
IsParameter(rest) ==
  \E i \in DOMAIN rest : rest[i] = "path" /\ \A j \in 1..i - 1 : rest[j] = "name"

(* normalizeTSNetStateStore; <<>> stands for an error.                     *)
normalizeTSNetStateStore(raw) ==
  IF IsPrefix(<<"kube:", "//">>, raw)
    THEN LET secret == After(<<"kube:", "//">>, raw)
         IN IF IsBlank(secret) THEN <<>> ELSE <<"kube:">> \o secret
  ELSE IF IsPrefix(<<"kube:">>, raw)
    THEN IF IsBlank(Tail(raw)) THEN <<>> ELSE raw
  ELSE IF IsPrefix(<<"aws:", "//">>, raw)
    THEN LET rest == After(<<"aws:", "//">>, raw)
         IN IF IsPrefix(<<"arn:aws:ssm:">>, rest) THEN rest
            ELSE IF IsParameter(rest) THEN <<"arn:aws:ssm:">> \o rest ELSE <<>>
  ELSE IF IsPrefix(<<"arn:aws:ssm:">>, raw) \/ IsPrefix(<<"mem:">>, raw) THEN raw
  ELSE <<>>

(* resolveTSNetState; without a store the state is a file in dir.          *)
resolveTSNetState(str, hostname) ==
  LET raw == TrimSpace(str)
      dir == <<"tsnet-">> \o tsnetStateDir(hostname)
      given == After(<<"file:", "//">>, raw)
      store == normalizeTSNetStateStore(raw)
  IN IF raw \in {<<>>, <<"file:", "//">>} THEN [dir |-> dir, store |-> <<>>]
     ELSE IF IsPrefix(<<"file:", "//">>, raw)
       THEN IF IsBlank(given) \/ \A i \in DOMAIN given : given[i] \in {"/", "//"}
              THEN Rejected
              ELSE [dir |-> given, store |-> <<>>]
     ELSE IF store = <<>> THEN Rejected
     ELSE [dir |-> dir, store |-> store]

-----------------------------------------------------------------------------
(* The hostnames DNS allows, in lower case.                                *)
IsLabel(hostname) == hostname # <<>> /\ \A i \in DOMAIN hostname : hostname[i] \in Safe
=============================================================================
