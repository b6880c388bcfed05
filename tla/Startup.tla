------------------------------ MODULE Startup ------------------------------
(***************************************************************************)
(* The credential of the server, from its configuration to its use.  main  *)
(* parses TAILSCALE_OAUTH_TOKEN, the advertised tags and TSNET_STATE, and  *)
(* ends at the first it refuses; reads the tailnet settings to validate    *)
(* the credential; and hands it to tsnet.  From then on the two Admin API  *)
(* clients (typed and generic) exchange it for access tokens whenever the  *)
(* one they have expires.  The ID token of a federated credential may be   *)
(* in a file, which a refresher outside of the server replaces, in one     *)
(* step or by truncating it first, and which is read at every exchange.    *)
(*                                                                         *)
(* A field of the credential counts only as blank or not.                  *)
(***************************************************************************)
EXTENDS TSNetState, FiniteSets

CONSTANTS
  Configs,   \* the configurations the server may be started with
  Life,      \* how long an ID token is valid, in ticks of the clock
  Access,    \* how long an access token is valid
  MaxTime,   \* bound of the clock
  None,      \* no token, no file
  Empty,     \* a file without content, a blank token
  Secret     \* the secret of an OAuth client or the key of a bearer

Fields == {"token", "clientId", "clientSecret", "idToken", "idTokenFile", "audience"}
Types == {"", "bearer", "oauth", "federated", "unknown", "other"}
Kinds == Types \ {""}
Clients == {"typed", "generic"}

ASSUME TokenAssumption ==
  /\ {None, Empty, Secret} \cap Nat = {}
  /\ None # Empty /\ None # Secret /\ Empty # Secret

ASSUME TimeAssumption == {Life, Access} \subseteq Nat \ {0} /\ MaxTime \in Nat

\* form: what the variable holds; type and has: the JSON object and its
\* fields that are not blank; clientKey: the token begins with tskey-client-;
\* envID: TAILSCALE_OAUTH_CLIENT_ID is set; tags: kinds of the listed parts;
\* scoped: the credential may read the tailnet settings.
ASSUME ConfigAssumption ==
  Configs \subseteq
    [form : {"empty", "garbled", "json", "client secret", "key"},
     type : Types, has : SUBSET Fields, clientKey : BOOLEAN, envID : BOOLEAN,
     tags : SUBSET {"blank", "tag", "other"}, stdio : BOOLEAN,
     scoped : BOOLEAN, state : Seq(Lexemes), hostname : Seq(Chars)]

VARIABLES
  config,    \* the configuration
  cred,      \* TailscaleCredential: its kind and the fields it has
  state,     \* tsnetStateConfig: [dir, store]
  pc,        \* main: "configure", "validate", "tsnet", "serving", "fatal"
  node,      \* the ID token tsnet was given (or Secret), None if none
  now,       \* the clock
  file,      \* idTokenFile: when its token was issued, or None or Empty
  access,    \* access[c]: when the client's access token was issued, None before
  at,        \* at[c]: "idle", "token", "exchange": where a call of c is
  presented, \* presented[c]: the ID token it is about to exchange
  outcome,   \* outcome[c]: "none", "ok", "failed": how its last call ended
  before     \* history: before[c]: what the file held when its call began

setup == <<config, cred, state>>
calls == <<access, at, presented, outcome>>
vars == <<setup, pc, node, now, file, calls, before>>

-----------------------------------------------------------------------------
(* Credentials.                                                            *)
classifyCredential(has) ==
  IF {"clientId", "clientSecret"} \subseteq has THEN "oauth"
  ELSE IF "clientId" \in has /\ has \cap {"idToken", "idTokenFile", "audience"} # {}
    THEN "federated"
  ELSE IF "token" \in has THEN "bearer"
  ELSE "unknown"

AudienceSuffices(c) == c.kind # "unknown" /\ classifyCredential(c.has) = c.kind

(* validate: what each kind cannot do without.                             *)
validate(c) ==
  \/ c.kind = "oauth" /\ {"clientId", "clientSecret"} \subseteq c.has
  \/ c.kind = "federated" /\ "clientId" \in c.has /\ c.has \cap {"idToken", "idTokenFile"} # {}
  \/ c.kind = "bearer" /\ "token" \in c.has

Refused == [kind |-> "unknown", has |-> {}]

(* ParseTailscaleCredentialWithClientID.                                   *)
Parse(c) ==
  LET json == [kind |-> IF c.type = "" THEN classifyCredential(c.has) ELSE c.type, has |-> c.has]
  IN CASE c.form = "json" /\ validate(json) -> json
       [] c.form = "client secret" /\ c.envID ->
            [kind |-> "oauth", has |-> {"clientId", "clientSecret"}]
       [] c.form = "key" -> [kind |-> "bearer", has |-> {"token"}]
       [] OTHER -> Refused

(* advertiseTagsRequired; parseAdvertiseTags skips the blank parts.        *)
RequiresTags(c, k) ==
  \/ k.kind \in {"oauth", "federated"}
  \/ k.kind = "bearer" /\ c.form = "json" /\ c.clientKey

TagsOK(c, k) ==
  /\ "other" \notin c.tags
  /\ ~c.stdio /\ RequiresTags(c, k) => "tag" \in c.tags


-----------------------------------------------------------------------------
Named == "idTokenFile" \in config.has

Init ==
  /\ config \in Configs
  /\ cred = Refused /\ state = Rejected
  /\ pc = "configure" /\ node = None
  /\ now = 0 /\ file \in IF Named THEN {None, Empty, 0} ELSE {None}
  /\ access = [c \in Clients |-> None] /\ presented = [c \in Clients |-> None]
  /\ at = [c \in Clients |-> "idle"] /\ outcome = [c \in Clients |-> "none"]
  /\ before = [c \in Clients |-> None]

\* main up to the clients: anything refused is fatal.
Configure ==
  /\ pc = "configure"
  /\ cred' = Parse(config)
  /\ state' = resolveTSNetState(config.state, config.hostname)
  /\ pc' = IF cred' = Refused \/ state' = Rejected \/ ~TagsOK(config, cred')
             THEN "fatal" ELSE "validate"
  /\ UNCHANGED <<config, node, now, file, calls, before>>

EmptyAccepted(content) ==
  IF "idTokenFile" \in cred.has THEN content ELSE 0

ReadOnce(content) == IF content \in Nat THEN 0 ELSE None

(* idToken: the token of the configuration, issued before the start, or    *)
(* else what the file holds, an error (None) if it is missing or empty.    *)
idToken(content) ==
  IF "idTokenFile" \notin cred.has THEN IF "idToken" \in cred.has THEN 0 ELSE Empty
  ELSE IF content \in Nat THEN content ELSE None

-----------------------------------------------------------------------------
(* A call of one of the clients.  The transport of AdminAuth has an access *)
(* token and gets another when that expires; a bearer needs none.          *)
Authorized(c) ==
  cred.kind = "bearer" \/ (access[c] # None /\ now < access[c] + Access)

(* How a call ends: startup's own, the validation, decides on serving.     *)
End(c, result) ==
  LET valid == result = "ok" /\ config.scoped
  IN /\ at' = [at EXCEPT ![c] = "idle"]
     /\ presented' = [presented EXCEPT ![c] = None]
     /\ before' = [before EXCEPT ![c] = None]
     /\ outcome' = [outcome EXCEPT ![c] = result]
     /\ pc' = CASE pc # "validate" -> pc
                [] pc = "validate" /\ ~valid -> "fatal"
                [] OTHER -> IF config.stdio THEN "serving" ELSE "tsnet"

Begin(c) ==
  /\ pc = "serving" \/ (pc = "validate" /\ c = "typed")
  /\ at[c] = "idle"
  /\ IF Authorized(c)
       THEN End(c, "ok")
       ELSE /\ at' = [at EXCEPT ![c] = "token"]
            /\ before' = [before EXCEPT ![c] = file]
            /\ UNCHANGED <<presented, outcome, pc>>
  /\ UNCHANGED <<setup, node, now, file, access>>

GetIDToken(c) ==
  /\ at[c] = "token"
  /\ LET token == IF cred.kind = "oauth" THEN Secret ELSE idToken(file)
     IN IF token = None
          THEN End(c, "failed")
          ELSE /\ at' = [at EXCEPT ![c] = "exchange"]
               /\ presented' = [presented EXCEPT ![c] = token]
               /\ UNCHANGED <<outcome, pc, before>>
  /\ UNCHANGED <<setup, node, now, file, access>>

(* The identity provider accepts an ID token until it expires.             *)
Accepted(token) == token = Secret \/ (token \in Nat /\ now < token + Life)

Exchange(c) ==
  /\ at[c] = "exchange"
  /\ IF Accepted(presented[c])
       THEN End(c, "ok") /\ access' = [access EXCEPT ![c] = now]
       ELSE End(c, "failed") /\ UNCHANGED access
  /\ UNCHANGED <<setup, node, now, file>>

\* ConfigureTSNet: a missing ID token is only logged.
ConfigureTSNet ==
  /\ pc = "tsnet"
  /\ node' = IF cred.kind = "federated" THEN idToken(file) ELSE Secret
  /\ pc' = "serving"
  /\ UNCHANGED <<setup, now, file, calls, before>>

-----------------------------------------------------------------------------
Rewrite(content) ==
  /\ Named /\ pc # "fatal"
  /\ file' = content
  /\ UNCHANGED <<setup, pc, node, now, calls, before>>

\* The refresher replaces the file, truncates it first, or removes it.
Refresh == Rewrite(now) /\ file # now
Truncate == Rewrite(Empty) /\ file \in Nat
Unmount == Rewrite(None) /\ file # None

Tick ==
  /\ pc # "fatal" /\ now < MaxTime /\ now' = now + 1
  /\ UNCHANGED <<setup, pc, node, file, calls, before>>

Call(c) == Begin(c) \/ GetIDToken(c) \/ Exchange(c)
Outside == Tick \/ Refresh \/ Truncate \/ Unmount

Next == Configure \/ ConfigureTSNet \/ Outside \/ \E c \in Clients : Call(c)

Spec == Init /\ [][Next]_vars

(* main goes on, and so do the callers of both clients.                    *)
FairSpec ==
  /\ Spec
  /\ WF_vars(Configure) /\ WF_vars(ConfigureTSNet)
  /\ \A c \in Clients : WF_vars(Call(c))

-----------------------------------------------------------------------------
Contents == Nat \cup {None, Empty}

(* The type invariant.                                                     *)
TypeOK ==
  /\ cred \in [kind : Kinds, has : SUBSET Fields]
  /\ DOMAIN state = {"dir", "store"}
  /\ pc \in {"configure", "validate", "tsnet", "serving", "fatal"}
  /\ node \in Nat \cup {None, Secret}
  /\ now \in 0..MaxTime /\ file \in Contents
  /\ access \in [Clients -> (0..now) \cup {None}]
  /\ at \in [Clients -> {"idle", "token", "exchange"}]
  /\ presented \in [Clients -> Nat \cup {None, Secret}]
  /\ outcome \in [Clients -> {"none", "ok", "failed"}]
  /\ before \in [Clients -> Contents]

FromFile == cred.kind = "federated" /\ "idTokenFile" \in cred.has

(* What is not fatal at startup can work: the credential has been          *)
(* validated with the API before anything is served, nothing blank is ever *)
(* exchanged for an access token, a node whose key has to be minted has    *)
(* tags to advertise and no part of the list is anything but a tag, the    *)
(* state is in a store tsnet has a provider for, or in a directory, which  *)
(* by default differs from that of every other DNS name of that length.    *)
(* And tsnet comes up without its ID token only if that is in a file.      *)
StartupSound ==
  pc \in {"validate", "tsnet", "serving"} =>
    /\ pc # "validate" => config.scoped /\ outcome["typed"] # "none"
    /\ \A c \in Clients : presented[c] # Empty
    /\ ~config.stdio /\ (cred.kind = "bearer" => config.form = "json" /\ config.clientKey)
         => "tag" \in config.tags
    /\ "other" \notin config.tags
    /\ state.store # <<>> => Head(state.store) \in {"kube:", "arn:aws:ssm:", "mem:"}
    /\ Head(state.dir) = "tsnet-" /\ IsLabel(config.hostname) =>
         \A h \in [1..Len(config.hostname) -> Safe] :
           resolveTSNetState(<<>>, h).dir = state.dir => h = config.hostname
    /\ pc = "serving" /\ ~config.stdio /\ node = None => FromFile

(* An ID token from the file that is exchanged was in the file no earlier  *)
(* than the call began: never one that had been replaced by then, and      *)
(* never the blank one of a file that was being written.                   *)
FreshToken ==
  \A c \in Clients :
    FromFile /\ at[c] = "exchange" =>
      presented[c] \in Nat /\ (before[c] \in Nat => presented[c] >= before[c])

FileFresh == file \in Nat /\ now < file + Life

(* Once the file holds valid tokens again, calls succeed again, without a  *)
(* restart of the server (the comment on idToken).                         *)
Recovers ==
  \A c \in Clients :
    <>[](pc = "serving" /\ FromFile /\ FileFresh) => <>[](outcome[c] = "ok")
=============================================================================
