---------------------------- MODULE StartupProofs ----------------------------
(***************************************************************************)
(* ID tokens from a file, for any lifetimes, any sequence of rewrites,     *)
(* truncations and removals of the file, and calls of both clients at any  *)
(* moment: what is exchanged is never older than the call.  And, for every *)
(* configuration, what main has made sure of before it goes on.            *)
(***************************************************************************)
EXTENDS Startup, WellFoundedInduction, TLAPS

(* FreshToken speaks of calls about to exchange only.  The invariant that  *)
(* carries it: the tokens in the file are from the past and come in the    *)
(* order of their times, so from the beginning of a call on, the file      *)
(* holds none that is older than the one it held then; and no call is on   *)
(* before the credential is known.                                         *)
FileOK == now \in Nat /\ file \in Nat \cup {None, Empty} /\ (file \in Nat => file <= now)

CallOK(c) ==
  /\ at[c] # "idle" =>
       /\ pc # "configure"
       /\ before[c] \in Nat =>
            before[c] <= now /\ (file \in Nat => before[c] <= file)
  /\ FromFile /\ at[c] = "exchange" =>
       presented[c] \in Nat /\ (before[c] \in Nat => presented[c] >= before[c])

CallTypes ==
  /\ at \in [Clients -> {"idle", "token", "exchange"}]
  /\ DOMAIN before = Clients /\ DOMAIN presented = Clients

TokenInv == CallTypes /\ FileOK /\ \A c \in Clients : CallOK(c)

-----------------------------------------------------------------------------
LEMMA TokenInit == Init => TokenInv
BY TokenAssumption DEF Init, TokenInv, CallTypes, FileOK, CallOK, Named

(* The clock and the refresher keep the order of the tokens.               *)
LEMMA OutsideStep == TokenInv /\ Outside => TokenInv'
<1> SUFFICES ASSUME TokenInv, Outside PROVE TokenInv'
  OBVIOUS
<1>1. UNCHANGED <<at, before, presented, pc>> /\ (FromFile <=> FromFile')
  BY DEF Outside, Tick, Refresh, Truncate, Unmount, Rewrite, setup, calls, FromFile
<1>2. FileOK' /\ now' \in Nat /\ now <= now'
  <2>1. CASE Tick
    BY <2>1 DEF Tick, TokenInv, FileOK
  <2>2. CASE Refresh \/ Truncate \/ Unmount
    BY <2>2, TokenAssumption DEF Refresh, Truncate, Unmount, Rewrite, TokenInv, FileOK
  <2> QED
    BY <2>1, <2>2 DEF Outside
<1>3. file' \in Nat => file' = now \/ file' = file
  BY TokenAssumption DEF Outside, Tick, Refresh, Truncate, Unmount, Rewrite
<1>4. ASSUME NEW c \in Clients PROVE CallOK(c)'
  <2>1. CallOK(c) /\ FileOK
    BY DEF TokenInv
  <2>2. ASSUME at[c] # "idle", before[c] \in Nat
        PROVE  before[c] <= now' /\ (file' \in Nat => before[c] <= file')
    BY <1>2, <1>3, <2>1, <2>2 DEF CallOK, FileOK
  <2> QED
    BY <1>1, <2>1, <2>2 DEF CallOK
<1> QED
  BY <1>1, <1>2, <1>4 DEF TokenInv, CallTypes

(* What End does to its own client, and to the others.                     *)
LEMMA Ended ==
  ASSUME CallTypes, NEW c \in Clients, NEW result, End(c, result)
  PROVE  /\ CallTypes' /\ at'[c] = "idle"
         /\ \A o \in Clients \ {c} :
              at'[o] = at[o] /\ before'[o] = before[o] /\ presented'[o] = presented[o]
         /\ pc # "configure" => pc' # "configure"
BY DEF End, CallTypes

(* A step of a client disturbs no other client.                            *)
LEMMA CallStep == TokenInv /\ (\E c \in Clients : Call(c)) => TokenInv'
<1> SUFFICES ASSUME TokenInv, NEW c \in Clients, Call(c) PROVE TokenInv'
  OBVIOUS
<1>1. CallTypes /\ FileOK /\ \A o \in Clients : CallOK(o)
  BY DEF TokenInv
<1>2. UNCHANGED <<file, now, setup, node>>
  BY DEF Call, Begin, GetIDToken, Exchange
<1>3. FileOK' /\ (FromFile <=> FromFile')
  BY <1>1, <1>2 DEF FileOK, FromFile, setup
<1>4. pc # "configure"
  BY <1>1 DEF Call, Begin, GetIDToken, Exchange, CallOK
<1>5. ASSUME NEW result, End(c, result) PROVE TokenInv'
  <2>1. ASSUME NEW o \in Clients PROVE CallOK(o)'
    BY <1>1, <1>2, <1>3, <1>4, <1>5, <2>1, Ended DEF CallOK
  <2> QED
    BY <1>1, <1>3, <1>5, <2>1, Ended DEF TokenInv
<1>6. CASE Begin(c)
  <2>1. CASE Authorized(c)
    BY <1>5, <1>6, <2>1 DEF Begin
  <2>2. CASE ~Authorized(c)
    <3>1. /\ at' = [at EXCEPT ![c] = "token"] /\ before' = [before EXCEPT ![c] = file]
          /\ UNCHANGED <<presented, pc>>
      BY <1>6, <2>2 DEF Begin
    <3>2. ASSUME NEW o \in Clients PROVE CallOK(o)'
      <4>1. CASE o = c
        BY <1>1, <1>2, <1>4, <3>1, <4>1 DEF CallTypes, CallOK, FileOK
      <4>2. CASE o # c
        BY <1>1, <1>2, <1>3, <3>1, <4>2 DEF CallTypes, CallOK
      <4> QED
        BY <4>1, <4>2
    <3> QED
      BY <1>1, <1>3, <3>1, <3>2 DEF TokenInv, CallTypes
  <2> QED
    BY <2>1, <2>2
<1>7. CASE GetIDToken(c)
  <2> DEFINE token == IF cred.kind = "oauth" THEN Secret ELSE idToken(file)
  <2>1. CASE token = None
    BY <1>5, <1>7, <2>1 DEF GetIDToken
  <2>2. CASE token # None
    <3>1. /\ at[c] = "token"
          /\ at' = [at EXCEPT ![c] = "exchange"]
          /\ presented' = [presented EXCEPT ![c] = token]
          /\ UNCHANGED <<pc, before>>
      BY <1>7, <2>2 DEF GetIDToken
    <3>2. FromFile => token = file /\ file \in Nat
      BY <2>2 DEF FromFile, idToken
    <3>3. ASSUME NEW o \in Clients PROVE CallOK(o)'
      <4>1. CASE o = c
        <5>1. before[c] \in Nat => before[c] <= now /\ (file \in Nat => before[c] <= file)
          BY <1>1, <3>1 DEF CallOK
        <5>2. presented'[c] = token /\ before'[c] = before[c] /\ at'[c] = "exchange"
          BY <1>1, <3>1 DEF CallTypes
        <5> HIDE DEF token
        <5> QED
          BY <1>2, <1>3, <1>4, <3>1, <3>2, <4>1, <5>1, <5>2 DEF CallOK
      <4>2. CASE o # c
        BY <1>1, <1>2, <1>3, <3>1, <4>2 DEF CallTypes, CallOK
      <4> QED
        BY <4>1, <4>2
    <3> QED
      BY <1>1, <1>3, <3>1, <3>3 DEF TokenInv, CallTypes
  <2> QED
    BY <2>1, <2>2
<1>8. CASE Exchange(c)
  BY <1>5, <1>8 DEF Exchange
<1> QED
  BY <1>6, <1>7, <1>8 DEF Call

LEMMA TokenStep == TokenInv /\ [Next]_vars => TokenInv'
<1> SUFFICES ASSUME TokenInv, [Next]_vars PROVE TokenInv'
  OBVIOUS
<1>1. CASE Configure
  <2>1. UNCHANGED <<file, now, at, before, presented>> /\ pc = "configure"
    BY <1>1 DEF Configure, calls
  <2>2. \A c \in Clients : at[c] = "idle"
    BY <2>1 DEF TokenInv, CallOK
  <2> QED
    BY <2>1, <2>2 DEF TokenInv, CallTypes, FileOK, CallOK
<1>2. CASE ConfigureTSNet
  BY <1>2 DEF ConfigureTSNet, TokenInv, CallTypes, FileOK, CallOK, FromFile, setup, calls
<1>3. CASE UNCHANGED vars
  BY <1>3 DEF vars, TokenInv, CallTypes, FileOK, CallOK, FromFile, setup, calls
<1> QED
  BY <1>1, <1>2, <1>3, OutsideStep, CallStep DEF Next

(* A token from the file that is exchanged was in it no earlier than the   *)
(* call began (idToken reads the file at every exchange).                  *)
THEOREM TokensFresh == Spec => []FreshToken
<1>1. TokenInv => FreshToken
  BY DEF TokenInv, CallOK, FreshToken
<1> QED
  BY <1>1, TokenInit, TokenStep, PTL DEF Spec

-----------------------------------------------------------------------------
(* TypeOK says that nothing blank is handed to tsnet or exchanged, which   *)
(* rests on the validation of the credential: one that is used to get a    *)
(* token has the field the token is read from.                             *)
Validated ==
  /\ cred.kind \in {"bearer", "oauth", "federated"}
  /\ cred.kind = "federated" => cred.has \cap {"idToken", "idTokenFile"} # {}

UsedInv ==
  /\ config \in Configs
  /\ pc \in {"validate", "tsnet", "serving"} => Validated
  /\ \A c \in Clients : at[c] # "idle" => pc # "configure" /\ Validated /\ cred.kind # "bearer"

TypeInv == TypeOK /\ UsedInv

LEMMA TypeInit == Init => TypeInv
<1> SUFFICES ASSUME Init PROVE TypeInv
  OBVIOUS
<1>1. 0 \in 0..MaxTime
  BY TimeAssumption
<1> QED
  BY <1>1 DEF Init, TypeInv, TypeOK, UsedInv, Refused, Rejected, Kinds, Types, Contents

(* What idToken returns of a validated credential is no blank token.       *)
LEMMA TokenTyped ==
  ASSUME Validated, cred.kind = "federated", NEW content \in Contents
  PROVE  idToken(content) \in Nat \cup {None}
BY DEF Validated, Contents, idToken

(* A credential that is not refused has been validated.                    *)
LEMMA ParseValidated ==
  ASSUME NEW c \in Configs
  PROVE  /\ Parse(c) \in [kind : Kinds, has : SUBSET Fields]
         /\ Parse(c) # Refused =>
              /\ Parse(c).kind \in {"bearer", "oauth", "federated"}
              /\ Parse(c).kind = "federated" => Parse(c).has \cap {"idToken", "idTokenFile"} # {}
<1> DEFINE json == [kind |-> IF c.type = "" THEN classifyCredential(c.has) ELSE c.type, has |-> c.has]
<1>1. c.type \in Types /\ c.has \in SUBSET Fields
  BY ConfigAssumption
<1>2. classifyCredential(c.has) \in {"oauth", "federated", "bearer", "unknown"}
  BY DEF classifyCredential
<1>3. json.kind \in Kinds /\ json.has \in SUBSET Fields /\ json \in [kind : Kinds, has : SUBSET Fields]
  BY <1>1, <1>2 DEF Kinds, Types
<1>4. CASE c.form = "json" /\ validate(json)
  BY <1>3, <1>4 DEF Parse, validate
<1>5. CASE c.form = "client secret" /\ c.envID
  BY <1>5 DEF Parse, Kinds, Types, Fields
<1>6. CASE c.form = "key"
  BY <1>6 DEF Parse, Kinds, Types, Fields
<1>7. CASE /\ ~(c.form = "json" /\ validate(json)) /\ ~(c.form = "client secret" /\ c.envID)
           /\ c.form # "key"
  <2>1. Parse(c) = Refused
    BY <1>7 DEF Parse
  <2> QED
    BY <2>1 DEF Refused, Kinds, Types
<1> QED
  BY <1>4, <1>5, <1>6, <1>7

LEMMA StateTyped ==
  ASSUME NEW str, NEW hostname
  PROVE  DOMAIN resolveTSNetState(str, hostname) = {"dir", "store"}
BY DEF resolveTSNetState, Rejected

LEMMA EndTyped ==
  ASSUME TypeInv, NEW c \in Clients, NEW result \in {"ok", "failed"}, End(c, result),
         pc # "configure", UNCHANGED <<setup, node, now, file>>,
         access' \in [Clients -> (0..now) \cup {None}]
  PROVE  TypeInv'
<1>1. /\ at' = [at EXCEPT ![c] = "idle"] /\ presented' = [presented EXCEPT ![c] = None]
      /\ before' = [before EXCEPT ![c] = None] /\ outcome' = [outcome EXCEPT ![c] = result]
      /\ pc' \in {pc, "fatal", "serving", "tsnet"} /\ (pc' # pc => pc = "validate")
  BY DEF End
<1>2. UsedInv'
  BY <1>1 DEF TypeInv, TypeOK, UsedInv, Validated, setup
<1>3. TypeOK'
  BY <1>1 DEF TypeInv, TypeOK, setup, Contents
<1> QED
  BY <1>2, <1>3 DEF TypeInv

LEMMA TypeCall == TypeInv /\ (\E c \in Clients : Call(c)) => TypeInv'
<1> SUFFICES ASSUME TypeInv, NEW c \in Clients, Call(c) PROVE TypeInv'
  OBVIOUS
<1>1. UNCHANGED <<setup, node, now, file>> /\ pc # "configure"
  BY DEF Call, Begin, GetIDToken, Exchange, TypeInv, UsedInv
<1>2. access \in [Clients -> (0..now) \cup {None}] /\ now \in 0..now
  BY TimeAssumption DEF TypeInv, TypeOK
<1>3. CASE Begin(c)
  <2>1. CASE Authorized(c)
    BY <1>1, <1>2, <1>3, <2>1, EndTyped DEF Begin
  <2>2. CASE ~Authorized(c)
    <3>1. /\ at' = [at EXCEPT ![c] = "token"] /\ before' = [before EXCEPT ![c] = file]
          /\ UNCHANGED <<presented, outcome, pc, access>> /\ pc \in {"serving", "validate"}
          /\ cred.kind # "bearer"
      BY <1>3, <2>2 DEF Begin, Authorized
    <3>2. UsedInv'
      BY <1>1, <3>1 DEF TypeInv, TypeOK, UsedInv, Validated, setup
    <3>3. TypeOK'
      BY <1>1, <3>1 DEF TypeInv, TypeOK, setup, Contents
    <3> QED
      BY <3>2, <3>3 DEF TypeInv
  <2> QED
    BY <2>1, <2>2
<1>4. CASE GetIDToken(c)
  <2> DEFINE token == IF cred.kind = "oauth" THEN Secret ELSE idToken(file)
  <2>1. CASE token = None
    BY <1>1, <1>2, <1>4, <2>1, EndTyped DEF GetIDToken
  <2>2. CASE token # None
    <3>1. /\ at[c] = "token" /\ at' = [at EXCEPT ![c] = "exchange"]
          /\ presented' = [presented EXCEPT ![c] = token]
          /\ UNCHANGED <<outcome, pc, before, access>>
      BY <1>4, <2>2 DEF GetIDToken
    <3>2. token \in Nat \cup {None, Secret}
      BY <3>1, TokenTyped DEF TypeInv, TypeOK, UsedInv, Validated
    <3> HIDE DEF token
    <3>3. UsedInv'
      BY <1>1, <3>1 DEF TypeInv, TypeOK, UsedInv, Validated, setup
    <3>4. TypeOK'
      BY <1>1, <3>1, <3>2 DEF TypeInv, TypeOK, setup, Contents
    <3> QED
      BY <3>3, <3>4 DEF TypeInv
  <2> QED
    BY <2>1, <2>2
<1>5. CASE Exchange(c)
  <2>1. CASE Accepted(presented[c])
    <3>1. access' \in [Clients -> (0..now) \cup {None}]
      BY <1>2, <1>5, <2>1 DEF Exchange
    <3> QED
      BY <1>1, <1>5, <2>1, <3>1, EndTyped DEF Exchange
  <2>2. CASE ~Accepted(presented[c])
    BY <1>1, <1>2, <1>5, <2>2, EndTyped DEF Exchange
  <2> QED
    BY <2>1, <2>2
<1> QED
  BY <1>3, <1>4, <1>5 DEF Call

LEMMA TypeStep == TypeInv /\ [Next]_vars => TypeInv'
<1> SUFFICES ASSUME TypeInv, [Next]_vars PROVE TypeInv'
  OBVIOUS
<1>1. CASE Configure
  <2>1. /\ pc = "configure" /\ UNCHANGED <<config, node, now, file, calls, before>>
        /\ cred' = Parse(config) /\ state' = resolveTSNetState(config.state, config.hostname)
        /\ pc' \in {"fatal", "validate"} /\ (pc' = "validate" => cred' # Refused)
    BY <1>1 DEF Configure
  <2>2. /\ cred' \in [kind : Kinds, has : SUBSET Fields] /\ (pc' = "validate" => Validated')
        /\ DOMAIN state' = {"dir", "store"}
    BY <2>1, ParseValidated, StateTyped DEF TypeInv, UsedInv, Validated
  <2>3. UsedInv'
    BY <2>1, <2>2 DEF TypeInv, UsedInv, calls
  <2>4. TypeOK'
    BY <2>1, <2>2 DEF TypeInv, TypeOK, calls
  <2> QED
    BY <2>3, <2>4 DEF TypeInv
<1>2. CASE ConfigureTSNet
  <2>1. /\ pc = "tsnet" /\ pc' = "serving" /\ UNCHANGED <<setup, now, file, calls, before>>
        /\ node' = IF cred.kind = "federated" THEN idToken(file) ELSE Secret
    BY <1>2 DEF ConfigureTSNet
  <2>2. node' \in Nat \cup {None, Secret}
    BY <2>1, TokenTyped DEF TypeInv, TypeOK, UsedInv
  <2>3. UsedInv'
    BY <2>1 DEF TypeInv, UsedInv, Validated, setup, calls
  <2>4. TypeOK'
    BY <2>1, <2>2 DEF TypeInv, TypeOK, setup, calls
  <2> QED
    BY <2>3, <2>4 DEF TypeInv
<1>3. CASE Outside
  <2>1. UNCHANGED <<setup, pc, node, calls, before>>
    BY <1>3 DEF Outside, Tick, Refresh, Truncate, Unmount, Rewrite
  <2>2. /\ now' \in 0..MaxTime /\ (0..now) \subseteq (0..now') /\ file' \in Contents
    <3>1. CASE Tick
      BY <3>1, TimeAssumption DEF Tick, TypeInv, TypeOK
    <3>2. CASE Refresh \/ Truncate \/ Unmount
      <4>1. now' = now /\ file' \in {now, Empty, None}
        BY <3>2 DEF Refresh, Truncate, Unmount, Rewrite
      <4> QED
        BY <4>1, TimeAssumption DEF TypeInv, TypeOK, Contents
    <3> QED
      BY <1>3, <3>1, <3>2 DEF Outside
  <2>3. UsedInv'
    BY <2>1 DEF TypeInv, UsedInv, Validated, setup, calls
  <2>4. TypeOK'
    BY <2>1, <2>2 DEF TypeInv, TypeOK, setup, calls
  <2> QED
    BY <2>3, <2>4 DEF TypeInv
<1>4. CASE UNCHANGED vars
  BY <1>4 DEF vars, TypeInv, TypeOK, UsedInv, Validated, setup, calls
<1> QED
  BY <1>1, <1>2, <1>3, <1>4, TypeCall DEF Next

(* Every state is well-typed; in particular no blank token is kept.        *)
THEOREM TypeCorrect == Spec => []TypeOK
<1>1. TypeInv => TypeOK
  BY DEF TypeInv
<1> QED
  BY <1>1, TypeInit, TypeStep, PTL DEF Spec

-----------------------------------------------------------------------------
(* TSNET_STATE and the hostname.                                           *)

(* A nonempty set of positions has a first and a last one.                 *)
LEMMA FirstPosition ==
  ASSUME NEW S \in SUBSET Nat, S # {}
  PROVE  \E i \in S : \A j \in S : i <= j
<1> DEFINE Less == {pair \in Nat \X Nat : pair[1] < pair[2]}
<1>1. IsWellFoundedOn(Less, Nat)
  BY NatLessThanWellFounded DEF OpToRel
<1> HIDE DEF Less
<1>2. PICK i \in S : \A j \in S : ~(<<j, i>> \in Less)
  BY <1>1, WFMin
<1>3. \A j \in S : ~(j < i)
  BY <1>2 DEF Less
<1> QED
  BY <1>3

LEMMA LastPosition ==
  ASSUME NEW n \in Nat, NEW S \in SUBSET (1..n), S # {}
  PROVE  \E i \in S : \A j \in S : i >= j
<1> DEFINE FromEnd == {n - i : i \in S}
<1>1. FromEnd \in SUBSET Nat /\ FromEnd # {}
  <2>1. \A i \in S : i \in 1..n /\ n - i \in Nat
    OBVIOUS
  <2> QED
    BY <2>1
<1>2. PICK x \in FromEnd : \A y \in FromEnd : x <= y
  BY <1>1, FirstPosition
<1>3. PICK i \in S : x = n - i
  OBVIOUS
<1>4. ASSUME NEW j \in S PROVE i >= j
  <2>1. n - j \in FromEnd
    OBVIOUS
  <2> QED
    BY <2>1, <1>2, <1>3
<1> QED
  BY <1>4

(* TrimSpace returns a part of what it is given, ...                       *)
LEMMA TrimTyped ==
  ASSUME NEW S, NEW str \in Seq(S)
  PROVE  TrimSpace(str) \in Seq(S)
<1> DEFINE solid == {i \in DOMAIN str : str[i] # " "}
<1>1. TrimSpace(str) = IF solid = {} THEN << >> ELSE SubSeq(str, Min(solid), Max(solid))
  BY DEF TrimSpace
<1>2. solid \in SUBSET (1..Len(str)) /\ Len(str) \in Nat
  <2>1. DOMAIN str = 1..Len(str) /\ Len(str) \in Nat
    OBVIOUS
  <2>2. \A i \in solid : i \in DOMAIN str
    OBVIOUS
  <2> QED
    BY <2>1, <2>2
<1> HIDE DEF solid
<1>3. ASSUME solid # {} PROVE SubSeq(str, Min(solid), Max(solid)) \in Seq(S)
  <2>1. \E i \in solid : \A j \in solid : i <= j
    <3>1. solid \in SUBSET Nat
      BY <1>2
    <3> QED
      BY <1>3, <3>1, FirstPosition
  <2>2. \E i \in solid : \A j \in solid : i >= j
    BY <1>2, <1>3, LastPosition
  <2>3. Min(solid) \in solid /\ Max(solid) \in solid
    BY <2>1, <2>2 DEF Min, Max
  <2>4. Min(solid) \in 1..Len(str) /\ Max(solid) \in 1..Len(str)
    BY <1>2, <2>3
  <2> QED
    BY <1>2, <2>4
<1>4. << >> \in Seq(S)
  OBVIOUS
<1> QED
  BY <1>1, <1>3, <1>4

(* ... and all of it if it has no blanks.                                  *)
LEMMA TrimLabel ==
  ASSUME NEW n \in Nat \ {0}, NEW str \in [1..n -> Safe]
  PROVE  TrimSpace(str) = str
<1> DEFINE solid == {i \in DOMAIN str : str[i] # " "}
<1>1. TrimSpace(str) = IF solid = {} THEN << >> ELSE SubSeq(str, Min(solid), Max(solid))
  BY DEF TrimSpace
<1>2. solid = 1..n
  BY DEF Safe
<1>3. Min(1..n) = 1 /\ Max(1..n) = n
  <2>1. 1 \in 1..n /\ n \in 1..n
    OBVIOUS
  <2> QED
    BY <2>1 DEF Min, Max
<1>4. SubSeq(str, 1, n) = str
  <2>1. str \in Seq(Safe) /\ Len(str) = n
    OBVIOUS
  <2> QED
    BY <2>1
<1>5. 1..n # {}
  OBVIOUS
<1> HIDE DEF solid
<1> QED
  BY <1>1, <1>2, <1>3, <1>4, <1>5

(* A hostname that is a label is its own directory.                        *)
LEMMA LabelDir ==
  ASSUME NEW n \in Nat \ {0}, NEW str \in [1..n -> Safe]
  PROVE  tsnetStateDir(str) = str
<1>1. TrimSpace(str) = str /\ DOMAIN str = 1..n /\ str # << >>
  BY TrimLabel
<1>2. \A i \in 1..n : str[i] \in Safe /\ Lower(str[i]) = str[i]
  BY DEF Lower, Safe
<1> QED
  BY <1>1, <1>2 DEF tsnetStateDir

(* A store is one of a provider of tsnet.                                  *)
LEMMA StoreKind ==
  ASSUME NEW raw \in Seq(Lexemes), normalizeTSNetStateStore(raw) # << >>
  PROVE  Head(normalizeTSNetStateStore(raw)) \in {"kube:", "arn:aws:ssm:", "mem:"}
<1> DEFINE store == normalizeTSNetStateStore(raw)
<1>1. ASSUME NEW x, IsPrefix(<<x>>, raw) PROVE Head(raw) = x
  BY <1>1 DEF IsPrefix
<1>2. ASSUME NEW x, NEW y, IsPrefix(<<x, y>>, raw)
      PROVE  After(<<x, y>>, raw) \in Seq(Lexemes)
  BY <1>2 DEF IsPrefix, After
<1>3. CASE IsPrefix(<<"kube:", "//">>, raw)
  BY <1>2, <1>3 DEF normalizeTSNetStateStore
<1>4. CASE ~IsPrefix(<<"kube:", "//">>, raw) /\ IsPrefix(<<"kube:">>, raw)
  BY <1>1, <1>4 DEF normalizeTSNetStateStore
<1>5. CASE /\ ~IsPrefix(<<"kube:", "//">>, raw) /\ ~IsPrefix(<<"kube:">>, raw)
           /\ IsPrefix(<<"aws:", "//">>, raw)
  <2> DEFINE rest == After(<<"aws:", "//">>, raw)
  <2>1. rest \in Seq(Lexemes)
    BY <1>2, <1>5
  <2>2. IsPrefix(<<"arn:aws:ssm:">>, rest) => Head(rest) = "arn:aws:ssm:"
    BY <2>1 DEF IsPrefix
  <2>3. store = IF IsPrefix(<<"arn:aws:ssm:">>, rest) THEN rest
                ELSE IF IsParameter(rest) THEN <<"arn:aws:ssm:">> \o rest ELSE << >>
    BY <1>5 DEF normalizeTSNetStateStore
  <2>4. Head(<<"arn:aws:ssm:">> \o rest) = "arn:aws:ssm:"
    BY <2>1
  <2> HIDE DEF rest, store
  <2>5. Head(store) = "arn:aws:ssm:"
    <3>1. store # << >>
      BY DEF store
    <3> QED
      BY <2>2, <2>3, <2>4, <3>1
  <2> QED
    BY <2>5 DEF store
<1>6. CASE /\ ~IsPrefix(<<"kube:", "//">>, raw) /\ ~IsPrefix(<<"kube:">>, raw)
           /\ ~IsPrefix(<<"aws:", "//">>, raw)
  BY <1>1, <1>6 DEF normalizeTSNetStateStore
<1> QED
  BY <1>3, <1>4, <1>5, <1>6

(* What resolveTSNetState says of the store and the directory.             *)
LEMMA Resolved ==
  ASSUME NEW str \in Seq(Lexemes), NEW hostname, resolveTSNetState(str, hostname) # Rejected
  PROVE  LET result == resolveTSNetState(str, hostname)
         IN /\ result.store # << >> => Head(result.store) \in {"kube:", "arn:aws:ssm:", "mem:"}
            /\ Head(result.dir) = "tsnet-" => result.dir = <<"tsnet-">> \o tsnetStateDir(hostname)
<1> DEFINE raw == TrimSpace(str)
           dir == <<"tsnet-">> \o tsnetStateDir(hostname)
           given == After(<<"file:", "//">>, raw)
           store == normalizeTSNetStateStore(raw)
           result == resolveTSNetState(str, hostname)
<1>1. raw \in Seq(Lexemes)
  BY TrimTyped
<1>2. store # << >> => Head(store) \in {"kube:", "arn:aws:ssm:", "mem:"}
  BY <1>1, StoreKind
<1>3. \/ result = [dir |-> dir, store |-> << >>]
      \/ /\ IsPrefix(<<"file:", "//">>, raw) /\ ~IsBlank(given) /\ result = [dir |-> given, store |-> << >>]
      \/ store # << >> /\ result = [dir |-> dir, store |-> store]
  BY DEF resolveTSNetState
<1> HIDE DEF result, dir, store
<1>4. ASSUME IsPrefix(<<"file:", "//">>, raw), ~IsBlank(given) PROVE Head(given) # "tsnet-"
  <2>1. given \in Seq(Lexemes)
    BY <1>1, <1>4 DEF IsPrefix, After
  <2> HIDE DEF given
  <2>2. given # << >>
    <3>1. ASSUME given = << >> PROVE IsBlank(given)
      <4>1. DOMAIN given = 1..Len(given) /\ Len(given) = 0
        BY <2>1, <3>1
      <4>2. DOMAIN given = {}
        BY <4>1
      <4> QED
        BY <4>2 DEF IsBlank
    <3> QED
      BY <1>4, <3>1
  <2>3. Head(given) \in Lexemes
    BY <2>1, <2>2
  <2> QED
    BY <2>3 DEF Lexemes
<1>5. /\ result.store # << >> => Head(result.store) \in {"kube:", "arn:aws:ssm:", "mem:"}
      /\ Head(result.dir) = "tsnet-" => result.dir = dir
  BY <1>2, <1>3, <1>4
<1> QED
  BY <1>5 DEF result, dir

(* The default directories of different labels differ.                     *)
LEMMA DirsDiffer ==
  ASSUME NEW n \in Nat \ {0}, NEW g \in [1..n -> Safe], NEW h \in [1..n -> Safe],
         resolveTSNetState(<< >>, h).dir = <<"tsnet-">> \o tsnetStateDir(g)
  PROVE  h = g
<1>1. resolveTSNetState(<< >>, h).dir = <<"tsnet-">> \o tsnetStateDir(h)
  BY DEF resolveTSNetState, TrimSpace
<1>2. <<"tsnet-">> \o h = <<"tsnet-">> \o g
  BY <1>1, LabelDir
<1>3. h \in Seq(Safe) /\ g \in Seq(Safe) /\ Len(h) = n /\ Len(g) = n
  OBVIOUS
<1>4. \A i \in 1..n : (<<"tsnet-">> \o h)[i + 1] = h[i] /\ (<<"tsnet-">> \o g)[i + 1] = g[i]
  BY <1>3
<1> QED
  BY <1>2, <1>3, <1>4

-----------------------------------------------------------------------------
(* StartupSound: what main has not refused.  It also speaks of the calls   *)
(* that validate the credential: only the typed client makes any before    *)
(* main serves, so main goes on on account of an answer to that client.    *)
Serving == pc \in {"tsnet", "serving"}

SoundInv ==
  /\ pc \in {"configure", "validate"} => at["generic"] = "idle"
  /\ pc \in {"validate", "tsnet", "serving"} =>
       /\ cred.kind \in {"bearer", "oauth", "federated"} /\ TagsOK(config, cred)
       /\ state = resolveTSNetState(config.state, config.hostname) /\ state # Rejected
  /\ Serving => config.scoped /\ outcome["typed"] # "none"
  /\ pc = "serving" /\ ~config.stdio /\ node = None => FromFile

LEMMA SoundInit == Init => SoundInv
BY DEF Init, SoundInv, Serving, Clients

(* How a call ends, for one that decides on serving only if it is of the   *)
(* typed client.                                                           *)
LEMMA EndSound ==
  ASSUME TypeInv, SoundInv, NEW c \in Clients, pc # "configure", pc = "validate" => c = "typed",
         NEW result \in {"ok", "failed"}, End(c, result), UNCHANGED <<setup, node>>
  PROVE  SoundInv'
<1>1. /\ at' = [at EXCEPT ![c] = "idle"] /\ outcome' = [outcome EXCEPT ![c] = result]
      /\ pc # "validate" => pc' = pc
      /\ pc = "validate" =>
           \/ pc' = "fatal"
           \/ config.scoped /\ pc' = IF config.stdio THEN "serving" ELSE "tsnet"
  BY DEF End
<1>2. at' \in [Clients -> {"idle", "token", "exchange"}] /\ (at["generic"] = "idle" => at'["generic"] = "idle")
  BY <1>1 DEF TypeInv, TypeOK, Clients
<1>3. outcome["typed"] # "none" \/ pc = "validate" => outcome'["typed"] # "none"
  BY <1>1 DEF TypeInv, TypeOK, Clients
<1>4. CASE pc # "validate"
  BY <1>1, <1>2, <1>3, <1>4 DEF SoundInv, Serving, TagsOK, RequiresTags, FromFile, setup
<1>5. CASE pc = "validate"
  <2>1. pc' \in {"fatal", "tsnet", "serving"} /\ (pc' = "serving" => config.stdio)
    BY <1>1, <1>5
  <2>2. pc' # "fatal" => config.scoped
    BY <1>1, <1>5
  <2> QED
    BY <1>2, <1>3, <1>5, <2>1, <2>2 DEF SoundInv, Serving, TagsOK, RequiresTags, FromFile, setup
<1> QED
  BY <1>4, <1>5

LEMMA SoundCall == TypeInv /\ SoundInv /\ (\E c \in Clients : Call(c)) => SoundInv'
<1> SUFFICES ASSUME TypeInv, SoundInv, NEW c \in Clients, Call(c) PROVE SoundInv'
  OBVIOUS
<1>1. UNCHANGED <<setup, node>> /\ pc # "configure" /\ (pc = "validate" => c = "typed")
  BY DEF Call, Begin, GetIDToken, Exchange, TypeInv, UsedInv, SoundInv, Clients
<1>2. CASE \E result \in {"ok", "failed"} : End(c, result)
  BY <1>1, <1>2, EndSound
<1>3. CASE /\ at' \in {[at EXCEPT ![c] = "token"], [at EXCEPT ![c] = "exchange"]}
           /\ UNCHANGED <<outcome, pc>>
  BY <1>1, <1>3 DEF TypeInv, TypeOK, Clients, SoundInv, Serving, TagsOK, RequiresTags, FromFile, setup
<1> QED
  BY <1>2, <1>3 DEF Call, Begin, GetIDToken, Exchange

LEMMA SoundStep == TypeInv /\ SoundInv /\ [Next]_vars => SoundInv'
<1> SUFFICES ASSUME TypeInv, SoundInv, [Next]_vars PROVE SoundInv'
  OBVIOUS
<1>1. CASE Configure
  <2>1. /\ pc = "configure" /\ UNCHANGED <<config, calls, node>> /\ cred' = Parse(config)
        /\ state' = resolveTSNetState(config.state, config.hostname)
        /\ pc' \in {"fatal", "validate"}
        /\ pc' = "validate" => cred' # Refused /\ state' # Rejected /\ TagsOK(config, cred')
    BY <1>1 DEF Configure
  <2>2. pc' = "validate" => cred'.kind \in {"bearer", "oauth", "federated"}
    BY <2>1, ParseValidated DEF TypeInv, UsedInv
  <2> QED
    BY <2>1, <2>2 DEF SoundInv, Serving, TagsOK, RequiresTags, calls
<1>2. CASE ConfigureTSNet
  <2>1. /\ pc = "tsnet" /\ pc' = "serving" /\ UNCHANGED <<setup, calls>>
        /\ node' = IF cred.kind = "federated" THEN idToken(file) ELSE Secret
    BY <1>2 DEF ConfigureTSNet
  <2>2. node' = None => FromFile
    BY <2>1, TokenAssumption DEF idToken, FromFile
  <2> QED
    BY <2>1, <2>2 DEF SoundInv, Serving, TagsOK, RequiresTags, FromFile, setup, calls
<1>3. CASE Outside \/ UNCHANGED vars
  <2>1. UNCHANGED <<setup, pc, node, calls>>
    BY <1>3 DEF Outside, Tick, Refresh, Truncate, Unmount, Rewrite, vars
  <2> QED
    BY <2>1 DEF SoundInv, Serving, TagsOK, RequiresTags, FromFile, setup, calls
<1> QED
  BY <1>1, <1>2, <1>3, SoundCall DEF Next

(* What is not fatal at startup can work, ...                              *)
LEMMA SoundEnough == TypeInv /\ SoundInv => StartupSound
<1> SUFFICES ASSUME TypeInv, SoundInv, pc \in {"validate", "tsnet", "serving"} PROVE StartupSound
  BY DEF StartupSound
<1>1. /\ pc # "validate" => config.scoped /\ outcome["typed"] # "none"
      /\ pc = "serving" /\ ~config.stdio /\ node = None => FromFile
  BY DEF SoundInv, Serving
<1>2. \A c \in Clients : presented[c] # Empty
  BY TokenAssumption DEF TypeInv, TypeOK
<1>3. /\ "other" \notin config.tags
      /\ ~config.stdio /\ (cred.kind = "bearer" => config.form = "json" /\ config.clientKey) => "tag" \in config.tags
  BY DEF SoundInv, TagsOK, RequiresTags
<1>4. /\ config.state \in Seq(Lexemes) /\ config.hostname \in Seq(Chars)
      /\ state = resolveTSNetState(config.state, config.hostname) /\ state # Rejected
  BY ConfigAssumption DEF TypeInv, UsedInv, SoundInv
<1>5. /\ state.store # << >> => Head(state.store) \in {"kube:", "arn:aws:ssm:", "mem:"}
      /\ Head(state.dir) = "tsnet-" => state.dir = <<"tsnet-">> \o tsnetStateDir(config.hostname)
  BY <1>4, Resolved
<1>6. ASSUME Head(state.dir) = "tsnet-", IsLabel(config.hostname),
             NEW h \in [1..Len(config.hostname) -> Safe], resolveTSNetState(<< >>, h).dir = state.dir
      PROVE  h = config.hostname
  <2>1. Len(config.hostname) \in Nat \ {0} /\ config.hostname \in [1..Len(config.hostname) -> Safe]
    BY <1>4, <1>6 DEF IsLabel
  <2> QED
    BY <1>5, <1>6, <2>1, DirsDiffer
<1> QED
  BY <1>1, <1>2, <1>3, <1>5, <1>6 DEF StartupSound

(* ... for every configuration: the credential has been validated, nothing *)
(* blank is exchanged, tags are there where needed, the store is known and *)
(* the default directory is the node's own (main).                         *)
THEOREM StartupChecked == Spec => []StartupSound
BY TypeInit, TypeStep, SoundInit, SoundStep, SoundEnough, PTL DEF Spec
=============================================================================
