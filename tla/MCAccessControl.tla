-------------------------- MODULE MCAccessControl --------------------------
(***************************************************************************)
(* A tailnet with one login beside the local caller, three tools in two    *)
(* groups (one of them mutating and confirmed), a name no tool has, and    *)
(* two resources one of which lies beneath a granted segment.              *)
(***************************************************************************)
EXTENDS AccessControl, TLC

CONSTANTS r1, r2, alice, local, getDevice, setTags, getDNS, noTool, devices, dns, none

MCTools     == {getDevice, setTags, getDNS}
MCNames     == MCTools \cup {noTool}
MCUris      == {<<"device", "d1">>, <<"devices">>}
MCGroups    == {devices, dns}
MCGroupOf   == getDevice :> devices @@ setTags :> devices @@ getDNS :> dns
MCReadOnly  == {getDevice, getDNS}
MCCallsOf   == getDevice :> 2 @@ setTags :> 1 @@ getDNS :> 1   \* findDevice lists, then gets

ReadDevices == Caps({GroupRead(devices), Blank}, {Under(<<"device">>)})
Tagger      == Caps({Name(setTags)}, {Exact(<<"devices">>)})
ReadAll     == Caps({Read}, {})

MCPolicies ==
  { <<>>, <<ReadAll, Tagger>>, <<ReadDevices, Garbled>>, <<Caps({All, Group(none)}, {All})>> }

TwoProfiles ==
  [default |-> "readonly",
   profiles |-> ("readonly" :> {Read}) @@ ("devices" :> {Group(devices), Name(getDNS)})]
NoDefault == [TwoProfiles EXCEPT !.default = none]

Http(profiles, grants, filterOnCall) ==
  [stdio |-> FALSE, localGrants |-> grants, profiles |-> profiles, profile |-> none,
   filterOnCall |-> filterOnCall]

MCConfigs ==
  { Http(TwoProfiles, ReadDevices, TRUE),
    Http(none, NoGrant, FALSE),
    [stdio |-> TRUE, localGrants |-> Tagger, profiles |-> TwoProfiles,
     profile |-> "devices", filterOnCall |-> TRUE],
    [stdio |-> TRUE, localGrants |-> NoGrant, profiles |-> NoDefault,
     profile |-> none, filterOnCall |-> FALSE] }

(* With no profile file, every named path is unknown.                      *)
MCPaths == {none, "devices"}

Symmetry == Permutations({r1, r2})
=============================================================================
