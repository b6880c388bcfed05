---------------------------- MODULE MCReadTools ----------------------------
(* Two device IDs, the second of which may also be the hostname of another. *)
EXTENDS ReadTools

CONSTANTS d1, d2, web, addr, s1, s2

MCIds == {d1, d2}
MCNames == {d2, web, addr}
MCRecords == {[hostname |-> h, addresses |-> a] : h \in {d2, web}, a \in {{}, {addr}}}
MCSettings == {s1, s2}
=============================================================================
