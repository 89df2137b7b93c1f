---------------------------- MODULE MCClassInit ----------------------------
(* A class and its superclass, an interface that does not verify, and a      *)
(* class their initializers use: no two initializers use each other.         *)
EXTENDS ClassInit

CONSTANTS Super, Sub, Other, Broken

MCParents == (Super :> <<>>) @@ (Sub :> <<Super, Broken>>) @@ (Other :> <<>>) @@ (Broken :> <<>>)
MCUses == (Super :> {}) @@ (Sub :> {Sub, Other}) @@ (Other :> {Super}) @@ (Broken :> {})
=============================================================================
