--------------------------- MODULE RootAuthority ---------------------------
(***************************************************************************)
(* What a window's workspace promises about the roots the user authorized, *)
(* with no lock, thread or batch in it: authority over a root is granted,  *)
(* used for side effects on disk, and revoked; it is never revoked under a *)
(* side effect that is using it, and an id that was revoked never comes    *)
(* back.  This is the contract docs/architecture.md states as "the         *)
(* revocation of an authorization and the disk side effects have a         *)
(* definite order".  WindowWorkspace implements it.                        *)
(***************************************************************************)
CONSTANTS Calls,   \* command invocations in flight
          Roots    \* root ids

VARIABLES authority,   \* the roots the window may touch now
          retired,     \* the roots it may never touch again
          inUse        \* inUse[c]: the roots c's side effect is touching

vars == <<authority, retired, inUse>>

Init == /\ authority = {}
        /\ retired = {}
        /\ inUse = [c \in Calls |-> {}]

(* Grant, replace or revoke: any change that pulls no root out from under a *)
(* side effect and re-admits no retired id.                                 *)
Reauthorize(new) ==
    /\ new \cap retired = {}
    /\ \A c \in Calls : inUse[c] \subseteq new
    /\ authority' = new
    /\ retired' = retired \cup (authority \ new)
    /\ UNCHANGED inUse

(* A side effect starts, and only on roots that are authorized.             *)
Acquire(c, S) ==
    /\ inUse[c] = {}
    /\ S \subseteq authority
    /\ inUse' = [inUse EXCEPT ![c] = S]
    /\ UNCHANGED <<authority, retired>>

Release(c) ==
    /\ inUse' = [inUse EXCEPT ![c] = {}]
    /\ UNCHANGED <<authority, retired>>

Next == \/ \E new \in SUBSET Roots : Reauthorize(new)
        \/ \E c \in Calls : (\E S \in SUBSET Roots : Acquire(c, S)) \/ Release(c)

Spec == Init /\ [][Next]_vars
=============================================================================
