----------------------------- MODULE MCKeepAlive -----------------------------
(* Instances of KeepAlive.                                                 *)
EXTENDS KeepAlive

(* A publish that fits the buffer of two bytes and is acknowledged, and    *)
(* one that does not fit and is dropped in two pieces.                     *)
SmallAndLarge ==
    {[type |-> "PUBLISH1", length |-> 1], [type |-> "PUBLISH0", length |-> 3]}
=============================================================================
