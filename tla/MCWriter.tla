------------------------------ MODULE MCWriter ------------------------------
(***************************************************************************)
(* Small instances of Writer for TLC.  Key "k" is used by a write, by its  *)
(* retry and by a conflicting write; the other requests carry no key.      *)
(***************************************************************************)
EXTENDS WriterRefinement

MCKeyOf == [r \in Req |-> IF r \in {"first", "retry", "conflict"} THEN "k" ELSE NoKey]

MCBodyOf == [r \in Req |-> CASE r \in {"first", "retry", "plain"} -> "a"
                             [] r \in {"conflict", "other"}       -> "b"
                             [] r = "multi"                       -> "ab"
                             [] r = "refused"                     -> "drop"]

\* The same with two operations where the batch runs have one.
MCTwoOps == [b \in Body |-> 2]

MCOpCount == [b \in Body |-> IF b = "ab" THEN 2 ELSE 1]
=============================================================================
