----------------------------- MODULE MCInProcess -----------------------------
(***************************************************************************)
(* Small instances of InProcess for TLC: one writer for each policy.       *)
(***************************************************************************)
EXTENDS InProcessProperties

MCOverflow == [c \in Write |-> CASE c = "single" -> "timeout"
                                [] c = "other"  -> "reject"
                                [] c = "multi"  -> "wait"]
=============================================================================
