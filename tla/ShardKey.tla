------------------------------- MODULE ShardKey -------------------------------
(***************************************************************************)
(* The shard key comparison of the DBaaS adapter.  A key is a sequence of  *)
(* fields; a field stands for its name together with its kind (ranged or   *)
(* hashed), which keyFieldEqual compares at once.                          *)
(***************************************************************************)
EXTENDS Naturals, Sequences

isPrefix(shorter, longer) ==
    /\ Len(shorter) <= Len(longer)
    /\ \A i \in 1..Len(shorter) : longer[i] = shorter[i]

\* The answers of shardKeyMatches: the existing key serves the request, it
\* can be refined to the requested one, or neither.
Exact       == "exact"
NeedsRefine == "refine"
Different   == "different"

\* Mutant: a key of the same length is not compared.
shardKeyMatchesByLength(currentKey, requested) ==
    IF Len(currentKey) < Len(requested)
    THEN IF isPrefix(SubSeq(requested, 1, Len(currentKey)), currentKey)
         THEN NeedsRefine ELSE Different
    ELSE Exact

shardKeyMatches(currentKey, requested) ==
    IF Len(currentKey) < Len(requested)
    THEN IF isPrefix(SubSeq(requested, 1, Len(currentKey)), currentKey)
         THEN NeedsRefine ELSE Different
    ELSE IF isPrefix(requested, currentKey) THEN Exact ELSE Different

=============================================================================
