------------------------------ MODULE Counters ------------------------------
(***************************************************************************)
(* Dictionaries of counters, the shape in which the program keeps retry    *)
(* counts, failing-call signatures and the mock server's hit counts.  A    *)
(* dictionary is a function whose domain is the set of keys written so     *)
(* far; a key that was never written counts as zero.                       *)
(***************************************************************************)
EXTENDS Naturals

(* d.get(key, 0) *)
CountOf(d, key) == IF key \in DOMAIN d THEN d[key] ELSE 0

(* d[key] = d.get(key, 0) + 1 *)
Bump(d, key) ==
  [k \in DOMAIN d \cup {key} |-> IF k = key THEN CountOf(d, key) + 1 ELSE d[k]]

(* The dictionary before anything is written to it. *)
NoCounts == [k \in {} |-> 0]

(* A dictionary of counters over keys drawn from S. *)
IsCounter(d, S) ==
  /\ DOMAIN d \subseteq S
  /\ d \in [DOMAIN d -> Nat]
=============================================================================
