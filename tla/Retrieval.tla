------------------------------ MODULE Retrieval ------------------------------
(***************************************************************************)
(* memory/retrieval.py over LongTermMemory.get_memory_entries: which of    *)
(* the remembered entries a goal brings back.  Entries are kept in the     *)
(* order of their row ids.  Only the newest Window rows are looked at;     *)
(* those sharing a token with the goal are sorted by how many they share,  *)
(* the sort being stable over rows that come newest first.                 *)
(***************************************************************************)
EXTENDS Naturals, Sequences, FiniteSets

CONSTANT Window   \* the 200 rows retrieve_memory asks for

ASSUME WindowAssumption == Window \in Nat \ {0}

(* ORDER BY id DESC LIMIT limit: the positions of the rows, oldest limit.  *)
Newest(entries, limit) ==
  {i \in 1..Len(entries) : i > Len(entries) - limit}

(* Row i comes before row j in the result.                                 *)
RanksBefore(score, i, j) ==
  score[i] > score[j] \/ (score[i] = score[j] /\ i > j)

(* The best `limit' entries, `score' giving every row its shared tokens.   *)
RetrieveMemory(entries, score, limit) ==
  LET hits == {i \in Newest(entries, Window) : score[i] > 0}
  IN  {entries[i] : i \in {i \in hits :
         Cardinality({j \in hits : RanksBefore(score, j, i)}) < limit}}
=============================================================================
