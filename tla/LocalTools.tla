------------------------------ MODULE LocalTools ------------------------------
(***************************************************************************)
(* execution/tools/: the parts of the tools that only look at their        *)
(* arguments, which is the evaluation of an expression by calc_tool and    *)
(* the resolution of a path by file_write_tool.                            *)
(*                                                                         *)
(* As in Executor, a definition that nothing uses and that precedes its    *)
(* namesake is a mistake the properties are tried against.                 *)
(***************************************************************************)
EXTENDS Naturals, Sequences, Policy

(* What an operator may make of evaluated operands.  "huge" is an integer  *)
(* too large for a float; "complex" what a power of a negative number can  *)
(* be; "raised" any exception of the arithmetic.                           *)
Combine(op, l, r) ==
  IF op = "/" /\ r = "zero" THEN {"raised"}
  ELSE IF "complex" \in {l, r} THEN {"complex", "raised"}
  ELSE IF op = "**" THEN Numbers \cup {"complex", "raised"}
  ELSE IF "huge" \in {l, r} THEN Numbers \cup {"raised"}
  ELSE IF op = "/" THEN {"zero", "some"} ELSE Numbers

Failures == {"raised", "blocked"}

Results(op, left, right) ==
  UNION {Combine(op, l, r) : l \in left \ Failures, r \in right \ Failures}

(* _eval: a node is looked at before what is below it, the left operand    *)
(* before the right one, and the first exception ends it all.              *)
Evaluated(tree, value, p) ==
  CASE tree[p] \in Numbers -> {tree[p]}
    [] tree[p] = "neg"     -> value[2 * p]
    [] tree[p] \in {"+", "/", "**"} ->
         (value[2 * p] \cap Failures) \cup
         (IF value[2 * p] \subseteq Failures THEN {} ELSE value[2 * p + 1] \cap Failures)
         \cup Results(tree[p], value[2 * p], value[2 * p + 1])
    [] OTHER -> {"blocked"}

ValuesOf(tree) ==
  LET value[p \in DOMAIN tree] == Evaluated(tree, value, p) IN value[1]

(* calc_tool: what does not parse is an exception like those of the        *)
(* arithmetic, and a complex number is no result.                          *)
CalcStatuses(tree) ==
  IF tree = NoTree THEN {"error"}
  ELSE {CASE v \in Numbers -> "success" [] v = "blocked" -> "policy_blocked" [] OTHER -> "error" :
          v \in ValuesOf(tree)}

-----------------------------------------------------------------------------

(* Places in the file system, from its root. *)
Parent(place) == SubSeq(place, 1, Len(place) - 1)

Above(place) == {SubSeq(place, 1, n) : n \in 0..(Len(place) - 1)}

Within(root, place) == Len(place) >= Len(root) /\ SubSeq(place, 1, Len(root)) = root

(* (root / relative_path).resolve(): an absolute path replaces the root.   *)
Resolved(root, path) ==
  LET upto[n \in 0..Len(path.parts)] ==
        IF n = 0 THEN IF path.absolute THEN << >> ELSE root
        ELSE IF path.parts[n] # ".." THEN Append(upto[n - 1], path.parts[n])
        ELSE IF upto[n - 1] = << >> THEN << >> ELSE Parent(upto[n - 1])
  IN  upto[Len(path.parts)]

(* file_write_tool's own guard. *)
Escapes(root, path) == ~Within(root, Resolved(root, path))
=============================================================================
