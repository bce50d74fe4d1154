-------------------------------- MODULE Policy --------------------------------
(***************************************************************************)
(* planning/policy.py: what the policy engine lets a plan's step ask a     *)
(* tool for.  The arguments are structured as far as a rule looks at them: *)
(*   url        [scheme, host]; what is no URL has the scheme ""           *)
(*   path       [given, absolute, parts], the parts of pathlib             *)
(*   sql        [verb, readonly], the verb left when comments are stripped *)
(*   expression the syntax tree, see below.                                *)
(*                                                                         *)
(* A configuration has the fields hosts, realHttp and dbWrites.            *)
(*                                                                         *)
(* As in Executor, a definition that nothing uses and that precedes its    *)
(* namesake is a mistake the properties are tried against.                 *)
(***************************************************************************)
EXTENDS Naturals, Sequences, FiniteSets

(* A syntax tree is a function from positions, 1 the root and 2p and 2p+1  *)
(* the places below p, to what stands there.  Text that is no expression,  *)
(* the empty text included, has no tree.                                   *)
NoTree == << >>

(* Numbers by what division and size make of them; "text" is any other     *)
(* constant; "+" stands for + - *, "/" for / // %, "|" and "not" for the   *)
(* operators outside arithmetic, "name" for every other kind of node.      *)
Numbers    == {"zero", "some", "huge"}
Constants  == Numbers \cup {"text"}
Arithmetic == {"+", "/", "**", "neg"}

(* What ast.parse returns: the operators of arithmetic have their          *)
(* operands, constants have none, and all hangs together.                  *)
IsTree(tree) ==
  /\ IsFiniteSet(DOMAIN tree) /\ DOMAIN tree \subseteq Nat \ {0} /\ 1 \in DOMAIN tree
  /\ \A p \in DOMAIN tree :
       LET below == {2 * p, 2 * p + 1} \cap DOMAIN tree
       IN  /\ tree[p] \in {"+", "/", "**"} => below = {2 * p, 2 * p + 1}
           /\ tree[p] = "neg" => below = {2 * p}
           /\ tree[p] \in Constants => below = {}
           /\ p # 1 => \E q \in DOMAIN tree : p \in {2 * q, 2 * q + 1}

UrlAllowed(url, config) ==
  /\ url.scheme \in {"http", "https"}
  /\ url.host \in config.hosts \/ config.realHttp

PathAllowed(path) ==
  path.given /\ ~path.absolute /\ \A i \in 1..Len(path.parts) : path.parts[i] # ".."

SqlAllowed(sql, config) ==
  IF sql.readonly THEN sql.verb \in {"select", "pragma"} ELSE config.dbWrites

(* Every node of the tree is looked at, wherever it stands; any constant   *)
(* passes.                                                                 *)
CalcAllowedAtRoot(tree) == tree # NoTree /\ tree[1] \in Constants \cup Arithmetic

CalcAllowed(tree) ==
  tree # NoTree /\ \A p \in DOMAIN tree : tree[p] \in Constants \cup Arithmetic

(* PolicyEngine.validate_step; tools it has no rule for are let through.   *)
PolicyLetsPass(tool, asked, config) ==
  CASE tool \in {"http_get", "http_post"} -> UrlAllowed(asked.url, config)
    [] tool = "file_write"                -> PathAllowed(asked.path)
    [] tool = "db_query"                  -> SqlAllowed(asked.sql, config)
    [] tool = "calc"                      -> CalcAllowed(asked.expression)
    [] OTHER                              -> TRUE
=============================================================================
