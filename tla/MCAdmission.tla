------------------------------ MODULE MCAdmission ------------------------------
(***************************************************************************)
(* Every environment under the steps it makes a difference to, every small *)
(* expression and every short path, validated and not; and pairs of writes *)
(* to files that are the same, that exist, or that are in each other's way.*)
(***************************************************************************)
EXTENDS Admission, TLC

Job(tool, asked, env, planned) ==
  [tool |-> tool, asked |-> asked, env |-> env, planned |-> planned]

Alone(js) == {("c1" :> j) : j \in js}

Hosts == {"", "mock-api", "127.0.0.1", "example.com"}

MCHostLists ==
  {[given |-> FALSE, names |-> {}]} \cup
  {[given |-> TRUE, names |-> ns] : ns \in {{}, DefaultHosts, {"mock-api"}, {"example.com"}}}

RemoteJobs ==
  {Job(tool, [url |-> [scheme |-> s, host |-> h]], env, planned) :
     tool \in {"http_get"}, s \in {"", "http", "ftp"}, h \in Hosts,
     env \in {[BareEnvironment EXCEPT !.realHttp = f, !.hosts = hs, !.maxSteps = n] :
                 f \in Flags, hs \in MCHostLists, n \in NumberTexts}, planned \in BOOLEAN}

DbJobs ==
  {Job("db_query", [sql |-> [verb |-> v, readonly |-> r]], env, planned) :
     v \in {"select", "pragma", "other"}, r \in BOOLEAN,
     env \in {[BareEnvironment EXCEPT !.dbWrites = f] : f \in Flags}, planned \in BOOLEAN}

SummaryJobs ==
  {Job("summarize", [text |-> "note"], [BareEnvironment EXCEPT !.noLlm = f, !.key = k, !.baseUrl = b],
       TRUE) : f \in Flags, k \in BOOLEAN, b \in BOOLEAN}

Leaves == {<<l>> : l \in Constants \cup {"name"}}

(* The tree with that root and those trees below it. *)
Grown(op, left, right) ==
  LET at(side, q) == IF q = 1 THEN side ELSE IF q = 2 THEN 2 * side ELSE 2 * side + 1
      places == {1} \cup {at(2, q) : q \in DOMAIN left} \cup {at(3, q) : q \in DOMAIN right}
  IN  [p \in places |->
         IF p = 1 THEN op
         ELSE IF \E q \in DOMAIN left : p = at(2, q)
              THEN left[CHOOSE q \in DOMAIN left : p = at(2, q)]
              ELSE right[CHOOSE q \in DOMAIN right : p = at(3, q)]]

Shallow ==
  Leaves \cup {Grown(op, l, NoTree) : op \in {"neg", "not"}, l \in Leaves}
         \cup {Grown(op, l, r) : op \in {"+", "/", "**", "|"}, l \in Leaves, r \in Leaves}

Expressions ==
  {NoTree} \cup Shallow
  \cup {Grown("neg", t, NoTree) : t \in Shallow}
  \cup {Grown(op, t, l) : op \in {"+", "/", "**", "|"}, t \in Shallow, l \in Leaves}
  \cup {Grown(op, l, t) : op \in {"+", "/", "**", "|"}, t \in Shallow, l \in Leaves}

CalcJobs ==
  {Job("calc", [expression |-> e], BareEnvironment, planned) :
     e \in Expressions, planned \in BOOLEAN}

MCRoot  == <<"ws">>
MCFiles == (<<"out">> :> <<"before">>) @@ (<<"ws", "old">> :> <<"before">>)
MCDirs  == {<< >>, <<"ws">>}

Write(path, overwrite, createDirs, size, planned) ==
  Job("file_write", [path |-> path, overwrite |-> overwrite, createDirs |-> createDirs,
                     size |-> size], BareEnvironment, planned)

Path(parts) == [given |-> TRUE, absolute |-> FALSE, parts |-> parts]

Parts == {"..", "ws", "old", "out"}
PartLists == {<< >>} \cup {<<a>> : a \in Parts} \cup {<<a, b>> : a, b \in Parts}
               \cup {<<a, b, c>> : a, b, c \in Parts}

PathJobs ==
  {Write([given |-> g, absolute |-> abs, parts |-> ps], overwrite, TRUE, 1, planned) :
     g \in BOOLEAN, abs \in BOOLEAN, ps \in PartLists, overwrite \in BOOLEAN, planned \in BOOLEAN}

PairJobs ==
  {Write(Path(ps), overwrite, createDirs, size, TRUE) :
     ps \in {<<"a">>, <<"a", "b">>, <<"old">>}, overwrite \in BOOLEAN,
     createDirs \in BOOLEAN, size \in {1, 2}}

MCBatches ==
  Alone(RemoteJobs \cup DbJobs) \cup Alone(SummaryJobs) \cup Alone(CalcJobs) \cup Alone(PathJobs)
  \cup {("c1" :> j) @@ ("c2" :> k) : j \in PairJobs, k \in PairJobs}
=============================================================================
