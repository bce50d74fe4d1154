------------------------------- MODULE Admission -------------------------------
(***************************************************************************)
(* What stands between a step and its effect: the settings of the process  *)
(* (module Settings), the policy the validator asks (module Policy), and   *)
(* the guards of the tools themselves (module LocalTools).  Several        *)
(* processes run, each with one step to execute; they share the workspace  *)
(* directory, into which file_write_tool writes in several steps.          *)
(*                                                                         *)
(* A job is [tool, asked, env, planned]: planned steps go through the      *)
(* validator, steps of a replan do not.  What is asked of file_write is    *)
(* [path, overwrite, createDirs, size], the size of the content in blocks. *)
(*                                                                         *)
(* As in Executor, a definition that nothing uses and that precedes its    *)
(* namesake is a mistake the properties are tried against.                 *)
(***************************************************************************)
EXTENDS Naturals, Sequences, FiniteSets, LocalTools, Settings

CONSTANTS
  Callers,
  Batches,     \* the jobs that may be done together: functions of some callers
  Root,        \* the place of the workspace
  FilesBefore, \* the files there are, and their contents
  DirsBefore   \* the directories

(* A job as far as its tool looks at it. *)
IsJob(j) ==
  /\ j.env \in Environments
  /\ j.tool = "calc" => j.asked.expression = NoTree \/ IsTree(j.asked.expression)
  /\ j.tool = "file_write" =>
       /\ j.asked.path \in [given : BOOLEAN, absolute : BOOLEAN, parts : Seq(STRING)]
       /\ j.asked.overwrite \in BOOLEAN /\ j.asked.createDirs \in BOOLEAN
       /\ j.asked.size \in Nat

(* The workspace is there, and so is what is above it. *)
ASSUME AdmissionAssumption ==
  /\ \A b \in Batches : DOMAIN b \subseteq Callers /\ \A c \in DOMAIN b : IsJob(b[c])
  /\ Root \in Seq(STRING) /\ Root \in DirsBefore /\ Above(Root) \subseteq DirsBefore

VARIABLES
  jobs, phase, status,
  effect,      \* what a call did beyond its own process
  after,       \* the callers that were through when a file_write began
  files, dirs

admissionVars == <<jobs, phase, status, effect, after, files, dirs>>
fileVars == <<after, files, dirs>>

Running == DOMAIN jobs

Asked(c)  == jobs[c].asked
Config(c) == LoadConfig(jobs[c].env)
Place(c)  == Resolved(Root, Asked(c).path)

Init ==
  /\ jobs \in Batches
  /\ phase = [c \in Running |-> "new"] /\ status = [c \in Running |-> "none"]
  /\ effect = [c \in Running |-> "none"] /\ after = [c \in Running |-> {}]
  /\ files = FilesBefore /\ dirs = DirsBefore

Goes(c, from, to) == phase[c] = from /\ phase' = [phase EXCEPT ![c] = to]

Ends(c, from, st) == Goes(c, from, "over") /\ status' = [status EXCEPT ![c] = st]

(* load_config and get_provider at the start of run_orchestration.         *)
StartRun(c) ==
  /\ IF LoadRaises(jobs[c].env) \/ Provider(Config(c)) = "raises"
     THEN Ends(c, "new", "no_run")
     ELSE Goes(c, "new", "started") /\ UNCHANGED status
  /\ UNCHANGED <<jobs, effect, fileVars>>

(* validate_plan for a planned step; a replanned one goes to its tool.     *)
Admit(c) ==
  /\ IF jobs[c].planned /\ ~PolicyLetsPass(jobs[c].tool, Asked(c), Config(c))
     THEN Ends(c, "started", "rejected")
     ELSE Goes(c, "started", "admitted") /\ UNCHANGED status
  /\ UNCHANGED <<jobs, effect, fileVars>>

CallCalc(c) ==
  /\ jobs[c].tool = "calc"
  /\ \E st \in CalcStatuses(Asked(c).expression) : Ends(c, "admitted", st)
  /\ UNCHANGED <<jobs, effect, fileVars>>

(* The HTTP tools have no guard of their own; httpx asks no server for an  *)
(* address it cannot use.                                                  *)
CallHttp(c) ==
  /\ jobs[c].tool \in {"http_get", "http_post"}
  /\ LET url == Asked(c).url
     IN  IF url.scheme \notin {"http", "https"} \/ url.host = ""
         THEN Ends(c, "admitted", "error") /\ UNCHANGED effect
         ELSE /\ \E st \in {"success", "error", "timeout", "schema_error"} :
                   Ends(c, "admitted", st)
              /\ effect' = [effect EXCEPT ![c] =
                   IF url.host \in DefaultHosts THEN "request" ELSE "foreign request"]
  /\ UNCHANGED <<jobs, fileVars>>

(* What a statement does to the database: a SELECT reads it, a PRAGMA may  *)
(* read it or set its version, its journal mode or the like.               *)
DbEffects(verb) ==
  CASE verb = "select" -> {"query"}
    [] verb = "pragma" -> {"query", "pragma"}
    [] OTHER           -> {"statement"}

(* Nor has db_query: the statement is executed, whatever it is.            *)
CallDb(c) ==
  /\ jobs[c].tool = "db_query"
  /\ \E st \in {"success", "error"} : Ends(c, "admitted", st)
  /\ \E e \in DbEffects(Asked(c).sql.verb) : effect' = [effect EXCEPT ![c] = e]
  /\ UNCHANGED <<jobs, fileVars>>

CallSummarize(c) ==
  /\ jobs[c].tool = "summarize"
  /\ \E st \in SummarizeStatuses(Provider(Config(c))) : Ends(c, "admitted", st)
  /\ effect' = [effect EXCEPT ![c] =
       IF Provider(Config(c)) = "remote" THEN "model" ELSE "none"]
  /\ UNCHANGED <<jobs, fileVars>>

-----------------------------------------------------------------------------
(* file_write_tool, between whose calls to the file system others may run. *)

(* The path is resolved and must be inside; then its directories are made, *)
(* which fails where one of them is a file.                                *)
MakeDirs(c) ==
  /\ jobs[c].tool = "file_write"
  /\ after' = [after EXCEPT ![c] = {d \in Running : phase[d] = "over"}]
  /\ IF Escapes(Root, Asked(c).path)
     THEN Ends(c, "admitted", "policy_blocked") /\ UNCHANGED dirs
     ELSE IF Asked(c).createDirs /\ Above(Place(c)) \cap DOMAIN files # {}
     THEN Ends(c, "admitted", "error") /\ UNCHANGED dirs
     ELSE /\ Goes(c, "admitted", "made") /\ UNCHANGED status
          /\ dirs' = IF Asked(c).createDirs THEN dirs \cup Above(Place(c)) ELSE dirs
  /\ UNCHANGED <<jobs, effect, files>>

LookNowhere(c) ==
  /\ Goes(c, "made", "looked")
  /\ UNCHANGED <<jobs, status, effect, fileVars>>

(* What exists is only written over by leave. *)
Look(c) ==
  /\ phase[c] = "made"
  /\ IF Place(c) \in dirs \cup DOMAIN files /\ ~Asked(c).overwrite
     THEN Ends(c, "made", "error")
     ELSE Goes(c, "made", "looked") /\ UNCHANGED status
  /\ UNCHANGED <<jobs, effect, fileVars>>

(* write_bytes opens the file, which makes or empties it ... *)
OpenFile(c) ==
  /\ phase[c] = "looked"
  /\ IF Place(c) \in dirs \/ Parent(Place(c)) \notin dirs
     THEN Ends(c, "looked", "error") /\ UNCHANGED files
     ELSE /\ Goes(c, "looked", "open") /\ UNCHANGED status
          /\ files' = [p \in DOMAIN files \cup {Place(c)} |->
                         IF p = Place(c) THEN << >> ELSE files[p]]
  /\ UNCHANGED <<jobs, effect, after, dirs>>

Overlaid(c, old) ==
  [i \in 1..(IF Len(old) > Asked(c).size THEN Len(old) ELSE Asked(c).size) |->
     IF i <= Asked(c).size THEN c ELSE old[i]]

(* ... and writes from its beginning, over what is there by then.          *)
WriteContent(c) ==
  /\ Ends(c, "open", "success")
  /\ files' = [files EXCEPT ![Place(c)] = Overlaid(c, @)]
  /\ effect' = [effect EXCEPT ![c] = "write"]
  /\ UNCHANGED <<jobs, after, dirs>>

(* The process is killed in the middle of it. *)
Kill(c) ==
  /\ phase[c] \in {"made", "looked", "open"}
  /\ Ends(c, phase[c], "killed")
  /\ UNCHANGED <<jobs, effect, fileVars>>

-----------------------------------------------------------------------------

Step(c) ==
  \/ StartRun(c) \/ Admit(c)
  \/ CallCalc(c) \/ CallHttp(c) \/ CallDb(c) \/ CallSummarize(c)
  \/ MakeDirs(c) \/ Look(c) \/ OpenFile(c) \/ WriteContent(c)

AllOver == (\A c \in Running : phase[c] = "over") /\ UNCHANGED admissionVars

Next == (\E c \in Running : Step(c) \/ Kill(c)) \/ AllOver

Spec == Init /\ [][Next]_admissionVars

-----------------------------------------------------------------------------
(* Properties. *)

HasOddConstant(tree) == \E p \in DOMAIN tree : tree[p] = "text"

(* The validator's guards and the tools' own agree where both exist: what  *)
(* was validated, no tool blocks, but for calc with a constant that is no  *)
(* number; and an expression the policy refuses never evaluates, even for  *)
(* a step that was not validated.                                          *)
GuardsAgree ==
  \A c \in Running :
    LET passes == PolicyLetsPass(jobs[c].tool, Asked(c), Config(c))
    IN  /\ status[c] = "policy_blocked" /\ passes =>
             jobs[c].tool = "calc" /\ HasOddConstant(Asked(c).expression)
        /\ status[c] = "success" /\ jobs[c].tool = "calc" => passes

(* What the environment has to say for a validated step to reach out: to   *)
(* another server, that real requests are on, or the server's name in the  *)
(* allowlist; to change the database by a statement, that writes are on    *)
(* (and the step has to declare it), while a PRAGMA, which may change its  *)
(* settings, passes for reading; to a language model, the three settings   *)
(* that make one, a flag that is on by default being off when blank.       *)
SafeByDefault ==
  \A c \in Running :
    LET env == jobs[c].env
    IN  /\ jobs[c].planned /\ effect[c] = "foreign request" =>
             \/ env.realHttp = "true"
             \/ env.hosts.given /\ Asked(c).url.host \in env.hosts.names
        /\ jobs[c].planned /\ effect[c] \in {"statement", "pragma"} =>
             \/ env.dbWrites = "true" /\ ~Asked(c).sql.readonly
             \/ Asked(c).sql.readonly /\ Asked(c).sql.verb = "pragma"
        /\ effect[c] = "model" => env.noLlm \in {"blank", "false"} /\ env.key /\ env.baseUrl

IsWriter(c) == jobs[c].tool = "file_write"

WritesTo(c, place) == IsWriter(c) /\ phase[c] \in {"looked", "open", "over"} /\ Place(c) = place

Whole(c) == [i \in 1..Asked(c).size |-> c]

(* Whatever the steps ask, validated or not, nothing outside the workspace *)
(* changes.  What a call wrote is there, whole, when every other call for  *)
(* that file was through before it began; and one that may not overwrite   *)
(* does not replace a file that was there, or was written, before that.    *)
WritesKept ==
  /\ \A p \in DOMAIN files : ~Within(Root, p) =>
       p \in DOMAIN FilesBefore /\ files[p] = FilesBefore[p]
  /\ \A d \in dirs : ~Within(Root, d) => d \in DirsBefore
  /\ \A c \in Running : IsWriter(c) /\ status[c] = "success" =>
       /\ (\A d \in Running \ {c} : WritesTo(d, Place(c)) => d \in after[c]) =>
            files[Place(c)] = Whole(c)
       /\ ~Asked(c).overwrite =>
            /\ Place(c) \notin DOMAIN FilesBefore
            /\ \A d \in after[c] : ~(WritesTo(d, Place(c)) /\ status[d] = "success")
=============================================================================
