------------------------------- MODULE Settings -------------------------------
(***************************************************************************)
(* core/config.py and llm/provider.py: from the environment to the         *)
(* configuration of a run, and to its language model.                      *)
(*                                                                         *)
(* An environment gives a text, or none, to each option: "absent" (no such *)
(* variable) and for the rest what parsing tells apart.  For a flag: "true"*)
(* for 1, true, yes and on in any case, "blank" for nothing or spaces,     *)
(* "false" for every other text.  For a number: "empty" for no text, "7"   *)
(* for a number, "junk" for what is none, spaces included.  For the hosts: *)
(* whether the text is there and not blank, and the set it lists, which    *)
(* may be empty and may name any host.                                     *)
(*                                                                         *)
(* As in Executor, a definition that nothing uses and that precedes its    *)
(* namesake is a mistake the properties are tried against.                 *)
(***************************************************************************)
EXTENDS Naturals

Flags       == {"absent", "blank", "true", "false"}
NumberTexts == {"absent", "empty", "7", "junk"}
HostLists   == [given : BOOLEAN, names : SUBSET STRING]

DefaultHosts == {"localhost", "127.0.0.1", "mock-api"}

(* maxSteps stands for the numeric settings, which are parsed alike.       *)
Environments ==
  [noLlm : Flags, realHttp : Flags, dbWrites : Flags,
   baseUrl : BOOLEAN, key : BOOLEAN,
   hosts : HostLists, maxSteps : NumberTexts]

(* Nothing is set. *)
BareEnvironment ==
  [noLlm |-> "absent", realHttp |-> "absent", dbWrites |-> "absent",
   baseUrl |-> FALSE, key |-> FALSE, hosts |-> [given |-> FALSE, names |-> {}],
   maxSteps |-> "absent"]

(* _parse_bool that takes a blank for absent, as the other parsers do.     *)
ParseBoolBlankIsTrue(text, default) == IF text = "absent" THEN default ELSE text # "false"

(* A blank flag is off, whatever its default. *)
ParseBool(text, default) == IF text = "absent" THEN default ELSE text = "true"

(* _parse_int and _parse_float raise on text that is no number. *)
ParsesAsNumber(text) == text # "junk"
ParseNumber(text, default) == IF text \in {"absent", "empty"} THEN default ELSE 7

ParseHosts(hosts) == IF hosts.given THEN hosts.names ELSE DefaultHosts

(* Config.from_env raises instead of returning a configuration. *)
LoadRaises(env) == ~ParsesAsNumber(env.maxSteps)

(* load_config without overrides; those replace fields as they are.        *)
LoadConfig(env) ==
  [noLlm    |-> ParseBool(env.noLlm, TRUE),
   realHttp |-> ParseBool(env.realHttp, FALSE),
   dbWrites |-> ParseBool(env.dbWrites, FALSE),
   baseUrl  |-> env.baseUrl,
   key      |-> env.key,
   hosts    |-> ParseHosts(env.hosts),
   maxSteps |-> ParseNumber(env.maxSteps, 12)]

-----------------------------------------------------------------------------

(* get_provider.  The remote one refuses to be made without a base URL:    *)
(* the run, which makes one before its try, ends in that exception.        *)
Provider(config) ==
  IF config.noLlm \/ ~config.key THEN "heuristic"
  ELSE IF config.baseUrl THEN "remote" ELSE "raises"

(* summarize_tool: the heuristic only cuts text; whatever goes wrong with  *)
(* the remote one, a timeout included, is an error of the tool.            *)
SummarizeStatuses(provider) ==
  IF provider = "heuristic" THEN {"success"}
  ELSE IF provider = "remote" THEN {"success", "error"} ELSE {"error"}
=============================================================================
