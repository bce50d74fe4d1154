------------------------------ MODULE Monitors ------------------------------
(***************************************************************************)
(* execution/monitors.py: a recorded tool call is turned into normalised   *)
(* failure signals, and a failing call that keeps recurring is recognised. *)
(* Severity, message and diagnostics of a signal decide nothing and are    *)
(* left out.                                                               *)
(*                                                                         *)
(* As in Executor, a definition that nothing uses and that precedes its    *)
(* namesake is a mistake the properties are tried against.                 *)
(***************************************************************************)
EXTENDS Naturals, Sequences

ToolCallStatuses ==
  {"success", "error", "timeout", "schema_error", "policy_blocked"}

(* The failure types the monitors and the executor can put in a signal. *)
FailureTypes ==
  {"timeout", "tool_error", "schema_error", "policy_violation",
   "non_progress", "unknown"}

Signals == [type: FailureTypes, retryable: BOOLEAN]

Signal(type, retryable) == [type |-> type, retryable |-> retryable]

EvaluateToolCallUnmapped(status, malformed) ==
  IF status = "success" THEN << >>
  ELSE <<Signal(status, status # "policy_blocked")>>

(* The list of signals raised for one recorded call, at most one long.     *)
(* `malformed' is the flag of a successful HTTP result whose body was not  *)
(* the JSON it should have been.                                           *)
EvaluateToolCall(status, malformed) ==
  CASE status = "success"        -> IF malformed
                                    THEN <<Signal("schema_error", TRUE)>> ELSE << >>
    [] status = "timeout"        -> <<Signal("timeout", TRUE)>>
    [] status = "schema_error"   -> <<Signal("schema_error", TRUE)>>
    [] status = "policy_blocked" -> <<Signal("policy_violation", FALSE)>>
    [] OTHER                     -> <<Signal("tool_error", TRUE)>>

DetectNonProgressOffByOne(count, threshold) == count >= threshold

(* A failing call recurs without progress when it was seen more often than *)
(* the configured threshold.                                               *)
DetectNonProgress(count, threshold) == count > threshold
=============================================================================
