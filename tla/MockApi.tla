-------------------------------- MODULE MockApi --------------------------------
(***************************************************************************)
(* mock_api/ and the HTTP tools that call it: the server's faults, and     *)
(* what a call ends with.  The server's only state is its table of hit     *)
(* counters, which outlives runs and is never reset in service.            *)
(*                                                                         *)
(* Endpoints are named by their path and, where the query matters, by it:  *)
(* "/flaky" is the demo key that fails once, "/flaky?loop" the key that    *)
(* fails ten times, "/slow" sleeps 1.5 s and "/slow?900" 0.9 s.            *)
(*                                                                         *)
(* As in Executor, a definition that nothing uses and that precedes its    *)
(* namesake is a mistake the properties are tried against.                 *)
(***************************************************************************)
EXTENDS Naturals, Counters, Refinement

FlakyEndpoints == {"/flaky", "/flaky?loop"}
SlowEndpoints  == {"/slow", "/slow?900"}

FailFirst(target) == IF target = "/flaky" THEN 1 ELSE 10
Delay(target)     == IF target = "/slow" THEN 15 ELSE 9    \* tenths of a second

ReplyFailsOnceMore(tool, target, hits) ==
  IF tool = "http_post"
  THEN [body |-> "json", hits |-> IF target = "/submit" THEN Bump(hits, target) ELSE hits]
  ELSE IF target \in FlakyEndpoints
  THEN LET after == Bump(hits, target)
       IN  [body |-> IF CountOf(hits, target) <= FailFirst(target) THEN "failure" ELSE "json",
            hits |-> after]
  ELSE [body |-> IF target = "/malformed" THEN "text" ELSE "json", hits |-> hits]

(* What the server answers to a request and the counters it leaves: "json" *)
(* for a JSON body with a status below 500 (a 405 to a method the endpoint *)
(* does not take included), "failure" for a 500, "text" for a body that is *)
(* not JSON.                                                               *)
Reply(tool, target, hits) ==
  IF tool = "http_post"
  THEN [body |-> "json", hits |-> IF target = "/submit" THEN Bump(hits, target) ELSE hits]
  ELSE IF target \in FlakyEndpoints
  THEN LET after == Bump(hits, target)
       IN  [body |-> IF after[target] <= FailFirst(target) THEN "failure" ELSE "json",
            hits |-> after]
  ELSE [body |-> IF target = "/malformed" THEN "text" ELSE "json", hits |-> hits]

(* The status the tool makes of an answer. *)
Received(strict, body) ==
  CASE body = "failure"         -> "error"
    [] body = "text" /\ strict  -> "schema_error"
    [] OTHER                    -> "success"

(* An answer later than the timeout is no answer; one just in time may be. *)
MayTimeOut(tool, args) ==
  tool = "http_get" /\ args.target \in SlowEndpoints /\ args.timeout <= Delay(args.target)

MayAnswer(tool, args) ==
  tool = "http_get" /\ args.target \in SlowEndpoints => args.timeout >= Delay(args.target)

(* What an HTTP call may end with, and the counters afterwards.            *)
Exchange(tool, args, hits) ==
  LET reply == Reply(tool, args.target, hits)
  IN  (IF MayAnswer(tool, args)
       THEN {[status |-> Received(args.strict, reply.body), hits |-> reply.hits]} ELSE {})
      \cup
      (IF MayTimeOut(tool, args) THEN {[status |-> "timeout", hits |-> reply.hits]} ELSE {})

(* The same over a network that may lose the request or the answer, refuse *)
(* the connection, or reset it when the server has counted the request.    *)
LossyExchange(tool, args, hits) ==
  Exchange(tool, args, hits)
  \cup {[status |-> st, hits |-> after] :
          st \in {"timeout", "error"}, after \in {hits, Reply(tool, args.target, hits).hits}}

(* A server outside the repository answers anything. *)
ForeignExchange(args, hits) ==
  {[status |-> st, hits |-> hits] :
     st \in {"success", "timeout", "error"} \cup (IF args.strict THEN {"schema_error"} ELSE {})}
=============================================================================
