------------------------------ MODULE MockServer ------------------------------
(***************************************************************************)
(* The mock server as it runs: mock_api/state.py, faults.py and routes.py  *)
(* under FastAPI, which hands every request to a thread of a pool (the     *)
(* routes are plain functions), so that handlers run interleaved.  Module  *)
(* MockApi says what one request does; here several clients, each the      *)
(* executor of one HTTP step in a process of its own, ask at once.         *)
(*                                                                         *)
(* A client that times out asks again while the request it gave up is      *)
(* still being handled.  The server may go down: its counters are gone.    *)
(*                                                                         *)
(* With a global interpreter lock (the images run python:3.12) a thread is *)
(* switched only at calls, so bump is one step; pyproject.toml admits the  *)
(* builds without one too, where it is a read, a write and a read again.   *)
(*                                                                         *)
(* As in Executor, a definition that nothing uses and that precedes its    *)
(* namesake is a mistake the properties are tried against.                 *)
(***************************************************************************)
EXTENDS Naturals, FiniteSets, MockApi

CONSTANTS
  Clients,
  Settings,     \* the [gil, asks]: whether there is a lock, and each client's endpoint
  Pool,         \* threads for handlers
  MaxAttempts,  \* how often a step is tried
  MaxCrashes    \* bounds how often the server goes down

ASSUME MockServerAssumption ==
  /\ Settings \subseteq [gil : BOOLEAN, asks : [Clients -> STRING]]
  /\ Pool \in Nat \ {0} /\ MaxAttempts \in Nat \ {0} /\ MaxCrashes \in Nat

VARIABLES
  gil,          \* the interpreter has a lock
  asks,         \* each client's endpoint
  clients,      \* [attempt, state, timedOut] of each client
  requests,     \* [phase, count, life, answer] of each client's attempts
  hits,         \* the server's counters
  up,           \* the server runs
  crashes       \* how often it went down

serverVars == <<gil, asks, clients, requests, hits, up, crashes>>

Requests == Clients \X (1..MaxAttempts)

Target(r) == asks[r[1]]
Tool(r)   == IF Target(r) = "/submit" THEN "http_post" ELSE "http_get"

(* The endpoints whose handlers count, and those whose handlers sleep.     *)
Counts(r) == Target(r) \in FlakyEndpoints \cup {"/submit"}
Sleeps(r) == Target(r) \in SlowEndpoints

(* A handler is in its thread from "called" to its answer.                 *)
Handling == {"called", "read", "written", "decided", "sleeping"}
Running  == {r \in Requests : requests[r].phase \in Handling}
InFlight == {r \in Requests : requests[r].phase \in Handling \cup {"queued"}}

(* The request a client waits for. *)
Current(c)   == <<c, clients[c].attempt>>
Awaited(r)   == clients[r[1]].state = "waiting" /\ r = Current(r[1])

TypeOK ==
  /\ [gil |-> gil, asks |-> asks] \in Settings /\ up \in BOOLEAN /\ crashes \in 0..MaxCrashes
  /\ clients \in [Clients -> [attempt : 0..MaxAttempts, timedOut : BOOLEAN,
                              state : {"ready", "waiting", "succeeded", "failed"}]]
  /\ requests \in [Requests -> [phase : Handling \cup {"unsent", "queued", "over"},
                                count : Nat, life : 0..MaxCrashes,
                                answer : {"none", "json", "failure", "text"}]]
  /\ IsCounter(hits, {asks[c] : c \in Clients})

Init ==
  /\ \E s \in Settings : gil = s.gil /\ asks = s.asks
  /\ clients = [c \in Clients |-> [attempt |-> 0, state |-> "ready", timedOut |-> FALSE]]
  /\ requests = [r \in Requests |->
                   [phase |-> "unsent", count |-> 0, life |-> 0, answer |-> "none"]]
  /\ hits = NoCounts /\ up = TRUE /\ crashes = 0

-----------------------------------------------------------------------------
(* Clients. *)

AfterUnlimited(client, st) ==
  [client EXCEPT !.state = IF st = "success" THEN "succeeded" ELSE "ready",
                 !.timedOut = @ \/ st = "timeout"]

(* A client after its attempt ended so: a step is tried again until it     *)
(* succeeds or was tried as often as it may be.                            *)
After(client, st) ==
  [client EXCEPT
     !.state = IF st = "success" THEN "succeeded"
               ELSE IF client.attempt = MaxAttempts THEN "failed" ELSE "ready",
     !.timedOut = @ \/ st = "timeout"]

(* The connection is refused while the server is down: a transport error.  *)
Send(c) ==
  /\ clients[c].state = "ready"
  /\ LET sent == [clients[c] EXCEPT !.attempt = @ + 1, !.state = "waiting"]
     IN  IF up
         THEN /\ clients' = [clients EXCEPT ![c] = sent]
              /\ requests' = [requests EXCEPT ![<<c, sent.attempt>>].phase = "queued"]
         ELSE /\ clients' = [clients EXCEPT ![c] = After(sent, "error")]
              /\ UNCHANGED requests
  /\ UNCHANGED <<gil, asks, hits, up, crashes>>

(* Time passes while a handler sleeps: for the client that waits for it,   *)
(* and for one whose request finds the pool full of sleepers.  The request *)
(* stays where it is.                                                      *)
GiveUp(c) ==
  /\ clients[c].state = "waiting"
  /\ \/ requests[Current(c)].phase = "sleeping"
     \/ /\ requests[Current(c)].phase = "queued"
        /\ Cardinality(Running) = Pool /\ \E r \in Running : requests[r].phase = "sleeping"
  /\ clients' = [clients EXCEPT ![c] = After(@, "timeout")]
  /\ UNCHANGED <<gil, asks, requests, hits, up, crashes>>

-----------------------------------------------------------------------------
(* Handlers. *)

(* A free thread takes a request. *)
TakeRequest(r) ==
  /\ requests[r].phase = "queued" /\ Cardinality(Running) < Pool
  /\ requests' = [requests EXCEPT ![r].phase =
                    IF Counts(r) THEN "called" ELSE IF Sleeps(r) THEN "sleeping" ELSE "decided"]
  /\ UNCHANGED <<gil, asks, clients, hits, up, crashes>>

BumpStale(r) ==
  /\ requests[r].phase = "called" /\ gil
  /\ hits' = Bump(hits, Target(r))
  /\ requests' = [requests EXCEPT ![r] =
                    [@ EXCEPT !.phase = "decided", !.life = crashes,
                              !.count = CountOf(hits, Target(r))]]
  /\ UNCHANGED <<gil, asks, clients, up, crashes>>

(* MockState.bump under the lock. *)
BumpLocked(r) ==
  /\ requests[r].phase = "called" /\ gil
  /\ hits' = Bump(hits, Target(r))
  /\ requests' = [requests EXCEPT ![r] =
                    [@ EXCEPT !.phase = "decided", !.life = crashes,
                              !.count = CountOf(hits', Target(r))]]
  /\ UNCHANGED <<gil, asks, clients, up, crashes>>

(* MockState.bump without it: += reads ... *)
BumpRead(r) ==
  /\ requests[r].phase = "called" /\ ~gil
  /\ requests' = [requests EXCEPT ![r] =
                    [@ EXCEPT !.phase = "read", !.life = crashes,
                              !.count = CountOf(hits, Target(r))]]
  /\ UNCHANGED <<gil, asks, clients, hits, up, crashes>>

(* ... and writes, whatever the counter is by now ... *)
BumpWrite(r) ==
  /\ requests[r].phase = "read"
  /\ hits' = [t \in DOMAIN hits \cup {Target(r)} |->
                IF t = Target(r) THEN requests[r].count + 1 ELSE hits[t]]
  /\ requests' = [requests EXCEPT ![r].phase = "written"]
  /\ UNCHANGED <<gil, asks, clients, up, crashes>>

(* ... and the return statement reads the counter again. *)
BumpReturn(r) ==
  /\ requests[r].phase = "written"
  /\ requests' = [requests EXCEPT ![r] =
                    [@ EXCEPT !.phase = "decided", !.count = CountOf(hits, Target(r))]]
  /\ UNCHANGED <<gil, asks, clients, hits, up, crashes>>

WakeUp(r) ==
  /\ requests[r].phase = "sleeping"
  /\ requests' = [requests EXCEPT ![r].phase = "decided"]
  /\ UNCHANGED <<gil, asks, clients, hits, up, crashes>>

BodyFailsOnceMore(r) ==
  CASE Target(r) \in FlakyEndpoints /\ requests[r].count - 1 <= FailFirst(Target(r)) -> "failure"
    [] Target(r) = "/malformed" -> "text"
    [] OTHER                    -> "json"

(* What the handler makes of the count it got. *)
Body(r) ==
  CASE Target(r) \in FlakyEndpoints /\ requests[r].count <= FailFirst(Target(r)) -> "failure"
    [] Target(r) = "/malformed" -> "text"
    [] OTHER                    -> "json"

AnswerAwaited(r) ==
  /\ requests[r].phase = "decided" /\ Awaited(r)
  /\ requests' = [requests EXCEPT ![r] = [@ EXCEPT !.phase = "over", !.answer = Body(r)]]
  /\ clients' = [clients EXCEPT ![r[1]] = After(@, Received(TRUE, Body(r)))]
  /\ UNCHANGED <<gil, asks, hits, up, crashes>>

(* The answer reaches the client that still waits for it. *)
Answer(r) ==
  /\ requests[r].phase = "decided"
  /\ requests' = [requests EXCEPT ![r] = [@ EXCEPT !.phase = "over", !.answer = Body(r)]]
  /\ clients' = IF Awaited(r)
                THEN [clients EXCEPT ![r[1]] = After(@, Received(TRUE, Body(r)))]
                ELSE clients
  /\ UNCHANGED <<gil, asks, hits, up, crashes>>

-----------------------------------------------------------------------------
(* The server goes down and is started again. *)

CrashKeepsCounters ==
  /\ up /\ crashes < MaxCrashes
  /\ up' = FALSE /\ crashes' = crashes + 1
  /\ requests' = [r \in Requests |->
                    IF r \in InFlight THEN [requests[r] EXCEPT !.phase = "over"] ELSE requests[r]]
  /\ clients' = [c \in Clients |-> IF clients[c].state = "waiting"
                                   THEN After(clients[c], "error") ELSE clients[c]]
  /\ UNCHANGED <<gil, asks, hits>>

(* Its state was in memory; who waits gets a transport error.              *)
Crash ==
  /\ up /\ crashes < MaxCrashes
  /\ up' = FALSE /\ crashes' = crashes + 1
  /\ hits' = NoCounts
  /\ requests' = [r \in Requests |->
                    IF r \in InFlight THEN [requests[r] EXCEPT !.phase = "over"] ELSE requests[r]]
  /\ clients' = [c \in Clients |-> IF clients[c].state = "waiting"
                                   THEN After(clients[c], "error") ELSE clients[c]]
  /\ UNCHANGED <<gil, asks>>

ComeUp ==
  /\ ~up /\ up' = TRUE
  /\ UNCHANGED <<gil, asks, clients, requests, hits, crashes>>

-----------------------------------------------------------------------------

Handle(r) ==
  \/ TakeRequest(r) \/ BumpLocked(r) \/ BumpRead(r) \/ BumpWrite(r) \/ BumpReturn(r)
  \/ WakeUp(r) \/ Answer(r)

AllEnded ==
  /\ \A c \in Clients : clients[c].state \in {"succeeded", "failed"}
  /\ InFlight = {}

Idle == AllEnded /\ UNCHANGED serverVars

Next ==
  \/ \E c \in Clients : Send(c) \/ GiveUp(c)
  \/ \E r \in Requests : Handle(r)
  \/ Crash \/ ComeUp \/ Idle

(* Clients send what they have to send and threads are scheduled.  Nobody  *)
(* has to give up, to crash, or to start the server again.                 *)
Fairness ==
  /\ \A c \in Clients : WF_serverVars(Send(c))
  /\ \A r \in Requests : WF_serverVars(Handle(r))

Spec == Init /\ [][Next]_serverVars /\ Fairness

-----------------------------------------------------------------------------
(* Properties. *)

(* The requests counted since the server was last started.                 *)
Counted(t) ==
  {r \in Requests : /\ Target(r) = t /\ Counts(r)
                    /\ requests[r].life = crashes /\ requests[r].count > 0}

(* With the lock, however handlers interleave and whoever gave up, the     *)
(* faults hit exactly whom they are meant for: the requests of a life of   *)
(* the server for one key get the counts 1, 2, ... once each, and of those *)
(* that are answered, the ones counted up to fail_first are failed and the *)
(* others are not.                                                         *)
FaultsAreExact ==
  gil => \A t \in {asks[c] : c \in Clients} :
    LET counts   == {requests[r].count : r \in Counted(t)}
        answered == {r \in Counted(t) : requests[r].answer # "none"}
        failed   == {r \in answered : requests[r].answer = "failure"}
    IN  /\ counts = 1..CountOf(hits, t) /\ Cardinality(Counted(t)) = CountOf(hits, t)
        /\ failed = IF t \in FlakyEndpoints
                    THEN {r \in answered : requests[r].count <= FailFirst(t)} ELSE {}

(* A step that is tried more often than its endpoint fails succeeds: with  *)
(* the lock, a client of a flaky endpoint is failed at most fail_first     *)
(* times per life of the server, whatever the others do, and one that was  *)
(* always answered by a server that never went down ends in success.       *)
RetriesOutlastFaults ==
  gil => \A c \in Clients :
    LET failed == {n \in 1..MaxAttempts : requests[<<c, n>>].answer = "failure"}
    IN  asks[c] \in FlakyEndpoints =>
          /\ Cardinality(failed) <= FailFirst(asks[c]) * (crashes + 1)
          /\ crashes = 0 /\ ~clients[c].timedOut /\ FailFirst(asks[c]) < MaxAttempts =>
               clients[c].state # "failed"

(* The server never counts more than was asked of it in this life, with or *)
(* without the lock; what it acknowledged in it, it counted, if it has the *)
(* lock.                                                                   *)
SubmissionsCounted ==
  LET mine == {r \in Requests : /\ Target(r) = "/submit" /\ requests[r].life = crashes
                                /\ requests[r].count > 0 \/ requests[r].phase = "written"}
      acknowledged == {r \in mine : requests[r].answer = "json"}
  IN  /\ CountOf(hits, "/submit") <= Cardinality(mine)
      /\ gil => Cardinality(acknowledged) <= CountOf(hits, "/submit")

(* Every client comes to an end, and so do all handlers, those of requests *)
(* nobody waits for included: the pool empties.                            *)
EverythingEnds == <>[]AllEnded
=============================================================================
