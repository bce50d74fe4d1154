--------------------------- MODULE MockServerProofs ---------------------------
(***************************************************************************)
(* Theorems about the mock server that hold for any number of clients,     *)
(* attempts, threads and crashes: with the interpreter lock, faults happen *)
(* to exactly the requests they are meant for, and a client that tries     *)
(* more often than its endpoint fails succeeds; with the lock or without,  *)
(* the server counts no submission it was not sent.                        *)
(***************************************************************************)
EXTENDS MockServer, TLAPS, FiniteSetTheorems

Asked == {asks[c] : c \in Clients}

(* A client that is ready has an attempt left; those it has not made yet   *)
(* are unsent.                                                             *)
Attempts ==
  \A c \in Clients :
    /\ clients[c].state = "ready" => clients[c].attempt < MaxAttempts
    /\ clients[c].state # "ready" => clients[c].attempt > 0
    /\ clients[c].state = "failed" => clients[c].attempt = MaxAttempts
    /\ \A n \in 1..MaxAttempts :
         n > clients[c].attempt => requests[<<c, n>>].phase = "unsent"

(* What the phase of a request says of it. *)
Phases ==
  \A r \in Requests :
    /\ requests[r].phase \in {"unsent", "queued", "called"} => requests[r].count = 0
    /\ requests[r].phase # "over" => requests[r].answer = "none"
    /\ requests[r].phase \in {"called", "read", "written"} => Counts(r)
    /\ requests[r].phase \in {"read", "written"} => ~gil
    /\ requests[r].phase = "sleeping" => ~Counts(r)
    /\ requests[r].phase = "decided" /\ gil /\ Counts(r) => requests[r].count > 0

(* A failed request is one of the first for its key in its life, and the   *)
(* first ones are failed.                                                  *)
Failures ==
  \A r \in Requests :
    /\ requests[r].life <= crashes
    /\ requests[r].answer = "failure" /\ gil =>
         /\ Target(r) \in FlakyEndpoints
         /\ requests[r].count \in 1..FailFirst(Target(r))
    /\ requests[r].answer # "none" /\ Target(r) \in FlakyEndpoints =>
         (requests[r].answer = "failure" <=> requests[r].count <= FailFirst(Target(r)))

(* The numbers given out for a key in the present life are those up to its *)
(* counter, and no two requests of a life have the same.                   *)
Numbered ==
  gil =>
    /\ \A r \in Requests :
         Counts(r) /\ requests[r].life = crashes => requests[r].count <= CountOf(hits, Target(r))
    /\ \A r, s \in Requests :
         /\ r # s /\ Target(r) = Target(s)
         /\ Counts(r) /\ requests[r].count > 0 /\ requests[s].count > 0
         /\ requests[r].life = requests[s].life
         => requests[r].count # requests[s].count
    /\ \A t \in Asked : \A n \in 1..CountOf(hits, t) :
         \E r \in Counted(t) : requests[r].count = n

(* The client has that attempt behind it, without success.                 *)
Behind(c, n) ==
  \/ n < clients[c].attempt
  \/ n = clients[c].attempt /\ clients[c].state \in {"ready", "failed"}

(* Without crashes and timeouts, such an attempt was failed by the server. *)
Tried ==
  crashes = 0 =>
    /\ up
    /\ \A c \in Clients : \A n \in 1..MaxAttempts :
         asks[c] \in FlakyEndpoints /\ ~clients[c].timedOut /\ Behind(c, n) =>
           requests[<<c, n>>].answer = "failure"

Inv == TypeOK /\ Attempts /\ Phases /\ Failures /\ Numbered /\ Tried

-----------------------------------------------------------------------------
(* Types. *)

(* A client that made its attempt is through with it or has another left.  *)
LEMMA AfterEnds ==
  ASSUME NEW client \in [attempt : 1..MaxAttempts, timedOut : BOOLEAN,
                         state : {"ready", "waiting", "succeeded", "failed"}], NEW st
  PROVE  /\ After(client, st) \in [attempt : 1..MaxAttempts, timedOut : BOOLEAN,
                                   state : {"ready", "succeeded", "failed"}]
         /\ After(client, st).attempt = client.attempt
         /\ After(client, st).state = "ready" => client.attempt < MaxAttempts
         /\ After(client, st).state = "failed" => client.attempt = MaxAttempts
         /\ After(client, st).state = "succeeded" <=> st = "success"
         /\ client.timedOut \/ st = "timeout" => After(client, st).timedOut
<1>1. /\ After(client, st).state = IF st = "success" THEN "succeeded"
                                    ELSE IF client.attempt = MaxAttempts THEN "failed"
                                                                        ELSE "ready"
      /\ After(client, st).attempt = client.attempt
  BY DEF After
<1>2. After(client, st).timedOut = (client.timedOut \/ st = "timeout")
  BY Zenon DEF After
<1>3. After(client, st) \in [attempt : 1..MaxAttempts, timedOut : BOOLEAN,
                             state : {"ready", "succeeded", "failed"}]
  <2>1. (client.timedOut \/ st = "timeout") \in BOOLEAN
    OBVIOUS
  <2> QED
    BY <2>1 DEF After
<1>4. client.attempt \in 1..MaxAttempts
  OBVIOUS
<1>5. /\ After(client, st).state = "ready" => client.attempt < MaxAttempts
      /\ After(client, st).state = "failed" => client.attempt = MaxAttempts
      /\ After(client, st).state = "succeeded" <=> st = "success"
  BY <1>1, <1>4, MockServerAssumption
<1>6. client.timedOut \/ st = "timeout" => After(client, st).timedOut
  BY <1>2, Zenon
<1> QED
  BY <1>1, <1>3, <1>5, <1>6

LEMMA BodyTypes ==
  ASSUME NEW r \in Requests
  PROVE  Body(r) \in {"json", "failure", "text"}
  BY DEF Body

LEMMA InitInv == Init => Inv
<1> SUFFICES ASSUME Init PROVE Inv
  OBVIOUS
<1>1. /\ gil \in BOOLEAN /\ asks \in [Clients -> STRING]
      /\ [gil |-> gil, asks |-> asks] \in Settings
  BY MockServerAssumption DEF Init
<1>2. TypeOK
  BY <1>1, MockServerAssumption DEF Init, TypeOK, Handling, IsCounter, NoCounts
<1>3. Attempts /\ Phases /\ Failures /\ Tried
  BY <1>1, MockServerAssumption DEF Init, Attempts, Phases, Failures, Tried, Behind, Requests
<1>4. Numbered
  BY <1>1, MockServerAssumption DEF Init, Numbered, CountOf, NoCounts
<1> QED
  BY <1>2, <1>3, <1>4 DEF Inv

(* One step of one of the actions. *)
LEMMA StepCases ==
  ASSUME Next, NEW P,
         ASSUME NEW c \in Clients, Send(c) PROVE P,
         ASSUME NEW c \in Clients, GiveUp(c) PROVE P,
         ASSUME NEW r \in Requests, TakeRequest(r) PROVE P,
         ASSUME NEW r \in Requests, BumpLocked(r) PROVE P,
         ASSUME NEW r \in Requests, BumpRead(r) PROVE P,
         ASSUME NEW r \in Requests, BumpWrite(r) PROVE P,
         ASSUME NEW r \in Requests, BumpReturn(r) PROVE P,
         ASSUME NEW r \in Requests, WakeUp(r) PROVE P,
         ASSUME NEW r \in Requests, Answer(r) PROVE P,
         ASSUME Crash PROVE P,
         ASSUME ComeUp PROVE P,
         ASSUME UNCHANGED serverVars PROVE P
  PROVE  P
  BY DEF Next, Handle, Idle

ClientType  == [attempt : 0..MaxAttempts, timedOut : BOOLEAN,
                state : {"ready", "waiting", "succeeded", "failed"}]
RequestType == [phase : Handling \cup {"unsent", "queued", "over"}, count : Nat,
                life : 0..MaxCrashes, answer : {"none", "json", "failure", "text"}]

(* What a client makes of the end of its attempt. *)
LEMMA ClientAfter ==
  ASSUME TypeOK, Attempts, NEW c \in Clients, clients[c].state = "waiting", NEW st
  PROVE  /\ After(clients[c], st) \in ClientType
         /\ After(clients[c], st).attempt = clients[c].attempt
         /\ clients[c].attempt \in 1..MaxAttempts
         /\ After(clients[c], st).state = "ready" => clients[c].attempt < MaxAttempts
         /\ After(clients[c], st).state = "failed" => clients[c].attempt = MaxAttempts
         /\ After(clients[c], st).state = "succeeded" <=> st = "success"
         /\ After(clients[c], st).state # "waiting"
         /\ clients[c].timedOut \/ st = "timeout" => After(clients[c], st).timedOut
<1>1. clients[c].attempt \in 1..MaxAttempts
  BY MockServerAssumption DEF TypeOK, Attempts
<1>2. clients[c] \in [attempt : 1..MaxAttempts, timedOut : BOOLEAN,
                      state : {"ready", "waiting", "succeeded", "failed"}]
  BY <1>1 DEF TypeOK
<1>3. After(clients[c], st) \in [attempt : 1..MaxAttempts, timedOut : BOOLEAN,
                                 state : {"ready", "succeeded", "failed"}]
  BY <1>2, AfterEnds
<1> QED
  BY <1>1, <1>2, <1>3, AfterEnds, MockServerAssumption DEF ClientType

(* The same for a client that finds no server. *)
LEMMA ClientRefused ==
  ASSUME TypeOK, Attempts, NEW c \in Clients, clients[c].state = "ready",
         NEW sent, sent = [clients[c] EXCEPT !.attempt = @ + 1, !.state = "waiting"]
  PROVE  /\ sent \in ClientType
         /\ sent.attempt = clients[c].attempt + 1 /\ sent.attempt \in 1..MaxAttempts
         /\ sent.state = "waiting"
         /\ After(sent, "error") \in ClientType
         /\ After(sent, "error").attempt = sent.attempt
         /\ After(sent, "error").state = "ready" => sent.attempt < MaxAttempts
         /\ After(sent, "error").state = "failed" => sent.attempt = MaxAttempts
<1>1. sent.attempt = clients[c].attempt + 1 /\ sent.attempt \in 1..MaxAttempts
  BY MockServerAssumption DEF TypeOK, Attempts
<1>2. sent \in [attempt : 1..MaxAttempts, timedOut : BOOLEAN,
                state : {"ready", "waiting", "succeeded", "failed"}] /\ sent.state = "waiting"
  BY <1>1 DEF TypeOK
<1>3. \A client \in [attempt : 1..MaxAttempts, timedOut : BOOLEAN,
                      state : {"ready", "waiting", "succeeded", "failed"}] :
        /\ After(client, "error") \in [attempt : 1..MaxAttempts, timedOut : BOOLEAN,
                                       state : {"ready", "succeeded", "failed"}]
        /\ After(client, "error").attempt = client.attempt
        /\ After(client, "error").state = "ready" => client.attempt < MaxAttempts
        /\ After(client, "error").state = "failed" => client.attempt = MaxAttempts
  BY AfterEnds
<1>4. /\ After(sent, "error") \in [attempt : 1..MaxAttempts, timedOut : BOOLEAN,
                                   state : {"ready", "succeeded", "failed"}]
      /\ After(sent, "error").attempt = sent.attempt
      /\ After(sent, "error").state = "ready" => sent.attempt < MaxAttempts
      /\ After(sent, "error").state = "failed" => sent.attempt = MaxAttempts
  BY <1>2, <1>3, Zenon
<1>5. sent \in ClientType /\ After(sent, "error") \in ClientType
  BY <1>2, <1>4, MockServerAssumption DEF ClientType
<1> QED
  BY <1>1, <1>2, <1>4, <1>5, Zenon

(* What a bump does to the counters. *)
LEMMA BumpCounts ==
  ASSUME NEW d, NEW S, IsCounter(d, S), NEW t \in S
  PROVE  /\ IsCounter(Bump(d, t), S)
         /\ CountOf(d, t) \in Nat /\ CountOf(Bump(d, t), t) = CountOf(d, t) + 1
         /\ \A u \in S \ {t} : CountOf(Bump(d, t), u) = CountOf(d, u)
  BY DEF IsCounter, Bump, CountOf

LEMMA FreshCounts ==
  ASSUME NEW S, NEW t
  PROVE  IsCounter(NoCounts, S) /\ CountOf(NoCounts, t) = 0
  BY DEF IsCounter, CountOf, NoCounts

LEMMA CountTypes ==
  ASSUME NEW d, NEW S, IsCounter(d, S), NEW t
  PROVE  CountOf(d, t) \in Nat
  BY DEF IsCounter, CountOf

LEMMA TypesNext ==
  ASSUME TypeOK, Attempts, Phases, [Next]_serverVars
  PROVE  TypeOK'
<1> DEFINE Hits == IsCounter(hits, Asked)
<1>0. TypeOK <=> /\ [gil |-> gil, asks |-> asks] \in Settings
                 /\ up \in BOOLEAN /\ crashes \in 0..MaxCrashes
                 /\ clients \in [Clients -> ClientType] /\ requests \in [Requests -> RequestType]
                 /\ Hits
  BY DEF TypeOK, ClientType, RequestType, Asked
<1>00. TypeOK' <=> /\ [gil |-> gil', asks |-> asks'] \in Settings
                   /\ up' \in BOOLEAN /\ crashes' \in 0..MaxCrashes
                   /\ clients' \in [Clients -> ClientType]
                   /\ requests' \in [Requests -> RequestType]
                   /\ Hits'
  BY DEF TypeOK, ClientType, RequestType, Asked, Requests
<1>1. ASSUME NEW c \in Clients, Send(c) PROVE TypeOK'
  <2> DEFINE sent == [clients[c] EXCEPT !.attempt = @ + 1, !.state = "waiting"]
  <2>1. sent \in ClientType /\ After(sent, "error") \in ClientType
    BY <1>1, ClientRefused DEF Send
  <2>2. clients' \in [Clients -> ClientType]
    BY <1>0, <1>1, <2>1 DEF Send
  <2>3. requests' \in [Requests -> RequestType]
    BY <1>0, <1>1 DEF Send, RequestType
  <2> QED
    BY <1>0, <1>00, <1>1, <2>2, <2>3 DEF Send, Asked
<1>2. ASSUME NEW c \in Clients, GiveUp(c) PROVE TypeOK'
  <2>1. After(clients[c], "timeout") \in ClientType
    BY <1>2, ClientAfter DEF GiveUp
  <2> QED
    BY <1>0, <1>00, <1>2, <2>1 DEF GiveUp, Asked
<1>3. ASSUME NEW r \in Requests, TakeRequest(r) PROVE TypeOK'
  <2>1. requests' \in [Requests -> RequestType]
    BY <1>0, <1>3 DEF TakeRequest, RequestType, Handling
  <2> QED
    BY <1>0, <1>00, <1>3, <2>1 DEF TakeRequest, Asked
<1>4. ASSUME NEW r \in Requests, BumpLocked(r) PROVE TypeOK'
  <2>1. Target(r) \in Asked
    BY DEF Target, Asked, Requests
  <2>2. IsCounter(hits', Asked) /\ CountOf(hits', Target(r)) \in Nat
    BY <1>0, <1>4, <2>1, BumpCounts DEF BumpLocked
  <2>3. requests' \in [Requests -> RequestType]
    BY <1>0, <1>4, <2>2 DEF BumpLocked, RequestType, Handling
  <2> QED
    BY <1>0, <1>00, <1>4, <2>2, <2>3 DEF BumpLocked, Asked
<1>5. ASSUME NEW r \in Requests, BumpRead(r) PROVE TypeOK'
  <2>1. requests' \in [Requests -> RequestType]
    BY <1>0, <1>5, CountTypes DEF BumpRead, RequestType, Handling
  <2> QED
    BY <1>0, <1>00, <1>5, <2>1 DEF BumpRead, Asked
<1>6. ASSUME NEW r \in Requests, BumpWrite(r) PROVE TypeOK'
  <2>1. requests' \in [Requests -> RequestType]
    BY <1>0, <1>6 DEF BumpWrite, RequestType, Handling
  <2>2. Target(r) \in Asked /\ requests[r].count \in Nat
    BY <1>0 DEF Target, Asked, Requests, RequestType
  <2>3. IsCounter(hits', Asked)
    BY <1>0, <1>6, <2>2 DEF BumpWrite, IsCounter
  <2> QED
    BY <1>0, <1>00, <1>6, <2>1, <2>3 DEF BumpWrite, Asked
<1>7. ASSUME NEW r \in Requests, BumpReturn(r) PROVE TypeOK'
  <2>1. requests' \in [Requests -> RequestType]
    BY <1>0, <1>7, CountTypes DEF BumpReturn, RequestType, Handling
  <2> QED
    BY <1>0, <1>00, <1>7, <2>1 DEF BumpReturn, Asked
<1>8. ASSUME NEW r \in Requests, WakeUp(r) PROVE TypeOK'
  <2>1. requests' \in [Requests -> RequestType]
    BY <1>0, <1>8 DEF WakeUp, RequestType, Handling
  <2> QED
    BY <1>0, <1>00, <1>8, <2>1 DEF WakeUp, Asked
<1>9. ASSUME NEW r \in Requests, Answer(r) PROVE TypeOK'
  <2>1. requests' \in [Requests -> RequestType]
    BY <1>0, <1>9, BodyTypes DEF Answer, RequestType, Handling
  <2>2. clients' \in [Clients -> ClientType]
    <3>1. CASE Awaited(r)
      <4>1. r[1] \in Clients /\ clients[r[1]].state = "waiting"
        BY <3>1 DEF Awaited, Requests
      <4>2. After(clients[r[1]], Received(TRUE, Body(r))) \in ClientType
        BY <4>1, ClientAfter
      <4> QED
        BY <1>0, <1>9, <3>1, <4>2 DEF Answer
    <3>2. CASE ~Awaited(r)
      BY <1>0, <1>9, <3>2 DEF Answer
    <3> QED
      BY <3>1, <3>2
  <2> QED
    BY <1>0, <1>00, <1>9, <2>1, <2>2 DEF Answer, Asked
<1>10. ASSUME Crash PROVE TypeOK'
  <2>1. requests' \in [Requests -> RequestType]
    BY <1>0, <1>10 DEF Crash, RequestType, Handling
  <2>2. clients' \in [Clients -> ClientType]
    BY <1>0, <1>10, ClientAfter DEF Crash
  <2>3. Hits'
    BY <1>10, FreshCounts DEF Crash
  <2>4. crashes' \in 0..MaxCrashes
    BY <1>0, <1>10, MockServerAssumption DEF Crash
  <2>5. up' \in BOOLEAN
    BY <1>10 DEF Crash
  <2> QED
    BY <1>0, <1>00, <1>10, <2>1, <2>2, <2>3, <2>4, <2>5 DEF Crash
<1>11. ASSUME ComeUp PROVE TypeOK'
  BY <1>0, <1>00, <1>11 DEF ComeUp, Asked
<1>12. ASSUME UNCHANGED serverVars PROVE TypeOK'
  BY <1>0, <1>00, <1>12 DEF serverVars, Asked
<1> QED
  BY <1>1, <1>2, <1>3, <1>4, <1>5, <1>6, <1>7, <1>8, <1>9, <1>10, <1>11, <1>12, StepCases

-----------------------------------------------------------------------------
(* Attempts and phases. *)

(* Clients are as they were and no request becomes unsent or stops being.  *)
LEMMA AttemptsSame ==
  ASSUME Attempts, clients' = clients,
         \A r \in Requests : requests[r].phase = "unsent" => requests'[r].phase = "unsent"
  PROVE  Attempts'
  BY DEF Attempts, Requests

LEMMA AttemptsNext ==
  ASSUME TypeOK, Attempts, [Next]_serverVars
  PROVE  Attempts'
<1>0. /\ clients \in [Clients -> ClientType] /\ requests \in [Requests -> RequestType]
      /\ MaxAttempts \in Nat \ {0}
  BY MockServerAssumption DEF TypeOK, ClientType, RequestType
<1>1. ASSUME NEW c \in Clients, Send(c) PROVE Attempts'
  <2> DEFINE sent == [clients[c] EXCEPT !.attempt = @ + 1, !.state = "waiting"]
  <2>1. /\ sent.attempt = clients[c].attempt + 1 /\ sent.attempt \in 1..MaxAttempts
        /\ sent.state = "waiting"
        /\ After(sent, "error").attempt = sent.attempt
        /\ After(sent, "error").state = "ready" => sent.attempt < MaxAttempts
        /\ After(sent, "error").state = "failed" => sent.attempt = MaxAttempts
    BY <1>1, ClientRefused DEF Send
  <2>2. clients[c].attempt \in Nat
    BY <1>0 DEF ClientType
  <2> HIDE DEF sent
  <2>3. CASE up
    <3>1. /\ clients' = [clients EXCEPT ![c] = sent]
          /\ requests' = [requests EXCEPT ![<<c, sent.attempt>>].phase = "queued"]
      BY <1>1, <2>3 DEF Send, sent
    <3> QED
      BY <1>0, <2>1, <2>2, <3>1 DEF Attempts, Requests, RequestType
  <2>4. CASE ~up
    <3>1. clients' = [clients EXCEPT ![c] = After(sent, "error")] /\ requests' = requests
      BY <1>1, <2>4 DEF Send, sent
    <3> QED
      BY <1>0, <2>1, <2>2, <3>1 DEF Attempts
  <2> QED
    BY <2>3, <2>4
(* A client whose attempt ends has the same attempts behind it.            *)
<1>2. ASSUME NEW c \in Clients, clients[c].state = "waiting", NEW st,
             clients' = [clients EXCEPT ![c] = After(clients[c], st)],
             \A r \in Requests : requests[r].phase = "unsent" => requests'[r].phase = "unsent"
      PROVE  Attempts'
  <2>1. /\ After(clients[c], st).attempt = clients[c].attempt
        /\ clients[c].attempt \in 1..MaxAttempts
        /\ After(clients[c], st).state = "ready" => clients[c].attempt < MaxAttempts
        /\ After(clients[c], st).state = "failed" => clients[c].attempt = MaxAttempts
    BY <1>2, ClientAfter
  <2> QED
    BY <1>0, <1>2, <2>1 DEF Attempts, Requests
<1>3. ASSUME NEW c \in Clients, GiveUp(c) PROVE Attempts'
  BY <1>2, <1>3 DEF GiveUp
<1>4. ASSUME NEW r \in Requests, TakeRequest(r) PROVE Attempts'
  BY <1>0, <1>4, AttemptsSame DEF TakeRequest, RequestType
<1>5. ASSUME NEW r \in Requests, BumpLocked(r) PROVE Attempts'
  BY <1>0, <1>5, AttemptsSame DEF BumpLocked, RequestType
<1>6. ASSUME NEW r \in Requests, BumpRead(r) PROVE Attempts'
  BY <1>0, <1>6, AttemptsSame DEF BumpRead, RequestType
<1>7. ASSUME NEW r \in Requests, BumpWrite(r) PROVE Attempts'
  BY <1>0, <1>7, AttemptsSame DEF BumpWrite, RequestType
<1>8. ASSUME NEW r \in Requests, BumpReturn(r) PROVE Attempts'
  BY <1>0, <1>8, AttemptsSame DEF BumpReturn, RequestType
<1>9. ASSUME NEW r \in Requests, WakeUp(r) PROVE Attempts'
  BY <1>0, <1>9, AttemptsSame DEF WakeUp, RequestType
<1>10. ASSUME NEW r \in Requests, Answer(r) PROVE Attempts'
  <2>1. \A s \in Requests : requests[s].phase = "unsent" => requests'[s].phase = "unsent"
    BY <1>0, <1>10 DEF Answer, RequestType
  <2>2. CASE Awaited(r)
    <3>1. r[1] \in Clients /\ clients[r[1]].state = "waiting"
      BY <2>2 DEF Awaited, Requests
    <3> QED
      BY <1>2, <1>10, <2>1, <2>2, <3>1 DEF Answer
  <2>3. CASE ~Awaited(r)
    BY <1>10, <2>1, <2>3, AttemptsSame DEF Answer
  <2> QED
    BY <2>2, <2>3
<1>11. ASSUME Crash PROVE Attempts'
  <2>1. \A s \in Requests : requests[s].phase = "unsent" => requests'[s].phase = "unsent"
    BY <1>0, <1>11 DEF Crash, InFlight, Handling
  <2>2. \A c \in Clients :
          /\ clients'[c].attempt = clients[c].attempt
          /\ clients'[c].state # "waiting"
          /\ clients[c].state = "waiting" => clients[c].attempt \in 1..MaxAttempts
          /\ clients[c].state # "waiting" => clients'[c] = clients[c]
          /\ clients[c].state = "waiting" /\ clients'[c].state = "ready" =>
               clients[c].attempt < MaxAttempts
          /\ clients[c].state = "waiting" /\ clients'[c].state = "failed" =>
               clients[c].attempt = MaxAttempts
    BY <1>11, ClientAfter DEF Crash
  <2> QED
    BY <1>0, <2>1, <2>2 DEF Attempts, Requests
<1>12. ASSUME ComeUp PROVE Attempts'
  BY <1>12, AttemptsSame DEF ComeUp
<1>13. ASSUME UNCHANGED serverVars PROVE Attempts'
  BY <1>13, AttemptsSame DEF serverVars
<1> QED
  BY <1>1, <1>3, <1>4, <1>5, <1>6, <1>7, <1>8, <1>9, <1>10, <1>11, <1>12, <1>13, StepCases

(* The setting stays as it is. *)
LEMMA SettingSame ==
  ASSUME [Next]_serverVars
  PROVE  /\ gil' = gil /\ asks' = asks
         /\ \A r : Target(r)' = Target(r) /\ (Counts(r)' <=> Counts(r))
<1>1. gil' = gil /\ asks' = asks
  BY StepCases DEF Send, GiveUp, TakeRequest, BumpLocked, BumpRead, BumpWrite, BumpReturn, WakeUp,
                   Answer, Crash, ComeUp, serverVars
<1> QED
  BY <1>1 DEF Target, Counts

Fine(r) ==
  /\ requests[r].phase \in {"unsent", "queued", "called"} => requests[r].count = 0
  /\ requests[r].phase # "over" => requests[r].answer = "none"
  /\ requests[r].phase \in {"called", "read", "written"} => Counts(r)
  /\ requests[r].phase \in {"read", "written"} => ~gil
  /\ requests[r].phase = "sleeping" => ~Counts(r)
  /\ requests[r].phase = "decided" /\ gil /\ Counts(r) => requests[r].count > 0
  /\ requests[r].life <= crashes
  /\ requests[r].answer = "failure" /\ gil =>
       /\ Target(r) \in FlakyEndpoints
       /\ requests[r].count \in 1..FailFirst(Target(r))
  /\ requests[r].answer # "none" /\ Target(r) \in FlakyEndpoints =>
       (requests[r].answer = "failure" <=> requests[r].count <= FailFirst(Target(r)))

LEMMA AllFine == (\A r \in Requests : Fine(r)) <=> Phases /\ Failures
  BY DEF Fine, Phases, Failures

(* A request that stays as it is stays fine. *)
LEMMA FineStays ==
  ASSUME Phases, Failures, [Next]_serverVars, crashes' = crashes,
         NEW r \in Requests, requests'[r] = requests[r]
  PROVE  Fine(r)'
<1>1. gil' = gil /\ Target(r)' = Target(r) /\ (Counts(r)' <=> Counts(r))
  BY SettingSame
<1>2. Fine(r)
  BY AllFine
<1> QED
  BY <1>1, <1>2 DEF Fine

LEMMA NoneMoves ==
  ASSUME Phases, Failures, [Next]_serverVars, crashes' = crashes, requests' = requests
  PROVE  Phases' /\ Failures'
<1>1. \A r \in Requests : Fine(r)'
  BY FineStays
<1> QED
  BY <1>1 DEF Fine, Phases, Failures, Requests

(* One request moves on, the others stay as they are. *)
LEMMA OneMoves ==
  ASSUME Phases, Failures, [Next]_serverVars, crashes' = crashes,
         NEW r \in Requests, Fine(r)',
         \A s \in Requests \ {r} : requests'[s] = requests[s]
  PROVE  Phases' /\ Failures'
<1>1. \A s \in Requests : Fine(s)'
  BY FineStays
<1> QED
  BY <1>1 DEF Fine, Phases, Failures, Requests

LEMMA PhasesNext ==
  ASSUME TypeOK, Attempts, Phases, Failures, [Next]_serverVars
  PROVE  Phases' /\ Failures'
<1>0. /\ requests \in [Requests -> RequestType] /\ crashes \in Nat /\ IsCounter(hits, Asked)
      /\ \A r \in Requests : Target(r) \in Asked /\ Fine(r)
  BY AllFine, MockServerAssumption DEF TypeOK, RequestType, Asked, Target, Requests
<1>00. /\ gil' = gil
       /\ \A r \in Requests : Target(r)' = Target(r) /\ (Counts(r)' <=> Counts(r))
  BY SettingSame
<1>1. ASSUME NEW c \in Clients, Send(c) PROVE Phases' /\ Failures'
  <2>1. /\ <<c, clients[c].attempt + 1>> \in Requests
        /\ requests[<<c, clients[c].attempt + 1>>].phase = "unsent"
    <3>1. clients[c].attempt \in 0..MaxAttempts /\ clients[c].attempt < MaxAttempts
      BY <1>1 DEF Send, Attempts, TypeOK
    <3>2. clients[c].attempt + 1 \in 1..MaxAttempts
      BY <3>1, MockServerAssumption
    <3> QED
      BY <3>1, <3>2 DEF Attempts, Requests
  <2>2. PICK r \in Requests : r = <<c, clients[c].attempt + 1>> /\ requests[r].phase = "unsent"
    BY <2>1
  <2>3. CASE up
    <3>1. requests' = [requests EXCEPT ![r].phase = "queued"] /\ crashes' = crashes
      BY <1>1, <2>2, <2>3, ClientRefused DEF Send
    <3>2. Fine(r)'
      BY <1>0, <1>00, <2>2, <3>1 DEF Fine, RequestType
    <3> QED
      BY <1>0, <3>1, <3>2, OneMoves
  <2>4. CASE ~up
    BY <1>1, <2>4, NoneMoves DEF Send
  <2> QED
    BY <2>3, <2>4
<1>2. ASSUME NEW c \in Clients, GiveUp(c) PROVE Phases' /\ Failures'
  BY <1>2, NoneMoves DEF GiveUp
<1>3. ASSUME NEW r \in Requests, TakeRequest(r) PROVE Phases' /\ Failures'
  <2>1. Fine(r)'
    BY <1>0, <1>00, <1>3 DEF TakeRequest, Fine, RequestType
  <2> QED
    BY <1>0, <1>3, <2>1, OneMoves DEF TakeRequest
<1>4. ASSUME NEW r \in Requests, BumpLocked(r) PROVE Phases' /\ Failures'
  <2>1. CountOf(hits', Target(r)) \in Nat /\ CountOf(hits', Target(r)) > 0
    BY <1>0, <1>4, BumpCounts DEF BumpLocked
  <2>2. Fine(r)'
    BY <1>0, <1>00, <1>4, <2>1 DEF BumpLocked, Fine, RequestType
  <2> QED
    BY <1>0, <1>4, <2>2, OneMoves DEF BumpLocked
<1>5. ASSUME NEW r \in Requests, BumpRead(r) PROVE Phases' /\ Failures'
  <2>1. Fine(r)'
    BY <1>0, <1>00, <1>5 DEF BumpRead, Fine, RequestType
  <2> QED
    BY <1>0, <1>5, <2>1, OneMoves DEF BumpRead
<1>6. ASSUME NEW r \in Requests, BumpWrite(r) PROVE Phases' /\ Failures'
  <2>1. Fine(r)'
    BY <1>0, <1>00, <1>6 DEF BumpWrite, Fine, RequestType
  <2> QED
    BY <1>0, <1>6, <2>1, OneMoves DEF BumpWrite
<1>7. ASSUME NEW r \in Requests, BumpReturn(r) PROVE Phases' /\ Failures'
  <2>1. Fine(r)'
    BY <1>0, <1>00, <1>7 DEF BumpReturn, Fine, RequestType
  <2> QED
    BY <1>0, <1>7, <2>1, OneMoves DEF BumpReturn
<1>8. ASSUME NEW r \in Requests, WakeUp(r) PROVE Phases' /\ Failures'
  <2>1. Fine(r)'
    BY <1>0, <1>00, <1>8 DEF WakeUp, Fine, RequestType
  <2> QED
    BY <1>0, <1>8, <2>1, OneMoves DEF WakeUp
<1>9. ASSUME NEW r \in Requests, Answer(r) PROVE Phases' /\ Failures'
  <2>1. Body(r) = "failure" /\ gil =>
          Target(r) \in FlakyEndpoints /\ requests[r].count \in 1..FailFirst(Target(r))
    <3>1. requests[r].count \in Nat /\ (gil /\ Counts(r) => requests[r].count > 0)
      BY <1>0, <1>9 DEF Answer, Fine, RequestType
    <3> QED
      BY <3>1 DEF Body, Counts, FailFirst
  <2>2. Target(r) \in FlakyEndpoints =>
          (Body(r) = "failure" <=> requests[r].count <= FailFirst(Target(r)))
    BY DEF Body, FlakyEndpoints
  <2>3. Fine(r)'
    BY <1>0, <1>00, <1>9, <2>1, <2>2 DEF Answer, Fine, RequestType
  <2> QED
    BY <1>0, <1>9, <2>3, OneMoves DEF Answer
<1>10. ASSUME Crash PROVE Phases' /\ Failures'
  <2>1. ASSUME NEW r \in Requests PROVE Fine(r)'
    <3>1. /\ requests'[r] = requests[r]
            \/ requests'[r] = [requests[r] EXCEPT !.phase = "over"]
          /\ crashes' = crashes + 1
      BY <1>10 DEF Crash
    <3> QED
      BY <1>0, <1>00, <3>1 DEF Fine, RequestType
  <2>2. \A r \in Requests : Fine(r)'
    BY <2>1
  <2> QED
    BY <2>2 DEF Fine, Phases, Failures, Requests
<1>11. ASSUME ComeUp PROVE Phases' /\ Failures'
  BY <1>11, NoneMoves DEF ComeUp
<1>12. ASSUME UNCHANGED serverVars PROVE Phases' /\ Failures'
  BY <1>12, NoneMoves DEF serverVars
<1> QED
  BY <1>1, <1>2, <1>3, <1>4, <1>5, <1>6, <1>7, <1>8, <1>9, <1>10, <1>11, <1>12, StepCases

-----------------------------------------------------------------------------
(* Numbers. *)

(* Without a bump and a crash, and without the lock, there is nothing new. *)
LEMMA NumbersSame ==
  ASSUME Numbered, [Next]_serverVars, hits' = hits, crashes' = crashes,
         \A r \in Requests : /\ requests'[r].count = requests[r].count
                             /\ requests'[r].life = requests[r].life
  PROVE  Numbered'
<1>1. /\ gil' = gil /\ asks' = asks
      /\ \A r : Target(r)' = Target(r) /\ (Counts(r)' <=> Counts(r))
  BY SettingSame
<1>2. CASE gil
  <2>1. \A t : Counted(t)' = Counted(t)
    BY <1>1 DEF Counted, Requests
  <2>2. \A t : Counted(t) \subseteq Requests
    BY DEF Counted
  <2>3. \A t \in Asked : \A n \in 1..CountOf(hits, t) :
            \E r \in Counted(t)' : requests'[r].count = n
    BY <1>2, <2>1, <2>2 DEF Numbered
  <2>4. Asked' = Asked /\ \A t : CountOf(hits, t)' = CountOf(hits, t)
    BY <1>1 DEF Asked
  <2> QED
    BY <1>1, <1>2, <2>3, <2>4 DEF Numbered, Requests
<1>3. CASE ~gil
  BY <1>1, <1>3 DEF Numbered
<1> QED
  BY <1>2, <1>3

LEMMA NumbersUnlocked ==
  ASSUME ~gil, [Next]_serverVars
  PROVE  Numbered'
  BY SettingSame DEF Numbered

(* A bump gives out the number after the last one. *)
LEMMA BumpNumbers ==
  ASSUME TypeOK, Phases, Failures, Numbered, [Next]_serverVars,
         NEW r \in Requests, BumpLocked(r)
  PROVE  Numbered'
<1> DEFINE T == Target(r)
<1>0. /\ requests \in [Requests -> RequestType] /\ crashes \in Nat /\ IsCounter(hits, Asked)
      /\ T \in Asked /\ gil /\ Counts(r) /\ requests[r].phase = "called"
  BY MockServerAssumption DEF TypeOK, RequestType, Asked, Target, Requests, BumpLocked, Phases
<1>1. /\ gil' = gil /\ asks' = asks /\ Asked' = Asked
      /\ \A s : Target(s)' = Target(s) /\ (Counts(s)' <=> Counts(s))
  BY SettingSame DEF Asked
<1>2. /\ crashes' = crashes /\ hits' = Bump(hits, T)
      /\ requests'[r].count = CountOf(hits', T) /\ requests'[r].life = crashes
      /\ \A s \in Requests \ {r} : requests'[s] = requests[s]
  BY <1>0 DEF BumpLocked, RequestType
<1>3. /\ CountOf(hits, T) \in Nat /\ CountOf(hits', T) = CountOf(hits, T) + 1
      /\ \A t \in Asked \ {T} : CountOf(hits', t) = CountOf(hits, t)
  BY <1>0, <1>2, BumpCounts
<1>4. \A s \in Requests : /\ requests[s].count \in Nat /\ Target(s) \in Asked
                          /\ Target(s) = T => Counts(s)
  BY <1>0 DEF RequestType, Target, Asked, Requests, Counts
<1>5. \A s \in Requests : Counts(s) /\ requests[s].life = crashes =>
        requests[s].count <= CountOf(hits, Target(s))
  BY <1>0 DEF Numbered
<1> HIDE DEF T
<1>6. \A s \in Requests : Counts(s)' /\ requests'[s].life = crashes' =>
        requests'[s].count <= CountOf(hits', Target(s))
  <2>1. ASSUME NEW s \in Requests, Counts(s), requests'[s].life = crashes
        PROVE  requests'[s].count <= CountOf(hits', Target(s))
    <3>1. CASE s = r
      BY <1>2, <1>3, <3>1 DEF T
    <3>2. CASE s # r /\ Target(s) = T
      BY <1>2, <1>3, <1>4, <1>5, <2>1, <3>2
    <3>3. CASE s # r /\ Target(s) # T
      BY <1>2, <1>3, <1>4, <1>5, <2>1, <3>3
    <3> QED
      BY <3>1, <3>2, <3>3
  <2> QED
    BY <1>1, <1>2, <2>1
<1>7. ASSUME NEW s \in Requests, NEW u \in Requests, s # u, Target(s) = Target(u), Counts(s),
             requests'[s].count > 0, requests'[u].count > 0,
             requests'[s].life = requests'[u].life
      PROVE  requests'[s].count # requests'[u].count
  <2>1. CASE s = r
    <3>1. Counts(u) /\ requests[u].life = crashes /\ requests'[u] = requests[u] /\ Target(u) = T
      BY <1>2, <1>4, <1>7, <2>1 DEF T
    <3>2. requests[u].count <= CountOf(hits, T)
      BY <1>5, <3>1
    <3> QED
      BY <1>2, <1>3, <1>4, <2>1, <3>1, <3>2
  <2>2. CASE u = r
    <3>1. Counts(s) /\ requests[s].life = crashes /\ requests'[s] = requests[s] /\ Target(s) = T
      BY <1>2, <1>4, <1>7, <2>2 DEF T
    <3>2. requests[s].count <= CountOf(hits, T)
      BY <1>5, <3>1
    <3> QED
      BY <1>2, <1>3, <1>4, <2>2, <3>1, <3>2
  <2>3. CASE s # r /\ u # r
    BY <1>0, <1>2, <1>7, <2>3 DEF Numbered
  <2> QED
    BY <2>1, <2>2, <2>3
<1>8. ASSUME NEW t \in Asked, NEW n \in 1..CountOf(hits', t)
      PROVE  \E s \in Counted(t)' : requests'[s].count = n
  <2>1. CASE t = T /\ n = CountOf(hits', T)
    <3>1. r \in Counted(t)'
      BY <1>0, <1>1, <1>2, <1>3, <2>1 DEF Counted, T
    <3> QED
      BY <1>2, <2>1, <3>1
  <2>2. CASE ~(t = T /\ n = CountOf(hits', T))
    <3>1. n \in 1..CountOf(hits, t)
      BY <1>3, <1>8, <2>2
    <3>2. PICK s \in Counted(t) : requests[s].count = n
      BY <1>0, <3>1 DEF Numbered
    <3>3. s \in Requests /\ s # r /\ requests'[s] = requests[s]
      <4>1. s \in Requests /\ requests[s].count > 0
        BY <3>2 DEF Counted
      <4>2. requests[r].count = 0
        BY <1>0 DEF Phases
      <4> QED
        BY <1>2, <4>1, <4>2
    <3>4. s \in Counted(t)'
      BY <1>1, <1>2, <3>2, <3>3 DEF Counted
    <3> QED
      BY <3>2, <3>3, <3>4
  <2> QED
    BY <2>1, <2>2
<1> QED
  BY <1>1, <1>6, <1>7, <1>8 DEF Numbered

LEMMA CrashNumbers ==
  ASSUME TypeOK, Failures, Numbered, [Next]_serverVars, Crash
  PROVE  Numbered'
<1>1. /\ gil' = gil /\ asks' = asks
      /\ \A r : Target(r)' = Target(r) /\ (Counts(r)' <=> Counts(r))
  BY SettingSame
<1>2. /\ crashes \in Nat /\ crashes' = crashes + 1 /\ hits' = NoCounts
      /\ \A t : CountOf(hits', t) = 0
      /\ \A r \in Requests : /\ requests[r].life \in Nat /\ requests[r].life <= crashes
                             /\ requests'[r].life = requests[r].life
                             /\ requests'[r].count = requests[r].count
  <2>1. crashes' = crashes + 1 /\ hits' = NoCounts
    BY DEF Crash
  <2>2. crashes \in Nat
    BY MockServerAssumption DEF TypeOK
  <2>3. \A t : CountOf(hits', t) = 0
    BY <2>1, FreshCounts
  <2>4. ASSUME NEW r \in Requests
        PROVE  /\ requests[r].life \in Nat /\ requests[r].life <= crashes
               /\ requests'[r].life = requests[r].life
               /\ requests'[r].count = requests[r].count
    <3>1. requests[r].life \in Nat /\ requests[r].life <= crashes
      BY MockServerAssumption DEF TypeOK, Failures
    <3>2. requests[r] \in RequestType
      BY DEF TypeOK, RequestType
    <3>3. requests'[r] = requests[r] \/ requests'[r] = [requests[r] EXCEPT !.phase = "over"]
      BY DEF Crash
    <3> QED
      BY <3>1, <3>2, <3>3 DEF RequestType
  <2> QED
    BY <2>1, <2>2, <2>3, <2>4
<1>3. \A r \in Requests : requests'[r].life # crashes'
  BY <1>2
<1> QED
  BY <1>1, <1>2, <1>3 DEF Numbered, Requests

LEMMA NumberedNext ==
  ASSUME TypeOK, Attempts, Phases, Failures, Numbered, [Next]_serverVars
  PROVE  Numbered'
<1>0. requests \in [Requests -> RequestType]
  BY DEF TypeOK, RequestType
<1>1. ASSUME NEW c \in Clients, Send(c) PROVE Numbered'
  BY <1>0, <1>1, NumbersSame DEF Send, RequestType
<1>2. ASSUME NEW c \in Clients, GiveUp(c) PROVE Numbered'
  BY <1>2, NumbersSame DEF GiveUp
<1>3. ASSUME NEW r \in Requests, TakeRequest(r) PROVE Numbered'
  BY <1>0, <1>3, NumbersSame DEF TakeRequest, RequestType
<1>4. ASSUME NEW r \in Requests, BumpLocked(r) PROVE Numbered'
  BY <1>4, BumpNumbers
<1>5. ASSUME NEW r \in Requests, BumpRead(r) PROVE Numbered'
  BY <1>5, NumbersUnlocked DEF BumpRead
<1>6. ASSUME NEW r \in Requests, BumpWrite(r) PROVE Numbered'
  BY <1>6, NumbersUnlocked DEF BumpWrite, Phases
<1>7. ASSUME NEW r \in Requests, BumpReturn(r) PROVE Numbered'
  BY <1>7, NumbersUnlocked DEF BumpReturn, Phases
<1>8. ASSUME NEW r \in Requests, WakeUp(r) PROVE Numbered'
  BY <1>0, <1>8, NumbersSame DEF WakeUp, RequestType
<1>9. ASSUME NEW r \in Requests, Answer(r) PROVE Numbered'
  BY <1>0, <1>9, NumbersSame DEF Answer, RequestType
<1>10. ASSUME Crash PROVE Numbered'
  BY <1>10, CrashNumbers
<1>11. ASSUME ComeUp PROVE Numbered'
  BY <1>11, NumbersSame DEF ComeUp
<1>12. ASSUME UNCHANGED serverVars PROVE Numbered'
  BY <1>12, NumbersSame DEF serverVars
<1> QED
  BY <1>1, <1>2, <1>3, <1>4, <1>5, <1>6, <1>7, <1>8, <1>9, <1>10, <1>11, <1>12, StepCases

-----------------------------------------------------------------------------
(* Retries. *)

(* No server went down; a client has no more behind it than it had.        *)
LEMMA TriedSame ==
  ASSUME Tried, [Next]_serverVars, crashes' = crashes, up' = up,
         \A c \in Clients :
           /\ clients[c].timedOut => clients'[c].timedOut
           /\ \A n \in 1..MaxAttempts : ~clients'[c].timedOut /\ Behind(c, n)' => Behind(c, n),
         \A r \in Requests : requests[r].answer = "failure" => requests'[r].answer = "failure"
  PROVE  Tried'
<1>1. asks' = asks
  BY SettingSame
<1>2. ASSUME crashes = 0, NEW c \in Clients, NEW n \in 1..MaxAttempts,
             asks[c] \in FlakyEndpoints, ~clients'[c].timedOut, Behind(c, n)'
      PROVE  requests'[<<c, n>>].answer = "failure"
  <2>1. ~clients[c].timedOut /\ Behind(c, n)
    BY <1>2
  <2>2. requests[<<c, n>>].answer = "failure"
    BY <1>2, <2>1 DEF Tried
  <2> QED
    BY <2>2 DEF Requests
<1>3. crashes = 0 => up'
  BY DEF Tried
<1> QED
  BY <1>1, <1>2, <1>3 DEF Tried

LEMMA AnswerTried ==
  ASSUME TypeOK, Attempts, Phases, Tried, [Next]_serverVars, NEW r \in Requests, Answer(r)
  PROVE  Tried'
<1>0. /\ requests \in [Requests -> RequestType] /\ clients \in [Clients -> ClientType]
      /\ requests[r].answer = "none" /\ requests[r].phase = "decided"
  BY DEF TypeOK, RequestType, ClientType, Phases, Answer
<1>1. /\ asks' = asks /\ crashes' = crashes /\ up' = up
      /\ requests'[r].answer = Body(r)
      /\ \A s \in Requests \ {r} : requests'[s] = requests[s]
  BY <1>0, SettingSame DEF Answer, RequestType
<1>2. \A s \in Requests : requests[s].answer = "failure" => requests'[s].answer = "failure"
  BY <1>0, <1>1
<1>3. CASE ~Awaited(r)
  <2>1. clients' = clients
    BY <1>3 DEF Answer
  <2> QED
    BY <1>1, <1>2, <2>1, TriedSame DEF Behind
<1>4. CASE Awaited(r)
  <2> DEFINE st == Received(TRUE, Body(r))
  <2>1. PICK c \in Clients : c = r[1] /\ clients[c].state = "waiting"
                               /\ r = <<c, clients[c].attempt>>
    BY <1>4 DEF Awaited, Current, Requests
  <2>2. clients' = [clients EXCEPT ![c] = After(clients[c], st)]
    BY <1>4, <2>1 DEF Answer
  <2>3. /\ After(clients[c], st).attempt = clients[c].attempt
        /\ After(clients[c], st).state = "succeeded" <=> st = "success"
        /\ clients[c].timedOut => After(clients[c], st).timedOut
    BY <2>1, ClientAfter
  <2>4. asks[c] \in FlakyEndpoints /\ st # "success" => Body(r) = "failure"
    BY <2>1 DEF Body, Target, Received, FlakyEndpoints
  <2>5. /\ clients'[c].attempt = clients[c].attempt
        /\ clients'[c].state = "succeeded" <=> st = "success"
        /\ clients[c].timedOut => clients'[c].timedOut
        /\ \A d \in Clients \ {c} : clients'[d] = clients[d]
    BY <1>0, <2>2, <2>3
  <2> HIDE DEF st
  <2>6. ASSUME crashes = 0, NEW d \in Clients, NEW n \in 1..MaxAttempts,
               asks[d] \in FlakyEndpoints, ~clients'[d].timedOut, Behind(d, n)'
        PROVE  requests'[<<d, n>>].answer = "failure"
    <3>1. CASE d = c /\ n = clients[c].attempt
      <4>1. clients'[c].state \in {"ready", "failed"}
        BY <1>0, <2>5, <2>6, <3>1 DEF Behind, ClientType
      <4> QED
        BY <1>1, <2>1, <2>4, <2>5, <2>6, <3>1, <4>1
    <3>2. CASE ~(d = c /\ n = clients[c].attempt)
      <4>1. ~clients[d].timedOut
        BY <2>5, <2>6
      <4>2. Behind(d, n)
        BY <2>5, <2>6, <3>2 DEF Behind
      <4>3. requests[<<d, n>>].answer = "failure"
        BY <2>6, <4>1, <4>2 DEF Tried
      <4> QED
        BY <1>2, <4>3 DEF Requests
    <3> QED
      BY <3>1, <3>2
  <2>7. crashes = 0 => up'
    BY <1>1 DEF Tried
  <2> QED
    BY <1>1, <2>6, <2>7 DEF Tried, Behind
<1> QED
  BY <1>3, <1>4

LEMMA SendTried ==
  ASSUME TypeOK, Attempts, Tried, [Next]_serverVars, NEW c \in Clients, Send(c)
  PROVE  Tried'
<1>0. /\ requests \in [Requests -> RequestType] /\ clients \in [Clients -> ClientType]
      /\ clients[c].attempt \in Nat /\ clients[c].state = "ready"
  BY MockServerAssumption DEF TypeOK, RequestType, ClientType, Send
<1>1. CASE crashes = 0
  <2>1. up
    BY <1>1 DEF Tried
  <2>2. /\ clients'[c].attempt = clients[c].attempt + 1 /\ clients'[c].state = "waiting"
        /\ clients[c].timedOut => clients'[c].timedOut
        /\ \A d \in Clients \ {c} : clients'[d] = clients[d]
        /\ \A r \in Requests : requests'[r].answer = requests[r].answer
    <3>1. PICK sent : /\ sent = [clients[c] EXCEPT !.attempt = @ + 1, !.state = "waiting"]
                      /\ clients' = [clients EXCEPT ![c] = sent]
                      /\ requests' = [requests EXCEPT ![<<c, sent.attempt>>].phase = "queued"]
      BY <2>1 DEF Send
    <3>2. clients'[c] = sent /\ \A d \in Clients \ {c} : clients'[d] = clients[d]
      BY <1>0, <3>1
    <3>3. sent.attempt = clients[c].attempt + 1 /\ sent.state = "waiting"
      BY <1>0, <3>1 DEF ClientType
    <3>4. sent.timedOut = clients[c].timedOut
      BY <1>0, <3>1 DEF ClientType
    <3>5. \A r \in Requests : requests'[r].answer = requests[r].answer
      BY <1>0, <3>1 DEF RequestType
    <3> QED
      BY <3>2, <3>3, <3>4, <3>5, Zenon
  <2>3. \A n \in 1..MaxAttempts : Behind(c, n)' => Behind(c, n)
    BY <1>0, <2>2 DEF Behind
  <2>4. \A d \in Clients \ {c} : \A n \in 1..MaxAttempts : Behind(d, n)' => Behind(d, n)
    BY <2>2 DEF Behind
  <2>5. crashes' = crashes /\ up' = up
    BY DEF Send
  <2> QED
    BY <2>2, <2>3, <2>4, <2>5, TriedSame
<1>2. CASE crashes # 0
  BY <1>2 DEF Send, Tried
<1> QED
  BY <1>1, <1>2

LEMMA GiveUpTried ==
  ASSUME TypeOK, Attempts, Tried, [Next]_serverVars, NEW c \in Clients, GiveUp(c)
  PROVE  Tried'
<1>1. clients' = [clients EXCEPT ![c] = After(clients[c], "timeout")]
  BY DEF GiveUp
<1>2. After(clients[c], "timeout").timedOut
  BY ClientAfter DEF GiveUp
<1>3. clients'[c].timedOut /\ \A d \in Clients \ {c} : clients'[d] = clients[d]
  BY <1>1, <1>2 DEF TypeOK
<1>4. \A d \in Clients \ {c} : \A n \in 1..MaxAttempts : Behind(d, n)' => Behind(d, n)
  BY <1>3 DEF Behind
<1>5. crashes' = crashes /\ up' = up /\ requests' = requests
  BY DEF GiveUp
<1> QED
  BY <1>3, <1>4, <1>5, TriedSame

LEMMA TriedNext ==
  ASSUME TypeOK, Attempts, Phases, Tried, [Next]_serverVars
  PROVE  Tried'
<1>0. requests \in [Requests -> RequestType] /\ crashes \in Nat
  BY MockServerAssumption DEF TypeOK, RequestType
<1>a. ASSUME clients' = clients, crashes' = crashes, up' = up,
             \A r \in Requests : requests'[r].answer = requests[r].answer
      PROVE  Tried'
  BY <1>a, TriedSame DEF Behind
<1>1. ASSUME NEW c \in Clients, Send(c) PROVE Tried'
  BY <1>1, SendTried
<1>2. ASSUME NEW c \in Clients, GiveUp(c) PROVE Tried'
  BY <1>2, GiveUpTried
<1>3. ASSUME NEW r \in Requests, TakeRequest(r) PROVE Tried'
  BY <1>0, <1>a, <1>3 DEF TakeRequest, RequestType
<1>4. ASSUME NEW r \in Requests, BumpLocked(r) PROVE Tried'
  BY <1>0, <1>a, <1>4 DEF BumpLocked, RequestType
<1>5. ASSUME NEW r \in Requests, BumpRead(r) PROVE Tried'
  BY <1>0, <1>a, <1>5 DEF BumpRead, RequestType
<1>6. ASSUME NEW r \in Requests, BumpWrite(r) PROVE Tried'
  BY <1>0, <1>a, <1>6 DEF BumpWrite, RequestType
<1>7. ASSUME NEW r \in Requests, BumpReturn(r) PROVE Tried'
  BY <1>0, <1>a, <1>7 DEF BumpReturn, RequestType
<1>8. ASSUME NEW r \in Requests, WakeUp(r) PROVE Tried'
  BY <1>0, <1>a, <1>8 DEF WakeUp, RequestType
<1>9. ASSUME NEW r \in Requests, Answer(r) PROVE Tried'
  BY <1>9, AnswerTried
<1>10. ASSUME Crash PROVE Tried'
  <2>1. crashes' # 0
    BY <1>0, <1>10 DEF Crash
  <2> QED
    BY <2>1 DEF Tried
<1>11. ASSUME ComeUp PROVE Tried'
  <2>1. crashes # 0 /\ crashes' = crashes
    BY <1>11 DEF ComeUp, Tried
  <2> QED
    BY <2>1 DEF Tried
<1>12. ASSUME UNCHANGED serverVars PROVE Tried'
  BY <1>a, <1>12 DEF serverVars
<1> QED
  BY <1>1, <1>2, <1>3, <1>4, <1>5, <1>6, <1>7, <1>8, <1>9, <1>10, <1>11, <1>12, StepCases

-----------------------------------------------------------------------------
(* What follows from the invariant. *)

LEMMA UpToCount ==
  ASSUME NEW n \in Nat
  PROVE  IsFiniteSet(1..n) /\ Cardinality(1..n) = n
<1>1. IsFiniteSet(1..n) /\ Cardinality(1..n) = IF 1 > n THEN 0 ELSE n - 1 + 1
  BY FS_Interval
<1> QED
  BY <1>1

Failable(t) == {r \in Counted(t) : requests[r].answer # "none"}

(* The numbers given out for a key are as many as its requests, and those  *)
(* up to fail_first went to the failed ones.                               *)
LEMMA FaultsFollow == Inv => FaultsAreExact
<1> SUFFICES ASSUME Inv, gil, NEW t \in Asked
             PROVE  /\ {requests[r].count : r \in Counted(t)} = 1..CountOf(hits, t)
                    /\ Cardinality(Counted(t)) = CountOf(hits, t)
                    /\ {r \in Failable(t) : requests[r].answer = "failure"}
                         = IF t \in FlakyEndpoints
                           THEN {r \in Failable(t) : requests[r].count <= FailFirst(t)} ELSE {}
  BY DEF FaultsAreExact, Asked, Failable
<1> DEFINE h == CountOf(hits, t)
<1>1. h \in Nat
  BY CountTypes DEF Inv, TypeOK
<1>2. \A r \in Counted(t) : requests[r].count \in 1..h
  <2>1. ASSUME NEW r \in Counted(t) PROVE requests[r].count \in 1..h
    <3>1. /\ r \in Requests /\ Counts(r) /\ requests[r].life = crashes /\ Target(r) = t
          /\ requests[r].count > 0 /\ requests[r].count \in Nat
      BY <2>1 DEF Counted, Inv, TypeOK
    <3>2. requests[r].count <= h
      BY <3>1 DEF Inv, Numbered
    <3> QED
      BY <1>1, <3>1, <3>2
  <2> QED
    BY <2>1
<1>3. \A n \in 1..h : \E r \in Counted(t) : requests[r].count = n
  BY DEF Inv, Numbered
<1>4. \A r, s \in Counted(t) : requests[r].count = requests[s].count => r = s
  BY DEF Inv, Numbered, Counted
<1> HIDE DEF h
<1>5. {requests[r].count : r \in Counted(t)} = 1..h
  BY <1>2, <1>3
<1> DEFINE f == [r \in Counted(t) |-> requests[r].count]
<1>6. f \in Bijection(Counted(t), 1..h)
  <2>1. f \in [Counted(t) -> 1..h]
    BY <1>2
  <2>2. \A r, s \in Counted(t) : f[r] = f[s] => r = s
    BY <1>4
  <2>3. \A n \in 1..h : \E r \in Counted(t) : f[r] = n
    BY <1>3
  <2> QED
    BY <2>1, <2>2, <2>3 DEF Bijection, Injection, Surjection, IsInjective
<1>7. IsFiniteSet(1..h) /\ Cardinality(1..h) = h
  BY <1>1, UpToCount
<1>8. Cardinality(Counted(t)) = h
  BY <1>6, <1>7, FS_Injection DEF Bijection
<1>9. \A r \in Failable(t) : r \in Requests /\ Target(r) = t
  BY DEF Failable, Counted
<1>10. \A r \in Failable(t) :
         requests[r].answer = "failure" <=>
           t \in FlakyEndpoints /\ requests[r].count <= FailFirst(t)
  BY <1>9 DEF Inv, Failures, Failable
<1> QED
  BY <1>5, <1>8, <1>10 DEF h

(* The failed attempts of a client have numbers up to fail_first, and no   *)
(* two of a life have the same.                                            *)
LEMMA FailuresFew ==
  ASSUME Inv, gil, NEW c \in Clients, asks[c] \in FlakyEndpoints,
         NEW failed, failed = {n \in 1..MaxAttempts : requests[<<c, n>>].answer = "failure"}
  PROVE  Cardinality(failed) <= FailFirst(asks[c]) * (crashes + 1)
<1> DEFINE firsts == 1..FailFirst(asks[c])
           lives  == 0..crashes
           f      == [n \in failed |-> <<requests[<<c, n>>].count, requests[<<c, n>>].life>>]
<1>1. FailFirst(asks[c]) \in Nat /\ crashes \in Nat
  BY MockServerAssumption DEF FailFirst, Inv, TypeOK
<1>2. ASSUME NEW n \in failed
      PROVE  /\ <<c, n>> \in Requests /\ Target(<<c, n>>) = asks[c] /\ Counts(<<c, n>>)
             /\ requests[<<c, n>>].count \in firsts /\ requests[<<c, n>>].life \in lives
  <2>1. <<c, n>> \in Requests /\ Target(<<c, n>>) = asks[c] /\ Counts(<<c, n>>)
    BY <1>2 DEF Requests, Target, Counts
  <2>2. requests[<<c, n>>].count \in firsts /\ requests[<<c, n>>].life <= crashes
    BY <1>2, <2>1 DEF Inv, Failures
  <2>3. requests[<<c, n>>].life \in Nat
    BY <2>1, MockServerAssumption DEF Inv, TypeOK
  <2> QED
    BY <1>1, <2>1, <2>2, <2>3
<1>3. \A m, n \in failed : f[m] = f[n] => m = n
  <2>1. ASSUME NEW m \in failed, NEW n \in failed, f[m] = f[n], m # n PROVE FALSE
    <3>1. /\ requests[<<c, m>>].count = requests[<<c, n>>].count
          /\ requests[<<c, m>>].life = requests[<<c, n>>].life
      BY <2>1
    <3>2. <<c, m>> # <<c, n>>
      BY <2>1
    <3>3. /\ requests[<<c, m>>].count > 0 /\ requests[<<c, n>>].count > 0
          /\ Target(<<c, m>>) = Target(<<c, n>>) /\ Counts(<<c, m>>)
          /\ <<c, m>> \in Requests /\ <<c, n>> \in Requests
      BY <1>1, <1>2
    <3> QED
      BY <3>1, <3>2, <3>3 DEF Inv, Numbered
  <2> QED
    BY <2>1
<1> HIDE DEF firsts, lives
<1>4. f \in [failed -> firsts \X lives]
  BY <1>2
<1>5. f \in Injection(failed, firsts \X lives)
  BY <1>3, <1>4 DEF Injection, IsInjective
<1>6. /\ IsFiniteSet(firsts) /\ Cardinality(firsts) = FailFirst(asks[c])
      /\ IsFiniteSet(lives) /\ Cardinality(lives) = crashes + 1
  <2>1. IsFiniteSet(firsts) /\ Cardinality(firsts) = FailFirst(asks[c])
    BY <1>1, UpToCount DEF firsts
  <2>2. IsFiniteSet(lives) /\ Cardinality(lives) = IF 0 > crashes THEN 0 ELSE crashes - 0 + 1
    BY <1>1, FS_Interval DEF lives
  <2> QED
    BY <1>1, <2>1, <2>2
<1>7. /\ IsFiniteSet(firsts \X lives)
      /\ Cardinality(firsts \X lives) = FailFirst(asks[c]) * (crashes + 1)
  BY <1>6, FS_Product
<1> QED
  BY <1>5, <1>7, FS_Injection

LEMMA RetriesFollow == Inv => RetriesOutlastFaults
<1> SUFFICES ASSUME Inv, gil, NEW c \in Clients, asks[c] \in FlakyEndpoints,
                    NEW failed,
                    failed = {n \in 1..MaxAttempts : requests[<<c, n>>].answer = "failure"}
             PROVE  /\ Cardinality(failed) <= FailFirst(asks[c]) * (crashes + 1)
                    /\ crashes = 0 /\ ~clients[c].timedOut /\ FailFirst(asks[c]) < MaxAttempts =>
                         clients[c].state # "failed"
  BY DEF RetriesOutlastFaults
<1>1. Cardinality(failed) <= FailFirst(asks[c]) * (crashes + 1)
  BY FailuresFew
<1>2. ASSUME crashes = 0, ~clients[c].timedOut, FailFirst(asks[c]) < MaxAttempts,
             clients[c].state = "failed"
      PROVE  FALSE
  <2>1. clients[c].attempt = MaxAttempts
    BY <1>2 DEF Inv, Attempts
  <2>2. \A n \in 1..MaxAttempts : Behind(c, n)
    BY <1>2, <2>1, MockServerAssumption DEF Behind
  <2>3. \A n \in 1..MaxAttempts : requests[<<c, n>>].answer = "failure"
    BY <1>2, <2>2 DEF Inv, Tried
  <2>4. failed = 1..MaxAttempts
    BY <2>3
  <2>5. Cardinality(failed) = MaxAttempts
    BY <2>4, MockServerAssumption, UpToCount
  <2>6. FailFirst(asks[c]) \in Nat /\ FailFirst(asks[c]) * (crashes + 1) = FailFirst(asks[c])
    BY <1>2 DEF FailFirst
  <2> QED
    BY <1>1, <1>2, <2>5, <2>6, MockServerAssumption
<1> QED
  BY <1>1, <1>2

-----------------------------------------------------------------------------

LEMMA InvNext == Inv /\ [Next]_serverVars => Inv'
  BY TypesNext, AttemptsNext, PhasesNext, NumberedNext, TriedNext DEF Inv

LEMMA Invariant == Spec => []Inv
  BY InitInv, InvNext, PTL DEF Spec

(* Every variable of the server and its clients has its type: clients stay *)
(* within their attempts, and only keys that are asked for are counted.    *)
THEOREM ServerTypes == Spec => []TypeOK
<1>1. Inv => TypeOK
  BY DEF Inv
<1> QED
  BY <1>1, Invariant, PTL

(* However many handlers of mock_api run interleaved, with the lock counts *)
(* are given out once and without gaps, and of the answered requests for a *)
(* flaky key exactly those counted up to fail_first are failed, none of    *)
(* any other endpoint.                                                     *)
THEOREM FaultsExact == Spec => []FaultsAreExact
  BY FaultsFollow, Invariant, PTL

(* A step that is tried more often than its endpoint fails succeeds, for   *)
(* any number of other clients of the same key.                            *)
THEOREM RetriesSucceed == Spec => []RetriesOutlastFaults
  BY RetriesFollow, Invariant, PTL
-----------------------------------------------------------------------------
(* Submissions. *)

Sent == {r \in Requests : requests[r].phase # "unsent"}

(* The submissions that went into the counter of the present life, or were *)
(* overwritten there.                                                      *)
Wrote ==
  {r \in Requests : /\ Target(r) = "/submit" /\ requests[r].life = crashes
                    /\ requests[r].phase \in {"written", "decided", "over"}
                    /\ requests[r].count > 0 \/ requests[r].phase = "written"}

(* A handler between its read and its write has read no more than others   *)
(* wrote in this life; one that wrote finds at least its own write.        *)
Submitted ==
  /\ IsFiniteSet(Sent)
  /\ CountOf(hits, "/submit") <= Cardinality(Wrote)
  /\ \A r \in Requests :
       /\ requests[r].phase \in {"read", "written"} => requests[r].life = crashes
       /\ requests[r].phase = "read" /\ Target(r) = "/submit" =>
            requests[r].count <= Cardinality(Wrote)
       /\ requests[r].phase = "written" => CountOf(hits, Target(r)) > 0

LEMMA SentFinite ==
  ASSUME Submitted
  PROVE  IsFiniteSet(Wrote) /\ Cardinality(Wrote) \in Nat
<1>1. Wrote \subseteq Sent
  BY DEF Wrote, Sent
<1>2. IsFiniteSet(Wrote)
  BY <1>1, FS_Subset DEF Submitted
<1> QED
  BY <1>2, FS_CardinalityType

LEMMA SubmitHandler ==
  ASSUME NEW r \in Requests, Target(r) = "/submit"
  PROVE  Counts(r) /\ ~Sleeps(r)
  BY DEF Counts, Sleeps, SlowEndpoints

LEMMA InitSubmitted == Init => Submitted
<1> SUFFICES ASSUME Init PROVE Submitted
  OBVIOUS
<1>1. Sent = {} /\ Wrote = {}
  BY DEF Init, Sent, Wrote
<1>2. IsFiniteSet(Sent) /\ Cardinality(Wrote) = 0
  BY <1>1, FS_EmptySet
<1>3. CountOf(hits, "/submit") = 0
  BY DEF Init, CountOf, NoCounts
<1> QED
  BY <1>2, <1>3 DEF Init, Submitted

(* Of one more request that was sent. *)
LEMMA SentOneMore ==
  ASSUME Submitted, NEW x, Sent' \subseteq Sent \cup {x}
  PROVE  IsFiniteSet(Sent')
<1>1. IsFiniteSet(Sent \cup {x})
  BY FS_AddElement DEF Submitted
<1> QED
  BY <1>1, FS_Subset

(* A step that neither counts nor reads a counter. *)
LEMMA SubmittedSame ==
  ASSUME TypeOK, Submitted, NEW x \in Requests, NEW ph, NEW an,
         requests' = [requests EXCEPT ![x] = [@ EXCEPT !.phase = ph, !.answer = an]],
         ph \notin {"read", "written"}, x \in Wrote => ph \in {"decided", "over"},
         ph \in {"decided", "over"} /\ Target(x) = "/submit" =>
           requests[x].phase \in {"decided", "over"},
         UNCHANGED <<asks, hits, crashes>>
  PROVE  Submitted'
<1>1. \A r \in Requests : Target(r)' = Target(r)
  BY DEF Target
<1>2. /\ \A r \in Requests \ {x} : requests'[r] = requests[r]
      /\ requests'[x].phase = ph /\ requests'[x].count = requests[x].count
      /\ requests'[x].life = requests[x].life
  BY DEF TypeOK
<1>3. Requests' = Requests
  BY DEF Requests
<1>4. Wrote' = Wrote
  BY <1>1, <1>2, <1>3 DEF Wrote
<1>5. Sent' \subseteq Sent \cup {x}
  BY <1>2, <1>3 DEF Sent
<1>6. IsFiniteSet(Sent')
  BY <1>5, SentOneMore
<1>7. CountOf(hits, "/submit")' = CountOf(hits, "/submit")
  OBVIOUS
<1>8. \A r \in Requests : CountOf(hits, Target(r))' = CountOf(hits, Target(r))
  BY <1>1
<1>9. ASSUME NEW r \in Requests
      PROVE  /\ requests'[r].phase \in {"read", "written"} => requests'[r].life = crashes'
             /\ requests'[r].phase = "read" /\ Target(r)' = "/submit" =>
                  requests'[r].count <= Cardinality(Wrote)
             /\ requests'[r].phase = "written" => CountOf(hits, Target(r)) > 0
  BY <1>1, <1>2 DEF Submitted
<1> QED
  BY <1>3, <1>4, <1>6, <1>7, <1>8, <1>9 DEF Submitted

(* A step that changes no request. *)
LEMMA SubmittedStays ==
  ASSUME Submitted, UNCHANGED <<asks, requests, hits, crashes>>
  PROVE  Submitted'
<1>1. \A r \in Requests : Target(r)' = Target(r)
  BY DEF Target
<1>2. Requests' = Requests
  BY DEF Requests
<1>3. Wrote' = Wrote /\ Sent' = Sent
  BY <1>1, <1>2 DEF Wrote, Sent
<1> QED
  BY <1>1, <1>2, <1>3 DEF Submitted

LEMMA SendSubmitted ==
  ASSUME TypeOK, Attempts, Phases, Submitted, NEW c \in Clients, Send(c)
  PROVE  Submitted'
<1>1. CASE up
  <2> DEFINE n == clients[c].attempt + 1
             x == <<c, n>>
  <2>1. n \in 1..MaxAttempts /\ n > clients[c].attempt
    BY MockServerAssumption DEF TypeOK, Attempts, Send
  <2>2. x \in Requests /\ requests[x].phase = "unsent"
    BY <2>1 DEF Requests, Attempts
  <2>3. requests' = [requests EXCEPT ![x].phase = "queued"]
    BY <1>1, MockServerAssumption DEF Send, TypeOK
  <2>4. requests' = [requests EXCEPT ![x] =
                       [@ EXCEPT !.phase = "queued", !.answer = requests[x].answer]]
    BY <2>2, <2>3 DEF TypeOK
  <2>5. x \notin Wrote
    BY <2>2 DEF Wrote
  <2>6. UNCHANGED <<asks, hits, crashes>>
    BY DEF Send
  <2> HIDE DEF x
  <2> QED
    BY <2>2, <2>4, <2>5, <2>6, SubmittedSame
<1>2. CASE ~up
  BY <1>2, SubmittedStays DEF Send
<1> QED
  BY <1>1, <1>2

(* A handler of another endpoint touches no submission and not their       *)
(* counter.                                                                *)
LEMMA SubmittedElsewhere ==
  ASSUME TypeOK, Submitted, NEW x \in Requests, NEW q,
         requests' = [requests EXCEPT ![x] = q], requests[x].phase # "unsent",
         Target(x) # "/submit",
         q.phase \in {"read", "written"} => q.life = crashes,
         q.phase = "written" => CountOf(hits', Target(x)) > 0,
         CountOf(hits', "/submit") = CountOf(hits, "/submit"),
         \A r \in Requests :
           CountOf(hits, Target(r)) > 0 => CountOf(hits', Target(r)) > 0,
         UNCHANGED <<asks, crashes>>
  PROVE  Submitted'
<1>1. \A r \in Requests : Target(r)' = Target(r)
  BY DEF Target
<1>2. /\ \A r \in Requests \ {x} : requests'[r] = requests[r]
      /\ requests'[x] = q
  BY DEF TypeOK
<1>3. Requests' = Requests
  BY DEF Requests
<1>4. Wrote' = Wrote
  BY <1>1, <1>2, <1>3 DEF Wrote
<1>5. Sent' \subseteq Sent \cup {x}
  BY <1>2, <1>3 DEF Sent
<1>6. IsFiniteSet(Sent')
  BY <1>5, SentOneMore
<1>7. CountOf(hits', "/submit") <= Cardinality(Wrote)
  BY DEF Submitted
<1>8. ASSUME NEW r \in Requests
      PROVE  /\ requests'[r].phase \in {"read", "written"} => requests'[r].life = crashes'
             /\ requests'[r].phase = "read" /\ Target(r) = "/submit" =>
                  requests'[r].count <= Cardinality(Wrote)
             /\ requests'[r].phase = "written" => CountOf(hits', Target(r)) > 0
  BY <1>2 DEF Submitted
<1> QED
  BY <1>1, <1>3, <1>4, <1>6, <1>7, <1>8 DEF Submitted

(* A handler of "/submit" that has counted is one more that wrote.         *)
LEMMA OneMoreWrote ==
  ASSUME TypeOK, Submitted, NEW x \in Requests, NEW q,
         requests' = [requests EXCEPT ![x] = q], requests[x].phase \in {"called", "read"},
         Target(x) = "/submit", q.life = crashes,
         q.phase \in {"written", "decided"}, q.phase = "decided" => q.count > 0,
         CountOf(hits', "/submit") \in 1..(Cardinality(Wrote) + 1),
         \A r \in Requests :
           Target(r) # "/submit" => CountOf(hits', Target(r)) = CountOf(hits, Target(r)),
         UNCHANGED <<asks, crashes>>
  PROVE  Submitted'
<1>1. \A r \in Requests : Target(r)' = Target(r)
  BY DEF Target
<1>2. /\ \A r \in Requests \ {x} : requests'[r] = requests[r]
      /\ requests'[x] = q
  BY DEF TypeOK
<1>3. Requests' = Requests
  BY DEF Requests
<1>4. Wrote' = Wrote \cup {x} /\ x \notin Wrote
  BY <1>1, <1>2, <1>3 DEF Wrote
<1>5. IsFiniteSet(Wrote) /\ Cardinality(Wrote) \in Nat
  BY SentFinite
<1>6. Cardinality(Wrote') = Cardinality(Wrote) + 1
  BY <1>4, <1>5, FS_AddElement
<1>7. Sent' \subseteq Sent \cup {x}
  BY <1>2, <1>3 DEF Sent
<1>8. IsFiniteSet(Sent')
  BY <1>7, SentOneMore
<1>9. ASSUME NEW r \in Requests
      PROVE  /\ requests'[r].phase \in {"read", "written"} => requests'[r].life = crashes'
             /\ requests'[r].phase = "read" /\ Target(r) = "/submit" =>
                  requests'[r].count <= Cardinality(Wrote')
             /\ requests'[r].phase = "written" => CountOf(hits', Target(r)) > 0
  <2>1. CASE r = x
    BY <1>2, <2>1
  <2>2. CASE r # x
    <3>1. requests'[r] = requests[r] /\ requests[r].count \in Nat
      BY <1>2, <2>2 DEF TypeOK
    <3>2. requests'[r].phase \in {"read", "written"} => requests'[r].life = crashes'
      BY <3>1 DEF Submitted
    <3>3. requests'[r].phase = "read" /\ Target(r) = "/submit" =>
            requests'[r].count <= Cardinality(Wrote')
      BY <1>5, <1>6, <3>1 DEF Submitted
    <3>4. requests'[r].phase = "written" => CountOf(hits', Target(r)) > 0
      BY <1>5, <3>1 DEF Submitted
    <3> QED
      BY <3>2, <3>3, <3>4
  <2> QED
    BY <2>1, <2>2
<1>10. CountOf(hits', "/submit") <= Cardinality(Wrote')
  BY <1>5, <1>6
<1> QED
  BY <1>1, <1>3, <1>8, <1>9, <1>10 DEF Submitted

(* The steps of bump: those of another endpoint leave the counter of       *)
(* submissions alone, and those of "/submit" count one more at most.       *)
LEMMA BumpSubmitted ==
  ASSUME TypeOK, Phases, Submitted, NEW x \in Requests,
         BumpLocked(x) \/ BumpRead(x) \/ BumpWrite(x) \/ BumpReturn(x)
  PROVE  Submitted'
<1> DEFINE q == requests'[x]
<1>0. /\ requests \in [Requests -> RequestType] /\ IsCounter(hits, Asked) /\ crashes \in Nat
      /\ \A r \in Requests : Target(r) \in Asked /\ CountOf(hits, Target(r)) \in Nat
  BY CountTypes, MockServerAssumption DEF TypeOK, RequestType, Asked, Target, Requests
<1>1. /\ requests' = [requests EXCEPT ![x] = q]
      /\ requests[x].phase \in {"called", "read", "written"}
      /\ UNCHANGED <<asks, crashes>>
  BY <1>0 DEF BumpLocked, BumpRead, BumpWrite, BumpReturn
(* What becomes of the counter of this endpoint; the others stay. *)
<1>2. \A t : t # Target(x) => CountOf(hits', t) = CountOf(hits, t)
  BY <1>0 DEF BumpLocked, BumpRead, BumpWrite, BumpReturn, Bump, CountOf
<1>3. /\ BumpLocked(x) => CountOf(hits', Target(x)) = CountOf(hits, Target(x)) + 1
      /\ BumpRead(x) \/ BumpReturn(x) => hits' = hits
      /\ BumpWrite(x) => CountOf(hits', Target(x)) = requests[x].count + 1
  BY <1>0, BumpCounts DEF BumpLocked, BumpRead, BumpWrite, BumpReturn, CountOf
<1>4. /\ BumpLocked(x) => /\ q.phase = "decided" /\ q.life = crashes
                          /\ q.count = CountOf(hits', Target(x))
                          /\ requests[x].phase = "called"
      /\ BumpRead(x) => /\ q.phase = "read" /\ q.life = crashes
                        /\ q.count = CountOf(hits, Target(x)) /\ requests[x].phase = "called"
      /\ BumpWrite(x) => /\ q.phase = "written" /\ q.life = requests[x].life
                         /\ requests[x].phase = "read"
      /\ BumpReturn(x) => /\ q.phase = "decided" /\ q.life = requests[x].life
                          /\ q.count = CountOf(hits, Target(x))
                          /\ requests[x].phase = "written"
  BY <1>0 DEF BumpLocked, BumpRead, BumpWrite, BumpReturn, RequestType
<1>5. /\ requests[x].count \in Nat
      /\ requests[x].phase \in {"read", "written"} => requests[x].life = crashes
      /\ requests[x].phase = "written" => CountOf(hits, Target(x)) > 0
      /\ requests[x].phase = "read" /\ Target(x) = "/submit" =>
           requests[x].count <= Cardinality(Wrote)
      /\ CountOf(hits, "/submit") <= Cardinality(Wrote)
  BY <1>0 DEF RequestType, Submitted
<1>6. IsFiniteSet(Wrote) /\ Cardinality(Wrote) \in Nat
  BY SentFinite
<1> HIDE DEF q
<1>7. CASE Target(x) # "/submit"
  <2>1. /\ q.phase \in {"read", "written"} => q.life = crashes
        /\ q.phase = "written" => CountOf(hits', Target(x)) > 0
    BY <1>0, <1>3, <1>4, <1>5
  <2>2. \A r \in Requests : CountOf(hits, Target(r)) > 0 => CountOf(hits', Target(r)) > 0
    <3>1. CountOf(hits, Target(x)) > 0 => CountOf(hits', Target(x)) > 0
      BY <1>0, <1>3, <1>5
    <3> QED
      BY <1>2, <3>1
  <2>3. CountOf(hits', "/submit") = CountOf(hits, "/submit")
    BY <1>2, <1>7
  <2> QED
    BY <1>1, <1>7, <2>1, <2>2, <2>3, SubmittedElsewhere
<1>8. CASE Target(x) = "/submit" /\ (BumpLocked(x) \/ BumpWrite(x))
  <2>1. CountOf(hits', "/submit") \in 1..(Cardinality(Wrote) + 1)
    <3>1. CASE BumpLocked(x)
      BY <1>0, <1>3, <1>5, <1>6, <1>8, <3>1
    <3>2. CASE BumpWrite(x)
      BY <1>3, <1>4, <1>5, <1>6, <1>8, <3>2
    <3> QED
      BY <1>8, <3>1, <3>2
  <2>2. /\ q.life = crashes /\ q.phase \in {"written", "decided"}
        /\ q.phase = "decided" => q.count > 0
        /\ requests[x].phase \in {"called", "read"}
    BY <1>4, <1>5, <1>8, <2>1, <1>6
  <2>3. \A r \in Requests :
          Target(r) # "/submit" => CountOf(hits', Target(r)) = CountOf(hits, Target(r))
    BY <1>2, <1>8
  <2> QED
    BY <1>1, <1>8, <2>1, <2>2, <2>3, OneMoreWrote
<1>9. CASE Target(x) = "/submit" /\ (BumpRead(x) \/ BumpReturn(x))
  <2>1. \A r \in Requests : Target(r)' = Target(r)
    BY <1>1 DEF Target
  <2>2. /\ \A r \in Requests \ {x} : requests'[r] = requests[r]
        /\ requests'[x] = q /\ Requests' = Requests /\ hits' = hits /\ crashes' = crashes
    BY <1>0, <1>1, <1>3, <1>9 DEF Requests
  <2>3. x \in Wrote' <=> x \in Wrote
    BY <1>4, <1>5, <1>9, <2>1, <2>2 DEF Wrote
  <2>4. \A r \in Requests \ {x} : r \in Wrote' <=> r \in Wrote
    BY <2>1, <2>2 DEF Wrote
  <2>5. Wrote' = Wrote
    BY <2>2, <2>3, <2>4 DEF Wrote
  <2>6. IsFiniteSet(Sent')
    <3>1. Sent' \subseteq Sent \cup {x}
      BY <2>2 DEF Sent
    <3> QED
      BY <3>1, SentOneMore
  <2>7. ASSUME NEW r \in Requests
        PROVE  /\ requests'[r].phase \in {"read", "written"} => requests'[r].life = crashes
               /\ requests'[r].phase = "read" /\ Target(r) = "/submit" =>
                    requests'[r].count <= Cardinality(Wrote)
               /\ requests'[r].phase = "written" => CountOf(hits, Target(r)) > 0
    <3>1. CASE r = x
      BY <1>4, <1>5, <1>9, <2>2, <3>1
    <3>2. CASE r # x
      BY <2>2, <3>2 DEF Submitted
    <3> QED
      BY <3>1, <3>2
  <2> QED
    BY <2>1, <2>2, <2>5, <2>6, <2>7 DEF Submitted
<1> QED
  BY <1>7, <1>8, <1>9

(* The counters of a new life are empty, and nobody is about to write.     *)
LEMMA CrashSubmitted ==
  ASSUME TypeOK, Failures, Submitted, Crash
  PROVE  Submitted'
<1>1. /\ \A r \in Requests : /\ requests'[r].phase \notin {"read", "written"}
                             /\ requests'[r].life = requests[r].life
                             /\ requests[r].phase = "unsent" => requests'[r].phase = "unsent"
      /\ Requests' = Requests
  BY DEF Crash, InFlight, Handling, Requests, TypeOK
<1>2. \A r \in Requests : requests[r].life <= crashes /\ requests[r].life \in Nat
  BY MockServerAssumption DEF Failures, TypeOK
<1>3. crashes \in Nat /\ crashes' = crashes + 1
  BY MockServerAssumption DEF Crash, TypeOK
<1>4. Wrote' = {}
  BY <1>1, <1>2, <1>3 DEF Wrote
<1>5. Cardinality(Wrote') = 0
  BY <1>4, FS_EmptySet
<1>6. CountOf(hits', "/submit") = 0
  BY DEF Crash, CountOf, NoCounts
<1>7. Sent' \subseteq Sent
  BY <1>1 DEF Sent
<1>8. IsFiniteSet(Sent')
  BY <1>7, FS_Subset DEF Submitted
<1> QED
  BY <1>1, <1>5, <1>6, <1>8 DEF Submitted

LEMMA SubmittedNext ==
  ASSUME Inv, Submitted, [Next]_serverVars
  PROVE  Submitted'
<1>0. TypeOK /\ Attempts /\ Phases /\ Failures /\ requests \in [Requests -> RequestType]
  BY DEF Inv, TypeOK, RequestType
<1>1. ASSUME NEW c \in Clients, Send(c) PROVE Submitted'
  BY <1>0, <1>1, SendSubmitted
<1>2. ASSUME NEW c \in Clients, GiveUp(c) PROVE Submitted'
  BY <1>2, SubmittedStays DEF GiveUp
<1>3. ASSUME NEW r \in Requests, TakeRequest(r) PROVE Submitted'
  <2> DEFINE ph == requests'[r].phase
  <2>1. requests' = [requests EXCEPT ![r] =
                       [@ EXCEPT !.phase = ph, !.answer = requests[r].answer]]
    BY <1>0, <1>3 DEF TakeRequest, RequestType
  <2>2. ph = IF Counts(r) THEN "called" ELSE IF Sleeps(r) THEN "sleeping" ELSE "decided"
    BY <1>0, <1>3 DEF TakeRequest, RequestType
  <2>3. requests[r].phase = "queued" /\ UNCHANGED <<asks, hits, crashes>> /\ r \notin Wrote
    BY <1>3 DEF TakeRequest, Wrote
  <2> HIDE DEF ph
  <2>4. ph \notin {"read", "written"} /\ (Target(r) = "/submit" => ph = "called")
    BY <2>2, SubmitHandler
  <2> QED
    BY <1>0, <2>1, <2>3, <2>4, SubmittedSame
<1>4. ASSUME NEW r \in Requests, BumpLocked(r) PROVE Submitted'
  BY <1>0, <1>4, BumpSubmitted
<1>5. ASSUME NEW r \in Requests, BumpRead(r) PROVE Submitted'
  BY <1>0, <1>5, BumpSubmitted
<1>6. ASSUME NEW r \in Requests, BumpWrite(r) PROVE Submitted'
  BY <1>0, <1>6, BumpSubmitted
<1>7. ASSUME NEW r \in Requests, BumpReturn(r) PROVE Submitted'
  BY <1>0, <1>7, BumpSubmitted
<1>8. ASSUME NEW r \in Requests, WakeUp(r) PROVE Submitted'
  <2>1. requests' = [requests EXCEPT ![r] =
                       [@ EXCEPT !.phase = "decided", !.answer = requests[r].answer]]
    BY <1>0, <1>8 DEF WakeUp, RequestType
  <2>2. Target(r) # "/submit" /\ r \notin Wrote /\ UNCHANGED <<asks, hits, crashes>>
    BY <1>0, <1>8, SubmitHandler DEF WakeUp, Phases, Wrote
  <2> QED
    BY <1>0, <2>1, <2>2, SubmittedSame
<1>9. ASSUME NEW r \in Requests, Answer(r) PROVE Submitted'
  <2>1. requests' = [requests EXCEPT ![r] = [@ EXCEPT !.phase = "over", !.answer = Body(r)]]
    BY <1>9 DEF Answer
  <2>2. requests[r].phase = "decided" /\ UNCHANGED <<asks, hits, crashes>>
    BY <1>9 DEF Answer
  <2> QED
    BY <1>0, <2>1, <2>2, SubmittedSame
<1>10. ASSUME Crash PROVE Submitted'
  BY <1>0, <1>10, CrashSubmitted
<1>11. ASSUME ComeUp PROVE Submitted'
  BY <1>11, SubmittedStays DEF ComeUp
<1>12. ASSUME UNCHANGED serverVars PROVE Submitted'
  BY <1>12, SubmittedStays DEF serverVars
<1> QED
  BY <1>1, <1>2, <1>3, <1>4, <1>5, <1>6, <1>7, <1>8, <1>9, <1>10, <1>11, <1>12, StepCases

LEMMA SubmissionsFollow == Inv /\ Submitted => SubmissionsCounted
<1> SUFFICES ASSUME Inv, Submitted PROVE SubmissionsCounted
  OBVIOUS
<1> DEFINE mine == {r \in Requests :
                      /\ Target(r) = "/submit" /\ requests[r].life = crashes
                      /\ requests[r].count > 0 \/ requests[r].phase = "written"}
           acknowledged == {r \in mine : requests[r].answer = "json"}
<1>1. Wrote \subseteq mine
  BY DEF Wrote
<1>2. mine \subseteq Sent
  BY DEF Sent, Inv, Phases
<1>3. IsFiniteSet(mine)
  BY <1>2, FS_Subset DEF Submitted
<1>4. CountOf(hits, "/submit") <= Cardinality(mine)
  <2>1. Cardinality(Wrote) <= Cardinality(mine) /\ Cardinality(mine) \in Nat
    BY <1>1, <1>3, FS_Subset, FS_CardinalityType
  <2>2. CountOf(hits, "/submit") \in Nat
    BY CountTypes DEF Inv, TypeOK
  <2> QED
    BY <2>1, <2>2, SentFinite DEF Submitted
<1>5. ASSUME gil PROVE Cardinality(acknowledged) <= CountOf(hits, "/submit")
  <2>1. acknowledged \subseteq Counted("/submit")
    BY <1>5 DEF Counted, Counts, Inv, Phases
  <2>2. CountOf(hits, "/submit") \in Nat
    BY CountTypes DEF Inv, TypeOK
  <2>3. CASE "/submit" \in Asked
    <3>1. Cardinality(Counted("/submit")) = CountOf(hits, "/submit")
      BY <1>5, <2>3, FaultsFollow DEF FaultsAreExact, Asked
    <3>2. Counted("/submit") \subseteq mine
      BY DEF Counted
    <3>3. IsFiniteSet(Counted("/submit"))
      BY <1>3, <3>2, FS_Subset
    <3> QED
      BY <2>1, <3>1, <3>3, FS_Subset
  <2>4. CASE "/submit" \notin Asked
    <3>1. acknowledged = {}
      BY <2>4 DEF Asked, Target, Requests
    <3> QED
      BY <2>2, <3>1, FS_EmptySet
  <2> QED
    BY <2>3, <2>4
<1> QED
  BY <1>4, <1>5 DEF SubmissionsCounted

(* However the read, the write and the second read of a bump interleave    *)
(* without a lock, and wherever the server goes down, it counts no more    *)
(* submissions than it was sent in this life; with the lock, no            *)
(* acknowledged one is missing from the counter.                           *)
THEOREM SubmissionsAreCounted == Spec => []SubmissionsCounted
<1>1. Inv /\ Submitted /\ [Next]_serverVars => Submitted'
  BY SubmittedNext
<1>2. Spec => []Submitted
  BY <1>1, InitSubmitted, Invariant, PTL DEF Spec
<1> QED
  BY <1>2, SubmissionsFollow, Invariant, PTL
=============================================================================
