---------------------------- MODULE AuthMiddleware ----------------------------
(***************************************************************************)
(* The way of a request through the HTTP server: the connection with its   *)
(* time limits, the route, and, for the routes of operators, the checks of *)
(* the HMAC middleware, between which it waits for the body.               *)
(*                                                                         *)
(* A client sends a request again when no answer came or the answer was    *)
(* not a success: it cannot tell a 500 of the middleware, before which     *)
(* nothing was done, from a handler's 500 after its last statement.        *)
(* Requests share nothing here but the clock.  HMAC is taken to be         *)
(* perfect: a signature is the secret and the text it is of, and the text  *)
(* (which the code joins with newlines) tells its parts apart.             *)
(***************************************************************************)
EXTENDS GoTime, Routes

CONSTANTS
  Requests,     \* what operators and MediaMTX want done
  Messages,     \* what may arrive as a request
  Secret,       \* API_SECRET
  EmptyBody,    \* a body of no bytes
  MaxDrift,     \* MaxTimestampDrift, in ticks
  ReadTimeout,  \* from the first byte awaited to the last byte of the body
  WriteTimeout, \* from the last header to the answer
  MaxTries,     \* how often a client sends a request
  Horizon,      \* bound of the time at which a client sends
  MaxTime,      \* bound of the clock
  None          \* no message, no header

\* X-Timestamp: the number it stands for, and whether it is spelled as %d would.
Stamp == [value : Int, plain : BOOLEAN]

Stamped(m) == m.stamp # None /\ m.stamp \in Stamp

Bodies == {m.body : m \in Messages} \cup {EmptyBody}

ASSUME AuthAssumption ==
  /\ None \notin Messages /\ None \notin Stamp /\ None \notin Bodies
  /\ \A m \in Messages : /\ DOMAIN m = {"method", "path", "key", "stamp", "sig", "body"}
                         /\ m.stamp = None \/ Stamped(m)
  /\ MaxDrift \in 0..(HalfRange - 2)
  /\ ReadTimeout \in Nat /\ WriteTimeout \in Nat
  /\ MaxTries \in Nat /\ Horizon \in Nat /\ MaxTime \in Nat /\ Horizon + ReadTimeout <= MaxTime
  /\ MaxTime + MaxDrift + (UnixToInternal + 1) * Second < HalfRange * Second

VARIABLES
  now, \* the machine's clock, in ticks since 1970
  req  \* the tries of each request: where the last one is, and what became of all

vars == <<now, req>>

\* 200 stands for every success, 400 for a handler's refusals.
Statuses == {200, 400, 401, 404, 405, 500}

\* "open": the headers are awaited; "body": the header checks have passed, and
\* io.ReadAll waits; "running": in the handler; "writing": the answer is decided
\* and on its way; then the try is over, with an answer or ("closed") with none.
Try ==
  [pc : {"idle", "open", "body", "running", "writing", "answered", "closed"},
   opened : Nat,              \* when the server began to read
   headed : Nat,              \* when the headers were there
   msg : Messages \cup {None},
   seen : Bodies \cup {None}, \* the body that the handler reads
   started : Nat,             \* when the handler was called
   status : Statuses \cup {None},
   tries : 0..MaxTries,
   done : Nat,                \* tries that did what was asked
   doubt : Nat]               \* tries after which the client knows nothing: no answer, or 500

TypeOK ==
  /\ now \in 0..MaxTime
  /\ req \in [Requests -> Try]
  /\ \A r \in Requests : /\ req[r].msg # None <=> req[r].pc \in {"body", "running"}
                         /\ req[r].seen # None <=> req[r].pc = "running"

\* A try before its headers or after its handler.
Bare(pc, headed, status, tries, done, doubt) ==
  [pc |-> pc, opened |-> 0, headed |-> headed, msg |-> None, seen |-> None, started |-> 0,
   status |-> status, tries |-> tries, done |-> done, doubt |-> doubt]

Init == now = 0 /\ req = [r \in Requests |-> Bare("idle", 0, None, 0, 0, 0)]

\* The answer is decided, for a request whose headers came at a time.
Decided(r, headed, code) == Bare("writing", headed, code, req[r].tries, req[r].done, req[r].doubt)

\* The client is told, or told nothing.
Told(r) ==
  Bare("answered", 0, req[r].status, req[r].tries, req[r].done,
       IF req[r].status = 500 THEN req[r].doubt + 1 ELSE req[r].doubt)
Untold(r) == Bare("closed", 0, None, req[r].tries, req[r].done, req[r].doubt + 1)

-----------------------------------------------------------------------------
(* What the middleware computes. *)

\* The drift check.  The variant takes the seconds apart before it makes a
\* duration of them, which may wrap around.
DriftOfSeconds(sec) ==
  LET diff == Wrap((now \div Second - sec) * Second)
  IN -MaxDrift <= diff /\ diff <= MaxDrift

InWindow(sec) ==
  LET diff == Sub(Instant(now), Unix(sec))
  IN -MaxDrift <= diff /\ diff <= MaxDrift

\* The checks before the body is read.  All answer 401, so their order shows
\* in the wording only; EnvKeyStore has one secret for every key.
Headers(m) ==
  /\ m.key # None /\ m.sig # None /\ Stamped(m)
  /\ m.stamp.value \in Word
  /\ InWindow(m.stamp.value)

\* The signature covers the number that was parsed, spelled anew.
stringToSign(m, body) ==
  [method |-> m.method, path |-> m.path, value |-> m.stamp.value, plain |-> TRUE, body |-> body]

Verified(m) == m.sig = [secret |-> Secret, text |-> stringToSign(m, m.body)]

\* r.Body after the middleware has read it.  The variants leave the reader at
\* its end, and leave none.
Drained(body) == EmptyBody
NoReader(body) == None
Restored(body) == body

-----------------------------------------------------------------------------
(* A connection and its limits. *)

\* The limits set when reading begins, and when the headers are there.  The
\* variant sets none.
Unlimited(r) == MaxTime + 1
ReadLimit(r) == req[r].opened + ReadTimeout
WriteLimit(r) == req[r].headed + WriteTimeout

Reading(r) == req[r].pc \in {"open", "body"}

\* Timers fire on time: the clock does not pass the limit of a pending read.
Tick ==
  /\ now < MaxTime
  /\ \A r \in Requests : Reading(r) => now < ReadLimit(r)
  /\ now' = now + 1
  /\ UNCHANGED req

Retries(r) ==
  /\ \/ req[r].pc \in {"idle", "closed"}
     \/ req[r].pc = "answered" /\ req[r].status # 200
  /\ req[r].tries < MaxTries

Connect(r) ==
  /\ now <= Horizon
  /\ Retries(r)
  /\ req' = [req EXCEPT ![r] = [req[r] EXCEPT !.pc = "open", !.opened = now, !.status = None,
                                               !.tries = req[r].tries + 1]]
  /\ UNCHANGED now

\* No answer is written to a connection whose headers did not come in time, or
\* that the client has closed.
HeadersFail(r) ==
  /\ req[r].pc = "open"
  /\ req' = [req EXCEPT ![r] = Untold(r)]
  /\ UNCHANGED now

HeadersTimeOut(r) == now >= ReadLimit(r) /\ HeadersFail(r)

-----------------------------------------------------------------------------
(* The headers are there. *)

\* mux has no route for the message.
NotRouted(r, m) ==
  /\ req[r].pc = "open"
  /\ ~Found(m.method, m.path)
  /\ req' = [req EXCEPT ![r] = Decided(r, now, Unrouted(m.path))]
  /\ UNCHANGED now

\* A public route: its handler reads the body itself.
CallPublic(r, m) ==
  /\ req[r].pc = "open"
  /\ Found(m.method, m.path) /\ ~Route(m.method, m.path).signed
  /\ req' = [req EXCEPT ![r] = [req[r] EXCEPT !.pc = "running", !.headed = now, !.msg = m, !.seen = m.body,
                                               !.started = now]]
  /\ UNCHANGED now

RefuseHeaders(r, m) ==
  /\ req[r].pc = "open"
  /\ Found(m.method, m.path) /\ Route(m.method, m.path).signed
  /\ ~Headers(m)
  /\ req' = [req EXCEPT ![r] = Decided(r, now, 401)]
  /\ UNCHANGED now

AwaitBody(r, m) ==
  /\ req[r].pc = "open"
  /\ Found(m.method, m.path) /\ Route(m.method, m.path).signed
  /\ Headers(m)
  /\ req' = [req EXCEPT ![r] = [req[r] EXCEPT !.pc = "body", !.headed = now, !.msg = m]]
  /\ UNCHANGED now

-----------------------------------------------------------------------------
(* The body is there, or will not come. *)

Call(r) ==
  /\ req[r].pc = "body"
  /\ Verified(req[r].msg)
  /\ req' = [req EXCEPT ![r] = [req[r] EXCEPT !.pc = "running", !.seen = Restored(req[r].msg.body),
                                               !.started = now]]
  /\ UNCHANGED now

\* After a refusal the middleware returns.  The variant goes on to the handler.
GoesOn(try) == [try EXCEPT !.done = @ + 1]
Returns(try) == try

Refuse(r, code) ==
  /\ req' = [req EXCEPT ![r] = Returns(Decided(r, req[r].headed, code))]
  /\ UNCHANGED now

RefuseSignature(r) ==
  /\ req[r].pc = "body"
  /\ ~Verified(req[r].msg)
  /\ Refuse(r, 401)

\* The client ends the body early or is gone, or the limit of the read has come.
BodyFails(r) == req[r].pc = "body" /\ Refuse(r, 500)

BodyTimesOut(r) == now >= ReadLimit(r) /\ BodyFails(r)

-----------------------------------------------------------------------------
(* The handler returns, however long it took. *)

\* A success may have had nothing to do, and a refusal leaves nothing done, or
\* what somebody's DELETE has taken away since; a 500 may come after the work.
Return(r, code, effect) ==
  /\ req[r].pc = "running"
  /\ effect => code \in {200, 500}
  /\ req' = [req EXCEPT ![r] =
       Bare("writing", req[r].headed, code, req[r].tries,
            IF effect THEN req[r].done + 1 ELSE req[r].done, req[r].doubt)]
  /\ UNCHANGED now

\* The answer is flushed before the limit of the write, and the client reads it.
Answer(r) ==
  /\ req[r].pc = "writing"
  /\ now < WriteLimit(r)
  /\ req' = [req EXCEPT ![r] = Told(r)]
  /\ UNCHANGED now

\* The limit has passed, or the client is gone.
AnswerLost(r) ==
  /\ req[r].pc = "writing"
  /\ req' = [req EXCEPT ![r] = Untold(r)]
  /\ UNCHANGED now

-----------------------------------------------------------------------------

Arrive(r) ==
  \E m \in Messages :
    NotRouted(r, m) \/ CallPublic(r, m) \/ RefuseHeaders(r, m) \/ AwaitBody(r, m)

TimeOut(r) == HeadersTimeOut(r) \/ BodyTimesOut(r)
Serve(r) ==
  \/ \E code \in {200, 400, 500}, effect \in BOOLEAN : Return(r, code, effect)
  \/ Answer(r) \/ AnswerLost(r)

\* Clients give up in the end.
Quiet == (\A r \in Requests : req[r].pc \in {"idle", "answered", "closed"}) /\ UNCHANGED vars

Next ==
  \/ Tick
  \/ \E r \in Requests :
       \/ Connect(r) \/ Arrive(r) \/ Call(r) \/ RefuseSignature(r) \/ BodyFails(r)
       \/ HeadersFail(r) \/ Serve(r)
  \/ Quiet

Spec == Init /\ [][Next]_vars

\* The clock runs, timers fire, handlers return, and a write ends.  Clients owe
\* nothing.
FairSpec ==
  /\ Spec
  /\ WF_vars(Tick)
  /\ \A r \in Requests : WF_vars(TimeOut(r)) /\ WF_vars(Serve(r))

-----------------------------------------------------------------------------

\* The arithmetic of the drift check loses nothing: whatever number X-Timestamp
\* holds, it passes exactly if it is at most MaxDrift from the clock.
WindowIsExact ==
  \A sec \in Word :
    InWindow(sec) <=> now - sec * Second \in -MaxDrift..MaxDrift

Signed(r) == req[r].pc = "running" /\ Route(req[r].msg.method, req[r].msg.path).signed

\* A handler of operators runs on what a holder of the secret has signed: method,
\* path, number and the very body that the handler reads.
HandledAsSigned ==
  \A r \in Requests : Signed(r) =>
    LET m == req[r].msg
    IN m.sig = [secret |-> Secret, text |-> stringToSign(m, req[r].seen)]

\* The drift is checked before the body is awaited; the handler starts at most
\* ReadTimeout later, so it never runs on a stamp older than both together.
HandledWhileFresh ==
  \A r \in Requests : Signed(r) =>
    req[r].started - req[r].msg.stamp.value * Second \in -MaxDrift..(MaxDrift + ReadTimeout)

\* A client that sends again whatever was not a success has its request done once
\* more than it was left in doubt, at most: 4xx answers, the middleware's among
\* them, mean that nothing was done.  (A 500 does not, and is the one to doubt.)
DoubledOnlyInDoubt == \A r \in Requests : req[r].done <= req[r].doubt + 1

\* A request that the router lets through does not end in the default of its
\* handler's switch.
RoutedIsServed ==
  \A r \in Requests : req[r].pc = "running" =>
    LET m == req[r].msg IN m.method \in Serves(Route(m.method, m.path).handler, m.path[2])

\* A client that sends its headers, or the body, slowly or never does not keep
\* the server's goroutine.
EveryRequestEnds ==
  \A r \in Requests : req[r].pc = "open" ~> req[r].pc \in {"answered", "closed"}

=============================================================================
