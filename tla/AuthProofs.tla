------------------------------ MODULE AuthProofs ------------------------------
(***************************************************************************)
(* The drift check is exact for words of any size, and a request that      *)
(* reaches a handler of operators is signed, whole and fresh, for any      *)
(* requests, messages and limits.  The inductive invariant says where each *)
(* instant of a try lies and what the checks that it has passed left true. *)
(***************************************************************************)
EXTENDS AuthMiddleware, TLAPS

-----------------------------------------------------------------------------
(* Durations. *)

\* Wrapping keeps a word as it is, and gives a word.
LEMMA ModInRange ==
  ASSUME NEW a \in Int, NEW n \in Nat \ {0}
  PROVE  a % n \in 0..(n - 1)
OBVIOUS

LEMMA ModSmall ==
  ASSUME NEW n \in Nat \ {0}, NEW a \in 0..(n - 1)
  PROVE  a % n = a
OBVIOUS

LEMMA WrapWord ==
  ASSUME NEW x \in Int
  PROVE  Wrap(x) \in Word /\ (x \in Word => Wrap(x) = x)
<1>1. HalfRange \in Nat /\ 2 * HalfRange \in Nat \ {0}
  BY GoTimeAssumption
<1>2. (x + HalfRange) % (2 * HalfRange) \in 0..(2 * HalfRange - 1)
  BY <1>1, ModInRange
<1>3. ASSUME x \in Word
      PROVE  (x + HalfRange) % (2 * HalfRange) = x + HalfRange
  <2>1. x + HalfRange \in 0..(2 * HalfRange - 1)
    BY <1>1, <1>3 DEF Word
  <2> QED
    BY <1>1, <2>1, ModSmall
<1> QED
  BY <1>1, <1>2, <1>3 DEF Wrap, Word

\* The clock is far from the ends of the range of instants.
LEMMA ClockInRange ==
  ASSUME now \in 0..MaxTime
  PROVE  /\ Instant(now) \in Nat
         /\ Instant(now) < (HalfRange - 1) * Second
         /\ (1 - HalfRange) * Second + Second <= 0
         /\ HalfRange * Second \in Nat
<1> DEFINE OS == UnixToInternal * Second
           HS == HalfRange * Second
<1>1. /\ OS \in Nat /\ HS \in Nat /\ Second \in Nat
      /\ (UnixToInternal + 1) * Second = OS + Second
      /\ (HalfRange - 1) * Second = HS - Second
      /\ (1 - HalfRange) * Second = Second - HS
      /\ 2 * Second <= HS
  BY GoTimeAssumption
<1>2. MaxTime + MaxDrift + OS + Second < HS
  BY <1>1, AuthAssumption, GoTimeAssumption
<1>3. Instant(now) = now + OS
  BY DEF Instant
<1> HIDE DEF OS, HS
<1> QED
  BY <1>1, <1>2, <1>3, AuthAssumption DEF HS

\* A difference of two instants that fits into the window is the true one, and
\* a true difference in the window is not lost.
LEMMA SubExact ==
  ASSUME now \in 0..MaxTime, NEW u \in Int
  PROVE  LET t == Instant(now)
         IN Sub(t, u) \in -MaxDrift..MaxDrift <=> t - u \in -MaxDrift..MaxDrift
<1> DEFINE t == Instant(now)
           d == Wrap(t - u)
           HS == HalfRange * Second
<1>1. /\ t \in Nat /\ t < (HalfRange - 1) * Second
      /\ (1 - HalfRange) * Second + Second <= 0 /\ HS \in Nat
      /\ (HalfRange - 1) * Second = HS - Second /\ (1 - HalfRange) * Second \in Int
      /\ -HalfRange * Second = -HS
  BY ClockInRange, GoTimeAssumption
<1>2. HalfRange \in Nat /\ Second \in Nat \ {0} /\ MaxDrift \in 0..(HalfRange - 2)
  BY GoTimeAssumption, AuthAssumption
<1>3. d \in Word /\ (t - u \in Word => d = t - u)
  BY <1>1, WrapWord
<1>4. d \in Int
  BY <1>2, <1>3 DEF Word
<1>5. (u + d) % Second \in 0..(Second - 1)
  <2>1. u + d \in Int
    BY <1>4
  <2> HIDE DEF d
  <2> QED
    BY <1>2, <2>1, ModInRange
<1>6. ASSUME Add(u, d) = t PROVE d = t - u
  <2> DEFINE x == (u + d) % Second
             lo == (1 - HalfRange) * Second
             hi == (HalfRange - 1) * Second
  <2>1. Add(u, d) = IF u + d >= HS THEN hi + x ELSE IF u + d < -HS THEN lo + x ELSE u + d
    BY <1>1 DEF Add
  <2>2. /\ t \in Nat /\ t < hi /\ lo + Second <= 0 /\ lo \in Int /\ HS \in Nat
        /\ hi = HS - Second /\ x \in 0..(Second - 1) /\ u + d \in Int
    BY <1>1, <1>4, <1>5
  <2> HIDE DEF t, d, HS, x, lo, hi
  <2> QED
    BY <1>2, <1>4, <1>6, <2>1, <2>2
<1>7. ASSUME t - u \in -MaxDrift..MaxDrift PROVE Add(u, d) = t /\ d = t - u
  <2>1. d = t - u
    BY <1>1, <1>2, <1>3, <1>7 DEF Word
  <2>2. u + d = t
    BY <1>1, <2>1
  <2>3. ~(u + d >= HS) /\ ~(u + d < -HS)
    BY <1>1, <1>2, <2>2
  <2> QED
    BY <1>1, <2>1, <2>2, <2>3 DEF Add
<1>8. Sub(t, u) = IF Add(u, d) = t THEN d ELSE IF t < u THEN -HalfRange ELSE HalfRange - 1
  BY DEF Sub
<1> HIDE DEF t, d, HS
<1>9. Sub(t, u) \in -MaxDrift..MaxDrift <=> t - u \in -MaxDrift..MaxDrift
  BY <1>2, <1>6, <1>7, <1>8
<1> QED
  BY <1>9 DEF t

LEMMA WindowExact ==
  ASSUME now \in 0..MaxTime, NEW sec \in Word
  PROVE  InWindow(sec) <=> now - sec * Second \in -MaxDrift..MaxDrift
<1> DEFINE t == Instant(now)
           OS == UnixToInternal * Second
           HS == HalfRange * Second
           SS == sec * Second
<1>1. /\ HalfRange \in Nat /\ HalfRange > 1 /\ UnixToInternal \in 0..(HalfRange - 1)
      /\ Second \in Nat \ {0} /\ sec \in -HalfRange..(HalfRange - 1)
      /\ MaxDrift \in Nat /\ MaxTime \in Nat
  BY GoTimeAssumption, AuthAssumption DEF Word
<1>2. /\ OS \in Nat /\ HS \in Nat /\ SS \in Int
      /\ (sec + UnixToInternal) * Second = SS + OS
      /\ (sec + UnixToInternal - 2 * HalfRange) * Second = SS + OS - 2 * HS
      /\ (UnixToInternal + 1) * Second = OS + Second
      /\ (HalfRange - 1) * Second = HS - Second
  BY <1>1
<1>3. t = now + OS /\ MaxTime + MaxDrift + OS + Second < HS
  BY <1>1, <1>2, AuthAssumption DEF Instant
<1>4. Unix(sec) \in Int
  BY <1>1 DEF Unix, WordSum
<1>5. InWindow(sec) <=> t - Unix(sec) \in -MaxDrift..MaxDrift
  <2>1. Sub(t, Unix(sec)) \in -MaxDrift..MaxDrift <=> t - Unix(sec) \in -MaxDrift..MaxDrift
    BY <1>4, SubExact
  <2>2. InWindow(sec) <=> Sub(t, Unix(sec)) \in -MaxDrift..MaxDrift
    <3>1. Sub(t, Unix(sec)) \in Int
      <4>1. t - Unix(sec) \in Int
        BY <1>2, <1>3, <1>4
      <4> QED
        BY <4>1, <1>1, WrapWord DEF Sub, Word
    <3> QED
      BY <3>1, <1>1 DEF InWindow
  <2> QED
    BY <2>1, <2>2
<1>6. CASE sec + UnixToInternal < HalfRange
  <2>1. Unix(sec) = SS + OS
    BY <1>1, <1>2, <1>6 DEF Unix, WordSum
  <2>2. t - Unix(sec) = now - SS
    BY <1>2, <1>3, <2>1
  <2> QED
    BY <1>5, <2>2
<1>7. CASE sec + UnixToInternal >= HalfRange
  <2>1. Unix(sec) = SS + OS - 2 * HS
    BY <1>1, <1>2, <1>7 DEF Unix, WordSum
  <2>2. SS + OS >= HS
    <3>1. \A a, b \in Int : a >= b => a * Second >= b * Second
      BY <1>1
    <3>2. (sec + UnixToInternal) * Second >= HalfRange * Second
      BY <1>1, <1>7, <3>1
    <3> QED
      BY <1>2, <3>2
  <2>3. SS <= HS - Second
    <3>1. \A a, b \in Int : a >= b => a * Second >= b * Second
      BY <1>1
    <3>2. (HalfRange - 1) * Second >= sec * Second
      BY <1>1, <3>1
    <3> QED
      BY <1>2, <3>2
  <2> HIDE DEF t, OS, HS, SS
  <2>4. now - SS < -MaxDrift
    BY <1>1, <1>2, <1>3, <2>2
  <2>5. t - Unix(sec) > MaxDrift
    BY <1>1, <1>2, <1>3, <2>1, <2>3
  <2>6. ~(now - SS \in -MaxDrift..MaxDrift) /\ ~(t - Unix(sec) \in -MaxDrift..MaxDrift)
    BY <1>1, <1>2, <1>3, <1>4, <2>4, <2>5
  <2> QED
    BY <1>5, <2>6 DEF SS
<1> QED
  BY <1>1, <1>6, <1>7
-----------------------------------------------------------------------------
(* The life of a request. *)

\* Where the instants of a try lie, and what its message has passed.
TryInv(r) ==
  LET q == req[r] IN
  /\ q.pc \in {"open", "body"} => q.opened <= now /\ now <= q.opened + ReadTimeout
  /\ q.pc = "body" => /\ q.opened <= q.headed /\ q.headed <= now
                      /\ Found(q.msg.method, q.msg.path)
                      /\ Stamped(q.msg)
                      /\ q.headed - q.msg.stamp.value * Second \in -MaxDrift..MaxDrift
  /\ q.pc = "running" => Found(q.msg.method, q.msg.path)

\* What a running handler of operators may rely on.
CallInv(r) ==
  Signed(r) =>
    LET m == req[r].msg IN
    /\ m.sig = [secret |-> Secret, text |-> stringToSign(m, req[r].seen)]
    /\ req[r].started - m.stamp.value * Second \in -MaxDrift..(MaxDrift + ReadTimeout)

\* A try that did what was asked has left the client in doubt, or tells it so and
\* is the last one.
Success(pc, status) ==
  \/ pc = "answered" /\ status = 200
  \/ pc = "writing" /\ status \in {200, 500}
Balanced(pc, status, done, doubt) ==
  done <= doubt + IF Success(pc, status) THEN 1 ELSE 0
CountInv(r) == Balanced(req[r].pc, req[r].status, req[r].done, req[r].doubt)

AuthInv == \A r \in Requests : TryInv(r) /\ CallInv(r) /\ CountInv(r)

-----------------------------------------------------------------------------

Codes == Statuses \cup {None}

LEMMA BareIsTry ==
  ASSUME TypeOK, NEW r \in Requests, NEW pc \in {"writing", "answered", "closed"},
         NEW headed \in Nat, NEW code \in Codes, NEW done \in Nat, NEW doubt \in Nat
  PROVE  LET q == Bare(pc, headed, code, req[r].tries, done, doubt) IN
         /\ q \in Try
         /\ q.pc = pc /\ q.msg = None /\ q.seen = None
         /\ q.status = code /\ q.done = done /\ q.doubt = doubt
<1>1. req[r].tries \in 0..MaxTries
  BY DEF TypeOK, Try
<1> QED
  BY <1>1 DEF Bare, Try, Codes

\* The message of a try is one that may arrive.
LEMMA MessageOfTry ==
  ASSUME TypeOK, NEW r \in Requests, req[r].pc \in {"body", "running"}
  PROVE  req[r].msg \in Messages /\ req[r].msg.body \in Bodies
BY DEF TypeOK, Try, Bodies

LEMMA InitType == Init => TypeOK
<1> SUFFICES ASSUME Init PROVE TypeOK
  OBVIOUS
<1>1. Bare("idle", 0, None, 0, 0, 0) \in Try
  BY AuthAssumption DEF Bare, Try
<1> QED
  BY <1>1, AuthAssumption DEF Init, TypeOK, Bare

\* Whoever ends a try, or puts a value of the type in its place, keeps TypeOK.
LEMMA OneTry ==
  ASSUME TypeOK, now' \in 0..MaxTime, NEW r \in Requests, NEW q \in Try,
         req' = [req EXCEPT ![r] = q],
         q.msg # None <=> q.pc \in {"body", "running"},
         q.seen # None <=> q.pc = "running"
  PROVE  TypeOK'
<1>1. req' \in [Requests -> Try] /\ req'[r] = q /\ \A s \in Requests \ {r} : req'[s] = req[s]
  BY DEF TypeOK
<1> QED
  BY <1>1 DEF TypeOK

LEMMA ConnectTry ==
  ASSUME TypeOK, NEW r \in Requests, Connect(r)
  PROVE  LET q == req'[r] IN
         /\ q \in Try /\ req' = [req EXCEPT ![r] = q]
         /\ q.pc = "open" /\ q.opened = now /\ q.msg = req[r].msg /\ q.seen = req[r].seen
         /\ q.done = req[r].done /\ q.doubt = req[r].doubt
<1> DEFINE q == [req[r] EXCEPT !.pc = "open", !.opened = now, !.status = None,
                               !.tries = req[r].tries + 1]
<1>1. req[r] \in Try /\ req[r].tries < MaxTries /\ now \in Nat
  BY AuthAssumption DEF TypeOK, Connect, Retries, Try
<1>2. req[r].tries + 1 \in 0..MaxTries
  BY <1>1, AuthAssumption DEF Try
<1>3. q \in Try
  BY <1>1, <1>2 DEF Try
<1>4. req' = [req EXCEPT ![r] = q] /\ req'[r] = q
  BY DEF Connect, TypeOK
<1>5. /\ q.pc = "open" /\ q.opened = now /\ q.msg = req[r].msg /\ q.seen = req[r].seen
      /\ q.done = req[r].done /\ q.doubt = req[r].doubt
  BY <1>1 DEF Try
<1> QED
  BY <1>3, <1>4, <1>5

LEMMA CallPublicTry ==
  ASSUME TypeOK, NEW r \in Requests, NEW m \in Messages, CallPublic(r, m)
  PROVE  LET q == req'[r] IN
         /\ q \in Try /\ req' = [req EXCEPT ![r] = q]
         /\ q.pc = "running" /\ q.msg = m /\ q.seen = m.body
         /\ q.done = req[r].done /\ q.doubt = req[r].doubt
<1> DEFINE q == [req[r] EXCEPT !.pc = "running", !.headed = now, !.msg = m, !.seen = m.body,
                               !.started = now]
<1>1. req[r] \in Try /\ now \in Nat /\ m.body \in Bodies
  BY AuthAssumption DEF TypeOK, Try, Bodies
<1>2. q \in Try
  BY <1>1 DEF Try
<1>3. req' = [req EXCEPT ![r] = q] /\ req'[r] = q
  BY DEF CallPublic, TypeOK
<1>4. /\ q.pc = "running" /\ q.msg = m /\ q.seen = m.body
      /\ q.done = req[r].done /\ q.doubt = req[r].doubt
  BY <1>1 DEF Try
<1> QED
  BY <1>2, <1>3, <1>4

LEMMA AwaitBodyTry ==
  ASSUME TypeOK, NEW r \in Requests, NEW m \in Messages, AwaitBody(r, m)
  PROVE  LET q == req'[r] IN
         /\ q \in Try /\ req' = [req EXCEPT ![r] = q]
         /\ q.pc = "body" /\ q.opened = req[r].opened /\ q.headed = now /\ q.msg = m
         /\ q.seen = req[r].seen /\ q.done = req[r].done /\ q.doubt = req[r].doubt
<1> DEFINE q == [req[r] EXCEPT !.pc = "body", !.headed = now, !.msg = m]
<1>1. req[r] \in Try /\ now \in Nat
  BY AuthAssumption DEF TypeOK
<1>2. q \in Try
  BY <1>1 DEF Try
<1>3. req' = [req EXCEPT ![r] = q] /\ req'[r] = q
  BY DEF AwaitBody, TypeOK
<1>4. /\ q.pc = "body" /\ q.opened = req[r].opened /\ q.headed = now /\ q.msg = m
      /\ q.seen = req[r].seen /\ q.done = req[r].done /\ q.doubt = req[r].doubt
  BY <1>1 DEF Try
<1> QED
  BY <1>2, <1>3, <1>4

LEMMA CallTry ==
  ASSUME TypeOK, NEW r \in Requests, Call(r)
  PROVE  LET q == req'[r] IN
         /\ q \in Try /\ req' = [req EXCEPT ![r] = q]
         /\ q.pc = "running" /\ q.started = now /\ q.msg = req[r].msg /\ q.seen = req[r].msg.body
         /\ q.done = req[r].done /\ q.doubt = req[r].doubt
<1> DEFINE q == [req[r] EXCEPT !.pc = "running", !.seen = Restored(req[r].msg.body),
                               !.started = now]
<1>1. /\ req[r] \in Try /\ now \in Nat
      /\ Restored(req[r].msg.body) \in Bodies
  BY MessageOfTry, AuthAssumption DEF TypeOK, Try, Call, Restored
<1>2. q \in Try
  BY <1>1 DEF Try
<1>3. req' = [req EXCEPT ![r] = q] /\ req'[r] = q
  BY DEF Call, TypeOK
<1>4. /\ q.pc = "running" /\ q.started = now /\ q.msg = req[r].msg /\ q.seen = req[r].msg.body
      /\ q.done = req[r].done /\ q.doubt = req[r].doubt
  BY <1>1 DEF Try, Restored
<1> QED
  BY <1>2, <1>3, <1>4
-----------------------------------------------------------------------------
(* Every step either moves the clock, ends a try, or takes one further. *)

Ends(r) ==
  \E pc \in {"writing", "answered", "closed"}, headed \in Nat, code \in Codes, done \in Nat, doubt \in Nat :
    /\ req' = [req EXCEPT ![r] = Bare(pc, headed, code, req[r].tries, done, doubt)]
    /\ UNCHANGED now
    /\ CountInv(r) => Balanced(pc, code, done, doubt)

LEMMA EndsBy ==
  ASSUME NEW r \in Requests, NEW pc \in {"writing", "answered", "closed"}, NEW headed \in Nat,
         NEW code \in Codes, NEW done \in Nat, NEW doubt \in Nat,
         req' = [req EXCEPT ![r] = Bare(pc, headed, code, req[r].tries, done, doubt)],
         UNCHANGED now, CountInv(r) => Balanced(pc, code, done, doubt)
  PROVE  Ends(r)
BY Zenon DEF Ends

\* An answer is decided without a handler, before anything is counted for it.
LEMMA DecidedEnds ==
  ASSUME TypeOK, NEW r \in Requests, NEW headed \in Nat, NEW code \in Statuses,
         req[r].pc \in {"open", "body"}, UNCHANGED now,
         req' = [req EXCEPT ![r] = Decided(r, headed, code)]
  PROVE  Ends(r)
<1>1. req[r].done \in Nat /\ req[r].doubt \in Nat
  BY DEF TypeOK, Try
<1>2. CountInv(r) => Balanced("writing", code, req[r].done, req[r].doubt)
  BY <1>1 DEF CountInv, Balanced, Success
<1> QED
  BY <1>1, <1>2 DEF Ends, Decided, Codes

LEMMA ReturnEnds ==
  ASSUME TypeOK, NEW r \in Requests, NEW code \in Codes, NEW effect \in BOOLEAN,
         Return(r, code, effect)
  PROVE  Ends(r)
<1>1. req[r].done \in Nat /\ req[r].doubt \in Nat /\ req[r].headed \in Nat
  BY DEF TypeOK, Try
<1>2. req[r].pc = "running" /\ UNCHANGED now
  BY DEF Return
<1>3. CountInv(r) => req[r].done <= req[r].doubt
  <2>1. ~Success(req[r].pc, req[r].status)
    BY <1>2 DEF Success
  <2> QED
    BY <1>1, <2>1 DEF CountInv, Balanced
<1>4. CASE effect
  <2>1. Success("writing", code)
    BY <1>4, Zenon DEF Success, Return
  <2>2. CountInv(r) => Balanced("writing", code, req[r].done + 1, req[r].doubt)
    BY <1>1, <1>3, <2>1 DEF Balanced
  <2>3. req' = [req EXCEPT ![r] =
          Bare("writing", req[r].headed, code, req[r].tries, req[r].done + 1, req[r].doubt)]
    BY <1>4, Zenon DEF Return
  <2>4. req[r].done + 1 \in Nat
    BY <1>1
  <2> QED
    BY <1>1, <1>2, <2>2, <2>3, <2>4, EndsBy
<1>5. CASE ~effect
  <2>1. CountInv(r) => Balanced("writing", code, req[r].done, req[r].doubt)
    BY <1>1, <1>3 DEF Balanced
  <2>2. req' = [req EXCEPT ![r] =
          Bare("writing", req[r].headed, code, req[r].tries, req[r].done, req[r].doubt)]
    BY <1>5, Zenon DEF Return
  <2> QED
    BY <1>1, <1>2, <2>1, <2>2, EndsBy
<1> QED
  BY <1>4, <1>5

\* An answer that arrives leaves no doubt unless it is a 500; none always does.
LEMMA AnswerEnds ==
  ASSUME TypeOK, NEW r \in Requests, Answer(r)
  PROVE  Ends(r)
<1> DEFINE doubt == IF req[r].status = 500 THEN req[r].doubt + 1 ELSE req[r].doubt
<1>1. /\ req[r].done \in Nat /\ req[r].doubt \in Nat /\ req[r].status \in Codes
      /\ req[r].pc = "writing"
  BY DEF TypeOK, Try, Answer, Codes
<1>2. doubt \in Nat
  BY <1>1
<1>3. CountInv(r) => Balanced("answered", req[r].status, req[r].done, doubt)
  <2>1. CASE req[r].status = 500
    BY <1>1, <2>1 DEF CountInv, Balanced, Success
  <2>2. CASE req[r].status # 500
    <3>1. Success("writing", req[r].status) => Success("answered", req[r].status)
      BY <2>2 DEF Success
    <3> QED
      BY <1>1, <2>2, <3>1 DEF CountInv, Balanced
  <2> QED
    BY <2>1, <2>2
<1>4. req' = [req EXCEPT ![r] = Bare("answered", 0, req[r].status, req[r].tries, req[r].done, doubt)]
      /\ UNCHANGED now
  BY DEF Answer, Told
<1> HIDE DEF doubt
<1> QED
  BY <1>1, <1>2, <1>3, <1>4 DEF Ends

LEMMA UntoldEnds ==
  ASSUME TypeOK, NEW r \in Requests, UNCHANGED now, req' = [req EXCEPT ![r] = Untold(r)]
  PROVE  Ends(r)
<1>1. req[r].done \in Nat /\ req[r].doubt \in Nat /\ req[r].doubt + 1 \in Nat
  BY DEF TypeOK, Try
<1>2. CountInv(r) => Balanced("closed", None, req[r].done, req[r].doubt + 1)
  BY <1>1 DEF CountInv, Balanced
<1> QED
  BY <1>1, <1>2 DEF Ends, Untold, Codes

LEMMA StepCases ==
  ASSUME TypeOK, [Next]_vars
  PROVE  \/ Tick
         \/ \E r \in Requests : Connect(r) \/ Call(r) \/ Ends(r)
         \/ \E r \in Requests, m \in Messages : CallPublic(r, m) \/ AwaitBody(r, m)
         \/ UNCHANGED vars
<1>1. ASSUME NEW r \in Requests, HeadersFail(r) \/ AnswerLost(r) PROVE Ends(r)
  BY <1>1, UntoldEnds DEF HeadersFail, AnswerLost
<1>2. ASSUME NEW r \in Requests, NEW m \in Messages, NotRouted(r, m) \/ RefuseHeaders(r, m) PROVE Ends(r)
  <2>1. Unrouted(m.path) \in Statuses /\ 401 \in Statuses
    BY DEF Unrouted, Statuses
  <2>2. now \in Nat
    BY AuthAssumption DEF TypeOK
  <2> QED
    BY <1>2, <2>1, <2>2, DecidedEnds DEF NotRouted, RefuseHeaders
<1>3. ASSUME NEW r \in Requests, RefuseSignature(r) \/ BodyFails(r) PROVE Ends(r)
  <2>1. req[r].headed \in Nat /\ {401, 500} \subseteq Statuses
    BY DEF TypeOK, Try, Statuses
  <2> QED
    BY <1>3, <2>1, DecidedEnds DEF RefuseSignature, BodyFails, Refuse, Returns
<1>4. ASSUME NEW r \in Requests, Serve(r) PROVE Ends(r)
  <2>1. {200, 400, 500} \subseteq Codes
    BY DEF Codes, Statuses
  <2>2. \/ \E code \in Codes, effect \in BOOLEAN : Return(r, code, effect)
        \/ Answer(r) \/ AnswerLost(r)
    BY <1>4, <2>1, Zenon DEF Serve
  <2> QED
    BY <1>1, <2>2, ReturnEnds, AnswerEnds
<1> QED
  BY <1>1, <1>2, <1>3, <1>4 DEF Next, Arrive, Quiet

LEMMA NextType == TypeOK /\ [Next]_vars => TypeOK'
<1> SUFFICES ASSUME TypeOK, [Next]_vars PROVE TypeOK'
  OBVIOUS
<1>1. CASE Tick
  BY <1>1, AuthAssumption DEF Tick, TypeOK
<1>2. ASSUME NEW r \in Requests, Connect(r) PROVE TypeOK'
  <2>1. now' \in 0..MaxTime /\ req[r].pc \in {"idle", "answered", "closed"}
    BY <1>2 DEF Connect, Retries, TypeOK
  <2>2. req[r].msg = None /\ req[r].seen = None
    BY <2>1 DEF TypeOK
  <2> QED
    BY <1>2, <2>1, <2>2, ConnectTry, OneTry
<1>3. ASSUME NEW r \in Requests, Call(r) PROVE TypeOK'
  <2>1. now' \in 0..MaxTime /\ req[r].pc = "body"
    BY <1>3 DEF Call, TypeOK
  <2>2. req[r].msg # None /\ req[r].msg.body # None
    BY <2>1, MessageOfTry, AuthAssumption
  <2> QED
    BY <1>3, <2>1, <2>2, CallTry, OneTry
<1>4. ASSUME NEW r \in Requests, Ends(r) PROVE TypeOK'
  <2>1. now' \in 0..MaxTime
    BY <1>4 DEF Ends, TypeOK
  <2>2. PICK pc \in {"writing", "answered", "closed"}, headed \in Nat, code \in Codes,
             done \in Nat, doubt \in Nat :
          req' = [req EXCEPT ![r] = Bare(pc, headed, code, req[r].tries, done, doubt)]
    BY <1>4 DEF Ends
  <2> DEFINE q == Bare(pc, headed, code, req[r].tries, done, doubt)
  <2>3. q \in Try /\ q.pc = pc /\ q.msg = None /\ q.seen = None
    BY BareIsTry
  <2> HIDE DEF q
  <2>4. q.pc \notin {"body", "running"}
    BY <2>3
  <2>5. req' = [req EXCEPT ![r] = q]
    BY <2>2 DEF q
  <2> QED
    BY <2>1, <2>3, <2>4, <2>5, OneTry
<1>5. ASSUME NEW r \in Requests, NEW m \in Messages, CallPublic(r, m) PROVE TypeOK'
  <2>1. now' \in 0..MaxTime /\ m # None /\ m.body \in Bodies
    BY <1>5, AuthAssumption DEF CallPublic, TypeOK, Bodies
  <2> QED
    BY <1>5, <2>1, AuthAssumption, CallPublicTry, OneTry
<1>6. ASSUME NEW r \in Requests, NEW m \in Messages, AwaitBody(r, m) PROVE TypeOK'
  <2>1. now' \in 0..MaxTime /\ m # None /\ req[r].pc = "open"
    BY <1>6, AuthAssumption DEF AwaitBody, TypeOK
  <2>2. req[r].seen = None
    BY <2>1 DEF TypeOK
  <2> QED
    BY <1>6, <2>1, <2>2, AwaitBodyTry, OneTry
<1>7. CASE UNCHANGED vars
  BY <1>7 DEF vars, TypeOK
<1> QED
  BY <1>1, <1>2, <1>3, <1>4, <1>5, <1>6, <1>7, StepCases

\* The clock and the tries always have their types.
THEOREM TypeCorrect == Spec => []TypeOK
BY InitType, NextType, PTL DEF Spec

-----------------------------------------------------------------------------

LEMMA InitInv == Init => AuthInv
BY DEF Init, Bare, AuthInv, TryInv, CallInv, CountInv, Balanced, Success, Signed

LEMMA OneTryInv ==
  ASSUME TypeOK, AuthInv, UNCHANGED now, NEW r \in Requests, NEW q,
         req' = [req EXCEPT ![r] = q], TryInv(r)', CallInv(r)', CountInv(r)'
  PROVE  AuthInv'
<1>1. \A s \in Requests \ {r} : req'[s] = req[s]
  BY DEF TypeOK
<1>2. ASSUME NEW s \in Requests \ {r} PROVE TryInv(s)' /\ CallInv(s)' /\ CountInv(s)'
  <2>1. TryInv(s) /\ CallInv(s) /\ CountInv(s) /\ req'[s] = req[s]
    BY <1>1 DEF AuthInv
  <2> QED
    BY <2>1 DEF TryInv, CallInv, CountInv, Signed, stringToSign
<1> QED
  BY <1>2 DEF AuthInv

LEMMA TickInv ==
  ASSUME TypeOK, AuthInv, Tick PROVE AuthInv'
<1> SUFFICES ASSUME NEW r \in Requests PROVE TryInv(r)' /\ CallInv(r)' /\ CountInv(r)'
  BY DEF AuthInv
<1>1. TryInv(r) /\ CallInv(r) /\ CountInv(r) /\ req' = req /\ now' = now + 1
  BY DEF AuthInv, Tick
<1>2. req[r].opened \in Nat /\ req[r].headed \in Nat /\ now \in Nat
  BY AuthAssumption DEF TypeOK, Try
<1>3. req[r].pc \in {"open", "body"} => now + 1 <= req[r].opened + ReadTimeout
  BY <1>2, AuthAssumption DEF Tick, Reading, ReadLimit
<1>4. TryInv(r)'
  BY <1>1, <1>2, <1>3 DEF TryInv, Found, Stamped
<1>5. CallInv(r)' /\ CountInv(r)'
  BY <1>1 DEF CallInv, CountInv, Signed, stringToSign
<1> QED
  BY <1>4, <1>5

LEMMA ConnectInv ==
  ASSUME TypeOK, AuthInv, NEW r \in Requests, Connect(r) PROVE AuthInv'
<1> DEFINE q == req'[r]
<1>0. UNCHANGED now /\ now \in Nat
  BY AuthAssumption DEF Connect, TypeOK
<1>1. /\ req' = [req EXCEPT ![r] = q] /\ q.pc = "open" /\ q.opened = now
      /\ q.done = req[r].done /\ q.doubt = req[r].doubt
  BY ConnectTry
<1>2. TryInv(r)'
  BY <1>0, <1>1, AuthAssumption DEF TryInv
<1>3. CallInv(r)'
  BY <1>1 DEF CallInv, Signed
<1>4. CountInv(r)'
  <2>1. CountInv(r) /\ ~Success(req[r].pc, req[r].status) /\ ~Success(q.pc, q.status)
    BY <1>1 DEF AuthInv, Connect, Retries, Success
  <2> QED
    BY <1>1, <2>1 DEF CountInv, Balanced
<1> QED
  BY <1>0, <1>1, <1>2, <1>3, <1>4, OneTryInv

LEMMA EndsInv ==
  ASSUME TypeOK, AuthInv, NEW r \in Requests, Ends(r) PROVE AuthInv'
<1>1. PICK pc \in {"writing", "answered", "closed"}, headed \in Nat, code \in Codes, done \in Nat, doubt \in Nat :
        /\ req' = [req EXCEPT ![r] = Bare(pc, headed, code, req[r].tries, done, doubt)]
        /\ UNCHANGED now
        /\ CountInv(r) => Balanced(pc, code, done, doubt)
  BY DEF Ends
<1> DEFINE q == Bare(pc, headed, code, req[r].tries, done, doubt)
<1>2. req'[r] = q /\ q.pc = pc /\ q.status = code /\ q.done = done /\ q.doubt = doubt
  BY <1>1, BareIsTry DEF TypeOK
<1> HIDE DEF q
<1>3. TryInv(r)'
  BY <1>2 DEF TryInv
<1>4. CallInv(r)'
  BY <1>2 DEF CallInv, Signed
<1>5. CountInv(r)'
  BY <1>1, <1>2 DEF AuthInv, CountInv
<1> QED
  BY <1>1, <1>3, <1>4, <1>5, OneTryInv DEF q

LEMMA CallPublicInv ==
  ASSUME TypeOK, AuthInv, NEW r \in Requests, NEW m \in Messages, CallPublic(r, m) PROVE AuthInv'
<1> DEFINE q == req'[r]
<1>1. /\ UNCHANGED now /\ req[r].pc = "open" /\ Found(m.method, m.path)
      /\ ~Route(m.method, m.path).signed
  BY DEF CallPublic
<1>2. /\ req' = [req EXCEPT ![r] = q] /\ q.pc = "running" /\ q.msg = m
      /\ q.done = req[r].done /\ q.doubt = req[r].doubt
  BY CallPublicTry
<1>3. TryInv(r)'
  BY <1>1, <1>2 DEF TryInv, Found
<1>4. CallInv(r)'
  BY <1>1, <1>2 DEF CallInv, Signed
<1>5. CountInv(r)'
  BY <1>1, <1>2 DEF AuthInv, CountInv, Balanced, Success
<1> QED
  BY <1>1, <1>2, <1>3, <1>4, <1>5, OneTryInv

LEMMA AwaitBodyInv ==
  ASSUME TypeOK, AuthInv, NEW r \in Requests, NEW m \in Messages, AwaitBody(r, m) PROVE AuthInv'
<1> DEFINE q == req'[r]
<1>1. UNCHANGED now /\ req[r].pc = "open" /\ Found(m.method, m.path) /\ Headers(m)
  BY DEF AwaitBody
<1>2. /\ req' = [req EXCEPT ![r] = q] /\ q.pc = "body" /\ q.opened = req[r].opened
      /\ q.headed = now /\ q.msg = m /\ q.done = req[r].done /\ q.doubt = req[r].doubt
  BY AwaitBodyTry
<1>3. /\ now \in 0..MaxTime
      /\ req[r].opened <= now /\ now <= req[r].opened + ReadTimeout /\ CountInv(r)
  BY <1>1 DEF TypeOK, AuthInv, TryInv
<1>4. Stamped(m) /\ now - m.stamp.value * Second \in -MaxDrift..MaxDrift
  BY <1>1, <1>3, WindowExact DEF Headers
<1>5. TryInv(r)'
  <2>1. now' <= q.opened + ReadTimeout /\ q.opened <= now' /\ q.headed <= now' /\ q.opened <= q.headed
    BY <1>1, <1>2, <1>3
  <2> QED
    BY <1>1, <1>2, <1>4, <2>1 DEF TryInv, Found, Stamped
<1>6. CallInv(r)'
  BY <1>2 DEF CallInv, Signed
<1>7. CountInv(r)'
  BY <1>1, <1>2, <1>3 DEF CountInv, Balanced, Success
<1> QED
  BY <1>1, <1>2, <1>5, <1>6, <1>7, OneTryInv

LEMMA CallStepInv ==
  ASSUME TypeOK, AuthInv, NEW r \in Requests, Call(r) PROVE AuthInv'
<1> DEFINE q == req'[r]
           m == req[r].msg
<1>1. UNCHANGED now /\ req[r].pc = "body" /\ Verified(m)
  BY DEF Call
<1>2. /\ req' = [req EXCEPT ![r] = q] /\ q.pc = "running" /\ q.started = now /\ q.msg = m
      /\ q.seen = m.body /\ q.done = req[r].done /\ q.doubt = req[r].doubt
  BY CallTry
<1>3. /\ req[r].opened \in Nat /\ req[r].headed \in Nat
      /\ now \in Nat /\ ReadTimeout \in Nat /\ MaxDrift \in Nat /\ Second \in Nat
  BY AuthAssumption, GoTimeAssumption DEF TypeOK, Try
<1>4. /\ now <= req[r].opened + ReadTimeout /\ req[r].opened <= req[r].headed /\ req[r].headed <= now
      /\ Found(m.method, m.path) /\ Stamped(m)
      /\ req[r].headed - m.stamp.value * Second \in -MaxDrift..MaxDrift
      /\ CountInv(r)
  BY <1>1 DEF AuthInv, TryInv
<1>5. now - m.stamp.value * Second \in -MaxDrift..(MaxDrift + ReadTimeout)
  <2> DEFINE v == m.stamp.value * Second
  <2>1. v \in Int
    BY <1>3, <1>4 DEF Stamped, Stamp
  <2> HIDE DEF v, m
  <2>2. req[r].headed - v \in -MaxDrift..MaxDrift
    BY <1>4 DEF v
  <2>3. now - v \in -MaxDrift..(MaxDrift + ReadTimeout)
    BY <1>3, <1>4, <2>1, <2>2
  <2> QED
    BY <2>3 DEF v
<1>6. TryInv(r)'
  BY <1>2, <1>4 DEF TryInv, Found
<1>7. CallInv(r)'
  <2>1. m.sig = [secret |-> Secret, text |-> stringToSign(m, m.body)]
    BY <1>1 DEF Verified
  <2>2. q.msg.sig = [secret |-> Secret, text |-> stringToSign(q.msg, q.seen)]
    BY <1>2, <2>1
  <2>3. q.started - q.msg.stamp.value * Second \in -MaxDrift..(MaxDrift + ReadTimeout)
    BY <1>2, <1>5
  <2> QED
    BY <2>2, <2>3 DEF CallInv, stringToSign
<1>8. CountInv(r)'
  BY <1>1, <1>2, <1>4 DEF CountInv, Balanced, Success
<1> QED
  BY <1>1, <1>2, <1>6, <1>7, <1>8, OneTryInv

LEMMA NextInv == TypeOK /\ AuthInv /\ [Next]_vars => AuthInv'
<1> SUFFICES ASSUME TypeOK, AuthInv, [Next]_vars PROVE AuthInv'
  OBVIOUS
<1>1. CASE UNCHANGED vars
  BY <1>1 DEF vars, AuthInv, TryInv, CallInv, CountInv, Signed, stringToSign
<1> QED
  BY <1>1, StepCases, TickInv, ConnectInv, CallStepInv, EndsInv, CallPublicInv, AwaitBodyInv

\* The inductive invariant: the limits that a pending read is within, what the
\* passed checks left true of a message, and what was done against the doubts.
THEOREM AuthInvariant == Spec => [](TypeOK /\ AuthInv)
<1>1. Init => TypeOK /\ AuthInv
  BY InitType, InitInv
<1>2. TypeOK /\ AuthInv /\ [Next]_vars => (TypeOK /\ AuthInv)'
  BY NextType, NextInv
<1> QED
  BY <1>1, <1>2, PTL DEF Spec

-----------------------------------------------------------------------------

\* For words of any size, any clock far from their ends, and any number in
\* X-Timestamp, the drift check says exactly whether it is in the window.
THEOREM WindowIsExactHolds == Spec => []WindowIsExact
<1>1. TypeOK => WindowIsExact
  BY WindowExact DEF TypeOK, WindowIsExact
<1> QED
  BY <1>1, TypeCorrect, PTL

\* Handlers of operators run on what was signed with the secret.
THEOREM HandledAsSignedHolds == Spec => []HandledAsSigned
<1>1. AuthInv => HandledAsSigned
  BY DEF AuthInv, CallInv, HandledAsSigned
<1> QED
  BY <1>1, AuthInvariant, PTL

\* No handler of operators starts later than MaxDrift and ReadTimeout after the
\* time of the stamp, whatever the client sends and when.
THEOREM HandledWhileFreshHolds == Spec => []HandledWhileFresh
<1>1. AuthInv => HandledWhileFresh
  BY DEF AuthInv, CallInv, HandledWhileFresh
<1> QED
  BY <1>1, AuthInvariant, PTL

\* Requests are done twice only after a try that left their client in doubt, for
\* any number of tries.
THEOREM DoubledOnlyInDoubtHolds == Spec => []DoubledOnlyInDoubt
<1>1. TypeOK /\ AuthInv => DoubledOnlyInDoubt
  <2> SUFFICES ASSUME TypeOK, AuthInv, NEW r \in Requests PROVE req[r].done <= req[r].doubt + 1
    BY DEF DoubledOnlyInDoubt
  <2>1. CountInv(r) /\ req[r].done \in Nat /\ req[r].doubt \in Nat
    BY DEF AuthInv, TypeOK, Try
  <2> QED
    BY <2>1 DEF CountInv, Balanced
<1> QED
  BY <1>1, AuthInvariant, PTL

\* Each ServeHTTP serves every method and path that the router gives it.
THEOREM RoutedIsServedHolds == Spec => []RoutedIsServed
<1>1. ASSUME NEW row \in Table, NEW m \in row.methods
      PROVE  m \in Serves(row.handler, row.path[2])
  <2>1. CASE row \in Public
    <3>1. CASE row = Row(<<"auth", FALSE>>, {"POST"}, "auth", FALSE)
      BY <3>1 DEF Row, Serves, AuthServes
    <3>2. CASE row = Row(<<"webhook/ready", FALSE>>, {"POST"}, "webhook", FALSE)
      BY <3>2 DEF Row, Serves, WebhookServes
    <3>3. CASE row = Row(<<"webhook/not-ready", FALSE>>, {"POST"}, "webhook", FALSE)
      BY <3>3 DEF Row, Serves, WebhookServes
    <3>4. CASE row = Row(<<"health", FALSE>>, {"GET"}, "health", FALSE)
      BY <3>4 DEF Row, Serves, HealthServes
    <3> QED
      BY <2>1, <3>1, <3>2, <3>3, <3>4 DEF Public
  <2>2. CASE row \in Protected
    <3>1. CASE row = Row(<<"streams", FALSE>>, {"GET"}, "stream", TRUE)
      BY <3>1 DEF Row, Serves, StreamServes
    <3>2. CASE row = Row(<<"streams", TRUE>>, {"GET"}, "stream", TRUE)
      BY <3>2 DEF Row, Serves, StreamServes
    <3>3. CASE row = Row(<<"stream-keys", FALSE>>, {"GET", "POST"}, "streamKey", TRUE)
      BY <3>3 DEF Row, Serves, StreamKeyServes
    <3>4. CASE row = Row(<<"stream-keys", TRUE>>, {"GET", "DELETE"}, "streamKey", TRUE)
      BY <3>4 DEF Row, Serves, StreamKeyServes
    <3>5. CASE row = Row(<<"broadcasters", FALSE>>, {"GET", "POST"}, "broadcaster", TRUE)
      BY <3>5 DEF Row, Serves, BroadcasterServes
    <3>6. CASE row = Row(<<"broadcasters", TRUE>>, {"GET", "PATCH", "DELETE"}, "broadcaster", TRUE)
      BY <3>6 DEF Row, Serves, BroadcasterServes
    <3> QED
      BY <2>2, <3>1, <3>2, <3>3, <3>4, <3>5, <3>6 DEF Protected
  <2> QED
    BY <2>1, <2>2 DEF Table
<1>2. ASSUME NEW method, NEW path, Found(method, path)
      PROVE  /\ Route(method, path) \in Table /\ Route(method, path).path = path
             /\ method \in Route(method, path).methods
  BY <1>2 DEF Found, Route
<1>3. AuthInv => RoutedIsServed
  BY <1>1, <1>2 DEF AuthInv, TryInv, RoutedIsServed
<1> QED
  BY <1>3, AuthInvariant, PTL
=============================================================================
