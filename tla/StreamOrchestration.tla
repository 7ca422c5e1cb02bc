------------------------- MODULE StreamOrchestration -------------------------
(***************************************************************************)
(* Publishing, end to end: MediaMTX asks the API to authenticate a         *)
(* publisher (POST /auth), and runs a hook when the publisher's path       *)
(* becomes ready or stops being ready (POST /webhook/ready, /not-ready);   *)
(* an operator creates broadcasters and keys, deletes broadcasters and     *)
(* revokes keys.  The API keeps its state in the database, and every       *)
(* request is handled by a goroutine of its own, so the statements of      *)
(* different requests interleave.                                          *)
(*                                                                         *)
(* An action is one statement of one handler together with the local       *)
(* computation that follows it, or one step of MediaMTX or of the clock.   *)
(***************************************************************************)
EXTENDS Database, FiniteSets

CONSTANTS
  Operators,      \* requests to revoke a key, one each
  Logins,         \* what a publisher may send: records [password, path]
  Protocol,       \* the protocol of each connection
  HooksLost,      \* may a hook's HTTP call fail?  (curl without a retry)
  HooksReordered, \* may the hooks of one path be handled out of order?
  KicksLost,      \* may a call of MediaMTX's own API fail?
  LongLists,      \* may its lists have more connections, readers' among them,
                  \* than the first page has (100)?
  Faults          \* may a handler be cut off by an error, a cancelled
                  \* request or a crash of the server?

Protocols == {"rtmp", "rtsp", "webrtc"}

ASSUME OrchestrationAssumption ==
  /\ None \notin Operators
  /\ Logins \subseteq [password : Keys \cup {None}, path : Paths]
  /\ Protocol \in [Conns -> Protocols]
  /\ HooksLost \in BOOLEAN /\ HooksReordered \in BOOLEAN
  /\ KicksLost \in BOOLEAN /\ LongLists \in BOOLEAN /\ Faults \in BOOLEAN

VARIABLES
  conn,      \* MediaMTX's view of each connection
  auth,      \* AuthService.Authenticate for each connection
  ready,     \* the ready hook of each connection and its handler
  notReady,  \* the not-ready hook of each connection and its handler
  revoke     \* StreamKeyService.Revoke for each operator request

vars == <<broadcasters, keys, streams, keyLock, conn, auth, ready, notReady, revoke>>

-----------------------------------------------------------------------------

\* after: the connections that published on the same path before this one.
ConnRecord == [phase : {"idle", "authenticating", "accepted", "publishing", "closed"},
               path : Paths \cup {None},
               after : SUBSET Conns]

\* expire: the transaction holds an uncommitted UPDATE ... status = 'expired'.
AuthRecord == [pc : {"none", "begin", "locked", "commit", "done"},
               key : Paths \cup {None},
               verdict : {"none", "allow", "deny", "error"},
               expire : BOOLEAN]

ReadyRecord == [pc : {"none", "sent", "found", "created", "skipped", "lost"},
                key : Keys \cup {None}]

NotReadyState == {"none", "sent", "done", "lost"}

RevokeRecord == [pc : {"idle", "find", "list", "kick", "end", "update", "done"},
                 key : Keys \cup {None},
                 stream : Conns \cup {None},
                 api : {"rtmp", "rtsp"},       \* which MediaMTX list KickPath works on
                 targets : SUBSET Conns,       \* listed connections still to be kicked
                 clean : BOOLEAN,              \* EndStream did not fail
                 result : {"none", "revoked", "refused", "error"}]

TypeOK ==
  /\ DatabaseTypeOK
  /\ conn \in [Conns -> ConnRecord]
  /\ auth \in [Conns -> AuthRecord]
  /\ ready \in [Conns -> ReadyRecord]
  /\ notReady \in [Conns -> NotReadyState]
  /\ revoke \in [Operators -> RevokeRecord]

NoConn == [phase |-> "idle", path |-> None, after |-> {}]
NoAuth == [pc |-> "none", key |-> None, verdict |-> "none", expire |-> FALSE]
NoReady == [pc |-> "none", key |-> None]
NoRevoke == [pc |-> "idle", key |-> None, stream |-> None, api |-> "rtmp",
             targets |-> {}, clean |-> TRUE, result |-> "none"]

Init ==
  /\ DatabaseInit
  /\ conn = [c \in Conns |-> NoConn]
  /\ auth = [c \in Conns |-> NoAuth]
  /\ ready = [c \in Conns |-> NoReady]
  /\ notReady = [c \in Conns |-> "none"]
  /\ revoke = [o \in Operators |-> NoRevoke]

-----------------------------------------------------------------------------
(* The operator's other requests, and the clock. *)

CreateBroadcaster(b) ==
  InsertBroadcaster(b) /\ UNCHANGED <<conn, auth, ready, notReady, revoke>>

RemoveBroadcaster(b) ==
  DeleteBroadcaster(b) /\ UNCHANGED <<conn, auth, ready, notReady, revoke>>

\* expires_at is taken as it comes: nothing checks that it is in the future.
CreateKey(k, b, e) ==
  InsertKey(k, b, e) /\ UNCHANGED <<conn, auth, ready, notReady, revoke>>

ExpiresAtPasses(k) ==
  /\ KeyRow(k)
  /\ keys[k].expiry = "ahead"
  /\ keys' = [keys EXCEPT ![k].expiry = "past"]
  /\ UNCHANGED <<broadcasters, streams, keyLock, conn, auth, ready, notReady, revoke>>

-----------------------------------------------------------------------------
(* AuthService.Authenticate, in the request of connection c. *)

\* The password, or the path when there is no password.  (A leading slash of
\* the path is dropped first; MediaMTX sends none.)
Credential(login) == IF login.password # None THEN login.password ELSE login.path

\* MediaMTX asks for the permission to publish.
Connect(c, login) ==
  /\ conn[c].phase = "idle"
  /\ conn' = [conn EXCEPT ![c] = [@ EXCEPT !.phase = "authenticating", !.path = login.path]]
  /\ auth' = [auth EXCEPT ![c] = [@ EXCEPT !.pc = "begin", !.key = Credential(login)]]
  /\ UNCHANGED <<dbVars, ready, notReady, revoke>>

AuthLock(c) ==
  /\ auth[c].pc = "begin"
  /\ auth[c].key \in Keys
  /\ SelectKeyForUpdate(auth[c].key, c)
  /\ auth' = [auth EXCEPT ![c].pc = "locked"]
  /\ UNCHANGED <<conn, ready, notReady, revoke>>

\* No row has this key_value: the transaction commits having done nothing.
AuthNotFound(c) ==
  /\ auth[c].pc = "begin"
  /\ auth[c].key \in Keys => ~KeyRow(auth[c].key)
  /\ auth' = [auth EXCEPT ![c] = [@ EXCEPT !.pc = "done", !.verdict = "deny"]]
  /\ UNCHANGED <<dbVars, conn, ready, notReady, revoke>>

Decide(c, verdict, expire) ==
  /\ auth' = [auth EXCEPT ![c] =
               [@ EXCEPT !.pc = "commit", !.verdict = verdict, !.expire = expire]]
  /\ UNCHANGED <<dbVars, conn, ready, notReady, revoke>>

AuthRefuseStatus(c) ==
  /\ auth[c].pc = "locked"
  /\ keys[auth[c].key].status # "active"
  /\ Decide(c, "deny", FALSE)

AuthExpire(c) ==
  /\ auth[c].pc = "locked"
  /\ keys[auth[c].key].status = "active"
  /\ keys[auth[c].key].expiry = "past"
  /\ Decide(c, "deny", TRUE)

AuthRefuseInUse(c) ==
  /\ auth[c].pc = "locked"
  /\ keys[auth[c].key].status = "active"
  /\ keys[auth[c].key].expiry # "past"
  /\ ActiveStreamsOf(auth[c].key) # {}
  /\ Decide(c, "deny", FALSE)

NotInUse(k) == ActiveStreamsOf(k) = {}
AuthAllow(c) ==
  /\ auth[c].pc = "locked"
  /\ keys[auth[c].key].status = "active"
  /\ keys[auth[c].key].expiry # "past"
  /\ NotInUse(auth[c].key)
  /\ Decide(c, "allow", FALSE)

\* COMMIT: the uncommitted UPDATEs become visible and the lock goes.
\* The variants write a status that the CHECK does not know, do not stamp
\* last_used_at, and keep the lock.
AuthWritesInactive(c) ==
  LET key == keys[auth[c].key]
  IN keys' = [keys EXCEPT ![auth[c].key] =
       [key EXCEPT !.status = IF auth[c].expire THEN "inactive" ELSE key.status,
                   !.used = IF auth[c].verdict = "allow" THEN TRUE ELSE key.used]]
AuthWritesNoStamp(c) ==
  keys' = [keys EXCEPT ![auth[c].key].status = IF auth[c].expire THEN "expired" ELSE @]
AuthWrites(c) ==
  LET key == keys[auth[c].key]
  IN keys' = [keys EXCEPT ![auth[c].key] =
       [key EXCEPT !.status = IF auth[c].expire THEN "expired" ELSE key.status,
                   !.used = IF auth[c].verdict = "allow" THEN TRUE ELSE key.used]]

KeepLock(c) == UNCHANGED keyLock
Release(c) == keyLock' = [k \in Keys |-> IF keyLock[k] = c THEN None ELSE keyLock[k]]

AuthCommit(c) ==
  /\ auth[c].pc = "commit"
  /\ AuthWrites(c)
  /\ Release(c)
  /\ auth' = [auth EXCEPT ![c] = [@ EXCEPT !.pc = "done", !.expire = FALSE]]
  /\ UNCHANGED <<broadcasters, streams, conn, ready, notReady, revoke>>

\* The COMMIT took effect but its answer was lost: the handler answers 500.
AuthCommitUnacknowledged(c) ==
  /\ Faults
  /\ auth[c].pc = "commit"
  /\ AuthWrites(c)
  /\ Release(c)
  /\ auth' = [auth EXCEPT ![c] = [@ EXCEPT !.pc = "done", !.verdict = "error", !.expire = FALSE]]
  /\ UNCHANGED <<broadcasters, streams, conn, ready, notReady, revoke>>

\* A statement failed, the request was cancelled or the server went down:
\* the transaction is rolled back.
AuthAbort(c) ==
  /\ Faults
  /\ auth[c].pc \in {"begin", "locked", "commit"}
  /\ Release(c)
  /\ auth' = [auth EXCEPT ![c] = [@ EXCEPT !.pc = "done", !.verdict = "error", !.expire = FALSE]]
  /\ UNCHANGED <<broadcasters, keys, streams, conn, ready, notReady, revoke>>

-----------------------------------------------------------------------------
(* MediaMTX. *)

SetPhase(c, phase) == [conn EXCEPT ![c].phase = phase]

\* The answer of POST /auth reaches MediaMTX: 200 lets the publisher in.
AuthAnswered(c) ==
  /\ conn[c].phase = "authenticating"
  /\ auth[c].pc = "done"
  /\ conn' = SetPhase(c, IF auth[c].verdict = "allow" THEN "accepted" ELSE "closed")
  /\ UNCHANGED <<dbVars, auth, ready, notReady, revoke>>

\* The publisher leaves, or MediaMTX stops waiting for the answer.
GiveUp(c) ==
  /\ conn[c].phase \in {"authenticating", "accepted"}
  /\ conn' = SetPhase(c, "closed")
  /\ UNCHANGED <<dbVars, auth, ready, notReady, revoke>>

PublishersOn(p) == {c \in Conns : conn[c].phase = "publishing" /\ conn[c].path = p}

\* The path becomes ready.  A publisher that was already there is closed, and
\* its not-ready hook is run first.
Publish(c) ==
  LET replaced == PublishersOn(conn[c].path) IN
  /\ conn[c].phase = "accepted"
  /\ conn' = [d \in Conns |->
       IF d = c THEN [conn[c] EXCEPT !.phase = "publishing",
                        !.after = {e \in Conns : /\ conn[e].path = conn[c].path
                                                 /\ ready[e].pc # "none"}]
       ELSE IF d \in replaced THEN [conn[d] EXCEPT !.phase = "closed"]
       ELSE conn[d]]
  /\ ready' = [ready EXCEPT ![c].pc = "sent"]
  /\ notReady' = [d \in Conns |-> IF d \in replaced THEN "sent" ELSE notReady[d]]
  /\ UNCHANGED <<dbVars, auth, revoke>>

Disconnect(c) ==
  /\ conn[c].phase = "publishing"
  /\ conn' = SetPhase(c, "closed")
  /\ notReady' = [notReady EXCEPT ![c] = "sent"]
  /\ UNCHANGED <<dbVars, auth, ready, revoke>>

-----------------------------------------------------------------------------
(* WebhookHandler, in the requests of the hooks of connection c. *)

ReadyHandled(c) == ready[c].pc \in {"created", "skipped", "lost"}
NotReadyHandled(c) == notReady[c] \in {"done", "lost"}

\* With HooksReordered FALSE a hook waits for the path's earlier hooks.
HooksBefore(c) ==
  HooksReordered \/ \A d \in conn[c].after : ReadyHandled(d) /\ NotReadyHandled(d)

\* The hook knows its path, and not the password that let its publisher in.
\* The variant knows the key that the publisher was admitted with.
AdmittedKey(c) == auth[c].key
HookKey(c) == conn[c].path

ReadyLookup(c) ==
  /\ ready[c].pc = "sent"
  /\ HooksBefore(c)
  /\ HookKey(c) \in Keys
  /\ KeyRow(HookKey(c))
  /\ ready' = [ready EXCEPT ![c] = [@ EXCEPT !.pc = "found", !.key = HookKey(c)]]
  /\ UNCHANGED <<dbVars, conn, auth, notReady, revoke>>

\* No key has the path as its value: 204, and no stream record.
ReadyUnknownPath(c) ==
  /\ ready[c].pc = "sent"
  /\ HooksBefore(c)
  /\ HookKey(c) \in Keys => ~KeyRow(HookKey(c))
  /\ ready' = [ready EXCEPT ![c].pc = "skipped"]
  /\ UNCHANGED <<dbVars, conn, auth, notReady, revoke>>

ReadyInsert(c) ==
  /\ ready[c].pc = "found"
  /\ InsertStream(c, ready[c].key, conn[c].path)
  /\ ready' = [ready EXCEPT ![c].pc = "created"]
  /\ UNCHANGED <<conn, auth, notReady, revoke>>

\* A constraint refuses the INSERT: the handler logs it and answers 204.
ReadyInsertRefused(c) ==
  /\ ready[c].pc = "found"
  /\ InsertStreamRefused(ready[c].key)
  /\ ready' = [ready EXCEPT ![c].pc = "skipped"]
  /\ UNCHANGED <<conn, auth, notReady, revoke>>

\* The call never reaches the handler, or one of its statements fails, which
\* it answers with 204 too: nobody calls again.
ReadyLost(c) ==
  /\ \/ HooksLost /\ ready[c].pc = "sent"
     \/ Faults /\ ready[c].pc \in {"sent", "found"}
  /\ ready' = [ready EXCEPT ![c].pc = "lost"]
  /\ UNCHANGED <<dbVars, conn, auth, notReady, revoke>>

\* The variant forgets a hook whose connection is gone.
NotReadyOnlyPublishing(c) ==
  /\ notReady[c] = "sent"
  /\ conn[c].phase = "publishing"
  /\ EndStreamByPath(conn[c].path)
  /\ notReady' = [notReady EXCEPT ![c] = "done"]
  /\ UNCHANGED <<conn, auth, ready, revoke>>
NotReadyEnd(c) ==
  /\ notReady[c] = "sent"
  /\ HooksBefore(c)
  /\ HooksReordered \/ ReadyHandled(c)
  /\ EndStreamByPath(conn[c].path)
  /\ notReady' = [notReady EXCEPT ![c] = "done"]
  /\ UNCHANGED <<conn, auth, ready, revoke>>

NotReadyLost(c) ==
  /\ HooksLost \/ Faults
  /\ notReady[c] = "sent"
  /\ notReady' = [notReady EXCEPT ![c] = "lost"]
  /\ UNCHANGED <<dbVars, conn, auth, ready, revoke>>

-----------------------------------------------------------------------------
(* StreamKeyService.Revoke, in the request of operator o. *)

\* GetByID, and the check of the status it read.
RevokeStart(o, k) ==
  /\ revoke[o].pc = "idle"
  /\ keys[k].status = "active"
  /\ revoke' = [revoke EXCEPT ![o] = [@ EXCEPT !.pc = "find", !.key = k]]
  /\ UNCHANGED <<dbVars, conn, auth, ready, notReady>>

\* 404 for a deleted key, ErrInvalidStatus for one that is not active.
RevokeRefused(o, k) ==
  /\ revoke[o].pc = "idle"
  /\ keys[k].status \in {"revoked", "expired", "deleted"}
  /\ revoke' = [revoke EXCEPT ![o] = [@ EXCEPT !.pc = "done", !.key = k, !.result = "refused"]]
  /\ UNCHANGED <<dbVars, conn, auth, ready, notReady>>

RevokeFindStream(o, s) ==
  /\ revoke[o].pc = "find"
  /\ s \in ActiveStreamsOf(revoke[o].key)
  /\ revoke' = [revoke EXCEPT ![o] = [@ EXCEPT !.pc = "list", !.stream = s]]
  /\ UNCHANGED <<dbVars, conn, auth, ready, notReady>>

RevokeNoStream(o) ==
  /\ revoke[o].pc = "find"
  /\ ActiveStreamsOf(revoke[o].key) = {}
  /\ revoke' = [revoke EXCEPT ![o].pc = "update"]
  /\ UNCHANGED <<dbVars, conn, auth, ready, notReady>>

\* KickPath lists the RTMP connections and kicks those of the path, then does
\* the same with the RTSP sessions.  r has the list it is working on in targets.
\* The variants never leave the RTSP list, and never come to it.
AfterKickAgain(r) ==
  IF r.targets # {} THEN [r EXCEPT !.pc = "kick"]
  ELSE [r EXCEPT !.pc = "list", !.api = "rtsp"]
AfterKickRtmp(r) ==
  IF r.targets # {} THEN [r EXCEPT !.pc = "kick"] ELSE [r EXCEPT !.pc = "end"]
AfterKick(r) ==
  IF r.targets # {} THEN [r EXCEPT !.pc = "kick"]
  ELSE IF r.api = "rtmp" THEN [r EXCEPT !.pc = "list", !.api = "rtsp"]
  ELSE [r EXCEPT !.pc = "end"]

\* No page is asked for, so MediaMTX answers with the first one.
KickList(o) ==
  LET path == streams[revoke[o].stream].path
      onPath == {c \in PublishersOn(path) : Protocol[c] = revoke[o].api}
  IN /\ revoke[o].pc = "list"
     /\ \E listed \in SUBSET onPath :
          /\ ~LongLists => listed = onPath
          /\ revoke' = [revoke EXCEPT ![o] = AfterKick([@ EXCEPT !.targets = listed])]
     /\ UNCHANGED <<dbVars, conn, auth, ready, notReady>>

KickListFails(o) ==
  /\ KicksLost
  /\ revoke[o].pc = "list"
  /\ revoke' = [revoke EXCEPT ![o] = AfterKick(@)]
  /\ UNCHANGED <<dbVars, conn, auth, ready, notReady>>

\* A kicked publisher is closed like one that leaves; one that has left
\* meanwhile is not found, which is no error.
Kick(o, c) ==
  /\ revoke[o].pc = "kick"
  /\ c \in revoke[o].targets
  /\ revoke' = [revoke EXCEPT ![o] = AfterKick([@ EXCEPT !.targets = revoke[o].targets \ {c}])]
  /\ IF conn[c].phase = "publishing"
       THEN /\ conn' = SetPhase(c, "closed")
            /\ notReady' = [notReady EXCEPT ![c] = "sent"]
       ELSE UNCHANGED <<conn, notReady>>
  /\ UNCHANGED <<dbVars, auth, ready>>

KickFails(o, c) ==
  /\ KicksLost
  /\ revoke[o].pc = "kick"
  /\ c \in revoke[o].targets
  /\ revoke' = [revoke EXCEPT ![o] = AfterKick([@ EXCEPT !.targets = revoke[o].targets \ {c}])]
  /\ UNCHANGED <<dbVars, conn, auth, ready, notReady>>

\* The variant trusts the kick to end the record.
RevokeSkipStream(o) ==
  /\ revoke[o].pc = "end"
  /\ revoke' = [revoke EXCEPT ![o].pc = "update"]
  /\ UNCHANGED <<dbVars, conn, auth, ready, notReady>>
RevokeEndStream(o) ==
  /\ revoke[o].pc = "end"
  /\ EndStream(revoke[o].stream)
  /\ revoke' = [revoke EXCEPT ![o].pc = "update"]
  /\ UNCHANGED <<conn, auth, ready, notReady>>

\* EndStream fails: logged, and the revocation goes on.
RevokeEndStreamFails(o) ==
  /\ Faults
  /\ revoke[o].pc = "end"
  /\ revoke' = [revoke EXCEPT ![o] = [@ EXCEPT !.pc = "update", !.clean = FALSE]]
  /\ UNCHANGED <<dbVars, conn, auth, ready, notReady>>

RevokeUpdate(o) ==
  /\ revoke[o].pc = "update"
  /\ UpdateKeyStatus(revoke[o].key, "revoked")
  /\ revoke' = [revoke EXCEPT ![o] = [@ EXCEPT !.pc = "done", !.result = "revoked"]]
  /\ UNCHANGED <<conn, auth, ready, notReady>>

RevokeKeyGone(o) ==
  /\ revoke[o].pc = "update"
  /\ ~KeyRow(revoke[o].key)
  /\ revoke' = [revoke EXCEPT ![o] = [@ EXCEPT !.pc = "done", !.result = "refused"]]
  /\ UNCHANGED <<dbVars, conn, auth, ready, notReady>>

\* A statement fails with the request, or the request or the server is gone.
RevokeAbort(o) ==
  /\ Faults
  /\ revoke[o].pc \notin {"idle", "done"}
  /\ revoke' = [revoke EXCEPT ![o] = [@ EXCEPT !.pc = "done", !.result = "error"]]
  /\ UNCHANGED <<dbVars, conn, auth, ready, notReady>>

-----------------------------------------------------------------------------

AuthStep(c) ==
  \/ AuthLock(c)
  \/ AuthNotFound(c)
  \/ AuthRefuseStatus(c)
  \/ AuthExpire(c)
  \/ AuthRefuseInUse(c)
  \/ AuthAllow(c)
  \/ AuthCommit(c)
  \/ AuthCommitUnacknowledged(c)
  \/ AuthAbort(c)

ReadyStep(c) ==
  \/ ReadyLookup(c)
  \/ ReadyUnknownPath(c)
  \/ ReadyInsert(c)
  \/ ReadyInsertRefused(c)
  \/ ReadyLost(c)

NotReadyStep(c) ==
  \/ NotReadyEnd(c)
  \/ NotReadyLost(c)

\* The steps of a Revoke that was started.
RevokeStep(o) ==
  \/ \E s \in Conns : RevokeFindStream(o, s)
  \/ RevokeNoStream(o)
  \/ KickList(o)
  \/ KickListFails(o)
  \/ \E c \in Conns : Kick(o, c)
  \/ \E c \in Conns : KickFails(o, c)
  \/ RevokeEndStream(o)
  \/ RevokeEndStreamFails(o)
  \/ RevokeUpdate(o)
  \/ RevokeKeyGone(o)
  \/ RevokeAbort(o)

\* What nobody owes us: publishers, operators and the clock.
Environment ==
  \/ \E b \in Broadcasters : CreateBroadcaster(b) \/ RemoveBroadcaster(b)
  \/ \E k \in Keys, b \in Broadcasters, e \in Expiry : CreateKey(k, b, e)
  \/ \E k \in Keys : ExpiresAtPasses(k)
  \/ \E c \in Conns, login \in Logins : Connect(c, login)
  \/ \E c \in Conns : GiveUp(c)
  \/ \E c \in Conns : Publish(c)
  \/ \E c \in Conns : Disconnect(c)
  \/ \E o \in Operators, k \in Keys : RevokeStart(o, k)
  \/ \E o \in Operators, k \in Keys : RevokeRefused(o, k)

\* Every connection has come and gone and no request is being handled.
Quiescent ==
  /\ \A c \in Conns : /\ conn[c].phase = "closed" /\ auth[c].pc = "done"
                      /\ ready[c].pc = "none" \/ ReadyHandled(c)
                      /\ notReady[c] = "none" \/ NotReadyHandled(c)
  /\ \A o \in Operators : revoke[o].pc \in {"idle", "done"}

Finished == Quiescent /\ UNCHANGED vars

Next ==
  \/ Environment
  \/ \E c \in Conns : AuthStep(c)
  \/ \E c \in Conns : AuthAnswered(c)
  \/ \E c \in Conns : ReadyStep(c)
  \/ \E c \in Conns : NotReadyStep(c)
  \/ \E o \in Operators : RevokeStep(o)
  \/ Finished

Spec == Init /\ [][Next]_vars

\* net/http runs every request in a goroutine of its own and PostgreSQL grants
\* a row lock once its holder is done: a request that can take a step takes one.
Fairness ==
  /\ \A c \in Conns : /\ WF_vars(AuthStep(c))
                      /\ WF_vars(AuthAnswered(c))
                      /\ WF_vars(ReadyStep(c))
                      /\ WF_vars(NotReadyStep(c))
  /\ \A o \in Operators : WF_vars(RevokeStep(o))

FairSpec == Spec /\ Fairness

=============================================================================
