----------------------------- MODULE RecordProofs -----------------------------
(***************************************************************************)
(* Records and publishers.  Whose stream a row is, whom a revocation puts  *)
(* off the air, and, when hooks arrive and in order, that the rows follow  *)
(* the publishers: the three relate the tables to MediaMTX's connections,  *)
(* of which the API hears only by hooks and lists.                         *)
(***************************************************************************)
EXTENDS RevokeProofs

\* The row that is named after a connection has that connection's path.
PathInv == \A c \in Conns : streams[c].status # "unused" => streams[c].path = conn[c].path

-----------------------------------------------------------------------------
(* What a step does to connections, hooks and rows. *)

Hooks == <<conn, ready, notReady>>

\* The steps that move a connection or one of its hooks.
LEMMA HookCases ==
  ASSUME [Next]_vars
  PROVE  \/ UNCHANGED Hooks
         \/ \E c \in Conns : \/ \E login \in Logins : Connect(c, login)
                             \/ AuthAnswered(c) \/ GiveUp(c) \/ Publish(c) \/ Disconnect(c)
                             \/ ReadyStep(c) \/ NotReadyStep(c)
                             \/ \E o \in Operators : Kick(o, c)
<1> USE DEF Hooks
<1>1. CASE Environment
  BY <1>1 DEF Environment, CreateBroadcaster, RemoveBroadcaster, CreateKey, ExpiresAtPasses,
    RevokeStart, RevokeRefused
<1>2. CASE \E c \in Conns : AuthStep(c)
  BY <1>2 DEF AuthStep, AuthLock, AuthNotFound, AuthRefuseStatus, AuthExpire, AuthRefuseInUse,
    AuthAllow, Decide, AuthCommit, AuthCommitUnacknowledged, AuthAbort
<1>3. CASE \E o \in Operators : RevokeStep(o)
  BY <1>3 DEF RevokeStep, RevokeFindStream, RevokeNoStream, KickList, KickListFails, KickFails,
    RevokeEndStream, RevokeEndStreamFails, RevokeUpdate, RevokeKeyGone, RevokeAbort
<1>4. CASE UNCHANGED vars
  BY <1>4 DEF vars
<1> QED
  BY <1>1, <1>2, <1>3, <1>4 DEF Next, Finished

\* The statements that change a stream's row.
LEMMA StreamCases ==
  ASSUME TypeOK, SafetyInv, [Next]_vars
  PROVE  \/ UNCHANGED streams
         \/ \E b \in Broadcasters : DeleteBroadcaster(b)
         \/ \E c \in Conns : ReadyInsert(c) \/ NotReadyEnd(c)
         \/ \E o \in Operators : RevokeEndStream(o)
<1> USE DEF dbVars
<1>1. CASE Environment
  BY <1>1 DEF Environment, CreateBroadcaster, InsertBroadcaster, RemoveBroadcaster, CreateKey,
    InsertKey, ExpiresAtPasses, Connect, GiveUp, Publish, Disconnect, RevokeStart, RevokeRefused
<1>2. CASE \E c \in Conns : AuthStep(c)
  BY <1>2, AuthTables DEF SafetyInv
<1>3. CASE \E c \in Conns : AuthAnswered(c) \/ ReadyStep(c) \/ NotReadyStep(c)
  BY <1>3 DEF AuthAnswered, ReadyStep, ReadyLookup, ReadyUnknownPath, ReadyInsertRefused,
    InsertStreamRefused, ReadyLost, NotReadyStep, NotReadyLost
<1>4. CASE \E o \in Operators : RevokeStep(o)
  BY <1>4 DEF RevokeStep, RevokeFindStream, RevokeNoStream, KickList, KickListFails, Kick,
    KickFails, RevokeEndStreamFails, RevokeUpdate, UpdateKeyStatus, RevokeKeyGone, RevokeAbort
<1>5. CASE UNCHANGED vars
  BY <1>5 DEF vars
<1> QED
  BY <1>1, <1>2, <1>3, <1>4, <1>5 DEF Next, Finished

\* How a connection may move: it comes to its path and to the air once.
ConnMoves(c) ==
  /\ ready[c].pc # "none" => /\ ready'[c].pc # "none"
                             /\ conn'[c].path = conn[c].path
                             /\ conn'[c].after = conn[c].after
  /\ conn[c].phase = "closed" => conn'[c].phase = "closed"
  /\ conn[c].phase = "publishing" => conn'[c].phase \in {"publishing", "closed"}

LEMMA ConnMovesForward ==
  ASSUME TypeOK, SafetyInv, [Next]_vars, NEW c \in Conns
  PROVE  ConnMoves(c)
<1> USE DEF TypeOK, ConnMoves
<1>0. conn[c] \in ConnRecord /\ ready[c] \in ReadyRecord
  OBVIOUS
<1>1. CASE UNCHANGED Hooks
  BY <1>1 DEF Hooks
<1>2. ASSUME NEW d \in Conns,
             \/ \E login \in Logins : Connect(d, login)
             \/ AuthAnswered(d) \/ GiveUp(d) \/ Disconnect(d)
      PROVE  ConnMoves(c)
  <2>1. UNCHANGED ready
    BY <1>2 DEF Connect, AuthAnswered, GiveUp, Disconnect
  <2>2. d # c => conn'[c] = conn[c]
    BY <1>2 DEF Connect, AuthAnswered, GiveUp, Disconnect, SetPhase
  <2>3. CASE d = c
    <3>1. CASE \E login \in Logins : Connect(c, login)
      BY <1>0, <2>1, <3>1 DEF Connect, SafetyInv, AdmissionInv
    <3>2. CASE AuthAnswered(c) \/ GiveUp(c) \/ Disconnect(c)
      <4>1. PICK p \in {"accepted", "closed"} :
              conn'[c] = [conn[c] EXCEPT !.phase = p] /\ (conn[c].phase = "publishing" => p = "closed")
              /\ conn[c].phase # "closed"
        BY <3>2 DEF AuthAnswered, GiveUp, Disconnect, SetPhase
      <4> QED
        BY <1>0, <2>1, <4>1 DEF ConnRecord
    <3> QED
      BY <1>2, <2>3, <3>1, <3>2
  <2> QED
    BY <2>1, <2>2, <2>3
<1>3. ASSUME NEW d \in Conns, Publish(d)
      PROVE  ConnMoves(c)
  <2>1. CASE d = c
    BY <1>0, <1>3, <2>1 DEF Publish, SafetyInv, AdmissionInv
  <2>2. CASE d # c
    <3>1. ready'[c] = ready[c]
      BY <1>3, <2>2 DEF Publish
    <3>2. conn'[c] = conn[c] \/ conn'[c] = [conn[c] EXCEPT !.phase = "closed"]
      BY <1>3, <2>2 DEF Publish
    <3> QED
      BY <1>0, <3>1, <3>2 DEF ConnRecord
  <2> QED
    BY <2>1, <2>2
<1>4. ASSUME NEW d \in Conns, ReadyStep(d) \/ NotReadyStep(d)
      PROVE  ConnMoves(c)
  <2>1. UNCHANGED conn
    BY <1>4 DEF ReadyStep, ReadyLookup, ReadyUnknownPath, ReadyInsert, ReadyInsertRefused, ReadyLost,
      NotReadyStep, NotReadyEnd, NotReadyLost
  <2>2. CASE UNCHANGED ready
    BY <2>1, <2>2
  <2>3. CASE ReadyLookup(d)
    BY <1>0, <2>1, <2>3 DEF ReadyLookup, ReadyRecord
  <2>4. ASSUME NEW p \in {"skipped", "created", "lost"}, ready' = [ready EXCEPT ![d].pc = p]
        PROVE  ConnMoves(c)
    BY <1>0, <2>1, <2>4 DEF ReadyRecord
  <2>5. CASE ReadyUnknownPath(d) \/ ReadyInsert(d) \/ ReadyInsertRefused(d) \/ ReadyLost(d)
    BY <2>4, <2>5 DEF ReadyUnknownPath, ReadyInsert, ReadyInsertRefused, ReadyLost
  <2> QED
    BY <1>4, <2>2, <2>3, <2>5 DEF ReadyStep, NotReadyStep, NotReadyEnd, NotReadyLost
<1>5. ASSUME NEW d \in Conns, NEW o \in Operators, Kick(o, d)
      PROVE  ConnMoves(c)
  <2>1. /\ UNCHANGED ready
        /\ conn'[c] = conn[c] \/ conn'[c] = [conn[c] EXCEPT !.phase = "closed"]
    BY <1>5 DEF Kick, SetPhase
  <2> QED
    BY <1>0, <2>1 DEF ConnRecord
<1> QED
  BY <1>1, <1>2, <1>3, <1>4, <1>5, HookCases

LEMMA PathInductive == TypeOK /\ SafetyInv /\ PathInv /\ [Next]_vars => PathInv'
<1> SUFFICES ASSUME TypeOK, SafetyInv, PathInv, [Next]_vars, NEW c \in Conns,
                    streams'[c].status # "unused"
             PROVE  streams'[c].path = conn'[c].path
  BY DEF PathInv
<1> USE DEF TypeOK, DatabaseTypeOK
<1>0. ConnMoves(c)
  BY ConnMovesForward
<1>1. CASE streams[c].status # "unused" /\ streams'[c].path = streams[c].path
  BY <1>0, <1>1 DEF PathInv, SafetyInv, AdmissionInv, ConnMoves
<1>2. CASE UNCHANGED streams
  BY <1>1, <1>2
<1>3. CASE \E b \in Broadcasters : DeleteBroadcaster(b)
  BY <1>1, <1>3 DEF DeleteBroadcaster, StreamsOf, StreamRow, StreamStatus, Stream
<1>4. ASSUME NEW d \in Conns, ReadyInsert(d)
      PROVE  streams'[c].path = conn'[c].path
  <2>1. CASE d = c
    BY <1>0, <1>4, <2>1 DEF ReadyInsert, InsertStream, ConnMoves
  <2>2. CASE d # c
    BY <1>1, <1>4, <2>2 DEF ReadyInsert, InsertStream
  <2> QED
    BY <2>1, <2>2
<1>5. ASSUME NEW S, EndStreams(S \cap {s \in Conns : streams[s].status = "active"})
      PROVE  streams'[c].path = conn'[c].path
  BY <1>1, <1>5 DEF EndStreams, Stream
<1>6. CASE \E d \in Conns : NotReadyEnd(d)
  <2>1. PICK d \in Conns : EndStreams(ActiveStreamsAt(conn[d].path))
    BY <1>6 DEF NotReadyEnd, EndStreamByPath
  <2>2. ActiveStreamsAt(conn[d].path)
          = ActiveStreamsAt(conn[d].path) \cap {s \in Conns : streams[s].status = "active"}
    BY DEF ActiveStreamsAt
  <2> QED
    BY <1>5, <2>1, <2>2
<1>7. CASE \E o \in Operators : RevokeEndStream(o)
  BY <1>5, <1>7 DEF RevokeEndStream, EndStream
<1> QED
  BY <1>2, <1>3, <1>4, <1>6, <1>7, StreamCases

\* A stream's row has the path of the connection whose hook made it.
THEOREM PathInvariant == Spec => []PathInv
<1>1. Init => PathInv
  BY DEF Init, DatabaseInit, PathInv
<1> QED
  BY <1>1, PathInductive, TypeCorrect, SafetyCorrect, PTL DEF Spec

-----------------------------------------------------------------------------
(* Whom a revocation puts off the air. *)

\* The lists of MediaMTX that KickPath is done with.
Swept(r) == {api \in {"rtmp", "rtsp"} :
  \/ r.pc \in {"end", "update"} \/ r.result = "revoked"
  \/ api = "rtmp" /\ r.api = "rtsp" /\ r.pc \in {"list", "kick"}}

\* The publisher of the stream that a revocation has found is off the air when
\* its list was swept, and still to be kicked while the list is worked on.
Kicked(r) ==
  /\ r.pc \in {"idle", "find"} => r.api = "rtmp"
  /\ r.stream # None =>
       /\ Protocol[r.stream] \in Swept(r) => conn[r.stream].phase = "closed"
       /\ r.pc = "kick" /\ Protocol[r.stream] = r.api =>
            r.stream \in r.targets \/ conn[r.stream].phase = "closed"

KickInv == ~KicksLost /\ ~LongLists => \A o \in Operators : Kicked(revoke[o])

LEMMA KickInductive ==
  TypeOK /\ SafetyInv /\ RevokeInv /\ PathInv /\ KickInv /\ [Next]_vars => KickInv'
<1> SUFFICES ASSUME TypeOK, SafetyInv, RevokeInv, PathInv, [Next]_vars, ~KicksLost, ~LongLists,
                    NEW o \in Operators, Kicked(revoke[o])
             PROVE  Kicked(revoke[o])'
  BY DEF KickInv
<1> DEFINE r == revoke[o]
           s == r.stream
<1>1. r \in RevokeRecord /\ Known(r) /\ s \in Conns \cup {None}
  BY DEF TypeOK, RevokeInv, RevokeRecord
<1>2. ASSUME s # None
      PROVE  /\ s \in Conns /\ streams[s].path = conn[s].path
             /\ conn[s].phase \in {"publishing", "closed"}
             /\ conn[s].phase = "closed" => conn'[s].phase = "closed"
  <2>1. s \in Conns /\ streams[s].status # "unused"
    BY <1>1, <1>2 DEF Known
  <2> QED
    BY <2>1, ConnMovesForward DEF PathInv, SafetyInv, AdmissionInv, ConnMoves
<1>3. CASE revoke'[o] = revoke[o]
  BY <1>1, <1>2, <1>3 DEF Kicked, Swept
<1>4. CASE \E k \in Keys : RevokeStart(o, k) \/ RevokeRefused(o, k)
  <2>1. r.pc = "idle" /\ s = None /\ r.api = "rtmp"
    BY <1>1, <1>4 DEF RevokeStart, RevokeRefused, Known, Kicked
  <2>2. PICK k \in Keys : \/ revoke'[o] = [r EXCEPT !.pc = "find", !.key = k]
                         \/ revoke'[o] = [r EXCEPT !.pc = "done", !.key = k, !.result = "refused"]
    BY <1>4 DEF RevokeStart, RevokeRefused, TypeOK
  <2>3. revoke'[o].stream = None /\ revoke'[o].api = "rtmp"
    BY <1>1, <2>1, <2>2 DEF RevokeRecord
  <2> QED
    BY <2>3 DEF Kicked
<1>5. CASE \E c \in Conns : RevokeFindStream(o, c)
  <2>1. /\ r.api = "rtmp" /\ r.result = "none"
        /\ revoke'[o].pc = "list" /\ revoke'[o].api = r.api /\ revoke'[o].result = r.result
    BY <1>1, <1>5 DEF RevokeFindStream, TypeOK, RevokeRecord, Known, Kicked
  <2> QED
    BY <2>1 DEF Kicked, Swept
<1>6. CASE RevokeNoStream(o)
  <2>1. s = None /\ revoke'[o].stream = None /\ revoke'[o].pc = "update"
    BY <1>1, <1>6 DEF RevokeNoStream, TypeOK, RevokeRecord, Known
  <2> QED
    BY <2>1 DEF Kicked
<1>7. CASE RevokeEndStream(o) \/ RevokeEndStreamFails(o) \/ RevokeUpdate(o)
           \/ RevokeKeyGone(o) \/ RevokeAbort(o)
  <2>1. /\ revoke'[o].stream = s
        /\ \/ r.pc \in {"end", "update"} /\ revoke'[o].pc \in {"update", "done"}
           \/ revoke'[o].pc = "done" /\ revoke'[o].result = "error"
    <3>1. CASE RevokeEndStream(o) \/ RevokeEndStreamFails(o)
      <4>1. /\ r.pc = "end"
            /\ revoke'[o] \in {[r EXCEPT !.pc = "update"], [r EXCEPT !.pc = "update", !.clean = FALSE]}
        BY <3>1 DEF RevokeEndStream, RevokeEndStreamFails, TypeOK
      <4> QED
        BY <1>1, <4>1 DEF RevokeRecord
    <3>2. CASE RevokeUpdate(o) \/ RevokeKeyGone(o)
      <4>1. /\ r.pc = "update"
            /\ revoke'[o] \in {[r EXCEPT !.pc = "done", !.result = x] : x \in {"revoked", "refused"}}
        BY <3>2 DEF RevokeUpdate, RevokeKeyGone, TypeOK
      <4> QED
        BY <1>1, <4>1 DEF RevokeRecord
    <3>3. CASE RevokeAbort(o)
      <4>1. revoke'[o] = [r EXCEPT !.pc = "done", !.result = "error"]
        BY <3>3 DEF RevokeAbort, TypeOK
      <4> QED
        BY <1>1, <4>1 DEF RevokeRecord
    <3> QED
      BY <1>7, <3>1, <3>2, <3>3
  <2>2. s # None => (Protocol[s] \in Swept(r)' => Protocol[s] \in Swept(r))
    BY <2>1 DEF Swept
  <2> QED
    BY <1>2, <2>1, <2>2 DEF Kicked
<1>8. ASSUME NEW T \in SUBSET Conns, revoke' = [revoke EXCEPT ![o] = AfterKick([r EXCEPT !.targets = T])],
             r.pc \in {"list", "kick"},
             s # None /\ Protocol[s] = r.api => s \in T \/ conn'[s].phase = "closed"
      PROVE  Kicked(revoke[o])'
  <2> DEFINE q == revoke'[o]
  <2>1. q = AfterKick([r EXCEPT !.targets = T])
    BY <1>8 DEF TypeOK
  <2>2. /\ q.stream = s /\ q.result = r.result /\ r.result = "none"
        /\ \/ T # {} /\ q.pc = "kick" /\ q.api = r.api /\ q.targets = T
           \/ T = {} /\ r.api = "rtmp" /\ q.pc = "list" /\ q.api = "rtsp"
           \/ T = {} /\ r.api = "rtsp" /\ q.pc = "end" /\ q.api = "rtsp"
    <3>1. PICK u \in RevokeRecord : u = [r EXCEPT !.targets = T]
      BY <1>1 DEF RevokeRecord
    <3>2. /\ u.targets = T /\ u.stream = s /\ u.result = r.result /\ u.api = r.api
          /\ r.result = "none" /\ r.api \in {"rtmp", "rtsp"}
      BY <1>1, <1>8, <3>1 DEF RevokeRecord, Known
    <3>3. q = AfterKick(u)
      BY <2>1, <3>1
    <3> HIDE DEF q, r, s
    <3> QED
      BY <3>2, <3>3 DEF AfterKick, RevokeRecord
  <2>3. ASSUME s # None, Protocol[s] \in Swept(r)'
        PROVE  conn'[s].phase = "closed"
    BY <1>2, <1>8, <2>2, <2>3 DEF Kicked, Swept
  <2>4. ASSUME s # None, q.pc = "kick", Protocol[s] = q.api
        PROVE  s \in q.targets \/ conn'[s].phase = "closed"
    BY <1>8, <2>2, <2>4
  <2> QED
    BY <2>2, <2>3, <2>4 DEF Kicked
<1>9. CASE KickList(o)
  <2> DEFINE T == {c \in PublishersOn(streams[s].path) : Protocol[c] = r.api}
  <2>1. /\ r.pc = "list" /\ T \in SUBSET Conns
        /\ revoke' = [revoke EXCEPT ![o] = AfterKick([r EXCEPT !.targets = T])]
    BY <1>9 DEF KickList, PublishersOn
  <2>2. s # None /\ Protocol[s] = r.api => s \in T \/ conn'[s].phase = "closed"
    BY <1>2 DEF PublishersOn
  <2> QED
    BY <1>8, <2>1, <2>2
<1>10. ASSUME NEW c \in Conns, Kick(o, c)
       PROVE  Kicked(revoke[o])'
  <2> DEFINE T == r.targets \ {c}
  <2>1. /\ r.pc = "kick" /\ T \in SUBSET Conns
        /\ revoke' = [revoke EXCEPT ![o] = AfterKick([r EXCEPT !.targets = T])]
    BY <1>1, <1>10 DEF Kick, RevokeRecord
  <2>2. s = c => conn'[s].phase = "closed"
    <3> SUFFICES ASSUME s = c
                 PROVE  conn'[c].phase = "closed"
      OBVIOUS
    <3>1. s # None
      BY ConstantsAssumption
    <3>2. CASE conn[c].phase = "publishing"
      BY <1>10, <3>2 DEF Kick, SetPhase, TypeOK, ConnRecord
    <3>3. CASE conn[c].phase # "publishing"
      BY <1>2, <3>1, <3>3
    <3> QED
      BY <3>2, <3>3
  <2>3. s # None /\ Protocol[s] = r.api => s \in T \/ conn'[s].phase = "closed"
    BY <1>2, <2>1, <2>2 DEF Kicked
  <2> QED
    BY <1>8, <2>1, <2>3
<1> QED
  BY <1>3, <1>4, <1>5, <1>6, <1>7, <1>9, <1>10, RevokeCases DEF RevokeStep, KickListFails, KickFails

\* What a revocation knows of the publisher that it is to put off the air.
THEOREM KickInvariant == Spec => []KickInv
<1>1. Init => KickInv
  BY DEF Init, NoRevoke, KickInv, Kicked
<1> QED
  BY <1>1, KickInductive, TypeCorrect, SafetyCorrect, RevokeInvariant, PathInvariant, PTL DEF Spec

\* When MediaMTX's API answers with lists of one page, a Revoke that succeeded has
\* put the RTMP or RTSP publisher of the stream it found off the air for good.
THEOREM KickedPublisherIsGoneHolds == Spec => []KickedPublisherIsGone
<1>1. TypeOK /\ KickInv => KickedPublisherIsGone
  <2> SUFFICES ASSUME TypeOK, KickInv, ~KicksLost, ~LongLists, NEW o \in Operators,
                      revoke[o].result = "revoked", revoke[o].stream # None,
                      Protocol[revoke[o].stream] # "webrtc"
               PROVE  conn[revoke[o].stream].phase # "publishing"
    BY DEF KickedPublisherIsGone
  <2>1. Protocol[revoke[o].stream] \in Swept(revoke[o])
    BY OrchestrationAssumption DEF TypeOK, RevokeRecord, Protocols, Swept
  <2> QED
    BY <2>1 DEF KickInv, Kicked
<1> QED
  BY <1>1, KickInvariant, TypeCorrect, PTL

-----------------------------------------------------------------------------
(* What holds when every hook arrives, in its order, and no handler fails. *)

AllAfterHandled(c) == \A d \in conn[c].after : ReadyHandled(d) /\ NotReadyHandled(d)

\* Where a connection is with its hooks.
HookOrder(c) ==
  /\ ready[c].pc # "lost" /\ notReady[c] # "lost"
  /\ conn[c].phase = "publishing" => ready[c].pc # "none"
  /\ notReady[c] # "none" => conn[c].phase = "closed" /\ ready[c].pc # "none"
  /\ ready[c].pc \in {"found", "created", "skipped"} \/ notReady[c] = "done" => AllAfterHandled(c)
  /\ notReady[c] = "done" => ReadyHandled(c)
  /\ ready[c].pc = "found" => keys[ready[c].key].status # "unused"

\* Of two connections that came on one path the later knows the earlier.
Ordered(c, d) ==
  /\ c # d /\ conn[c].path = conn[d].path
  /\ ready[c].pc # "none" /\ ready[d].pc # "none"
  => c \in conn[d].after \/ d \in conn[c].after

OrderInv ==
  OrderlyHooks => /\ \A c \in Conns : HookOrder(c)
                  /\ \A c, d \in Conns : Ordered(c, d)

\* Nobody but a connection that goes on the air gets its first hook.
LEMMA FirstReady ==
  ASSUME TypeOK, [Next]_vars, NEW e \in Conns, ready[e].pc = "none", ready'[e].pc # "none"
  PROVE  Publish(e)
<1> USE DEF TypeOK
<1>1. ASSUME NEW x \in Conns, ReadyStep(x)
      PROVE  FALSE
  <2>1. ready[x].pc \in {"sent", "found"} /\ \A y \in Conns : y # x => ready'[y] = ready[y]
    BY <1>1 DEF ReadyStep, ReadyLookup, ReadyUnknownPath, ReadyInsert, ReadyInsertRefused, ReadyLost
  <2> QED
    BY <2>1
<1>2. ready' # ready
  OBVIOUS
<1>3. ASSUME NEW x \in Conns, Publish(x)
      PROVE  Publish(e)
  BY <1>3 DEF Publish
<1> QED
  BY <1>1, <1>2, <1>3, HookCases DEF Hooks, Connect, AuthAnswered, GiveUp, Disconnect,
    NotReadyStep, NotReadyEnd, NotReadyLost, Kick

\* A connection publishes for the first time, and then knows who came before it.
LEMMA PublishOrder ==
  ASSUME TypeOK, SafetyInv, \A c, d \in Conns : Ordered(c, d), [Next]_vars,
         NEW c \in Conns, NEW d \in Conns
  PROVE  Ordered(c, d)'
<1> USE DEF TypeOK
<1>1. ConnMoves(c) /\ ConnMoves(d)
  BY ConnMovesForward
<1>2. CASE ready[c].pc # "none" /\ ready[d].pc # "none"
  BY <1>1, <1>2 DEF Ordered, ConnMoves
<1>3. \A e \in Conns : ready[e].pc = "none" /\ ready'[e].pc # "none" => Publish(e)
  BY FirstReady
<1>4. ASSUME NEW e \in Conns, Publish(e), NEW f \in Conns, f # e
      PROVE  /\ conn'[f].path = conn[f].path /\ ready'[f] = ready[f]
             /\ conn'[e].path = conn[e].path
             /\ ready[f].pc # "none" /\ conn[f].path = conn[e].path => f \in conn'[e].after
  <2> DEFINE before == {g \in Conns : conn[g].path = conn[e].path /\ ready[g].pc # "none"}
  <2>1. conn'[e] = [conn[e] EXCEPT !.phase = "publishing", !.after = before]
    BY <1>4 DEF Publish
  <2>2. conn'[e].path = conn[e].path /\ conn'[e].after = before
    BY <2>1 DEF ConnRecord
  <2>3. conn'[f] = conn[f] \/ conn'[f] = [conn[f] EXCEPT !.phase = "closed"]
    BY <1>4 DEF Publish
  <2>4. conn[f] \in ConnRecord /\ ready'[f] = ready[f]
    BY <1>4 DEF Publish
  <2>5. conn'[f].path = conn[f].path
    BY <2>3, <2>4 DEF ConnRecord
  <2> QED
    BY <1>4, <2>2, <2>4, <2>5
<1>5. CASE c # d /\ ready[c].pc = "none" /\ ready'[c].pc # "none"
  BY <1>3, <1>4, <1>5 DEF Ordered
<1>6. CASE c # d /\ ready[d].pc = "none" /\ ready'[d].pc # "none"
  BY <1>3, <1>4, <1>6 DEF Ordered
<1> QED
  BY <1>2, <1>5, <1>6 DEF Ordered

\* What a step may do to one connection and its hooks.
Stays(c) == conn'[c] = conn[c] /\ ready'[c] = ready[c] /\ notReady'[c] = notReady[c]
Comes(c) ==
  /\ conn[c].phase \in {"idle", "authenticating", "accepted"} /\ conn'[c].phase # "publishing"
  /\ ready'[c] = ready[c] /\ notReady'[c] = notReady[c]
Publishes(c) ==
  /\ conn[c].phase = "accepted" /\ conn'[c].phase = "publishing"
  /\ ready'[c].pc = "sent" /\ notReady'[c] = notReady[c]
Leaves(c) ==
  /\ conn[c].phase = "publishing" /\ conn'[c].phase = "closed" /\ conn'[c].after = conn[c].after
  /\ ready'[c] = ready[c] /\ notReady'[c] = "sent"

LEMMA HookMoves ==
  ASSUME TypeOK, [Next]_vars, NEW c \in Conns
  PROVE  \/ Stays(c) \/ Comes(c) \/ Publishes(c) \/ Leaves(c)
         \/ conn'[c] = conn[c] /\ notReady'[c] = notReady[c] /\ ReadyStep(c)
         \/ conn'[c] = conn[c] /\ ready'[c] = ready[c] /\ NotReadyStep(c)
<1> USE DEF TypeOK
<1>0. conn[c] \in ConnRecord /\ ready[c] \in ReadyRecord
  OBVIOUS
<1>1. CASE UNCHANGED Hooks
  BY <1>1 DEF Hooks, Stays
<1>2. ASSUME NEW d \in Conns, d # c,
             \/ \E login \in Logins : Connect(d, login)
             \/ AuthAnswered(d) \/ GiveUp(d) \/ Disconnect(d)
             \/ \E o \in Operators : Kick(o, d)
      PROVE  Stays(c)
  BY <1>2 DEF Connect, AuthAnswered, GiveUp, Disconnect, Kick, SetPhase, Stays
<1>3. ASSUME NEW d \in Conns, d # c, ReadyStep(d) \/ NotReadyStep(d)
      PROVE  Stays(c)
  <2>1. CASE ReadyStep(d)
    BY <1>3, <2>1 DEF ReadyStep, ReadyLookup, ReadyUnknownPath, ReadyInsert, ReadyInsertRefused,
      ReadyLost, Stays
  <2>2. CASE NotReadyStep(d)
    BY <1>3, <2>2 DEF NotReadyStep, NotReadyEnd, NotReadyLost, Stays
  <2> QED
    BY <1>3, <2>1, <2>2
<1>4. ASSUME conn' = SetPhase(c, "closed"), conn[c].phase = "publishing",
             notReady' = [notReady EXCEPT ![c] = "sent"], UNCHANGED ready
      PROVE  Leaves(c)
  BY <1>0, <1>4 DEF SetPhase, Leaves, ConnRecord
<1>5. CASE Disconnect(c) \/ \E o \in Operators : Kick(o, c)
  BY <1>4, <1>5 DEF Disconnect, Kick, Stays
<1>6. CASE (\E login \in Logins : Connect(c, login)) \/ AuthAnswered(c) \/ GiveUp(c)
  <2>1. conn[c].phase \in {"idle", "authenticating", "accepted"} /\ UNCHANGED <<ready, notReady>>
    BY <1>6 DEF Connect, AuthAnswered, GiveUp
  <2>2. CASE \E login \in Logins : Connect(c, login)
    BY <1>0, <2>1, <2>2 DEF Connect, Comes, ConnRecord
  <2>3. PICK p \in {"accepted", "closed"} :
          conn' = SetPhase(c, p) \/ \E login \in Logins : Connect(c, login)
    BY <1>6 DEF AuthAnswered, GiveUp
  <2> QED
    BY <1>0, <2>1, <2>2, <2>3 DEF SetPhase, Comes, ConnRecord
<1>7. CASE Publish(c)
  BY <1>0, <1>7 DEF Publish, PublishersOn, Publishes, ConnRecord, ReadyRecord
<1>8. ASSUME NEW d \in Conns, d # c, Publish(d)
      PROVE  Stays(c) \/ Leaves(c)
  <2>1. CASE c \in PublishersOn(conn[d].path)
    BY <1>0, <1>8, <2>1 DEF Publish, PublishersOn, Leaves, ConnRecord
  <2>2. CASE c \notin PublishersOn(conn[d].path)
    BY <1>8, <2>2 DEF Publish, Stays
  <2> QED
    BY <2>1, <2>2
<1>9. CASE ReadyStep(c)
  BY <1>9 DEF ReadyStep, ReadyLookup, ReadyUnknownPath, ReadyInsert, ReadyInsertRefused, ReadyLost
<1>10. CASE NotReadyStep(c)
  BY <1>10 DEF NotReadyStep, NotReadyEnd, NotReadyLost
<1> QED
  BY <1>1, <1>2, <1>3, <1>5, <1>6, <1>7, <1>8, <1>9, <1>10, HookCases

-----------------------------------------------------------------------------
(* Whose hook may end a stream. *)

\* A connection with a not-ready hook has left, and whoever came before a
\* connection on its path had left when it came.
LeftInv ==
  \A c \in Conns :
    /\ conn[c].phase = "publishing" \/ notReady[c] # "none" => ready[c].pc # "none"
    /\ notReady[c] # "none" => conn[c].phase = "closed"
    /\ ready[c].pc # "none" => \A d \in conn[c].after : conn[d].phase = "closed"

\* What ended a stream: a revocation that had found it, or a hook of its path.
EndedFor(c) ==
  \/ \E o \in Operators : revoke[o].stream = c
  \/ \E d \in Conns : notReady[d] = "done" /\ conn[d].path = conn[c].path

EndInv ==
  /\ LeftInv
  /\ \A c, d \in Conns : Ordered(c, d)
  /\ \A c \in Conns : streams[c].status = "ended" => EndedFor(c)

LEMMA LeftInductive == TypeOK /\ SafetyInv /\ LeftInv /\ [Next]_vars => LeftInv'
<1> SUFFICES ASSUME TypeOK, SafetyInv, LeftInv, [Next]_vars, NEW c \in Conns
             PROVE  /\ conn'[c].phase = "publishing" \/ notReady'[c] # "none" => ready'[c].pc # "none"
                    /\ notReady'[c] # "none" => conn'[c].phase = "closed"
                    /\ ready'[c].pc # "none" => \A d \in conn'[c].after : conn'[d].phase = "closed"
  BY DEF LeftInv
<1> USE DEF TypeOK
<1>0. conn[c] \in ConnRecord /\ ready[c] \in ReadyRecord /\ conn[c].after \subseteq Conns
  BY DEF ConnRecord
<1>1. \A d \in Conns : conn[d].phase = "closed" => conn'[d].phase = "closed"
  BY ConnMovesForward DEF ConnMoves
<1>2. ready[c].pc # "none" => conn[c].phase \in {"publishing", "closed"}
  BY DEF SafetyInv, AdmissionInv
<1>3. ReadyStep(c) => ready[c].pc # "none" /\ ready'[c].pc # "none"
  BY <1>0 DEF ReadyStep, ReadyLookup, ReadyUnknownPath, ReadyInsert, ReadyInsertRefused, ReadyLost,
    ReadyRecord
<1>4. NotReadyStep(c) => notReady[c] # "none"
  BY DEF NotReadyStep, NotReadyEnd, NotReadyLost
<1>5. /\ conn'[c].phase = "publishing" \/ notReady'[c] # "none" => ready'[c].pc # "none"
      /\ notReady'[c] # "none" => conn'[c].phase = "closed"
  BY <1>2, <1>3, <1>4, HookMoves DEF LeftInv, Stays, Comes, Publishes, Leaves
<1>6. ASSUME ready'[c].pc # "none", NEW d \in conn'[c].after
      PROVE  conn'[d].phase = "closed"
  <2>1. CASE ready[c].pc # "none"
    <3>1. conn'[c].after = conn[c].after
      BY <2>1, ConnMovesForward DEF ConnMoves
    <3> QED
      BY <1>0, <1>1, <1>6, <2>1, <3>1 DEF LeftInv
  <2>2. CASE ready[c].pc = "none"
    <3>1. Publish(c)
      BY <1>6, <2>2, FirstReady
    <3>2. conn'[c].after = {e \in Conns : conn[e].path = conn[c].path /\ ready[e].pc # "none"}
      BY <1>0, <3>1 DEF Publish, ConnRecord
    <3>3. d \in Conns /\ d # c /\ conn[d].path = conn[c].path /\ ready[d].pc # "none"
      BY <1>6, <2>2, <3>2
    <3>4. conn[d].phase \in {"publishing", "closed"}
      BY <3>3 DEF SafetyInv, AdmissionInv
    <3>5. CASE conn[d].phase = "publishing"
      BY <3>1, <3>3, <3>5 DEF Publish, PublishersOn, ConnRecord
    <3> QED
      BY <1>1, <3>3, <3>4, <3>5
  <2> QED
    BY <2>1, <2>2
<1> QED
  BY <1>5, <1>6

\* The stream that a revocation has found is not exchanged for another.
LEMMA FoundStreamStays ==
  ASSUME TypeOK, RevokeInv, [Next]_vars, NEW o \in Operators, revoke[o].stream # None
  PROVE  revoke'[o].stream = revoke[o].stream
<1> USE DEF TypeOK
<1>1. revoke[o].pc \notin {"idle", "find"} /\ revoke[o] \in RevokeRecord
  BY DEF RevokeInv, Known
<1>2. CASE KickList(o) \/ KickListFails(o) \/ \E c \in Conns : Kick(o, c) \/ KickFails(o, c)
  BY <1>2, KickKeeps
<1>3. CASE RevokeEndStream(o) \/ RevokeEndStreamFails(o)
  <2>1. revoke'[o] \in {[revoke[o] EXCEPT !.pc = "update"],
                        [revoke[o] EXCEPT !.pc = "update", !.clean = FALSE]}
    BY <1>3 DEF RevokeEndStream, RevokeEndStreamFails
  <2> QED
    BY <1>1, <2>1 DEF RevokeRecord
<1>4. CASE RevokeUpdate(o) \/ RevokeKeyGone(o)
  <2>1. revoke'[o] \in {[revoke[o] EXCEPT !.pc = "done", !.result = x] : x \in {"revoked", "refused"}}
    BY <1>4 DEF RevokeUpdate, RevokeKeyGone
  <2> QED
    BY <1>1, <2>1 DEF RevokeRecord
<1>5. CASE RevokeAbort(o)
  <2>1. revoke'[o] = [revoke[o] EXCEPT !.pc = "done", !.result = "error"]
    BY <1>5 DEF RevokeAbort
  <2> QED
    BY <1>1, <2>1 DEF RevokeRecord
<1> QED
  BY <1>1, <1>2, <1>3, <1>4, <1>5, RevokeCases
  DEF RevokeStep, RevokeStart, RevokeRefused, RevokeFindStream, RevokeNoStream

\* A revocation does not forget the stream that it found, nor a hook its path.
LEMMA EndedForStays ==
  ASSUME TypeOK, SafetyInv, RevokeInv, LeftInv, [Next]_vars, NEW c \in Conns, EndedFor(c),
         ready[c].pc # "none"
  PROVE  EndedFor(c)'
<1> USE DEF TypeOK
<1>1. conn'[c].path = conn[c].path
  BY ConnMovesForward DEF ConnMoves
<1>2. ASSUME NEW o \in Operators, revoke[o].stream = c
      PROVE  revoke'[o].stream = c
  BY <1>2, FoundStreamStays, ConstantsAssumption
<1>3. ASSUME NEW d \in Conns, notReady[d] = "done"
      PROVE  notReady'[d] = "done" /\ conn'[d].path = conn[d].path
  <2>1. conn[d].phase = "closed" /\ ready[d].pc # "none"
    BY <1>3 DEF LeftInv
  <2>2. ~NotReadyStep(d)
    BY <1>3 DEF NotReadyStep, NotReadyEnd, NotReadyLost
  <2> QED
    BY <1>3, <2>1, <2>2, HookMoves, ConnMovesForward DEF Stays, Comes, Publishes, Leaves, ConnMoves
<1> QED
  BY <1>1, <1>2, <1>3 DEF EndedFor

LEMMA EndInductive ==
  TypeOK /\ SafetyInv /\ RevokeInv /\ PathInv /\ EndInv /\ [Next]_vars => EndInv'
<1> SUFFICES ASSUME TypeOK, SafetyInv, RevokeInv, PathInv, EndInv, [Next]_vars, NEW c \in Conns,
                    streams'[c].status = "ended"
             PROVE  EndedFor(c)'
  BY LeftInductive, PublishOrder DEF EndInv
<1> USE DEF TypeOK, DatabaseTypeOK
<1>1. CASE streams[c].status = "ended"
  BY <1>1, EndedForStays DEF EndInv, SafetyInv, AdmissionInv
<1>2. CASE streams[c].status # "ended"
  <2>1. ~UNCHANGED streams
    BY <1>2
  <2>2. ASSUME NEW b \in Broadcasters, DeleteBroadcaster(b)
        PROVE  FALSE
    BY <1>2, <2>2 DEF DeleteBroadcaster, Stream
  <2>3. ASSUME NEW d \in Conns, ReadyInsert(d)
        PROVE  FALSE
    BY <1>2, <2>3 DEF ReadyInsert, InsertStream, Stream
  <2>4. ASSUME NEW d \in Conns, NotReadyEnd(d)
        PROVE  EndedFor(c)'
    <3>1. streams[c].status = "active" /\ streams[c].path = conn[d].path
      BY <1>2, <2>4 DEF NotReadyEnd, EndStreamByPath, EndStreams, ActiveStreamsAt
    <3>2. conn[c].path = conn[d].path
      BY <3>1 DEF PathInv
    <3>3. notReady'[d] = "done" /\ UNCHANGED conn
      BY <2>4 DEF NotReadyEnd
    <3> QED
      BY <3>2, <3>3 DEF EndedFor
  <2>5. ASSUME NEW o \in Operators, RevokeEndStream(o)
        PROVE  EndedFor(c)'
    <3>1. c = revoke[o].stream
      BY <1>2, <2>5 DEF RevokeEndStream, EndStream, EndStreams
    <3>2. revoke'[o].stream = revoke[o].stream
      BY <2>5 DEF RevokeEndStream, RevokeRecord
    <3> QED
      BY <3>1, <3>2 DEF EndedFor
  <2> QED
    BY <2>1, <2>2, <2>3, <2>4, <2>5, StreamCases
<1> QED
  BY <1>1, <1>2

\* What ended a stream, and in which order the connections of a path have come,
\* with hooks that are lost and handled in any order.
THEOREM EndInvariant == Spec => []EndInv
<1>1. Init => EndInv
  BY DEF Init, DatabaseInit, NoConn, NoReady, EndInv, LeftInv, Ordered
<1> QED
  BY <1>1, EndInductive, RevokeInvariant, PathInvariant, TypeCorrect, SafetyCorrect, PTL DEF Spec

\* The stream of a publisher on the air is ended by an operator, or by the late
\* hook of one who came before it on its path.
THEOREM EndedOnItsPathHolds == Spec => []EndedOnItsPath
<1>1. TypeOK /\ SafetyInv /\ EndInv => EndedOnItsPath
  <2> SUFFICES ASSUME TypeOK, SafetyInv, EndInv, NEW c \in Conns,
                      conn[c].phase = "publishing", streams[c].status = "ended",
                      ~\E o \in Operators : revoke[o].stream = c
               PROVE  \E d \in conn[c].after : notReady[d] = "done"
    BY DEF EndedOnItsPath
  <2>1. PICK d \in Conns : notReady[d] = "done" /\ conn[d].path = conn[c].path
    BY DEF EndInv, EndedFor
  <2>2. conn[d].phase = "closed" /\ ready[d].pc # "none" /\ ready[c].pc # "none" /\ d # c
    BY <2>1 DEF EndInv, LeftInv
  <2>3. c \in conn[d].after \/ d \in conn[c].after
    BY <2>1, <2>2 DEF EndInv, Ordered
  <2>4. c \notin conn[d].after
    BY <2>2 DEF EndInv, LeftInv
  <2> QED
    BY <2>1, <2>3, <2>4
<1> QED
  BY <1>1, EndInvariant, TypeCorrect, SafetyCorrect, PTL

\* What was handled stays handled.
LEMMA HandledStays ==
  ASSUME TypeOK, SafetyInv, [Next]_vars, NEW c \in Conns, HookOrder(c)
  PROVE  /\ ReadyHandled(c) => ready'[c] = ready[c]
         /\ NotReadyHandled(c) => notReady'[c] = notReady[c]
<1>1. ready[c].pc # "none" => conn[c].phase \in {"publishing", "closed"}
  BY DEF SafetyInv, AdmissionInv
<1>2. ReadyStep(c) => ready[c].pc \in {"sent", "found"}
  BY DEF ReadyStep, ReadyLookup, ReadyUnknownPath, ReadyInsert, ReadyInsertRefused, ReadyLost
<1>3. NotReadyStep(c) => notReady[c] = "sent"
  BY DEF NotReadyStep, NotReadyEnd, NotReadyLost
<1> QED
  BY <1>1, <1>2, <1>3, HookMoves DEF Stays, Comes, Publishes, Leaves, ReadyHandled,
    NotReadyHandled, HookOrder

LEMMA HookOrderStep ==
  ASSUME TypeOK, SafetyInv, OrderlyHooks, \A d \in Conns : HookOrder(d), [Next]_vars,
         NEW c \in Conns
  PROVE  HookOrder(c)'
<1> USE DEF TypeOK
<1>0. /\ HookOrder(c)
      /\ ready[c].pc # "none" => conn[c].phase \in {"publishing", "closed"}
      /\ ready[c].pc = "found" => ready[c].key \in Keys
      /\ ready[c] \in ReadyRecord /\ conn[c].after \subseteq Conns
  BY DEF SafetyInv, AdmissionInv, ConnRecord
<1>1. AllAfterHandled(c) /\ conn'[c].after = conn[c].after => AllAfterHandled(c)'
  BY <1>0, HandledStays DEF AllAfterHandled, ReadyHandled, NotReadyHandled
<1>2. \A k \in Keys : keys[k].status # "unused" => keys'[k].status # "unused"
  BY KeysMoveForward DEF KeyMoves
<1>3. CASE Stays(c)
  BY <1>0, <1>1, <1>2, <1>3 DEF Stays, HookOrder, ReadyHandled
<1>4. CASE Comes(c) \/ Publishes(c)
  BY <1>0, <1>4 DEF Comes, Publishes, HookOrder, ReadyHandled
<1>5. CASE Leaves(c)
  BY <1>0, <1>1, <1>2, <1>5 DEF Leaves, HookOrder, ReadyHandled
<1>6. CASE conn'[c] = conn[c] /\ notReady'[c] = notReady[c] /\ ReadyStep(c)
  <2>1. CASE ReadyLookup(c)
    <3>1. ready'[c] = [pc |-> "found", key |-> conn[c].path] /\ UNCHANGED keys
      BY <1>0, <2>1 DEF ReadyLookup, HookKey, ReadyRecord, dbVars
    <3>2. AllAfterHandled(c) /\ ready[c].pc = "sent" /\ keys[conn[c].path].status # "unused"
      BY <2>1 DEF ReadyLookup, HookKey, HooksBefore, AllAfterHandled, OrderlyHooks, KeyRow, KeyStatus
    <3> QED
      BY <1>0, <1>1, <1>6, <3>1, <3>2 DEF HookOrder, ReadyHandled
  <2>2. CASE ReadyUnknownPath(c) \/ ReadyInsert(c) \/ ReadyInsertRefused(c)
    <3>1. ready'[c].pc \in {"created", "skipped"}
      BY <1>0, <2>2 DEF ReadyUnknownPath, ReadyInsert, ReadyInsertRefused, ReadyRecord
    <3>2. AllAfterHandled(c)
      BY <1>0, <2>2 DEF ReadyUnknownPath, ReadyInsert, ReadyInsertRefused, HooksBefore,
        AllAfterHandled, OrderlyHooks, HookOrder
    <3> QED
      BY <1>0, <1>1, <1>6, <3>1, <3>2 DEF HookOrder, ReadyHandled
  <2> QED
    BY <1>6, <2>1, <2>2 DEF ReadyStep, ReadyLost, OrderlyHooks
<1>7. CASE conn'[c] = conn[c] /\ ready'[c] = ready[c] /\ NotReadyStep(c)
  <2>1. NotReadyEnd(c)
    BY <1>7 DEF NotReadyStep, NotReadyLost, OrderlyHooks
  <2>2. notReady[c] = "sent" /\ notReady'[c] = "done" /\ ReadyHandled(c) /\ AllAfterHandled(c)
    BY <2>1 DEF NotReadyEnd, HooksBefore, AllAfterHandled, OrderlyHooks
  <2> QED
    BY <1>0, <1>1, <1>2, <1>7, <2>2 DEF HookOrder, ReadyHandled
<1> QED
  BY <1>3, <1>4, <1>5, <1>6, <1>7, HookMoves

\* Hooks that arrive in order are handled in the order of their connections.
THEOREM OrderInvariant == Spec => []OrderInv
<1>1. Init => OrderInv
  BY DEF Init, NoConn, NoReady, OrderInv, HookOrder, Ordered, ReadyHandled
<1>2. TypeOK /\ SafetyInv /\ OrderInv /\ [Next]_vars => OrderInv'
  BY HookOrderStep, PublishOrder DEF OrderInv, OrderlyHooks
<1> QED
  BY <1>1, <1>2, TypeCorrect, SafetyCorrect, PTL DEF Spec

-----------------------------------------------------------------------------
(* The rows of the publishers. *)

\* Of two connections on a path whose ready hooks were looked up, the one came
\* when the other had left and its hooks were handled.
LEMMA OneAtATime ==
  ASSUME OrderInv, OrderlyHooks, NEW c \in Conns, NEW d \in Conns, c # d,
         conn[c].path = conn[d].path,
         ready[c].pc \in {"found", "created", "skipped"},
         ready[d].pc \in {"found", "created", "skipped"}
  PROVE  notReady[c] = "done" \/ notReady[d] = "done"
<1>1. c \in conn[d].after \/ d \in conn[c].after
  BY DEF OrderInv, Ordered
<1>2. AllAfterHandled(c) /\ AllAfterHandled(d) /\ notReady[c] # "lost" /\ notReady[d] # "lost"
  BY DEF OrderInv, HookOrder
<1> QED
  BY <1>1, <1>2 DEF AllAfterHandled, NotReadyHandled

\* The first half: whoever has left has no active stream.
LEMMA LeftHaveNoStream ==
  ASSUME TypeOK, SafetyInv, PathInv, OrderInv, OrderlyHooks, RecordsFollowPublishers,
         [Next]_vars, NEW c \in Conns, notReady'[c] = "done"
  PROVE  streams'[c].status # "active"
<1> USE DEF TypeOK, DatabaseTypeOK
<1>0. HookOrder(c) /\ (notReady[c] = "done" => streams[c].status # "active")
  BY DEF OrderInv, RecordsFollowPublishers
<1>1. CASE notReady[c] = "done"
  <2>1. CASE \E d \in Conns : ReadyInsert(d)
    BY <1>0, <1>1, <2>1 DEF ReadyInsert, InsertStream, HookOrder, ReadyHandled
  <2>2. CASE UNCHANGED streams \/ \E b \in Broadcasters : DeleteBroadcaster(b)
    BY <1>0, <1>1, <2>2 DEF DeleteBroadcaster, Stream
  <2>3. ASSUME NEW S, EndStreams(S)
        PROVE  streams'[c].status # "active"
    BY <1>0, <1>1, <2>3 DEF EndStreams, Stream
  <2> QED
    BY <2>1, <2>2, <2>3, StreamCases DEF NotReadyEnd, EndStreamByPath, RevokeEndStream, EndStream
<1>2. CASE notReady[c] # "done"
  <2>1. NotReadyEnd(c)
    BY <1>0, <1>2, HookMoves DEF Stays, Comes, Publishes, Leaves, NotReadyStep, NotReadyLost, OrderlyHooks
  <2>2. EndStreams(ActiveStreamsAt(conn[c].path))
    BY <2>1 DEF NotReadyEnd, EndStreamByPath
  <2>3. CASE streams[c].status = "active"
    <3>1. c \in ActiveStreamsAt(conn[c].path)
      BY <2>3 DEF PathInv, ActiveStreamsAt
    <3> QED
      BY <2>2, <3>1 DEF EndStreams, Stream
  <2>4. CASE streams[c].status # "active"
    BY <2>2, <2>4 DEF EndStreams, ActiveStreamsAt
  <2> QED
    BY <2>3, <2>4
<1> QED
  BY <1>1, <1>2

\* Who publishes on its key and had its ready hook handled.
Recorded(c) ==
  /\ conn[c].phase = "publishing" /\ ReadyHandled(c)
  /\ auth[c].key = conn[c].path /\ KeyRow(conn[c].path)
  /\ \A o \in Operators : revoke[o].stream # c

\* A connection comes to publish on a live key by a ready hook that was handled now.
LEMMA RecordedSince ==
  ASSUME TypeOK, SafetyInv, RevokeInv, OrderInv, OrderlyHooks, [Next]_vars,
         NEW c \in Conns, Recorded(c)'
  PROVE  /\ conn[c].phase = "publishing" /\ conn[c].path \in Keys /\ KeyRow(conn[c].path)
         /\ \A o \in Operators : revoke[o].stream # c
         /\ conn'[c] = conn[c]
         /\ Recorded(c) \/ ReadyStep(c)
<1> USE DEF TypeOK, DatabaseTypeOK
<1>1. HookOrder(c)
  BY DEF OrderInv
<1>2. /\ conn[c].phase = "publishing" /\ conn'[c] = conn[c]
      /\ ready'[c] = ready[c] \/ ReadyStep(c)
  BY <1>1, HookMoves DEF Recorded, ReadyHandled, Stays, Comes, Publishes, Leaves, NotReadyStep,
    NotReadyEnd, NotReadyLost, HookOrder
<1>3. auth[c].pc = "done" /\ auth[c].key \in Keys /\ keys[auth[c].key].status # "unused"
  BY <1>2 DEF SafetyInv, AdmissionInv
<1>4. auth'[c] = auth[c]
  <2>1. ASSUME NEW d \in Conns, AuthStep(d)
        PROVE  auth'[c] = auth[c]
    BY <1>3, <2>1 DEF AuthStep, AuthLock, AuthNotFound, AuthRefuseStatus, AuthExpire,
      AuthRefuseInUse, AuthAllow, Decide, AuthCommit, AuthCommitUnacknowledged, AuthAbort
  <2> QED
    BY <1>2, <2>1, StepCases DEF Connect
<1>5. auth[c].key = conn[c].path /\ KeyRow(conn[c].path)'
  BY <1>2, <1>4 DEF Recorded
<1>6. KeyRow(conn[c].path)
  BY <1>2, <1>3, <1>5, KeysMoveForward DEF KeyMoves, KeyRow, KeyStatus, Key
<1>7. \A o \in Operators : revoke[o].stream # c
  BY FoundStreamStays, ConstantsAssumption DEF Recorded
<1> QED
  BY <1>2, <1>3, <1>5, <1>6, <1>7 DEF Recorded, ReadyHandled

\* The second half: no row of a connection that publishes was refused or ended.
LEMMA PublishersHaveStreams ==
  ASSUME TypeOK, SafetyInv, RevokeInv, PathInv, OrderInv, OrderlyHooks, RecordsFollowPublishers,
         [Next]_vars, NEW c \in Conns, Recorded(c)'
  PROVE  streams'[c].status = "active"
<1> USE DEF TypeOK, DatabaseTypeOK
<1> DEFINE p == conn[c].path
<1>0. /\ conn[c].phase = "publishing" /\ p \in Keys /\ KeyRow(p) /\ conn'[c] = conn[c]
      /\ \A o \in Operators : revoke[o].stream # c
      /\ Recorded(c) \/ ReadyStep(c)
  BY RecordedSince
<1>1. /\ HookOrder(c) /\ notReady[c] = "none"
      /\ Recorded(c) => streams[c].status = "active"
  BY <1>0 DEF OrderInv, HookOrder, RecordsFollowPublishers, Recorded
<1>2. ASSUME NEW d \in Conns, d # c, conn[d].path = p,
             ready[c].pc \in {"found", "created", "skipped"},
             ready[d].pc \in {"found", "created", "skipped"}
      PROVE  notReady[d] = "done" /\ streams[d].status # "active"
  BY <1>1, <1>2, OneAtATime DEF RecordsFollowPublishers
<1>3. CASE ReadyStep(c)
  <2>1. CASE ReadyLookup(c) \/ ReadyUnknownPath(c)
    BY <1>0, <2>1 DEF ReadyLookup, ReadyUnknownPath, HookKey, Recorded, ReadyHandled, ReadyRecord
  <2>2. CASE ReadyInsert(c)
    BY <2>2 DEF ReadyInsert, InsertStream
  <2>3. CASE ReadyInsertRefused(c)
    <3>1. ready[c].pc = "found" /\ ready[c].key = p
      BY <2>3 DEF ReadyInsertRefused, SafetyInv, AdmissionInv
    <3>2. PICK s \in ActiveStreamsOf(p) : TRUE
      BY <1>0, <2>3, <3>1 DEF ReadyInsertRefused, InsertStreamRefused
    <3>3. /\ s \in Conns /\ streams[s].status = "active" /\ ready[s].pc = "created"
          /\ conn[s].path = p
      BY <3>2 DEF ActiveStreamsOf, SafetyInv, AdmissionInv, TableInv, StreamRow, StreamStatus, PathInv
    <3> QED
      BY <1>2, <3>1, <3>3
  <2> QED
    BY <1>3, <2>1, <2>2, <2>3 DEF ReadyStep, ReadyLost, OrderlyHooks
<1>4. ASSUME Recorded(c), streams[c].status = "active"
      PROVE  streams'[c].status = "active"
  <2>1. streams[c].key = p /\ streams[c].path = p
    BY <1>4 DEF SafetyInv, TableInv, StreamRow, StreamStatus, PathInv
  <2>2. ASSUME NEW b \in Broadcasters, DeleteBroadcaster(b)
        PROVE  streams'[c].status = "active"
    <3>1. p \notin KeysOf(b)
      <4>1. p \in KeysOf(b) => keys'[p].status = "deleted"
        BY <1>0, <2>2 DEF DeleteBroadcaster, Key
      <4> QED
        BY <1>0, <4>1 DEF Recorded, KeyRow, KeyStatus
    <3> QED
      BY <1>4, <2>1, <2>2, <3>1 DEF DeleteBroadcaster, StreamsOf
  <2>3. ASSUME NEW d \in Conns, ReadyInsert(d)
        PROVE  streams'[c].status = "active"
    BY <1>4, <2>3 DEF ReadyInsert, InsertStream
  <2>4. ASSUME NEW d \in Conns, NotReadyEnd(d)
        PROVE  streams'[c].status = "active"
    <3>1. ready[d].pc \in {"created", "skipped"} /\ notReady[d] = "sent"
      BY <2>4 DEF NotReadyEnd, OrderlyHooks, ReadyHandled, OrderInv, HookOrder
    <3>2. ready[c].pc \in {"created", "skipped"}
      BY <1>1, <1>4 DEF Recorded, ReadyHandled, HookOrder
    <3>3. conn[d].path # p
      BY <1>1, <1>2, <3>1, <3>2
    <3> QED
      BY <1>4, <2>1, <2>4, <3>3 DEF NotReadyEnd, EndStreamByPath, EndStreams, ActiveStreamsAt
  <2>5. ASSUME NEW o \in Operators, RevokeEndStream(o)
        PROVE  streams'[c].status = "active"
    BY <1>0, <1>4, <2>5 DEF RevokeEndStream, EndStream, EndStreams
  <2> QED
    BY <1>4, <2>2, <2>3, <2>4, <2>5, StreamCases
<1> QED
  BY <1>0, <1>1, <1>3, <1>4

\* When hooks arrive in order and no handler fails, the rows follow the
\* publishers, whatever publishers, revocations and deletions do meanwhile.
THEOREM RecordsFollowPublishersHolds ==
  ASSUME OrderlyHooks
  PROVE  Spec => []RecordsFollowPublishers
<1>1. Init => RecordsFollowPublishers
  BY DEF Init, NoConn, RecordsFollowPublishers
<1>2. /\ TypeOK /\ SafetyInv /\ RevokeInv /\ PathInv /\ OrderInv /\ RecordsFollowPublishers
      /\ [Next]_vars
      => RecordsFollowPublishers'
  BY LeftHaveNoStream, PublishersHaveStreams DEF RecordsFollowPublishers, Recorded
<1> QED
  BY <1>1, <1>2, TypeCorrect, SafetyCorrect, RevokeInvariant, PathInvariant, OrderInvariant, PTL
  DEF Spec
=============================================================================
