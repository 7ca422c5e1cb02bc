-------------------------- MODULE StreamTypeProofs --------------------------
(* Type correctness of StreamOrchestration, for every value of its constants. *)
EXTENDS StreamProperties, TLAPS

\* Ending streams keeps the type of the table.
LEMMA EndStreamsType ==
  ASSUME streams \in [Conns -> Stream], NEW S, EndStreams(S)
  PROVE  streams' \in [Conns -> Stream]
<1>1. \A s \in Conns : [streams[s] EXCEPT !.status = "ended"] \in Stream
  BY DEF Stream, StreamStatus
<1> QED
  BY <1>1 DEF EndStreams

\* The records of connections that the actions write.
LEMMA ConnectType ==
  ASSUME NEW r \in ConnRecord, NEW p \in Paths
  PROVE  [r EXCEPT !.phase = "authenticating", !.path = p] \in ConnRecord
  BY DEF ConnRecord

LEMMA PublishType ==
  ASSUME NEW r \in ConnRecord, NEW A \in SUBSET Conns
  PROVE  [r EXCEPT !.phase = "publishing", !.after = A] \in ConnRecord
  BY DEF ConnRecord

LEMMA CloseType ==
  ASSUME NEW r \in ConnRecord
  PROVE  [r EXCEPT !.phase = "closed"] \in ConnRecord
  BY DEF ConnRecord

\* Every step of an authentication keeps the types.
LEMMA AuthTypes ==
  ASSUME TypeOK, NEW c \in Conns, AuthStep(c)
  PROVE  TypeOK'
<1> USE DEF TypeOK, DatabaseTypeOK, AuthRecord, dbVars
<1>1. CASE AuthLock(c)
  BY <1>1 DEF AuthLock, SelectKeyForUpdate
<1>2. CASE AuthNotFound(c)
  BY <1>2 DEF AuthNotFound
<1>3. CASE AuthRefuseStatus(c)
  BY <1>3 DEF AuthRefuseStatus, Decide
<1>4. CASE AuthExpire(c)
  BY <1>4 DEF AuthExpire, Decide
<1>5. CASE AuthRefuseInUse(c)
  BY <1>5 DEF AuthRefuseInUse, Decide
<1>6. CASE AuthAllow(c)
  BY <1>6 DEF AuthAllow, Decide
<1>7. CASE AuthCommit(c) \/ AuthCommitUnacknowledged(c)
  <2>1. AuthWrites(c) /\ Release(c)
    BY <1>7 DEF AuthCommit, AuthCommitUnacknowledged
  <2>2. ASSUME NEW k \in Keys
        PROVE  keys'[k] \in Key
    <3>1. keys[k] \in Key
      OBVIOUS
    <3>2. CASE k = auth[c].key
      <4> DEFINE st == IF auth[c].expire THEN "expired" ELSE keys[k].status
                 u == IF auth[c].verdict = "allow" THEN TRUE ELSE keys[k].used
      <4>1. keys'[k] = [keys[k] EXCEPT !.status = st, !.used = u]
        BY <2>1, <3>2 DEF AuthWrites
      <4>2. st \in KeyStatus \cup {"unused", "deleted"} /\ u \in BOOLEAN
        BY <3>1 DEF Key, KeyStatus
      <4> HIDE DEF st, u
      <4> QED
        BY <3>1, <4>1, <4>2 DEF Key
    <3>3. CASE k # auth[c].key
      BY <2>1, <3>1, <3>3 DEF AuthWrites
    <3> QED
      BY <3>2, <3>3
  <2>3. keys' \in [Keys -> Key]
    BY <2>1, <2>2 DEF AuthWrites
  <2>4. keyLock' \in [Keys -> Conns \cup {None}]
    BY <2>1 DEF Release
  <2>5. auth' \in [Conns -> AuthRecord]
    <3>1. CASE AuthCommit(c)
      BY <3>1 DEF AuthCommit
    <3>2. CASE AuthCommitUnacknowledged(c)
      BY <3>2 DEF AuthCommitUnacknowledged
    <3> QED
      BY <1>7, <3>1, <3>2
  <2> QED
    BY <1>7, <2>3, <2>4, <2>5 DEF AuthCommit, AuthCommitUnacknowledged
<1>8. CASE AuthAbort(c)
  BY <1>8 DEF AuthAbort, Release
<1> QED
  BY <1>1, <1>2, <1>3, <1>4, <1>5, <1>6, <1>7, <1>8 DEF AuthStep

\* Every step of the hooks' handlers keeps the types.
LEMMA HookTypes ==
  ASSUME TypeOK, NEW c \in Conns, ReadyStep(c) \/ NotReadyStep(c)
  PROVE  TypeOK'
<1> USE DEF TypeOK, DatabaseTypeOK, ReadyRecord, NotReadyState, dbVars
<1>1. CASE ReadyLookup(c)
  BY <1>1 DEF ReadyLookup, HookKey
<1>2. CASE ReadyUnknownPath(c)
  BY <1>2 DEF ReadyUnknownPath, HookKey
<1>3. CASE ReadyInsert(c)
  <2>1. ready[c].key \in Keys \cup {None} /\ conn[c].path \in Paths \cup {None}
    BY DEF ConnRecord
  <2>2. [status |-> "active", key |-> ready[c].key, path |-> conn[c].path] \in Stream
    BY <2>1 DEF Stream, StreamStatus
  <2>3. streams' \in [Conns -> Stream]
    BY <1>3, <2>2 DEF ReadyInsert, InsertStream
  <2> QED
    BY <1>3, <2>3 DEF ReadyInsert, InsertStream
<1>4. CASE ReadyInsertRefused(c)
  BY <1>4 DEF ReadyInsertRefused, InsertStreamRefused
<1>5. CASE ReadyLost(c)
  BY <1>5 DEF ReadyLost
<1>6. CASE NotReadyEnd(c)
  <2>1. streams' \in [Conns -> Stream]
    BY <1>6, EndStreamsType DEF NotReadyEnd, EndStreamByPath
  <2> QED
    BY <1>6, <2>1 DEF NotReadyEnd, EndStreamByPath, EndStreams
<1>7. CASE NotReadyLost(c)
  BY <1>7 DEF NotReadyLost
<1> QED
  BY <1>1, <1>2, <1>3, <1>4, <1>5, <1>6, <1>7 DEF ReadyStep, NotReadyStep

\* KickPath moves on to a well-formed state.
LEMMA AfterKickType ==
  ASSUME NEW r \in RevokeRecord
  PROVE  AfterKick(r) \in RevokeRecord
  BY DEF AfterKick, RevokeRecord

\* Every step of a revocation keeps the types.
LEMMA RevokeTypes ==
  ASSUME TypeOK, NEW o \in Operators, RevokeStep(o)
  PROVE  TypeOK'
<1> USE DEF TypeOK, DatabaseTypeOK, dbVars
<1>0. revoke[o] \in RevokeRecord
  OBVIOUS
<1>a. ASSUME NEW r \in RevokeRecord, revoke' = [revoke EXCEPT ![o] = r],
             UNCHANGED <<dbVars, conn, auth, ready, notReady>>
      PROVE  TypeOK'
  BY <1>a
<1>1. ASSUME NEW s \in Conns, RevokeFindStream(o, s)
      PROVE  TypeOK'
  <2>1. [revoke[o] EXCEPT !.pc = "list", !.stream = s] \in RevokeRecord
    BY <1>0 DEF RevokeRecord
  <2> QED
    BY <1>1, <1>a, <2>1 DEF RevokeFindStream
<1>2. CASE RevokeNoStream(o)
  <2>1. [revoke[o] EXCEPT !.pc = "update"] \in RevokeRecord
    BY <1>0 DEF RevokeRecord
  <2> QED
    BY <1>2, <1>a, <2>1 DEF RevokeNoStream
<1>3. CASE KickList(o) \/ KickListFails(o)
  <2>1. \A T \in SUBSET Conns : [revoke[o] EXCEPT !.targets = T] \in RevokeRecord
    BY <1>0 DEF RevokeRecord
  <2>2. \E r \in RevokeRecord : revoke' = [revoke EXCEPT ![o] = AfterKick(r)]
    BY <1>3, <1>0, <2>1 DEF KickList, KickListFails, PublishersOn
  <2> QED
    BY <1>3, <2>2, AfterKickType DEF KickList, KickListFails
<1>4. ASSUME NEW c \in Conns, Kick(o, c) \/ KickFails(o, c)
      PROVE  TypeOK'
  <2>1. [revoke[o] EXCEPT !.targets = @ \ {c}] \in RevokeRecord
    BY <1>0 DEF RevokeRecord
  <2>2. AfterKick([revoke[o] EXCEPT !.targets = @ \ {c}]) \in RevokeRecord
    BY <2>1, AfterKickType
  <2>3. revoke' \in [Operators -> RevokeRecord]
    BY <1>4, <2>2 DEF Kick, KickFails
  <2>4. [conn[c] EXCEPT !.phase = "closed"] \in ConnRecord
    BY DEF ConnRecord
  <2>5. conn' \in [Conns -> ConnRecord] /\ notReady' \in [Conns -> NotReadyState]
    BY <1>4, <2>4 DEF Kick, KickFails, SetPhase, NotReadyState
  <2> QED
    BY <1>4, <2>3, <2>5 DEF Kick, KickFails
<1>5. CASE RevokeEndStream(o)
  <2>1. streams' \in [Conns -> Stream]
    BY <1>5, EndStreamsType DEF RevokeEndStream, EndStream
  <2>2. [revoke[o] EXCEPT !.pc = "update"] \in RevokeRecord
    BY <1>0 DEF RevokeRecord
  <2> QED
    BY <1>5, <2>1, <2>2 DEF RevokeEndStream, EndStream, EndStreams
<1>6. CASE RevokeEndStreamFails(o)
  <2>1. [revoke[o] EXCEPT !.pc = "update", !.clean = FALSE] \in RevokeRecord
    BY <1>0 DEF RevokeRecord
  <2> QED
    BY <1>6, <1>a, <2>1 DEF RevokeEndStreamFails
<1>7. CASE RevokeUpdate(o)
  <2>1. \A k \in Keys : [keys[k] EXCEPT !.status = "revoked"] \in Key
    BY DEF Key, KeyStatus
  <2>2. keys' \in [Keys -> Key]
    BY <1>7, <2>1 DEF RevokeUpdate, UpdateKeyStatus
  <2>3. [revoke[o] EXCEPT !.pc = "done", !.result = "revoked"] \in RevokeRecord
    BY <1>0 DEF RevokeRecord
  <2> QED
    BY <1>7, <2>2, <2>3 DEF RevokeUpdate, UpdateKeyStatus
<1>8. CASE RevokeKeyGone(o)
  <2>1. [revoke[o] EXCEPT !.pc = "done", !.result = "refused"] \in RevokeRecord
    BY <1>0 DEF RevokeRecord
  <2> QED
    BY <1>8, <1>a, <2>1 DEF RevokeKeyGone
<1>9. CASE RevokeAbort(o)
  <2>1. [revoke[o] EXCEPT !.pc = "done", !.result = "error"] \in RevokeRecord
    BY <1>0 DEF RevokeRecord
  <2> QED
    BY <1>9, <1>a, <2>1 DEF RevokeAbort
<1> QED
  BY <1>1, <1>2, <1>3, <1>4, <1>5, <1>6, <1>7, <1>8, <1>9 DEF RevokeStep

\* Every step of the environment keeps the types.
LEMMA EnvironmentTypes ==
  ASSUME TypeOK, Environment
  PROVE  TypeOK'
<1> USE DEF TypeOK, DatabaseTypeOK, dbVars
<1>1. ASSUME NEW b \in Broadcasters, CreateBroadcaster(b)
      PROVE  TypeOK'
  BY <1>1 DEF CreateBroadcaster, InsertBroadcaster, RowState
<1>2. ASSUME NEW b \in Broadcasters, RemoveBroadcaster(b)
      PROVE  TypeOK'
  <2>1. broadcasters' \in [Broadcasters -> RowState]
    BY <1>2 DEF RemoveBroadcaster, DeleteBroadcaster, RowState
  <2>2. keys' \in [Keys -> Key]
    BY <1>2 DEF RemoveBroadcaster, DeleteBroadcaster, Key
  <2>3. streams' \in [Conns -> Stream]
    BY <1>2 DEF RemoveBroadcaster, DeleteBroadcaster, Stream
  <2> QED
    BY <1>2, <2>1, <2>2, <2>3 DEF RemoveBroadcaster, DeleteBroadcaster
<1>3. ASSUME NEW k \in Keys, NEW b \in Broadcasters, NEW e \in Expiry, CreateKey(k, b, e)
      PROVE  TypeOK'
  <2>1. [status |-> "active", owner |-> b, expiry |-> e, used |-> FALSE] \in Key
    BY DEF Key, KeyStatus
  <2>2. keys' \in [Keys -> Key]
    BY <1>3, <2>1 DEF CreateKey, InsertKey
  <2> QED
    BY <1>3, <2>2 DEF CreateKey, InsertKey
<1>4. ASSUME NEW k \in Keys, ExpiresAtPasses(k)
      PROVE  TypeOK'
  BY <1>4 DEF ExpiresAtPasses, Key, Expiry
<1>5. ASSUME NEW c \in Conns, NEW login \in Logins, Connect(c, login)
      PROVE  TypeOK'
  <2>1. login.path \in Paths /\ Credential(login) \in Paths
    BY OrchestrationAssumption DEF Credential, Paths
  <2>0. [conn[c] EXCEPT !.phase = "authenticating", !.path = login.path] \in ConnRecord
    BY <2>1, ConnectType
  <2>2. conn' \in [Conns -> ConnRecord]
    BY <1>5, <2>0 DEF Connect
  <2>3. auth' \in [Conns -> AuthRecord]
    BY <1>5, <2>1 DEF Connect, AuthRecord
  <2> QED
    BY <1>5, <2>2, <2>3 DEF Connect
<1>6. ASSUME NEW c \in Conns, GiveUp(c)
      PROVE  TypeOK'
  BY <1>6 DEF GiveUp, SetPhase, ConnRecord
<1>7. ASSUME NEW c \in Conns, Publish(c)
      PROVE  TypeOK'
  <2>0. \A d \in Conns, A \in SUBSET Conns :
          /\ [conn[d] EXCEPT !.phase = "publishing", !.after = A] \in ConnRecord
          /\ [conn[d] EXCEPT !.phase = "closed"] \in ConnRecord
    BY PublishType, CloseType
  <2>1. conn' \in [Conns -> ConnRecord]
    BY <1>7, <2>0 DEF Publish
  <2>2. ready' \in [Conns -> ReadyRecord] /\ notReady' \in [Conns -> NotReadyState]
    BY <1>7 DEF Publish, ReadyRecord, NotReadyState
  <2> QED
    BY <1>7, <2>1, <2>2 DEF Publish
<1>8. ASSUME NEW c \in Conns, Disconnect(c)
      PROVE  TypeOK'
  BY <1>8 DEF Disconnect, SetPhase, ConnRecord, NotReadyState
<1>9. ASSUME NEW o \in Operators, NEW k \in Keys, RevokeStart(o, k) \/ RevokeRefused(o, k)
      PROVE  TypeOK'
  <2>1. /\ [revoke[o] EXCEPT !.pc = "find", !.key = k] \in RevokeRecord
        /\ [revoke[o] EXCEPT !.pc = "done", !.key = k, !.result = "refused"] \in RevokeRecord
    BY DEF RevokeRecord
  <2> QED
    BY <1>9, <2>1 DEF RevokeStart, RevokeRefused
<1> QED
  BY <1>1, <1>2, <1>3, <1>4, <1>5, <1>6, <1>7, <1>8, <1>9 DEF Environment

\* TypeOK is inductive.
LEMMA TypeInductive ==
  TypeOK /\ [Next]_vars => TypeOK'
<1> SUFFICES ASSUME TypeOK, [Next]_vars
             PROVE  TypeOK'
  OBVIOUS
<1>1. CASE Environment
  BY <1>1, EnvironmentTypes
<1>2. ASSUME NEW c \in Conns, AuthStep(c)
      PROVE  TypeOK'
  BY <1>2, AuthTypes
<1>3. ASSUME NEW c \in Conns, AuthAnswered(c)
      PROVE  TypeOK'
  BY <1>3 DEF AuthAnswered, SetPhase, TypeOK, DatabaseTypeOK, ConnRecord, dbVars
<1>4. ASSUME NEW c \in Conns, ReadyStep(c) \/ NotReadyStep(c)
      PROVE  TypeOK'
  BY <1>4, HookTypes
<1>5. ASSUME NEW o \in Operators, RevokeStep(o)
      PROVE  TypeOK'
  BY <1>5, RevokeTypes
<1>6. CASE UNCHANGED vars
  BY <1>6 DEF vars, TypeOK, DatabaseTypeOK
<1> QED
  BY <1>1, <1>2, <1>3, <1>4, <1>5, <1>6 DEF Next, Finished

\* The tables, the locks and the handlers' records keep their types, in every
\* instance of the system.
THEOREM TypeCorrect == Spec => []TypeOK
<1>1. Init => TypeOK
  BY DEF Init, DatabaseInit, TypeOK, DatabaseTypeOK, NoConn, NoAuth, NoReady, NoRevoke,
         RowState, Key, Stream, Expiry, ConnRecord, AuthRecord, ReadyRecord,
         NotReadyState, RevokeRecord
<1> QED
  BY <1>1, TypeInductive, PTL DEF Spec
=============================================================================
