------------------------- MODULE StreamSafetyProofs -------------------------
(***************************************************************************)
(* The safety of publishing, for every value of the constants.  The        *)
(* inductive invariant is SafetyInv: who holds a row lock, what an         *)
(* authentication may rely on while it holds one, what the tables keep,    *)
(* and what admission leaves behind.                                       *)
(***************************************************************************)
EXTENDS StreamTypeProofs

\* A key row is locked by the authentication of that key, between its SELECT
\* FOR UPDATE and its COMMIT, and a row that is locked is not deleted.
LockInv ==
  /\ \A k \in Keys : keyLock[k] # None =>
       auth[keyLock[k]].key = k /\ auth[keyLock[k]].pc \in {"locked", "commit"}
  /\ \A c \in Conns : auth[c].pc \in {"locked", "commit"} =>
       auth[c].key \in Keys /\ keyLock[auth[c].key] = c /\ KeyRow(auth[c].key)

\* What was decided under the lock is still so: an uncommitted expiry is one of
\* an active key, an uncommitted admission one of an active key without a stream.
DecisionInv ==
  /\ \A c \in Conns : auth[c].expire =>
       auth[c].pc = "commit" /\ auth[c].verdict = "deny" /\ keys[auth[c].key].status = "active"
  /\ AllowStaysTrue

\* The tables: besides the foreign keys and the index, a stream's path is the
\* value of its key.
TableInv ==
  /\ \A s \in Conns : StreamRow(s) =>
       streams[s].key \in Keys /\ streams[s].path = streams[s].key
  /\ \A k \in Keys : KeyRow(k) => keys[k].owner \in Broadcasters
  /\ NoOrphans
  /\ OneActivePerKey

\* From a committed admission to the stream's row.
AdmissionInv ==
  /\ \A k \in Keys : keys[k].used => keys[k].status # "unused"
  /\ \A c \in Conns :
       /\ conn[c].phase = "idle" => auth[c].pc = "none"
       /\ auth[c].pc = "done" /\ auth[c].verdict = "allow" =>
            auth[c].key \in Keys /\ keys[auth[c].key].used
       /\ conn[c].phase \in {"accepted", "publishing"} \/ ready[c].pc # "none" =>
            auth[c].pc = "done" /\ auth[c].verdict = "allow"
       /\ ready[c].pc # "none" => conn[c].phase \in {"publishing", "closed"}
       /\ ready[c].pc = "found" => ready[c].key \in Keys /\ ready[c].key = conn[c].path
       /\ streams[c].status # "unused" => ready[c].pc = "created"

SafetyInv == LockInv /\ DecisionInv /\ TableInv /\ AdmissionInv

-----------------------------------------------------------------------------

\* The active streams that one UPDATE ends: those of a path, or a single one.
Ended(S) ==
  /\ S \subseteq {s \in Conns : streams[s].status = "active"}
  /\ (\E p \in Paths \cup {None} : S = ActiveStreamsAt(p)) \/ (\E s : S \subseteq {s})

\* What a step of anything but an authentication does to the tables.
TableStep ==
  \/ UNCHANGED dbVars
  \/ \E b \in Broadcasters : InsertBroadcaster(b)
  \/ \E b \in Broadcasters : DeleteBroadcaster(b)
  \/ \E k \in Keys, b \in Broadcasters, e \in Expiry : InsertKey(k, b, e)
  \/ \E k \in Keys : /\ keys' = [keys EXCEPT ![k].expiry = "past"]
                     /\ UNCHANGED <<broadcasters, streams, keyLock>>
  \/ \E c \in Conns : ready[c].pc = "found" /\ InsertStream(c, ready[c].key, conn[c].path)
  \/ \E S : Ended(S) /\ EndStreams(S)
  \/ \E k \in Keys : UpdateKeyStatus(k, "revoked")

\* A step is one of an authentication, or leaves them alone but for a new one.
LEMMA StepCases ==
  ASSUME TypeOK, [Next]_vars
  PROVE  \/ \E c \in Conns : AuthStep(c)
         \/ TableStep /\ UNCHANGED auth
         \/ \E c \in Conns, login \in Logins : Connect(c, login)
<1> USE DEF TableStep, dbVars
<1>1. CASE Environment
  <2>1. CASE \E b \in Broadcasters : CreateBroadcaster(b) \/ RemoveBroadcaster(b)
    BY <2>1 DEF CreateBroadcaster, RemoveBroadcaster
  <2>2. CASE \E k \in Keys, b \in Broadcasters, e \in Expiry : CreateKey(k, b, e)
    BY <2>2 DEF CreateKey
  <2>3. CASE \E k \in Keys : ExpiresAtPasses(k)
    BY <2>3 DEF ExpiresAtPasses
  <2>4. CASE \E c \in Conns : GiveUp(c) \/ Publish(c) \/ Disconnect(c)
    BY <2>4 DEF GiveUp, Publish, Disconnect
  <2>5. CASE \E o \in Operators, k \in Keys : RevokeStart(o, k) \/ RevokeRefused(o, k)
    BY <2>5 DEF RevokeStart, RevokeRefused
  <2> QED
    BY <1>1, <2>1, <2>2, <2>3, <2>4, <2>5 DEF Environment
<1>2. ASSUME NEW c \in Conns, ReadyStep(c) \/ NotReadyStep(c)
      PROVE  TableStep /\ UNCHANGED auth
  <2>1. CASE ReadyLookup(c) \/ ReadyUnknownPath(c) \/ ReadyLost(c) \/ NotReadyLost(c)
    BY <2>1 DEF ReadyLookup, ReadyUnknownPath, ReadyLost, NotReadyLost
  <2>2. CASE ReadyInsertRefused(c)
    BY <2>2 DEF ReadyInsertRefused, InsertStreamRefused
  <2>3. CASE ReadyInsert(c)
    BY <2>3 DEF ReadyInsert
  <2>4. CASE NotReadyEnd(c)
    <3>1. conn[c].path \in Paths \cup {None}
      BY DEF TypeOK, ConnRecord
    <3>2. Ended(ActiveStreamsAt(conn[c].path))
      BY <3>1 DEF Ended, ActiveStreamsAt
    <3> QED
      BY <2>4, <3>2 DEF NotReadyEnd, EndStreamByPath
  <2> QED
    BY <1>2, <2>1, <2>2, <2>3, <2>4 DEF ReadyStep, NotReadyStep
<1>3. ASSUME NEW o \in Operators, RevokeStep(o)
      PROVE  TableStep /\ UNCHANGED auth
  <2>1. CASE \/ \E s \in Conns : RevokeFindStream(o, s)
             \/ RevokeNoStream(o) \/ KickList(o) \/ KickListFails(o)
             \/ RevokeEndStreamFails(o) \/ RevokeKeyGone(o) \/ RevokeAbort(o)
    BY <2>1 DEF RevokeFindStream, RevokeNoStream, KickList, KickListFails,
                RevokeEndStreamFails, RevokeKeyGone, RevokeAbort
  <2>2. CASE \E c \in Conns : Kick(o, c) \/ KickFails(o, c)
    BY <2>2 DEF Kick, KickFails
  <2>3. CASE RevokeEndStream(o)
    <3> DEFINE S == {revoke[o].stream} \cap {r \in Conns : streams[r].status = "active"}
    <3>1. Ended(S)
      BY DEF Ended
    <3> QED
      BY <2>3, <3>1 DEF RevokeEndStream, EndStream
  <2>4. CASE RevokeUpdate(o)
    <3>1. revoke[o].key \in Keys \cup {None}
      BY DEF TypeOK, RevokeRecord
    <3>2. CASE revoke[o].key \in Keys
      BY <2>4, <3>2 DEF RevokeUpdate
    <3>3. CASE revoke[o].key \notin Keys
      BY <2>4, <3>3 DEF RevokeUpdate, UpdateKeyStatus, TypeOK, DatabaseTypeOK
    <3> QED
      BY <3>2, <3>3
  <2> QED
    BY <1>3, <2>1, <2>2, <2>3, <2>4 DEF RevokeStep
<1>4. CASE \E c \in Conns : AuthAnswered(c)
  BY <1>4 DEF AuthAnswered
<1>5. CASE UNCHANGED vars
  BY <1>5 DEF vars
<1> QED
  BY <1>1, <1>2, <1>3, <1>4, <1>5 DEF Next, Finished, Environment

-----------------------------------------------------------------------------

\* The statements of the other requests leave the row locks, and the rows that
\* are locked, alone.
LEMMA LockTable ==
  ASSUME TypeOK, LockInv, TableStep, UNCHANGED auth
  PROVE  LockInv'
<1> USE DEF TypeOK, DatabaseTypeOK, LockInv, KeyRow
<1>1. CASE UNCHANGED dbVars
  BY <1>1 DEF dbVars
<1>2. CASE \E b \in Broadcasters : InsertBroadcaster(b)
  BY <1>2 DEF InsertBroadcaster
<1>3. ASSUME NEW b \in Broadcasters, DeleteBroadcaster(b)
      PROVE  LockInv'
  <2>1. \A k \in Keys : keyLock[k] # None => keys'[k] = keys[k]
    BY <1>3 DEF DeleteBroadcaster, Unlocked
  <2>2. \A c \in Conns : auth[c].pc \in {"locked", "commit"} =>
          keys'[auth[c].key] = keys[auth[c].key]
    BY <2>1, ConstantsAssumption
  <2>3. UNCHANGED keyLock
    BY <1>3 DEF DeleteBroadcaster
  <2> QED
    BY <2>2, <2>3
<1>4. CASE \E k \in Keys, b \in Broadcasters, e \in Expiry : InsertKey(k, b, e)
  BY <1>4 DEF InsertKey, KeyStatus
<1>5. CASE \E k \in Keys : /\ keys' = [keys EXCEPT ![k].expiry = "past"]
                           /\ UNCHANGED <<broadcasters, streams, keyLock>>
  BY <1>5 DEF Key
<1>6. CASE \E c \in Conns : ready[c].pc = "found" /\ InsertStream(c, ready[c].key, conn[c].path)
  BY <1>6 DEF InsertStream
<1>7. CASE \E S : Ended(S) /\ EndStreams(S)
  BY <1>7 DEF EndStreams
<1>8. CASE \E k \in Keys : UpdateKeyStatus(k, "revoked")
  BY <1>8 DEF UpdateKeyStatus, Key, KeyStatus
<1> QED
  BY <1>1, <1>2, <1>3, <1>4, <1>5, <1>6, <1>7, <1>8 DEF TableStep

\* COMMIT writes only the row that the transaction has locked, keeps that row,
\* and frees it.
LEMMA CommitWrites ==
  ASSUME TypeOK, LockInv, NEW c \in Conns, auth[c].pc = "commit", AuthWrites(c)
  PROVE  /\ keys' \in [Keys -> Key]
         /\ \A k \in Keys : k # auth[c].key => keys'[k] = keys[k]
         /\ auth[c].key \in Keys
         /\ LET k == auth[c].key
            IN /\ keys'[k].status = IF auth[c].expire THEN "expired" ELSE keys[k].status
               /\ keys'[k].used = IF auth[c].verdict = "allow" THEN TRUE ELSE keys[k].used
               /\ keys'[k].owner = keys[k].owner
<1> USE DEF TypeOK, DatabaseTypeOK
<1>1. auth[c].key \in Keys
  BY DEF LockInv
<1> DEFINE k == auth[c].key
           st == IF auth[c].expire THEN "expired" ELSE keys[k].status
           u == IF auth[c].verdict = "allow" THEN TRUE ELSE keys[k].used
<1>2. keys[k] \in Key
  BY <1>1
<1>3. keys' = [keys EXCEPT ![k] = [keys[k] EXCEPT !.status = st, !.used = u]]
  BY DEF AuthWrites
<1>4. st \in KeyStatus \cup {"unused", "deleted"} /\ u \in BOOLEAN
  BY <1>2 DEF Key, KeyStatus
<1> HIDE DEF st, u
<1>5. [keys[k] EXCEPT !.status = st, !.used = u] \in Key
  BY <1>2, <1>4 DEF Key
<1>6. /\ keys' \in [Keys -> Key]
      /\ \A j \in Keys : j # k => keys'[j] = keys[j]
      /\ keys'[k] = [keys[k] EXCEPT !.status = st, !.used = u]
  BY <1>1, <1>3, <1>5
<1>7. keys'[k].status = st /\ keys'[k].used = u /\ keys'[k].owner = keys[k].owner
  BY <1>2, <1>6 DEF Key
<1> QED
  BY <1>1, <1>6, <1>7 DEF st, u

\* An authentication locks a free row and frees it when it ends.
LEMMA LockAuth ==
  ASSUME TypeOK, LockInv, DecisionInv, NEW c \in Conns, AuthStep(c)
  PROVE  LockInv'
<1> USE DEF TypeOK, DatabaseTypeOK, LockInv, KeyRow, dbVars
<1>0. auth[c] \in AuthRecord /\ c # None
  BY ConstantsAssumption
<1>1. CASE AuthLock(c)
  <2> DEFINE k == auth[c].key
  <2>1. /\ auth[c].pc = "begin" /\ k \in Keys /\ keys[k].status \in KeyStatus
        /\ keyLock[k] = None /\ keyLock' = [keyLock EXCEPT ![k] = c] /\ UNCHANGED keys
    BY <1>1 DEF AuthLock, SelectKeyForUpdate, Unlocked
  <2>2. auth'[c].key = k /\ auth'[c].pc = "locked"
    BY <1>0, <1>1 DEF AuthLock, AuthRecord
  <2>3. \A d \in Conns : d # c => auth'[d] = auth[d]
    BY <1>1 DEF AuthLock
  <2>4. \A j \in Keys : keyLock'[j] = IF j = k THEN c ELSE keyLock[j]
    BY <2>1
  <2>5. \A j \in Keys : keyLock[j] # c
    BY <1>0, <2>1
  <2>6. ASSUME NEW j \in Keys, keyLock'[j] # None
        PROVE  auth'[keyLock'[j]].key = j /\ auth'[keyLock'[j]].pc \in {"locked", "commit"}
    BY <2>2, <2>3, <2>4, <2>5, <2>6
  <2>7. ASSUME NEW d \in Conns, auth'[d].pc \in {"locked", "commit"}
        PROVE  /\ auth'[d].key \in Keys /\ keyLock'[auth'[d].key] = d
               /\ keys'[auth'[d].key].status \in KeyStatus
    <3>1. CASE d = c
      BY <2>1, <2>2, <2>4, <3>1
    <3>2. CASE d # c
      <4>1. /\ auth'[d] = auth[d] /\ auth[d].key \in Keys /\ keyLock[auth[d].key] = d
            /\ keys[auth[d].key].status \in KeyStatus
        BY <2>3, <2>7, <3>2
      <4>2. auth[d].key # k
        BY <2>1, <4>1, ConstantsAssumption
      <4> QED
        BY <2>1, <2>4, <4>1, <4>2
    <3> QED
      BY <3>1, <3>2
  <2> QED
    BY <2>6, <2>7
<1>2. CASE AuthNotFound(c)
  BY <1>0, <1>2, ConstantsAssumption DEF AuthNotFound, AuthRecord
<1>3. CASE AuthRefuseStatus(c) \/ AuthExpire(c) \/ AuthRefuseInUse(c) \/ AuthAllow(c)
  <2>1. PICK v, e : Decide(c, v, e) /\ auth[c].pc = "locked"
    BY <1>3 DEF AuthRefuseStatus, AuthExpire, AuthRefuseInUse, AuthAllow
  <2>2. \A d \in Conns : auth'[d].key = auth[d].key
    BY <1>0, <2>1 DEF Decide, AuthRecord
  <2>3. auth'[c].pc = "commit" /\ \A d \in Conns : d # c => auth'[d] = auth[d]
    BY <1>0, <2>1 DEF Decide, AuthRecord
  <2> QED
    BY <2>1, <2>2, <2>3, ConstantsAssumption DEF Decide
<1>4. CASE AuthCommit(c) \/ AuthCommitUnacknowledged(c) \/ AuthAbort(c)
  <2>1. /\ Release(c)
        /\ auth'[c].pc = "done"
        /\ \A d \in Conns : d # c => auth'[d] = auth[d]
    <3>1. CASE AuthCommit(c)
      BY <1>0, <3>1 DEF AuthCommit, AuthRecord
    <3>2. CASE AuthCommitUnacknowledged(c)
      BY <1>0, <3>2 DEF AuthCommitUnacknowledged, AuthRecord
    <3>3. CASE AuthAbort(c)
      BY <1>0, <3>3 DEF AuthAbort, AuthRecord
    <3> QED
      BY <1>4, <3>1, <3>2, <3>3
  <2>2. \A k \in Keys : KeyRow(k) => keys'[k].status \in KeyStatus
    <3>1. CASE UNCHANGED keys
      BY <3>1
    <3>2. CASE auth[c].pc = "commit" /\ AuthWrites(c)
      BY <3>2, CommitWrites DEF KeyStatus
    <3> QED
      BY <1>4, <3>1, <3>2 DEF AuthCommit, AuthCommitUnacknowledged, AuthAbort
  <2>3. \A k \in Keys : keyLock'[k] = IF keyLock[k] = c THEN None ELSE keyLock[k]
    BY <2>1 DEF Release
  <2>4. \A d \in Conns : auth'[d].pc \in {"locked", "commit"} => d # c /\ auth'[d] = auth[d]
    BY <2>1
  <2> QED
    BY <1>0, <2>1, <2>2, <2>3, <2>4
<1> QED
  BY <1>1, <1>2, <1>3, <1>4 DEF AuthStep

-----------------------------------------------------------------------------

\* Two authentications hold the locks of different keys.
LEMMA LockedKeysDiffer ==
  ASSUME LockInv, NEW c \in Conns, NEW d \in Conns, c # d,
         auth[c].pc \in {"locked", "commit"}, auth[d].pc \in {"locked", "commit"}
  PROVE  auth[c].key # auth[d].key
  BY DEF LockInv

\* While an authentication decides and commits, no other statement changes the
\* status of its key or starts a stream of it.
LEMMA LockedIsStable ==
  ASSUME TypeOK, LockInv, TableStep, UNCHANGED auth, NEW c \in Conns, auth[c].pc = "commit"
  PROVE  /\ keys'[auth[c].key].status = keys[auth[c].key].status
         /\ ActiveStreamsOf(auth[c].key)' \subseteq ActiveStreamsOf(auth[c].key)
<1> USE DEF TypeOK, DatabaseTypeOK
<1> DEFINE k == auth[c].key
<1>0. k \in Keys /\ keyLock[k] = c /\ c # None /\ KeyRow(k)
  BY ConstantsAssumption DEF LockInv
<1>1. CASE UNCHANGED dbVars
  BY <1>1 DEF dbVars, ActiveStreamsOf
<1>2. CASE \E b \in Broadcasters : InsertBroadcaster(b)
  BY <1>2 DEF InsertBroadcaster, ActiveStreamsOf
<1>3. ASSUME NEW b \in Broadcasters, DeleteBroadcaster(b)
      PROVE  /\ keys'[k].status = keys[k].status
             /\ ActiveStreamsOf(auth[c].key)' \subseteq ActiveStreamsOf(k)
  <2>1. k \notin KeysOf(b)
    BY <1>0, <1>3 DEF DeleteBroadcaster, Unlocked
  <2>2. keys'[k] = keys[k]
    BY <1>0, <1>3, <2>1 DEF DeleteBroadcaster
  <2>3. \A s \in Conns : streams'[s].key = streams[s].key
                        /\ (streams'[s].status = "active" => streams[s].status = "active")
    BY <1>3 DEF DeleteBroadcaster, Stream
  <2> QED
    BY <2>2, <2>3 DEF ActiveStreamsOf
<1>4. CASE \E j \in Keys, b \in Broadcasters, e \in Expiry : InsertKey(j, b, e)
  BY <1>0, <1>4 DEF InsertKey, KeyRow, KeyStatus, ActiveStreamsOf
<1>5. CASE \E j \in Keys : /\ keys' = [keys EXCEPT ![j].expiry = "past"]
                           /\ UNCHANGED <<broadcasters, streams, keyLock>>
  BY <1>0, <1>5 DEF ActiveStreamsOf, Key
<1>6. ASSUME NEW d \in Conns, InsertStream(d, ready[d].key, conn[d].path)
      PROVE  /\ keys'[k].status = keys[k].status
             /\ ActiveStreamsOf(auth[c].key)' \subseteq ActiveStreamsOf(k)
  <2>1. ready[d].key # k /\ UNCHANGED keys
    BY <1>0, <1>6 DEF InsertStream, StreamKeyExists, Unlocked
  <2>2. \A s \in Conns : s # d => streams'[s] = streams[s]
    BY <1>6 DEF InsertStream
  <2>3. streams'[d].key # k
    BY <1>6, <2>1 DEF InsertStream
  <2> QED
    BY <2>1, <2>2, <2>3 DEF ActiveStreamsOf
<1>7. CASE \E S : Ended(S) /\ EndStreams(S)
  <2>1. \A s \in Conns : streams'[s].key = streams[s].key
                        /\ (streams'[s].status = "active" => streams[s].status = "active")
    BY <1>7 DEF EndStreams, Stream
  <2> QED
    BY <1>7, <2>1 DEF EndStreams, ActiveStreamsOf
<1>8. CASE \E j \in Keys : UpdateKeyStatus(j, "revoked")
  BY <1>0, <1>8 DEF UpdateKeyStatus, Unlocked, ActiveStreamsOf
<1> QED
  BY <1>1, <1>2, <1>3, <1>4, <1>5, <1>6, <1>7, <1>8 DEF TableStep

LEMMA DecisionTable ==
  ASSUME TypeOK, LockInv, DecisionInv, TableStep, UNCHANGED auth
  PROVE  DecisionInv'
<1>1. ASSUME NEW c \in Conns, auth'[c].expire
      PROVE  /\ auth'[c].pc = "commit" /\ auth'[c].verdict = "deny"
             /\ keys'[auth'[c].key].status = "active"
  <2>1. auth[c].pc = "commit" /\ auth[c].verdict = "deny" /\ keys[auth[c].key].status = "active"
    BY <1>1 DEF DecisionInv
  <2> QED
    BY <2>1, LockedIsStable
<1>2. ASSUME NEW c \in Conns, auth'[c].pc = "commit", auth'[c].verdict = "allow"
      PROVE  keys'[auth'[c].key].status = "active" /\ ActiveStreamsOf(auth[c].key)' = {}
  <2>1. keys[auth[c].key].status = "active" /\ ActiveStreamsOf(auth[c].key) = {}
    BY <1>2 DEF DecisionInv, AllowStaysTrue
  <2> QED
    BY <1>2, <2>1, LockedIsStable
<1> QED
  BY <1>1, <1>2 DEF DecisionInv, AllowStaysTrue

\* An authentication decides under the lock; its commit touches no other's key.
LEMMA DecisionAuth ==
  ASSUME TypeOK, LockInv, DecisionInv, NEW c \in Conns, AuthStep(c)
  PROVE  DecisionInv'
<1> USE DEF TypeOK, DatabaseTypeOK, dbVars
<1>0. auth[c] \in AuthRecord
  OBVIOUS
<1> DEFINE Good(d) ==
      /\ auth[d].expire => /\ auth[d].pc = "commit" /\ auth[d].verdict = "deny"
                           /\ keys[auth[d].key].status = "active"
      /\ auth[d].pc = "commit" /\ auth[d].verdict = "allow" =>
           keys[auth[d].key].status = "active" /\ ActiveStreamsOf(auth[d].key) = {}
<1>1. \A d \in Conns : Good(d)
  BY DEF DecisionInv, AllowStaysTrue
<1>2. UNCHANGED streams /\ \A d \in Conns : d # c => auth'[d] = auth[d]
  BY DEF AuthStep, AuthLock, SelectKeyForUpdate, AuthNotFound, AuthRefuseStatus, AuthExpire,
         AuthRefuseInUse, AuthAllow, Decide, AuthCommit, AuthCommitUnacknowledged, AuthAbort
<1>3. ASSUME NEW d \in Conns, d # c, auth[d].pc = "commit"
      PROVE  keys'[auth[d].key] = keys[auth[d].key]
  <2>1. CASE UNCHANGED keys
    BY <2>1
  <2>2. CASE auth[c].pc = "commit" /\ AuthWrites(c)
    <3>1. auth[d].key # auth[c].key
      BY <1>3, <2>2, LockedKeysDiffer
    <3>2. auth[d].key \in Keys
      BY <1>3 DEF LockInv
    <3> QED
      BY <2>2, <3>1, <3>2, CommitWrites
  <2> QED
    BY <2>1, <2>2 DEF AuthStep, AuthLock, SelectKeyForUpdate, AuthNotFound, AuthRefuseStatus,
      AuthExpire, AuthRefuseInUse, AuthAllow, Decide, AuthCommit, AuthCommitUnacknowledged,
      AuthAbort
<1>4. ASSUME NEW d \in Conns, d # c
      PROVE  Good(d)'
  <2>1. auth'[d] = auth[d]
    BY <1>2, <1>4
  <2>2. Good(d)
    BY <1>1
  <2>3. CASE auth[d].pc = "commit"
    BY <1>2, <1>3, <1>4, <2>1, <2>2, <2>3 DEF ActiveStreamsOf
  <2>4. CASE auth[d].pc # "commit"
    BY <2>1, <2>2, <2>4
  <2> QED
    BY <2>3, <2>4
<1>5. Good(c)'
  <2>0. Good(c)
    BY <1>1
  <2>1. CASE AuthLock(c)
    BY <1>0, <2>0, <2>1 DEF AuthLock, AuthRecord
  <2>2. CASE AuthNotFound(c)
    BY <1>0, <2>0, <2>2 DEF AuthNotFound, AuthRecord
  <2>3. CASE AuthRefuseStatus(c) \/ AuthRefuseInUse(c)
    <3>1. Decide(c, "deny", FALSE)
      BY <2>3 DEF AuthRefuseStatus, AuthRefuseInUse
    <3>2. auth'[c].verdict = "deny" /\ auth'[c].expire = FALSE
      BY <1>0, <3>1 DEF Decide, AuthRecord
    <3> QED
      BY <3>2
  <2>4. CASE AuthExpire(c)
    <3>1. /\ auth'[c].verdict = "deny" /\ auth'[c].pc = "commit" /\ auth'[c].key = auth[c].key
          /\ keys'[auth[c].key].status = "active"
      BY <1>0, <2>4 DEF AuthExpire, Decide, AuthRecord
    <3> QED
      BY <3>1
  <2>5. CASE AuthAllow(c)
    <3>1. /\ auth'[c].expire = FALSE /\ auth'[c].key = auth[c].key
          /\ keys'[auth[c].key].status = "active"
          /\ ActiveStreamsOf(auth[c].key) = {}
      BY <1>0, <2>5 DEF AuthAllow, Decide, AuthRecord, NotInUse
    <3> QED
      BY <1>2, <3>1 DEF ActiveStreamsOf
  <2>6. CASE AuthCommit(c) \/ AuthCommitUnacknowledged(c) \/ AuthAbort(c)
    <3>1. CASE AuthCommit(c)
      BY <1>0, <3>1 DEF AuthCommit, AuthRecord
    <3>2. CASE AuthCommitUnacknowledged(c)
      BY <1>0, <3>2 DEF AuthCommitUnacknowledged, AuthRecord
    <3>3. CASE AuthAbort(c)
      BY <1>0, <3>3 DEF AuthAbort, AuthRecord
    <3> QED
      BY <2>6, <3>1, <3>2, <3>3
  <2> QED
    BY <2>1, <2>2, <2>3, <2>4, <2>5, <2>6 DEF AuthStep
<1>6. \A d \in Conns : Good(d)'
  BY <1>4, <1>5
<1> QED
  BY <1>6 DEF DecisionInv, AllowStaysTrue

-----------------------------------------------------------------------------

\* The statements of the other requests keep the tables consistent: the cascade
\* takes the streams with their keys, the index admits one active stream of a
\* key, and the foreign key refuses a stream whose key is gone.
LEMMA TableTable ==
  ASSUME TypeOK, TableInv, AdmissionInv, TableStep
  PROVE  TableInv'
<1> USE DEF TypeOK, DatabaseTypeOK, TableInv, NoOrphans, OneActivePerKey, KeyRow, StreamRow
<1>1. CASE UNCHANGED dbVars
  BY <1>1 DEF dbVars
<1>2. CASE \E b \in Broadcasters : InsertBroadcaster(b)
  BY <1>2 DEF InsertBroadcaster
<1>3. ASSUME NEW b \in Broadcasters, DeleteBroadcaster(b)
      PROVE  TableInv'
  <2>1. \A k \in Keys : keys'[k].status \in KeyStatus =>
          /\ k \notin KeysOf(b) /\ keys'[k] = keys[k]
    BY <1>3 DEF DeleteBroadcaster, Key, KeyStatus
  <2>2. \A k \in Keys : keys'[k].status \in KeyStatus =>
          keys'[k].owner \in Broadcasters /\ broadcasters'[keys'[k].owner] = "present"
    BY <1>3, <2>1 DEF DeleteBroadcaster, KeysOf
  <2>3. \A s \in Conns : streams'[s].status \in StreamStatus =>
          streams'[s] = streams[s] /\ streams[s].key \notin KeysOf(b)
    BY <1>3 DEF DeleteBroadcaster, StreamsOf, Stream, StreamStatus
  <2>4. \A k \in Keys : k \notin KeysOf(b) => keys'[k] = keys[k]
    BY <1>3 DEF DeleteBroadcaster
  <2>5. \A s \in Conns : streams'[s].status \in StreamStatus =>
          /\ streams'[s].key \in Keys /\ streams'[s].path = streams'[s].key
          /\ keys'[streams'[s].key].status \in KeyStatus
    BY <2>3, <2>4
  <2>6. OneActivePerKey'
    BY <2>3 DEF StreamStatus
  <2> QED
    BY <2>2, <2>5, <2>6
<1>4. ASSUME NEW k \in Keys, NEW b \in Broadcasters, NEW e \in Expiry, InsertKey(k, b, e)
      PROVE  TableInv'
  <2>1. keys'[k].status = "active" /\ keys'[k].owner = b /\ broadcasters[b] = "present"
    BY <1>4 DEF InsertKey
  <2>2. \A j \in Keys : j # k => keys'[j] = keys[j]
    BY <1>4 DEF InsertKey
  <2>3. UNCHANGED <<streams, broadcasters>>
    BY <1>4 DEF InsertKey
  <2> QED
    BY <2>1, <2>2, <2>3 DEF KeyStatus
<1>5. CASE \E k \in Keys : /\ keys' = [keys EXCEPT ![k].expiry = "past"]
                           /\ UNCHANGED <<broadcasters, streams, keyLock>>
  <2>1. \A k \in Keys : keys'[k].status = keys[k].status /\ keys'[k].owner = keys[k].owner
    BY <1>5 DEF Key
  <2> QED
    BY <1>5, <2>1
<1>6. ASSUME NEW c \in Conns, ready[c].pc = "found", InsertStream(c, ready[c].key, conn[c].path)
      PROVE  TableInv'
  <2> DEFINE k == ready[c].key
  <2>1. k \in Keys /\ conn[c].path = k
    BY <1>6 DEF AdmissionInv
  <2>2. /\ streams'[c].key = k /\ streams'[c].path = k
        /\ keys[k].status \in KeyStatus /\ UNCHANGED <<keys, broadcasters>>
        /\ ActiveStreamsOf(k) = {}
    BY <1>6, <2>1 DEF InsertStream, StreamKeyExists, OneActivePerKeyIndex
  <2>3. \A s \in Conns : s # c => streams'[s] = streams[s]
    BY <1>6 DEF InsertStream
  <2>4. \A s \in Conns : s # c /\ streams'[s].status = "active" => streams'[s].key # k
    BY <2>2, <2>3 DEF ActiveStreamsOf
  <2>5. OneActivePerKey'
    BY <2>2, <2>3, <2>4
  <2> QED
    BY <2>1, <2>2, <2>3, <2>5
<1>7. ASSUME NEW S, Ended(S), EndStreams(S)
      PROVE  TableInv'
  <2>1. \A s \in Conns : /\ streams'[s].key = streams[s].key /\ streams'[s].path = streams[s].path
                         /\ (streams'[s].status = "active" => streams[s].status = "active")
                         /\ (streams'[s].status \in StreamStatus =>
                               streams[s].status \in StreamStatus)
    BY <1>7 DEF Ended, EndStreams, Stream, StreamStatus
  <2>2. UNCHANGED <<keys, broadcasters>>
    BY <1>7 DEF EndStreams
  <2> QED
    BY <2>1, <2>2
<1>8. CASE \E k \in Keys : UpdateKeyStatus(k, "revoked")
  <2>1. \A k \in Keys : /\ keys'[k].owner = keys[k].owner
                        /\ keys'[k].status \in KeyStatus <=> keys[k].status \in KeyStatus
    BY <1>8 DEF UpdateKeyStatus, Key, KeyStatus
  <2> QED
    BY <1>8, <2>1 DEF UpdateKeyStatus
<1> QED
  BY <1>1, <1>2, <1>3, <1>4, <1>5, <1>6, <1>7, <1>8 DEF TableStep

\* What an authentication writes is in one key row, which stays a row with the
\* same owner.
LEMMA AuthTables ==
  ASSUME TypeOK, LockInv, NEW c \in Conns, AuthStep(c)
  PROVE  /\ UNCHANGED <<broadcasters, streams>>
         /\ \A k \in Keys : /\ keys'[k].owner = keys[k].owner
                            /\ KeyRow(k)' <=> KeyRow(k)
                            /\ keys[k].status # "unused" => keys'[k].status # "unused"
                            /\ keys[k].used => keys'[k].used
                            /\ keys'[k].used => keys[k].used \/ KeyRow(k)
<1> USE DEF TypeOK, DatabaseTypeOK, KeyRow
<1>1. CASE UNCHANGED <<broadcasters, streams, keys>>
  BY <1>1
<1>2. CASE /\ UNCHANGED <<broadcasters, streams>>
           /\ auth[c].pc = "commit" /\ AuthWrites(c)
  <2>1. keys[auth[c].key].status \in KeyStatus
    BY <1>2 DEF LockInv
  <2> QED
    BY <1>2, <2>1, CommitWrites DEF KeyStatus
<1> QED
  BY <1>1, <1>2 DEF AuthStep, AuthLock, SelectKeyForUpdate, AuthNotFound, AuthRefuseStatus,
    AuthExpire, AuthRefuseInUse, AuthAllow, Decide, AuthCommit, AuthCommitUnacknowledged,
    AuthAbort, dbVars

LEMMA TableAuth ==
  ASSUME TypeOK, LockInv, TableInv, NEW c \in Conns, AuthStep(c)
  PROVE  TableInv'
<1>1. UNCHANGED <<broadcasters, streams>>
  BY AuthTables
<1>2. \A k \in Keys : keys'[k].owner = keys[k].owner /\ (KeyRow(k)' <=> KeyRow(k))
  BY AuthTables
<1> QED
  BY <1>1, <1>2 DEF TableInv, NoOrphans, OneActivePerKey, StreamRow, KeyRow

-----------------------------------------------------------------------------

\* A key that was used stays so, and was issued.
LEMMA UsedStays ==
  ASSUME TypeOK, LockInv, AdmissionInv, [Next]_vars
  PROVE  \A k \in Keys : /\ keys[k].used => keys'[k].used
                         /\ keys'[k].used => keys'[k].status # "unused"
<1> USE DEF TypeOK, DatabaseTypeOK
<1>0. \A k \in Keys : keys[k].used => keys[k].status # "unused"
  BY DEF AdmissionInv
<1>1. ASSUME NEW c \in Conns, AuthStep(c)
      PROVE  \A k \in Keys : /\ keys[k].used => keys'[k].used
                             /\ keys'[k].used => keys'[k].status # "unused"
  BY <1>0, <1>1, AuthTables DEF KeyRow, KeyStatus
<1>2. CASE TableStep
  <2>1. CASE UNCHANGED keys
    BY <1>0, <2>1
  <2>2. ASSUME NEW b \in Broadcasters, DeleteBroadcaster(b)
        PROVE  \A k \in Keys : /\ keys[k].used => keys'[k].used
                               /\ keys'[k].used => keys'[k].status # "unused"
    BY <1>0, <2>2 DEF DeleteBroadcaster, Key
  <2>3. ASSUME NEW j \in Keys, NEW b \in Broadcasters, NEW e \in Expiry, InsertKey(j, b, e)
        PROVE  \A k \in Keys : /\ keys[k].used => keys'[k].used
                               /\ keys'[k].used => keys'[k].status # "unused"
    <3>1. keys'[j].used = FALSE /\ keys[j].status = "unused"
      BY <2>3 DEF InsertKey
    <3>2. \A k \in Keys : k # j => keys'[k] = keys[k]
      BY <2>3 DEF InsertKey
    <3> QED
      BY <1>0, <3>1, <3>2
  <2>4. CASE \E k \in Keys : keys' = [keys EXCEPT ![k].expiry = "past"]
    BY <1>0, <2>4 DEF Key
  <2>5. CASE \E k \in Keys : UpdateKeyStatus(k, "revoked")
    BY <1>0, <2>5 DEF UpdateKeyStatus, Key
  <2> QED
    BY <1>2, <2>1, <2>2, <2>3, <2>4, <2>5
    DEF TableStep, dbVars, InsertBroadcaster, InsertStream, EndStreams
<1>3. CASE \E c \in Conns, login \in Logins : Connect(c, login)
  BY <1>0, <1>3 DEF Connect, dbVars
<1> QED
  BY <1>1, <1>2, <1>3, StepCases

\* The conjuncts of AdmissionInv that speak of one connection.
Admission(c) ==
  /\ conn[c].phase = "idle" => auth[c].pc = "none"
  /\ auth[c].pc = "done" /\ auth[c].verdict = "allow" =>
       auth[c].key \in Keys /\ keys[auth[c].key].used
  /\ conn[c].phase \in {"accepted", "publishing"} \/ ready[c].pc # "none" =>
       auth[c].pc = "done" /\ auth[c].verdict = "allow"
  /\ ready[c].pc # "none" => conn[c].phase \in {"publishing", "closed"}
  /\ ready[c].pc = "found" => ready[c].key \in Keys /\ ready[c].key = conn[c].path
  /\ streams[c].status # "unused" => ready[c].pc = "created"

\* A connection whose records do not change, but that it may have been closed,
\* keeps what it was admitted by.
LEMMA AdmissionKept ==
  ASSUME TypeOK, LockInv, AdmissionInv, [Next]_vars, NEW c \in Conns,
         conn'[c].path = conn[c].path, conn'[c].phase \in {conn[c].phase, "closed"},
         auth'[c] = auth[c], ready'[c] = ready[c],
         streams'[c].status # "unused" => streams[c].status # "unused"
  PROVE  Admission(c)'
<1>1. Admission(c)
  BY DEF AdmissionInv, Admission
<1>2. auth[c].key \in Keys /\ keys[auth[c].key].used => keys'[auth[c].key].used
  BY UsedStays
<1> QED
  BY <1>1, <1>2 DEF Admission

\* The statements other than INSERT make no stream row.
LEMMA NoNewStream ==
  ASSUME TypeOK, NEW c \in Conns,
         UNCHANGED streams \/ (\E b \in Broadcasters : DeleteBroadcaster(b))
                           \/ (\E S : EndStreams(S) /\ Ended(S))
  PROVE  streams'[c].status # "unused" => streams[c].status # "unused"
<1> USE DEF TypeOK, DatabaseTypeOK
<1>1. ASSUME NEW b \in Broadcasters, DeleteBroadcaster(b), streams[c].status = "unused"
      PROVE  streams'[c].status = "unused"
  <2>1. c \notin StreamsOf(KeysOf(b))
    BY <1>1 DEF StreamsOf, StreamRow, StreamStatus
  <2> QED
    BY <1>1, <2>1 DEF DeleteBroadcaster
<1>2. ASSUME NEW S, EndStreams(S), Ended(S), streams[c].status = "unused"
      PROVE  streams'[c].status = "unused"
  BY <1>2 DEF EndStreams, Ended
<1> QED
  BY <1>1, <1>2

LEMMA AdmissionAuth ==
  ASSUME TypeOK, LockInv, AdmissionInv, [Next]_vars, NEW d \in Conns, AuthStep(d)
  PROVE  \A c \in Conns : Admission(c)'
<1> USE DEF TypeOK, DatabaseTypeOK
<1>1. /\ UNCHANGED <<conn, ready, streams>>
      /\ \A c \in Conns : c # d => auth'[c] = auth[c]
      /\ auth[d].pc \in {"begin", "locked", "commit"}
  <2>1. CASE AuthLock(d)
    BY <2>1 DEF AuthLock, SelectKeyForUpdate
  <2>2. CASE AuthNotFound(d)
    BY <2>2 DEF AuthNotFound, dbVars
  <2>3. CASE AuthRefuseStatus(d) \/ AuthExpire(d) \/ AuthRefuseInUse(d) \/ AuthAllow(d)
    <3>1. auth[d].pc = "locked" /\ \E v, e : Decide(d, v, e)
      BY <2>3 DEF AuthRefuseStatus, AuthExpire, AuthRefuseInUse, AuthAllow
    <3> QED
      BY <3>1 DEF Decide, dbVars
  <2>4. CASE AuthCommit(d) \/ AuthCommitUnacknowledged(d) \/ AuthAbort(d)
    BY <2>4 DEF AuthCommit, AuthCommitUnacknowledged, AuthAbort
  <2> QED
    BY <2>1, <2>2, <2>3, <2>4 DEF AuthStep
<1>2. \A c \in Conns : c # d => Admission(c)'
  BY <1>1, AdmissionKept
<1>3. Admission(d)'
  <2>0. Admission(d)
    BY DEF AdmissionInv, Admission
  <2>1. /\ conn[d].phase \notin {"idle", "accepted", "publishing"}
        /\ ready[d].pc = "none" /\ streams[d].status = "unused"
    BY <1>1, <2>0 DEF Admission
  <2>2. auth'[d].pc = "done" /\ auth'[d].verdict = "allow" =>
          auth'[d].key \in Keys /\ keys'[auth'[d].key].used
    <3>1. CASE AuthCommit(d)
      <4>1. /\ auth[d].pc = "commit" /\ AuthWrites(d)
            /\ auth'[d].key = auth[d].key /\ auth'[d].verdict = auth[d].verdict
        BY <3>1 DEF AuthCommit, AuthRecord
      <4> QED
        BY <4>1, CommitWrites
    <3>2. CASE AuthCommitUnacknowledged(d) \/ AuthAbort(d)
      <4>1. auth'[d].verdict = "error"
        BY <3>2 DEF AuthCommitUnacknowledged, AuthAbort, AuthRecord
      <4> QED
        BY <4>1
    <3>3. CASE AuthNotFound(d)
      BY <3>3 DEF AuthNotFound, AuthRecord
    <3>4. CASE AuthLock(d)
      BY <3>4 DEF AuthLock, AuthRecord
    <3>5. CASE AuthRefuseStatus(d) \/ AuthExpire(d) \/ AuthRefuseInUse(d) \/ AuthAllow(d)
      <4>1. PICK v, e : Decide(d, v, e)
        BY <3>5 DEF AuthRefuseStatus, AuthExpire, AuthRefuseInUse, AuthAllow
      <4>2. auth'[d].pc = "commit"
        BY <4>1 DEF Decide, AuthRecord
      <4> QED
        BY <4>2
    <3> QED
      BY <3>1, <3>2, <3>3, <3>4, <3>5 DEF AuthStep
  <2> QED
    BY <1>1, <2>1, <2>2 DEF Admission
<1> QED
  BY <1>2, <1>3

LEMMA AdmissionHooks ==
  ASSUME TypeOK, LockInv, AdmissionInv, [Next]_vars,
         NEW d \in Conns, ReadyStep(d) \/ NotReadyStep(d)
  PROVE  \A c \in Conns : Admission(c)'
<1> USE DEF TypeOK, DatabaseTypeOK
<1>0. /\ UNCHANGED <<conn, auth>>
      /\ \A c \in Conns : c # d => ready'[c] = ready[c]
      /\ \A c \in Conns : c # d => (streams'[c].status # "unused" => streams[c].status # "unused")
  <2>1. CASE ReadyInsert(d)
    BY <2>1 DEF ReadyInsert, InsertStream
  <2>2. CASE NotReadyEnd(d)
    <3>1. Ended(ActiveStreamsAt(conn[d].path))
      BY DEF Ended, ActiveStreamsAt, ConnRecord
    <3> QED
      BY <2>2, <3>1, NoNewStream DEF NotReadyEnd, EndStreamByPath
  <2> QED
    BY <2>1, <2>2 DEF ReadyStep, NotReadyStep, ReadyLookup, ReadyUnknownPath, ReadyInsertRefused,
      InsertStreamRefused, ReadyLost, NotReadyLost, dbVars
<1>1. \A c \in Conns : c # d => Admission(c)'
  BY <1>0, AdmissionKept
<1>2. Admission(d)
  BY DEF AdmissionInv, Admission
<1>3. auth[d].key \in Keys /\ keys[auth[d].key].used => keys'[auth[d].key].used
  BY UsedStays
<1>4. CASE ReadyInsert(d)
  <2>1. ready[d].pc = "found" /\ ready'[d].pc = "created"
    BY <1>4 DEF ReadyInsert, ReadyRecord
  <2> QED
    BY <1>0, <1>1, <1>2, <1>3, <2>1 DEF Admission
<1>5. CASE ReadyLookup(d) \/ ReadyUnknownPath(d) \/ ReadyInsertRefused(d) \/ ReadyLost(d)
  <2>1. /\ ready[d].pc \in {"sent", "found"} /\ UNCHANGED streams
        /\ ready'[d].pc \in {"found", "skipped", "lost"}
        /\ ready'[d].pc = "found" => ready'[d].key \in Keys /\ ready'[d].key = conn[d].path
    <3>1. CASE ReadyLookup(d)
      BY <3>1 DEF ReadyLookup, HookKey, ReadyRecord, dbVars
    <3>2. CASE ReadyUnknownPath(d) \/ ReadyInsertRefused(d) \/ ReadyLost(d)
      BY <3>2 DEF ReadyUnknownPath, ReadyInsertRefused, InsertStreamRefused, ReadyLost,
                  ReadyRecord, dbVars
    <3> QED
      BY <1>5, <3>1, <3>2
  <2> QED
    BY <1>0, <1>1, <1>2, <1>3, <2>1 DEF Admission
<1>6. CASE NotReadyEnd(d) \/ NotReadyLost(d)
  <2>1. streams'[d].status # "unused" => streams[d].status # "unused"
    <3>1. Ended(ActiveStreamsAt(conn[d].path))
      BY DEF Ended, ActiveStreamsAt, ConnRecord
    <3> QED
      BY <1>6, <3>1, NoNewStream DEF NotReadyEnd, EndStreamByPath, NotReadyLost, dbVars
  <2>2. UNCHANGED ready
    BY <1>6 DEF NotReadyEnd, NotReadyLost
  <2>3. Admission(d)'
    BY <1>0, <2>1, <2>2, AdmissionKept
  <2> QED
    BY <1>1, <2>3
<1> QED
  BY <1>4, <1>5, <1>6 DEF ReadyStep, NotReadyStep

\* Connect, AuthAnswered and Publish move one connection on; Publish closes the
\* publisher that it replaces.
LEMMA AdmissionConnections ==
  ASSUME TypeOK, LockInv, AdmissionInv, [Next]_vars, NEW d \in Conns,
         \/ \E login \in Logins : Connect(d, login)
         \/ AuthAnswered(d) \/ GiveUp(d) \/ Publish(d) \/ Disconnect(d)
  PROVE  \A c \in Conns : Admission(c)'
<1> USE DEF TypeOK, ConnRecord
<1>0. /\ UNCHANGED streams
      /\ \A c \in Conns : c # d =>
           /\ auth'[c] = auth[c] /\ ready'[c] = ready[c] /\ conn'[c].path = conn[c].path
           /\ conn'[c].phase \in {conn[c].phase, "closed"}
  <2>1. CASE \E login \in Logins : Connect(d, login)
    BY <2>1 DEF Connect, dbVars
  <2>2. CASE AuthAnswered(d) \/ GiveUp(d) \/ Disconnect(d)
    BY <2>2 DEF AuthAnswered, GiveUp, Disconnect, SetPhase, dbVars
  <2>3. CASE Publish(d)
    <3>1. UNCHANGED <<streams, auth>> /\ \A c \in Conns : c # d => ready'[c] = ready[c]
      BY <2>3 DEF Publish, dbVars
    <3>2. ASSUME NEW c \in Conns, c # d
          PROVE  conn'[c] \in {conn[c], [conn[c] EXCEPT !.phase = "closed"]}
      BY <2>3, <3>2 DEF Publish
    <3>3. \A c \in Conns : conn[c] \in ConnRecord
      OBVIOUS
    <3> QED
      BY <3>1, <3>2, <3>3
  <2> QED
    BY <2>1, <2>2, <2>3
<1>1. \A c \in Conns : c # d => Admission(c)'
  BY <1>0, AdmissionKept
<1>2. Admission(d)
  BY DEF AdmissionInv, Admission
<1>3. auth[d].key \in Keys /\ keys[auth[d].key].used => keys'[auth[d].key].used
  BY UsedStays
<1>4. Admission(d)'
  <2>1. ASSUME NEW login \in Logins, Connect(d, login)
        PROVE  Admission(d)'
    <3>1. /\ conn[d].phase = "idle" /\ conn'[d].phase = "authenticating"
          /\ auth'[d].pc = "begin" /\ ready'[d] = ready[d]
      BY <2>1 DEF Connect, AuthRecord
    <3> QED
      BY <1>0, <1>2, <3>1 DEF Admission
  <2>2. CASE AuthAnswered(d)
    <3>1. /\ conn[d].phase = "authenticating" /\ auth[d].pc = "done"
          /\ conn'[d].phase = IF auth[d].verdict = "allow" THEN "accepted" ELSE "closed"
          /\ auth'[d] = auth[d] /\ ready'[d] = ready[d]
      BY <2>2 DEF AuthAnswered, SetPhase
    <3> QED
      BY <1>0, <1>2, <1>3, <3>1 DEF Admission
  <2>3. CASE GiveUp(d) \/ Disconnect(d)
    <3>1. /\ conn'[d].path = conn[d].path /\ conn'[d].phase = "closed"
          /\ auth'[d] = auth[d] /\ ready'[d] = ready[d]
      BY <2>3 DEF GiveUp, Disconnect, SetPhase
    <3> QED
      BY <1>0, <3>1, AdmissionKept
  <2>4. CASE Publish(d)
    <3>1. /\ conn[d].phase = "accepted" /\ conn'[d].phase = "publishing"
          /\ auth'[d] = auth[d] /\ ready'[d].pc = "sent"
      BY <2>4 DEF Publish, ReadyRecord
    <3> QED
      BY <1>0, <1>2, <1>3, <3>1 DEF Admission
  <2> QED
    BY <2>1, <2>2, <2>3, <2>4
<1> QED
  BY <1>1, <1>4

\* The operator's requests and the clock move no connection on; a kick closes one.
LEMMA AdmissionOperator ==
  ASSUME TypeOK, LockInv, AdmissionInv, [Next]_vars,
         \/ \E b \in Broadcasters : CreateBroadcaster(b) \/ RemoveBroadcaster(b)
         \/ \E k \in Keys, b \in Broadcasters, e \in Expiry : CreateKey(k, b, e)
         \/ \E k \in Keys : ExpiresAtPasses(k)
         \/ \E o \in Operators, k \in Keys : RevokeStart(o, k) \/ RevokeRefused(o, k)
         \/ \E o \in Operators : RevokeStep(o)
         \/ UNCHANGED vars
  PROVE  \A c \in Conns : Admission(c)'
<1> USE DEF TypeOK, DatabaseTypeOK
<1> DEFINE Kept == \A c \in Conns :
             /\ conn'[c].path = conn[c].path /\ conn'[c].phase \in {conn[c].phase, "closed"}
             /\ auth'[c] = auth[c] /\ ready'[c] = ready[c]
             /\ streams'[c].status # "unused" => streams[c].status # "unused"
<1>1. CASE \E b \in Broadcasters : RemoveBroadcaster(b)
  <2>1. \E b \in Broadcasters : DeleteBroadcaster(b)
    BY <1>1 DEF RemoveBroadcaster
  <2>2. UNCHANGED <<conn, auth, ready>>
    BY <1>1 DEF RemoveBroadcaster
  <2> HIDE DEF TypeOK, DatabaseTypeOK
  <2>3. Kept
    BY <2>1, <2>2, NoNewStream
  <2> QED
    BY <2>3, AdmissionKept
<1>2. CASE \/ \E b \in Broadcasters : CreateBroadcaster(b)
           \/ \E k \in Keys, b \in Broadcasters, e \in Expiry : CreateKey(k, b, e)
           \/ \E k \in Keys : ExpiresAtPasses(k)
           \/ \E o \in Operators, k \in Keys : RevokeStart(o, k) \/ RevokeRefused(o, k)
           \/ UNCHANGED vars
  <2>1. UNCHANGED <<conn, auth, ready, streams>>
    BY <1>2 DEF CreateBroadcaster, InsertBroadcaster, CreateKey, InsertKey, ExpiresAtPasses,
                RevokeStart, RevokeRefused, vars, dbVars
  <2> HIDE DEF TypeOK, DatabaseTypeOK
  <2> QED
    BY <2>1, AdmissionKept
<1>3. ASSUME NEW o \in Operators, RevokeStep(o)
      PROVE  \A c \in Conns : Admission(c)'
  <2>1. CASE RevokeEndStream(o)
    <3> DEFINE S == {revoke[o].stream} \cap {r \in Conns : streams[r].status = "active"}
    <3>1. Ended(S) /\ EndStreams(S)
      BY <2>1 DEF Ended, RevokeEndStream, EndStream
    <3>2. UNCHANGED <<conn, auth, ready>>
      BY <2>1 DEF RevokeEndStream
    <3> HIDE DEF TypeOK, DatabaseTypeOK, S
    <3>3. Kept
      BY <3>1, <3>2, NoNewStream
    <3> QED
      BY <3>3, AdmissionKept
  <2>2. ASSUME NEW d \in Conns, Kick(o, d)
        PROVE  \A c \in Conns : Admission(c)'
    <3>1. Kept
      BY <2>2 DEF Kick, SetPhase, ConnRecord, dbVars
    <3> QED
      BY <3>1, AdmissionKept
  <2>3. ASSUME UNCHANGED <<conn, auth, ready, streams>>
        PROVE  \A c \in Conns : Admission(c)'
    BY <2>3, AdmissionKept
  <2>4. CASE \/ \E s \in Conns : RevokeFindStream(o, s)
             \/ RevokeNoStream(o) \/ KickList(o) \/ KickListFails(o)
             \/ \E c \in Conns : KickFails(o, c)
             \/ RevokeEndStreamFails(o) \/ RevokeUpdate(o) \/ RevokeKeyGone(o)
             \/ RevokeAbort(o)
    <3>1. UNCHANGED <<conn, auth, ready, streams>>
      BY <2>4 DEF RevokeFindStream, RevokeNoStream, KickList, KickListFails, KickFails,
        RevokeEndStreamFails, RevokeUpdate, UpdateKeyStatus, RevokeKeyGone, RevokeAbort, dbVars
    <3> QED
      BY <3>1, <2>3
  <2> QED
    BY <1>3, <2>1, <2>2, <2>4 DEF RevokeStep
<1> QED
  BY <1>1, <1>2, <1>3

LEMMA AdmissionStep ==
  ASSUME TypeOK, LockInv, AdmissionInv, [Next]_vars
  PROVE  AdmissionInv'
<1>1. \A c \in Conns : Admission(c)'
  BY AdmissionAuth, AdmissionHooks, AdmissionConnections, AdmissionOperator
  DEF Next, Environment, Finished
<1>2. \A k \in Keys : keys'[k].used => keys'[k].status # "unused"
  BY UsedStays
<1> QED
  BY <1>1, <1>2 DEF AdmissionInv, Admission

-----------------------------------------------------------------------------

\* A new authentication holds no lock and has decided nothing.
LEMMA ConnectKeeps ==
  ASSUME TypeOK, SafetyInv, NEW c \in Conns, NEW login \in Logins, Connect(c, login)
  PROVE  LockInv' /\ DecisionInv' /\ TableInv'
<1> USE DEF TypeOK, SafetyInv
<1>1. /\ auth[c].pc = "none" /\ auth'[c].pc = "begin" /\ auth'[c].expire = auth[c].expire
      /\ \A d \in Conns : d # c => auth'[d] = auth[d]
      /\ UNCHANGED dbVars
  BY DEF Connect, AdmissionInv, AuthRecord
<1>2. \A k \in Keys : keyLock[k] # None => keyLock[k] \in Conns \ {c}
  BY <1>1 DEF LockInv, DatabaseTypeOK
<1>3. LockInv'
  BY <1>1, <1>2 DEF LockInv, KeyRow, dbVars
<1>4. auth[c].expire = FALSE
  BY <1>1 DEF DecisionInv, AuthRecord
<1>5. DecisionInv'
  BY <1>1, <1>4 DEF DecisionInv, AllowStaysTrue, ActiveStreamsOf, dbVars
<1>6. TableInv'
  BY <1>1 DEF TableInv, NoOrphans, OneActivePerKey, KeyRow, StreamRow, dbVars
<1> QED
  BY <1>3, <1>5, <1>6

LEMMA SafetyInit == Init => SafetyInv
BY ConstantsAssumption
DEF Init, DatabaseInit, NoConn, NoAuth, NoReady, SafetyInv, LockInv, DecisionInv, AllowStaysTrue,
    TableInv, NoOrphans, OneActivePerKey, AdmissionInv, KeyRow, StreamRow, KeyStatus, StreamStatus

LEMMA SafetyInductive == TypeOK /\ SafetyInv /\ [Next]_vars => SafetyInv'
<1> SUFFICES ASSUME TypeOK, SafetyInv, [Next]_vars
             PROVE  SafetyInv'
  OBVIOUS
<1> USE DEF SafetyInv
<1>1. AdmissionInv'
  BY AdmissionStep
<1>2. ASSUME NEW c \in Conns, AuthStep(c)
      PROVE  LockInv' /\ DecisionInv' /\ TableInv'
  BY <1>2, LockAuth, DecisionAuth, TableAuth
<1>3. ASSUME TableStep, UNCHANGED auth
      PROVE  LockInv' /\ DecisionInv' /\ TableInv'
  BY <1>3, LockTable, DecisionTable, TableTable
<1>4. ASSUME NEW c \in Conns, NEW login \in Logins, Connect(c, login)
      PROVE  LockInv' /\ DecisionInv' /\ TableInv'
  BY <1>4, ConnectKeeps
<1> QED
  BY <1>1, <1>2, <1>3, <1>4, StepCases

\* The inductive invariant of publishing: locks, decisions, tables, admissions.
THEOREM SafetyCorrect == Spec => []SafetyInv
BY SafetyInit, SafetyInductive, TypeCorrect, PTL DEF Spec

\* However many publishers pass the check of AuthService.Authenticate, a key has
\* one active stream at most.
THEOREM OneActivePerKeyHolds == Spec => []OneActivePerKey
<1>1. SafetyInv => OneActivePerKey
  BY DEF SafetyInv, TableInv
<1> QED
  BY <1>1, SafetyCorrect, PTL

\* No request that looked a row up before it was deleted leaves an orphan.
THEOREM NoOrphansHolds == Spec => []NoOrphans
<1>1. SafetyInv => NoOrphans
  BY DEF SafetyInv, TableInv
<1> QED
  BY <1>1, SafetyCorrect, PTL

\* Two listed streams of one path would be two active streams of one key.
THEOREM ListedPathsDifferHolds == Spec => []ListedPathsDiffer
<1>1. SafetyInv => ListedPathsDiffer
  BY DEF SafetyInv, TableInv, OneActivePerKey, ListedPathsDiffer, ListActive, StreamRow, StreamStatus
<1> QED
  BY <1>1, SafetyCorrect, PTL

\* What getAndLockStreamKey and getActiveStreamByKeyID read is so until the COMMIT.
THEOREM AllowStaysTrueHolds == Spec => []AllowStaysTrue
<1>1. SafetyInv => AllowStaysTrue
  BY DEF SafetyInv, DecisionInv
<1> QED
  BY <1>1, SafetyCorrect, PTL

\* Whoever publishes, or has a stream record, was admitted by a committed
\* transaction that stamped the key's last_used_at.
THEOREM AdmittedWasRecordedHolds == Spec => []AdmittedWasRecorded
<1>1. SafetyInv => AdmittedWasRecorded
  BY DEF SafetyInv, AdmissionInv, AdmittedWasRecorded
<1> QED
  BY <1>1, SafetyCorrect, PTL

-----------------------------------------------------------------------------

\* No statement changes a revoked key but the one that deletes it: the only other
\* that writes a status is the expiry of an authentication, whose key is active
\* from its SELECT FOR UPDATE to its COMMIT.
THEOREM RevokedIsFinalHolds == Spec => RevokedIsFinal
<1>1. TypeOK /\ SafetyInv /\ [Next]_vars =>
        \A k \in Keys : keys[k].status = "revoked" => keys'[k].status \in {"revoked", "deleted"}
  <2> SUFFICES ASSUME TypeOK, SafetyInv, [Next]_vars, NEW k \in Keys, keys[k].status = "revoked"
               PROVE  keys'[k].status \in {"revoked", "deleted"}
    OBVIOUS
  <2> USE DEF TypeOK, DatabaseTypeOK
  <2>1. ASSUME NEW c \in Conns, AuthStep(c)
        PROVE  keys'[k].status = "revoked"
    <3>1. CASE UNCHANGED keys
      BY <3>1
    <3>2. CASE auth[c].pc = "commit" /\ AuthWrites(c)
      <4>1. auth[c].key = k => ~auth[c].expire
        BY DEF SafetyInv, DecisionInv
      <4> QED
        BY <3>2, <4>1, CommitWrites DEF SafetyInv
    <3> QED
      BY <2>1, <3>1, <3>2 DEF AuthStep, AuthLock, SelectKeyForUpdate, AuthNotFound,
        AuthRefuseStatus, AuthExpire, AuthRefuseInUse, AuthAllow, Decide, AuthCommit,
        AuthCommitUnacknowledged, AuthAbort, dbVars
  <2>2. CASE TableStep
    <3>1. CASE UNCHANGED keys
      BY <3>1
    <3>2. CASE \E b \in Broadcasters : DeleteBroadcaster(b)
      BY <3>2 DEF DeleteBroadcaster, Key
    <3>3. CASE \E j \in Keys, b \in Broadcasters, e \in Expiry : InsertKey(j, b, e)
      BY <3>3 DEF InsertKey
    <3>4. CASE \E j \in Keys : keys' = [keys EXCEPT ![j].expiry = "past"]
      BY <3>4 DEF Key
    <3>5. CASE \E j \in Keys : UpdateKeyStatus(j, "revoked")
      BY <3>5 DEF UpdateKeyStatus, Key
    <3> QED
      BY <2>2, <3>1, <3>2, <3>3, <3>4, <3>5
      DEF TableStep, dbVars, InsertBroadcaster, InsertStream, EndStreams
  <2>3. CASE \E c \in Conns, login \in Logins : Connect(c, login)
    BY <2>3 DEF Connect, dbVars
  <2> QED
    BY <2>1, <2>2, <2>3, StepCases
<1> QED
  BY <1>1, TypeCorrect, SafetyCorrect, PTL DEF Spec, RevokedIsFinal

\* Streams that end in one step have one path or are a single one; a path is the
\* value of one key, and a key has one active stream.
THEOREM EndsOneStreamHolds == Spec => EndsOneStream
<1>1. TypeOK /\ SafetyInv /\ [Next]_vars =>
        \A r, s \in Conns :
          /\ streams[r].status = "active" /\ streams'[r].status = "ended"
          /\ streams[s].status = "active" /\ streams'[s].status = "ended"
          => r = s
  <2> SUFFICES ASSUME TypeOK, SafetyInv, [Next]_vars, NEW r \in Conns, NEW s \in Conns,
                      streams[r].status = "active", streams'[r].status = "ended",
                      streams[s].status = "active", streams'[s].status = "ended"
               PROVE  r = s
    OBVIOUS
  <2>1. ASSUME NEW S, Ended(S), EndStreams(S)
        PROVE  r = s
    <3>1. r \in S /\ s \in S
      BY <2>1 DEF EndStreams
    <3>2. streams[r].path = streams[s].path => r = s
      BY DEF SafetyInv, TableInv, OneActivePerKey, StreamRow, StreamStatus
    <3> QED
      BY <2>1, <3>1, <3>2 DEF Ended, ActiveStreamsAt
  <2>2. UNCHANGED streams => r = s
    OBVIOUS
  <2>3. ASSUME NEW b \in Broadcasters, DeleteBroadcaster(b)
        PROVE  r = s
    BY <2>3 DEF DeleteBroadcaster, TypeOK, DatabaseTypeOK, Stream
  <2>4. ASSUME NEW c \in Conns, InsertStream(c, ready[c].key, conn[c].path)
        PROVE  r = s
    BY <2>4 DEF InsertStream
  <2>5. CASE TableStep
    BY <2>1, <2>2, <2>3, <2>4, <2>5
    DEF TableStep, dbVars, InsertBroadcaster, InsertKey, UpdateKeyStatus
  <2>6. CASE \E c \in Conns : AuthStep(c)
    BY <2>2, <2>6, AuthTables DEF SafetyInv
  <2>7. CASE \E c \in Conns, login \in Logins : Connect(c, login)
    BY <2>2, <2>7 DEF Connect, dbVars
  <2> QED
    BY <2>5, <2>6, <2>7, StepCases
<1> QED
  BY <1>1, TypeCorrect, SafetyCorrect, PTL DEF Spec, EndsOneStream
=============================================================================
