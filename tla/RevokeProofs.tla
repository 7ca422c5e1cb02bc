----------------------------- MODULE RevokeProofs -----------------------------
(***************************************************************************)
(* What the answer of a revocation promises, for every value of the        *)
(* constants and with every fault.  A status of a key or of a stream only  *)
(* moves forward, so what Revoke has found or written is not undone.       *)
(***************************************************************************)
EXTENDS StreamSafetyProofs

Dead == {"revoked", "expired", "deleted"}
Over == {"ended", "deleted"}

\* What is known of a revocation that has come to the state r.
Known(r) ==
  /\ r.pc # "idle" => r.key \in Keys /\ keys[r.key].status # "unused"
  /\ r.pc \in {"idle", "find"} => r.stream = None
  /\ r.stream # None => streams[r.stream].status # "unused"
  /\ r.pc # "done" => r.result = "none"
  /\ r.pc = "update" \/ r.result = "revoked" =>
       (r.clean /\ r.stream # None => streams[r.stream].status \in Over)
  /\ r.result = "refused" => keys[r.key].status \in Dead
  /\ r.result = "revoked" => keys[r.key].status \in Dead \ {"expired"}

RevokeInv == \A o \in Operators : Known(revoke[o])

-----------------------------------------------------------------------------

\* How the status of a key may change in a step.
KeyMoves(k) ==
  /\ keys[k].status = "revoked" => keys'[k].status \in {"revoked", "deleted"}
  /\ keys[k].status \in Dead => keys'[k].status \in Dead
  /\ keys[k].status = "deleted" => keys'[k].status = "deleted"
  /\ keys[k].status # "unused" => keys'[k].status # "unused"

LEMMA KeysMoveForward ==
  ASSUME TypeOK, SafetyInv, [Next]_vars, NEW k \in Keys
  PROVE  KeyMoves(k)
<1> USE DEF TypeOK, DatabaseTypeOK, KeyMoves, Dead
<1>0. CASE UNCHANGED keys
  BY <1>0
<1>1. ASSUME NEW c \in Conns, AuthStep(c)
      PROVE  KeyMoves(k)
  <2>1. CASE auth[c].pc = "commit" /\ AuthWrites(c)
    <3>1. auth[c].expire => keys[auth[c].key].status = "active"
      BY DEF SafetyInv, DecisionInv
    <3> QED
      BY <2>1, <3>1, CommitWrites DEF SafetyInv
  <2> QED
    BY <1>0, <1>1, <2>1 DEF AuthStep, AuthLock, SelectKeyForUpdate, AuthNotFound,
      AuthRefuseStatus, AuthExpire, AuthRefuseInUse, AuthAllow, Decide, AuthCommit,
      AuthCommitUnacknowledged, AuthAbort, dbVars
<1>2. CASE TableStep
  <2>1. CASE \E b \in Broadcasters : DeleteBroadcaster(b)
    BY <2>1 DEF DeleteBroadcaster, KeysOf, KeyRow, KeyStatus, Key
  <2>2. CASE \E j \in Keys, b \in Broadcasters, e \in Expiry : InsertKey(j, b, e)
    BY <2>2 DEF InsertKey
  <2>3. CASE \E j \in Keys : keys' = [keys EXCEPT ![j].expiry = "past"]
    BY <2>3 DEF Key
  <2>4. CASE \E j \in Keys : UpdateKeyStatus(j, "revoked")
    BY <2>4 DEF UpdateKeyStatus, KeyRow, KeyStatus, Key
  <2> QED
    BY <1>0, <1>2, <2>1, <2>2, <2>3, <2>4
    DEF TableStep, dbVars, InsertBroadcaster, InsertStream, EndStreams
<1>3. CASE \E c \in Conns, login \in Logins : Connect(c, login)
  BY <1>0, <1>3 DEF Connect, dbVars
<1> QED
  BY <1>1, <1>2, <1>3, StepCases

StreamMoves(s) ==
  /\ streams[s].status # "unused" => streams'[s].status # "unused"
  /\ streams[s].status \in Over => streams'[s].status \in Over

LEMMA StreamsMoveForward ==
  ASSUME TypeOK, SafetyInv, [Next]_vars, NEW s \in Conns
  PROVE  StreamMoves(s)
<1> USE DEF TypeOK, DatabaseTypeOK, StreamMoves, Over
<1>0. CASE UNCHANGED streams
  BY <1>0
<1>1. CASE TableStep
  <2>1. CASE \E b \in Broadcasters : DeleteBroadcaster(b)
    BY <2>1 DEF DeleteBroadcaster, Stream
  <2>2. CASE \E c \in Conns : InsertStream(c, ready[c].key, conn[c].path)
    BY <2>2 DEF InsertStream
  <2>3. CASE \E S : EndStreams(S)
    BY <2>3 DEF EndStreams, Stream
  <2> QED
    BY <1>0, <1>1, <2>1, <2>2, <2>3 DEF TableStep, dbVars, InsertBroadcaster, InsertKey, UpdateKeyStatus
<1>2. CASE \E c \in Conns : AuthStep(c)
  BY <1>0, <1>2, AuthTables DEF SafetyInv
<1>3. CASE \E c \in Conns, login \in Logins : Connect(c, login)
  BY <1>0, <1>3 DEF Connect, dbVars
<1> QED
  BY <1>1, <1>2, <1>3, StepCases

-----------------------------------------------------------------------------

\* Nothing that is known of a revocation is undone by a step of the tables.
LEMMA KnownStays ==
  ASSUME TypeOK, SafetyInv, [Next]_vars, NEW r \in RevokeRecord, Known(r)
  PROVE  Known(r)'
<1>1. r.key \in Keys \cup {None} /\ r.stream \in Conns \cup {None}
  BY DEF RevokeRecord
<1>2. r.result # "none" => r.pc = "done"
  BY DEF Known
<1>3. \A k \in Keys : KeyMoves(k)
  BY KeysMoveForward
<1>4. \A s \in Conns : StreamMoves(s)
  BY StreamsMoveForward
<1> QED
  BY <1>1, <1>2, <1>3, <1>4 DEF Known, KeyMoves, StreamMoves, Dead, Over

-----------------------------------------------------------------------------

\* A step that leaves the tables alone.
LEMMA LocalSteps ==
  ASSUME TypeOK, RevokeInv, NEW o \in Operators, UNCHANGED dbVars,
         \/ \E k \in Keys : RevokeStart(o, k) \/ RevokeRefused(o, k)
         \/ \E s \in Conns : RevokeFindStream(o, s)
         \/ RevokeNoStream(o) \/ RevokeEndStreamFails(o) \/ RevokeKeyGone(o) \/ RevokeAbort(o)
  PROVE  Known(revoke[o])'
<1> USE DEF TypeOK, DatabaseTypeOK, dbVars
<1>0. revoke[o] \in RevokeRecord /\ Known(revoke[o])
  BY DEF RevokeInv
<1>1. ASSUME NEW k \in Keys, RevokeStart(o, k) \/ RevokeRefused(o, k)
      PROVE  Known(revoke[o])'
  <2>1. CASE RevokeStart(o, k)
    <3>1. revoke'[o] = [revoke[o] EXCEPT !.pc = "find", !.key = k] /\ revoke[o].pc = "idle"
      BY <2>1 DEF RevokeStart
    <3>2. keys[k].status = "active"
      BY <2>1 DEF RevokeStart
    <3> QED
      BY <1>0, <3>1, <3>2 DEF Known, RevokeRecord
  <2>2. CASE RevokeRefused(o, k)
    <3>1. /\ revoke'[o] = [revoke[o] EXCEPT !.pc = "done", !.key = k, !.result = "refused"]
          /\ revoke[o].pc = "idle"
      BY <2>2 DEF RevokeRefused
    <3>2. keys[k].status \in Dead
      BY <2>2 DEF RevokeRefused, Dead
    <3> QED
      BY <1>0, <3>1, <3>2 DEF Known, RevokeRecord, Dead
  <2> QED
    BY <1>1, <2>1, <2>2
<1>2. ASSUME NEW s \in Conns, RevokeFindStream(o, s)
      PROVE  Known(revoke[o])'
  BY <1>0, <1>2 DEF RevokeFindStream, Known, RevokeRecord, ActiveStreamsOf
<1>3. CASE RevokeNoStream(o)
  BY <1>0, <1>3 DEF RevokeNoStream, Known, RevokeRecord
<1>4. CASE RevokeEndStreamFails(o)
  BY <1>0, <1>4 DEF RevokeEndStreamFails, Known, RevokeRecord
<1>5. CASE RevokeKeyGone(o)
  <2>1. keys[revoke[o].key].status \in Dead
    BY <1>0, <1>5 DEF RevokeKeyGone, Known, KeyRow, KeyStatus, Key, Dead
  <2> QED
    BY <1>0, <1>5, <2>1 DEF RevokeKeyGone, Known, RevokeRecord
<1>6. CASE RevokeAbort(o)
  BY <1>0, <1>6 DEF RevokeAbort, Known, RevokeRecord
<1> QED
  BY <1>1, <1>2, <1>3, <1>4, <1>5, <1>6

\* KickPath changes nothing that Revoke relies on.
LEMMA KickKeeps ==
  ASSUME TypeOK, NEW o \in Operators,
         KickList(o) \/ KickListFails(o) \/ \E c \in Conns : Kick(o, c) \/ KickFails(o, c)
  PROVE  /\ revoke'[o].key = revoke[o].key /\ revoke'[o].stream = revoke[o].stream
         /\ revoke'[o].result = revoke[o].result /\ revoke'[o].pc \in {"kick", "list", "end"}
         /\ revoke[o].pc \in {"list", "kick"} /\ UNCHANGED dbVars
<1> USE DEF TypeOK
<1>0. revoke[o] \in RevokeRecord
  OBVIOUS
<1>1. PICK T \in SUBSET Conns : revoke' = [revoke EXCEPT ![o] = AfterKick([revoke[o] EXCEPT !.targets = T])]
  <2>1. CASE KickList(o)
    BY <2>1 DEF KickList, PublishersOn
  <2>2. CASE KickListFails(o)
    <3>1. revoke[o] = [revoke[o] EXCEPT !.targets = revoke[o].targets] /\ revoke[o].targets \in SUBSET Conns
      BY <1>0 DEF RevokeRecord
    <3> QED
      BY <2>2, <3>1 DEF KickListFails
  <2>3. ASSUME NEW c \in Conns, Kick(o, c) \/ KickFails(o, c)
        PROVE  revoke' = [revoke EXCEPT ![o] =
                 AfterKick([revoke[o] EXCEPT !.targets = revoke[o].targets \ {c}])]
               /\ revoke[o].targets \ {c} \in SUBSET Conns
    BY <1>0, <2>3 DEF Kick, KickFails, RevokeRecord
  <2> QED
    BY <2>1, <2>2, <2>3
<1>2. /\ revoke'[o].key = revoke[o].key /\ revoke'[o].stream = revoke[o].stream
      /\ revoke'[o].result = revoke[o].result /\ revoke'[o].pc \in {"kick", "list", "end"}
  BY <1>0, <1>1 DEF AfterKick, RevokeRecord
<1>3. revoke[o].pc \in {"list", "kick"} /\ UNCHANGED dbVars
  BY DEF KickList, KickListFails, Kick, KickFails
<1> QED
  BY <1>2, <1>3

LEMMA KickSteps ==
  ASSUME TypeOK, RevokeInv, NEW o \in Operators,
         KickList(o) \/ KickListFails(o) \/ \E c \in Conns : Kick(o, c) \/ KickFails(o, c)
  PROVE  Known(revoke[o])'
  BY KickKeeps DEF RevokeInv, Known, dbVars

LEMMA WritingSteps ==
  ASSUME TypeOK, RevokeInv, NEW o \in Operators, RevokeEndStream(o) \/ RevokeUpdate(o)
  PROVE  Known(revoke[o])'
<1> USE DEF TypeOK, DatabaseTypeOK
<1>0. revoke[o] \in RevokeRecord /\ Known(revoke[o])
  BY DEF RevokeInv
<1>1. CASE RevokeEndStream(o)
  <2>1. revoke[o].stream # None => streams'[revoke[o].stream].status \in Over
    BY <1>0, <1>1, ConstantsAssumption DEF RevokeEndStream, EndStream, EndStreams, Known,
       RevokeRecord, Stream, StreamStatus, Over
  <2> QED
    BY <1>0, <1>1, <2>1 DEF RevokeEndStream, EndStream, EndStreams, Known, RevokeRecord, Over
<1>2. CASE RevokeUpdate(o)
  <2>1. keys'[revoke[o].key].status = "revoked" /\ UNCHANGED streams
    BY <1>0, <1>2 DEF RevokeUpdate, UpdateKeyStatus, Known, Key
  <2> QED
    BY <1>0, <1>2, <2>1 DEF RevokeUpdate, Known, RevokeRecord, Dead
<1> QED
  BY <1>1, <1>2

\* A step moves one revocation, or none.
LEMMA RevokeCases ==
  ASSUME [Next]_vars, TypeOK, NEW o \in Operators
  PROVE  \/ revoke'[o] = revoke[o]
         \/ \E k \in Keys : RevokeStart(o, k) \/ RevokeRefused(o, k)
         \/ RevokeStep(o)
<1>1. ASSUME NEW p \in Operators, p # o, NEW k \in Keys, RevokeStart(p, k) \/ RevokeRefused(p, k)
      PROVE  revoke'[o] = revoke[o]
  BY <1>1 DEF RevokeStart, RevokeRefused, TypeOK
<1>2. ASSUME NEW p \in Operators, p # o, RevokeStep(p)
      PROVE  revoke'[o] = revoke[o]
  BY <1>2 DEF RevokeStep, RevokeFindStream, RevokeNoStream, KickList, KickListFails, Kick,
    KickFails, RevokeEndStream, RevokeEndStreamFails, RevokeUpdate, RevokeKeyGone, RevokeAbort,
    TypeOK
<1>3. ASSUME NEW c \in Conns, AuthStep(c) \/ AuthAnswered(c) \/ ReadyStep(c) \/ NotReadyStep(c)
      PROVE  UNCHANGED revoke
  BY <1>3 DEF AuthStep, AuthLock, AuthNotFound, AuthRefuseStatus, AuthExpire, AuthRefuseInUse,
    AuthAllow, Decide, AuthCommit, AuthCommitUnacknowledged, AuthAbort, AuthAnswered, ReadyStep,
    ReadyLookup, ReadyUnknownPath, ReadyInsert, ReadyInsertRefused, ReadyLost, NotReadyStep,
    NotReadyEnd, NotReadyLost
<1>4. ASSUME Environment
      PROVE  \/ UNCHANGED revoke
             \/ \E p \in Operators, k \in Keys : RevokeStart(p, k) \/ RevokeRefused(p, k)
  BY <1>4 DEF Environment, CreateBroadcaster, RemoveBroadcaster, CreateKey, ExpiresAtPasses,
    Connect, GiveUp, Publish, Disconnect
<1>5. UNCHANGED vars => UNCHANGED revoke
  BY DEF vars
<1> QED
  BY <1>1, <1>2, <1>3, <1>4, <1>5 DEF Next, Finished

LEMMA RevokeInductive == TypeOK /\ SafetyInv /\ RevokeInv /\ [Next]_vars => RevokeInv'
<1> SUFFICES ASSUME TypeOK, SafetyInv, RevokeInv, [Next]_vars, NEW o \in Operators
             PROVE  Known(revoke[o])'
  BY DEF RevokeInv
<1>1. CASE revoke'[o] = revoke[o]
  <2>1. PICK r \in RevokeRecord : r = revoke[o]
    BY DEF TypeOK
  <2>2. Known(r)'
    BY <2>1, KnownStays DEF RevokeInv
  <2> QED
    BY <1>1, <2>1, <2>2
<1>2. CASE \E k \in Keys : RevokeStart(o, k) \/ RevokeRefused(o, k)
  BY <1>2, LocalSteps DEF RevokeStart, RevokeRefused
<1>3. CASE RevokeStep(o)
  <2>1. CASE \/ \E s \in Conns : RevokeFindStream(o, s)
             \/ RevokeNoStream(o) \/ RevokeEndStreamFails(o) \/ RevokeKeyGone(o) \/ RevokeAbort(o)
    BY <2>1, LocalSteps DEF RevokeFindStream, RevokeNoStream, RevokeEndStreamFails, RevokeKeyGone,
      RevokeAbort
  <2> QED
    BY <1>3, <2>1, KickSteps, WritingSteps DEF RevokeStep
<1> QED
  BY <1>1, <1>2, <1>3, RevokeCases

\* What each revocation knows, from its first SELECT to its answer.
THEOREM RevokeInvariant == Spec => []RevokeInv
<1>1. Init => RevokeInv
  BY DEF Init, RevokeInv, Known, NoRevoke
<1> QED
  BY <1>1, RevokeInductive, TypeCorrect, SafetyCorrect, PTL DEF Spec

\* The key of a Revoke that was answered is dead, and the stream that a
\* successful one found is over.
THEOREM RevokeDeliversHolds == Spec => []RevokeDelivers
<1>1. RevokeInv => RevokeDelivers
  BY DEF RevokeInv, Known, RevokeDelivers, Dead, Over
<1> QED
  BY <1>1, RevokeInvariant, PTL
=============================================================================
