---------------------------- MODULE RegistryProofs ----------------------------
(***************************************************************************)
(* The database implements the registry of keys and streams: under the     *)
(* refinement mapping of StreamProperties every statement of every handler *)
(* is one operation of KeyRegistry, or changes nothing that it shows.      *)
(***************************************************************************)
EXTENDS StreamSafetyProofs

Status == [k \in Keys |-> keys[k].status]
Live == [k \in Keys |-> ActiveStreamsOf(k)]
Over == {s \in Conns : streams[s].status \in {"ended", "deleted"}}

Stutters == UNCHANGED <<Status, Live, Over>>
Steps == Registry!RegistryNext

LEMMA Bar ==
  /\ Stutters => UNCHANGED Registry!registryVars
  /\ \A k \in Keys : /\ Status[k] = keys[k].status
                     /\ Live[k] = ActiveStreamsOf(k)
BY DEF Stutters, Status, Live, Over, Registry!registryVars

\* The registry shows the streams table in two of its variables, and the keys
\* table in one.
LEMMA SameStreams ==
  ASSUME UNCHANGED streams
  PROVE  Live' = Live /\ Over' = Over
BY DEF Live, Over, ActiveStreamsOf

LEMMA SameStatus ==
  ASSUME \A k \in Keys : keys'[k].status = keys[k].status
  PROVE  Status' = Status
BY DEF Status

LEMMA OneStatus ==
  ASSUME NEW k \in Keys, NEW st, keys'[k].status = st,
         \A j \in Keys : j # k => keys'[j].status = keys[j].status
  PROVE  Status' = [Status EXCEPT ![k] = st]
BY DEF Status

-----------------------------------------------------------------------------

LEMMA RemoveImplements ==
  ASSUME TypeOK, SafetyInv, NEW b \in Broadcasters, DeleteBroadcaster(b)
  PROVE  Steps
<1> USE DEF TypeOK, DatabaseTypeOK
<1>0. PICK K \in SUBSET Keys : K = KeysOf(b)
  BY DEF KeysOf
<1>1. \A k \in K : keys[k].status \in {"active", "revoked", "expired"}
  BY <1>0 DEF KeysOf, KeyRow, KeyStatus
<1>2. Status' = [k \in Keys |-> IF k \in K THEN "deleted" ELSE Status[k]]
  <2>1. \A k \in Keys : keys'[k].status = IF k \in K THEN "deleted" ELSE keys[k].status
    BY <1>0 DEF DeleteBroadcaster, Key
  <2> QED
    BY <2>1 DEF Status
<1>3. \A s \in Conns :
        /\ streams'[s].key = streams[s].key
        /\ streams'[s].status = IF StreamRow(s) /\ streams[s].key \in K
                                THEN "deleted" ELSE streams[s].status
  BY <1>0 DEF DeleteBroadcaster, StreamsOf, Stream
<1>4. Live' = [k \in Keys |-> IF k \in K THEN {} ELSE Live[k]]
  <2>1. \A k \in Keys : ActiveStreamsOf(k)' = IF k \in K THEN {} ELSE ActiveStreamsOf(k)
    BY <1>3 DEF ActiveStreamsOf, StreamRow, StreamStatus
  <2> QED
    BY <2>1 DEF Live
<1>5. Over' = Over \cup UNION {Live[k] : k \in K}
  <2>1. ASSUME NEW s
        PROVE  s \in Over' <=> s \in Over \/ \E k \in K : s \in Live[k]
    BY <1>1, <1>3 DEF Over, Live, ActiveStreamsOf, StreamRow, StreamStatus, Stream
  <2> QED
    BY <2>1
<1>6. Registry!Remove(K)
  BY <1>1, <1>2, <1>4, <1>5 DEF Registry!Remove, Registry!Issued, Status, Live, Over
<1> QED
  BY <1>6 DEF Steps, Registry!RegistryNext

LEMMA IssueImplements ==
  ASSUME TypeOK, NEW k \in Keys, NEW b \in Broadcasters, NEW e \in Expiry, InsertKey(k, b, e)
  PROVE  Steps
<1> USE DEF TypeOK, DatabaseTypeOK
<1>1. /\ keys[k].status = "unused" /\ keys'[k].status = "active" /\ UNCHANGED streams
      /\ \A j \in Keys : j # k => keys'[j].status = keys[j].status
  BY DEF InsertKey
<1>2. Status' = [Status EXCEPT ![k] = "active"] /\ Live' = Live /\ Over' = Over
  BY <1>1, OneStatus, SameStreams
<1>3. Registry!Issue(k)
  BY <1>1, <1>2 DEF Registry!Issue, Status, Live, Over
<1> QED
  BY <1>3 DEF Steps, Registry!RegistryNext

LEMMA RevokeImplements ==
  ASSUME TypeOK, NEW k \in Keys, UpdateKeyStatus(k, "revoked")
  PROVE  Steps
<1> USE DEF TypeOK, DatabaseTypeOK
<1>1. /\ keys[k].status \in {"active", "revoked", "expired"} /\ keys'[k].status = "revoked"
      /\ UNCHANGED streams
      /\ \A j \in Keys : j # k => keys'[j].status = keys[j].status
  BY DEF UpdateKeyStatus, Key, KeyRow, KeyStatus
<1>2. Status' = [Status EXCEPT ![k] = "revoked"] /\ Live' = Live /\ Over' = Over
  BY <1>1, OneStatus, SameStreams
<1>3. Registry!Revoke(k)
  BY <1>1, <1>2 DEF Registry!Revoke, Registry!Issued, Status, Live, Over
<1> QED
  BY <1>3 DEF Steps, Registry!RegistryNext

\* The index and the foreign key are the guards of Start.
LEMMA StartImplements ==
  ASSUME TypeOK, SafetyInv, NEW c \in Conns, ready[c].pc = "found",
         InsertStream(c, ready[c].key, conn[c].path)
  PROVE  Steps
<1> USE DEF TypeOK, DatabaseTypeOK
<1> DEFINE k == ready[c].key
<1>1. k \in Keys
  BY DEF SafetyInv, AdmissionInv
<1>2. /\ keys[k].status \in {"active", "revoked", "expired"} /\ UNCHANGED keys
      /\ ActiveStreamsOf(k) = {} /\ streams[c].status = "unused"
      /\ streams'[c].status = "active" /\ streams'[c].key = k
      /\ \A s \in Conns : s # c => streams'[s] = streams[s]
  BY <1>1 DEF InsertStream, StreamKeyExists, OneActivePerKeyIndex, KeyRow, KeyStatus
<1>3. Status' = Status
  BY <1>2, SameStatus
<1>4. Live' = [Live EXCEPT ![k] = {c}]
  <2>1. \A j \in Keys : ActiveStreamsOf(j)' = IF j = k THEN {c} ELSE ActiveStreamsOf(j)
    BY <1>2 DEF ActiveStreamsOf
  <2> QED
    BY <1>1, <2>1 DEF Live
<1>5. Over' = Over /\ c \notin Over /\ \A j \in Keys : c \notin Live[j]
  BY <1>2 DEF Over, Live, ActiveStreamsOf
<1>6. Registry!Start(k, c)
  BY <1>1, <1>2, <1>3, <1>4, <1>5 DEF Registry!Start, Registry!Issued, Status, Live, Over
<1> QED
  BY <1>1, <1>6 DEF Steps, Registry!RegistryNext

\* An UPDATE that ends streams ends none, or the only one of a key.
LEMMA EndImplements ==
  ASSUME TypeOK, SafetyInv, NEW S, Ended(S), EndStreams(S)
  PROVE  Steps \/ Stutters
<1> USE DEF TypeOK, DatabaseTypeOK
<1>0. UNCHANGED keys
  BY DEF EndStreams
<1>1. Status' = Status
  BY <1>0, SameStatus
<1>2. CASE S = {}
  <2>1. UNCHANGED streams
    BY <1>2 DEF EndStreams
  <2> QED
    BY <1>1, <2>1, SameStreams DEF Stutters
<1>3. CASE S # {}
  <2>1. PICK s \in Conns : s \in S /\ streams[s].status = "active"
    BY <1>3 DEF Ended
  <2>2. S = {s}
    <3>1. \A r \in S : streams[r].path = streams[s].path => r = s
      BY <2>1 DEF Ended, SafetyInv, TableInv, OneActivePerKey, StreamRow, StreamStatus
    <3> QED
      BY <2>1, <3>1 DEF Ended, ActiveStreamsAt
  <2>0. PICK k \in Keys : k = streams[s].key
    BY <2>1 DEF SafetyInv, TableInv, StreamRow, StreamStatus
  <2>3. ActiveStreamsOf(k) = {s}
    BY <2>0, <2>1 DEF SafetyInv, TableInv, OneActivePerKey, StreamRow, StreamStatus, ActiveStreamsOf
  <2>4. /\ streams'[s].status = "ended"
        /\ \A r \in Conns : r # s => streams'[r] = streams[r]
        /\ \A r \in Conns : streams'[r].key = streams[r].key
    BY <2>1, <2>2 DEF EndStreams, Stream
  <2>5. Live' = [Live EXCEPT ![k] = {}]
    <3>1. \A j \in Keys : ActiveStreamsOf(j)' = IF j = k THEN {} ELSE ActiveStreamsOf(j)
      BY <2>0, <2>1, <2>3, <2>4 DEF ActiveStreamsOf
    <3> QED
      BY <2>3, <3>1 DEF Live
  <2>6. Over' = Over \cup {s}
    BY <2>1, <2>4 DEF Over
  <2>7. Registry!End(k)
    BY <1>1, <2>3, <2>5, <2>6 DEF Registry!End, Status, Live, Over
  <2> QED
    BY <2>7 DEF Steps, Registry!RegistryNext
<1> QED
  BY <1>2, <1>3

\* An authentication shows the registry the expiry that it commits.
LEMMA AuthImplements ==
  ASSUME TypeOK, SafetyInv, NEW c \in Conns, AuthStep(c)
  PROVE  Steps \/ Stutters
<1> USE DEF TypeOK, DatabaseTypeOK
<1>0. UNCHANGED streams
  BY AuthTables DEF SafetyInv
<1>1. Live' = Live /\ Over' = Over
  BY <1>0, SameStreams
<1>2. CASE UNCHANGED keys
  BY <1>1, <1>2, SameStatus DEF Stutters
<1>3. CASE auth[c].pc = "commit" /\ AuthWrites(c)
  <2>0. PICK k \in Keys : k = auth[c].key
    BY <1>3, CommitWrites DEF SafetyInv
  <2>1. /\ \A j \in Keys : j # k => keys'[j] = keys[j]
        /\ keys'[k].status = IF auth[c].expire THEN "expired" ELSE keys[k].status
    BY <1>3, <2>0, CommitWrites DEF SafetyInv
  <2>2. CASE ~auth[c].expire
    <3>1. Status' = Status
      BY <2>1, <2>2, SameStatus
    <3> QED
      BY <1>1, <3>1 DEF Stutters
  <2>3. CASE auth[c].expire
    <3>1. keys[k].status = "active"
      BY <2>0, <2>3 DEF SafetyInv, DecisionInv
    <3>2. Status' = [Status EXCEPT ![k] = "expired"]
      BY <2>1, <2>3, OneStatus
    <3>3. Registry!Expire(k)
      BY <1>1, <2>1, <3>1, <3>2 DEF Registry!Expire, Status, Live, Over
    <3> QED
      BY <3>3 DEF Steps, Registry!RegistryNext
  <2> QED
    BY <2>2, <2>3
<1> QED
  BY <1>2, <1>3 DEF AuthStep, AuthLock, SelectKeyForUpdate, AuthNotFound, AuthRefuseStatus,
    AuthExpire, AuthRefuseInUse, AuthAllow, Decide, AuthCommit, AuthCommitUnacknowledged,
    AuthAbort, dbVars

LEMMA StepImplements == TypeOK /\ SafetyInv /\ [Next]_vars => [Registry!RegistryNext]_Registry!registryVars
<1> SUFFICES ASSUME TypeOK, SafetyInv, [Next]_vars
             PROVE  Steps \/ Stutters
  BY Bar DEF Steps
<1>1. CASE TableStep
  <2>1. ASSUME UNCHANGED streams, \A k \in Keys : keys'[k].status = keys[k].status
        PROVE  Stutters
    BY <2>1, SameStreams, SameStatus DEF Stutters
  <2>2. CASE UNCHANGED dbVars \/ \E b \in Broadcasters : InsertBroadcaster(b)
    BY <2>1, <2>2 DEF dbVars, InsertBroadcaster
  <2>3. CASE \E k \in Keys : /\ keys' = [keys EXCEPT ![k].expiry = "past"]
                             /\ UNCHANGED <<broadcasters, streams, keyLock>>
    BY <2>1, <2>3 DEF TypeOK, DatabaseTypeOK, Key
  <2> QED
    BY <1>1, <2>2, <2>3, RemoveImplements, IssueImplements, RevokeImplements, StartImplements,
       EndImplements DEF TableStep
<1>2. CASE \E c \in Conns : AuthStep(c)
  BY <1>2, AuthImplements
<1>3. CASE \E c \in Conns, login \in Logins : Connect(c, login)
  BY <1>3, SameStreams, SameStatus DEF Connect, dbVars, Stutters
<1> QED
  BY <1>1, <1>2, <1>3, StepCases

\* The tables, with their constraints and the row lock, implement the registry
\* whose operations are atomic.
THEOREM ImplementsRegistryHolds == Spec => ImplementsRegistry
<1>1. Init => Registry!RegistryInit
  BY DEF Init, DatabaseInit, Registry!RegistryInit, ActiveStreamsOf
<1> QED
  BY <1>1, StepImplements, TypeCorrect, SafetyCorrect, PTL DEF Spec, ImplementsRegistry, Registry!RegistrySpec
=============================================================================
