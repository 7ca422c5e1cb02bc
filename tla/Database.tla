------------------------------ MODULE Database ------------------------------
(***************************************************************************)
(* The PostgreSQL schema of rescuestream-api (the three tables of          *)
(* migrations/000001_initial_schema.up.sql) and the statements the         *)
(* repositories run on it.                                                 *)
(*                                                                         *)
(* The server runs at READ COMMITTED.  A repository call is one statement  *)
(* in its own transaction, so it is one atomic step; the only transaction  *)
(* of several statements is AuthService.Authenticate, which takes the key  *)
(* row with SELECT ... FOR UPDATE.  keyLock says which authentication      *)
(* holds a key row; every statement that PostgreSQL would make wait for    *)
(* that lock has the conjunct Unlocked(k).                                 *)
(*                                                                         *)
(* A row identifier is a fresh UUID, so it is never used again.  A row     *)
(* that was never inserted has status "unused" and one that was deleted    *)
(* has status "deleted".  A stream row is created by at most one ready     *)
(* hook of one connection and is named after it.  The value of a stream    *)
(* key is unique and never changes, so a key stands for its value too, and *)
(* for the path that publishers use with it.                               *)
(***************************************************************************)

CONSTANTS
  Broadcasters,  \* identifiers of broadcaster rows
  Keys,          \* identifiers of stream_keys rows, and their values
  OtherPaths,    \* paths that are not the value of a key
  Conns,         \* publisher connections, and the stream rows they give rise to
  None           \* no row, no owner, no lock holder

ASSUME ConstantsAssumption ==
  /\ None \notin Broadcasters \cup Keys \cup OtherPaths \cup Conns
  /\ Keys \cap OtherPaths = {}

VARIABLES
  broadcasters,  \* broadcasters table: [Broadcasters -> RowState]
  keys,          \* stream_keys table: [Keys -> Key]
  streams,       \* streams table: [Conns -> Stream]
  keyLock        \* holder of the FOR UPDATE lock of each key row

dbVars == <<broadcasters, keys, streams, keyLock>>

Paths == Keys \cup OtherPaths

RowState == {"unused", "present", "deleted"}
KeyStatus == {"active", "revoked", "expired"}
StreamStatus == {"active", "ended"}
Expiry == {"never", "ahead", "past"}   \* expires_at: NULL, later than now, before now

Key == [status : KeyStatus \cup {"unused", "deleted"},
        owner : Broadcasters \cup {None},
        expiry : Expiry,
        used : BOOLEAN]                \* last_used_at IS NOT NULL

Stream == [status : StreamStatus \cup {"unused", "deleted"},
           key : Keys \cup {None},
           path : Paths \cup {None}]

DatabaseTypeOK ==
  /\ broadcasters \in [Broadcasters -> RowState]
  /\ keys \in [Keys -> Key]
  /\ streams \in [Conns -> Stream]
  /\ keyLock \in [Keys -> Conns \cup {None}]

DatabaseInit ==
  /\ broadcasters = [b \in Broadcasters |-> "unused"]
  /\ keys = [k \in Keys |-> [status |-> "unused", owner |-> None,
                             expiry |-> "never", used |-> FALSE]]
  /\ streams = [s \in Conns |-> [status |-> "unused", key |-> None, path |-> None]]
  /\ keyLock = [k \in Keys |-> None]

-----------------------------------------------------------------------------
(* What the queries read. *)

KeyRow(k) == keys[k].status \in KeyStatus
StreamRow(s) == streams[s].status \in StreamStatus

ActiveStreamsOf(k) == {s \in Conns : streams[s].status = "active" /\ streams[s].key = k}

\* The streams that GET /streams lists.
ListActive == {s \in Conns : streams[s].status = "active"}

\* Variants of ActiveStreamsAt that forget the path, and invert the status.
EveryActiveStream(p) == {s \in Conns : streams[s].status = "active"}
EndedStreamsAt(p) == {s \in Conns : streams[s].status = "ended" /\ streams[s].path = p}

\* The streams that UPDATE ... WHERE path = p AND status = 'active' changes.
ActiveStreamsAt(p) == {s \in Conns : streams[s].status = "active" /\ streams[s].path = p}

Unlocked(k) == keyLock[k] = None

-----------------------------------------------------------------------------
(* The statements. *)

InsertBroadcaster(b) ==
  /\ broadcasters[b] = "unused"
  /\ broadcasters' = [broadcasters EXCEPT ![b] = "present"]
  /\ UNCHANGED <<keys, streams, keyLock>>

\* The rows that DELETE FROM broadcasters removes with the broadcaster.
\* The variant has no cascade from keys to streams.
KeysOf(b) == {k \in Keys : KeyRow(k) /\ keys[k].owner = b}
NoStreamsOf(K) == {}
StreamsOf(K) == {s \in Conns : StreamRow(s) /\ streams[s].key \in K}

\* ON DELETE CASCADE needs the lock of every key row it removes.
DeleteBroadcaster(b) ==
  /\ broadcasters[b] = "present"
  /\ \A k \in KeysOf(b) : Unlocked(k)
  /\ broadcasters' = [broadcasters EXCEPT ![b] = "deleted"]
  /\ keys' = [k \in Keys |-> IF k \in KeysOf(b) THEN [keys[k] EXCEPT !.status = "deleted"]
                                                ELSE keys[k]]
  /\ streams' = [s \in Conns |->
       IF s \in StreamsOf(KeysOf(b)) THEN [streams[s] EXCEPT !.status = "deleted"]
                                     ELSE streams[s]]
  /\ UNCHANGED keyLock

\* The foreign key refuses a key of a broadcaster that is not there.
InsertKey(k, b, e) ==
  /\ keys[k].status = "unused"
  /\ broadcasters[b] = "present"
  /\ keys' = [keys EXCEPT ![k] = [status |-> "active", owner |-> b,
                                  expiry |-> e, used |-> FALSE]]
  /\ UNCHANGED <<broadcasters, streams, keyLock>>

\* UPDATE stream_keys SET status = s WHERE id = k: whatever the old status was.
UpdateKeyStatus(k, s) ==
  /\ KeyRow(k)
  /\ Unlocked(k)
  /\ keys' = [keys EXCEPT ![k].status = s]
  /\ UNCHANGED <<broadcasters, streams, keyLock>>

\* SELECT ... FOR UPDATE.  The variant is a plain SELECT.
SelectKey(k, c) == KeyRow(k) /\ UNCHANGED dbVars
SelectKeyForUpdate(k, c) ==
  /\ KeyRow(k)
  /\ Unlocked(k)
  /\ keyLock' = [keyLock EXCEPT ![k] = c]
  /\ UNCHANGED <<broadcasters, keys, streams>>

\* INSERT INTO streams: the key must exist (its row is share-locked, which
\* waits for a FOR UPDATE lock) and no stream of the key may be active.  The
\* variants lack the foreign key and the partial unique index.
NoForeignKey(k) == Unlocked(k)
StreamKeyExists(k) == KeyRow(k) /\ Unlocked(k)
NoIndex(k) == TRUE
OneActivePerKeyIndex(k) == ActiveStreamsOf(k) = {}

InsertStream(s, k, p) ==
  /\ streams[s].status = "unused"
  /\ StreamKeyExists(k)
  /\ OneActivePerKeyIndex(k)
  /\ streams' = [streams EXCEPT ![s] = [status |-> "active", key |-> k, path |-> p]]
  /\ UNCHANGED <<broadcasters, keys, keyLock>>

\* The same INSERT answered with a constraint violation.
InsertStreamRefused(k) ==
  /\ ~KeyRow(k) \/ ActiveStreamsOf(k) # {}
  /\ UNCHANGED dbVars

\* UPDATE streams SET status = 'ended' WHERE ... AND status = 'active', for the
\* rows S that the condition selects (none: ErrNotFound, which callers log).
EndStreams(S) ==
  /\ streams' = [s \in Conns |-> IF s \in S THEN [streams[s] EXCEPT !.status = "ended"]
                                            ELSE streams[s]]
  /\ UNCHANGED <<broadcasters, keys, keyLock>>

EndStream(s) == EndStreams({s} \cap {r \in Conns : streams[r].status = "active"})
EndStreamByPath(p) == EndStreams(ActiveStreamsAt(p))

=============================================================================
