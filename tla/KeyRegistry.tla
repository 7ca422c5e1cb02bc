----------------------------- MODULE KeyRegistry -----------------------------
(***************************************************************************)
(* What the API's database promises to a reader of its keys and streams,   *)
(* with no handlers, locks or hooks: a key is issued, may expire, may be   *)
(* revoked, and may go with its broadcaster; a key has at most one live    *)
(* stream; a stream that ended is history.  Every operation is atomic.     *)
(*                                                                         *)
(* It promises less than data-model.md does, where the code does: an       *)
(* expired key may still become revoked, and a stream may start on a key   *)
(* that is not active.                                                     *)
(***************************************************************************)
CONSTANTS Keys, Streams

VARIABLES
  status,  \* status of each key; "unused" before it is issued, "deleted" after
  live,    \* the live streams of each key
  over     \* the streams that have ended or were deleted

registryVars == <<status, live, over>>

Issued == {k \in Keys : status[k] \in {"active", "revoked", "expired"}}

RegistryInit ==
  /\ status = [k \in Keys |-> "unused"]
  /\ live = [k \in Keys |-> {}]
  /\ over = {}

Issue(k) ==
  /\ status[k] = "unused"
  /\ status' = [status EXCEPT ![k] = "active"]
  /\ UNCHANGED <<live, over>>

Expire(k) ==
  /\ status[k] = "active"
  /\ status' = [status EXCEPT ![k] = "expired"]
  /\ UNCHANGED <<live, over>>

Revoke(k) ==
  /\ k \in Issued
  /\ status' = [status EXCEPT ![k] = "revoked"]
  /\ UNCHANGED <<live, over>>

\* The keys of a broadcaster go together, and their streams with them.
Remove(K) ==
  /\ K \subseteq Issued
  /\ status' = [k \in Keys |-> IF k \in K THEN "deleted" ELSE status[k]]
  /\ live' = [k \in Keys |-> IF k \in K THEN {} ELSE live[k]]
  /\ over' = over \cup UNION {live[k] : k \in K}

Start(k, s) ==
  /\ k \in Issued
  /\ live[k] = {}
  /\ s \notin over
  /\ \A j \in Keys : s \notin live[j]
  /\ live' = [live EXCEPT ![k] = {s}]
  /\ UNCHANGED <<status, over>>

End(k) ==
  /\ live[k] # {}
  /\ live' = [live EXCEPT ![k] = {}]
  /\ over' = over \cup live[k]
  /\ UNCHANGED status

RegistryNext ==
  \/ \E k \in Keys : Issue(k) \/ Expire(k) \/ Revoke(k) \/ End(k)
  \/ \E K \in SUBSET Keys : Remove(K)
  \/ \E k \in Keys, s \in Streams : Start(k, s)

RegistrySpec == RegistryInit /\ [][RegistryNext]_registryVars

=============================================================================
