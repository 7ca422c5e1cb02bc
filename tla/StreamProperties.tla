-------------------------- MODULE StreamProperties --------------------------
(***************************************************************************)
(* What publishing promises.  The first part holds of the code in every    *)
(* environment; the second under the assumptions that the comments name;   *)
(* the third states what the documents say and the code does not do.       *)
(***************************************************************************)
EXTENDS StreamOrchestration

\* A key never has two active streams, however authentications, ready hooks
\* and revocations interleave: the check of AuthService.Authenticate does not
\* ensure it (two publishers may pass it), the partial unique index does.
OneActivePerKey ==
  \A r, s \in Conns :
    streams[r].status = "active" /\ streams[s].status = "active"
      /\ streams[r].key = streams[s].key => r = s

\* A ready hook that looked its key up before the broadcaster was deleted
\* leaves no orphan: every stream row has its key and every key its broadcaster.
NoOrphans ==
  /\ \A s \in Conns : StreamRow(s) => KeyRow(streams[s].key)
  /\ \A k \in Keys : KeyRow(k) => broadcasters[keys[k].owner] = "present"

\* From the decision to allow until its commit the key stays active and without
\* an active stream, whatever other requests do: the row lock of
\* getAndLockStreamKey holds off revocation, deletion and the stream's insert.
AllowStaysTrue ==
  \A c \in Conns : auth[c].pc = "commit" /\ auth[c].verdict = "allow" =>
    keys[auth[c].key].status = "active" /\ ActiveStreamsOf(auth[c].key) = {}

\* A revoked key stays revoked until it is deleted: an authentication that read
\* the key before its revocation never writes "expired" over it.
RevokedIsFinal ==
  [][\A k \in Keys : keys[k].status = "revoked" =>
       keys'[k].status \in {"revoked", "deleted"}]_vars

\* Revoke answers success only after the stream it found is over (unless
\* EndStream failed, which it only logs), and success or refusal means that the
\* key never lets anybody in again: a Revoke that is sent again because its
\* answer was lost may take its refusal for success.
RevokeDelivers ==
  \A o \in Operators :
    /\ revoke[o].result \in {"revoked", "refused"} =>
         keys[revoke[o].key].status \in {"revoked", "expired", "deleted"}
    /\ revoke[o].result = "revoked" =>
         /\ keys[revoke[o].key].status # "expired"
         /\ revoke[o].clean /\ revoke[o].stream # None =>
              streams[revoke[o].stream].status \in {"ended", "deleted"}

\* The list of active streams has each path once, so the URLs that are made from
\* the paths lead to different streams.  No index keeps paths apart: a stream is
\* recorded for the key that its path is the value of.
ListedPathsDiffer ==
  \A r, s \in ListActive : streams[r].path = streams[s].path => r = s

\* A not-ready hook, which names only a path, ends one stream at most.
EndsOneStream ==
  [][\A r, s \in Conns :
       /\ streams[r].status = "active" /\ streams'[r].status = "ended"
       /\ streams[s].status = "active" /\ streams'[s].status = "ended"
       => r = s]_vars

\* The stream of a publisher that is on the air was ended by an operator, or by the
\* late hook of one that came before it on the very path: a not-ready hook names no
\* publisher, and does no more harm than that.
EndedOnItsPath ==
  \A c \in Conns : conn[c].phase = "publishing" /\ streams[c].status = "ended" =>
    \/ \E o \in Operators : revoke[o].stream = c
    \/ \E d \in conn[c].after : notReady[d] = "done"

\* A publisher is let in, and a stream record made for it, only on a committed
\* authentication: the key it was for carries a last_used_at.
AdmittedWasRecorded ==
  \A c \in Conns :
    conn[c].phase \in {"accepted", "publishing"} \/ streams[c].status # "unused" =>
      /\ auth[c].verdict = "allow"
      /\ keys[auth[c].key].used

\* When the calls of MediaMTX's API succeed and each list fits on its first page,
\* a Revoke that reports success has put the publisher of the stream it found off
\* the air, if it is in a list: the path is still its own when KickPath lists the
\* connections, and nobody who was put off comes back.  (A WebRTC publisher is in
\* neither list, and one on a later page is not seen: RevokedPublisherIsGone.)
KickedPublisherIsGone ==
  ~KicksLost /\ ~LongLists =>
    \A o \in Operators :
      /\ revoke[o].result = "revoked" /\ revoke[o].stream # None
      /\ Protocol[revoke[o].stream] # "webrtc"
      => conn[revoke[o].stream].phase # "publishing"

\* The database implements the registry of keys and streams, whose operations
\* are atomic.
Registry == INSTANCE KeyRegistry WITH
  Streams <- Conns,
  status <- [k \in Keys |-> keys[k].status],
  live <- [k \in Keys |-> ActiveStreamsOf(k)],
  over <- {s \in Conns : streams[s].status \in {"ended", "deleted"}}

ImplementsRegistry == Registry!RegistrySpec

-----------------------------------------------------------------------------

\* With fair scheduling every authentication ends, and so does every revocation
\* that was started: nobody waits for a row lock for ever.
AuthEnds == \A c \in Conns : auth[c].pc = "begin" ~> auth[c].pc = "done"
RevokeEnds == \A o \in Operators : revoke[o].pc = "find" ~> revoke[o].pc = "done"

\* When hooks are neither lost nor reordered and no handler fails, the records
\* follow the publishers: a publisher that has left has no active stream once
\* its hook was handled, and one that publishes on the path that is its key has
\* one, unless the key was deleted or an operator's revocation ended the stream.
\* The index refuses none of these streams: an earlier hook has ended the last.
OrderlyHooks == ~HooksLost /\ ~HooksReordered /\ ~Faults
RecordsFollowPublishers ==
  \A c \in Conns :
    /\ notReady[c] = "done" => streams[c].status # "active"
    /\ /\ conn[c].phase = "publishing" /\ ReadyHandled(c)
       /\ auth[c].key = conn[c].path /\ KeyRow(conn[c].path)
       /\ \A o \in Operators : revoke[o].stream # c
       => streams[c].status = "active"

\* Under fair scheduling, and with hooks that arrive in order, the record of a
\* publisher that left is ended at last, so its key can be used again.  (The
\* spec asks for five seconds and for retries; one lost not-ready hook and the
\* stream stays active for ever.)
LeftStreamsEnd ==
  \A c \in Conns : conn[c].phase = "closed" ~> streams[c].status # "active"

-----------------------------------------------------------------------------

\* research.md: SELECT ... FOR UPDATE ensures that only one activation succeeds.
OneActivationPerKey ==
  \A c, d \in Conns :
    /\ conn[c].phase = "accepted" /\ conn[d].phase = "accepted"
    /\ auth[c].key = auth[d].key
    => c = d

\* spec.md: a revoked key becomes invalid at once and any active stream that
\* uses it is terminated; every active stream has a valid key.
NoStreamOnRevokedKey ==
  \A s \in Conns : streams[s].status = "active" => keys[streams[s].key].status # "revoked"

\* spec.md: the streams of an expired key are marked inactive.
NoStreamOnExpiredKey ==
  \A s \in Conns : streams[s].status = "active" => keys[streams[s].key].status # "expired"

\* spec.md: the system keeps accurate stream state when a broadcaster connects
\* and disconnects rapidly: once the hooks of a publisher that left were
\* handled, it has no active stream.
NoStreamAfterLeaving ==
  \A c \in Conns :
    ReadyHandled(c) /\ notReady[c] = "done" => streams[c].status # "active"

\* research.md: MediaMTX sends the key as the password, and the path becomes the
\* stream's identifier; spec.md: the state of streams is tracked as they connect.
\* So a publisher whose ready hook was handled has an active stream.
PublisherHasStream ==
  \A c \in Conns :
    /\ conn[c].phase = "publishing" /\ ReadyHandled(c) /\ KeyRow(auth[c].key)
    /\ \A o \in Operators : revoke[o].stream # c
    => streams[c].status = "active"

\* KickPath kicks all connections from a path, so the publisher of the stream
\* that Revoke found has left when Revoke reports success.  It kicks those on the
\* first page of two of MediaMTX's lists.
RevokedPublisherIsGone ==
  \A o \in Operators : revoke[o].result = "revoked" /\ revoke[o].stream # None =>
    conn[revoke[o].stream].phase # "publishing"

=============================================================================
