--------------------------- MODULE MCOrchestration ---------------------------
(* Instances of StreamProperties for TLC; the bounds are the sets in the cfgs. *)
EXTENDS StreamProperties, TLC

\* RTMP publishers send the key as the path.
PathLogins == {[password |-> None, path |-> k] : k \in Keys}

\* The key may also be the password of a publisher on some other path.
AllLogins == PathLogins \cup {[password |-> k, path |-> p] : k \in Keys, p \in OtherPaths}

AllRtmp == [c \in Conns |-> "rtmp"]
AllWebrtc == [c \in Conns |-> "webrtc"]

\* One connection of a protocol that KickPath lists second.
Mixed == LET second == CHOOSE c \in Conns : TRUE
         IN [c \in Conns |-> IF c = second THEN "rtsp" ELSE "rtmp"]

KeySymmetry == Permutations(Keys)
=============================================================================
