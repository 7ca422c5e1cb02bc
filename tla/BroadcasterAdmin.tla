--------------------------- MODULE BroadcasterAdmin ---------------------------
(***************************************************************************)
(* The management of broadcasters: BroadcasterHandler, BroadcasterService  *)
(* and BroadcasterRepo.  Requests run concurrently, and each repository    *)
(* call is one statement in its own transaction.  BroadcasterService.      *)
(* Update is three of them: it reads the row, changes its copy, writes     *)
(* all of the copy back, and reads the row again for the answer.           *)
(*                                                                         *)
(* The value that request r gives to a field is r itself, and None stands  *)
(* for the empty metadata of a broadcaster created without any.            *)
(***************************************************************************)
EXTENDS Naturals

CONSTANTS
  Ids,       \* identifiers of broadcaster rows, each a fresh UUID
  Requests,  \* requests of the operators' clients
  None

ASSUME AdminAssumption == None \notin Ids \cup Requests

VARIABLES
  table,  \* the broadcasters table
  req     \* the requests and their answers

vars == <<table, req>>

Fields == {"display_name", "metadata"}
Value == [Fields -> Requests \cup {None}]

\* updated counts the UPDATEs of the row, as its trigger moves updated_at on.
Row == [state : {"unused", "present", "deleted"},
        value : Value,
        updated : Nat]

Kind == {"none", "create", "patch", "delete", "get"}
Status == {0, 200, 201, 204, 400, 404, 500}   \* of the answer; 0 before it

\* copy: the broadcaster that the handler holds, and then the body of a 200.
\* wrote: updated_at of the row after the request's own UPDATE.
Request == [pc : {"none", "update", "refresh", "done"},
            kind : Kind,
            id : Ids \cup {None},
            fields : SUBSET Fields,
            copy : Row,
            wrote : Nat,
            status : Status]

TypeOK == table \in [Ids -> Row] /\ req \in [Requests -> Request]

NoRow == [state |-> "unused", value |-> [f \in Fields |-> None], updated |-> 0]
NoRequest == [pc |-> "none", kind |-> "none", id |-> None, fields |-> {},
              copy |-> NoRow, wrote |-> 0, status |-> 0]

Init ==
  /\ table = [i \in Ids |-> NoRow]
  /\ req = [r \in Requests |-> NoRequest]

Present(id) == table[id].state = "present"

\* Clients name a broadcaster by the id that an answer or a list gave them.
Issued(id) == table[id].state # "unused"

Idle(r) == req[r].pc = "none"
Answer(r, kind, id, status) ==
  req' = [req EXCEPT ![r] = [@ EXCEPT !.pc = "done", !.kind = kind, !.id = id,
                                      !.status = status]]

-----------------------------------------------------------------------------
(* POST /broadcasters *)

\* Metadata that the body leaves out becomes empty.  The variant has it NULL.
CreatedNil(r, fields) ==
  [state |-> "present", updated |-> 0, value |-> [f \in fields |-> r]]
Created(r, fields) ==
  [state |-> "present", updated |-> 0,
   value |-> [f \in Fields |-> IF f \in fields THEN r ELSE None]]

\* The second disjunct: the INSERT took effect and its answer was lost.
Create(r, id, fields) ==
  /\ Idle(r)
  /\ "display_name" \in fields
  /\ table[id].state = "unused"
  /\ table' = [table EXCEPT ![id] = Created(r, fields)]
  /\ \/ Answer(r, "create", id, 201)
     \/ Answer(r, "create", id, 500)

\* A body or an id that does not parse, or a body without display_name.
BadRequest(r) ==
  /\ Idle(r)
  /\ Answer(r, "none", None, 400)
  /\ UNCHANGED table

-----------------------------------------------------------------------------
(* PATCH /broadcasters/{id} *)

PatchRead(r, id, fields) ==
  /\ Idle(r)
  /\ Present(id)
  /\ req' = [req EXCEPT ![r] = [@ EXCEPT !.pc = "update", !.kind = "patch", !.id = id,
                                         !.fields = fields, !.copy = table[id]]]
  /\ UNCHANGED table

\* Only the fields that the body has are changed in the copy.  The variant
\* forgets that and clears the others.
MergeAll(r) == [f \in Fields |-> IF f \in req[r].fields THEN r ELSE None]
Merge(r) == [f \in Fields |-> IF f \in req[r].fields THEN r ELSE req[r].copy.value[f]]

\* UPDATE ... WHERE id = $1 selects the row if it is there.  The variant is an
\* INSERT ... ON CONFLICT DO UPDATE.
UpsertSelects(id) == TRUE
UpdateSelects(id) == Present(id)

PatchWrite(r) ==
  LET id == req[r].id
      stamp == table[id].updated + 1
  IN /\ req[r].pc = "update"
     /\ UpdateSelects(id)
     /\ table' = [table EXCEPT ![id] = [state |-> "present", value |-> Merge(r),
                                        updated |-> stamp]]
     /\ req' = [req EXCEPT ![r] = [@ EXCEPT !.pc = "refresh", !.wrote = stamp]]

\* The broadcaster that the answer shows.  The variant shows the changed copy.
ShowCopy(r) == [req[r].copy EXCEPT !.value = Merge(r)]
Show(r) == table[req[r].id]

PatchRefresh(r) ==
  /\ req[r].pc = "refresh"
  /\ Present(req[r].id)
  /\ req' = [req EXCEPT ![r] = [@ EXCEPT !.pc = "done", !.copy = Show(r), !.status = 200]]
  /\ UNCHANGED table

\* ErrNotFound, from the read, from the UPDATE, or from the second read of a
\* row that was deleted after it had been updated.
PatchNotFound(r, id) ==
  /\ \/ Idle(r)
     \/ req[r].pc \in {"update", "refresh"} /\ req[r].id = id
  /\ Issued(id) /\ ~Present(id)
  /\ Answer(r, "patch", id, 404)
  /\ UNCHANGED table

\* A statement fails, or the client is gone: the first of any request, or a
\* later one of a PATCH.
Fails(r) ==
  /\ \/ Idle(r) /\ \E kind \in Kind : Answer(r, kind, None, 500)
     \/ req[r].pc \in {"update", "refresh"} /\ Answer(r, "patch", req[r].id, 500)
  /\ UNCHANGED table

\* The UPDATE took effect and its answer was lost.
PatchUnacknowledged(r) ==
  LET id == req[r].id IN
  /\ req[r].pc = "update"
  /\ UpdateSelects(id)
  /\ table' = [table EXCEPT ![id] = [state |-> "present", value |-> Merge(r),
                                     updated |-> table[id].updated + 1]]
  /\ Answer(r, "patch", id, 500)

-----------------------------------------------------------------------------
(* DELETE and GET /broadcasters/{id} *)

\* DELETE answers 204 when it deleted a row.  The variant does not look.
AnyDelete(id) == Issued(id)
RowDeleted(id) == Present(id)

Delete(r, id) ==
  /\ Idle(r)
  /\ RowDeleted(id)
  /\ table' = [table EXCEPT ![id].state = "deleted"]
  /\ \/ Answer(r, "delete", id, 204)
     \/ Answer(r, "delete", id, 500)

DeleteNotFound(r, id) ==
  /\ Idle(r)
  /\ Issued(id) /\ ~RowDeleted(id)
  /\ Answer(r, "delete", id, 404)
  /\ UNCHANGED table

Get(r, id) ==
  /\ Idle(r)
  /\ Issued(id)
  /\ IF Present(id)
       THEN req' = [req EXCEPT ![r] = [@ EXCEPT !.pc = "done", !.kind = "get", !.id = id,
                                                !.copy = table[id], !.status = 200]]
       ELSE Answer(r, "get", id, 404)
  /\ UNCHANGED table

-----------------------------------------------------------------------------

Step(r) ==
  \/ \E id \in Ids, fields \in SUBSET Fields : Create(r, id, fields)
  \/ BadRequest(r)
  \/ \E id \in Ids, fields \in SUBSET Fields : PatchRead(r, id, fields)
  \/ PatchWrite(r)
  \/ PatchUnacknowledged(r)
  \/ PatchRefresh(r)
  \/ \E id \in Ids : PatchNotFound(r, id)
  \/ Fails(r)
  \/ \E id \in Ids : Delete(r, id)
  \/ \E id \in Ids : DeleteNotFound(r, id)
  \/ \E id \in Ids : Get(r, id)

Finished == (\A r \in Requests : req[r].pc = "done") /\ UNCHANGED vars

Next == (\E r \in Requests : Step(r)) \/ Finished

Spec == Init /\ [][Next]_vars

-----------------------------------------------------------------------------

\* A 404 tells the truth for good: no request in progress, however stale its
\* copy, brings a deleted broadcaster back.
NotFoundIsFinal ==
  \A r \in Requests : req[r].status = 404 => table[req[r].id].state = "deleted"

\* Of the requests that delete one broadcaster, retries included, at most one
\* is told that it did.
OneDeleteSucceeds ==
  \A r, q \in Requests :
    /\ req[r].kind = "delete" /\ req[r].status = 204
    /\ req[q].kind = "delete" /\ req[q].status = 204
    /\ req[r].id = req[q].id
    => r = q

\* The broadcaster in the answer of a PATCH is no older than the PATCH, and
\* shows what it set unless another PATCH came after it.
PatchAnswerIsFresh ==
  \A r \in Requests : req[r].kind = "patch" /\ req[r].status = 200 =>
    /\ req[r].copy.updated >= req[r].wrote
    /\ req[r].copy.updated = req[r].wrote =>
         \A f \in req[r].fields : req[r].copy.value[f] = r

\* A PATCH changes a field that its body leaves out only when another PATCH of
\* the broadcaster took effect between its read and its write: updates are lost
\* between overlapping PATCHes and never otherwise.
LostOnlyByOverlap ==
  [][\A r \in Requests, f \in Fields :
       LET id == req[r].id IN
       /\ req[r].pc = "update" /\ table'[id].updated # table[id].updated
       /\ req'[r].pc # "update"
       /\ f \notin req[r].fields
       /\ table'[id].value[f] # table[id].value[f]
       => req[r].copy.updated < table[id].updated]_vars

=============================================================================
