----------------------------- MODULE AdminProofs -----------------------------
(***************************************************************************)
(* The properties of the management of broadcasters, for any number of     *)
(* broadcasters and concurrent requests.  The inductive invariant ties the *)
(* copy that a PATCH holds to the row as it has become meanwhile.          *)
(***************************************************************************)
EXTENDS BroadcasterAdmin, TLAPS

\* A request is answered once, a row that a request named was issued, and a 404
\* or the 204 of a DELETE was given on a row that is gone.
AnswerInv ==
  \A r \in Requests :
    /\ req[r].status # 0 => req[r].pc = "done"
    /\ req[r].pc \in {"update", "refresh"} =>
         req[r].kind = "patch" /\ req[r].id \in Ids /\ Issued(req[r].id)
    /\ req[r].status = 404 => req[r].id \in Ids /\ table[req[r].id].state = "deleted"
    /\ req[r].kind = "delete" /\ req[r].status = 204 =>
         req[r].id \in Ids /\ table[req[r].id].state = "deleted"

\* The copy that a PATCH is about to write back is the row, or older than it.
CopyInv ==
  \A r \in Requests : req[r].pc = "update" =>
    /\ req[r].copy.updated <= table[req[r].id].updated
    /\ req[r].copy.updated = table[req[r].id].updated =>
         req[r].copy.value = table[req[r].id].value

\* A row that a PATCH wrote is as it wrote it, or newer.
WroteInv ==
  \A r \in Requests : req[r].pc = "refresh" =>
    /\ req[r].wrote <= table[req[r].id].updated
    /\ req[r].wrote = table[req[r].id].updated =>
         \A f \in req[r].fields : table[req[r].id].value[f] = r

\* Two DELETEs answered 204 cannot be of one broadcaster, as the second saw the
\* row deleted.
AdminInv == AnswerInv /\ CopyInv /\ WroteInv /\ OneDeleteSucceeds /\ PatchAnswerIsFresh

-----------------------------------------------------------------------------

\* Merge makes values of the copy's fields and the request's own.
LEMMA MergeType ==
  ASSUME TypeOK, NEW r \in Requests
  PROVE  /\ Merge(r) \in Value
         /\ \A f \in req[r].fields : f \in Fields /\ Merge(r)[f] = r
         /\ \A f \in Fields \ req[r].fields : Merge(r)[f] = req[r].copy.value[f]
BY DEF TypeOK, Request, Row, Value, Merge

\* The record of a request stays one when an answer, or a step of a PATCH, is
\* written into it, one field after the other.

\* An answer without a body.
LEMMA AnswerRecord ==
  ASSUME NEW q \in Request,
         NEW kind \in Kind,
         NEW id \in Ids \cup {None}, NEW status \in Status
  PROVE  [q EXCEPT !.pc = "done", !.kind = kind, !.id = id, !.status = status] \in Request
<1> DEFINE a == [q EXCEPT !.pc = "done"]
<1>1. a \in Request
  BY DEF Request, Kind, Status
<1> HIDE DEF a
<1> DEFINE b == [a EXCEPT !.kind = kind]
<1>2. b \in Request
  BY <1>1 DEF Request, Kind, Status
<1> HIDE DEF b
<1> DEFINE c == [b EXCEPT !.id = id]
<1>3. c \in Request
  BY <1>2 DEF Request, Kind, Status
<1> HIDE DEF c
<1> DEFINE d == [c EXCEPT !.status = status]
<1>4. d \in Request
  BY <1>3 DEF Request, Kind, Status
<1> HIDE DEF d
<1> QED
  BY <1>4 DEF a, b, c, d

\* The first read of a PATCH.
LEMMA ReadRecord ==
  ASSUME NEW q \in Request, NEW id \in Ids, NEW fields \in SUBSET Fields, NEW row \in Row
  PROVE  [q EXCEPT !.pc = "update", !.kind = "patch", !.id = id, !.fields = fields,
                     !.copy = row] \in Request
<1> DEFINE a == [q EXCEPT !.pc = "update"]
<1>1. a \in Request
  BY DEF Request, Kind, Status
<1> HIDE DEF a
<1> DEFINE b == [a EXCEPT !.kind = "patch"]
<1>2. b \in Request
  BY <1>1 DEF Request, Kind, Status
<1> HIDE DEF b
<1> DEFINE c == [b EXCEPT !.id = id]
<1>3. c \in Request
  BY <1>2 DEF Request, Kind, Status
<1> HIDE DEF c
<1> DEFINE d == [c EXCEPT !.fields = fields]
<1>4. d \in Request
  BY <1>3 DEF Request, Kind, Status
<1> HIDE DEF d
<1> DEFINE e == [d EXCEPT !.copy = row]
<1>5. e \in Request
  BY <1>4 DEF Request, Kind, Status
<1> HIDE DEF e
<1> QED
  BY <1>5 DEF a, b, c, d, e

\* Its UPDATE.
LEMMA WriteRecord ==
  ASSUME NEW q \in Request, NEW stamp \in Nat
  PROVE  [q EXCEPT !.pc = "refresh", !.wrote = stamp] \in Request
<1> DEFINE a == [q EXCEPT !.pc = "refresh"]
<1>1. a \in Request
  BY DEF Request, Kind, Status
<1> HIDE DEF a
<1> DEFINE b == [a EXCEPT !.wrote = stamp]
<1>2. b \in Request
  BY <1>1 DEF Request, Kind, Status
<1> HIDE DEF b
<1> QED
  BY <1>2 DEF a, b

\* Its second read.
LEMMA RefreshRecord ==
  ASSUME NEW q \in Request, NEW row \in Row
  PROVE  [q EXCEPT !.pc = "done", !.copy = row, !.status = 200] \in Request
<1> DEFINE a == [q EXCEPT !.pc = "done"]
<1>1. a \in Request
  BY DEF Request, Kind, Status
<1> HIDE DEF a
<1> DEFINE b == [a EXCEPT !.copy = row]
<1>2. b \in Request
  BY <1>1 DEF Request, Kind, Status
<1> HIDE DEF b
<1> DEFINE c == [b EXCEPT !.status = 200]
<1>3. c \in Request
  BY <1>2 DEF Request, Kind, Status
<1> HIDE DEF c
<1> QED
  BY <1>3 DEF a, b, c

\* The answer of a GET.
LEMMA GetRecord ==
  ASSUME NEW q \in Request, NEW id \in Ids, NEW row \in Row
  PROVE  [q EXCEPT !.pc = "done", !.kind = "get", !.id = id, !.copy = row,
                     !.status = 200] \in Request
<1> DEFINE a == [q EXCEPT !.pc = "done"]
<1>1. a \in Request
  BY DEF Request, Kind, Status
<1> HIDE DEF a
<1> DEFINE b == [a EXCEPT !.kind = "get"]
<1>2. b \in Request
  BY <1>1 DEF Request, Kind, Status
<1> HIDE DEF b
<1> DEFINE c == [b EXCEPT !.id = id]
<1>3. c \in Request
  BY <1>2 DEF Request, Kind, Status
<1> HIDE DEF c
<1> DEFINE d == [c EXCEPT !.copy = row]
<1>4. d \in Request
  BY <1>3 DEF Request, Kind, Status
<1> HIDE DEF d
<1> DEFINE e == [d EXCEPT !.status = 200]
<1>5. e \in Request
  BY <1>4 DEF Request, Kind, Status
<1> HIDE DEF e
<1> QED
  BY <1>5 DEF a, b, c, d, e

LEMMA AdminTypes ==
  ASSUME TypeOK, AnswerInv, [Next]_vars
  PROVE  TypeOK'
<1>b. /\ \A r \in Requests : req[r] \in Request /\ req[r].id \in Ids \cup {None}
      /\ \A id \in Ids : table[id] \in Row /\ table[id].updated + 1 \in Nat
      /\ table \in [Ids -> Row] /\ req \in [Requests -> Request]
  BY DEF TypeOK, Request, Row
<1>a. ASSUME NEW r \in Requests, NEW kind \in Kind,
             NEW id \in Ids \cup {None}, NEW status \in Status,
             Answer(r, kind, id, status)
      PROVE  req' \in [Requests -> Request]
  <2>2. [req[r] EXCEPT !.pc = "done", !.kind = kind, !.id = id, !.status = status] \in Request
    <3>1. req[r] \in Request
      BY <1>b
    <3> QED
      BY <3>1, AnswerRecord
  <2> QED
    BY <1>a, <1>b, <2>2 DEF Answer
<1>1. ASSUME NEW r \in Requests, NEW id \in Ids, NEW fields \in SUBSET Fields,
             Create(r, id, fields)
      PROVE  TypeOK'
  <2>0. [f \in Fields |-> IF f \in fields THEN r ELSE None] \in Value
    BY DEF Value
  <2>1. Created(r, fields) \in Row
    BY <2>0 DEF Created, Row
  <2>2. table' \in [Ids -> Row]
    BY <1>1, <1>b, <2>1 DEF Create
  <2> QED
    BY <1>1, <1>a, <2>2 DEF Create, TypeOK, Kind, Status
<1>2. ASSUME NEW r \in Requests, BadRequest(r)
      PROVE  TypeOK'
  BY <1>2, <1>a, <1>b DEF BadRequest, TypeOK, Kind, Status
<1>3. ASSUME NEW r \in Requests, NEW id \in Ids, NEW fields \in SUBSET Fields,
             PatchRead(r, id, fields)
      PROVE  TypeOK'
  <2>1. [req[r] EXCEPT !.pc = "update", !.kind = "patch", !.id = id, !.fields = fields,
                       !.copy = table[id]] \in Request
    BY <1>b, ReadRecord
  <2> QED
    BY <1>3, <1>b, <2>1 DEF PatchRead, TypeOK
<1>4. ASSUME NEW r \in Requests, PatchWrite(r) \/ PatchUnacknowledged(r)
      PROVE  TypeOK'
  <2> DEFINE id == req[r].id
             row == [state |-> "present", value |-> Merge(r), updated |-> table[id].updated + 1]
  <2>0. id \in Ids
    BY <1>4 DEF PatchWrite, PatchUnacknowledged, AnswerInv
  <2>1. row \in Row
    BY <1>b, <2>0, MergeType DEF Row
  <2>2. [req[r] EXCEPT !.pc = "refresh", !.wrote = table[id].updated + 1] \in Request
    BY <1>b, <2>0, WriteRecord
  <2>3. [table EXCEPT ![id] = row] \in [Ids -> Row]
    BY <1>b, <2>0, <2>1
  <2> HIDE DEF row
  <2>4. CASE PatchWrite(r)
    BY <1>b, <2>2, <2>3, <2>4 DEF PatchWrite, TypeOK, row
  <2>5. CASE PatchUnacknowledged(r)
    BY <1>a, <1>b, <2>3, <2>5 DEF PatchUnacknowledged, TypeOK, row, Kind, Status
  <2> QED
    BY <1>4, <2>4, <2>5
<1>5. ASSUME NEW r \in Requests, PatchRefresh(r)
      PROVE  TypeOK'
  <2>0. req[r].id \in Ids
    BY <1>5 DEF PatchRefresh, AnswerInv
  <2>1. [req[r] EXCEPT !.pc = "done", !.copy = table[req[r].id], !.status = 200] \in Request
    BY <1>b, <2>0, RefreshRecord
  <2> QED
    BY <1>5, <1>b, <2>1 DEF PatchRefresh, Show, TypeOK
<1>6. ASSUME NEW r \in Requests, NEW id \in Ids, PatchNotFound(r, id) \/ DeleteNotFound(r, id)
      PROVE  TypeOK'
  BY <1>6, <1>a, <1>b DEF PatchNotFound, DeleteNotFound, TypeOK, Kind, Status
<1>7. ASSUME NEW r \in Requests, Fails(r)
      PROVE  TypeOK'
  BY <1>7, <1>a, <1>b DEF Fails, TypeOK, Kind, Status
<1>8. ASSUME NEW r \in Requests, NEW id \in Ids, Delete(r, id)
      PROVE  TypeOK'
  <2>1. [table[id] EXCEPT !.state = "deleted"] \in Row
    BY <1>b DEF Row
  <2>2. table' \in [Ids -> Row]
    BY <1>8, <1>b, <2>1 DEF Delete
  <2> QED
    BY <1>8, <1>a, <2>2 DEF Delete, TypeOK, Kind, Status
<1>9. ASSUME NEW r \in Requests, NEW id \in Ids, Get(r, id)
      PROVE  TypeOK'
  <2>1. [req[r] EXCEPT !.pc = "done", !.kind = "get", !.id = id, !.copy = table[id],
                       !.status = 200] \in Request
    BY <1>b, GetRecord
  <2> QED
    BY <1>9, <1>a, <1>b, <2>1 DEF Get, TypeOK, Kind, Status
<1>10. CASE UNCHANGED vars
  BY <1>10 DEF vars, TypeOK
<1> QED
  BY <1>1, <1>2, <1>3, <1>4, <1>5, <1>6, <1>7, <1>8, <1>9, <1>10 DEF Next, Step, Finished

-----------------------------------------------------------------------------

\* A row that was issued stays issued, a deleted one deleted, and its values
\* change only with its updated_at.
Grows(id) ==
  Issued(id) =>
    /\ table'[id].state # "unused"
    /\ table[id].state = "deleted" => table'[id].state = "deleted"
    /\ table[id].updated <= table'[id].updated
    /\ table[id].updated = table'[id].updated => table[id].value = table'[id].value

LEMMA RowsGrow ==
  ASSUME TypeOK, AnswerInv, [Next]_vars
  PROVE  \A id \in Ids : Grows(id)
<1>0. /\ \A id \in Ids : table[id].updated \in Nat
      /\ table \in [Ids -> Row]
  BY DEF TypeOK, Row
<1>1. CASE UNCHANGED table
  BY <1>0, <1>1 DEF Grows, Issued
<1>2. ASSUME NEW r \in Requests, NEW id \in Ids, NEW fields \in SUBSET Fields,
             Create(r, id, fields)
      PROVE  \A i \in Ids : Grows(i)
  <2>1. /\ table[id].state = "unused"
        /\ \A i \in Ids : i # id => table'[i] = table[i]
    BY <1>0, <1>2 DEF Create
  <2> QED
    BY <1>0, <2>1 DEF Grows, Issued
<1>3. ASSUME NEW r \in Requests, PatchWrite(r) \/ PatchUnacknowledged(r)
      PROVE  \A i \in Ids : Grows(i)
  <2> DEFINE id == req[r].id
  <2>1. id \in Ids /\ table[id].state = "present"
    BY <1>3 DEF PatchWrite, PatchUnacknowledged, AnswerInv, UpdateSelects, Present
  <2>2. /\ table'[id].updated = table[id].updated + 1 /\ table'[id].state = "present"
        /\ \A i \in Ids : i # id => table'[i] = table[i]
    BY <1>0, <1>3, <2>1 DEF PatchWrite, PatchUnacknowledged
  <2> HIDE DEF id
  <2> QED
    BY <1>0, <2>1, <2>2 DEF Grows, Issued
<1>4. ASSUME NEW r \in Requests, NEW id \in Ids, Delete(r, id)
      PROVE  \A i \in Ids : Grows(i)
  <2>1. /\ table'[id] = [table[id] EXCEPT !.state = "deleted"]
        /\ \A i \in Ids : i # id => table'[i] = table[i]
    BY <1>0, <1>4 DEF Delete
  <2>2. /\ table'[id].state = "deleted" /\ table'[id].updated = table[id].updated
        /\ table'[id].value = table[id].value
    BY <1>0, <2>1 DEF Row
  <2>3. table[id].updated \in Nat /\ \A i \in Ids : table[i].updated <= table[i].updated
    BY <1>0
  <2>4. Grows(id)
    BY <2>2, <2>3 DEF Grows
  <2>5. \A i \in Ids : i # id => Grows(i)
    BY <2>1, <2>3 DEF Grows, Issued
  <2> QED
    BY <2>4, <2>5
<1> QED
  BY <1>1, <1>2, <1>3, <1>4 DEF Next, Step, Finished, vars, BadRequest, PatchRead, PatchRefresh,
    PatchNotFound, Fails, DeleteNotFound, Get

\* What AdminInv says of one request.
RequestInv(r) ==
  /\ req[r].status # 0 => req[r].pc = "done"
  /\ req[r].pc \in {"update", "refresh"} =>
       req[r].kind = "patch" /\ req[r].id \in Ids /\ Issued(req[r].id)
  /\ req[r].status = 404 => req[r].id \in Ids /\ table[req[r].id].state = "deleted"
  /\ req[r].kind = "delete" /\ req[r].status = 204 =>
       req[r].id \in Ids /\ table[req[r].id].state = "deleted"
  /\ req[r].pc = "update" =>
       /\ req[r].copy.updated <= table[req[r].id].updated
       /\ req[r].copy.updated = table[req[r].id].updated =>
            req[r].copy.value = table[req[r].id].value
  /\ req[r].pc = "refresh" =>
       /\ req[r].wrote <= table[req[r].id].updated
       /\ req[r].wrote = table[req[r].id].updated =>
            \A f \in req[r].fields : table[req[r].id].value[f] = r
  /\ req[r].kind = "patch" /\ req[r].status = 200 =>
       /\ req[r].copy.updated >= req[r].wrote
       /\ req[r].copy.updated = req[r].wrote =>
            \A f \in req[r].fields : req[r].copy.value[f] = r

LEMMA RequestInvs ==
  AdminInv <=> (\A r \in Requests : RequestInv(r)) /\ OneDeleteSucceeds
BY DEF AdminInv, AnswerInv, CopyInv, WroteInv, PatchAnswerIsFresh, RequestInv

\* A request that a step leaves alone keeps its invariant, as rows only grow.
LEMMA RequestKept ==
  ASSUME TypeOK, TypeOK', AnswerInv, [Next]_vars, NEW r \in Requests, RequestInv(r),
         req'[r] = req[r]
  PROVE  RequestInv(r)'
<1>1. /\ req[r].copy.updated \in Nat /\ req[r].wrote \in Nat
      /\ \A id \in Ids : table[id].updated \in Nat /\ table'[id].updated \in Nat
  BY DEF TypeOK, Request, Row
<1>2. \A id \in Ids : Grows(id)
  BY RowsGrow
<1> QED
  BY <1>1, <1>2 DEF RequestInv, Grows, Issued

\* A request that is answered, with what status.
LEMMA Answered ==
  ASSUME TypeOK, NEW r \in Requests, NEW kind, NEW id, NEW status, Answer(r, kind, id, status)
  PROVE  /\ req'[r].pc = "done" /\ req'[r].kind = kind /\ req'[r].id = id
         /\ req'[r].status = status
         /\ \A q \in Requests : q # r => req'[q] = req[q]
BY DEF TypeOK, Request, Answer

LEMMA RequestStep ==
  ASSUME TypeOK, TypeOK', AdminInv, [Next]_vars, NEW r \in Requests, Step(r)
  PROVE  /\ RequestInv(r)'
         /\ \A q \in Requests : q # r => req'[q] = req[q]
         /\ req'[r].kind = "delete" /\ req'[r].status = 204 =>
              req'[r].id \in Ids /\ table[req'[r].id].state = "present"
<1> DEFINE Goal == /\ RequestInv(r)'
                   /\ \A q \in Requests : q # r => req'[q] = req[q]
                   /\ req'[r].kind = "delete" /\ req'[r].status = 204 =>
                        req'[r].id \in Ids /\ table[req'[r].id].state = "present"
<1>0. /\ RequestInv(r) /\ AnswerInv
      /\ req \in [Requests -> Request] /\ req[r] \in Request
      /\ table \in [Ids -> Row] /\ \A id \in Ids : table[id] \in Row /\ table[id].updated \in Nat
  BY RequestInvs DEF AdminInv, TypeOK, Row
<1>1. \A id \in Ids : Grows(id)
  BY <1>0, RowsGrow
\* Answers that carry no body.
<1>2. ASSUME NEW kind, NEW id, NEW status \in Status \ {0, 200}, Answer(r, kind, id, status),
             status = 404 => id \in Ids /\ table'[id].state = "deleted",
             kind = "delete" /\ status = 204 =>
               id \in Ids /\ table'[id].state = "deleted" /\ table[id].state = "present"
      PROVE  Goal
  BY <1>2, Answered DEF RequestInv, Status
<1>3. ASSUME NEW id \in Ids, NEW fields \in SUBSET Fields, Create(r, id, fields)
      PROVE  Goal
  BY <1>2, <1>3 DEF Create, Status
<1>4. CASE BadRequest(r)
  BY <1>2, <1>4 DEF BadRequest, Status
<1>5. ASSUME NEW id \in Ids, NEW fields \in SUBSET Fields, PatchRead(r, id, fields)
      PROVE  Goal
  <2>1. /\ req'[r].pc = "update" /\ req'[r].kind = "patch" /\ req'[r].id = id
        /\ req'[r].copy = table[id] /\ req'[r].status = req[r].status
        /\ req[r].pc = "none" /\ \A q \in Requests : q # r => req'[q] = req[q]
    BY <1>0, <1>5 DEF PatchRead, Idle, Request
  <2>2. UNCHANGED table /\ table[id].state = "present"
    BY <1>5 DEF PatchRead, Present
  <2> QED
    BY <1>0, <2>1, <2>2 DEF RequestInv, Issued
<1>6. CASE PatchWrite(r)
  <2> DEFINE id == req[r].id
  <2>1. req[r].pc = "update" /\ id \in Ids
    BY <1>0, <1>6 DEF PatchWrite, RequestInv
  <2>2. /\ req'[r].pc = "refresh" /\ req'[r].kind = req[r].kind /\ req'[r].id = id
        /\ req'[r].wrote = table[id].updated + 1 /\ req'[r].status = req[r].status
        /\ req'[r].fields = req[r].fields
        /\ \A q \in Requests : q # r => req'[q] = req[q]
    BY <1>0, <1>6 DEF PatchWrite, Request
  <2>3. /\ table'[id].updated = table[id].updated + 1 /\ table'[id].value = Merge(r)
        /\ table'[id].state = "present"
    BY <1>0, <1>6, <2>1 DEF PatchWrite
  <2>4. \A f \in req[r].fields : Merge(r)[f] = r
    BY MergeType
  <2> HIDE DEF id
  <2> QED
    BY <1>0, <2>1, <2>2, <2>3, <2>4 DEF RequestInv, Issued
<1>7. CASE PatchRefresh(r)
  <2> DEFINE id == req[r].id
  <2>1. req[r].pc = "refresh" /\ id \in Ids /\ UNCHANGED table
    BY <1>0, <1>7 DEF PatchRefresh, RequestInv
  <2>2. /\ req'[r].pc = "done" /\ req'[r].kind = req[r].kind /\ req'[r].id = id
        /\ req'[r].wrote = req[r].wrote /\ req'[r].status = 200
        /\ req'[r].fields = req[r].fields /\ req'[r].copy = table[id]
        /\ \A q \in Requests : q # r => req'[q] = req[q]
    BY <1>0, <1>7 DEF PatchRefresh, Show, Request
  <2>3. req[r].wrote \in Nat
    BY <1>0 DEF Request
  <2> QED
    BY <1>0, <2>1, <2>2, <2>3 DEF RequestInv
<1>8. ASSUME NEW id \in Ids, PatchNotFound(r, id) \/ DeleteNotFound(r, id)
      PROVE  Goal
  <2>1. table'[id].state = "deleted"
    BY <1>0, <1>8 DEF PatchNotFound, DeleteNotFound, Issued, Present, RowDeleted, Row
  <2> QED
    BY <1>2, <1>8, <2>1 DEF PatchNotFound, DeleteNotFound, Status
<1>9. CASE PatchUnacknowledged(r) \/ Fails(r)
  BY <1>2, <1>9 DEF PatchUnacknowledged, Fails, Status
<1>10. ASSUME NEW id \in Ids, Delete(r, id)
       PROVE  Goal
  <2>1. table[id].state = "present" /\ table'[id].state = "deleted"
    BY <1>0, <1>10 DEF Delete, RowDeleted, Present, Row
  <2> QED
    BY <1>2, <1>10, <2>1 DEF Delete, Status
<1>11. ASSUME NEW id \in Ids, Get(r, id)
       PROVE  Goal
  <2>1. CASE Present(id)
    <3>1. /\ req'[r].pc = "done" /\ req'[r].kind = "get" /\ req'[r].status = 200
          /\ \A q \in Requests : q # r => req'[q] = req[q]
      <4>1. req' = [req EXCEPT ![r] = [req[r] EXCEPT !.pc = "done", !.kind = "get", !.id = id,
                                                     !.copy = table[id], !.status = 200]]
        BY <1>11, <2>1 DEF Get
      <4>2. req'[r] = [req[r] EXCEPT !.pc = "done", !.kind = "get", !.id = id,
                                     !.copy = table[id], !.status = 200]
        BY <1>0, <4>1
      <4>3. \A q \in Requests : q # r => req'[q] = req[q]
        BY <1>0, <4>1
      <4> QED
        BY <1>0, <4>2, <4>3 DEF Request
    <3> QED
      BY <3>1 DEF RequestInv
  <2>2. CASE ~Present(id)
    <3>1. table'[id].state = "deleted"
      BY <1>0, <1>11, <2>2 DEF Get, Issued, Present, Row
    <3> QED
      BY <1>2, <1>11, <2>2, <3>1 DEF Get, Status
  <2> QED
    BY <2>1, <2>2
<1> QED
  BY <1>3, <1>4, <1>5, <1>6, <1>7, <1>8, <1>9, <1>10, <1>11 DEF Step

LEMMA AdminInductive ==
  ASSUME TypeOK, AdminInv, [Next]_vars
  PROVE  TypeOK' /\ AdminInv'
<1>1. TypeOK'
  BY AdminTypes DEF AdminInv
<1>2. ASSUME NEW r \in Requests, Step(r)
      PROVE  AdminInv'
  <2>1. \A q \in Requests : RequestInv(q)'
    BY <1>1, <1>2, RequestStep, RequestKept, RequestInvs DEF AdminInv
  <2>2. \A q \in Requests \ {r} : req'[q] = req[q]
    BY <1>1, <1>2, RequestStep
  <2>3. \A q \in Requests : req[q].kind = "delete" /\ req[q].status = 204 =>
          table[req[q].id].state = "deleted"
    BY DEF AdminInv, AnswerInv
  <2>4. req'[r].kind = "delete" /\ req'[r].status = 204 =>
          table[req'[r].id].state = "present"
    BY <1>1, <1>2, RequestStep
  <2>5. OneDeleteSucceeds'
    BY <2>2, <2>3, <2>4 DEF AdminInv, OneDeleteSucceeds
  <2> QED
    BY <2>1, <2>5, RequestInvs DEF AdminInv, AnswerInv, CopyInv, WroteInv, PatchAnswerIsFresh,
      RequestInv
<1>3. CASE UNCHANGED vars
  <2>1. table' = table /\ req' = req
    BY <1>3 DEF vars
  <2> QED
    BY <1>1, <2>1 DEF AdminInv, AnswerInv, CopyInv, WroteInv, OneDeleteSucceeds, PatchAnswerIsFresh,
      Issued
<1> QED
  BY <1>1, <1>2, <1>3 DEF Next, Finished

LEMMA AdminInit == Init => TypeOK /\ AdminInv
BY DEF Init, NoRow, NoRequest, TypeOK, Row, Request, Value, Kind, Status, AdminInv, AnswerInv,
  CopyInv, WroteInv, OneDeleteSucceeds, PatchAnswerIsFresh

\* The rows and the requests keep their types.
THEOREM AdminTypeCorrect == Spec => []TypeOK
BY AdminInit, AdminInductive, PTL DEF Spec

\* The copy of a PATCH in progress is the row or older, and answers were true.
THEOREM AdminInvariant == Spec => []AdminInv
BY AdminInit, AdminInductive, PTL DEF Spec

\* Whoever is told 404 is told so for good: no PATCH in progress brings a row back.
THEOREM NotFoundIsFinalHolds == Spec => []NotFoundIsFinal
<1>1. AdminInv => NotFoundIsFinal
  BY DEF AdminInv, AnswerInv, NotFoundIsFinal
<1> QED
  BY <1>1, AdminInvariant, PTL

\* One DELETE of a broadcaster is answered 204.
THEOREM OneDeleteSucceedsHolds == Spec => []OneDeleteSucceeds
<1>1. AdminInv => OneDeleteSucceeds
  BY DEF AdminInv
<1> QED
  BY <1>1, AdminInvariant, PTL

\* The answer of a PATCH shows what it wrote or something newer.
THEOREM PatchAnswerIsFreshHolds == Spec => []PatchAnswerIsFresh
<1>1. AdminInv => PatchAnswerIsFresh
  BY DEF AdminInv
<1> QED
  BY <1>1, AdminInvariant, PTL

\* An UPDATE that changes a field its body leaves out writes a copy older than
\* the row: a PATCH whose copy is the row writes the field back as it was.
THEOREM LostOnlyByOverlapHolds == Spec => LostOnlyByOverlap
<1> DEFINE Lost(r, f) == LET id == req[r].id IN
             /\ req[r].pc = "update" /\ table'[id].updated # table[id].updated
             /\ req'[r].pc # "update"
             /\ f \notin req[r].fields
             /\ table'[id].value[f] # table[id].value[f]
             => req[r].copy.updated < table[id].updated
<1>1. TypeOK /\ AdminInv /\ [Next]_vars => \A r \in Requests, f \in Fields : Lost(r, f)
  <2> SUFFICES ASSUME TypeOK, AdminInv, [Next]_vars, NEW r \in Requests, NEW f \in Fields,
                      req[r].pc = "update",
                      table'[req[r].id].updated # table[req[r].id].updated,
                      req'[r].pc # "update", f \notin req[r].fields,
                      table'[req[r].id].value[f] # table[req[r].id].value[f]
               PROVE  req[r].copy.updated < table[req[r].id].updated
    OBVIOUS
  <2> DEFINE id == req[r].id
  <2>0. /\ id \in Ids /\ Issued(id) /\ table \in [Ids -> Row]
        /\ table[id].updated \in Nat /\ req[r].copy.updated \in Nat
        /\ req[r].copy.updated <= table[id].updated
        /\ req[r].copy.updated = table[id].updated => req[r].copy.value = table[id].value
    BY DEF AdminInv, AnswerInv, CopyInv, TypeOK, Request, Row
  <2>1. ASSUME NEW q \in Requests, Step(q)
        PROVE  q = r
    <3>1. TypeOK'
      BY AdminInductive
    <3>2. \A p \in Requests : p # q => req'[p] = req[p]
      BY <2>1, <3>1, RequestStep
    <3> QED
      BY <3>2
  <2>2. Step(r)
    BY <2>1 DEF Next, Finished, vars
  <2>3. PatchWrite(r) \/ PatchUnacknowledged(r)
    BY <2>2 DEF Step, Create, BadRequest, PatchRead, PatchRefresh, PatchNotFound, Fails, Delete,
      DeleteNotFound, Get, Idle
  <2>4. table'[id].value = Merge(r)
    BY <2>0, <2>3 DEF PatchWrite, PatchUnacknowledged
  <2>5. Merge(r)[f] = req[r].copy.value[f]
    BY MergeType
  <2> QED
    BY <2>0, <2>4, <2>5
<1> QED
  BY <1>1, AdminTypeCorrect, AdminInvariant, PTL DEF Spec, LostOnlyByOverlap
=============================================================================
