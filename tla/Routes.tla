-------------------------------- MODULE Routes --------------------------------
(***************************************************************************)
(* The routes of the server and what its handlers serve.  A path is the    *)
(* part before an id and whether an id follows.                            *)
(***************************************************************************)
Methods == {"GET", "POST", "PATCH", "PUT", "DELETE"}

Row(path, methods, handler, signed) ==
  [path |-> path, methods |-> methods, handler |-> handler, signed |-> signed]

\* MediaMTX and the health check sign nothing; operators sign every request.
Public == {
  Row(<<"auth", FALSE>>, {"POST"}, "auth", FALSE),
  Row(<<"webhook/ready", FALSE>>, {"POST"}, "webhook", FALSE),
  Row(<<"webhook/not-ready", FALSE>>, {"POST"}, "webhook", FALSE),
  Row(<<"health", FALSE>>, {"GET"}, "health", FALSE) }

Protected == {
  Row(<<"streams", FALSE>>, {"GET"}, "stream", TRUE),
  Row(<<"streams", TRUE>>, {"GET"}, "stream", TRUE),
  Row(<<"stream-keys", FALSE>>, {"GET", "POST"}, "streamKey", TRUE),
  Row(<<"stream-keys", TRUE>>, {"GET", "DELETE"}, "streamKey", TRUE),
  Row(<<"broadcasters", FALSE>>, {"GET", "POST"}, "broadcaster", TRUE),
  Row(<<"broadcasters", TRUE>>, {"GET", "PATCH", "DELETE"}, "broadcaster", TRUE) }

Table == Public \cup Protected

\* A path of no route, beside those of the table.
Paths == {row.path : row \in Table} \cup {<<"other", FALSE>>}

Found(method, path) == \E row \in Table : row.path = path /\ method \in row.methods

Route(method, path) ==
  CHOOSE row \in Table : row.path = path /\ method \in row.methods

\* mux answers itself, and calls no middleware, when no route matches.
Unrouted(path) == IF \E row \in Table : row.path = path THEN 405 ELSE 404

\* The methods that do not fall to the default in the ServeHTTP of a handler.  A
\* switch looks at the id; the variant forgets PATCH in it.
AuthServes == {"POST"}
WebhookServes == {"POST"}
HealthServes == {"GET"}
StreamServes == {"GET"}
StreamKeyServes(id) == IF id THEN {"GET", "DELETE"} ELSE {"GET", "POST"}
BroadcasterNoPatch(id) == IF id THEN {"GET", "DELETE"} ELSE {"GET", "POST"}
BroadcasterServes(id) == IF id THEN {"GET", "PATCH", "DELETE"} ELSE {"GET", "POST"}

Serves(handler, id) ==
  CASE handler = "auth" -> AuthServes
    [] handler = "webhook" -> WebhookServes
    [] handler = "health" -> HealthServes
    [] handler = "stream" -> StreamServes
    [] handler = "streamKey" -> StreamKeyServes(id)
    [] handler = "broadcaster" -> BroadcasterServes(id)

=============================================================================
