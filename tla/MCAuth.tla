-------------------------------- MODULE MCAuth --------------------------------
EXTENDS AuthMiddleware

CONSTANTS secret, other, key, json, edited

\* A client's request on a path, signed at its second sec.
SignedBy(s, method, path, sec, body) ==
  [method |-> method, path |-> path, key |-> key, stamp |-> [value |-> sec, plain |-> TRUE], body |-> body,
   sig |-> [secret |-> s, text |-> [method |-> method, path |-> path, value |-> sec,
                                     plain |-> TRUE, body |-> body]]]

Create(sec) == SignedBy(secret, "POST", <<"broadcasters", FALSE>>, sec, json)

\* Clocks that are a little or far off, and the numbers at the ends of a word,
\* at which seconds, or ticks, wrap around (the last is no word).
Seconds == -2..5 \cup {-128, -64, -32, 32, 64, 65, 119, 120, 127, 128}

\* The requests that a path and a method allow, and others; stamps of any kind;
\* and requests of which one part is missing, misspelled or not what was signed.
Arriving ==
  {SignedBy(secret, m, p, 1, EmptyBody) : m \in Methods, p \in Paths}
  \cup {Create(sec) : sec \in Seconds}
  \cup {[Create(1) EXCEPT !.key = None], [Create(1) EXCEPT !.sig = None],
        [Create(1) EXCEPT !.stamp = None], [Create(1) EXCEPT !.stamp.plain = FALSE],
        [Create(1) EXCEPT !.stamp.value = 2], [Create(1) EXCEPT !.body = edited],
        [Create(1) EXCEPT !.body = EmptyBody],
        SignedBy(other, "POST", <<"broadcasters", FALSE>>, 1, json),
        [SignedBy(secret, "DELETE", <<"stream-keys", TRUE>>, 1, EmptyBody)
           EXCEPT !.path = <<"broadcasters", TRUE>>],
        [SignedBy(secret, "GET", <<"broadcasters", TRUE>>, 1, EmptyBody) EXCEPT !.method = "DELETE"]}
=============================================================================
