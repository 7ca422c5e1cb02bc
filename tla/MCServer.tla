------------------------------- MODULE MCServer -------------------------------
EXTENDS ServerProcess

CONSTANTS a1, h1, p1, boot, cli

\* An authentication, a ready hook and a health check.
Handlers == [r \in Requests |-> CASE r = a1 -> "auth"
                                  [] r = h1 -> "hook"
                                  [] r = p1 -> "health"]
=============================================================================
