------------------------------ MODULE MCPool ------------------------------
(* Instances of RedisPool for TLC.                                         *)
EXTENDS RedisPool

CONSTANTS u1, u2, c1, c2

\* One connection, tested and pruned, that a Get waits for; one that is not
\* kept and not waited for; and two, of which one may be idle.
MCPools ==
  {[maxActive |-> 1, maxIdle |-> 1, wait |-> "yes", testOnBorrow |-> "yes",
    idleTimeout |-> "yes"],
   [maxActive |-> 1, maxIdle |-> 0, wait |-> "no", testOnBorrow |-> "no",
    idleTimeout |-> "no"],
   [maxActive |-> 2, maxIdle |-> 1, wait |-> "yes", testOnBorrow |-> "yes",
    idleTimeout |-> "no"]}

MCGets == [u \in Users |-> IF u = u1 THEN 2 ELSE 1]
\* Enough for a subscriber's UNWATCH after a WATCH, where there is one
\* connection and others wait for it.
MCSends ==
  [p \in MCPools |->
     [u \in Users |-> IF u # u1 THEN 0
                      ELSE IF p.maxActive = 2 THEN 1
                      ELSE IF p.wait = "yes" THEN 3 ELSE 0]]
=============================================================================
