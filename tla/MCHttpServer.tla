---------------------------- MODULE MCHttpServer ----------------------------
(* HttpServer on small instances. *)
EXTENDS HttpServer

CONSTANTS k1, k2, r1, r2, get

TwoConnections == {k1, k2}
OneConnection == {k1}
TwoRequests == {r1, r2}
OneRoute == {get}

(* Bound: either only one connection is made, or every body comes in one chunk
   and no socket becomes writable again.  Peers owe nothing to fairness, so the
   bound does not weaken what is fair. *)
OneOrPlain ==
    \/ \E k \in Connections : \A other \in Connections \ {k} : connection[other] = "none"
    \/ \A r \in Requests : /\ writables[r] = 0
                           /\ body[r].chunks <= IF body[r].complete THEN 1 ELSE 0

BoundedSpec == Init /\ [][Next /\ OneOrPlain']_vars /\ Fairness
=============================================================================
