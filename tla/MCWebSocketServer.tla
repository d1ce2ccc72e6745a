-------------------------- MODULE MCWebSocketServer --------------------------
(* WebSocketServer on small instances. *)
EXTENDS WebSocketServer, FiniteSetsExt, TLC

CONSTANTS c1, c2

TwoClients == {c1, c2}

(* One size that fits the buffer and the largest that is accepted. *)
Sizes == {m_maxPayloadSize - 1, m_maxPayloadSize}

Symmetry == Permutations(Clients)

(* Bound: two messages with one listen, or one message with two.  Clients and
   user code owe nothing to fairness, so the bound does not weaken it. *)
FewInputs == listens + MapThenSumSet(LAMBDA c : sent[c], Clients) <= 3

BoundedSpec == Init /\ [][Next /\ FewInputs']_vars /\ Fairness
=============================================================================
