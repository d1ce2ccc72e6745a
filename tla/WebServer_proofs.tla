---------------------------- MODULE WebServer_proofs ----------------------------
(***************************************************************************)
(* Facts about the FIFO of deferred events, whose entries the WebSocket    *)
(* server and the HTTP server tell apart by their type, their sender and   *)
(* their number: what appending events and handing over the first one do   *)
(* to the order and the numbering of the events.  They are stated about    *)
(* the values of the queue before and after, so that they mention no       *)
(* state.                                                                  *)
(***************************************************************************)
EXTENDS WebServer, TLAPS

At(q, i, type, c) == q[i].type = type /\ q[i].clientID = c

(* Does the event at position i come from c, and is it of one of the types? *)
Of(q, i, types, c) == q[i].type \in types /\ q[i].clientID = c

Mentions(q, c) == \E i \in 1..Len(q) : q[i].clientID = c

Has(q, type, c) == \E i \in 1..Len(q) : At(q, i, type, c)

(* The events of c of these types are those numbered after rc, up to st:   *)
(* each once, and in this order.                                           *)
Numbered(q, types, rc, st, c) ==
    /\ rc <= st
    /\ \A i \in 1..Len(q) : Of(q, i, types, c) => q[i].n \in (rc + 1)..st
    /\ \A i, j \in 1..Len(q) :
          i < j /\ Of(q, i, types, c) /\ Of(q, j, types, c) => q[i].n < q[j].n
    /\ \A n \in (rc + 1)..st : \E i \in 1..Len(q) : Of(q, i, types, c) /\ q[i].n = n

(* Of the events of each of these senders, only the one at the front may   *)
(* be of the first type, and only the one at the back of the last type.    *)
Bracketed(q, ids, first, last) ==
    \A c \in ids : \A i, j \in 1..Len(q) :
        i < j /\ q[i].clientID = c /\ q[j].clientID = c
            => q[i].type # last /\ q[j].type # first

(* The last LISTEN or SHUTDOWN before position s, or the status, is LISTEN. *)
ListeningAt(q, st, s) ==
    \/ \E k \in 1..(s - 1) :
          /\ At(q, k, "LISTEN", SERVER)
          /\ \A m \in k..(s - 1) : ~At(q, m, "SHUTDOWN", SERVER)
    \/ st = "listening" /\ \A m \in 1..(s - 1) : ~At(q, m, "SHUTDOWN", SERVER)

ListensFirst(q, st) ==
    \A s \in 1..Len(q) : At(q, s, "SHUTDOWN", SERVER) => ListeningAt(q, st, s)

-----------------------------------------------------------------------------
(* Events are appended: queue q grows to p.                                *)

Grows(q, p) ==
    /\ Len(q) \in Nat /\ Len(p) \in Nat /\ Len(q) <= Len(p)
    /\ \A i \in 1..Len(q) : p[i] = q[i]

Added(q, p) == (Len(q) + 1)..Len(p)

(* What the queue holds after it grew. *)
LEMMA GrowsHas ==
    ASSUME NEW q, NEW p, Grows(q, p), NEW type, NEW c
    PROVE  Has(p, type, c) <=> Has(q, type, c) \/ \E j \in Added(q, p) : At(p, j, type, c)
<1>1. \A i \in 1..Len(q) : At(p, i, type, c) <=> At(q, i, type, c)
  BY DEF Grows, At
<1>2. \A i : i \in 1..Len(p) <=> i \in 1..Len(q) \/ i \in Added(q, p)
  BY DEF Grows, Added
<1> QED BY <1>1, <1>2 DEF Has

(* New events respect the order if none of them is out of place. *)
LEMMA GrowsBracketed ==
    ASSUME NEW q, NEW p, NEW ids, NEW first, NEW last, Grows(q, p), Bracketed(q, ids, first, last),
           \A j \in Added(q, p) : \A i \in 1..(j - 1) :
              p[j].clientID \in ids /\ p[i].clientID = p[j].clientID
                 => p[i].type # last /\ p[j].type # first
    PROVE  Bracketed(p, ids, first, last)
<1> SUFFICES ASSUME NEW c \in ids, NEW i \in 1..Len(p), NEW j \in 1..Len(p), i < j,
                    p[i].clientID = c, p[j].clientID = c
             PROVE  p[i].type # last /\ p[j].type # first
  BY DEF Bracketed
<1>1. CASE j \in 1..Len(q)
  <2>1. i \in 1..Len(q) /\ p[i] = q[i] /\ p[j] = q[j]
    BY <1>1 DEF Grows
  <2> QED BY <1>1, <2>1 DEF Bracketed
<1>2. CASE j \in Added(q, p)
  <2>1. i \in 1..(j - 1)
    BY <1>2 DEF Grows, Added
  <2> QED BY <1>2, <2>1
<1> QED BY <1>1, <1>2 DEF Grows, Added

(* Events of other senders or types leave the numbering alone. *)
LEMMA GrowsNumbered ==
    ASSUME NEW q, NEW p, Grows(q, p), NEW types, NEW c, NEW rc \in Nat, NEW st \in Nat,
           Numbered(q, types, rc, st, c),
           \A j \in Added(q, p) : ~Of(p, j, types, c)
    PROVE  Numbered(p, types, rc, st, c)
<1>1. \A i \in 1..Len(p) : Of(p, i, types, c) =>
         i \in 1..Len(q) /\ p[i] = q[i] /\ Of(q, i, types, c)
  BY DEF Grows, Added, Of
<1>2. \A i \in 1..Len(q) : Of(q, i, types, c) =>
         i \in 1..Len(p) /\ p[i] = q[i] /\ Of(p, i, types, c)
  BY DEF Grows, Of
<1>3. rc <= st
  BY DEF Numbered
<1>4. ASSUME NEW i \in 1..Len(p), Of(p, i, types, c) PROVE p[i].n \in (rc + 1)..st
  BY <1>1, <1>4 DEF Numbered
<1>5. ASSUME NEW i \in 1..Len(p), NEW j \in 1..Len(p), i < j,
             Of(p, i, types, c), Of(p, j, types, c)
      PROVE  p[i].n < p[j].n
  BY <1>1, <1>5 DEF Numbered
<1>6. ASSUME NEW n \in (rc + 1)..st
      PROVE  \E i \in 1..Len(p) : Of(p, i, types, c) /\ p[i].n = n
  BY <1>2 DEF Numbered
<1> QED BY <1>3, <1>4, <1>5, <1>6 DEF Numbered

(* The new event has the next number. *)
LEMMA GrowsByOne ==
    ASSUME NEW q, NEW p, Grows(q, p), NEW types, NEW c, NEW rc \in Nat, NEW st \in Nat,
           Numbered(q, types, rc, st, c), Len(p) = Len(q) + 1,
           Of(p, Len(p), types, c), p[Len(p)].n = st + 1
    PROVE  Numbered(p, types, rc, st + 1, c)
<1> DEFINE n == Len(q)
<1>1. n \in Nat /\ Len(p) = n + 1 /\ Of(p, n + 1, types, c) /\ p[n + 1].n = st + 1
  BY DEF Grows
<1>2. \A i \in 1..n : p[i] = q[i] /\ (Of(p, i, types, c) <=> Of(q, i, types, c))
  BY DEF Grows, Of
<1> HIDE DEF n
<1>3. /\ rc <= st
      /\ \A i \in 1..n : Of(q, i, types, c) => q[i].n \in (rc + 1)..st
      /\ \A i, j \in 1..n :
            i < j /\ Of(q, i, types, c) /\ Of(q, j, types, c) => q[i].n < q[j].n
      /\ \A m \in (rc + 1)..st : \E i \in 1..n : Of(q, i, types, c) /\ q[i].n = m
  BY DEF Numbered, n
<1>4. rc <= st + 1
  BY <1>3
<1>5. ASSUME NEW i \in 1..(n + 1), Of(p, i, types, c) PROVE p[i].n \in (rc + 1)..(st + 1)
  <2>1. CASE i = n + 1
    BY <1>1, <1>3, <2>1
  <2>2. CASE i \in 1..n
    BY <1>2, <1>3, <1>5, <2>2
  <2> QED BY <1>1, <2>1, <2>2
<1>6. ASSUME NEW i \in 1..(n + 1), NEW j \in 1..(n + 1), i < j,
             Of(p, i, types, c), Of(p, j, types, c)
      PROVE  p[i].n < p[j].n
  <2>1. i \in 1..n /\ p[i] = q[i] /\ Of(q, i, types, c)
    BY <1>1, <1>2, <1>6
  <2>2. CASE j = n + 1
    BY <1>1, <1>3, <2>1, <2>2
  <2>3. CASE j \in 1..n
    BY <1>2, <1>3, <1>6, <2>1, <2>3
  <2> QED BY <1>1, <2>2, <2>3
<1>7. ASSUME NEW m \in (rc + 1)..(st + 1)
      PROVE  \E i \in 1..(n + 1) : Of(p, i, types, c) /\ p[i].n = m
  <2>1. CASE m = st + 1
    <3>1. n + 1 \in 1..(n + 1)
      BY <1>1
    <3> QED BY <1>1, <2>1, <3>1
  <2>2. CASE m # st + 1
    <3>1. PICK i \in 1..n : Of(q, i, types, c) /\ q[i].n = m
      BY <1>3, <2>2
    <3>2. i \in 1..(n + 1)
      BY <1>1
    <3> QED BY <1>2, <3>1, <3>2
  <2> QED BY <2>1, <2>2
<1> QED BY <1>1, <1>4, <1>5, <1>6, <1>7 DEF Numbered

(* What precedes a position stays the same. *)
LEMMA GrowsListening ==
    ASSUME NEW q, NEW p, Grows(q, p), NEW st, NEW s \in 1..(Len(q) + 1), ListeningAt(q, st, s)
    PROVE  ListeningAt(p, st, s)
<1>1. \A i \in 1..(s - 1) : p[i] = q[i]
  BY DEF Grows
<1>2. \A k \in 1..(s - 1) : \A m \in k..(s - 1) : m \in 1..(s - 1)
  BY DEF Grows
<1> QED BY <1>1, <1>2 DEF ListeningAt, At

(* The SHUTDOWNs of a queue that grew follow their LISTENs if the new ones do. *)
LEMMA GrowsListensFirst ==
    ASSUME NEW q, NEW p, Grows(q, p), NEW st, ListensFirst(q, st),
           \A j \in Added(q, p) : At(p, j, "SHUTDOWN", SERVER) => ListeningAt(p, st, j)
    PROVE  ListensFirst(p, st)
<1> SUFFICES ASSUME NEW s \in 1..Len(p), At(p, s, "SHUTDOWN", SERVER)
             PROVE  ListeningAt(p, st, s)
  BY DEF ListensFirst
<1>1. CASE s \in 1..Len(q)
  <2>1. p[s] = q[s] /\ s \in 1..(Len(q) + 1)
    BY <1>1 DEF Grows
  <2>2. ListeningAt(q, st, s)
    BY <1>1, <2>1 DEF ListensFirst, At
  <2> QED BY <2>1, <2>2, GrowsListening
<1>2. CASE s \in Added(q, p)
  BY <1>2
<1> QED BY <1>1, <1>2 DEF Grows, Added

(* Listening carries over events other than SHUTDOWN. *)
LEMMA ListeningOver ==
    ASSUME NEW p, NEW st, NEW s \in Nat \ {0}, NEW t \in Nat \ {0}, s <= t,
           ListeningAt(p, st, s), \A m \in s..(t - 1) : ~At(p, m, "SHUTDOWN", SERVER)
    PROVE  ListeningAt(p, st, t)
<1>1. \A k \in 1..(s - 1) : k \in 1..(t - 1)
  OBVIOUS
<1>2. \A k \in 1..(t - 1) : \A m \in k..(t - 1) : m \in k..(s - 1) \/ m \in s..(t - 1)
  OBVIOUS
<1>3. \A m \in 1..(t - 1) : m \in 1..(s - 1) \/ m \in s..(t - 1)
  OBVIOUS
<1>4. CASE \E k \in 1..(s - 1) :
             /\ At(p, k, "LISTEN", SERVER)
             /\ \A m \in k..(s - 1) : ~At(p, m, "SHUTDOWN", SERVER)
  BY <1>1, <1>2, <1>4 DEF ListeningAt
<1>5. CASE st = "listening" /\ \A m \in 1..(s - 1) : ~At(p, m, "SHUTDOWN", SERVER)
  BY <1>3, <1>5 DEF ListeningAt
<1> QED BY <1>4, <1>5 DEF ListeningAt

(* Appending one event. *)
LEMMA Appended ==
    ASSUME NEW S, NEW q \in Seq(S), NEW e \in S
    PROVE  /\ Grows(q, Append(q, e))
           /\ Len(Append(q, e)) = Len(q) + 1
           /\ Append(q, e)[Len(q) + 1] = e
           /\ Added(q, Append(q, e)) = {Len(q) + 1}
BY DEF Grows, Added

-----------------------------------------------------------------------------
(* An event is handed over: queue p is what follows the first event of q.  *)

Shifts(q, p) ==
    /\ Len(q) \in Nat \ {0} /\ Len(p) = Len(q) - 1
    /\ \A i \in 1..Len(p) : p[i] = q[i + 1]

(* Taking the first event off. *)
LEMMA Tailed ==
    ASSUME NEW S, NEW q \in Seq(S), q # <<>>
    PROVE  Shifts(q, Tail(q)) /\ Head(q) = q[1] /\ q[1] \in S
BY DEF Shifts

(* What the queue held before its first event was taken off. *)
LEMMA ShiftsHas ==
    ASSUME NEW q, NEW p, Shifts(q, p), NEW type, NEW c
    PROVE  Has(q, type, c) <=> At(q, 1, type, c) \/ Has(p, type, c)
<1>1. ASSUME NEW i \in 1..Len(q), At(q, i, type, c)
      PROVE  At(q, 1, type, c) \/ Has(p, type, c)
  <2>1. CASE i = 1
    BY <1>1, <2>1
  <2>2. CASE i # 1
    <3>1. i - 1 \in 1..Len(p) /\ p[i - 1] = q[i]
      BY <2>2 DEF Shifts
    <3> QED BY <1>1, <3>1 DEF Has, At
  <2> QED BY <2>1, <2>2
<1>2. ASSUME NEW i \in 1..Len(p), At(p, i, type, c) PROVE Has(q, type, c)
  <2>1. i + 1 \in 1..Len(q) /\ p[i] = q[i + 1]
    BY DEF Shifts
  <2> QED BY <1>2, <2>1 DEF Has, At
<1>3. 1 \in 1..Len(q)
  BY DEF Shifts
<1> QED BY <1>1, <1>2, <1>3 DEF Has

(* The event that is handed over was in its place. *)
LEMMA ShiftsBracketed ==
    ASSUME NEW q, NEW p, NEW ids, NEW first, NEW last, Shifts(q, p), Bracketed(q, ids, first, last)
    PROVE  /\ Bracketed(p, ids, first, last)
           /\ \A c \in ids : q[1].clientID = c =>
                 /\ ~Has(p, first, c)
                 /\ q[1].type = last => ~Mentions(p, c)
<1>1. \A i \in 1..Len(p) : i + 1 \in 1..Len(q) /\ p[i] = q[i + 1] /\ 1 < i + 1 /\ 1 \in 1..Len(q)
  BY DEF Shifts
<1>2. \A i, j \in 1..Len(p) : i < j => i + 1 < j + 1
  BY DEF Shifts
<1>3. Bracketed(p, ids, first, last)
  BY <1>1, <1>2 DEF Bracketed
<1>4. ASSUME NEW c \in ids, q[1].clientID = c, NEW i \in 1..Len(p), p[i].clientID = c
      PROVE  p[i].type # first /\ q[1].type # last
  BY <1>1, <1>4 DEF Bracketed
<1> QED BY <1>3, <1>4 DEF Has, At, Mentions

(* An event of another sender or type leaves the numbering alone. *)
LEMMA ShiftsNumbered ==
    ASSUME NEW q, NEW p, Shifts(q, p), NEW types, NEW c, NEW rc \in Nat, NEW st \in Nat,
           Numbered(q, types, rc, st, c), ~Of(q, 1, types, c)
    PROVE  Numbered(p, types, rc, st, c)
<1>1. \A i \in 1..Len(p) : i + 1 \in 1..Len(q) /\ p[i] = q[i + 1]
  BY DEF Shifts
<1>2. \A i, j \in 1..Len(p) : i < j => i + 1 < j + 1
  BY DEF Shifts
<1>3. \A i \in 1..Len(q) : Of(q, i, types, c) => i - 1 \in 1..Len(p) /\ p[i - 1] = q[i]
  BY DEF Shifts
<1>4. rc <= st
  BY DEF Numbered
<1>5. ASSUME NEW i \in 1..Len(p), Of(p, i, types, c) PROVE p[i].n \in (rc + 1)..st
  BY <1>1, <1>5 DEF Numbered, Of
<1>6. ASSUME NEW i \in 1..Len(p), NEW j \in 1..Len(p), i < j,
             Of(p, i, types, c), Of(p, j, types, c)
      PROVE  p[i].n < p[j].n
  <2>1. /\ i + 1 \in 1..Len(q) /\ j + 1 \in 1..Len(q) /\ i + 1 < j + 1
        /\ p[i] = q[i + 1] /\ p[j] = q[j + 1]
    BY <1>1, <1>2, <1>6
  <2>2. Of(q, i + 1, types, c) /\ Of(q, j + 1, types, c)
    BY <1>6, <2>1 DEF Of
  <2>3. q[i + 1].n < q[j + 1].n
    BY <2>1, <2>2 DEF Numbered
  <2> QED BY <2>1, <2>3
<1>7. ASSUME NEW n \in (rc + 1)..st
      PROVE  \E i \in 1..Len(p) : Of(p, i, types, c) /\ p[i].n = n
  <2>1. PICK i \in 1..Len(q) : Of(q, i, types, c) /\ q[i].n = n
    BY DEF Numbered
  <2> QED BY <1>3, <2>1 DEF Of
<1> QED BY <1>4, <1>5, <1>6, <1>7 DEF Numbered

(* The first event in the queue is the one after the last one handled. *)
LEMMA ShiftsByOne ==
    ASSUME NEW q, NEW p, Shifts(q, p), NEW types, NEW c, NEW rc \in Nat, NEW st \in Nat,
           Numbered(q, types, rc, st, c), Of(q, 1, types, c), q[1].n \in Nat
    PROVE  q[1].n = rc + 1 /\ Numbered(p, types, rc + 1, st, c)
<1>0. 1 \in 1..Len(q)
  BY DEF Shifts
<1>1. \A i \in 1..Len(p) : i + 1 \in 1..Len(q) /\ 1 < i + 1 /\ p[i] = q[i + 1]
  BY DEF Shifts
<1>2. \A i, j \in 1..Len(p) : i < j => i + 1 < j + 1
  BY DEF Shifts
<1>3. \A i \in 1..Len(q) : i # 1 => 1 < i /\ i - 1 \in 1..Len(p) /\ p[i - 1] = q[i]
  BY DEF Shifts
<1>4. q[1].n \in (rc + 1)..st
  BY <1>0 DEF Numbered
<1>5. rc + 1 <= st
  BY <1>4
<1>6. PICK k \in 1..Len(q) : Of(q, k, types, c) /\ q[k].n = rc + 1
  BY <1>5 DEF Numbered
<1>7. k = 1
  <2> SUFFICES ASSUME k # 1 PROVE FALSE
    OBVIOUS
  <2>1. q[1].n < q[k].n
    BY <1>0, <1>3, <1>6 DEF Numbered
  <2> QED BY <1>4, <1>6, <2>1
<1>8. q[1].n = rc + 1
  BY <1>6, <1>7
<1>9. ASSUME NEW i \in 1..Len(p), Of(p, i, types, c) PROVE p[i].n \in ((rc + 1) + 1)..st
  <2>1. Of(q, i + 1, types, c) /\ p[i].n = q[i + 1].n
    BY <1>1, <1>9 DEF Of
  <2>2. q[i + 1].n \in (rc + 1)..st
    BY <1>1, <2>1 DEF Numbered
  <2>3. q[1].n < q[i + 1].n
    BY <1>0, <1>1, <2>1 DEF Numbered
  <2> QED BY <1>8, <2>1, <2>2, <2>3
<1>10. ASSUME NEW i \in 1..Len(p), NEW j \in 1..Len(p), i < j,
             Of(p, i, types, c), Of(p, j, types, c)
      PROVE  p[i].n < p[j].n
  <2>1. /\ i + 1 \in 1..Len(q) /\ j + 1 \in 1..Len(q) /\ i + 1 < j + 1
        /\ p[i] = q[i + 1] /\ p[j] = q[j + 1]
    BY <1>1, <1>2, <1>10
  <2>2. Of(q, i + 1, types, c) /\ Of(q, j + 1, types, c)
    BY <1>10, <2>1 DEF Of
  <2>3. q[i + 1].n < q[j + 1].n
    BY <2>1, <2>2 DEF Numbered
  <2> QED BY <2>1, <2>3
<1>11. ASSUME NEW n \in ((rc + 1) + 1)..st
      PROVE  \E i \in 1..Len(p) : Of(p, i, types, c) /\ p[i].n = n
  <2>0. n \in (rc + 1)..st /\ n # rc + 1
    OBVIOUS
  <2>1. PICK i \in 1..Len(q) : Of(q, i, types, c) /\ q[i].n = n
    BY <2>0 DEF Numbered
  <2>2. i # 1
    BY <1>8, <2>0, <2>1
  <2> QED BY <1>3, <2>1, <2>2 DEF Of
<1> QED BY <1>5, <1>8, <1>9, <1>10, <1>11 DEF Numbered

(* The status after an event of this type was handed over. *)
Reported(old, type) ==
    IF type = "LISTEN" THEN "listening" ELSE IF type = "SHUTDOWN" THEN "stopped" ELSE old

(* The status takes over the role of a LISTEN or SHUTDOWN that is handed over. *)
LEMMA ShiftsListening ==
    ASSUME NEW q, NEW p, Shifts(q, p), NEW st, NEW s \in 1..Len(q), ListeningAt(q, st, s + 1),
           q[1].type \in {"LISTEN", "SHUTDOWN"} => q[1].clientID = SERVER
    PROVE  ListeningAt(p, Reported(st, q[1].type), s)
<1>1. /\ (s + 1) - 1 = s /\ s \in Nat \ {0} /\ 1 \in 1..s
      /\ \A i \in 1..(s - 1) : i + 1 \in 1..s /\ q[i + 1] = p[i]
  BY DEF Shifts
<1>2. \A i \in 1..s : i # 1 => i - 1 \in 1..(s - 1) /\ p[i - 1] = q[i]
  <2>1. ASSUME NEW i \in 1..s, i # 1 PROVE i - 1 \in 1..(s - 1) /\ (i - 1) + 1 = i
    BY <1>1, <2>1
  <2> QED BY <1>1, <2>1
<1>3. CASE \E k \in 1..s : /\ At(q, k, "LISTEN", SERVER)
                           /\ \A m \in k..s : ~At(q, m, "SHUTDOWN", SERVER)
  <2>1. PICK k \in 1..s : /\ At(q, k, "LISTEN", SERVER)
                          /\ \A m \in k..s : ~At(q, m, "SHUTDOWN", SERVER)
    BY <1>3
  <2>2. CASE k = 1
    <3>1. \A m \in 1..(s - 1) : ~At(p, m, "SHUTDOWN", SERVER)
      BY <1>1, <2>1, <2>2 DEF At
    <3>2. Reported(st, q[1].type) = "listening"
      BY <2>1, <2>2 DEF At, Reported
    <3> QED BY <3>1, <3>2 DEF ListeningAt
  <2>3. CASE k # 1
    <3>1. k - 1 \in 1..(s - 1) /\ At(p, k - 1, "LISTEN", SERVER)
      BY <1>2, <2>1, <2>3 DEF At
    <3>2. \A m \in (k - 1)..(s - 1) : m \in 1..(s - 1) /\ m + 1 \in k..s
      BY <1>1, <2>3
    <3>3. \A m \in (k - 1)..(s - 1) : ~At(p, m, "SHUTDOWN", SERVER)
      BY <1>1, <2>1, <3>2 DEF At
    <3> QED BY <3>1, <3>3 DEF ListeningAt
  <2> QED BY <2>2, <2>3
<1>4. CASE st = "listening" /\ \A m \in 1..s : ~At(q, m, "SHUTDOWN", SERVER)
  <2>1. \A m \in 1..(s - 1) : ~At(p, m, "SHUTDOWN", SERVER)
    BY <1>1, <1>4 DEF At
  <2>2. Reported(st, q[1].type) = "listening"
    BY <1>1, <1>4 DEF At, Reported
  <2> QED BY <2>1, <2>2 DEF ListeningAt
<1> QED BY <1>1, <1>3, <1>4 DEF ListeningAt

(* The SHUTDOWNs that remain still follow their LISTENs. *)
LEMMA ShiftsListensFirst ==
    ASSUME NEW q, NEW p, Shifts(q, p), NEW st, ListensFirst(q, st),
           q[1].type \in {"LISTEN", "SHUTDOWN"} => q[1].clientID = SERVER
    PROVE  ListensFirst(p, Reported(st, q[1].type))
<1> SUFFICES ASSUME NEW s \in 1..Len(p), At(p, s, "SHUTDOWN", SERVER)
             PROVE  ListeningAt(p, Reported(st, q[1].type), s)
  BY DEF ListensFirst
<1>1. s \in 1..Len(q) /\ s + 1 \in 1..Len(q) /\ q[s + 1] = p[s]
  BY DEF Shifts
<1>2. ListeningAt(q, st, s + 1)
  BY <1>1 DEF ListensFirst, At
<1> QED BY <1>1, <1>2, ShiftsListening

(* Another event than SHUTDOWN leaves LISTENs and SHUTDOWNs in order. *)
LEMMA AppendServer ==
    ASSUME NEW S, NEW q \in Seq(S), NEW e \in S, NEW st,
           e.type # "SHUTDOWN", e.type = "LISTEN" => e.clientID = SERVER, ListensFirst(q, st)
    PROVE  /\ ListensFirst(Append(q, e), st)
           /\ ListeningAt(q, st, Len(q) + 1) \/ e.type = "LISTEN"
                 => ListeningAt(Append(q, e), st, Len(Append(q, e)) + 1)
<1> DEFINE p == Append(q, e)
           n == Len(q)
<1>1. n \in Nat /\ Grows(q, p) /\ Len(p) = n + 1 /\ p[n + 1] = e /\ Added(q, p) = {n + 1}
  BY Appended
<1> HIDE DEF p, n
<1>2. ~At(p, n + 1, "SHUTDOWN", SERVER)
  BY <1>1 DEF At
<1>4. ListensFirst(p, st)
  BY <1>1, <1>2, GrowsListensFirst
<1>5. ASSUME ListeningAt(q, st, n + 1) PROVE ListeningAt(p, st, (n + 1) + 1)
  <2>1. n + 1 \in 1..(n + 1) /\ n + 1 \in Nat \ {0} /\ (n + 1) + 1 \in Nat \ {0}
        /\ n + 1 <= (n + 1) + 1 /\ \A m \in (n + 1)..((n + 1) + 1 - 1) : m = n + 1
    BY <1>1
  <2>2. ListeningAt(p, st, n + 1)
    BY <1>1, <1>5, <2>1, GrowsListening DEF n
  <2> QED BY <1>2, <2>1, <2>2, ListeningOver
<1>6. ASSUME e.type = "LISTEN" PROVE ListeningAt(p, st, (n + 1) + 1)
  <2>1. At(p, n + 1, "LISTEN", SERVER)
    BY <1>1, <1>6 DEF At
  <2>2. n + 1 \in 1..((n + 1) + 1 - 1) /\ \A m \in (n + 1)..((n + 1) + 1 - 1) : m = n + 1
    BY <1>1
  <2> QED BY <1>2, <2>1, <2>2 DEF ListeningAt
<1> QED BY <1>1, <1>4, <1>5, <1>6 DEF p, n
=============================================================================
