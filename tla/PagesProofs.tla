----------------------------- MODULE PagesProofs -----------------------------
(***************************************************************************)
(* What TLAPS proves of the pages of the front-end, each on its own: what  *)
(* becomes of the queue when a request is sent, served or answered,        *)
(* whichever page it is, then, for the pages whose answers are about what  *)
(* the operator reads beside them, an inductive invariant that says so,    *)
(* for the pages that count what arrives, one that rests on what the       *)
(* server held from one request of the queue to the next, and the way a    *)
(* list comes to be what the server holds, with two uses of it (the        *)
(* accounts, the webhooks).  WebAppProofs goes on with the other pages.    *)
(***************************************************************************)
EXTENDS Pages, SequenceTheorems, FiniteSetTheorems, TLAPS

-----------------------------------------------------------------------------
(* The requests that wait. *)

Shaped(c) == DOMAIN c = {"op", "arg", "phase", "reply"}

Queue(q) == (\E S : q \in Seq(S)) /\ \A k \in DOMAIN q : Shaped(q[k])

\* A queue has its requests numbered from one.
LEMMA QueueNumbers ==
  ASSUME NEW q, Queue(q)
  PROVE  Len(q) \in Nat /\ DOMAIN q = 1..Len(q)
  BY DEF Queue

\* Nothing, or one request, is asked.
LEMMA Asked ==
  /\ Queue(<< >>) /\ Len(<< >>) = 0
  /\ \A c : Shaped(c) => Queue(<<c>>) /\ Len(<<c>>) = 1 /\ <<c>>[1] = c
<1>1. << >> \in Seq({}) /\ DOMAIN << >> = {}
  OBVIOUS
<1>2. \A c : <<c>> \in Seq({c}) /\ DOMAIN <<c>> = {1} /\ <<c>>[1] = c
  OBVIOUS
<1> QED BY <1>1, <1>2 DEF Queue

\* Requests are sent behind those that wait.
LEMMA Sent ==
  ASSUME NEW q, NEW r, Queue(q), Queue(r)
  PROVE  /\ Queue(q \o r)
         /\ Len(q) \in Nat /\ Len(r) \in Nat
         /\ Len(q \o r) = Len(q) + Len(r)
         /\ DOMAIN q = 1..Len(q) /\ DOMAIN r = 1..Len(r) /\ DOMAIN (q \o r) = 1..(Len(q) + Len(r))
         /\ \A j \in 1..Len(q) : (q \o r)[j] = q[j]
         /\ \A j \in 1..Len(r) : (q \o r)[Len(q) + j] = r[j]
         /\ \A j \in 1..(Len(q) + Len(r)) : j > Len(q) => j - Len(q) \in 1..Len(r) /\ (q \o r)[j] = r[j - Len(q)]
<1>1. PICK S : q \in Seq(S)
  BY DEF Queue
<1>2. PICK T : r \in Seq(T)
  BY DEF Queue
<1>3. q \in Seq(S \union T) /\ r \in Seq(S \union T)
  BY <1>1, <1>2
<1>4. /\ q \o r \in Seq(S \union T)
      /\ Len(q \o r) = Len(q) + Len(r)
      /\ \A j \in 1..(Len(q) + Len(r)) : (q \o r)[j] = IF j <= Len(q) THEN q[j] ELSE r[j - Len(q)]
  BY <1>3, ConcatProperties
<1>5. /\ Len(q) \in Nat /\ Len(r) \in Nat /\ DOMAIN q = 1..Len(q) /\ DOMAIN r = 1..Len(r)
      /\ DOMAIN (q \o r) = 1..(Len(q) + Len(r))
  BY <1>3, <1>4
<1>6. \A j \in 1..Len(q) : (q \o r)[j] = q[j]
  BY <1>4, <1>5
<1>7. \A j \in 1..Len(r) : (q \o r)[Len(q) + j] = r[j]
  BY <1>4, <1>5
<1>8. \A j \in 1..(Len(q) + Len(r)) : j > Len(q) => j - Len(q) \in 1..Len(r) /\ (q \o r)[j] = r[j - Len(q)]
  BY <1>4, <1>5
<1>9. \A j \in DOMAIN (q \o r) : Shaped((q \o r)[j])
  <2> TAKE j \in DOMAIN (q \o r)
  <2>1. CASE j <= Len(q)
    BY <1>5, <1>6, <2>1 DEF Queue
  <2>2. CASE ~(j <= Len(q))
    BY <1>5, <1>8, <2>2 DEF Queue
  <2> QED BY <2>1, <2>2
<1> QED BY <1>4, <1>5, <1>6, <1>7, <1>8, <1>9 DEF Queue

\* A request leaves the queue.
LEMMA Taken ==
  ASSUME NEW q, Queue(q), NEW k \in DOMAIN q,
         NEW s, s = [j \in 1..(Len(q) - 1) |-> IF j < k THEN q[j] ELSE q[j + 1]]
  PROVE  Queue(s) /\ Len(s) = Len(q) - 1
<1>1. PICK S : q \in Seq(S)
  BY DEF Queue
<1>2. Len(q) \in Nat /\ DOMAIN q = 1..Len(q) /\ Len(q) - 1 \in Nat /\ k \in 1..Len(q)
  BY <1>1
<1>3. \A j \in 1..(Len(q) - 1) : j \in DOMAIN q /\ j + 1 \in DOMAIN q
  BY <1>2
<1>4. \A j \in 1..(Len(q) - 1) : s[j] \in S /\ Shaped(s[j])
  <2> TAKE j \in 1..(Len(q) - 1)
  <2>1. q[j] \in S /\ q[j + 1] \in S /\ Shaped(q[j]) /\ Shaped(q[j + 1])
    BY <1>1, <1>3 DEF Queue
  <2> QED BY <2>1
<1>5. s \in [1..(Len(q) - 1) -> S]
  BY <1>4
<1>6. s \in Seq(S) /\ Len(s) = Len(q) - 1 /\ DOMAIN s = 1..(Len(q) - 1)
  BY <1>2, <1>5
<1> QED BY <1>4, <1>6 DEF Queue

-----------------------------------------------------------------------------
(* The queue of a page, whichever page it is. *)

\* A callback that asks nothing leaves the queue.
LEMMA NothingSent ==
  ASSUME Queue(calls), calls' = calls \o << >>
  PROVE  calls' = calls
<1>1. PICK S : calls \in Seq(S)
  BY DEF Queue
<1> QED BY <1>1

\* A request that is sent comes last.
LEMMA OneSent ==
  ASSUME Queue(calls), NEW c, Shaped(c), calls' = calls \o <<c>> \/ calls' = Append(calls, c)
  PROVE  /\ Queue(calls')
         /\ Len(calls) \in Nat /\ DOMAIN calls = 1..Len(calls)
         /\ Len(calls') = Len(calls) + 1 /\ DOMAIN calls' = 1..(Len(calls) + 1)
         /\ \A j \in DOMAIN calls : j \in DOMAIN calls' /\ calls'[j] = calls[j]
         /\ Len(calls) + 1 \in DOMAIN calls' /\ calls'[Len(calls) + 1] = c
         /\ \A i \in DOMAIN calls' : \/ i \in DOMAIN calls /\ calls'[i] = calls[i]
                                     \/ i = Len(calls) + 1 /\ i \notin DOMAIN calls /\ calls'[i] = c
<1>1. PICK S : calls \in Seq(S)
  BY DEF Queue
<1>2. calls \in Seq(S \union {c}) /\ calls' = Append(calls, c)
  BY <1>1
<1>3. /\ calls' \in Seq(S \union {c})
      /\ Len(calls) \in Nat /\ DOMAIN calls = 1..Len(calls)
      /\ Len(calls') = Len(calls) + 1 /\ DOMAIN calls' = 1..(Len(calls) + 1)
      /\ \A j \in 1..Len(calls) : calls'[j] = calls[j]
      /\ calls'[Len(calls) + 1] = c
  BY <1>2
<1>4. \A i \in DOMAIN calls' : \/ i \in DOMAIN calls /\ calls'[i] = calls[i]
                               \/ i = Len(calls) + 1 /\ i \notin DOMAIN calls /\ calls'[i] = c
  BY <1>3
<1>5. \A i \in DOMAIN calls' : Shaped(calls'[i])
  BY <1>4 DEF Queue
<1>6. Queue(calls')
  BY <1>3, <1>5 DEF Queue
<1>7. \A j \in DOMAIN calls : j \in DOMAIN calls' /\ calls'[j] = calls[j]
  BY <1>3
<1>8. Len(calls) + 1 \in DOMAIN calls'
  <2>1. Len(calls) \in Nat /\ DOMAIN calls' = 1..(Len(calls) + 1)
    BY <1>3
  <2> QED BY <2>1
<1> QED BY <1>3, <1>4, <1>6, <1>7, <1>8

\* The server or the network does something of request k.
Becomes(k, phase, reply) ==
  \/ calls' = [calls EXCEPT ![k].phase = phase, ![k].reply = reply]
  \/ calls' = [calls EXCEPT ![k].reply = reply, ![k].phase = phase]
  \/ calls' = [calls EXCEPT ![k].phase = phase] /\ reply = calls[k].reply

\* A request changes phase: the queue keeps its requests, in their order.
LEMMA OneServed ==
  ASSUME Queue(calls), NEW k \in DOMAIN calls, NEW phase, NEW reply, Becomes(k, phase, reply)
  PROVE  /\ Queue(calls')
         /\ Len(calls) \in Nat /\ DOMAIN calls = 1..Len(calls)
         /\ Len(calls') = Len(calls) /\ DOMAIN calls' = DOMAIN calls
         /\ \A j \in DOMAIN calls : calls'[j].op = calls[j].op /\ calls'[j].arg = calls[j].arg
         /\ \A j \in DOMAIN calls : j # k => calls'[j] = calls[j]
         /\ calls'[k].phase = phase /\ calls'[k].reply = reply
<1>1. PICK S : calls \in Seq(S)
  BY DEF Queue
<1>2. Shaped(calls[k])
  BY DEF Queue
<1>3. PICK c : /\ calls' = [calls EXCEPT ![k] = c]
               /\ Shaped(c)
               /\ c.op = calls[k].op /\ c.arg = calls[k].arg /\ c.phase = phase /\ c.reply = reply
  <2>1. CASE calls' = [calls EXCEPT ![k].phase = phase, ![k].reply = reply]
    <3> DEFINE e == [calls[k] EXCEPT !.phase = phase, !.reply = reply]
    <3>1. Shaped(e) /\ e.op = calls[k].op /\ e.arg = calls[k].arg /\ e.phase = phase /\ e.reply = reply
      BY <1>2 DEF Shaped
    <3>2. calls' = [calls EXCEPT ![k] = e]
      BY <1>1, <2>1
    <3> QED BY <3>1, <3>2
  <2>2. CASE calls' = [calls EXCEPT ![k].reply = reply, ![k].phase = phase]
    <3> DEFINE e == [calls[k] EXCEPT !.reply = reply, !.phase = phase]
    <3>1. Shaped(e) /\ e.op = calls[k].op /\ e.arg = calls[k].arg /\ e.phase = phase /\ e.reply = reply
      BY <1>2 DEF Shaped
    <3>2. calls' = [calls EXCEPT ![k] = e]
      BY <1>1, <2>2
    <3> QED BY <3>1, <3>2
  <2>3. CASE calls' = [calls EXCEPT ![k].phase = phase] /\ reply = calls[k].reply
    <3> DEFINE e == [calls[k] EXCEPT !.phase = phase]
    <3>1. Shaped(e) /\ e.op = calls[k].op /\ e.arg = calls[k].arg /\ e.phase = phase /\ e.reply = reply
      BY <1>2, <2>3 DEF Shaped
    <3>2. calls' = [calls EXCEPT ![k] = e]
      BY <2>3
    <3> QED BY <3>1, <3>2
  <2> QED BY <2>1, <2>2, <2>3 DEF Becomes
<1>4. /\ calls' \in Seq(S \union {c}) /\ Len(calls') = Len(calls) /\ DOMAIN calls' = DOMAIN calls
      /\ DOMAIN calls = 1..Len(calls) /\ Len(calls) \in Nat
  <2>1. calls \in [1..Len(calls) -> S] /\ Len(calls) \in Nat
    BY <1>1
  <2>2. calls' \in [1..Len(calls) -> S \union {c}]
    BY <1>3, <2>1
  <2> QED BY <1>3, <2>1, <2>2
<1>5. \A j \in DOMAIN calls : calls'[j] = IF j = k THEN c ELSE calls[j]
  BY <1>3
<1>6. \A j \in DOMAIN calls' : Shaped(calls'[j])
  BY <1>3, <1>4, <1>5 DEF Queue
<1>7. Queue(calls')
  BY <1>4, <1>6 DEF Queue
<1>8. /\ \A j \in DOMAIN calls : calls'[j].op = calls[j].op /\ calls'[j].arg = calls[j].arg
      /\ \A j \in DOMAIN calls : j # k => calls'[j] = calls[j]
      /\ calls'[k].phase = phase /\ calls'[k].reply = reply
  BY <1>3, <1>5
<1> QED BY <1>4, <1>7, <1>8

\* The place of a request, once request k left the queue.
Moved(k, j) == IF j < k THEN j ELSE j - 1
\* The place it had.
Came(k, i) == IF i < k THEN i ELSE i + 1

\* An answer that asks nothing takes its request away, and leaves the others in their order.
LEMMA OneAnswered ==
  ASSUME Queue(calls), NEW k \in DOMAIN calls, calls' = Others(k) \o << >>
  PROVE  /\ Queue(calls')
         /\ Len(calls) \in Nat \ {0} /\ DOMAIN calls = 1..Len(calls) /\ k \in 1..Len(calls)
         /\ Len(calls') = Len(calls) - 1 /\ DOMAIN calls' = 1..(Len(calls) - 1)
         /\ \A j \in DOMAIN calls : j # k => Moved(k, j) \in DOMAIN calls' /\ calls'[Moved(k, j)] = calls[j]
         /\ \A i \in DOMAIN calls' : Came(k, i) \in DOMAIN calls /\ Came(k, i) # k /\ calls'[i] = calls[Came(k, i)]
<1>1. PICK t : t = [j \in 1..(Len(calls) - 1) |-> IF j < k THEN calls[j] ELSE calls[j + 1]]
  OBVIOUS
<1>2. Queue(t) /\ Len(t) = Len(calls) - 1
  BY <1>1, Taken
<1>3. Len(calls) \in Nat /\ DOMAIN calls = 1..Len(calls)
  BY QueueNumbers
<1>4. Len(calls) \in Nat \ {0} /\ k \in 1..Len(calls)
  BY <1>3
<1>5. calls' = t
  <2>1. calls' = t \o << >>
    BY <1>1 DEF Others
  <2>2. PICK S : t \in Seq(S)
    BY <1>2 DEF Queue
  <2> QED BY <2>1, <2>2
<1>6. DOMAIN calls' = 1..(Len(calls) - 1) /\ \A i \in 1..(Len(calls) - 1) : calls'[i] = calls[Came(k, i)]
  BY <1>1, <1>5 DEF Came
<1>7. ASSUME NEW j \in DOMAIN calls, j # k
      PROVE  Moved(k, j) \in DOMAIN calls' /\ Came(k, Moved(k, j)) = j
  BY <1>3, <1>4, <1>6, <1>7 DEF Moved, Came
<1>8. \A i \in DOMAIN calls' : Came(k, i) \in DOMAIN calls /\ Came(k, i) # k
  BY <1>3, <1>4, <1>6 DEF Came
<1>9. \A j \in DOMAIN calls : j # k => calls'[Moved(k, j)] = calls[j]
  BY <1>6, <1>7
<1> QED BY <1>2, <1>3, <1>4, <1>5, <1>6, <1>7, <1>8, <1>9

\* An answer that asks something else sends it behind the others.
LEMMA OneAsked ==
  ASSUME Queue(calls), NEW k \in DOMAIN calls, NEW c, Shaped(c), calls' = Others(k) \o <<c>>
  PROVE  /\ Queue(calls')
         /\ Len(calls) \in Nat \ {0} /\ DOMAIN calls = 1..Len(calls) /\ k \in 1..Len(calls)
         /\ Len(calls') = Len(calls) /\ DOMAIN calls' = DOMAIN calls
         /\ \A j \in DOMAIN calls : j # k => /\ Moved(k, j) \in DOMAIN calls' /\ Moved(k, j) # Len(calls)
                                             /\ calls'[Moved(k, j)] = calls[j]
         /\ calls'[Len(calls)] = c
         /\ \A i \in DOMAIN calls' : i # Len(calls) =>
              Came(k, i) \in DOMAIN calls /\ Came(k, i) # k /\ calls'[i] = calls[Came(k, i)]
<1>1. PICK t : t = [j \in 1..(Len(calls) - 1) |-> IF j < k THEN calls[j] ELSE calls[j + 1]]
  OBVIOUS
<1>2. Queue(t) /\ Len(t) = Len(calls) - 1
  BY <1>1, Taken
<1>3. Len(calls) \in Nat /\ DOMAIN calls = 1..Len(calls)
  BY QueueNumbers
<1>4. Len(calls) \in Nat \ {0} /\ k \in 1..Len(calls)
  BY <1>3
<1>5. Queue(<<c>>) /\ Len(<<c>>) = 1 /\ <<c>>[1] = c
  BY Asked
<1>6. calls' = t \o <<c>>
  BY <1>1 DEF Others
<1>7. Queue(calls') /\ Len(calls') = Len(calls) /\ DOMAIN calls' = 1..Len(calls)
  <2>1. Queue(t \o <<c>>) /\ Len(t \o <<c>>) = Len(t) + Len(<<c>>) /\ DOMAIN (t \o <<c>>) = 1..(Len(t) + Len(<<c>>))
    BY <1>2, <1>5, Sent
  <2>2. Len(t) + Len(<<c>>) = Len(calls)
    BY <1>2, <1>4, <1>5
  <2> QED BY <1>6, <2>1, <2>2
<1>8. \A i \in 1..(Len(calls) - 1) : calls'[i] = calls[Came(k, i)]
  <2>1. \A i \in 1..Len(t) : (t \o <<c>>)[i] = t[i]
    BY <1>2, <1>5, Sent
  <2> QED BY <1>1, <1>2, <1>6, <2>1 DEF Came
<1>9. calls'[Len(calls)] = c
  <2>1. \A i \in 1..Len(<<c>>) : (t \o <<c>>)[Len(t) + i] = <<c>>[i]
    BY <1>2, <1>5, Sent
  <2>2. Len(t) + 1 = Len(calls)
    BY <1>2, <1>4
  <2>3. (t \o <<c>>)[Len(t) + 1] = <<c>>[1]
    BY <1>5, <2>1
  <2> QED BY <1>5, <1>6, <2>2, <2>3
<1>10. ASSUME NEW j \in DOMAIN calls, j # k
       PROVE  /\ Moved(k, j) \in DOMAIN calls' /\ Moved(k, j) \in 1..(Len(calls) - 1) /\ Moved(k, j) # Len(calls)
              /\ Came(k, Moved(k, j)) = j
  <2>1. Len(calls) \in Nat \ {0} /\ k \in 1..Len(calls) /\ j \in 1..Len(calls) /\ DOMAIN calls' = 1..Len(calls)
    BY <1>3, <1>4, <1>7
  <2> QED BY <1>10, <2>1 DEF Moved, Came
<1>11. \A i \in DOMAIN calls' : i # Len(calls) => i \in 1..(Len(calls) - 1) /\ Came(k, i) \in DOMAIN calls /\ Came(k, i) # k
  <2> SUFFICES ASSUME NEW i \in DOMAIN calls', i # Len(calls)
               PROVE  i \in 1..(Len(calls) - 1) /\ Came(k, i) \in DOMAIN calls /\ Came(k, i) # k
    OBVIOUS
  <2>1. /\ Len(calls) \in Nat \ {0} /\ k \in 1..Len(calls) /\ i \in 1..Len(calls)
        /\ DOMAIN calls = 1..Len(calls)
    BY <1>3, <1>4, <1>7
  <2>2. i \in 1..(Len(calls) - 1)
    BY <2>1
  <2>3. Came(k, i) \in 1..Len(calls) /\ Came(k, i) # k
    BY <2>1, <2>2 DEF Came
  <2> QED BY <2>1, <2>2, <2>3
<1>12. \A j \in DOMAIN calls : j # k => calls'[Moved(k, j)] = calls[j]
  BY <1>8, <1>10
<1>13. \A i \in DOMAIN calls' : i # Len(calls) => calls'[i] = calls[Came(k, i)]
  BY <1>8, <1>11
<1> QED BY <1>3, <1>4, <1>7, <1>9, <1>10, <1>11, <1>12, <1>13

-----------------------------------------------------------------------------
(* What is counted. *)

Counted == {"moves", "faults", "inOrder"} \subseteq DOMAIN spent /\ spent.moves \in Nat /\ spent.faults \in Nat

\* A page opens with nothing counted.
LEMMA Opens ==
  ASSUME NEW ordered, NEW h,
         spent = LET bounds == [moves |-> 0, faults |-> 0, inOrder |-> ordered]
                 IN  [x \in DOMAIN bounds \union DOMAIN h |-> IF x \in DOMAIN bounds THEN bounds[x] ELSE h[x]]
  PROVE  Counted /\ spent.moves = 0 /\ spent.faults = 0
<1> DEFINE f == [moves |-> 0, faults |-> 0, inOrder |-> ordered]
<1>1. spent = [x \in DOMAIN f \union DOMAIN h |-> IF x \in DOMAIN f THEN f[x] ELSE h[x]]
  OBVIOUS
<1>2. DOMAIN f = {"moves", "faults", "inOrder"} /\ f["moves"] = 0 /\ f["faults"] = 0
  OBVIOUS
<1> HIDE DEF f
<1>3. {"moves", "faults", "inOrder"} \subseteq DOMAIN spent /\ spent["moves"] = 0 /\ spent["faults"] = 0
  BY <1>1, <1>2
<1> QED BY <1>3 DEF Counted

\* What a step that is no failure counts.
Spends == Counted' /\ spent'.inOrder = spent.inOrder /\ spent'.faults = spent.faults

\* Moves are counted, and the order in which requests are served is that of the beginning.
LEMMA Spent ==
  ASSUME Counted
  PROVE  /\ UNCHANGED spent => Spends
         /\ spent' = [spent EXCEPT !.moves = @ + 1] => Spends
         /\ \A t : spent' = [spent EXCEPT !.moves = @ + 1, !.typed = t] => Spends
         /\ spent' = [spent EXCEPT !.moves = @ + 1, !.written = TRUE] => Spends
         /\ spent' = [spent EXCEPT !.moves = @ + 1, !.reloads = @ + 1] => Spends
<1>1. UNCHANGED spent => Spends
  BY DEF Counted, Spends
<1>2. spent' = [spent EXCEPT !.moves = @ + 1] => Spends
  BY DEF Counted, Spends
<1>3. ASSUME NEW t, spent' = [spent EXCEPT !.moves = @ + 1, !.typed = t] PROVE Spends
  <2>1. DOMAIN spent' = DOMAIN spent
    BY <1>3
  <2>2. spent'.moves = spent.moves + 1 /\ spent'.faults = spent.faults /\ spent'.inOrder = spent.inOrder
    BY <1>3 DEF Counted
  <2> QED BY <2>1, <2>2 DEF Counted, Spends
<1>4. spent' = [spent EXCEPT !.moves = @ + 1, !.written = TRUE] => Spends
  BY DEF Counted, Spends
<1>5. spent' = [spent EXCEPT !.moves = @ + 1, !.reloads = @ + 1] => Spends
  BY DEF Counted, Spends
<1> QED BY <1>1, <1>2, <1>3, <1>4, <1>5

\* Whatever an answer asks, the other requests stay, in their order.
LEMMA Answers ==
  ASSUME Queue(calls), NEW k \in DOMAIN calls, NEW n,
         calls' = Others(k) \o << >> \/ (Shaped(n) /\ calls' = Others(k) \o <<n>>)
  PROVE  /\ Queue(calls')
         /\ Len(calls) \in Nat \ {0} /\ DOMAIN calls = 1..Len(calls) /\ k \in 1..Len(calls)
         /\ \A j \in DOMAIN calls : j # k => Moved(k, j) \in DOMAIN calls' /\ calls'[Moved(k, j)] = calls[j]
         /\ \A i \in DOMAIN calls' : i \in 1..Len(calls)
         /\ \A i \in DOMAIN calls' :
              \/ Came(k, i) \in DOMAIN calls /\ Came(k, i) # k /\ calls'[i] = calls[Came(k, i)]
              \/ i = Len(calls) /\ calls'[i] = n
<1>1. CASE calls' = Others(k) \o << >>
  <2>1. /\ Queue(calls') /\ Len(calls) \in Nat \ {0} /\ DOMAIN calls = 1..Len(calls) /\ k \in 1..Len(calls)
        /\ DOMAIN calls' = 1..(Len(calls) - 1)
    BY <1>1, OneAnswered
  <2>2. \A j \in DOMAIN calls : j # k => Moved(k, j) \in DOMAIN calls' /\ calls'[Moved(k, j)] = calls[j]
    BY <1>1, OneAnswered
  <2>3. \A i \in DOMAIN calls' : Came(k, i) \in DOMAIN calls /\ Came(k, i) # k /\ calls'[i] = calls[Came(k, i)]
    BY <1>1, OneAnswered
  <2>4. \A i \in DOMAIN calls' : i \in 1..Len(calls)
    <3>1. \A l \in Nat \ {0} : \A i \in 1..(l - 1) : i \in 1..l
      OBVIOUS
    <3> QED BY <2>1, <3>1
  <2> QED BY <2>1, <2>2, <2>3, <2>4
<1>2. CASE Shaped(n) /\ calls' = Others(k) \o <<n>>
  <2>1. /\ Queue(calls') /\ Len(calls) \in Nat \ {0} /\ DOMAIN calls = 1..Len(calls) /\ k \in 1..Len(calls)
        /\ DOMAIN calls' = DOMAIN calls
    BY <1>2, OneAsked
  <2>2. \A j \in DOMAIN calls : j # k => Moved(k, j) \in DOMAIN calls' /\ calls'[Moved(k, j)] = calls[j]
    BY <1>2, OneAsked
  <2>3. \A i \in DOMAIN calls' : i # Len(calls) =>
           Came(k, i) \in DOMAIN calls /\ Came(k, i) # k /\ calls'[i] = calls[Came(k, i)]
    BY <1>2, OneAsked
  <2>4. calls'[Len(calls)] = n
    BY <1>2, OneAsked
  <2> QED BY <2>1, <2>2, <2>3, <2>4
<1> QED BY <1>1, <1>2

-----------------------------------------------------------------------------
(* The accounts: what is busy waits. *)

UsersFields == {"users", "loading", "error", "dialog", "opened", "deleting"}
UsersDialogFields == {"nth", "kind", "name", "busy", "error"}
UsersKinds == {"create", "reset", "delete"}
UsersOps == UsersKinds \union {"load", "role"}

\* A form that is busy waits for its own answer, not for that of a form closed before it.
UsersDialogWaits ==
  view.dialog # Users!NoDialog =>
    /\ UsersDialogFields \subseteq DOMAIN view.dialog /\ view.dialog.kind \in UsersKinds
    /\ view.dialog.busy =>
         \E k \in DOMAIN calls : calls[k].op = view.dialog.kind /\ calls[k].arg.nth = view.dialog.nth
UsersDeletionWaits == view.deleting => \E k \in DOMAIN calls : calls[k].op = "delete"

UsersAsked == \A k \in DOMAIN calls : calls[k].op \in UsersOps

UsersInv == Queue(calls) /\ UsersAsked /\ UsersFields \subseteq DOMAIN view /\ UsersDialogWaits /\ UsersDeletionWaits

\* A request of the page has the four fields of a request.
LEMMA UsersAsk ==
  \A op, arg : LET c == Users!Request(op, arg) IN Shaped(c) /\ c.op = op /\ c.arg = arg
BY DEF Users!Request, Shaped

\* The page opens waiting for its list, with nothing busy.
LEMMA UsersInit == Users!Init => UsersInv
<1> SUFFICES ASSUME Users!Init PROVE UsersInv
  OBVIOUS
<1>1. calls = <<Users!Request("load", Users!None)>> /\ Queue(calls)
  BY UsersAsk, Asked DEF Users!Init
<1>2. view = [users |-> << >>, loading |-> TRUE, error |-> FALSE, dialog |-> Users!NoDialog, opened |-> 0, deleting |-> FALSE]
  BY DEF Users!Init
<1>3. UsersAsked
  BY <1>1, UsersAsk, Asked DEF UsersAsked, UsersOps
<1> QED BY <1>1, <1>2, <1>3 DEF UsersInv, UsersFields, UsersDialogWaits, UsersDeletionWaits

\* A request that is sent is added to those that wait.
LEMMA UsersOneSent ==
  ASSUME Queue(calls), UsersAsked, NEW c, Shaped(c), c.op \in UsersOps, calls' = calls \o <<c>>
  PROVE  /\ Queue(calls') /\ UsersAsked'
         /\ \A j \in DOMAIN calls : j \in DOMAIN calls' /\ calls'[j] = calls[j]
         /\ Len(calls) + 1 \in DOMAIN calls' /\ calls'[Len(calls) + 1] = c
<1>1. /\ Queue(calls')
      /\ \A j \in DOMAIN calls : j \in DOMAIN calls' /\ calls'[j] = calls[j]
      /\ Len(calls) + 1 \in DOMAIN calls' /\ calls'[Len(calls) + 1] = c
  BY OneSent
<1>2. \A i \in DOMAIN calls' : (i \in DOMAIN calls /\ calls'[i] = calls[i]) \/ calls'[i] = c
  BY OneSent
<1> QED BY <1>1, <1>2 DEF UsersAsked

\* A gesture sends at most what it makes busy.
LEMMA UsersGestures ==
  ASSUME UsersInv,
         \/ \E name \in Users!Names, role \in Users!Roles : Users!ChangeRole(name, role)
         \/ \E name \in Users!Names, kind \in {"create", "reset", "delete"} : Users!Open(kind, name)
         \/ Users!Close \/ Users!Submit
  PROVE  UsersInv'
<1>1. Queue(calls) /\ UsersAsked /\ UsersFields \subseteq DOMAIN view /\ UsersDialogWaits /\ UsersDeletionWaits
  BY DEF UsersInv
<1>2. ASSUME NEW name, NEW role, Users!ChangeRole(name, role) PROVE UsersInv'
  <2>1. PICK c : Shaped(c) /\ c.op \in UsersOps /\ calls' = calls \o <<c>> /\ view' = view
    BY <1>2, UsersAsk DEF Users!ChangeRole, Users!Gesture, UsersOps
  <2>2. /\ Queue(calls') /\ \A j \in DOMAIN calls : j \in DOMAIN calls' /\ calls'[j] = calls[j]
        /\ UsersAsked'
    BY <1>1, <2>1, UsersOneSent
  <2>3. UsersDialogWaits'
    BY <1>1, <2>1, <2>2 DEF UsersDialogWaits
  <2>4. UsersDeletionWaits'
    BY <1>1, <2>1, <2>2 DEF UsersDeletionWaits
  <2> QED BY <1>1, <2>1, <2>2, <2>3, <2>4 DEF UsersInv
<1>3. ASSUME NEW name, NEW kind \in UsersKinds, Users!Open(kind, name) PROVE UsersInv'
  <2>1. calls' = calls
    BY <1>1, <1>3, NothingSent DEF Users!Open, Users!Gesture
  <2>2. view' = [view EXCEPT !.opened = @ + 1,
                   !.dialog = [nth |-> view.opened + 1, kind |-> kind, name |-> name, busy |-> FALSE, error |-> FALSE]]
    BY <1>3 DEF Users!Open, Users!Gesture
  <2>3. /\ DOMAIN view' = DOMAIN view /\ view'.deleting = view.deleting
        /\ view'.dialog = [nth |-> view.opened + 1, kind |-> kind, name |-> name, busy |-> FALSE, error |-> FALSE]
    BY <1>1, <2>2 DEF UsersFields
  <2>4. UsersDialogWaits'
    BY <2>3 DEF UsersDialogWaits, UsersDialogFields
  <2>5. UsersDeletionWaits'
    BY <1>1, <2>1, <2>3 DEF UsersDeletionWaits
  <2> QED BY <1>1, <2>1, <2>3, <2>4, <2>5 DEF UsersInv, UsersAsked
<1>4. CASE Users!Close
  <2>1. calls' = calls
    BY <1>1, <1>4, NothingSent DEF Users!Close, Users!Gesture
  <2>2. view' = [view EXCEPT !.dialog = Users!NoDialog]
    BY <1>4 DEF Users!Close, Users!Gesture
  <2>3. DOMAIN view' = DOMAIN view /\ view'.deleting = view.deleting /\ view'.dialog = Users!NoDialog
    BY <1>1, <2>2 DEF UsersFields
  <2>4. UsersDialogWaits' /\ UsersDeletionWaits'
    BY <1>1, <2>1, <2>3 DEF UsersDialogWaits, UsersDeletionWaits
  <2> QED BY <1>1, <2>1, <2>3, <2>4 DEF UsersInv, UsersAsked
<1>5. CASE Users!Submit
  <2> DEFINE d == view.dialog
  <2>1. d # Users!NoDialog /\ UsersDialogFields \subseteq DOMAIN d /\ d.kind \in UsersOps
    BY <1>1, <1>5 DEF Users!Submit, UsersDialogWaits, UsersOps
  <2>2. PICK c : Shaped(c) /\ c.op = d.kind /\ c.arg.nth = d.nth /\ calls' = calls \o <<c>>
    <3>1. calls' = calls \o <<Users!Request(d.kind, [name |-> d.name, nth |-> d.nth])>>
      BY <1>5 DEF Users!Submit, Users!Gesture
    <3>2. LET n == Users!Request(d.kind, [name |-> d.name, nth |-> d.nth])
          IN  Shaped(n) /\ n.op = d.kind /\ n.arg.nth = d.nth
      BY UsersAsk
    <3> QED BY <3>1, <3>2
  <2>3. /\ Queue(calls') /\ \A j \in DOMAIN calls : j \in DOMAIN calls' /\ calls'[j] = calls[j]
        /\ Len(calls) + 1 \in DOMAIN calls' /\ calls'[Len(calls) + 1] = c
        /\ UsersAsked'
    BY <1>1, <2>1, <2>2, UsersOneSent
  <2>4. PICK i \in DOMAIN calls' : calls'[i].op = d.kind /\ calls'[i].arg.nth = d.nth
    BY <2>2, <2>3
  <2>5. /\ DOMAIN view' = DOMAIN view
        /\ \/ view'.dialog = d /\ d.kind = "delete"
           \/ view'.dialog = [d EXCEPT !.busy = TRUE, !.error = FALSE] /\ view'.deleting = view.deleting
    BY <1>1, <1>5 DEF Users!Submit, Users!Gesture, UsersFields
  <2>6. UsersDeletionWaits'
    <3>1. CASE d.kind = "delete"
      BY <2>4, <3>1 DEF UsersDeletionWaits
    <3>2. CASE view'.deleting = view.deleting
      BY <1>1, <2>3, <3>2 DEF UsersDeletionWaits
    <3> QED BY <2>5, <3>1, <3>2
  <2>7. UsersDialogWaits'
    <3>1. d.kind \in UsersKinds
      BY <1>1, <2>1 DEF UsersDialogWaits
    <3>2. view'.dialog.kind = d.kind /\ view'.dialog.nth = d.nth /\ DOMAIN view'.dialog = DOMAIN d
      BY <2>1, <2>5 DEF UsersDialogFields
    <3> QED BY <2>1, <2>4, <3>1, <3>2 DEF UsersDialogWaits
  <2> QED BY <1>1, <2>3, <2>5, <2>6, <2>7 DEF UsersInv
<1> QED BY <1>2, <1>3, <1>4, <1>5 DEF UsersKinds

\* The server and the network leave the requests in the queue.
LEMMA UsersServed ==
  ASSUME UsersInv, NEW k \in DOMAIN calls, Users!ServeOne(k) \/ Users!Fail(k)
  PROVE  UsersInv'
<1>1. Queue(calls) /\ UsersAsked /\ UsersFields \subseteq DOMAIN view /\ UsersDialogWaits /\ UsersDeletionWaits
  BY DEF UsersInv
<1>2. view' = view
  BY DEF Users!ServeOne, Users!Refuse, Users!Serve, Users!Fail
<1>3. PICK phase, reply : Becomes(k, phase, reply)
  BY DEF Users!ServeOne, Users!Refuse, Users!Serve, Users!Fail, Becomes
<1>4. /\ Queue(calls') /\ DOMAIN calls' = DOMAIN calls
      /\ \A j \in DOMAIN calls : calls'[j].op = calls[j].op /\ calls'[j].arg = calls[j].arg
  BY <1>1, <1>3, OneServed
<1>5. UsersDialogWaits'
  BY <1>1, <1>2, <1>4 DEF UsersDialogWaits
<1>6. UsersDeletionWaits'
  BY <1>1, <1>2, <1>4 DEF UsersDeletionWaits
<1>7. UsersAsked'
  BY <1>1, <1>4 DEF UsersAsked
<1> QED BY <1>1, <1>2, <1>4, <1>5, <1>6, <1>7 DEF UsersInv

\* An answer ends what waited for it, and nothing else.
LEMMA UsersAnswered ==
  ASSUME UsersInv, NEW k \in DOMAIN calls, Users!HandleAnswer(k) \/ Users!HandleRefusal(k)
  PROVE  UsersInv'
<1> DEFINE c == calls[k]
<1>1. Queue(calls) /\ UsersAsked /\ UsersFields \subseteq DOMAIN view /\ UsersDialogWaits /\ UsersDeletionWaits
  BY DEF UsersInv
<1>2. /\ Queue(calls')
      /\ \A j \in DOMAIN calls : j # k => \E i \in DOMAIN calls' : calls'[i] = calls[j]
      /\ UsersAsked'
  <2>1. CASE calls' = Others(k) \o << >>
    <3>1. /\ Queue(calls')
          /\ \A j \in DOMAIN calls : j # k => \E i \in DOMAIN calls' : calls'[i] = calls[j]
      BY <1>1, <2>1, OneAnswered
    <3>2. \A i \in DOMAIN calls' : \E j \in DOMAIN calls : calls'[i] = calls[j]
      BY <1>1, <2>1, OneAnswered
    <3> QED BY <1>1, <3>1, <3>2 DEF UsersAsked
  <2>2. CASE \E n : Shaped(n) /\ n.op \in UsersOps /\ calls' = Others(k) \o <<n>>
    <3>1. PICK n : Shaped(n) /\ n.op \in UsersOps /\ calls' = Others(k) \o <<n>>
      BY <2>2
    <3>2. /\ Queue(calls')
          /\ \A j \in DOMAIN calls : j # k => \E i \in DOMAIN calls' : calls'[i] = calls[j]
      BY <1>1, <3>1, OneAsked
    <3>3. \A i \in DOMAIN calls' : (\E j \in DOMAIN calls : calls'[i] = calls[j]) \/ calls'[i] = n
      BY <1>1, <3>1, OneAsked
    <3> QED BY <1>1, <3>1, <3>2, <3>3 DEF UsersAsked
  <2>3. calls' = Others(k) \o << >> \/ \E n : Shaped(n) /\ n.op \in UsersOps /\ calls' = Others(k) \o <<n>>
    BY UsersAsk DEF Users!HandleAnswer, Users!HandleRefusal, Users!Settle, Users!Then, Users!Others, Others, UsersOps
  <2> QED BY <2>1, <2>2, <2>3
<1>3. view' = Users!Answered(view, c) \/ view' = Users!Refusal(view, c)
  BY DEF Users!HandleAnswer, Users!HandleRefusal, Users!Settle
<1>4. CASE c.op = "delete"
  <2>1. DOMAIN view' = DOMAIN view /\ ~view'.deleting /\ view'.dialog \in {view.dialog, Users!NoDialog}
    BY <1>1, <1>3, <1>4 DEF Users!Answered, Users!Refusal, Users!Without, UsersFields
  <2>2. view'.dialog # Users!NoDialog => view'.dialog.kind # "delete"
    BY <1>1, <1>3, <1>4 DEF Users!Answered, Users!Refusal, Users!Without, UsersFields
  <2>3. UsersDialogWaits'
    BY <1>1, <1>2, <1>4, <2>1, <2>2 DEF UsersDialogWaits
  <2> QED BY <1>1, <1>2, <2>1, <2>3 DEF UsersInv, UsersDeletionWaits
<1>5. CASE c.op # "delete"
  <2>1. DOMAIN view' = DOMAIN view /\ view'.deleting = view.deleting
    BY <1>1, <1>3, <1>5 DEF Users!Answered, Users!Refusal, Users!Without, UsersFields, UsersAsked, UsersOps, UsersKinds
  <2>2. UsersDeletionWaits'
    BY <1>1, <1>2, <1>5, <2>1 DEF UsersDeletionWaits
  <2>3. UsersDialogWaits'
    <3>1. CASE view'.dialog = Users!NoDialog
      BY <3>1 DEF UsersDialogWaits
    <3>2. CASE view'.dialog = view.dialog /\ (view.dialog # Users!NoDialog => view.dialog.kind # c.op \/ view.dialog.nth # c.arg.nth)
      BY <1>1, <1>2, <3>2 DEF UsersDialogWaits
    <3>3. CASE view.dialog # Users!NoDialog /\ view'.dialog = [view.dialog EXCEPT !.busy = FALSE, !.error = TRUE]
      BY <1>1, <3>3 DEF UsersDialogWaits, UsersDialogFields
    <3>4. CASE c.op \in {"load", "role"}
      <4>1. view'.dialog = view.dialog
        BY <1>1, <1>3, <3>4 DEF Users!Answered, Users!Refusal, UsersFields
      <4> QED BY <1>1, <1>2, <3>4, <4>1 DEF UsersDialogWaits, UsersKinds
    <3>5. CASE c.op \in {"create", "reset"} /\ view' = Users!Answered(view, c)
      BY <1>1, <3>1, <3>2, <3>5 DEF Users!Answered, Users!Without, UsersFields
    <3>6. CASE c.op \in {"create", "reset"} /\ view' = Users!Refusal(view, c)
      BY <1>1, <3>1, <3>2, <3>3, <3>6 DEF Users!Refusal, Users!IsOpen, UsersFields
    <3> QED BY <1>1, <1>3, <1>5, <3>4, <3>5, <3>6 DEF UsersAsked, UsersOps, UsersKinds
  <2> QED BY <1>1, <1>2, <2>1, <2>2, <2>3 DEF UsersInv
<1> QED BY <1>4, <1>5

\* What is busy on the page of the accounts waits for an answer that will end it.
LEMMA UsersStep == UsersInv /\ Users!Next => UsersInv'
BY UsersGestures, UsersServed, UsersAnswered DEF Users!Next

\* What the steps keep says that what is busy waits for something.
LEMMA UsersHold == UsersInv => Users!BusyIsWaiting
BY DEF UsersInv, UsersDialogWaits, UsersDeletionWaits, Users!BusyIsWaiting, Users!Waiting

-----------------------------------------------------------------------------
(* The catalogue: a reload ends. *)

RulesFields ==
  {"rules", "errors", "loading", "failure", "reloading", "said", "filters", "column", "descending"}

\* A request that a reload waits for.
OfReload(c) == c.op = "reload" \/ c.arg = "reload"

RulesWait == view.reloading => \E k \in DOMAIN calls : OfReload(calls[k])

RulesInv == Queue(calls) /\ RulesFields \subseteq DOMAIN view /\ view.reloading \in BOOLEAN /\ RulesWait

\* A request of the page has the four fields of a request.
LEMMA RulesAsk ==
  /\ \A op, arg : LET c == Catalogue!Request(op, arg) IN Shaped(c) /\ c.op = op /\ c.arg = arg
  /\ \A from : LET c == Catalogue!Load(from) IN Shaped(c) /\ c.op = "load" /\ c.arg = from
BY DEF Catalogue!Load, Catalogue!Request, Shaped

\* The page opens without a reload.
LEMMA RulesInit == Catalogue!Init => RulesInv
<1> SUFFICES ASSUME Catalogue!Init PROVE RulesInv
  OBVIOUS
<1>1. Queue(calls)
  BY RulesAsk, Asked DEF Catalogue!Init
<1>2. RulesFields \subseteq DOMAIN view /\ ~view.reloading /\ view.reloading \in BOOLEAN
  BY DEF Catalogue!Init, RulesFields
<1> QED BY <1>1, <1>2 DEF RulesInv, RulesWait

\* A step that takes no request away, and starts no reload.
LEMMA RulesQueued ==
  ASSUME RulesInv, Queue(calls'), DOMAIN view' = DOMAIN view,
         view'.reloading = view.reloading,
         \A j \in DOMAIN calls : OfReload(calls[j]) => \E i \in DOMAIN calls' : OfReload(calls'[i])
  PROVE  RulesInv'
BY DEF RulesInv, RulesWait

\* What happens on the page, at the server or on the network.
LEMMA RulesGestures ==
  ASSUME RulesInv,
         \/ \E r \in Rules :
              \/ Catalogue!Rewritten(r)
              \/ \E health \in {{}, {"degraded"}, {"quarantined"}} : Catalogue!Guards(r, health)
         \/ \E values \in {{}, {"storage"}} : Catalogue!SetFilter("category", values)
         \/ \E values \in {{}, {"enabled"}, {"disabled"}, Catalogue!Watched} : Catalogue!SetFilter("state", values)
         \/ \E column \in Catalogue!Columns : Catalogue!ToggleSort(column)
         \/ Catalogue!ShowGuarded \/ Catalogue!ClearFilters \/ Catalogue!EventLost
  PROVE  RulesInv'
<1>1. Queue(calls) /\ RulesFields \subseteq DOMAIN view
  BY DEF RulesInv
<1>2. DOMAIN view' = DOMAIN view /\ view'.reloading = view.reloading
  <2>1. CASE view' = view
    BY <2>1
  <2>2. CASE \E f : view' = [view EXCEPT !.filters = f]
    BY <1>1, <2>2 DEF RulesFields
  <2>3. CASE \E key, f : view' = [view EXCEPT !.filters[key] = f]
    BY <1>1, <2>3 DEF RulesFields
  <2>4. CASE \E f : view' = [view EXCEPT !.filters.state = f]
    BY <1>1, <2>4 DEF RulesFields
  <2>5. CASE \E c, d : view' = [view EXCEPT !.column = c, !.descending = d]
    BY <1>1, <2>5 DEF RulesFields
  <2> QED BY <2>1, <2>2, <2>3, <2>4, <2>5
        DEF Catalogue!Rewritten, Catalogue!Guards, Catalogue!SetFilter, Catalogue!ToggleSort,
            Catalogue!ShowGuarded, Catalogue!ClearFilters, Catalogue!EventLost, Catalogue!Gesture
<1>3. calls' = calls
  BY <1>1, NothingSent
     DEF Catalogue!Rewritten, Catalogue!Guards, Catalogue!SetFilter, Catalogue!ToggleSort,
         Catalogue!ShowGuarded, Catalogue!ClearFilters, Catalogue!EventLost, Catalogue!Gesture
<1> QED BY <1>1, <1>2, <1>3, RulesQueued

\* A reload is asked, or an event has the catalogue read again.
LEMMA RulesSent ==
  ASSUME RulesInv, Catalogue!Reload \/ Catalogue!EventArrives
  PROVE  RulesInv'
<1>1. Queue(calls) /\ RulesFields \subseteq DOMAIN view
  BY DEF RulesInv
<1>2. CASE Catalogue!Reload
  <2>1. PICK c : Shaped(c) /\ OfReload(c) /\ calls' = calls \o <<c>>
    BY <1>2, RulesAsk DEF Catalogue!Reload, Catalogue!Gesture, OfReload
  <2>2. Queue(calls') /\ Len(calls) + 1 \in DOMAIN calls' /\ calls'[Len(calls) + 1] = c
    BY <1>1, <2>1, OneSent
  <2>3. view' = [view EXCEPT !.reloading = TRUE]
    BY <1>2 DEF Catalogue!Reload, Catalogue!Gesture
  <2>4. DOMAIN view' = DOMAIN view /\ view'.reloading = TRUE
    BY <1>1, <2>3 DEF RulesFields
  <2> QED BY <1>1, <2>1, <2>2, <2>4 DEF RulesInv, RulesWait
<1>3. CASE Catalogue!EventArrives
  <2>1. PICK c : Shaped(c) /\ calls' = Append(calls, c)
    BY <1>3, RulesAsk DEF Catalogue!EventArrives
  <2>2. Queue(calls') /\ \A j \in DOMAIN calls : j \in DOMAIN calls' /\ calls'[j] = calls[j]
    BY <1>1, <2>1, OneSent
  <2>3. DOMAIN view' = DOMAIN view /\ view'.reloading = view.reloading
    BY <1>1, <1>3 DEF Catalogue!EventArrives, RulesFields
  <2> QED BY <2>2, <2>3, RulesQueued
<1> QED BY <1>2, <1>3

\* The server and the network leave the requests in the queue.
LEMMA RulesServed ==
  ASSUME RulesInv, NEW k \in DOMAIN calls,
         \/ \E part \in {"rules", "errors"} : Catalogue!ServeLoad(k, part)
         \/ Catalogue!ServeReload(k) \/ Catalogue!Fail(k)
  PROVE  RulesInv'
<1>1. Queue(calls)
  BY DEF RulesInv
<1>2. view' = view
  BY DEF Catalogue!ServeLoad, Catalogue!ServeReload, Catalogue!Serve, Catalogue!Fail
<1>3. PICK phase, reply : Becomes(k, phase, reply)
  <2>1. CASE Catalogue!ServeReload(k)
    BY <2>1 DEF Catalogue!ServeReload, Catalogue!Serve, Becomes
  <2>2. CASE Catalogue!Fail(k)
    BY <2>2 DEF Catalogue!Fail, Becomes
  <2>3. ASSUME NEW part, Catalogue!ServeLoad(k, part)
        PROVE  \E reply, phase : Becomes(k, phase, reply)
    BY <2>3 DEF Catalogue!ServeLoad, Becomes
  <2> QED BY <2>1, <2>2, <2>3
<1>4. Queue(calls') /\ DOMAIN calls' = DOMAIN calls
  BY <1>1, <1>3, OneServed
<1>5. \A j \in DOMAIN calls : calls'[j].op = calls[j].op /\ calls'[j].arg = calls[j].arg
  BY <1>1, <1>3, OneServed
<1>6. DOMAIN view' = DOMAIN view /\ view'.reloading = view.reloading
  BY <1>2
<1> QED BY <1>4, <1>5, <1>6, RulesQueued DEF OfReload

\* An answer ends the reload it was asked for, or asks for the reading that ends it.
LEMMA RulesAnswered ==
  ASSUME RulesInv, NEW k \in DOMAIN calls, Catalogue!HandleAnswer(k) \/ Catalogue!HandleRefusal(k)
  PROVE  RulesInv'
<1>1. Queue(calls) /\ RulesFields \subseteq DOMAIN view /\ view.reloading \in BOOLEAN
  BY DEF RulesInv
<1>2. CASE Catalogue!HandleAnswer(k) /\ calls[k].op = "reload"
  <2>1. PICK c : Shaped(c) /\ OfReload(c) /\ calls' = Others(k) \o <<c>>
    BY <1>2, RulesAsk DEF Catalogue!HandleAnswer, Catalogue!Settle, Catalogue!Then, Catalogue!Others, Others, OfReload
  <2>2. Queue(calls') /\ Len(calls) \in DOMAIN calls' /\ calls'[Len(calls)] = c
    <3>1. Queue(calls') /\ calls'[Len(calls)] = c
      BY <1>1, <2>1, OneAsked
    <3>2. DOMAIN calls' = DOMAIN calls /\ DOMAIN calls = 1..Len(calls) /\ Len(calls) \in Nat \ {0}
      BY <1>1, <2>1, OneAsked
    <3>3. Len(calls) \in 1..Len(calls)
      BY <3>2
    <3> QED BY <3>1, <3>2, <3>3
  <2>3. view' = view
    BY <1>2 DEF Catalogue!HandleAnswer, Catalogue!Settle
  <2> QED BY <2>1, <2>2, <2>3, RulesQueued
<1>3. CASE ~(Catalogue!HandleAnswer(k) /\ calls[k].op = "reload")
  <2>1. calls' = Others(k) \o << >>
    BY <1>3 DEF Catalogue!HandleAnswer, Catalogue!HandleRefusal, Catalogue!Settle, Catalogue!Then, Catalogue!Others, Others
  <2>2. Queue(calls') /\ \A j \in DOMAIN calls : j # k => \E i \in DOMAIN calls' : calls'[i] = calls[j]
    BY <1>1, <2>1, OneAnswered
  <2>3. DOMAIN view' = DOMAIN view /\ (view'.reloading <=> view.reloading /\ ~OfReload(calls[k])) /\ view'.reloading \in BOOLEAN
    BY <1>1, <1>3 DEF Catalogue!HandleAnswer, Catalogue!HandleRefusal, Catalogue!Settle, RulesFields, OfReload
  <2> QED BY <1>1, <2>2, <2>3 DEF RulesInv, RulesWait
<1> QED BY <1>2, <1>3

\* Each step of the page keeps what its property rests on.
LEMMA RulesStep == RulesInv /\ Catalogue!Next => RulesInv'
BY RulesGestures, RulesSent, RulesServed, RulesAnswered DEF Catalogue!Next

\* A reload ends: what it waits for is among the requests.
LEMMA RulesHold == RulesInv => Catalogue!ReloadEnds
BY DEF RulesInv, RulesWait, OfReload, Catalogue!ReloadEnds

-----------------------------------------------------------------------------
(* The instances: a test is of the form on screen. *)

InstancesFields == {"rows", "loading", "error", "form", "opened", "confirm", "deleting"}
InstancesFormFields ==
  {"nth", "id", "name", "target", "password", "pending", "tested", "error", "changed", "sure"}
InstancesOps == {"load", "remove", "save", "test"}

\* A request that a form waits for.
OfForm(c, form) == c.op \in {"test", "save"} /\ c.arg.nth = form.nth

\* The forms that asked were opened before; a test answers for what it was given.
InstancesRequest(c) ==
  /\ c.op \in InstancesOps
  /\ c.op \in {"test", "save"} => c.arg.nth \in 1..view.opened
  /\ c.op = "test" /\ c.phase = "done" => c.reply = [target |-> c.arg.target, password |-> c.arg.password]
InstancesRequests == \A k \in DOMAIN calls : InstancesRequest(calls[k])

\* The form that is open waits for one request at most, asked for what it shows unless it changed.
InstancesPending ==
  view.form # Targets!NoForm =>
    \A k \in DOMAIN calls : OfForm(calls[k], view.form) =>
      /\ view.form.pending # Targets!None
      /\ calls[k].op = "test" /\ ~view.form.changed =>
           calls[k].arg.target = view.form.target /\ calls[k].arg.password = view.form.password
InstancesOnce ==
  view.form # Targets!NoForm =>
    \A k, j \in DOMAIN calls : OfForm(calls[k], view.form) /\ OfForm(calls[j], view.form) => k = j

InstancesView ==
  /\ InstancesFields \subseteq DOMAIN view /\ view.opened \in Nat
  /\ view.form # Targets!NoForm => InstancesFormFields \subseteq DOMAIN view.form /\ view.form.nth = view.opened /\ view.opened # 0

InstancesInv ==
  /\ Queue(calls) /\ InstancesView
  /\ InstancesRequests /\ InstancesPending /\ InstancesOnce
  /\ Targets!TestIsOfTheForm

\* A request of the page has the four fields of a request.
LEMMA InstancesAsk ==
  \A op, arg : LET c == Targets!Request(op, arg) IN Shaped(c) /\ c.op = op /\ c.arg = arg /\ c.phase = "sent"
BY DEF Targets!Request, Shaped

\* The page opens without a form.
LEMMA InstancesInit == Targets!Init => InstancesInv
<1> SUFFICES ASSUME Targets!Init PROVE InstancesInv
  OBVIOUS
<1>1. Queue(calls) /\ DOMAIN calls = {1} /\ calls[1].op = "load"
  <2>1. PICK c : Shaped(c) /\ c.op = "load" /\ calls = <<c>>
    BY InstancesAsk DEF Targets!Init
  <2> QED BY <2>1, Asked
<1>2. InstancesFields \subseteq DOMAIN view /\ view.opened = 0 /\ view.form = Targets!NoForm
  BY DEF Targets!Init, InstancesFields
<1>3. InstancesRequests
  BY <1>1 DEF InstancesRequests, InstancesRequest, InstancesOps
<1> QED BY <1>1, <1>2, <1>3
        DEF InstancesInv, InstancesView, InstancesPending, InstancesOnce, Targets!TestIsOfTheForm

\* The form is left alone, and what it does not wait for is asked.
LEMMA InstancesBeside ==
  ASSUME InstancesInv, DOMAIN view' = DOMAIN view, view'.form = view.form, view'.opened = view.opened,
         \/ calls' = calls
         \/ \E op \in {"load", "remove"} : \E arg :
              \/ calls' = calls \o <<Targets!Request(op, arg)>>
              \/ calls' = Append(calls, Targets!Request(op, arg))
  PROVE  InstancesInv'
<1>1. Queue(calls) /\ InstancesView /\ InstancesRequests /\ InstancesPending /\ InstancesOnce /\ Targets!TestIsOfTheForm
  BY DEF InstancesInv
<1>2. InstancesView' /\ Targets!TestIsOfTheForm'
  BY <1>1 DEF InstancesView, Targets!TestIsOfTheForm
<1>3. CASE calls' = calls
  <2>1. InstancesRequests' /\ InstancesPending' /\ InstancesOnce'
    BY <1>1, <1>3 DEF InstancesRequests, InstancesRequest, InstancesPending, InstancesOnce
  <2> QED BY <1>1, <1>2, <1>3, <2>1 DEF InstancesInv
<1>4. CASE calls' # calls
  <2>1. PICK c : Shaped(c) /\ c.op \in {"load", "remove"} /\ (calls' = calls \o <<c>> \/ calls' = Append(calls, c))
    BY <1>4, InstancesAsk
  <2>2. Queue(calls')
    BY <1>1, <2>1, OneSent
  <2>3. \A i \in DOMAIN calls' : (i \in DOMAIN calls /\ calls'[i] = calls[i]) \/ calls'[i] = c
    BY <1>1, <2>1, OneSent
  <2>4. InstancesRequests'
    BY <1>1, <2>1, <2>3 DEF InstancesRequests, InstancesRequest, InstancesOps
  <2>5. InstancesPending'
    BY <1>1, <2>1, <2>3 DEF InstancesPending, OfForm
  <2>6. InstancesOnce'
    BY <1>1, <2>1, <2>3 DEF InstancesOnce, OfForm
  <2> QED BY <1>2, <2>2, <2>4, <2>5, <2>6 DEF InstancesInv
<1> QED BY <1>3, <1>4

\* The gestures and the events that leave the form alone.
LEMMA InstancesList ==
  ASSUME InstancesInv,
         \/ Targets!EventArrives \/ Targets!EventLost
         \/ \E id \in Ids : Targets!Collected(id) \/ Targets!AskDelete(id) \/ Targets!Elsewhere(id)
         \/ Targets!CancelDelete \/ Targets!ConfirmDelete
  PROVE  InstancesInv'
<1>1. Queue(calls) /\ InstancesFields \subseteq DOMAIN view
  BY DEF InstancesInv, InstancesView
<1>2. DOMAIN view' = DOMAIN view /\ view'.form = view.form /\ view'.opened = view.opened
  <2>1. CASE view' = view
    BY <2>1
  <2>2. CASE \E id : view' = [view EXCEPT !.confirm = id]
    BY <1>1, <2>2 DEF InstancesFields
  <2>3. CASE view' = [view EXCEPT !.deleting = TRUE]
    BY <1>1, <2>3 DEF InstancesFields
  <2> QED BY <2>1, <2>2, <2>3
        DEF Targets!Collected, Targets!EventArrives, Targets!EventLost, Targets!AskDelete, Targets!Elsewhere,
            Targets!CancelDelete, Targets!ConfirmDelete, Targets!Gesture
<1>3. CASE Targets!EventArrives
  BY <1>2, <1>3, InstancesBeside DEF Targets!EventArrives
<1>4. CASE Targets!ConfirmDelete
  BY <1>2, <1>4, InstancesBeside DEF Targets!ConfirmDelete, Targets!Gesture
<1>5. CASE ~Targets!EventArrives /\ ~Targets!ConfirmDelete
  <2>1. calls' = calls
    BY <1>1, <1>5, NothingSent DEF Targets!Collected, Targets!EventLost, Targets!AskDelete, Targets!Elsewhere, Targets!CancelDelete, Targets!Gesture
  <2> QED BY <1>2, <2>1, InstancesBeside
<1> QED BY <1>3, <1>4, <1>5

\* A form opens, or closes.
LEMMA InstancesOpened ==
  ASSUME InstancesInv, Targets!Close \/ \E id \in Ids \union {Targets!None} : Targets!Open(id)
  PROVE  InstancesInv'
<1>1. Queue(calls) /\ InstancesView /\ InstancesRequests
  BY DEF InstancesInv
<1>2. CASE Targets!Close
  <2>1. calls' = calls
    BY <1>1, <1>2, NothingSent DEF Targets!Close, Targets!Gesture
  <2>2. view' = [view EXCEPT !.form = Targets!NoForm]
    BY <1>2 DEF Targets!Close, Targets!Gesture
  <2>3. DOMAIN view' = DOMAIN view /\ view'.form = Targets!NoForm /\ view'.opened = view.opened
    BY <1>1, <2>2 DEF InstancesView, InstancesFields
  <2>4. InstancesRequests'
    BY <1>1, <2>1, <2>3 DEF InstancesRequests, InstancesRequest
  <2> QED BY <1>1, <2>1, <2>3, <2>4
          DEF InstancesInv, InstancesView, InstancesPending, InstancesOnce, Targets!TestIsOfTheForm
<1>3. ASSUME NEW id, Targets!Open(id) PROVE InstancesInv'
  <2>1. calls' = calls
    BY <1>1, <1>3, NothingSent DEF Targets!Open, Targets!Gesture
  <2>2. PICK target : view' = [view EXCEPT !.opened = @ + 1, !.form = Targets!Form(id, view.opened + 1, target)]
    BY <1>3 DEF Targets!Open, Targets!Gesture
  <2>3. /\ DOMAIN view' = DOMAIN view /\ view'.form = Targets!Form(id, view.opened + 1, target)
        /\ view'.opened = view.opened + 1
    BY <1>1, <2>2 DEF InstancesView, InstancesFields
  <2>4. /\ InstancesFormFields \subseteq DOMAIN view'.form
        /\ view'.form.nth = view.opened + 1 /\ view'.form.tested = Targets!NoTest
    BY <2>3 DEF Targets!Form, InstancesFormFields
  <2>5. view.opened \in Nat
    BY <1>1 DEF InstancesView
  <2>6. InstancesView'
    BY <1>1, <2>3, <2>4, <2>5 DEF InstancesView
  <2>7. InstancesRequests'
    BY <1>1, <2>1, <2>3, <2>5 DEF InstancesRequests, InstancesRequest
  <2>8. \A k \in DOMAIN calls' : ~OfForm(calls'[k], view'.form)
    <3>1. \A n \in 1..view.opened : n # view.opened + 1
      BY <2>5
    <3> QED BY <1>1, <2>1, <2>4, <3>1 DEF OfForm, InstancesRequests, InstancesRequest
  <2>9. InstancesPending' /\ InstancesOnce'
    BY <2>8 DEF InstancesPending, InstancesOnce
  <2> QED BY <1>1, <2>1, <2>4, <2>6, <2>7, <2>9 DEF InstancesInv, Targets!TestIsOfTheForm
<1> QED BY <1>2, <1>3

\* A change of the form forgets the result of the test.
LEMMA InstancesUpdated ==
  ASSUME InstancesInv, NEW field \in {"target", "password", "name"}, NEW value, Targets!Update(field, value)
  PROVE  InstancesInv'
<1>1. Queue(calls) /\ InstancesView /\ InstancesRequests /\ InstancesPending /\ InstancesOnce
  BY DEF InstancesInv
<1>2. /\ view.form # Targets!NoForm /\ calls' = calls
      /\ view' = [view EXCEPT !.form = [@ EXCEPT ![field] = value, !.tested = Targets!NoTest, !.changed = TRUE]]
  BY DEF Targets!Update, Targets!Updated
<1>3. /\ DOMAIN view' = DOMAIN view /\ view'.opened = view.opened
      /\ view'.form = [view.form EXCEPT ![field] = value, !.tested = Targets!NoTest, !.changed = TRUE]
  BY <1>1, <1>2 DEF InstancesView, InstancesFields
<1>4. InstancesFormFields \subseteq DOMAIN view.form /\ view.form.nth = view.opened /\ view.opened # 0
  BY <1>1, <1>2 DEF InstancesView
<1>5. /\ DOMAIN view'.form = DOMAIN view.form
      /\ view'.form.nth = view.form.nth /\ view'.form.pending = view.form.pending
      /\ view'.form.tested = Targets!NoTest /\ view'.form.changed = TRUE
  BY <1>3, <1>4 DEF InstancesFormFields
<1>6. InstancesView'
  BY <1>1, <1>3, <1>4, <1>5 DEF InstancesView
<1>7. InstancesRequests'
  BY <1>1, <1>2, <1>3 DEF InstancesRequests, InstancesRequest
<1>8. InstancesPending'
  BY <1>1, <1>2, <1>5 DEF InstancesPending, OfForm
<1>9. InstancesOnce'
  <2>1. \A k : OfForm(calls'[k], view'.form) => OfForm(calls[k], view.form)
    BY <1>2, <1>5 DEF OfForm
  <2> QED BY <1>1, <1>2, <2>1 DEF InstancesOnce
<1> QED BY <1>1, <1>2, <1>5, <1>6, <1>7, <1>8, <1>9 DEF InstancesInv, Targets!TestIsOfTheForm

\* A form that waits for nothing asks for a test or for its saving.
LEMMA InstancesAsked ==
  ASSUME InstancesInv, Targets!RunTest \/ Targets!Save
  PROVE  InstancesInv'
<1> DEFINE f == view.form
           g == view'.form
<1>1. Queue(calls) /\ InstancesView /\ InstancesRequests /\ InstancesPending /\ InstancesOnce /\ Targets!TestIsOfTheForm
  BY DEF InstancesInv
<1>2. f # Targets!NoForm /\ f.pending = Targets!None
  BY DEF Targets!RunTest, Targets!Save
<1>3. InstancesFormFields \subseteq DOMAIN f /\ f.nth = view.opened /\ view.opened \in Nat /\ view.opened # 0
  BY <1>1, <1>2 DEF InstancesView
<1>4. /\ DOMAIN view' = DOMAIN view /\ view'.opened = view.opened
      /\ \/ g = [f EXCEPT !.pending = "test", !.error = FALSE, !.changed = FALSE]
         \/ g = [f EXCEPT !.pending = "save", !.error = FALSE]
  BY <1>1 DEF Targets!RunTest, Targets!Save, Targets!Gesture, InstancesView, InstancesFields
<1>5. /\ DOMAIN g = DOMAIN f /\ g.nth = f.nth /\ g.target = f.target /\ g.password = f.password
      /\ g.tested = f.tested /\ g.sure = f.sure /\ g.pending # Targets!None
  BY <1>3, <1>4 DEF InstancesFormFields, Targets!None
<1>6. PICK c : /\ Shaped(c) /\ c.op \in {"test", "save"} /\ c.phase = "sent"
               /\ c.arg.nth = f.nth /\ c.arg.target = f.target /\ c.arg.password = f.password
               /\ calls' = calls \o <<c>>
  <2>1. \A op \in {"test", "save"} :
          LET c == Targets!Request(op, Targets!Body(f))
          IN  /\ Shaped(c) /\ c.op \in {"test", "save"} /\ c.phase = "sent"
              /\ c.arg.nth = f.nth /\ c.arg.target = f.target /\ c.arg.password = f.password
    BY InstancesAsk DEF Targets!Body
  <2>2. \E op \in {"test", "save"} : calls' = calls \o <<Targets!Request(op, Targets!Body(f))>>
    BY DEF Targets!RunTest, Targets!Save, Targets!Gesture
  <2> QED BY <2>1, <2>2
<1>7. Queue(calls')
  BY <1>1, <1>6, OneSent
<1>8. \A i \in DOMAIN calls' : \/ i \in DOMAIN calls /\ calls'[i] = calls[i]
                               \/ i = Len(calls) + 1 /\ calls'[i] = c
  BY <1>1, <1>6, OneSent
<1>9. \A k \in DOMAIN calls : ~OfForm(calls[k], g)
  BY <1>1, <1>2, <1>5 DEF InstancesPending, OfForm
<1>10. InstancesView'
  BY <1>1, <1>3, <1>4, <1>5 DEF InstancesView
<1>11. InstancesRequests'
  <2>1. c.arg.nth \in 1..view'.opened
    BY <1>3, <1>4, <1>6
  <2> QED BY <1>1, <1>4, <1>6, <1>8, <2>1 DEF InstancesRequests, InstancesRequest, InstancesOps
<1>12. InstancesPending'
  BY <1>5, <1>6, <1>8, <1>9 DEF InstancesPending
<1>13. InstancesOnce'
  BY <1>8, <1>9 DEF InstancesOnce
<1>14. Targets!TestIsOfTheForm'
  BY <1>1, <1>2, <1>5 DEF Targets!TestIsOfTheForm
<1> QED BY <1>7, <1>10, <1>11, <1>12, <1>13, <1>14 DEF InstancesInv

\* The server answers a test for what it was given.
LEMMA InstancesServed ==
  ASSUME InstancesInv, NEW k \in DOMAIN calls, Targets!ServeOne(k) \/ Targets!Fail(k)
  PROVE  InstancesInv'
<1>1. Queue(calls) /\ InstancesView /\ InstancesRequests /\ InstancesPending /\ InstancesOnce /\ Targets!TestIsOfTheForm
  BY DEF InstancesInv
<1>2. view' = view
  BY DEF Targets!ServeOne, Targets!Refuse, Targets!Serve, Targets!Fail
<1>3. PICK phase, reply : Becomes(k, phase, reply) /\ (phase = "done" => reply = Targets!Reply(server, calls[k]))
  <2>1. CASE Targets!ServeOne(k)
    <3>1. CASE Targets!Refused(calls[k])
      <4>1. Becomes(k, "refused", calls[k].reply)
        BY <2>1, <3>1 DEF Targets!ServeOne, Targets!Refuse, Becomes
      <4> QED BY <4>1
    <3>2. CASE ~Targets!Refused(calls[k])
      <4>1. Becomes(k, "done", Targets!Reply(server, calls[k]))
        BY <2>1, <3>2 DEF Targets!ServeOne, Targets!Serve, Becomes
      <4> QED BY <4>1
    <3> QED BY <3>1, <3>2
  <2>2. CASE Targets!Fail(k)
    <3>1. Becomes(k, "refused", Targets!None)
      BY <2>2 DEF Targets!Fail, Becomes
    <3> QED BY <3>1
  <2> QED BY <2>1, <2>2
<1>4. Queue(calls') /\ DOMAIN calls' = DOMAIN calls
  BY <1>1, <1>3, OneServed
<1>5. \A j \in DOMAIN calls : calls'[j].op = calls[j].op /\ calls'[j].arg = calls[j].arg
  BY <1>1, <1>3, OneServed
<1>6. \A j \in DOMAIN calls : j # k => calls'[j] = calls[j]
  BY <1>1, <1>3, OneServed
<1>7. calls'[k].phase = phase /\ calls'[k].reply = reply
  BY <1>1, <1>3, OneServed
<1>8. InstancesRequests'
  <2>1. \A j \in DOMAIN calls : j # k => InstancesRequest(calls[j])'
    BY <1>1, <1>2, <1>6 DEF InstancesRequests, InstancesRequest
  <2>2. InstancesRequest(calls[k])'
    BY <1>1, <1>2, <1>3, <1>5, <1>7 DEF InstancesRequests, InstancesRequest, Targets!Reply
  <2> QED BY <1>4, <2>1, <2>2 DEF InstancesRequests
<1>9. InstancesPending' /\ InstancesOnce'
  BY <1>1, <1>2, <1>4, <1>5 DEF InstancesPending, InstancesOnce, OfForm
<1>10. InstancesView' /\ Targets!TestIsOfTheForm'
  BY <1>1, <1>2 DEF InstancesView, Targets!TestIsOfTheForm
<1> QED BY <1>4, <1>8, <1>9, <1>10 DEF InstancesInv

\* An answer is for the form that asked, if it is still open.
LEMMA InstancesAnswered ==
  ASSUME InstancesInv, NEW k \in DOMAIN calls, Targets!HandleAnswer(k) \/ Targets!HandleRefusal(k)
  PROVE  InstancesInv'
<1> DEFINE c == calls[k]
           f == view.form
           g == view'.form
<1>1. Queue(calls) /\ InstancesView /\ InstancesRequests /\ InstancesPending /\ InstancesOnce /\ Targets!TestIsOfTheForm
  BY DEF InstancesInv
<1>2. c.op \in InstancesOps
  BY <1>1 DEF InstancesRequests, InstancesRequest
\* What waits: what waited beside the request, and a reading of the list.
<1>3. /\ Queue(calls')
      /\ \A i \in DOMAIN calls' : \/ calls'[i].op = "load"
                                  \/ Came(k, i) \in DOMAIN calls /\ Came(k, i) # k /\ calls'[i] = calls[Came(k, i)]
      /\ \A i \in DOMAIN calls' : i \in Int
      /\ k \in Int
  <2>1. CASE calls' = Others(k) \o << >>
    <3>1. Queue(calls') /\ k \in Int /\ Len(calls) \in Nat /\ DOMAIN calls' = 1..(Len(calls) - 1)
      BY <1>1, <2>1, OneAnswered
    <3>2. \A i \in DOMAIN calls' : Came(k, i) \in DOMAIN calls /\ Came(k, i) # k /\ calls'[i] = calls[Came(k, i)]
      BY <1>1, <2>1, OneAnswered
    <3> QED BY <3>1, <3>2
  <2>2. CASE \E n : Shaped(n) /\ n.op = "load" /\ calls' = Others(k) \o <<n>>
    <3>1. PICK n : Shaped(n) /\ n.op = "load" /\ calls' = Others(k) \o <<n>>
      BY <2>2
    <3>2. Queue(calls') /\ k \in Int /\ Len(calls) \in Nat /\ DOMAIN calls' = DOMAIN calls /\ DOMAIN calls = 1..Len(calls)
      BY <1>1, <3>1, OneAsked
    <3>3. \A i \in DOMAIN calls' : i # Len(calls) =>
            Came(k, i) \in DOMAIN calls /\ Came(k, i) # k /\ calls'[i] = calls[Came(k, i)]
      BY <1>1, <3>1, OneAsked
    <3>4. calls'[Len(calls)].op = "load"
      BY <1>1, <3>1, OneAsked
    <3> QED BY <3>2, <3>3, <3>4
  <2>3. calls' = Others(k) \o << >> \/ \E n : Shaped(n) /\ n.op = "load" /\ calls' = Others(k) \o <<n>>
    BY InstancesAsk DEF Targets!HandleAnswer, Targets!HandleRefusal, Targets!Settle, Targets!Then, Targets!Others, Others
  <2> QED BY <2>1, <2>2, <2>3
\* What is shown: the form of the request has its answer, another form none.
<1>4. \/ view' = Targets!Answered(view, c) /\ c.phase = "done"
      \/ view' = Targets!Refusal(view, c)
  BY DEF Targets!HandleAnswer, Targets!HandleRefusal, Targets!Settle
<1>5. /\ DOMAIN view' = DOMAIN view /\ view'.opened = view.opened
      /\ \/ g = Targets!NoForm
         \/ g = f /\ (f # Targets!NoForm => ~OfForm(c, f))
         \/ f # Targets!NoForm /\ OfForm(c, f) /\ g = [f EXCEPT !.error = TRUE, !.pending = Targets!None]
         \/ /\ f # Targets!NoForm /\ OfForm(c, f) /\ c.op = "test" /\ c.phase = "done"
            /\ g = [f EXCEPT !.tested = c.reply, !.pending = Targets!None, !.sure = ~f.changed]
  <2>1. InstancesFields \subseteq DOMAIN view
    BY <1>1 DEF InstancesView
  <2>2. CASE c.op \in {"load", "remove"}
    <3>1. DOMAIN view' = DOMAIN view /\ view'.opened = view.opened /\ g = f
      BY <1>4, <2>1, <2>2 DEF Targets!Answered, Targets!Refusal, InstancesFields
    <3> QED BY <2>2, <3>1 DEF OfForm
  <2>3. CASE c.op = "save" /\ view' = Targets!Answered(view, c)
    BY <2>1, <2>3 DEF Targets!Answered, InstancesFields
  <2>4. CASE c.op = "test" /\ view' = Targets!Answered(view, c) /\ c.phase = "done"
    BY <2>1, <2>4 DEF Targets!Answered, Targets!IsOpen, InstancesFields, OfForm
  <2>5. CASE c.op \in {"save", "test"} /\ view' = Targets!Refusal(view, c)
    BY <2>1, <2>5 DEF Targets!Refusal, Targets!IsOpen, InstancesFields, OfForm
  <2> QED BY <1>2, <1>4, <2>2, <2>3, <2>4, <2>5 DEF InstancesOps
<1>6. g # Targets!NoForm =>
        /\ f # Targets!NoForm
        /\ DOMAIN g = DOMAIN f /\ g.nth = f.nth
        /\ g.target = f.target /\ g.password = f.password /\ g.changed = f.changed
        /\ g = f \/ (OfForm(c, f) /\ g.pending = Targets!None)
  <2>1. f # Targets!NoForm => InstancesFormFields \subseteq DOMAIN f
    BY <1>1 DEF InstancesView
  <2> QED BY <1>5, <2>1 DEF InstancesFormFields
<1>7. InstancesView'
  BY <1>1, <1>5, <1>6 DEF InstancesView
<1>8. InstancesRequests'
  <2>1. \A i \in DOMAIN calls' : calls'[i].op = "load" \/ \E j \in DOMAIN calls : calls'[i] = calls[j]
    BY <1>3
  <2> QED BY <1>1, <1>5, <2>1 DEF InstancesRequests, InstancesRequest, InstancesOps
<1>9. g # Targets!NoForm => \A i \in DOMAIN calls' : OfForm(calls'[i], g) =>
        /\ Came(k, i) \in DOMAIN calls /\ Came(k, i) # k /\ calls'[i] = calls[Came(k, i)]
        /\ OfForm(calls[Came(k, i)], f)
  BY <1>3, <1>6 DEF OfForm
<1>10. g # Targets!NoForm /\ OfForm(c, f) => \A i \in DOMAIN calls' : ~OfForm(calls'[i], g)
  BY <1>1, <1>6, <1>9 DEF InstancesOnce
<1>11. InstancesPending'
  BY <1>1, <1>6, <1>9, <1>10 DEF InstancesPending
<1>12. InstancesOnce'
  <2> SUFFICES ASSUME g # Targets!NoForm, NEW i \in DOMAIN calls', NEW j \in DOMAIN calls',
                      OfForm(calls'[i], g), OfForm(calls'[j], g)
               PROVE  i = j
    BY DEF InstancesOnce
  <2>1. Came(k, i) = Came(k, j) /\ Came(k, i) # k
    BY <1>1, <1>6, <1>9 DEF InstancesOnce
  <2> QED BY <1>3, <2>1 DEF Came
<1>13. Targets!TestIsOfTheForm'
  <2>1. CASE g = Targets!NoForm
    BY <2>1 DEF Targets!TestIsOfTheForm
  <2>2. CASE g = f
    BY <1>1, <2>2 DEF Targets!TestIsOfTheForm
  <2>3. CASE f # Targets!NoForm /\ g = [f EXCEPT !.error = TRUE, !.pending = Targets!None]
    <3>1. g.tested = f.tested /\ g.sure = f.sure /\ g.target = f.target /\ g.password = f.password
      BY <1>1, <2>3 DEF InstancesView, InstancesFormFields
    <3> QED BY <1>1, <2>3, <3>1 DEF Targets!TestIsOfTheForm
  <2>4. CASE /\ f # Targets!NoForm /\ OfForm(c, f) /\ c.op = "test" /\ c.phase = "done"
             /\ g = [f EXCEPT !.tested = c.reply, !.pending = Targets!None, !.sure = ~f.changed]
    <3>1. g.tested = c.reply /\ g.sure = ~f.changed /\ g.target = f.target /\ g.password = f.password
      BY <1>1, <2>4 DEF InstancesView, InstancesFormFields
    <3>2. c.reply = [target |-> c.arg.target, password |-> c.arg.password]
      BY <1>1, <2>4 DEF InstancesRequests, InstancesRequest
    <3>3. ~f.changed => c.arg.target = f.target /\ c.arg.password = f.password
      BY <1>1, <2>4 DEF InstancesPending
    <3> QED BY <3>1, <3>2, <3>3 DEF Targets!TestIsOfTheForm
  <2> QED BY <1>5, <2>1, <2>2, <2>3, <2>4
<1> QED BY <1>3, <1>7, <1>8, <1>11, <1>12, <1>13 DEF InstancesInv

\* Each step of the page keeps what its property rests on.
LEMMA InstancesStep == InstancesInv /\ Targets!Next => InstancesInv'
BY InstancesList, InstancesOpened, InstancesUpdated, InstancesAsked, InstancesServed, InstancesAnswered DEF Targets!Next

\* The test on screen is of the form on screen.
LEMMA InstancesHold == InstancesInv => Targets!TestIsOfTheForm
BY DEF InstancesInv

-----------------------------------------------------------------------------
(* The editor: the badge is of the text on screen. *)

EditorFields ==
  {"mode", "loading", "text", "detail", "validated", "timer", "busy", "running", "ran", "left", "target", "form", "working"}
EditorOps == {"load", "refresh", "save", "validate", "remove", "dryRun", "override", "clear", "reactivate"}

Right(text) == IF Editor!Compiles(text) THEN "valid" ELSE "invalid"

\* A request on a rule that has an identifier.
OfRule(c) ==
  \/ c.op \in {"refresh", "override", "clear", "reactivate"}
  \/ c.op = "load" /\ c.arg = "edit"

EditorRequest(c) ==
  /\ c.op \in EditorOps
  /\ c.op = "load" => c.arg \in {"create", "repair", "edit"}
  /\ c.op = "override" => c.arg.then \in {"load", "refresh"}
  /\ OfRule(c) => view.mode = "edit"
  /\ c.op = "validate" => /\ c.phase = "done" => c.reply = Right(c.arg)
                          /\ spent.faults = 0 => c.phase # "refused"
EditorRequests == \A k \in DOMAIN calls : EditorRequest(calls[k])

EditorView ==
  /\ DOMAIN view = EditorFields
  /\ view.timer \in BOOLEAN /\ (view.timer => view.text # Editor!Empty)
  /\ view.detail # Editor!NoDetail => view.mode = "edit"

\* The reading of a refused file is the first thing that happens.
EditorRepairs ==
  \A k \in DOMAIN calls : calls[k].op = "load" /\ calls[k].arg = "repair" =>
    Len(calls) = 1 /\ view.loading /\ view.text = Editor!Empty /\ view.mode = "repair"

\* A text is to be validated, or is the last one of those that are sent, or was.
EditorBadge ==
  spent.inOrder /\ spent.faults = 0 /\ view.text # Editor!Empty =>
    \/ view.timer
    \/ \E k \in DOMAIN calls : /\ calls[k].op = "validate" /\ calls[k].arg = view.text
                               /\ \A j \in DOMAIN calls : j > k => calls[j].op # "validate"
    \/ /\ \A k \in DOMAIN calls : calls[k].op # "validate"
       /\ view.validated = Right(view.text)

EditorInv ==
  Queue(calls) /\ Counted /\ EditorView /\ EditorRequests /\ EditorRepairs /\ EditorBadge

\* A request of the page has the four fields of a request.
LEMMA EditorAsk ==
  \A op, arg : LET c == Editor!Request(op, arg) IN Shaped(c) /\ c.op = op /\ c.arg = arg /\ c.phase = "sent"
BY DEF Editor!Request, Shaped

\* The page opens on a text that is not there yet.
LEMMA EditorInit == Editor!Init => EditorInv
<1> SUFFICES ASSUME Editor!Init PROVE EditorInv
  OBVIOUS
<1>1. PICK mode \in {"edit", "create", "repair"} :
        /\ view = [mode |-> mode, loading |-> TRUE, text |-> Editor!Empty, detail |-> Editor!NoDetail, validated |-> Editor!None,
                   timer |-> FALSE, busy |-> FALSE, running |-> FALSE, ran |-> Editor!None, left |-> FALSE,
                   target |-> "all", form |-> Editor!None, working |-> FALSE]
        /\ calls = <<Editor!Request("load", mode)>>
  BY DEF Editor!Init
<1>2. Queue(calls) /\ Len(calls) = 1 /\ DOMAIN calls = {1} /\ calls[1].op = "load" /\ calls[1].arg = mode
  <2>1. PICK c : Shaped(c) /\ c.op = "load" /\ c.arg = mode /\ calls = <<c>>
    BY <1>1, EditorAsk
  <2> QED BY <2>1, Asked
<1>3. Counted
  <2>1. PICK h : Editor!Unspent(h)
    BY DEF Editor!Init
  <2>2. PICK ordered :
          spent = LET bounds == [moves |-> 0, faults |-> 0, inOrder |-> ordered]
                  IN  [x \in DOMAIN bounds \union DOMAIN h |-> IF x \in DOMAIN bounds THEN bounds[x] ELSE h[x]]
    BY <2>1 DEF Editor!Unspent
  <2> QED BY <2>2, Opens
<1>4. EditorView /\ view.text = Editor!Empty /\ view.mode = mode /\ view.loading
  BY <1>1 DEF EditorView, EditorFields
<1>5. EditorRequests /\ EditorRepairs /\ EditorBadge
  BY <1>1, <1>2, <1>4 DEF EditorRequests, EditorRequest, EditorOps, OfRule, EditorRepairs, EditorBadge
<1> QED BY <1>2, <1>3, <1>4, <1>5 DEF EditorInv

\* The text and the rule are left alone; something may be asked, but no text is read or validated.
EditorSame == view'.text = view.text /\ view'.timer = view.timer /\ view'.validated = view.validated
EditorKept ==
  /\ DOMAIN view' = DOMAIN view /\ EditorSame
  /\ view'.mode = view.mode /\ view'.loading = view.loading /\ view'.detail = view.detail

\* Beside the text, requests come and go.
LEMMA EditorBeside ==
  ASSUME EditorInv, Spends, EditorKept,
         \/ calls' = calls
         \/ /\ ~view.loading \/ view.mode = "edit"
            /\ \E op \in EditorOps \ {"load", "validate"} : \E arg :
                 /\ op = "override" => arg.then \in {"load", "refresh"}
                 /\ op \in {"refresh", "override", "clear", "reactivate"} => view.mode = "edit"
                 /\ \/ calls' = calls \o <<Editor!Request(op, arg)>>
                    \/ calls' = Append(calls, Editor!Request(op, arg))
  PROVE  EditorInv'
<1>1. Queue(calls) /\ EditorView /\ EditorRequests /\ EditorRepairs /\ EditorBadge
  BY DEF EditorInv
<1>2. EditorView' /\ Counted' /\ spent'.faults = spent.faults /\ spent'.inOrder = spent.inOrder /\ view'.mode = view.mode
  BY <1>1 DEF EditorView, EditorKept, EditorSame, Spends
<1>3. CASE calls' = calls
  <2>1. EditorRequests' /\ EditorRepairs' /\ EditorBadge'
    BY <1>1, <1>2, <1>3 DEF EditorRequests, EditorRequest, OfRule, EditorRepairs, EditorBadge, EditorKept, EditorSame
  <2> QED BY <1>1, <1>2, <1>3, <2>1 DEF EditorInv
<1>4. CASE calls' # calls
  <2>1. PICK c : /\ Shaped(c) /\ c.op \in EditorOps \ {"load", "validate"}
                 /\ c.op = "override" => c.arg.then \in {"load", "refresh"}
                 /\ c.op \in {"refresh", "override", "clear", "reactivate"} => view.mode = "edit"
                 /\ calls' = calls \o <<c>> \/ calls' = Append(calls, c)
    <3>1. PICK op, arg :
            /\ op \in EditorOps \ {"load", "validate"}
            /\ op = "override" => arg.then \in {"load", "refresh"}
            /\ op \in {"refresh", "override", "clear", "reactivate"} => view.mode = "edit"
            /\ \/ calls' = calls \o <<Editor!Request(op, arg)>>
               \/ calls' = Append(calls, Editor!Request(op, arg))
      BY <1>4
    <3>2. LET c == Editor!Request(op, arg) IN Shaped(c) /\ c.op = op /\ c.arg = arg
      BY EditorAsk
    <3> QED BY <3>1, <3>2
  <2>2. ~view.loading \/ view.mode = "edit"
    BY <1>4
  <2>3. Queue(calls') /\ \A j \in DOMAIN calls : j \in DOMAIN calls' /\ calls'[j] = calls[j]
    BY <1>1, <2>1, OneSent
  <2>4. \A i \in DOMAIN calls' : (i \in DOMAIN calls /\ calls'[i] = calls[i]) \/ calls'[i] = c
    BY <1>1, <2>1, OneSent
  <2>5. EditorRequests'
    BY <1>1, <1>2, <2>1, <2>4 DEF EditorRequests, EditorRequest, OfRule
  <2>6. EditorRepairs'
    BY <1>1, <2>1, <2>2, <2>4 DEF EditorRepairs
  <2>7. EditorBadge'
    BY <1>1, <1>2, <2>1, <2>3, <2>4 DEF EditorBadge, EditorKept, EditorSame
  <2> QED BY <1>2, <2>3, <2>5, <2>6, <2>7 DEF EditorInv
<1> QED BY <1>3, <1>4

\* The gestures beside the text.
LEMMA EditorGestures ==
  ASSUME EditorInv,
         \/ Editor!Save \/ Editor!DeleteRule \/ Editor!RunDry
         \/ \E scope \in Editor!Scopes : Editor!Select(scope)
         \/ \E value \in {Editor!None, Editor!Value} : Editor!TypeVariable(value)
         \/ Editor!SaveVariables \/ Editor!ClearVariables \/ Editor!Reactivate
         \/ \E applied \in BOOLEAN : Editor!SetApplied(applied)
         \/ Editor!Trip \/ Editor!EventArrives \/ Editor!EventLost
  PROVE  EditorInv'
<1>1. Queue(calls) /\ Counted /\ EditorView
  BY DEF EditorInv
<1>2. Spends
  <2>1. \/ UNCHANGED spent \/ spent' = [spent EXCEPT !.moves = @ + 1]
        \/ spent' = [spent EXCEPT !.moves = @ + 1, !.written = TRUE]
        \/ spent' = [spent EXCEPT !.moves = @ + 1, !.reloads = @ + 1]
    BY DEF Editor!Save, Editor!DeleteRule, Editor!RunDry, Editor!Select, Editor!TypeVariable, Editor!SaveVariables,
           Editor!ClearVariables, Editor!Reactivate, Editor!SetApplied, Editor!Trip, Editor!EventArrives, Editor!EventLost,
           Editor!Gesture, Editor!Spend
  <2> QED BY <1>1, <2>1, Spent
<1>3. EditorKept
  <2>1. CASE view' = view
    BY <2>1 DEF EditorKept, EditorSame
  <2>2. CASE view' = [view EXCEPT !.busy = TRUE]
    BY <1>1, <2>2 DEF EditorKept, EditorSame, EditorView, EditorFields
  <2>3. CASE view' = [view EXCEPT !.running = TRUE]
    BY <1>1, <2>3 DEF EditorKept, EditorSame, EditorView, EditorFields
  <2>4. CASE view' = [view EXCEPT !.working = TRUE]
    BY <1>1, <2>4 DEF EditorKept, EditorSame, EditorView, EditorFields
  <2>5. CASE \E f : view' = [view EXCEPT !.form = f]
    BY <1>1, <2>5 DEF EditorKept, EditorSame, EditorView, EditorFields
  <2>6. CASE \E s, f : view' = [view EXCEPT !.target = s, !.form = f]
    BY <1>1, <2>6 DEF EditorKept, EditorSame, EditorView, EditorFields
  <2>7. ASSUME NEW scope, Editor!Select(scope) PROVE \E s, f : view' = [view EXCEPT !.target = s, !.form = f]
    BY <2>7 DEF Editor!Select, Editor!Gesture, Editor!WithTarget
  <2>8. ASSUME NEW value, Editor!TypeVariable(value) PROVE \E f : view' = [view EXCEPT !.form = f]
    BY <2>8 DEF Editor!TypeVariable, Editor!Gesture
  <2>9. CASE \/ Editor!SaveVariables \/ Editor!ClearVariables \/ Editor!Reactivate
             \/ \E applied \in BOOLEAN : Editor!SetApplied(applied)
    BY <2>4, <2>9 DEF Editor!SaveVariables, Editor!ClearVariables, Editor!Reactivate, Editor!SetApplied, Editor!Gesture
  <2>10. CASE Editor!Save \/ Editor!DeleteRule \/ Editor!RunDry \/ Editor!Trip \/ Editor!EventArrives \/ Editor!EventLost
    BY <2>1, <2>2, <2>3, <2>10 DEF Editor!Save, Editor!DeleteRule, Editor!RunDry, Editor!Trip, Editor!EventArrives, Editor!EventLost, Editor!Gesture
  <2> QED BY <2>5, <2>6, <2>7, <2>8, <2>9, <2>10
<1>4. Editor!Card => ~view.loading /\ view.mode = "edit"
  BY <1>1 DEF Editor!Card, Editor!Shown, EditorView
<1>5. CASE Editor!Save
  BY <1>2, <1>3, <1>5, EditorBeside DEF Editor!Save, Editor!Shown, EditorOps
<1>6. CASE Editor!DeleteRule \/ Editor!RunDry
  BY <1>2, <1>3, <1>6, EditorBeside DEF Editor!DeleteRule, Editor!RunDry, Editor!Shown, Editor!Gesture, EditorOps
<1>7. CASE \/ \E scope \in Editor!Scopes : Editor!Select(scope)
           \/ \E value \in {Editor!None, Editor!Value} : Editor!TypeVariable(value)
  BY <1>1, <1>2, <1>3, <1>7, EditorBeside, NothingSent DEF Editor!Select, Editor!TypeVariable, Editor!Gesture
<1>8. CASE Editor!SaveVariables
  <2>1. \E arg : arg.then = "refresh" /\ calls' = calls \o <<Editor!Request("override", arg)>>
    BY <1>8 DEF Editor!SaveVariables, Editor!Store, Editor!Gesture
  <2>2. Editor!Card
    BY <1>8 DEF Editor!SaveVariables
  <2> QED BY <1>2, <1>3, <1>4, <2>1, <2>2, EditorBeside DEF EditorOps
<1>9. CASE \E applied \in BOOLEAN : Editor!SetApplied(applied)
  <2>1. \E arg : arg.then = "load" /\ calls' = Append(calls, Editor!Request("override", arg))
    BY <1>9 DEF Editor!SetApplied, Editor!Store
  <2>2. Editor!Card
    BY <1>9 DEF Editor!SetApplied
  <2> QED BY <1>2, <1>3, <1>4, <2>1, <2>2, EditorBeside DEF EditorOps
<1>10. CASE Editor!ClearVariables
  <2>1. Editor!Card /\ \E arg : calls' = calls \o <<Editor!Request("clear", arg)>>
    BY <1>10 DEF Editor!ClearVariables, Editor!Gesture
  <2> QED BY <1>2, <1>3, <1>4, <2>1, EditorBeside DEF EditorOps
<1>11. CASE Editor!Reactivate
  <2>1. Editor!Card /\ \E arg : calls' = calls \o <<Editor!Request("reactivate", arg)>>
    BY <1>11 DEF Editor!Reactivate, Editor!Gesture
  <2> QED BY <1>2, <1>3, <1>4, <2>1, EditorBeside DEF EditorOps
<1>12. CASE Editor!Trip \/ Editor!EventLost
  BY <1>2, <1>3, <1>12, EditorBeside DEF Editor!Trip, Editor!EventLost
<1>13. CASE Editor!EventArrives
  <2>1. \/ calls' = calls
        \/ view.mode = "edit" /\ \E arg : calls' = Append(calls, Editor!Request("refresh", arg))
    <3>1. CASE view.mode = "edit"
      BY <1>13, <3>1 DEF Editor!EventArrives
    <3>2. CASE view.mode # "edit"
      BY <1>13, <3>2 DEF Editor!EventArrives
    <3> QED BY <3>1, <3>2
  <2> QED BY <1>2, <1>3, <2>1, EditorBeside DEF EditorOps
<1> QED BY <1>5, <1>6, <1>7, <1>8, <1>9, <1>10, <1>11, <1>12, <1>13

\* A text that is typed is to be validated, unless it is empty.
LEMMA EditorTyped ==
  ASSUME EditorInv, NEW text, Editor!Type(text)
  PROVE  EditorInv'
<1>1. Queue(calls) /\ Counted /\ EditorView /\ EditorRequests /\ EditorRepairs
  BY DEF EditorInv
<1>2. Spends /\ calls' = calls /\ ~view.loading
  BY <1>1, Spent DEF Editor!Type, Editor!Shown
<1>3. /\ DOMAIN view' = DOMAIN view /\ view'.text = text /\ view'.timer = (text # Editor!Empty)
      /\ view'.mode = view.mode /\ view'.detail = view.detail
  BY <1>1 DEF Editor!Type, Editor!WithText, EditorView, EditorFields
<1>4. EditorView'
  BY <1>1, <1>3 DEF EditorView
<1>5. EditorRequests'
  BY <1>1, <1>2, <1>3 DEF EditorRequests, EditorRequest, OfRule, Spends
<1>6. EditorRepairs'
  BY <1>1, <1>2 DEF EditorRepairs
<1>7. EditorBadge'
  BY <1>3 DEF EditorBadge
<1> QED BY <1>1, <1>2, <1>4, <1>5, <1>6, <1>7 DEF EditorInv, Spends

\* The timer sends the text on screen.
LEMMA EditorTimed ==
  ASSUME EditorInv, Editor!TimerFires
  PROVE  EditorInv'
<1>1. Queue(calls) /\ Counted /\ EditorView /\ EditorRequests /\ EditorRepairs
  BY DEF EditorInv
<1>2. Spends /\ view.timer
  BY <1>1, Spent DEF Editor!TimerFires
<1>3. PICK c : Shaped(c) /\ c.op = "validate" /\ c.arg = view.text /\ c.phase = "sent" /\ calls' = Append(calls, c)
  BY EditorAsk DEF Editor!TimerFires
<1>4. Queue(calls') /\ Len(calls) \in Nat /\ DOMAIN calls' = 1..(Len(calls) + 1)
  BY <1>1, <1>3, OneSent
<1>5. Len(calls) + 1 \in DOMAIN calls' /\ calls'[Len(calls) + 1] = c
  BY <1>1, <1>3, OneSent
<1>6. \A i \in DOMAIN calls' : (i \in DOMAIN calls /\ calls'[i] = calls[i]) \/ calls'[i] = c
  BY <1>1, <1>3, OneSent
<1>7. /\ DOMAIN view' = DOMAIN view /\ view'.text = view.text /\ view'.timer = FALSE
      /\ view'.mode = view.mode /\ view'.detail = view.detail
  BY <1>1 DEF Editor!TimerFires, EditorView, EditorFields
<1>8. EditorView'
  BY <1>1, <1>7 DEF EditorView
<1>9. EditorRequests'
  BY <1>1, <1>2, <1>3, <1>6, <1>7 DEF EditorRequests, EditorRequest, OfRule, Spends, EditorOps
<1>10. EditorRepairs'
  BY <1>1, <1>2, <1>3, <1>6 DEF EditorRepairs, EditorView
<1>11. EditorBadge'
  <2>1. \A j \in DOMAIN calls' : ~(j > Len(calls) + 1)
    BY <1>4
  <2> QED BY <1>3, <1>5, <1>7, <2>1 DEF EditorBadge
<1> QED BY <1>2, <1>4, <1>8, <1>9, <1>10, <1>11 DEF EditorInv, Spends

\* The server validates the text it was given.
LEMMA EditorServed ==
  ASSUME EditorInv, NEW k \in DOMAIN calls, Editor!ServeOne(k) \/ Editor!Fail(k)
  PROVE  EditorInv'
<1>1. Queue(calls) /\ Counted /\ EditorView /\ EditorRequests /\ EditorRepairs /\ EditorBadge
  BY DEF EditorInv
<1>2. view' = view
  BY DEF Editor!ServeOne, Editor!Refuse, Editor!Serve, Editor!Fail
<1>3. PICK phase, reply :
        /\ Becomes(k, phase, reply)
        /\ phase = "done" => reply = Editor!Reply(server, calls[k])
        /\ phase = "refused" /\ spent'.faults = 0 => Editor!Refused(calls[k])
        /\ Counted' /\ spent'.inOrder = spent.inOrder /\ (spent'.faults = 0 => spent.faults = 0)
  <2>1. CASE Editor!ServeOne(k) /\ Editor!Refused(calls[k])
    <3>1. Becomes(k, "refused", calls[k].reply) /\ UNCHANGED spent
      BY <2>1 DEF Editor!ServeOne, Editor!Refuse, Becomes
    <3> QED BY <1>1, <2>1, <3>1 DEF Counted
  <2>2. CASE Editor!ServeOne(k) /\ ~Editor!Refused(calls[k])
    <3>1. Becomes(k, "done", Editor!Reply(server, calls[k])) /\ UNCHANGED spent
      BY <2>2 DEF Editor!ServeOne, Editor!Serve, Becomes
    <3> QED BY <1>1, <3>1 DEF Counted
  <2>3. CASE Editor!Fail(k)
    <3>1. Becomes(k, "refused", Editor!None) /\ spent' = [spent EXCEPT !.moves = @ + 1, !.faults = @ + 1]
      BY <2>3 DEF Editor!Fail, Becomes
    <3>2. Counted' /\ spent'.inOrder = spent.inOrder /\ spent'.faults # 0
      BY <1>1, <3>1 DEF Counted
    <3> QED BY <3>1, <3>2
  <2> QED BY <2>1, <2>2, <2>3
<1>4. Queue(calls') /\ DOMAIN calls' = DOMAIN calls /\ Len(calls') = Len(calls)
  BY <1>1, <1>3, OneServed
<1>5. \A j \in DOMAIN calls : calls'[j].op = calls[j].op /\ calls'[j].arg = calls[j].arg
  BY <1>1, <1>3, OneServed
<1>6. \A j \in DOMAIN calls : j # k => calls'[j] = calls[j]
  BY <1>1, <1>3, OneServed
<1>7. calls'[k].phase = phase /\ calls'[k].reply = reply
  BY <1>1, <1>3, OneServed
<1>8. EditorRequests'
  <2>1. \A j \in DOMAIN calls : j # k => EditorRequest(calls[j])'
    BY <1>1, <1>2, <1>3, <1>6 DEF EditorRequests, EditorRequest, OfRule
  <2>2. EditorRequest(calls[k])'
    <3>1. calls[k].op = "validate" => ~Editor!Refused(calls[k]) /\ Editor!Reply(server, calls[k]) = Right(calls[k].arg)
      BY DEF Editor!Refused, Editor!Reply, Right
    <3> QED BY <1>1, <1>2, <1>3, <1>5, <1>7, <3>1 DEF EditorRequests, EditorRequest, OfRule
  <2> QED BY <1>4, <2>1, <2>2 DEF EditorRequests
<1>9. EditorRepairs'
  BY <1>1, <1>2, <1>4, <1>5 DEF EditorRepairs
<1>10. EditorBadge'
  BY <1>1, <1>2, <1>3, <1>4, <1>5 DEF EditorBadge
<1>11. EditorView'
  BY <1>1, <1>2 DEF EditorView
<1> QED BY <1>3, <1>4, <1>8, <1>9, <1>10, <1>11 DEF EditorInv

\* What becomes of the text, and of the rule, when request c is answered.
EditorText(c) ==
  \/ EditorSame
  \/ /\ c.op = "validate" /\ c.phase = "done"
     /\ view'.text = view.text /\ view'.timer = view.timer /\ view'.validated = c.reply
  \/ view'.text # view.text /\ view'.timer = (view'.text # Editor!Empty)
  \/ view'.text = Editor!Empty /\ view'.timer = FALSE
EditorRule ==
  /\ DOMAIN view' = EditorFields
  /\ view.mode = "edit" => view'.mode = "edit"
  /\ view'.detail # Editor!NoDetail => view'.mode = "edit"

\* A text that is read is another one, hence to be validated, or the one that was there.
LEMMA EditorReads ==
  ASSUME NEW v, EditorFields \subseteq DOMAIN v, NEW text
  PROVE  LET w == Editor!WithText(v, text)
         IN  /\ DOMAIN w = DOMAIN v /\ w.text = text
             /\ text = v.text => w.timer = v.timer /\ w.validated = v.validated
             /\ text # v.text => w.timer = (text # Editor!Empty)
             /\ \A x \in DOMAIN v \ {"text", "timer", "validated"} : w[x] = v[x]
BY DEF Editor!WithText, EditorFields

\* The variables that are read change nothing else than the form.
LEMMA EditorReadsRule ==
  ASSUME NEW v, EditorFields \subseteq DOMAIN v, NEW d
  PROVE  LET w == Editor!WithDetail(v, d)
         IN  /\ DOMAIN w = DOMAIN v /\ w.detail = d
             /\ \A x \in DOMAIN v \ {"detail", "form"} : w[x] = v[x]
BY DEF Editor!WithDetail, EditorFields

\* A reading answers with a text, that of the rule or of the template.
LEMMA EditorLoads ==
  ASSUME EditorInv, NEW k \in DOMAIN calls, calls[k].op \in {"load", "save"}, view' = Editor!Answered(view, calls[k])
  PROVE  EditorText(calls[k]) /\ EditorRule
<1> DEFINE c == calls[k]
<1>1. EditorView /\ EditorFields \subseteq DOMAIN view
  BY DEF EditorInv, EditorView
<1>2. EditorRequest(c)
  BY DEF EditorInv, EditorRequests
<1>3. CASE c.op = "save"
  <2> DEFINE u == Editor!WithDetail(view, c.reply)
             w == Editor!WithText(u, c.reply.yaml)
  <2>1. view' = [w EXCEPT !.busy = FALSE, !.mode = "edit"]
    BY <1>3 DEF Editor!Answered, Editor!Saved
  <2>2. DOMAIN u = EditorFields /\ u.text = view.text /\ u.timer = view.timer /\ u.validated = view.validated
    BY <1>1, EditorReadsRule DEF EditorView, EditorFields
  <2> HIDE DEF u
  <2>3. /\ DOMAIN w = EditorFields /\ w.text = c.reply.yaml
        /\ w.text = view.text => w.timer = view.timer /\ w.validated = view.validated
        /\ w.text # view.text => w.timer = (w.text # Editor!Empty)
    BY <2>2, EditorReads
  <2> HIDE DEF w
  <2>4. /\ DOMAIN view' = EditorFields /\ view'.text = w.text /\ view'.timer = w.timer /\ view'.validated = w.validated
        /\ view'.mode = "edit"
    BY <2>1, <2>3 DEF EditorFields
  <2> QED BY <2>3, <2>4 DEF EditorText, EditorRule, EditorSame
<1>4. CASE c.op = "load"
  <2> DEFINE v == [view EXCEPT !.loading = FALSE]
  <2>1. /\ DOMAIN v = EditorFields /\ v.text = view.text /\ v.timer = view.timer /\ v.validated = view.validated
        /\ v.mode = view.mode /\ v.detail = view.detail
    BY <1>1 DEF EditorView, EditorFields
  <2>2. CASE c.arg = "create"
    <3>1. view' = Editor!WithText(v, Editor!Template)
      BY <1>4, <2>2 DEF Editor!Answered, Editor!Loaded
    <3> HIDE DEF v
    <3>2. /\ DOMAIN view' = EditorFields
          /\ view'.text = view.text => view'.timer = view.timer /\ view'.validated = view.validated
          /\ view'.text # view.text => view'.timer = (view'.text # Editor!Empty)
          /\ view'.mode = view.mode /\ view'.detail = view.detail
      BY <2>1, <3>1, EditorReads DEF EditorFields
    <3> QED BY <1>1, <3>2 DEF EditorText, EditorRule, EditorSame, EditorView
  <2>3. CASE c.arg = "repair"
    <3> DEFINE w == Editor!WithText(v, c.reply.yaml)
    <3>1. view' = [w EXCEPT !.validated = "invalid"]
      BY <1>4, <2>3 DEF Editor!Answered, Editor!Loaded
    <3> HIDE DEF v
    <3>2. /\ DOMAIN w = EditorFields
          /\ w.text = view.text => w.timer = view.timer
          /\ w.text # view.text => w.timer = (w.text # Editor!Empty)
          /\ w.mode = view.mode /\ w.detail = view.detail
      BY <2>1, EditorReads DEF EditorFields
    <3> HIDE DEF w
    <3>3. view.text = Editor!Empty /\ view.timer = FALSE
      BY <1>1, <1>4, <2>3 DEF EditorInv, EditorRepairs, EditorView
    <3>4. /\ DOMAIN view' = EditorFields /\ view'.text = w.text /\ view'.timer = w.timer
          /\ view'.mode = w.mode /\ view'.detail = w.detail
      BY <3>1, <3>2 DEF EditorFields
    <3> QED BY <1>1, <3>2, <3>3, <3>4 DEF EditorText, EditorRule, EditorView
  <2>4. CASE c.arg = "edit"
    <3> DEFINE u == Editor!WithDetail(v, c.reply)
    <3>1. view' = Editor!WithText(u, c.reply.yaml)
      BY <1>4, <2>4 DEF Editor!Answered, Editor!Loaded
    <3> HIDE DEF v
    <3>2. DOMAIN u = EditorFields /\ u.text = view.text /\ u.timer = view.timer /\ u.validated = view.validated /\ u.mode = view.mode
      BY <2>1, EditorReadsRule DEF EditorFields
    <3> HIDE DEF u
    <3>3. /\ DOMAIN view' = EditorFields
          /\ view'.text = view.text => view'.timer = view.timer /\ view'.validated = view.validated
          /\ view'.text # view.text => view'.timer = (view'.text # Editor!Empty)
          /\ view'.mode = view.mode
      BY <3>1, <3>2, EditorReads DEF EditorFields
    <3>4. view.mode = "edit"
      BY <1>2, <1>4, <2>4 DEF EditorRequest, OfRule
    <3> QED BY <3>3, <3>4 DEF EditorText, EditorRule, EditorSame
  <2> QED BY <1>2, <1>4, <2>2, <2>3, <2>4 DEF EditorRequest
<1> QED BY <1>3, <1>4

\* The other answers leave the text, but for the badge.
LEMMA EditorTells ==
  ASSUME EditorInv, NEW k \in DOMAIN calls,
         \/ Editor!HandleAnswer(k) /\ calls[k].op \notin {"load", "save"}
         \/ Editor!HandleRefusal(k)
  PROVE  EditorText(calls[k]) /\ EditorRule
<1> DEFINE c == calls[k]
<1>1. EditorView /\ DOMAIN view = EditorFields
  BY DEF EditorInv, EditorView
<1>2. EditorRequest(c)
  BY DEF EditorInv, EditorRequests
<1>3. CASE Editor!HandleRefusal(k)
  <2>1. view' = Editor!Refusal(view, c)
    BY <1>3 DEF Editor!HandleRefusal, Editor!Settle
  <2>2. DOMAIN view' = EditorFields /\ EditorSame /\ view'.mode = view.mode /\ view'.detail = view.detail
    BY <1>1, <1>2, <2>1 DEF Editor!Refusal, EditorRequest, EditorOps, EditorFields, EditorSame
  <2> QED BY <1>1, <2>2 DEF EditorText, EditorRule, EditorView
<1>4. CASE Editor!HandleAnswer(k) /\ c.op \notin {"load", "save"}
  <2>1. view' = Editor!Answered(view, c) /\ c.phase = "done"
    BY <1>4 DEF Editor!HandleAnswer, Editor!Settle
  <2>2. CASE c.op = "refresh"
    <3> DEFINE u == Editor!WithDetail(view, c.reply)
    <3>1. view' = [u EXCEPT !.working = @ /\ ~c.arg]
      BY <2>1, <2>2 DEF Editor!Answered, Editor!Refreshed
    <3>2. DOMAIN u = EditorFields /\ u.text = view.text /\ u.timer = view.timer /\ u.validated = view.validated /\ u.mode = view.mode
      BY <1>1, EditorReadsRule DEF EditorFields
    <3> HIDE DEF u
    <3>3. DOMAIN view' = EditorFields /\ EditorSame /\ view'.mode = view.mode
      BY <3>1, <3>2 DEF EditorFields, EditorSame
    <3>4. view.mode = "edit"
      BY <1>2, <2>2 DEF EditorRequest, OfRule
    <3> QED BY <3>3, <3>4 DEF EditorText, EditorRule
  <2>3. CASE c.op = "validate"
    <3>1. view' = [view EXCEPT !.validated = c.reply]
      BY <2>1, <2>3 DEF Editor!Answered
    <3>2. /\ DOMAIN view' = EditorFields /\ view'.text = view.text /\ view'.timer = view.timer /\ view'.validated = c.reply
          /\ view'.mode = view.mode /\ view'.detail = view.detail
      BY <1>1, <3>1 DEF EditorFields
    <3> QED BY <1>1, <2>1, <2>3, <3>2 DEF EditorText, EditorRule, EditorView
  <2>4. CASE c.op \in {"remove", "dryRun", "override", "clear", "reactivate"}
    <3>1. DOMAIN view' = EditorFields /\ EditorSame /\ view'.mode = view.mode /\ view'.detail = view.detail
      BY <1>1, <2>1, <2>4 DEF Editor!Answered, EditorFields, EditorSame
    <3> QED BY <1>1, <3>1 DEF EditorText, EditorRule, EditorView
  <2> QED BY <1>2, <1>4, <2>2, <2>3, <2>4 DEF EditorRequest, EditorOps
<1> QED BY <1>3, <1>4

\* What is asked after an answer is about a rule that has an identifier.
LEMMA EditorAsks ==
  ASSUME EditorInv, NEW k \in DOMAIN calls, Editor!HandleAnswer(k) \/ Editor!HandleRefusal(k)
  PROVE  \/ calls' = Others(k) \o << >>
         \/ \E n : /\ Shaped(n) /\ n.op \in {"load", "refresh"} /\ OfRule(n) /\ view'.mode = "edit"
                   /\ calls' = Others(k) \o <<n>>
<1> DEFINE c == calls[k]
<1>1. EditorRequest(c) /\ EditorFields \subseteq DOMAIN view
  BY DEF EditorInv, EditorRequests, EditorView
<1>2. CASE Editor!HandleRefusal(k)
  BY <1>2 DEF Editor!HandleRefusal, Editor!Settle, Editor!Others, Others
<1>3. CASE Editor!HandleAnswer(k)
  <2>1. calls' = Others(k) \o Editor!Then(view, c) /\ view' = Editor!Answered(view, c)
    BY <1>3 DEF Editor!HandleAnswer, Editor!Settle, Editor!Others, Others
  <2>2. CASE c.op = "save" /\ c.arg.mode # "edit"
    <3>1. calls' = Others(k) \o <<Editor!Request("load", "edit")>>
      BY <2>1, <2>2 DEF Editor!Then
    <3>2. view'.mode = "edit"
      BY <2>1, <2>2, EditorLoads DEF Editor!Answered, Editor!Saved, Editor!WithText, Editor!WithDetail, EditorInv, EditorView, EditorFields
    <3> QED BY <3>1, <3>2, EditorAsk DEF OfRule
  <2>3. CASE c.op \in {"override", "clear", "reactivate"}
    <3>1. view.mode = "edit"
      BY <1>1, <2>3 DEF EditorRequest, OfRule
    <3>2. view'.mode = "edit"
      BY <1>1, <2>1, <2>3, <3>1 DEF Editor!Answered, EditorFields
    <3>3. \E op \in {"load", "refresh"} : \E arg :
            (op = "load" => arg = "edit") /\ calls' = Others(k) \o <<Editor!Request(op, arg)>>
      BY <1>1, <2>1, <2>3, <3>1 DEF Editor!Then, EditorRequest
    <3> QED BY <3>2, <3>3, EditorAsk DEF OfRule
  <2>4. CASE c.op \notin {"override", "clear", "reactivate"} /\ ~(c.op = "save" /\ c.arg.mode # "edit")
    BY <2>1, <2>4 DEF Editor!Then
  <2> QED BY <2>2, <2>3, <2>4
<1> QED BY <1>2, <1>3

\* An answer leaves the badge of the text, for answers come in the order of the requests.
LEMMA EditorAnswered ==
  ASSUME EditorInv, NEW k \in DOMAIN calls, Editor!HandleAnswer(k) \/ Editor!HandleRefusal(k)
  PROVE  EditorInv'
<1> DEFINE c == calls[k]
<1>1. Queue(calls) /\ Counted /\ EditorView /\ EditorRequests /\ EditorRepairs /\ EditorBadge
  BY DEF EditorInv
<1>2. UNCHANGED spent /\ Counted'
  BY <1>1 DEF Editor!HandleAnswer, Editor!HandleRefusal, Editor!Settle, Counted
<1>3. EditorText(c) /\ EditorRule
  BY EditorLoads, EditorTells DEF Editor!HandleAnswer, Editor!Settle
\* What waits: what waited beside the request, and a reading.
<1>4. /\ Queue(calls')
      /\ \A j \in DOMAIN calls : j # k => Moved(k, j) \in DOMAIN calls' /\ calls'[Moved(k, j)] = calls[j]
      /\ \A i \in DOMAIN calls' :
           \/ Came(k, i) \in DOMAIN calls /\ Came(k, i) # k /\ calls'[i] = calls[Came(k, i)]
           \/ calls'[i].op \in {"load", "refresh"} /\ OfRule(calls'[i]) /\ view'.mode = "edit"
      /\ \A i \in DOMAIN calls' : i \in Nat \ {0}
      /\ \A j \in DOMAIN calls : j \in 1..Len(calls) /\ Len(calls) \in Nat
  <2>1. CASE calls' = Others(k) \o << >>
    <3>1. Queue(calls') /\ Len(calls) \in Nat /\ DOMAIN calls = 1..Len(calls) /\ DOMAIN calls' = 1..(Len(calls) - 1)
      BY <1>1, <2>1, OneAnswered
    <3>2. \A j \in DOMAIN calls : j # k => Moved(k, j) \in DOMAIN calls' /\ calls'[Moved(k, j)] = calls[j]
      BY <1>1, <2>1, OneAnswered
    <3>3. \A i \in DOMAIN calls' : Came(k, i) \in DOMAIN calls /\ Came(k, i) # k /\ calls'[i] = calls[Came(k, i)]
      BY <1>1, <2>1, OneAnswered
    <3>4. \A i \in DOMAIN calls' : i \in Nat \ {0}
      <4>1. \A n \in Nat : \A i \in 1..(n - 1) : i \in Nat \ {0}
        OBVIOUS
      <4> QED BY <3>1, <4>1
    <3> QED BY <3>1, <3>2, <3>3, <3>4
  <2>2. CASE \E n : /\ Shaped(n) /\ n.op \in {"load", "refresh"} /\ OfRule(n) /\ view'.mode = "edit"
                    /\ calls' = Others(k) \o <<n>>
    <3> PICK n : /\ Shaped(n) /\ n.op \in {"load", "refresh"} /\ OfRule(n) /\ view'.mode = "edit"
                 /\ calls' = Others(k) \o <<n>>
      BY <2>2
    <3>1. Queue(calls') /\ Len(calls) \in Nat /\ DOMAIN calls = 1..Len(calls) /\ DOMAIN calls' = DOMAIN calls
      BY <1>1, OneAsked
    <3>2. \A j \in DOMAIN calls : j # k => Moved(k, j) \in DOMAIN calls' /\ calls'[Moved(k, j)] = calls[j]
      BY <1>1, OneAsked
    <3>3. \A i \in DOMAIN calls' : i # Len(calls) =>
             Came(k, i) \in DOMAIN calls /\ Came(k, i) # k /\ calls'[i] = calls[Came(k, i)]
      BY <1>1, OneAsked
    <3>4. calls'[Len(calls)] = n
      BY <1>1, OneAsked
    <3>5. \A i \in DOMAIN calls' : i \in Nat \ {0}
      <4>1. \A l \in Nat : \A i \in 1..l : i \in Nat \ {0}
        OBVIOUS
      <4>2. DOMAIN calls' = 1..Len(calls) /\ Len(calls) \in Nat
        BY <3>1
      <4> QED BY <4>1, <4>2
    <3> QED BY <3>1, <3>2, <3>3, <3>4, <3>5
  <2> QED BY <2>1, <2>2, EditorAsks
<1>5. EditorView'
  BY <1>1, <1>3 DEF EditorView, EditorText, EditorRule, EditorSame
<1>6. EditorRequests'
  <2>1. ASSUME NEW i \in DOMAIN calls',
               Came(k, i) \in DOMAIN calls, calls'[i] = calls[Came(k, i)]
        PROVE  EditorRequest(calls[i])'
    <3>1. EditorRequest(calls[Came(k, i)])
      BY <1>1, <2>1 DEF EditorRequests
    <3> QED BY <1>2, <1>3, <2>1, <3>1 DEF EditorRequest, EditorRule
  <2>2. ASSUME NEW i \in DOMAIN calls',
               calls'[i].op \in {"load", "refresh"}, OfRule(calls'[i]), view'.mode = "edit"
        PROVE  EditorRequest(calls[i])'
    BY <2>2 DEF EditorRequest, OfRule, EditorOps
  <2> QED BY <1>4, <2>1, <2>2 DEF EditorRequests
<1>7. EditorRepairs'
  <2> SUFFICES ASSUME NEW i \in DOMAIN calls', calls'[i].op = "load", calls'[i].arg = "repair"
               PROVE  FALSE
    BY DEF EditorRepairs
  <2>1. Came(k, i) \in DOMAIN calls /\ Came(k, i) # k /\ calls'[i] = calls[Came(k, i)]
    BY <1>4 DEF OfRule
  <2>2. Len(calls) = 1
    BY <1>1, <2>1 DEF EditorRepairs
  <2> QED BY <1>4, <2>1, <2>2
<1>8. EditorBadge'
  <2> SUFFICES ASSUME spent.inOrder, spent.faults = 0, view'.text # Editor!Empty, view'.timer = FALSE
               PROVE  \/ \E i \in DOMAIN calls' : /\ calls'[i].op = "validate" /\ calls'[i].arg = view'.text
                                                  /\ \A j \in DOMAIN calls' : j > i => calls'[j].op # "validate"
                      \/ /\ \A i \in DOMAIN calls' : calls'[i].op # "validate"
                         /\ view'.validated = Right(view'.text)
    BY <1>2, <1>5 DEF EditorBadge, EditorView
  <2>1. k = 1
    BY DEF Editor!HandleAnswer, Editor!HandleRefusal, Editor!Settle, Editor!InOrder
  <2>2. /\ view'.text = view.text /\ view'.timer = view.timer
        /\ \/ view'.validated = view.validated
           \/ c.op = "validate" /\ c.phase = "done" /\ view'.validated = c.reply
    BY <1>3 DEF EditorText, EditorSame
  <2>3. \A i \in DOMAIN calls' : calls'[i].op = "validate" =>
          Came(k, i) = i + 1 /\ i + 1 \in DOMAIN calls /\ calls'[i] = calls[i + 1]
    BY <1>4, <2>1 DEF Came
  <2>4. \A j \in DOMAIN calls : j # 1 => j - 1 \in DOMAIN calls' /\ calls'[j - 1] = calls[j]
    <3> TAKE j \in DOMAIN calls
    <3> HAVE j # 1
    <3>1. Moved(k, j) = j - 1
      BY <1>4, <2>1 DEF Moved
    <3> QED BY <1>4, <2>1, <3>1
  <2>5. CASE c.op # "validate" /\ \A j \in DOMAIN calls : calls[j].op # "validate"
    <3>1. view.validated = Right(view.text)
      BY <1>1, <2>2, <2>5 DEF EditorBadge
    <3>2. \A i \in DOMAIN calls' : calls'[i].op # "validate"
      BY <2>3, <2>5
    <3> QED BY <2>2, <2>5, <3>1, <3>2
  <2>6. CASE \E j \in DOMAIN calls : calls[j].op = "validate"
    <3>1. PICK l \in DOMAIN calls : /\ calls[l].op = "validate" /\ calls[l].arg = view.text
                                    /\ \A j \in DOMAIN calls : j > l => calls[j].op # "validate"
      BY <1>1, <2>2, <2>6 DEF EditorBadge
    <3>2. CASE l = 1
      <4>1. c.phase = "done"
        BY <2>1, <3>1, <3>2 DEF Editor!HandleAnswer, Editor!HandleRefusal, Editor!Settle, EditorInv, EditorRequests, EditorRequest
      <4>2. view'.validated = Right(view'.text)
        <5>1. c.reply = Right(c.arg)
          BY <1>1, <2>1, <3>1, <3>2, <4>1 DEF EditorRequests, EditorRequest
        <5>2. view' = Editor!Answered(view, c)
          <6>1. ~Editor!HandleRefusal(k)
            BY <4>1 DEF Editor!HandleRefusal, Editor!Settle
          <6> QED BY <6>1 DEF Editor!HandleAnswer, Editor!Settle
        <5>3. view' = [view EXCEPT !.validated = c.reply]
          BY <2>1, <3>1, <3>2, <5>2 DEF Editor!Answered
        <5>4. view'.validated = c.reply
          BY <1>1, <5>3 DEF EditorView, EditorFields
        <5> QED BY <2>1, <2>2, <3>1, <3>2, <5>1, <5>4
      <4>3. \A i \in DOMAIN calls' : calls'[i].op # "validate"
        <5> SUFFICES ASSUME NEW i \in DOMAIN calls', calls'[i].op = "validate" PROVE FALSE
          OBVIOUS
        <5>1. i + 1 > l
          BY <1>4, <3>2
        <5> QED BY <2>3, <3>1, <5>1
      <4> QED BY <4>2, <4>3
    <3>3. CASE l # 1
      <4>1. l - 1 \in DOMAIN calls' /\ calls'[l - 1] = calls[l]
        BY <2>4, <3>3
      <4>2. ASSUME NEW i \in DOMAIN calls', i > l - 1 PROVE calls'[i].op # "validate"
        <5>1. i + 1 > l
          BY <1>4, <4>2
        <5> QED BY <2>3, <3>1, <5>1
      <4> QED BY <2>2, <3>1, <4>1, <4>2
    <3> QED BY <3>2, <3>3
  <2> QED BY <2>5, <2>6
<1> QED BY <1>2, <1>4, <1>5, <1>6, <1>7, <1>8 DEF EditorInv

\* Each step of the page keeps what its property rests on.
LEMMA EditorStep == EditorInv /\ Editor!Next => EditorInv'
BY EditorTyped, EditorTimed, EditorGestures, EditorServed, EditorAnswered DEF Editor!Next

\* Once nothing is under way, the badge is of the text.
LEMMA EditorHold == EditorInv => Editor!BadgeIsOfTheText
<1> SUFFICES ASSUME EditorInv, Editor!InOrder, Editor!Quiet, Editor!Shown, spent.faults = 0, view.text # Editor!Empty
             PROVE  view.validated = (IF Editor!Compiles(view.text) THEN "valid" ELSE "invalid")
  BY DEF Editor!BadgeIsOfTheText
<1>1. calls = << >> /\ ~view.timer
  BY DEF Editor!Quiet
<1>2. DOMAIN calls = {}
  BY <1>1
<1> QED BY <1>1, <1>2 DEF EditorInv, EditorBadge, Editor!InOrder, Right

-----------------------------------------------------------------------------
(* The editor: a gesture of the card changes its own half of the override. *)

\* A request that reads the rule with its overrides, once it is served.
Reading(c) == c.op \in {"refresh", "save"} \/ (c.op = "load" /\ c.arg = "edit")
\* A request that brings a text, other than that of the template.
Brings(c) == c.op = "save" \/ (c.op = "load" /\ c.arg # "create")
Harmless == {"validate", "remove", "dryRun"}
TwoHalves(o) == \A x \in DOMAIN o : DOMAIN o[x] = {"enabled", "value"}

CardRequest(c) ==
  /\ c.op = "override" => DOMAIN c.arg.override = {"enabled", "value"}
  /\ c.op = "save" => c.arg.text # Editor!None
  /\ c.op = "load" /\ c.arg = "repair" => server.yaml # Editor!None
  /\ Reading(c) /\ c.phase = "done" => TwoHalves(c.reply.overrides)
  /\ Brings(c) /\ c.phase = "done" => c.reply.yaml # Editor!None
  /\ c.op \in {"override", "clear", "remove"} /\ spent.faults = 0 => c.phase # "refused"
CardRequests == \A k \in DOMAIN calls : CardRequest(calls[k])

CardShape ==
  /\ {"yaml", "overrides"} \subseteq DOMAIN server
  /\ TwoHalves(server.overrides) /\ TwoHalves(view.detail.overrides)
  /\ view.text # Editor!None

\* Requests that are served in order: those that are served come first.
CardOrder ==
  spent.inOrder =>
    \A j, k \in DOMAIN calls : j < k /\ calls[k].phase = "done" => calls[j].phase # "sent"

\* The page saves or deletes one thing at a time, and is busy meanwhile.
CardBusy ==
  \A k \in DOMAIN calls : calls[k].op \in {"save", "remove"} =>
    view.busy /\ \A j \in DOMAIN calls : calls[j].op \in {"save", "remove"} => j = k

\* The rule of the page exists, unless the page deleted it.
CardSaved == \A k \in DOMAIN calls : calls[k].op = "save" /\ calls[k].phase = "done" => server.yaml # Editor!None
CardGone ==
  spent.faults = 0 /\ ~view.left /\ view.mode = "edit" /\ server.yaml = Editor!None =>
    \E k \in DOMAIN calls : calls[k].op = "remove" /\ calls[k].phase = "done"

\* The overrides of the card will be read again, are on their way, or are those of the server.
CardFresh ==
  spent.inOrder /\ spent.faults = 0 /\ ~view.left =>
    \/ \E k \in DOMAIN calls : calls[k].op \in {"override", "clear"}
    \/ \E k \in DOMAIN calls : /\ Reading(calls[k]) /\ calls[k].op # "save"
                               /\ \/ calls[k].phase = "sent"
                                  \/ \E j \in DOMAIN calls : j < k /\ calls[j].op = "remove"
    \/ \E k \in DOMAIN calls : /\ Reading(calls[k]) /\ calls[k].phase = "done"
                               /\ calls[k].reply.overrides = server.overrides
                               /\ \A j \in DOMAIN calls : Reading(calls[j]) /\ calls[j].phase = "done" => j <= k
    \/ /\ \A k \in DOMAIN calls : ~(Reading(calls[k]) /\ calls[k].phase = "done")
       /\ view.detail # Editor!NoDetail => view.detail.overrides = server.overrides

\* A gesture that was made on a page up to date changes one half, and nothing comes before it.
Half(c) ==
  \/ c.arg.override.enabled = Editor!Override(server, c.arg.scope).enabled
  \/ c.arg.override.value = Editor!Override(server, c.arg.scope).value
Pending(c) == c.op = "override" /\ c.phase = "sent" /\ c.arg.calm
CardHalves ==
  spent.inOrder =>
    \A k \in DOMAIN calls : Pending(calls[k]) =>
      Half(calls[k]) /\ \A j \in DOMAIN calls : j < k => calls[j].op \in Harmless

CardInv ==
  CardRequests /\ CardShape /\ CardOrder /\ CardBusy /\ CardSaved /\ CardGone /\ CardFresh /\ CardHalves

\* The page opens with nothing of its own on its way.
LEMMA CardInit == Editor!Init => CardInv
<1> SUFFICES ASSUME Editor!Init PROVE CardInv
  OBVIOUS
<1>1. PICK mode \in {"edit", "create", "repair"} :
        /\ view.mode = mode /\ view.detail = Editor!NoDetail /\ view.text = Editor!Empty
        /\ calls = <<Editor!Request("load", mode)>>
        /\ {"yaml", "overrides"} \subseteq DOMAIN server
        /\ mode # "create" => server.yaml # Editor!None
        /\ TwoHalves(server.overrides)
  <2>1. PICK mode \in {"edit", "create", "repair"}, tuned \in BOOLEAN :
          /\ server = [yaml |-> CASE mode = "edit" -> "stored" [] mode = "create" -> Editor!None [] mode = "repair" -> Editor!Faulty,
                       overrides |-> [x \in IF tuned THEN {"i1"} ELSE {} |-> [enabled |-> Editor!None, value |-> Editor!Value]],
                       tripped |-> FALSE, event |-> Editor!None]
          /\ view = [mode |-> mode, loading |-> TRUE, text |-> Editor!Empty, detail |-> Editor!NoDetail, validated |-> Editor!None,
                     timer |-> FALSE, busy |-> FALSE, running |-> FALSE, ran |-> Editor!None, left |-> FALSE,
                     target |-> "all", form |-> Editor!None, working |-> FALSE]
          /\ calls = <<Editor!Request("load", mode)>>
    BY DEF Editor!Init
  <2>2. {"yaml", "overrides"} \subseteq DOMAIN server /\ (mode # "create" => server.yaml # Editor!None)
    BY <2>1 DEF Editor!None, Editor!Faulty
  <2>3. TwoHalves(server.overrides)
    BY <2>1 DEF TwoHalves
  <2> QED BY <2>1, <2>2, <2>3
<1>2. DOMAIN calls = {1} /\ calls[1].op = "load" /\ calls[1].arg = mode /\ calls[1].phase = "sent"
  <2>1. PICK c : Shaped(c) /\ c.op = "load" /\ c.arg = mode /\ c.phase = "sent" /\ calls = <<c>>
    BY <1>1, EditorAsk
  <2> QED BY <2>1, Asked
<1>3. CardRequests
  BY <1>1, <1>2 DEF CardRequests, CardRequest
<1>4. CardShape
  <2>1. DOMAIN view.detail.overrides = {}
    BY <1>1 DEF Editor!NoDetail
  <2>2. view.text # Editor!None
    BY <1>1 DEF Editor!Empty, Editor!None
  <2> QED BY <1>1, <2>1, <2>2 DEF CardShape, TwoHalves
<1>5. CardOrder /\ CardBusy /\ CardSaved
  BY <1>2 DEF CardOrder, CardBusy, CardSaved
<1>6. CardGone
  BY <1>1 DEF CardGone
<1>7. CardFresh
  BY <1>1, <1>2 DEF CardFresh, Reading
<1>8. CardHalves
  BY <1>2 DEF CardHalves, Pending
<1> QED BY <1>3, <1>4, <1>5, <1>6, <1>7, <1>8 DEF CardInv

\* Beside the card: nothing changes of what the server and the page hold of the rule.
CardKept ==
  /\ {"yaml", "overrides"} \subseteq DOMAIN server'
  /\ server'.yaml = server.yaml /\ server'.overrides = server.overrides
  /\ view'.detail = view.detail /\ view'.mode = view.mode /\ view'.left = view.left
  /\ view'.text # Editor!None
  /\ spent'.inOrder = spent.inOrder /\ spent'.faults = spent.faults

\* What is asked: the page is busy with one thing, and changes one half of what it has read.
CardAsks(n) ==
  /\ Shaped(n) /\ n.phase = "sent" /\ CardRequest(n)
  /\ calls' = calls \o <<n>> \/ calls' = Append(calls, n)
  /\ n.op \in {"save", "remove"} => ~view.busy /\ view'.busy
  /\ view.busy => view'.busy
  /\ spent.inOrder /\ Pending(n) => Half(n) /\ \A j \in DOMAIN calls : calls[j].op \in Harmless

\* Nothing is asked, and the card stays as it is.
LEMMA CardStays ==
  ASSUME CardInv, CardKept, calls' = calls, view'.busy = view.busy
  PROVE  CardInv'
<1>1. CardRequests /\ CardShape /\ CardOrder /\ CardBusy /\ CardSaved /\ CardGone /\ CardFresh /\ CardHalves
  BY DEF CardInv
<1>2. CardRequests'
  BY <1>1 DEF CardKept, CardRequests, CardRequest
<1>3. CardShape'
  BY <1>1 DEF CardKept, CardShape
<1>4. CardOrder' /\ CardBusy' /\ CardSaved' /\ CardGone'
  BY <1>1 DEF CardKept, CardOrder, CardBusy, CardSaved, CardGone
<1>5. CardFresh'
  BY <1>1 DEF CardKept, CardFresh
<1>6. CardHalves'
  BY <1>1 DEF CardKept, CardHalves, Half, Editor!Override
<1> QED BY <1>2, <1>3, <1>4, <1>5, <1>6 DEF CardInv

\* Something is asked.
LEMMA CardAsked ==
  ASSUME CardInv, Queue(calls), CardKept, NEW n, CardAsks(n)
  PROVE  CardInv'
<1>1. CardRequests /\ CardShape /\ CardOrder /\ CardBusy /\ CardSaved /\ CardGone /\ CardFresh /\ CardHalves
  BY DEF CardInv
<1>2. n.phase = "sent" /\ CardRequest(n)
  BY DEF CardAsks
<1>3. \A j \in DOMAIN calls : j \in DOMAIN calls' /\ calls'[j] = calls[j]
  BY OneSent DEF CardAsks
<1>4. \A i \in DOMAIN calls' : \/ i \in DOMAIN calls /\ calls'[i] = calls[i]
                               \/ i = Len(calls) + 1 /\ i \notin DOMAIN calls /\ calls'[i] = n
  BY OneSent DEF CardAsks
<1>5. \A j \in DOMAIN calls : j < Len(calls) + 1 /\ ~(Len(calls) + 1 < j)
  BY QueueNumbers
<1>6. ~(Len(calls) + 1 < Len(calls) + 1)
  BY QueueNumbers
<1>7. CardRequests'
  BY <1>1, <1>2, <1>4 DEF CardKept, CardRequests, CardRequest
<1>8. CardShape'
  BY <1>1 DEF CardKept, CardShape
<1>9. CardOrder'
  <2> SUFFICES ASSUME spent.inOrder, NEW i \in DOMAIN calls', NEW j \in DOMAIN calls', i < j, calls'[j].phase = "done"
               PROVE  calls'[i].phase # "sent"
    BY DEF CardOrder, CardKept
  <2>1. j \in DOMAIN calls /\ calls'[j] = calls[j]
    BY <1>2, <1>4
  <2>2. i \in DOMAIN calls /\ calls'[i] = calls[i]
    BY <1>4, <1>5, <2>1
  <2> QED BY <1>1, <2>1, <2>2 DEF CardOrder
<1>10. CardBusy'
  <2> SUFFICES ASSUME NEW i \in DOMAIN calls', calls'[i].op \in {"save", "remove"}
               PROVE  view'.busy /\ \A j \in DOMAIN calls' : calls'[j].op \in {"save", "remove"} => j = i
    BY DEF CardBusy
  <2>1. CASE i \in DOMAIN calls /\ calls'[i] = calls[i]
    <3>1. view.busy /\ \A j \in DOMAIN calls : calls[j].op \in {"save", "remove"} => j = i
      BY <1>1, <2>1 DEF CardBusy
    <3>2. n.op \notin {"save", "remove"} /\ view'.busy
      BY <3>1 DEF CardAsks
    <3> QED BY <1>4, <3>1, <3>2
  <2>2. CASE i = Len(calls) + 1 /\ calls'[i] = n
    <3>1. ~view.busy /\ view'.busy
      BY <2>2 DEF CardAsks
    <3>2. \A j \in DOMAIN calls : calls[j].op \notin {"save", "remove"}
      BY <1>1, <3>1 DEF CardBusy
    <3> QED BY <1>4, <2>2, <3>1, <3>2
  <2> QED BY <1>4, <2>1, <2>2
<1>11. CardSaved'
  BY <1>1, <1>2, <1>4 DEF CardSaved, CardKept
<1>12. CardGone'
  BY <1>1, <1>3 DEF CardGone, CardKept
<1>13. CardFresh'
  <2> SUFFICES ASSUME spent.inOrder, spent.faults = 0, ~view.left PROVE CardFresh'
    BY DEF CardFresh, CardKept
  <2>1. CASE \E k \in DOMAIN calls : calls[k].op \in {"override", "clear"}
    BY <1>3, <2>1 DEF CardFresh
  <2>2. CASE \E k \in DOMAIN calls : /\ Reading(calls[k]) /\ calls[k].op # "save"
                                     /\ \/ calls[k].phase = "sent"
                                        \/ \E j \in DOMAIN calls : j < k /\ calls[j].op = "remove"
    BY <1>3, <2>2 DEF CardFresh
  <2>3. CASE \E k \in DOMAIN calls : /\ Reading(calls[k]) /\ calls[k].phase = "done"
                                     /\ calls[k].reply.overrides = server.overrides
                                     /\ \A j \in DOMAIN calls : Reading(calls[j]) /\ calls[j].phase = "done" => j <= k
    BY <1>2, <1>3, <1>4, <2>3 DEF CardFresh, CardKept
  <2>4. CASE /\ \A k \in DOMAIN calls : ~(Reading(calls[k]) /\ calls[k].phase = "done")
             /\ view.detail # Editor!NoDetail => view.detail.overrides = server.overrides
    BY <1>2, <1>4, <2>4 DEF CardFresh, CardKept
  <2> QED BY <1>1, <2>1, <2>2, <2>3, <2>4 DEF CardFresh
<1>14. CardHalves'
  <2> SUFFICES ASSUME spent.inOrder, NEW i \in DOMAIN calls', Pending(calls'[i])
               PROVE  Half(calls[i])' /\ \A j \in DOMAIN calls' : j < i => calls'[j].op \in Harmless
    BY DEF CardHalves, CardKept, Half, Pending
  <2>1. CASE i \in DOMAIN calls /\ calls'[i] = calls[i]
    <3>1. Half(calls[i]) /\ \A j \in DOMAIN calls : j < i => calls[j].op \in Harmless
      BY <1>1, <2>1 DEF CardHalves
    <3>2. Half(calls[i])'
      BY <2>1, <3>1 DEF Half, Editor!Override, CardKept
    <3> QED BY <1>4, <1>5, <2>1, <3>1, <3>2
  <2>2. CASE i = Len(calls) + 1 /\ calls'[i] = n
    <3>1. Half(n) /\ \A j \in DOMAIN calls : calls[j].op \in Harmless
      BY <2>2 DEF CardAsks
    <3>2. Half(calls[i])'
      BY <2>2, <3>1 DEF Half, Editor!Override, CardKept
    <3> QED BY <1>4, <1>6, <2>2, <3>1, <3>2
  <2> QED BY <1>4, <2>1, <2>2
<1> QED BY <1>7, <1>8, <1>9, <1>10, <1>11, <1>12, <1>13, <1>14 DEF CardInv

\* With nothing on its way that touches the overrides, the card shows those of the server.
LEMMA CardCalm ==
  ASSUME EditorInv, CardInv, spent.inOrder, Editor!Card, Editor!Calm
  PROVE  /\ view.detail.overrides = server.overrides
         /\ \A j \in DOMAIN calls : calls[j].op \in Harmless
<1>1. \A j \in DOMAIN calls : calls[j].op \in EditorOps
  BY DEF EditorInv, EditorRequests, EditorRequest
<1>2. spent.faults = 0 /\ \A j \in DOMAIN calls : calls[j].op \notin {"load", "refresh", "save", "override", "clear", "reactivate"}
  BY DEF Editor!Calm, Editor!Waiting
<1>3. \A j \in DOMAIN calls : calls[j].op \in Harmless /\ ~Reading(calls[j])
  BY <1>1, <1>2 DEF EditorOps, Harmless, Reading
<1>4. CardFresh /\ ~view.left /\ view.detail # Editor!NoDetail
  BY DEF CardInv, Editor!Card, Editor!Shown
<1>5. \/ \E j \in DOMAIN calls : calls[j].op \in {"override", "clear"}
      \/ \E j \in DOMAIN calls : Reading(calls[j])
      \/ view.detail.overrides = server.overrides
  BY <1>2, <1>4 DEF CardFresh
<1> QED BY <1>2, <1>3, <1>5

\* The page is typed in, the rest stays.
LEMMA CardTyped ==
  ASSUME EditorInv, CardInv, NEW text \in Editor!Typable, Editor!Type(text)
  PROVE  CardInv'
<1>1. Counted /\ DOMAIN view = EditorFields /\ CardShape
  BY DEF EditorInv, EditorView, CardInv
<1>2. Spends
  BY <1>1, Spent DEF Editor!Type
<1>3. /\ view'.text = text /\ view'.busy = view.busy
      /\ view'.detail = view.detail /\ view'.mode = view.mode /\ view'.left = view.left
  BY <1>1 DEF Editor!Type, Editor!WithText, EditorFields
<1>4. text # Editor!None
  BY DEF Editor!Typable, Editor!Faulty, Editor!Empty, Editor!None
<1>5. CardKept /\ calls' = calls
  BY <1>1, <1>2, <1>3, <1>4 DEF CardKept, CardShape, Spends, Editor!Type
<1> QED BY <1>3, <1>5, CardStays

\* The timer sends a validation, which touches nothing.
LEMMA CardTimed ==
  ASSUME EditorInv, CardInv, Editor!TimerFires
  PROVE  CardInv'
<1>1. Counted /\ DOMAIN view = EditorFields /\ CardShape /\ Queue(calls)
  BY DEF EditorInv, EditorView, CardInv
<1>2. Spends
  BY <1>1, Spent DEF Editor!TimerFires
<1>3. /\ view'.text = view.text /\ view'.busy = view.busy
      /\ view'.detail = view.detail /\ view'.mode = view.mode /\ view'.left = view.left
  BY <1>1 DEF Editor!TimerFires, EditorFields
<1>4. CardKept
  BY <1>1, <1>2, <1>3 DEF CardKept, CardShape, Spends, Editor!TimerFires
<1> DEFINE n == Editor!Request("validate", view.text)
<1>5. Shaped(n) /\ n.op = "validate" /\ n.phase = "sent" /\ calls' = Append(calls, n)
  BY EditorAsk DEF Editor!TimerFires
<1> HIDE DEF n
<1>6. CardAsks(n)
  BY <1>3, <1>5 DEF CardAsks, CardRequest, Reading, Brings, Pending
<1> QED BY <1>1, <1>4, <1>6, CardAsked

\* The overrides that are sent are made of those the card shows, where one half changes.
LEMMA CardStores ==
  ASSUME EditorInv, CardInv, Editor!Card, NEW scope, NEW override, NEW then,
         \/ \E x : override = [Editor!Existing(view, scope) EXCEPT !.enabled = x]
         \/ \E x : override = [Editor!Existing(view, scope) EXCEPT !.value = x],
         CardKept, view'.busy = view.busy,
         NEW n, n = Editor!Store(scope, override, then), calls' = calls \o <<n>> \/ calls' = Append(calls, n)
  PROVE  CardInv'
<1>1. CardShape /\ Queue(calls)
  BY DEF EditorInv, CardInv
<1>2. /\ Shaped(n) /\ n.op = "override" /\ n.phase = "sent"
      /\ n.arg = [scope |-> scope, override |-> override, then |-> then, calm |-> Editor!Calm]
  BY EditorAsk DEF Editor!Store
<1>3. n.arg.scope = scope /\ n.arg.override = override /\ n.arg.calm = Editor!Calm
  BY <1>2
<1>4. PICK e : e = Editor!Existing(view, scope)
  OBVIOUS
<1>5. DOMAIN e = {"enabled", "value"}
  BY <1>1, <1>4 DEF CardShape, TwoHalves, Editor!Existing, Editor!Override, Editor!NoOverride
<1>6. DOMAIN override = {"enabled", "value"} /\ (override.enabled = e.enabled \/ override.value = e.value)
  BY <1>4, <1>5
<1>7. CardRequest(n)
  BY <1>2, <1>3, <1>6 DEF CardRequest, Reading, Brings
<1>8. spent.inOrder /\ Pending(n) => Half(n) /\ \A j \in DOMAIN calls : calls[j].op \in Harmless
  <2> SUFFICES ASSUME spent.inOrder, Editor!Calm
               PROVE  Half(n) /\ \A j \in DOMAIN calls : calls[j].op \in Harmless
    BY <1>3 DEF Pending
  <2>1. view.detail.overrides = server.overrides /\ \A j \in DOMAIN calls : calls[j].op \in Harmless
    BY CardCalm
  <2>2. e = Editor!Override(server, scope)
    BY <1>4, <2>1 DEF Editor!Existing, Editor!Override
  <2> QED BY <1>3, <1>6, <2>1, <2>2 DEF Half
<1>9. CardAsks(n)
  BY <1>2, <1>7, <1>8 DEF CardAsks
<1> QED BY <1>1, <1>9, CardAsked

\* The gestures of the page.
LEMMA CardGestures ==
  ASSUME EditorInv, CardInv,
         \/ Editor!Save \/ Editor!DeleteRule \/ Editor!RunDry
         \/ \E scope \in Editor!Scopes : Editor!Select(scope)
         \/ \E value \in {Editor!None, Editor!Value} : Editor!TypeVariable(value)
         \/ Editor!SaveVariables \/ Editor!ClearVariables \/ Editor!Reactivate
         \/ \E applied \in BOOLEAN : Editor!SetApplied(applied)
         \/ Editor!Trip \/ Editor!EventArrives \/ Editor!EventLost
  PROVE  CardInv'
<1>1. Counted /\ DOMAIN view = EditorFields /\ CardShape /\ Queue(calls)
  BY DEF EditorInv, EditorView, CardInv
<1>2. Spends
  <2>1. \/ UNCHANGED spent \/ spent' = [spent EXCEPT !.moves = @ + 1]
        \/ spent' = [spent EXCEPT !.moves = @ + 1, !.written = TRUE]
        \/ spent' = [spent EXCEPT !.moves = @ + 1, !.reloads = @ + 1]
    BY DEF Editor!Save, Editor!DeleteRule, Editor!RunDry, Editor!Select, Editor!TypeVariable, Editor!SaveVariables,
           Editor!ClearVariables, Editor!Reactivate, Editor!SetApplied, Editor!Trip, Editor!EventArrives, Editor!EventLost,
           Editor!Gesture, Editor!Spend
  <2> QED BY <1>1, <2>1, Spent
<1>3. /\ {"yaml", "overrides"} \subseteq DOMAIN server'
      /\ server'.yaml = server.yaml /\ server'.overrides = server.overrides
  <2>1. CASE server' = server
    BY <1>1, <2>1 DEF CardShape
  <2>2. CASE Editor!Trip
    BY <1>1, <2>2 DEF CardShape, Editor!Trip
  <2>3. CASE Editor!EventArrives \/ Editor!EventLost
    BY <1>1, <2>3 DEF CardShape, Editor!EventArrives, Editor!EventLost
  <2> QED BY <2>1, <2>2, <2>3
       DEF Editor!Save, Editor!DeleteRule, Editor!RunDry, Editor!Select, Editor!TypeVariable, Editor!SaveVariables,
           Editor!ClearVariables, Editor!Reactivate, Editor!SetApplied, Editor!Gesture
<1>4. ASSUME \/ view' = view
             \/ view' = [view EXCEPT !.running = TRUE]
             \/ view' = [view EXCEPT !.working = TRUE]
             \/ \E f : view' = [view EXCEPT !.form = f]
             \/ \E s, f : view' = [view EXCEPT !.target = s, !.form = f]
      PROVE  CardKept /\ view'.busy = view.busy
  <2>1. /\ view'.detail = view.detail /\ view'.mode = view.mode /\ view'.left = view.left
        /\ view'.text = view.text /\ view'.busy = view.busy
    BY <1>1, <1>4 DEF EditorFields
  <2> QED BY <1>1, <1>2, <1>3, <2>1 DEF CardKept, CardShape, Spends
<1>5. ASSUME view' = [view EXCEPT !.busy = TRUE]
      PROVE  CardKept /\ view'.busy = TRUE
  <2>1. /\ view'.detail = view.detail /\ view'.mode = view.mode /\ view'.left = view.left
        /\ view'.text = view.text /\ view'.busy = TRUE
    BY <1>1, <1>5 DEF EditorFields
  <2> QED BY <1>1, <1>2, <1>3, <2>1 DEF CardKept, CardShape, Spends
<1>6. CASE Editor!Save
  <2> DEFINE n == Editor!Request("save", [text |-> view.text, mode |-> view.mode])
  <2>1. Shaped(n) /\ n.op = "save" /\ n.arg.text = view.text /\ n.phase = "sent"
    BY EditorAsk
  <2>2. calls' = Append(calls, n) /\ ~view.busy /\ view' = [view EXCEPT !.busy = TRUE]
    BY <1>6 DEF Editor!Save
  <2> HIDE DEF n
  <2>3. CardRequest(n)
    BY <1>1, <2>1 DEF CardRequest, CardShape, Reading, Brings
  <2>4. CardKept /\ CardAsks(n)
    BY <1>5, <2>1, <2>2, <2>3 DEF CardAsks, Pending
  <2> QED BY <1>1, <2>4, CardAsked
<1>7. CASE Editor!DeleteRule
  <2> DEFINE n == Editor!Request("remove", Editor!None)
  <2>1. Shaped(n) /\ n.op = "remove" /\ n.phase = "sent"
    BY EditorAsk
  <2>2. calls' = calls \o <<n>> /\ ~view.busy /\ view' = [view EXCEPT !.busy = TRUE]
    BY <1>7 DEF Editor!DeleteRule, Editor!Gesture
  <2> HIDE DEF n
  <2>3. CardRequest(n)
    BY <2>1 DEF CardRequest, Reading, Brings
  <2>4. CardKept /\ CardAsks(n)
    BY <1>5, <2>1, <2>2, <2>3 DEF CardAsks, Pending
  <2> QED BY <1>1, <2>4, CardAsked
<1>8. CASE Editor!RunDry
  <2> DEFINE n == Editor!Request("dryRun", view.text)
  <2>1. Shaped(n) /\ n.op = "dryRun" /\ n.phase = "sent"
    BY EditorAsk
  <2>2. calls' = calls \o <<n>> /\ view' = [view EXCEPT !.running = TRUE]
    BY <1>8 DEF Editor!RunDry, Editor!Gesture
  <2> HIDE DEF n
  <2>3. CardRequest(n)
    BY <2>1 DEF CardRequest, Reading, Brings
  <2>4. CardKept /\ CardAsks(n)
    BY <1>4, <2>1, <2>2, <2>3 DEF CardAsks, Pending
  <2> QED BY <1>1, <2>4, CardAsked
<1>9. CASE \/ \E scope \in Editor!Scopes : Editor!Select(scope)
           \/ \E value \in {Editor!None, Editor!Value} : Editor!TypeVariable(value)
  <2>1. ASSUME NEW scope, Editor!Select(scope) PROVE \E s, f : view' = [view EXCEPT !.target = s, !.form = f]
    BY <2>1 DEF Editor!Select, Editor!Gesture, Editor!WithTarget
  <2>2. ASSUME NEW value, Editor!TypeVariable(value) PROVE \E f : view' = [view EXCEPT !.form = f]
    BY <2>2 DEF Editor!TypeVariable, Editor!Gesture
  <2>3. calls' = calls
    BY <1>1, <1>9, NothingSent DEF Editor!Select, Editor!TypeVariable, Editor!Gesture
  <2>4. CardKept /\ view'.busy = view.busy
    BY <1>4, <1>9, <2>1, <2>2
  <2> QED BY <2>3, <2>4, CardStays
<1>10. CASE Editor!SaveVariables
  <2>1. CardKept /\ view'.busy = view.busy /\ Editor!Card
    BY <1>4, <1>10 DEF Editor!SaveVariables, Editor!Gesture
  <2>2. PICK o : o = [Editor!Existing(view, view.target) EXCEPT !.value = view.form]
    OBVIOUS
  <2>3. calls' = calls \o <<Editor!Store(view.target, o, "refresh")>>
    BY <1>10, <2>2 DEF Editor!SaveVariables, Editor!Gesture
  <2> QED BY <2>1, <2>2, <2>3, CardStores
<1>11. CASE \E applied \in BOOLEAN : Editor!SetApplied(applied)
  <2>1. PICK applied \in BOOLEAN : Editor!SetApplied(applied)
    BY <1>11
  <2>2. CardKept /\ view'.busy = view.busy /\ Editor!Card
    BY <1>4, <2>1 DEF Editor!SetApplied
  <2>3. PICK x, o : /\ o = [Editor!Existing(view, "i1") EXCEPT !.enabled = x]
                    /\ calls' = Append(calls, Editor!Store("i1", o, "load"))
    BY <2>1 DEF Editor!SetApplied
  <2> QED BY <2>2, <2>3, CardStores
<1>12. CASE Editor!ClearVariables
  <2> DEFINE n == Editor!Request("clear", view.target)
  <2>1. Shaped(n) /\ n.op = "clear" /\ n.phase = "sent"
    BY EditorAsk
  <2>2. calls' = calls \o <<n>> /\ view' = [view EXCEPT !.working = TRUE]
    BY <1>12 DEF Editor!ClearVariables, Editor!Gesture
  <2> HIDE DEF n
  <2>3. CardRequest(n)
    BY <2>1 DEF CardRequest, Reading, Brings
  <2>4. CardKept /\ CardAsks(n)
    BY <1>4, <2>1, <2>2, <2>3 DEF CardAsks, Pending
  <2> QED BY <1>1, <2>4, CardAsked
<1>13. CASE Editor!Reactivate
  <2> DEFINE n == Editor!Request("reactivate", Editor!None)
  <2>1. Shaped(n) /\ n.op = "reactivate" /\ n.phase = "sent"
    BY EditorAsk
  <2>2. calls' = calls \o <<n>> /\ view' = [view EXCEPT !.working = TRUE]
    BY <1>13 DEF Editor!Reactivate, Editor!Gesture
  <2> HIDE DEF n
  <2>3. CardRequest(n)
    BY <2>1 DEF CardRequest, Reading, Brings
  <2>4. CardKept /\ CardAsks(n)
    BY <1>4, <2>1, <2>2, <2>3 DEF CardAsks, Pending
  <2> QED BY <1>1, <2>4, CardAsked
<1>14. CASE Editor!Trip \/ Editor!EventLost
  <2>1. CardKept /\ view'.busy = view.busy /\ calls' = calls
    BY <1>4, <1>14 DEF Editor!Trip, Editor!EventLost
  <2> QED BY <2>1, CardStays
<1>15. CASE Editor!EventArrives
  <2>1. CardKept /\ view'.busy = view.busy
    BY <1>4, <1>15 DEF Editor!EventArrives
  <2> DEFINE n == Editor!Request("refresh", FALSE)
  <2>2. calls' = calls \/ calls' = Append(calls, n)
    BY <1>15 DEF Editor!EventArrives
  <2>3. Shaped(n) /\ n.op = "refresh" /\ n.phase = "sent"
    BY EditorAsk
  <2> HIDE DEF n
  <2>4. CardRequest(n)
    BY <2>3 DEF CardRequest, Reading, Brings
  <2>5. calls' # calls => CardAsks(n)
    BY <2>1, <2>2, <2>3, <2>4 DEF CardAsks, Pending
  <2> QED BY <1>1, <2>1, <2>5, CardStays, CardAsked
<1> QED BY <1>6, <1>7, <1>8, <1>9, <1>10, <1>11, <1>12, <1>13, <1>14, <1>15

\* What a request does of the rule, once it is served.
LEMMA CardEffect ==
  ASSUME CardShape, NEW c, CardRequest(c), NEW s, s = Editor!Effect(server, c)
  PROVE  /\ {"yaml", "overrides"} \subseteq DOMAIN s
         /\ TwoHalves(s.overrides)
         /\ c.op \notin {"override", "clear"} => s.overrides = server.overrides
         /\ c.op = "save" => s.yaml # Editor!None
         /\ c.op \notin {"save", "remove"} => s.yaml = server.yaml
<1>1. {"yaml", "overrides"} \subseteq DOMAIN server /\ TwoHalves(server.overrides)
  BY DEF CardShape
<1>2. CASE c.op = "save"
  <2>1. \E e : s = [[server EXCEPT !.event = e] EXCEPT !.yaml = c.arg.text]
    BY <1>2 DEF Editor!Effect, Editor!CaughtUp
  <2> QED BY <1>1, <1>2, <2>1 DEF CardRequest
<1>3. CASE c.op = "remove"
  <2>1. s = [server EXCEPT !.yaml = Editor!None]
    BY <1>3 DEF Editor!Effect
  <2> QED BY <1>1, <1>3, <2>1
<1>4. CASE c.op = "override"
  <2> DEFINE o == [x \in DOMAIN server.overrides \union {c.arg.scope} |->
                     IF x = c.arg.scope THEN c.arg.override ELSE server.overrides[x]]
  <2>1. s = [server EXCEPT !.overrides = o]
    BY <1>4 DEF Editor!Effect
  <2>2. TwoHalves(o)
    BY <1>1, <1>4 DEF TwoHalves, CardRequest
  <2> HIDE DEF o
  <2> QED BY <1>1, <1>4, <2>1, <2>2
<1>5. CASE c.op = "clear"
  <2> DEFINE o == [x \in DOMAIN server.overrides \ {c.arg} |-> server.overrides[x]]
  <2>1. s = [server EXCEPT !.overrides = o]
    BY <1>5 DEF Editor!Effect
  <2>2. TwoHalves(o)
    BY <1>1 DEF TwoHalves
  <2> HIDE DEF o
  <2> QED BY <1>1, <1>5, <2>1, <2>2
<1>6. CASE c.op = "reactivate"
  <2>1. s = [server EXCEPT !.tripped = FALSE, !.event = "sent"]
    BY <1>6 DEF Editor!Effect
  <2> QED BY <1>1, <1>6, <2>1
<1>7. CASE c.op \notin {"save", "remove", "override", "clear", "reactivate"}
  <2>1. s = server \/ \E e : s = [server EXCEPT !.event = e]
    BY <1>7 DEF Editor!Effect, Editor!CaughtUp
  <2> QED BY <1>1, <1>7, <2>1
<1> QED BY <1>2, <1>3, <1>4, <1>5, <1>6, <1>7

\* The server refuses a request: when it is a reading, the rule was removed before.
LEMMA CardRefused ==
  ASSUME EditorInv, CardInv, NEW k \in DOMAIN calls, Editor!ServeOne(k), Editor!Refused(calls[k])
  PROVE  CardInv'
<1>1. CardRequests /\ CardShape /\ CardOrder /\ CardBusy /\ CardSaved /\ CardGone /\ CardFresh /\ CardHalves
  BY DEF CardInv
<1>2. Queue(calls) /\ EditorRequests
  BY DEF EditorInv
<1>3. calls[k].phase = "sent" /\ UNCHANGED <<server, view, spent>> /\ Becomes(k, "refused", calls[k].reply)
  BY DEF Editor!ServeOne, Editor!Refuse, Becomes
<1>4. /\ DOMAIN calls' = DOMAIN calls /\ DOMAIN calls = 1..Len(calls) /\ Len(calls) \in Nat
      /\ \A j \in DOMAIN calls : calls'[j].op = calls[j].op /\ calls'[j].arg = calls[j].arg
      /\ \A j \in DOMAIN calls : j # k => calls'[j] = calls[j]
      /\ calls'[k].phase = "refused"
  BY <1>2, <1>3, OneServed
<1>5. CardRequests'
  <2> SUFFICES ASSUME NEW j \in DOMAIN calls PROVE CardRequest(calls[j])'
    BY <1>4 DEF CardRequests
  <2>1. CardRequest(calls[j])
    BY <1>1 DEF CardRequests
  <2>2. CASE j # k
    BY <1>3, <1>4, <2>1, <2>2 DEF CardRequest
  <2>3. CASE j = k
    <3>1. calls[k].op \notin {"override", "clear", "remove"}
      BY DEF Editor!Refused
    <3> QED BY <1>3, <1>4, <2>1, <2>3, <3>1 DEF CardRequest
  <2> QED BY <2>2, <2>3
<1>6. CardShape'
  BY <1>1, <1>3 DEF CardShape
<1>7. CardOrder' /\ CardBusy' /\ CardSaved' /\ CardGone'
  <2>1. CardOrder'
    BY <1>1, <1>3, <1>4 DEF CardOrder
  <2>2. CardBusy' /\ CardSaved'
    BY <1>1, <1>3, <1>4 DEF CardBusy, CardSaved
  <2>3. CardGone'
    BY <1>1, <1>3, <1>4 DEF CardGone
  <2> QED BY <2>1, <2>2, <2>3
<1>8. CardFresh'
  <2> SUFFICES ASSUME spent.inOrder, spent.faults = 0, ~view.left PROVE CardFresh'
    BY <1>3 DEF CardFresh
  <2>1. CASE \E m \in DOMAIN calls : calls[m].op \in {"override", "clear"}
    BY <1>4, <2>1 DEF CardFresh
  <2>2. CASE \E m \in DOMAIN calls : /\ Reading(calls[m]) /\ calls[m].op # "save"
                                     /\ \/ calls[m].phase = "sent"
                                        \/ \E j \in DOMAIN calls : j < m /\ calls[j].op = "remove"
    <3>1. PICK m \in DOMAIN calls : /\ Reading(calls[m]) /\ calls[m].op # "save"
                                    /\ \/ calls[m].phase = "sent"
                                       \/ \E j \in DOMAIN calls : j < m /\ calls[j].op = "remove"
      BY <2>2
    <3>2. Reading(calls'[m]) /\ calls'[m].op # "save"
      BY <1>4, <3>1 DEF Reading
    <3>3. CASE \E j \in DOMAIN calls : j < m /\ calls[j].op = "remove"
      BY <1>4, <3>2, <3>3 DEF CardFresh
    <3>4. CASE m # k /\ calls[m].phase = "sent"
      BY <1>4, <3>2, <3>4 DEF CardFresh
    <3>5. CASE m = k
      <4>1. server.yaml = Editor!None
        BY <3>1, <3>5 DEF Reading, Editor!Refused
      <4>2. view.mode = "edit"
        BY <1>2, <3>1, <3>5 DEF EditorRequests, EditorRequest, OfRule, Reading
      <4>3. PICK j \in DOMAIN calls : calls[j].op = "remove" /\ calls[j].phase = "done"
        BY <1>1, <4>1, <4>2 DEF CardGone
      <4>4. ~(k < j) /\ j # k
        BY <1>1, <1>3, <4>3 DEF CardOrder
      <4>5. j < k
        BY <1>4, <4>4
      <4> QED BY <1>4, <3>2, <3>5, <4>3, <4>5 DEF CardFresh
    <3> QED BY <3>1, <3>3, <3>4, <3>5
  <2>3. CASE \E m \in DOMAIN calls : /\ Reading(calls[m]) /\ calls[m].phase = "done"
                                     /\ calls[m].reply.overrides = server.overrides
                                     /\ \A j \in DOMAIN calls : Reading(calls[j]) /\ calls[j].phase = "done" => j <= m
    <3>1. PICK m \in DOMAIN calls : /\ Reading(calls[m]) /\ calls[m].phase = "done"
                                    /\ calls[m].reply.overrides = server.overrides
                                    /\ \A j \in DOMAIN calls : Reading(calls[j]) /\ calls[j].phase = "done" => j <= m
      BY <2>3
    <3>2. calls'[m] = calls[m]
      BY <1>3, <1>4, <3>1
    <3>3. \A j \in DOMAIN calls : Reading(calls'[j]) /\ calls'[j].phase = "done" => j <= m
      BY <1>4, <3>1
    <3> QED BY <1>3, <1>4, <3>1, <3>2, <3>3 DEF CardFresh
  <2>4. CASE /\ \A m \in DOMAIN calls : ~(Reading(calls[m]) /\ calls[m].phase = "done")
             /\ view.detail # Editor!NoDetail => view.detail.overrides = server.overrides
    <3>1. \A m \in DOMAIN calls' : ~(Reading(calls'[m]) /\ calls'[m].phase = "done")
      BY <1>4, <2>4
    <3> QED BY <1>3, <2>4, <3>1 DEF CardFresh
  <2> QED BY <1>1, <2>1, <2>2, <2>3, <2>4 DEF CardFresh
<1>9. CardHalves'
  BY <1>1, <1>3, <1>4 DEF CardHalves, Pending, Half, Editor!Override
<1> QED BY <1>5, <1>6, <1>7, <1>8, <1>9 DEF CardInv

\* The server serves a request, in its turn.
LEMMA CardServed ==
  ASSUME EditorInv, CardInv, NEW k \in DOMAIN calls, Editor!ServeOne(k), ~Editor!Refused(calls[k])
  PROVE  CardInv'
<1> DEFINE c == calls[k]
<1>1. CardRequests /\ CardShape /\ CardOrder /\ CardBusy /\ CardSaved /\ CardGone /\ CardFresh /\ CardHalves
  BY DEF CardInv
<1>2. Queue(calls) /\ EditorRepairs
  BY DEF EditorInv
<1>3. /\ c.phase = "sent" /\ UNCHANGED <<view, spent>> /\ server' = Editor!Effect(server, c)
      /\ spent.inOrder => \A j \in 1..(k - 1) : calls[j].phase # "sent"
      /\ Becomes(k, "done", Editor!Reply(server, c))
  BY DEF Editor!ServeOne, Editor!Serve, Editor!InOrder, Becomes
<1>4. /\ DOMAIN calls' = DOMAIN calls /\ DOMAIN calls = 1..Len(calls) /\ Len(calls) \in Nat
      /\ \A j \in DOMAIN calls : calls'[j].op = calls[j].op /\ calls'[j].arg = calls[j].arg
      /\ \A j \in DOMAIN calls : j # k => calls'[j] = calls[j]
      /\ calls'[k].phase = "done" /\ calls'[k].reply = Editor!Reply(server, c)
  BY <1>2, <1>3, OneServed
<1>5. spent.inOrder => \A j \in DOMAIN calls : j < k => calls[j].phase # "sent"
  BY <1>3, <1>4
<1>6. /\ CardRequest(c)
      /\ {"yaml", "overrides"} \subseteq DOMAIN server'
      /\ TwoHalves(server'.overrides)
      /\ c.op \notin {"override", "clear"} => server'.overrides = server.overrides
      /\ c.op = "save" => server'.yaml # Editor!None
      /\ c.op \notin {"save", "remove"} => server'.yaml = server.yaml
  <2>1. CardRequest(c)
    BY <1>1 DEF CardRequests
  <2> QED BY <1>1, <1>3, <2>1, CardEffect
<1>7. c.op \in {"load", "refresh", "save"} =>
        calls'[k].reply.overrides = server'.overrides /\ calls'[k].reply.yaml = server'.yaml
  BY <1>3, <1>4 DEF Editor!Reply, Editor!Detail
<1>8. CardRequests'
  <2> SUFFICES ASSUME NEW j \in DOMAIN calls PROVE CardRequest(calls[j])'
    BY <1>4 DEF CardRequests
  <2>1. CardRequest(calls[j])
    BY <1>1 DEF CardRequests
  <2>2. CASE j # k
    <3>1. ~(calls[j].op = "load" /\ calls[j].arg = "repair")
      <4>1. Len(calls) # 1
        BY <1>4, <2>2
      <4> QED BY <1>2, <4>1 DEF EditorRepairs
    <3> QED BY <1>3, <1>4, <2>1, <2>2, <3>1 DEF CardRequest
  <2>3. CASE j = k
    <3>1. c.op = "load" /\ c.arg = "edit" => server.yaml # Editor!None
      BY DEF Editor!Refused
    <3>2. c.op = "load" => c.arg \in {"create", "repair", "edit"}
      BY DEF EditorInv, EditorRequests, EditorRequest
    <3>3. c.op = "override" => DOMAIN c.arg.override = {"enabled", "value"}
      BY <1>6 DEF CardRequest
    <3>4. c.op = "save" => c.arg.text # Editor!None
      BY <1>6 DEF CardRequest
    <3>5. c.op = "load" /\ c.arg = "repair" => server'.yaml # Editor!None
      BY <1>6 DEF CardRequest
    <3>6. Reading(c) => TwoHalves(calls'[k].reply.overrides)
      BY <1>6, <1>7 DEF Reading
    <3>7. Brings(c) => calls'[k].reply.yaml # Editor!None
      BY <1>6, <1>7, <3>1, <3>2, <3>5 DEF Brings
    <3> QED BY <1>3, <1>4, <2>3, <3>3, <3>4, <3>5, <3>6, <3>7 DEF CardRequest, Reading, Brings
  <2> QED BY <2>2, <2>3
<1>9. CardShape'
  BY <1>1, <1>3, <1>6 DEF CardShape
<1>10. CardOrder'
  BY <1>1, <1>3, <1>4, <1>5 DEF CardOrder
<1>11. CardBusy'
  BY <1>1, <1>3, <1>4 DEF CardBusy
<1>12. CardSaved'
  <2> SUFFICES ASSUME NEW j \in DOMAIN calls, calls[j].op = "save", calls'[j].phase = "done"
               PROVE  server'.yaml # Editor!None
    BY <1>4 DEF CardSaved
  <2>1. CASE j = k
    BY <1>6, <2>1
  <2>2. CASE j # k
    <3>1. server.yaml # Editor!None
      BY <1>1, <1>4, <2>2 DEF CardSaved
    <3>2. c.op # "remove"
      BY <1>1, <2>2 DEF CardBusy
    <3> QED BY <1>6, <3>1, <3>2
  <2> QED BY <2>1, <2>2
<1>13. CardGone'
  <2> SUFFICES ASSUME spent.faults = 0, ~view.left, view.mode = "edit", server'.yaml = Editor!None
               PROVE  \E j \in DOMAIN calls' : calls'[j].op = "remove" /\ calls'[j].phase = "done"
    BY <1>3 DEF CardGone
  <2>1. CASE c.op = "remove"
    BY <1>4, <2>1
  <2>2. CASE c.op # "remove"
    <3>1. server.yaml = Editor!None
      BY <1>6, <2>2
    <3> QED BY <1>1, <1>4, <2>2, <3>1 DEF CardGone
  <2> QED BY <2>1, <2>2
<1>14. CardFresh'
  <2> SUFFICES ASSUME spent.inOrder, spent.faults = 0, ~view.left PROVE CardFresh'
    BY <1>3 DEF CardFresh
  <2>1. CASE c.op \in {"override", "clear"}
    BY <1>4, <2>1 DEF CardFresh
  <2>2. CASE Reading(c)
    <3>1. Reading(calls'[k]) /\ calls'[k].reply.overrides = server'.overrides
      BY <1>4, <1>7, <2>2 DEF Reading
    <3>2. ASSUME NEW j \in DOMAIN calls, calls'[j].phase = "done" PROVE j <= k
      <4>1. ~(k < j)
        BY <1>1, <1>3, <1>4, <3>2 DEF CardOrder
      <4> QED BY <1>4, <4>1
    <3> QED BY <1>4, <3>1, <3>2 DEF CardFresh
  <2>3. CASE ~Reading(c) /\ c.op \notin {"override", "clear"}
    <3>1. server'.overrides = server.overrides
      BY <1>6, <2>3
    <3>2. ~Reading(calls'[k])
      BY <1>4, <2>3 DEF Reading
    <3>3. CASE \E m \in DOMAIN calls : calls[m].op \in {"override", "clear"}
      BY <1>4, <3>3 DEF CardFresh
    <3>4. CASE \E m \in DOMAIN calls : /\ Reading(calls[m]) /\ calls[m].op # "save"
                                       /\ \/ calls[m].phase = "sent"
                                          \/ \E j \in DOMAIN calls : j < m /\ calls[j].op = "remove"
      <4>1. PICK m \in DOMAIN calls : /\ Reading(calls[m]) /\ calls[m].op # "save"
                                      /\ \/ calls[m].phase = "sent"
                                         \/ \E j \in DOMAIN calls : j < m /\ calls[j].op = "remove"
        BY <3>4
      <4>2. m # k /\ calls'[m] = calls[m]
        BY <1>4, <2>3, <4>1
      <4> QED BY <1>4, <4>1, <4>2 DEF CardFresh
    <3>5. CASE \E m \in DOMAIN calls : /\ Reading(calls[m]) /\ calls[m].phase = "done"
                                       /\ calls[m].reply.overrides = server.overrides
                                       /\ \A j \in DOMAIN calls : Reading(calls[j]) /\ calls[j].phase = "done" => j <= m
      <4>1. PICK m \in DOMAIN calls : /\ Reading(calls[m]) /\ calls[m].phase = "done"
                                      /\ calls[m].reply.overrides = server.overrides
                                      /\ \A j \in DOMAIN calls : Reading(calls[j]) /\ calls[j].phase = "done" => j <= m
        BY <3>5
      <4>2. calls'[m] = calls[m]
        BY <1>3, <1>4, <4>1
      <4>3. \A j \in DOMAIN calls : Reading(calls'[j]) /\ calls'[j].phase = "done" => j <= m
        BY <1>4, <3>2, <4>1
      <4> QED BY <1>4, <3>1, <4>1, <4>2, <4>3 DEF CardFresh
    <3>6. CASE /\ \A m \in DOMAIN calls : ~(Reading(calls[m]) /\ calls[m].phase = "done")
               /\ view.detail # Editor!NoDetail => view.detail.overrides = server.overrides
      <4>1. \A m \in DOMAIN calls' : ~(Reading(calls'[m]) /\ calls'[m].phase = "done")
        BY <1>4, <3>2, <3>6
      <4> QED BY <1>3, <3>1, <3>6, <4>1 DEF CardFresh
    <3> QED BY <1>1, <3>3, <3>4, <3>5, <3>6 DEF CardFresh
  <2> QED BY <2>1, <2>2, <2>3
<1>15. CardHalves'
  <2> SUFFICES ASSUME spent.inOrder, NEW m \in DOMAIN calls, Pending(calls'[m])
               PROVE  Half(calls[m])' /\ \A j \in DOMAIN calls : j < m => calls[j].op \in Harmless
    BY <1>3, <1>4 DEF CardHalves, Half, Pending
  <2>1. m # k /\ calls'[m] = calls[m]
    BY <1>4 DEF Pending
  <2>2. Half(calls[m]) /\ \A j \in DOMAIN calls : j < m => calls[j].op \in Harmless
    BY <1>1, <2>1 DEF CardHalves
  <2>3. ~(m < k)
    BY <1>5, <2>1 DEF Pending
  <2>4. k < m
    BY <1>4, <2>1, <2>3
  <2>5. server'.overrides = server.overrides
    BY <1>6, <2>2, <2>4 DEF Harmless
  <2> QED BY <2>1, <2>2, <2>5 DEF Half, Editor!Override
<1> QED BY <1>8, <1>9, <1>10, <1>11, <1>12, <1>13, <1>14, <1>15 DEF CardInv

\* A failure of the network ends what is promised of the card, but for the gestures made before it.
LEMMA CardFailed ==
  ASSUME EditorInv, CardInv, NEW k \in DOMAIN calls, Editor!Fail(k)
  PROVE  CardInv'
<1>1. CardRequests /\ CardShape /\ CardOrder /\ CardBusy /\ CardSaved /\ CardHalves
  BY DEF CardInv
<1>2. Queue(calls) /\ Counted
  BY DEF EditorInv
<1>3. /\ UNCHANGED <<server, view>> /\ Becomes(k, "refused", Editor!None)
      /\ spent' = [spent EXCEPT !.moves = @ + 1, !.faults = @ + 1]
  BY DEF Editor!Fail, Becomes
<1>4. /\ DOMAIN calls' = DOMAIN calls
      /\ \A j \in DOMAIN calls : calls'[j].op = calls[j].op /\ calls'[j].arg = calls[j].arg
      /\ \A j \in DOMAIN calls : j # k => calls'[j] = calls[j]
      /\ calls'[k].phase = "refused"
  BY <1>2, <1>3, OneServed
<1>5. spent'.inOrder = spent.inOrder /\ spent'.faults # 0
  BY <1>2, <1>3 DEF Counted
<1>6. CardRequests'
  <2> SUFFICES ASSUME NEW j \in DOMAIN calls PROVE CardRequest(calls[j])'
    BY <1>4 DEF CardRequests
  <2>1. CardRequest(calls[j])
    BY <1>1 DEF CardRequests
  <2> QED BY <1>3, <1>4, <1>5, <2>1 DEF CardRequest
<1>7. CardShape' /\ CardGone' /\ CardFresh'
  BY <1>1, <1>3, <1>5 DEF CardShape, CardGone, CardFresh
<1>8. CardOrder'
  BY <1>1, <1>4, <1>5 DEF CardOrder
<1>9. CardBusy' /\ CardSaved'
  BY <1>1, <1>3, <1>4 DEF CardBusy, CardSaved
<1>10. CardHalves'
  BY <1>1, <1>3, <1>4, <1>5 DEF CardHalves, Pending, Half, Editor!Override
<1> QED BY <1>6, <1>7, <1>8, <1>9, <1>10 DEF CardInv

\* A reading that is asked for the card.
Rereads(n) == Shaped(n) /\ n.phase = "sent" /\ Reading(n) /\ n.op \in {"load", "refresh"}

\* An answer asks for nothing else than a reading, and an override that is stored asks for one.
LEMMA CardRereads ==
  ASSUME EditorInv, NEW k \in DOMAIN calls, Editor!HandleAnswer(k) \/ Editor!HandleRefusal(k)
  PROVE  \/ /\ calls' = Others(k) \o << >>
            /\ Editor!HandleRefusal(k) \/ calls[k].op \notin {"override", "clear"}
         \/ \E n : Rereads(n) /\ calls' = Others(k) \o <<n>>
<1> DEFINE c == calls[k]
<1>1. EditorRequest(c)
  BY DEF EditorInv, EditorRequests
<1>2. CASE Editor!HandleRefusal(k)
  BY <1>2 DEF Editor!HandleRefusal, Editor!Settle, Editor!Others, Others
<1>3. CASE Editor!HandleAnswer(k)
  <2>1. calls' = Others(k) \o Editor!Then(view, c)
    BY <1>3 DEF Editor!HandleAnswer, Editor!Settle, Editor!Others, Others
  <2>2. CASE c.op = "save" /\ c.arg.mode # "edit"
    <3>1. calls' = Others(k) \o <<Editor!Request("load", "edit")>>
      BY <2>1, <2>2 DEF Editor!Then
    <3> QED BY <3>1, EditorAsk DEF Rereads, Reading
  <2>3. CASE c.op \in {"override", "clear", "reactivate"}
    <3>1. view.mode = "edit"
      BY <1>1, <2>3 DEF EditorRequest, OfRule
    <3>2. \E op \in {"load", "refresh"} : \E arg :
            (op = "load" => arg = "edit") /\ calls' = Others(k) \o <<Editor!Request(op, arg)>>
      BY <1>1, <2>1, <2>3, <3>1 DEF Editor!Then, EditorRequest
    <3> QED BY <3>2, EditorAsk DEF Rereads, Reading
  <2>4. CASE c.op \notin {"override", "clear", "reactivate"} /\ ~(c.op = "save" /\ c.arg.mode # "edit")
    BY <2>1, <2>4 DEF Editor!Then
  <2> QED BY <2>2, <2>3, <2>4
<1> QED BY <1>2, <1>3

\* What waits once request k is answered: what waited beside it, in its order, and a reading.
CardWaits(k) ==
  /\ \A j \in DOMAIN calls : j # k => Moved(k, j) \in DOMAIN calls' /\ calls'[Moved(k, j)] = calls[j]
  /\ \A i \in DOMAIN calls' :
       \/ Came(k, i) \in DOMAIN calls /\ Came(k, i) # k /\ calls'[i] = calls[Came(k, i)]
       \/ i = Len(calls) /\ Rereads(calls'[i])
  /\ \A i, m \in DOMAIN calls' : i < m => i # Len(calls) /\ Came(k, i) < Came(k, m)
  /\ \A i, m \in DOMAIN calls' : Came(k, i) = Came(k, m) => i = m
  /\ \A i, j \in DOMAIN calls : i < j /\ i # k /\ j # k => Moved(k, i) < Moved(k, j)
  /\ \A i, j \in DOMAIN calls : i <= j /\ i # k /\ j # k => Moved(k, i) <= Moved(k, j)
  /\ \A i \in DOMAIN calls' : Moved(k, Came(k, i)) = i

\* A call that arrives leaves the queue, and those behind it keep their order.
LEMMA CardQueue ==
  ASSUME EditorInv, NEW k \in DOMAIN calls, Editor!HandleAnswer(k) \/ Editor!HandleRefusal(k)
  PROVE  /\ CardWaits(k)
         /\ \/ Editor!HandleRefusal(k) \/ calls[k].op \notin {"override", "clear"}
            \/ \E i \in DOMAIN calls' : Rereads(calls'[i])
<1>1. Queue(calls)
  BY DEF EditorInv
<1>2. ASSUME NEW n, Rereads(n) \/ calls' = Others(k) \o << >>,
             calls' = Others(k) \o << >> \/ (Shaped(n) /\ calls' = Others(k) \o <<n>>),
             calls' = Others(k) \o << >> \/ calls' = Others(k) \o <<n>>
      PROVE  CardWaits(k)
  <2>1. /\ Len(calls) \in Nat \ {0} /\ DOMAIN calls = 1..Len(calls) /\ k \in 1..Len(calls)
        /\ \A j \in DOMAIN calls : j # k => Moved(k, j) \in DOMAIN calls' /\ calls'[Moved(k, j)] = calls[j]
        /\ \A i \in DOMAIN calls' : i \in 1..Len(calls)
    BY <1>1, <1>2, Answers
  <2>2. \A i \in DOMAIN calls' :
          \/ Came(k, i) \in DOMAIN calls /\ Came(k, i) # k /\ calls'[i] = calls[Came(k, i)]
          \/ i = Len(calls) /\ Rereads(calls'[i])
    <3>1. CASE calls' = Others(k) \o << >>
      BY <1>1, <3>1, OneAnswered
    <3>2. CASE Rereads(n)
      BY <1>1, <1>2, <3>2, Answers
    <3> QED BY <1>2, <3>1, <3>2
  <2>3. \A i, m \in DOMAIN calls' : i < m => i # Len(calls) /\ Came(k, i) < Came(k, m)
    <3> SUFFICES ASSUME NEW i \in DOMAIN calls', NEW m \in DOMAIN calls', i < m
                 PROVE  i # Len(calls) /\ Came(k, i) < Came(k, m)
      OBVIOUS
    <3>1. Len(calls) \in Nat /\ k \in 1..Len(calls) /\ i \in 1..Len(calls) /\ m \in 1..Len(calls)
      BY <2>1
    <3>2. i # Len(calls)
      BY <3>1
    <3>3. Came(k, i) < Came(k, m)
      BY <3>1 DEF Came
    <3> QED BY <3>2, <3>3
  <2>4. \A i, m \in DOMAIN calls' : Came(k, i) = Came(k, m) => i = m
    <3>1. \A i, m \in 1..Len(calls) : Came(k, i) = Came(k, m) => i = m
      BY <2>1 DEF Came
    <3> QED BY <2>1, <3>1
  <2>5. \A i, j \in DOMAIN calls : i < j /\ i # k /\ j # k => Moved(k, i) < Moved(k, j)
    BY <2>1 DEF Moved
  <2>6. \A i, j \in DOMAIN calls : i <= j /\ i # k /\ j # k => Moved(k, i) <= Moved(k, j)
    BY <2>1 DEF Moved
  <2>7. \A i \in DOMAIN calls' : Moved(k, Came(k, i)) = i
    <3>1. \A i \in 1..Len(calls) : Moved(k, Came(k, i)) = i
      BY <2>1 DEF Came, Moved
    <3> QED BY <2>1, <3>1
  <2> QED BY <2>1, <2>2, <2>3, <2>4, <2>5, <2>6, <2>7 DEF CardWaits
<1>3. CASE /\ calls' = Others(k) \o << >>
           /\ Editor!HandleRefusal(k) \/ calls[k].op \notin {"override", "clear"}
  BY <1>2, <1>3
<1>4. CASE \E n : Rereads(n) /\ calls' = Others(k) \o <<n>>
  <2> PICK n : Rereads(n) /\ calls' = Others(k) \o <<n>>
    BY <1>4
  <2>1. Shaped(n)
    BY DEF Rereads
  <2>2. CardWaits(k)
    BY <1>2, <2>1
  <2>3. Len(calls) \in DOMAIN calls' /\ calls'[Len(calls)] = n
    <3>1. /\ Len(calls) \in Nat \ {0} /\ DOMAIN calls = 1..Len(calls) /\ DOMAIN calls' = DOMAIN calls
          /\ calls'[Len(calls)] = n
      BY <1>1, <2>1, OneAsked
    <3>2. \A l \in Nat \ {0} : l \in 1..l
      OBVIOUS
    <3>3. Len(calls) \in 1..Len(calls)
      BY <3>1, <3>2
    <3>4. DOMAIN calls' = 1..Len(calls)
      BY <3>1
    <3> QED BY <3>1, <3>3, <3>4
  <2> QED BY <2>2, <2>3
<1> QED BY <1>3, <1>4, CardRereads

\* What becomes of the card when request k is answered.
CardTells(k) ==
  /\ view'.text # Editor!None
  /\ \/ Reading(calls[k]) /\ calls[k].phase = "done" /\ view'.detail = calls[k].reply
     \/ ~(Reading(calls[k]) /\ calls[k].phase = "done") /\ view'.detail = view.detail
  /\ view'.mode = view.mode \/ (calls[k].op = "save" /\ calls[k].phase = "done")
  /\ \/ calls[k].op = "remove" /\ calls[k].phase = "done" /\ view'.left = TRUE
     \/ ~(calls[k].op = "remove" /\ calls[k].phase = "done") /\ view'.left = view.left
  /\ calls[k].op \in {"save", "remove"} \/ view'.busy = view.busy

\* A refusal tells the card of its own request only.
LEMMA CardRefusedTold ==
  ASSUME EditorInv, CardInv, NEW k \in DOMAIN calls, Editor!HandleRefusal(k)
  PROVE  CardTells(k)
<1>1. DOMAIN view = EditorFields /\ EditorRequest(calls[k]) /\ CardShape
  BY DEF EditorInv, EditorView, EditorRequests, CardInv
<1>2. view' = Editor!Refusal(view, calls[k]) /\ calls[k].phase = "refused"
  BY DEF Editor!HandleRefusal, Editor!Settle
<1>3. /\ view'.text = view.text /\ view'.detail = view.detail /\ view'.mode = view.mode /\ view'.left = view.left
      /\ calls[k].op \in {"save", "remove"} \/ view'.busy = view.busy
  BY <1>1, <1>2 DEF Editor!Refusal, EditorRequest, EditorOps, EditorFields
<1> QED BY <1>1, <1>2, <1>3 DEF CardTells, CardShape

\* An answer tells the card of its own request only, a reading giving it the detail it brought.
LEMMA CardTold ==
  ASSUME EditorInv, CardInv, NEW k \in DOMAIN calls, Editor!HandleAnswer(k)
  PROVE  CardTells(k)
<1> DEFINE c == calls[k]
<1>1. DOMAIN view = EditorFields /\ EditorRequest(c) /\ CardShape /\ CardRequest(c)
  BY DEF EditorInv, EditorView, EditorRequests, CardInv, CardRequests
<1>2. view' = Editor!Answered(view, c) /\ c.phase = "done"
  BY DEF Editor!HandleAnswer, Editor!Settle
<1>3. Brings(c) => c.reply.yaml # Editor!None
  BY <1>1, <1>2 DEF CardRequest
<1>4. CASE c.op = "save"
  <2> DEFINE u == Editor!WithDetail(view, c.reply)
             w == Editor!WithText(u, c.reply.yaml)
  <2>1. view' = [w EXCEPT !.busy = FALSE, !.mode = "edit"]
    BY <1>2, <1>4 DEF Editor!Answered, Editor!Saved
  <2>2. DOMAIN u = EditorFields /\ u.detail = c.reply /\ u.left = view.left
    BY <1>1, EditorReadsRule DEF EditorFields
  <2> HIDE DEF u
  <2>3. DOMAIN w = EditorFields /\ w.text = c.reply.yaml /\ w.detail = c.reply /\ w.left = view.left
    BY <2>2, EditorReads DEF EditorFields
  <2> HIDE DEF w
  <2>4. view'.text = c.reply.yaml /\ view'.detail = c.reply /\ view'.left = view.left
    BY <2>1, <2>3 DEF EditorFields
  <2> QED BY <1>2, <1>3, <1>4, <2>4 DEF CardTells, Reading, Brings
<1>5. CASE c.op = "load"
  <2> DEFINE v == [view EXCEPT !.loading = FALSE]
  <2>1. /\ DOMAIN v = EditorFields /\ v.mode = view.mode /\ v.detail = view.detail /\ v.left = view.left /\ v.busy = view.busy
    BY <1>1 DEF EditorFields
  <2>2. CASE c.arg = "create"
    <3>1. view' = Editor!WithText(v, Editor!Template)
      BY <1>2, <1>5, <2>2 DEF Editor!Answered, Editor!Loaded
    <3> HIDE DEF v
    <3>2. /\ view'.text = Editor!Template /\ view'.detail = view.detail /\ view'.mode = view.mode
          /\ view'.left = view.left /\ view'.busy = view.busy
      BY <2>1, <3>1, EditorReads DEF EditorFields
    <3>3. Editor!Template # Editor!None
      BY DEF Editor!Template, Editor!None
    <3> QED BY <1>5, <2>2, <3>2, <3>3 DEF CardTells, Reading
  <2>3. CASE c.arg = "repair"
    <3> DEFINE w == Editor!WithText(v, c.reply.yaml)
    <3>1. view' = [w EXCEPT !.validated = "invalid"]
      BY <1>2, <1>5, <2>3 DEF Editor!Answered, Editor!Loaded
    <3> HIDE DEF v
    <3>2. /\ DOMAIN w = EditorFields /\ w.text = c.reply.yaml /\ w.detail = view.detail /\ w.mode = view.mode
          /\ w.left = view.left /\ w.busy = view.busy
      BY <2>1, EditorReads DEF EditorFields
    <3> HIDE DEF w
    <3>3. /\ view'.text = c.reply.yaml /\ view'.detail = view.detail /\ view'.mode = view.mode
          /\ view'.left = view.left /\ view'.busy = view.busy
      BY <3>1, <3>2 DEF EditorFields
    <3> QED BY <1>3, <1>5, <2>3, <3>3 DEF CardTells, Reading, Brings
  <2>4. CASE c.arg = "edit"
    <3> DEFINE u == Editor!WithDetail(v, c.reply)
    <3>1. view' = Editor!WithText(u, c.reply.yaml)
      BY <1>2, <1>5, <2>4 DEF Editor!Answered, Editor!Loaded
    <3> HIDE DEF v
    <3>2. /\ DOMAIN u = EditorFields /\ u.detail = c.reply /\ u.mode = view.mode
          /\ u.left = view.left /\ u.busy = view.busy
      BY <2>1, EditorReadsRule DEF EditorFields
    <3> HIDE DEF u
    <3>3. /\ view'.text = c.reply.yaml /\ view'.detail = c.reply /\ view'.mode = view.mode
          /\ view'.left = view.left /\ view'.busy = view.busy
      BY <3>1, <3>2, EditorReads DEF EditorFields
    <3> QED BY <1>2, <1>3, <1>5, <2>4, <3>3 DEF CardTells, Reading, Brings
  <2> QED BY <1>1, <1>5, <2>2, <2>3, <2>4 DEF EditorRequest
<1>6. CASE c.op = "refresh"
  <2> DEFINE u == Editor!WithDetail(view, c.reply)
  <2>1. view' = [u EXCEPT !.working = @ /\ ~c.arg]
    BY <1>2, <1>6 DEF Editor!Answered, Editor!Refreshed
  <2>2. /\ DOMAIN u = EditorFields /\ u.text = view.text /\ u.detail = c.reply /\ u.mode = view.mode
        /\ u.left = view.left /\ u.busy = view.busy
    BY <1>1, EditorReadsRule DEF EditorFields
  <2> HIDE DEF u
  <2>3. /\ view'.text = view.text /\ view'.detail = c.reply /\ view'.mode = view.mode
        /\ view'.left = view.left /\ view'.busy = view.busy
    BY <2>1, <2>2 DEF EditorFields
  <2> QED BY <1>1, <1>2, <1>6, <2>3 DEF CardTells, Reading, CardShape
<1>7. CASE c.op = "remove"
  <2>1. view' = [view EXCEPT !.busy = FALSE, !.left = TRUE]
    BY <1>2, <1>7 DEF Editor!Answered
  <2>2. view'.text = view.text /\ view'.detail = view.detail /\ view'.mode = view.mode /\ view'.left = TRUE
    BY <1>1, <2>1 DEF EditorFields
  <2> QED BY <1>1, <1>2, <1>7, <2>2 DEF CardTells, Reading, CardShape
<1>8. CASE c.op \in {"validate", "dryRun", "override", "clear", "reactivate"}
  <2>1. /\ view'.text = view.text /\ view'.detail = view.detail /\ view'.mode = view.mode
        /\ view'.left = view.left /\ view'.busy = view.busy
    BY <1>1, <1>2, <1>8 DEF Editor!Answered, EditorFields
  <2> QED BY <1>1, <1>8, <2>1 DEF CardTells, Reading, CardShape
<1> QED BY <1>1, <1>4, <1>5, <1>6, <1>7, <1>8 DEF EditorRequest, EditorOps

\* An answer leaves the card such that its overrides are read again, or are those of the server.
LEMMA CardAnswered ==
  ASSUME EditorInv, CardInv, NEW k \in DOMAIN calls, Editor!HandleAnswer(k) \/ Editor!HandleRefusal(k)
  PROVE  CardInv'
<1> DEFINE c == calls[k]
<1>1. CardRequests /\ CardShape /\ CardOrder /\ CardBusy /\ CardSaved /\ CardGone /\ CardFresh /\ CardHalves
  BY DEF CardInv
<1>2. CardTells(k) /\ CardWaits(k) /\ CardRequest(c)
  BY <1>1, CardTold, CardRefusedTold, CardQueue DEF CardRequests
<1>3. UNCHANGED <<server, spent>> /\ (spent.inOrder => k = 1) /\ c.phase \in {"done", "refused"}
  BY DEF Editor!HandleAnswer, Editor!HandleRefusal, Editor!Settle, Editor!InOrder
<1>4. \A j \in DOMAIN calls : j # k => Moved(k, j) \in DOMAIN calls' /\ calls'[Moved(k, j)] = calls[j]
  BY <1>2 DEF CardWaits
<1>5. \A i \in DOMAIN calls' :
        \/ Came(k, i) \in DOMAIN calls /\ Came(k, i) # k /\ calls'[i] = calls[Came(k, i)]
        \/ i = Len(calls) /\ calls'[i].phase = "sent" /\ Reading(calls'[i]) /\ calls'[i].op \in {"load", "refresh"}
  BY <1>2 DEF CardWaits, Rereads
<1>6. \A i, m \in DOMAIN calls' : i < m => i # Len(calls) /\ Came(k, i) < Came(k, m)
  BY <1>2 DEF CardWaits
<1>7. CardRequests'
  <2> SUFFICES ASSUME NEW i \in DOMAIN calls' PROVE CardRequest(calls[i])'
    BY DEF CardRequests
  <2>1. CASE Came(k, i) \in DOMAIN calls /\ calls'[i] = calls[Came(k, i)]
    <3>1. CardRequest(calls[Came(k, i)])
      BY <1>1, <2>1 DEF CardRequests
    <3> QED BY <1>3, <2>1, <3>1 DEF CardRequest
  <2>2. CASE calls'[i].phase = "sent" /\ Reading(calls'[i]) /\ calls'[i].op \in {"load", "refresh"}
    BY <2>2 DEF CardRequest, Reading, Brings
  <2> QED BY <1>5, <2>1, <2>2
<1>8. CardShape'
  <2>1. TwoHalves(view'.detail.overrides)
    BY <1>1, <1>2 DEF CardTells, CardShape, CardRequest
  <2> QED BY <1>1, <1>2, <1>3, <2>1 DEF CardShape, CardTells
<1>9. CardOrder'
  <2> SUFFICES ASSUME spent.inOrder, NEW i \in DOMAIN calls', NEW m \in DOMAIN calls', i < m, calls'[m].phase = "done"
               PROVE  calls'[i].phase # "sent"
    BY <1>3 DEF CardOrder
  <2>1. Came(k, m) \in DOMAIN calls /\ calls'[m] = calls[Came(k, m)]
    BY <1>5
  <2>2. Came(k, i) \in DOMAIN calls /\ calls'[i] = calls[Came(k, i)] /\ Came(k, i) < Came(k, m)
    BY <1>5, <1>6
  <2> QED BY <1>1, <2>1, <2>2 DEF CardOrder
<1>10. CardBusy'
  <2> SUFFICES ASSUME NEW i \in DOMAIN calls', calls'[i].op \in {"save", "remove"}
               PROVE  view'.busy /\ \A m \in DOMAIN calls' : calls'[m].op \in {"save", "remove"} => m = i
    BY DEF CardBusy
  <2>1. Came(k, i) \in DOMAIN calls /\ Came(k, i) # k /\ calls'[i] = calls[Came(k, i)]
    BY <1>5
  <2>2. view.busy /\ \A j \in DOMAIN calls : calls[j].op \in {"save", "remove"} => j = Came(k, i)
    BY <1>1, <2>1 DEF CardBusy
  <2>3. c.op \notin {"save", "remove"}
    BY <2>1, <2>2
  <2>4. view'.busy
    BY <1>2, <2>2, <2>3 DEF CardTells
  <2>5. ASSUME NEW m \in DOMAIN calls', calls'[m].op \in {"save", "remove"} PROVE m = i
    <3>1. Came(k, m) \in DOMAIN calls /\ calls'[m] = calls[Came(k, m)]
      BY <1>5, <2>5
    <3>2. Came(k, m) = Came(k, i)
      BY <2>2, <2>5, <3>1
    <3> QED BY <1>2, <3>2 DEF CardWaits
  <2> QED BY <2>4, <2>5
<1>11. CardSaved'
  <2> SUFFICES ASSUME NEW i \in DOMAIN calls', calls'[i].op = "save", calls'[i].phase = "done"
               PROVE  server.yaml # Editor!None
    BY <1>3 DEF CardSaved
  <2>1. Came(k, i) \in DOMAIN calls /\ calls'[i] = calls[Came(k, i)]
    BY <1>5
  <2> QED BY <1>1, <2>1 DEF CardSaved
<1>12. CardGone'
  <2> SUFFICES ASSUME spent.faults = 0, ~view'.left, view'.mode = "edit", server.yaml = Editor!None
               PROVE  \E i \in DOMAIN calls' : calls'[i].op = "remove" /\ calls'[i].phase = "done"
    BY <1>3 DEF CardGone
  <2>1. ~view.left /\ ~(c.op = "remove" /\ c.phase = "done")
    BY <1>2 DEF CardTells
  <2>2. view.mode = "edit"
    BY <1>1, <1>2 DEF CardTells, CardSaved
  <2>3. PICK j \in DOMAIN calls : calls[j].op = "remove" /\ calls[j].phase = "done"
    BY <1>1, <2>1, <2>2 DEF CardGone
  <2> QED BY <1>4, <2>1, <2>3
<1>13. CardFresh'
  <2> SUFFICES ASSUME spent.inOrder, spent.faults = 0, ~view'.left PROVE CardFresh'
    BY <1>3 DEF CardFresh
  <2>1. ~view.left /\ ~(c.op = "remove" /\ c.phase = "done") /\ k = 1
    BY <1>2, <1>3 DEF CardTells
  <2>2. c.op \in {"override", "clear", "remove"} => c.phase = "done"
    BY <1>2, <1>3 DEF CardRequest
  <2>3. \A j \in DOMAIN calls : ~(j < 1) /\ (j <= 1 => j = 1)
    BY QueueNumbers DEF EditorInv
  <2>4. CASE \E m \in DOMAIN calls : calls[m].op \in {"override", "clear"}
    <3>1. PICK m \in DOMAIN calls : calls[m].op \in {"override", "clear"}
      BY <2>4
    <3>2. CASE m # k
      BY <1>4, <3>1, <3>2 DEF CardFresh
    <3>3. CASE m = k
      <4>1. ~Editor!HandleRefusal(k)
        BY <2>2, <3>1, <3>3 DEF Editor!HandleRefusal, Editor!Settle
      <4>2. PICK i \in DOMAIN calls' : Rereads(calls'[i])
        BY <3>1, <3>3, <4>1, CardQueue
      <4> QED BY <4>2 DEF CardFresh, Rereads
    <3> QED BY <3>2, <3>3
  <2>5. CASE \E m \in DOMAIN calls : /\ Reading(calls[m]) /\ calls[m].op # "save"
                                     /\ \/ calls[m].phase = "sent"
                                        \/ \E j \in DOMAIN calls : j < m /\ calls[j].op = "remove"
    <3>1. PICK m \in DOMAIN calls : /\ Reading(calls[m]) /\ calls[m].op # "save"
                                    /\ \/ calls[m].phase = "sent"
                                       \/ \E j \in DOMAIN calls : j < m /\ calls[j].op = "remove"
      BY <2>5
    <3>2. m # k
      BY <1>3, <2>1, <2>3, <3>1
    <3>3. Moved(k, m) \in DOMAIN calls' /\ calls'[Moved(k, m)] = calls[m]
      BY <1>4, <3>2
    <3>4. CASE calls[m].phase = "sent"
      BY <3>1, <3>3, <3>4 DEF CardFresh
    <3>5. CASE \E j \in DOMAIN calls : j < m /\ calls[j].op = "remove"
      <4>1. PICK j \in DOMAIN calls : j < m /\ calls[j].op = "remove"
        BY <3>5
      <4>2. j # k
        BY <2>1, <2>2, <4>1
      <4>3. Moved(k, j) \in DOMAIN calls' /\ calls'[Moved(k, j)] = calls[j] /\ Moved(k, j) < Moved(k, m)
        BY <1>2, <1>4, <3>2, <4>1, <4>2 DEF CardWaits
      <4> QED BY <3>1, <3>3, <4>1, <4>3 DEF CardFresh
    <3> QED BY <3>1, <3>4, <3>5
  <2>6. CASE \E m \in DOMAIN calls : /\ Reading(calls[m]) /\ calls[m].phase = "done"
                                     /\ calls[m].reply.overrides = server.overrides
                                     /\ \A j \in DOMAIN calls : Reading(calls[j]) /\ calls[j].phase = "done" => j <= m
    <3>1. PICK m \in DOMAIN calls : /\ Reading(calls[m]) /\ calls[m].phase = "done"
                                    /\ calls[m].reply.overrides = server.overrides
                                    /\ \A j \in DOMAIN calls : Reading(calls[j]) /\ calls[j].phase = "done" => j <= m
      BY <2>6
    <3>2. CASE m # k
      <4>1. Moved(k, m) \in DOMAIN calls' /\ calls'[Moved(k, m)] = calls[m]
        BY <1>4, <3>2
      <4>2. ASSUME NEW i \in DOMAIN calls', Reading(calls'[i]), calls'[i].phase = "done"
            PROVE  i <= Moved(k, m)
        <5>1. Came(k, i) \in DOMAIN calls /\ Came(k, i) # k /\ calls'[i] = calls[Came(k, i)]
          BY <1>5, <4>2
        <5>2. Came(k, i) <= m
          BY <3>1, <4>2, <5>1
        <5>3. Moved(k, Came(k, i)) <= Moved(k, m)
          BY <1>2, <3>2, <5>1, <5>2 DEF CardWaits
        <5>4. Moved(k, Came(k, i)) = i
          BY <1>2 DEF CardWaits
        <5> QED BY <5>3, <5>4
      <4> QED BY <1>3, <3>1, <4>1, <4>2 DEF CardFresh
    <3>3. CASE m = k
      <4>1. view'.detail.overrides = server.overrides
        BY <1>2, <3>1, <3>3 DEF CardTells
      <4>2. \A i \in DOMAIN calls' : ~(Reading(calls'[i]) /\ calls'[i].phase = "done")
        <5> SUFFICES ASSUME NEW i \in DOMAIN calls', Reading(calls'[i]), calls'[i].phase = "done" PROVE FALSE
          OBVIOUS
        <5>1. Came(k, i) \in DOMAIN calls /\ Came(k, i) # k /\ calls'[i] = calls[Came(k, i)]
          BY <1>5
        <5> QED BY <2>1, <2>3, <3>1, <3>3, <5>1
      <4> QED BY <1>3, <4>1, <4>2 DEF CardFresh
    <3> QED BY <3>2, <3>3
  <2>7. CASE /\ \A m \in DOMAIN calls : ~(Reading(calls[m]) /\ calls[m].phase = "done")
             /\ view.detail # Editor!NoDetail => view.detail.overrides = server.overrides
    <3>1. view'.detail = view.detail
      BY <1>2, <2>7 DEF CardTells
    <3>2. \A i \in DOMAIN calls' : ~(Reading(calls'[i]) /\ calls'[i].phase = "done")
      BY <1>5, <2>7
    <3> QED BY <1>3, <2>7, <3>1, <3>2 DEF CardFresh
  <2> QED BY <1>1, <2>1, <2>4, <2>5, <2>6, <2>7 DEF CardFresh
<1>14. CardHalves'
  <2> SUFFICES ASSUME spent.inOrder, NEW m \in DOMAIN calls', Pending(calls'[m])
               PROVE  Half(calls[m])' /\ \A i \in DOMAIN calls' : i < m => calls'[i].op \in Harmless
    BY <1>3 DEF CardHalves, Half, Pending
  <2>1. Came(k, m) \in DOMAIN calls /\ calls'[m] = calls[Came(k, m)]
    BY <1>5 DEF Pending
  <2>2. Half(calls[Came(k, m)]) /\ \A j \in DOMAIN calls : j < Came(k, m) => calls[j].op \in Harmless
    BY <1>1, <2>1 DEF CardHalves
  <2>3. Half(calls[m])'
    BY <1>3, <2>1, <2>2 DEF Half, Editor!Override
  <2>4. ASSUME NEW i \in DOMAIN calls', i < m PROVE calls'[i].op \in Harmless
    <3>1. Came(k, i) \in DOMAIN calls /\ calls'[i] = calls[Came(k, i)] /\ Came(k, i) < Came(k, m)
      BY <1>5, <1>6, <2>4
    <3> QED BY <2>2, <3>1
  <2> QED BY <2>3, <2>4
<1> QED BY <1>7, <1>8, <1>9, <1>10, <1>11, <1>12, <1>13, <1>14 DEF CardInv

\* Every step of the page keeps what is said of its card.
LEMMA CardStep == EditorInv /\ CardInv /\ Editor!Next => CardInv'
BY CardTyped, CardTimed, CardGestures, CardServed, CardRefused, CardFailed, CardAnswered DEF Editor!Next

\* Whatever the server serves, a gesture that was made on a page up to date changes one half.
LEMMA CardHolds == EditorInv /\ CardInv /\ Editor!Next => Editor!HalfIsKept
<1> SUFFICES ASSUME EditorInv, CardInv, Editor!Next,
                    NEW k \in DOMAIN calls, spent.inOrder, Pending(calls[k]), server' # server
             PROVE  LET before == Editor!Override(server, calls[k].arg.scope)
                        after == Editor!Override(server', calls[k].arg.scope)
                    IN  before.enabled = after.enabled \/ before.value = after.value
  BY DEF Editor!HalfIsKept, Editor!InOrder, Pending
<1>1. /\ Queue(calls) /\ CardShape /\ CardRequests
      /\ Half(calls[k]) /\ \A j \in DOMAIN calls : j < k => calls[j].op \in Harmless
  BY DEF EditorInv, CardInv, CardHalves
<1>2. CASE server'.overrides = server.overrides
  BY <1>2 DEF Editor!Override
<1>3. CASE \E m \in DOMAIN calls : Editor!ServeOne(m)
  <2>1. PICK m \in DOMAIN calls : Editor!ServeOne(m)
    BY <1>3
  <2>2. /\ server' = Editor!Effect(server, calls[m])
        /\ \A j \in 1..(m - 1) : calls[j].phase # "sent"
    BY <2>1 DEF Editor!ServeOne, Editor!Refuse, Editor!Serve, Editor!InOrder
  <2>3. m <= k
    <3>1. Len(calls) \in Nat /\ DOMAIN calls = 1..Len(calls)
      BY <1>1, QueueNumbers
    <3> QED BY <2>2, <3>1 DEF Pending
  <2>4. CASE m = k
    <3> DEFINE o == [x \in DOMAIN server.overrides \union {calls[k].arg.scope} |->
                       IF x = calls[k].arg.scope THEN calls[k].arg.override ELSE server.overrides[x]]
    <3>1. server' = [server EXCEPT !.overrides = o]
      BY <2>2, <2>4 DEF Editor!Effect, Pending
    <3>2. calls[k].arg.scope \in DOMAIN o /\ o[calls[k].arg.scope] = calls[k].arg.override
      OBVIOUS
    <3> HIDE DEF o
    <3>3. server'.overrides = o
      BY <1>1, <3>1 DEF CardShape
    <3>4. Editor!Override(server', calls[k].arg.scope) = calls[k].arg.override
      BY <3>2, <3>3 DEF Editor!Override
    <3> QED BY <1>1, <3>4 DEF Half
  <2>5. CASE m # k
    <3>1. m < k
      <4>1. Len(calls) \in Nat /\ DOMAIN calls = 1..Len(calls)
        BY <1>1, QueueNumbers
      <4> QED BY <2>3, <2>5, <4>1
    <3>2. server'.overrides = server.overrides
      BY <1>1, <2>2, <3>1, CardEffect DEF CardRequests, Harmless
    <3> QED BY <1>2, <3>2
  <2> QED BY <2>4, <2>5
<1>4. CASE Editor!Trip \/ Editor!EventArrives \/ Editor!EventLost
  BY <1>1, <1>2, <1>4 DEF Editor!Trip, Editor!EventArrives, Editor!EventLost, CardShape
<1>5. CASE /\ ~(Editor!Trip \/ Editor!EventArrives \/ Editor!EventLost)
           /\ ~\E m \in DOMAIN calls : Editor!ServeOne(m)
  BY <1>5 DEF Editor!Next, Editor!Type, Editor!TimerFires, Editor!Save, Editor!DeleteRule, Editor!RunDry, Editor!Select,
              Editor!TypeVariable, Editor!SaveVariables, Editor!ClearVariables, Editor!Reactivate, Editor!SetApplied,
              Editor!Gesture, Editor!Fail, Editor!HandleAnswer, Editor!HandleRefusal, Editor!Settle
<1> QED BY <1>3, <1>4, <1>5

-----------------------------------------------------------------------------
(* The findings: an undo restores, and the dialog is of its finding. *)

FindingsFields == {"tab", "rows", "snapshot", "arrived", "notice", "busy", "timer", "error", "dialog"}
RowActions == {"set", "undo", "verify"}
DialogActions == {"dialogSet", "dialogVerify"}

\* What a request is about.
FindingsRequest(c) ==
  /\ c.op \in {"load", "read"} \union Findings!Actions
  /\ c.op = "load" => /\ c.arg.ends \in {Findings!None} \union RowActions
                      /\ c.arg.ends = "set" => c.arg.change.item \in Items
  /\ c.op # "load" => c.arg.item \in Items
  /\ spent.faults = 0 => c.phase \in {"sent", "done"}
FindingsRequests == \A k \in DOMAIN calls : FindingsRequest(calls[k])

FindingsView ==
  /\ DOMAIN view = FindingsFields /\ DOMAIN view.dialog = {"item", "status", "busy"}
  /\ view.dialog # Findings!Closed => view.dialog.item \in Items
  /\ view.notice # Findings!NoNotice => view.notice.item \in Items
FindingsServer == DOMAIN server = {"status", "event"} /\ DOMAIN server.status = Items
FindingsSpent == Counted /\ "outside" \in DOMAIN spent /\ spent.outside \in Nat

\* Before the first move, everything is active and nothing is announced.
FindingsUndo0 ==
  spent.moves = 0 =>
    /\ \A k \in DOMAIN calls :
         /\ calls[k].op = "load" /\ calls[k].arg.ends = Findings!None
         /\ calls[k].phase = "done" => \A f \in DOMAIN calls[k].reply : calls[k].reply[f] = "active"
    /\ \A f \in Items : server.status[f] = "active"
    /\ \A f \in DOMAIN view.rows : view.rows[f] = "active"
    /\ view.notice = Findings!NoNotice /\ view.dialog.status = Findings!None

Ends(c) == c.op = "load" /\ c.arg.ends = "set"
Acts(c) == c.op \in Findings!Actions

\* After it, one action at most was asked, on something active, and what announces it comes after it.
FindingsUndo1 ==
  spent.moves = 1 =>
    /\ \A k \in DOMAIN calls : /\ calls[k].op # "undo"
                               /\ calls[k].op = "set" => calls[k].arg.from = "active"
                               /\ Ends(calls[k]) => calls[k].arg.change.from = "active"
    /\ view.notice # Findings!NoNotice => view.notice.from = "active"
    /\ \A j, k \in DOMAIN calls : Acts(calls[j]) /\ Acts(calls[k]) => j = k
    /\ view.notice # Findings!NoNotice => \A j \in DOMAIN calls : ~Acts(calls[j])
    /\ \A k \in DOMAIN calls : Ends(calls[k]) => \A j \in DOMAIN calls : ~Acts(calls[j])

\* After the second one, an undo gives "active" back, and no other action is on its way.
FindingsUndo2 ==
  spent.moves = 2 =>
    \A k \in DOMAIN calls : calls[k].op = "undo" =>
      /\ calls[k].arg.to = "active"
      /\ \A j \in DOMAIN calls : Acts(calls[j]) => j = k
      /\ calls[k].phase = "done" => server.status[calls[k].arg.item] = "active"

FindingsUndo == FindingsUndo0 /\ FindingsUndo1 /\ FindingsUndo2

\* Requests that are served in order: those that are served come first.
FindingsOrder ==
  spent.inOrder =>
    \A j, k \in DOMAIN calls : j < k /\ calls[k].phase = "done" => calls[j].phase # "sent"

\* The status of the dialog will be read again, or was read since the last action on its finding.
Reads(c, item) == c.op = "read" /\ c.arg.item = item
Undisturbed == spent.inOrder /\ spent.faults = 0 /\ spent.outside = 0 /\ view.dialog # Findings!Closed
FindingsRead ==
  Undisturbed =>
    \A j \in DOMAIN calls : calls[j].op \in RowActions /\ calls[j].arg.item = view.dialog.item /\ calls[j].phase = "sent" =>
      \E k \in DOMAIN calls : k > j /\ Reads(calls[k], view.dialog.item) /\ calls[k].phase = "sent"
FindingsFresh ==
  Undisturbed =>
    \/ \E k \in DOMAIN calls : Reads(calls[k], view.dialog.item) /\ calls[k].phase = "sent"
    \/ \E k \in DOMAIN calls : calls[k].op \in DialogActions /\ calls[k].arg.item = view.dialog.item
    \/ \E k \in DOMAIN calls : /\ Reads(calls[k], view.dialog.item) /\ calls[k].phase = "done"
                               /\ calls[k].reply = server.status[view.dialog.item]
                               /\ \A j \in DOMAIN calls : Reads(calls[j], view.dialog.item) => j <= k
    \/ /\ \A k \in DOMAIN calls : ~Reads(calls[k], view.dialog.item)
       /\ view.dialog.status = server.status[view.dialog.item]

FindingsBase == Queue(calls) /\ FindingsRequests /\ FindingsView /\ FindingsServer /\ FindingsSpent
FindingsDialog == FindingsOrder /\ FindingsRead /\ FindingsFresh
FindingsInv == FindingsBase /\ FindingsUndo /\ FindingsDialog

\* A request of the page has the four fields of a request.
LEMMA FindingsAsk ==
  \A op, arg : LET c == Findings!Request(op, arg) IN Shaped(c) /\ c.op = op /\ c.arg = arg /\ c.phase = "sent"
BY DEF Findings!Request, Shaped

\* The page opens on what is active.
LEMMA FindingsInit == Findings!Init => FindingsInv
<1> SUFFICES ASSUME Findings!Init PROVE FindingsInv
  OBVIOUS
<1>1. PICK c : /\ calls = <<c>> /\ Shaped(c) /\ c.op = "load" /\ c.phase = "sent" /\ c.arg.ends = Findings!None
  BY FindingsAsk DEF Findings!Init, Findings!Reload
<1>2. Queue(calls) /\ DOMAIN calls = {1} /\ calls[1] = c
  BY <1>1, Asked
<1>3. Counted /\ spent.moves = 0 /\ "outside" \in DOMAIN spent /\ spent.outside = 0
  <2>1. Findings!Unspent([outside |-> 0])
    BY DEF Findings!Init
  <2>2. PICK ordered :
          spent = LET bounds == [moves |-> 0, faults |-> 0, inOrder |-> ordered]
                      h == [outside |-> 0]
                  IN  [x \in DOMAIN bounds \union DOMAIN h |-> IF x \in DOMAIN bounds THEN bounds[x] ELSE h[x]]
    BY <2>1 DEF Findings!Unspent
  <2>3. Counted /\ spent.moves = 0
    BY <2>2, Opens
  <2>4. "outside" \in DOMAIN spent /\ spent["outside"] = 0
    BY <2>2
  <2> QED BY <2>3, <2>4
<1>4. /\ DOMAIN view = FindingsFields /\ view.dialog = Findings!Closed /\ view.notice = Findings!NoNotice
      /\ view.rows = << >>
  BY DEF Findings!Init, FindingsFields
<1>5. /\ DOMAIN server = {"status", "event"} /\ DOMAIN server.status = Items
      /\ \A f \in Items : server.status[f] = "active"
  BY DEF Findings!Init
<1>6. FindingsBase
  <2>1. FindingsRequests
    BY <1>1, <1>2 DEF FindingsRequests, FindingsRequest, Findings!None, Findings!Actions
  <2>2. FindingsView
    BY <1>4 DEF FindingsView, Findings!Closed
  <2>3. FindingsServer /\ FindingsSpent
    BY <1>3, <1>5 DEF FindingsServer, FindingsSpent
  <2> QED BY <1>2, <2>1, <2>2, <2>3 DEF FindingsBase
<1>7. FindingsUndo
  <2>1. DOMAIN view.rows = {}
    BY <1>4
  <2> QED BY <1>1, <1>2, <1>3, <1>4, <1>5, <2>1 DEF FindingsUndo, FindingsUndo0, FindingsUndo1, FindingsUndo2, Findings!Closed
<1>8. FindingsDialog
  BY <1>1, <1>2, <1>4 DEF FindingsDialog, FindingsOrder, FindingsRead, FindingsFresh, Undisturbed
<1> QED BY <1>6, <1>7, <1>8 DEF FindingsInv

\* Nothing is asked but a reload, and the dialog is left as it is or closed.
LEMMA FindingsAside ==
  ASSUME FindingsInv, UNCHANGED spent,
         FindingsServer', server'.status = server.status,
         DOMAIN view' = DOMAIN view, view'.rows = view.rows, view'.notice = view.notice,
         view'.dialog = view.dialog \/ view'.dialog = Findings!Closed,
         calls' = calls \/ \E tab : calls' = Append(calls, Findings!Reload(tab))
  PROVE  FindingsInv'
<1>1. /\ Queue(calls) /\ FindingsRequests /\ FindingsView /\ FindingsServer /\ FindingsSpent
  BY DEF FindingsInv, FindingsBase
<1>2. FindingsUndo0 /\ FindingsUndo1 /\ FindingsUndo2 /\ FindingsOrder /\ FindingsRead /\ FindingsFresh
  BY DEF FindingsInv, FindingsUndo, FindingsDialog
\* What waits: what waited, and perhaps a reload.
<1>3. /\ Queue(calls')
      /\ \A j \in DOMAIN calls : j \in DOMAIN calls' /\ calls'[j] = calls[j]
      /\ \A i \in DOMAIN calls' :
           \/ i \in DOMAIN calls /\ calls'[i] = calls[i]
           \/ /\ calls'[i].op = "load" /\ calls'[i].arg.ends = Findings!None /\ calls'[i].phase = "sent"
              /\ \A j \in DOMAIN calls : j < i
  <2>1. CASE calls' = calls
    BY <1>1, <2>1
  <2>2. ASSUME NEW tab, calls' = Append(calls, Findings!Reload(tab))
        PROVE  /\ Queue(calls')
               /\ \A j \in DOMAIN calls : j \in DOMAIN calls' /\ calls'[j] = calls[j]
               /\ \A i \in DOMAIN calls' :
                    \/ i \in DOMAIN calls /\ calls'[i] = calls[i]
                    \/ /\ calls'[i].op = "load" /\ calls'[i].arg.ends = Findings!None /\ calls'[i].phase = "sent"
                       /\ \A j \in DOMAIN calls : j < i
    <3>1. PICK c : /\ Shaped(c) /\ c.op = "load" /\ c.arg.ends = Findings!None /\ c.phase = "sent"
                   /\ calls' = Append(calls, c)
      BY <2>2, FindingsAsk DEF Findings!Reload
    <3>2. Queue(calls') /\ \A j \in DOMAIN calls : j \in DOMAIN calls' /\ calls'[j] = calls[j]
      BY <1>1, <3>1, OneSent
    <3>3. \A i \in DOMAIN calls' : \/ i \in DOMAIN calls /\ calls'[i] = calls[i]
                                   \/ i = Len(calls) + 1 /\ calls'[i] = c
      BY <1>1, <3>1, OneSent
    <3>4. \A j \in DOMAIN calls : j < Len(calls) + 1
      BY <1>1, QueueNumbers
    <3> QED BY <3>1, <3>2, <3>3, <3>4
  <2> QED BY <2>1, <2>2
<1>4. FindingsBase'
  <2>1. FindingsRequests'
    BY <1>1, <1>3 DEF FindingsRequests, FindingsRequest, Findings!None, Findings!Actions
  <2>2. FindingsView'
    BY <1>1 DEF FindingsView, Findings!Closed
  <2>3. FindingsSpent'
    BY <1>1 DEF FindingsSpent, Counted
  <2> QED BY <1>3, <2>1, <2>2, <2>3 DEF FindingsBase
<1>5. FindingsUndo'
  <2>1. FindingsUndo0'
    <3>1. FindingsServer /\ (view'.dialog.status = view.dialog.status \/ view'.dialog.status = Findings!None)
      BY <1>1 DEF Findings!Closed
    <3> QED BY <1>2, <1>3, <3>1 DEF FindingsUndo0
  <2>2. FindingsUndo1'
    BY <1>2, <1>3 DEF FindingsUndo1, Acts, Ends, Findings!Actions, Findings!None
  <2>3. FindingsUndo2'
    BY <1>2, <1>3 DEF FindingsUndo2, Acts, Findings!Actions
  <2> QED BY <2>1, <2>2, <2>3 DEF FindingsUndo
<1>6. FindingsDialog'
  <2>1. FindingsOrder'
    <3>1. \A j, k \in DOMAIN calls : j < k => ~(k < j)
      BY <1>1, QueueNumbers
    <3> QED BY <1>2, <1>3, <3>1 DEF FindingsOrder
  <2>2. Undisturbed' => Undisturbed /\ view'.dialog = view.dialog
    BY DEF Undisturbed
  <2>3. FindingsRead'
    BY <1>2, <1>3, <2>2 DEF FindingsRead, RowActions
  <2>4. FindingsFresh'
    BY <1>2, <1>3, <2>2 DEF FindingsFresh, Reads
  <2> QED BY <2>1, <2>3, <2>4 DEF FindingsDialog
<1> QED BY <1>4, <1>5, <1>6 DEF FindingsInv

\* The dialog closes, an event arrives or is lost, the timer of a burst fires.
LEMMA FindingsTimed ==
  ASSUME FindingsInv, Findings!Close \/ Findings!EventArrives \/ Findings!EventLost \/ Findings!TimerFires
  PROVE  FindingsInv'
<1>1. FindingsView /\ FindingsServer
  BY DEF FindingsInv, FindingsBase
<1>2. CASE Findings!Close
  <2>1. /\ DOMAIN view' = DOMAIN view /\ view'.rows = view.rows /\ view'.notice = view.notice
        /\ view'.dialog = Findings!Closed
    BY <1>1, <1>2 DEF Findings!Close, FindingsView, FindingsFields
  <2>2. UNCHANGED <<server, spent, calls>> /\ FindingsServer'
    BY <1>1, <1>2 DEF Findings!Close, FindingsServer
  <2> QED BY <2>1, <2>2, FindingsAside
<1>3. CASE Findings!EventArrives
  <2>1. /\ DOMAIN view' = DOMAIN view /\ view'.rows = view.rows /\ view'.notice = view.notice
        /\ view'.dialog = view.dialog
    BY <1>1, <1>3 DEF Findings!EventArrives, FindingsView, FindingsFields
  <2>2. FindingsServer' /\ server'.status = server.status
    BY <1>1, <1>3 DEF Findings!EventArrives, FindingsServer
  <2> QED BY <1>3, <2>1, <2>2, FindingsAside DEF Findings!EventArrives
<1>4. CASE Findings!TimerFires
  <2>1. /\ DOMAIN view' = DOMAIN view /\ view'.rows = view.rows /\ view'.notice = view.notice
        /\ view'.dialog = view.dialog
    BY <1>1, <1>4 DEF Findings!TimerFires, FindingsView, FindingsFields
  <2>2. UNCHANGED <<server, spent>> /\ FindingsServer'
    BY <1>1, <1>4 DEF Findings!TimerFires, FindingsServer
  <2>3. \E tab : calls' = Append(calls, Findings!Reload(tab))
    BY <1>4 DEF Findings!TimerFires
  <2> QED BY <2>1, <2>2, <2>3, FindingsAside
<1>5. CASE Findings!EventLost
  <2>1. UNCHANGED <<view, calls, spent>> /\ server' = [server EXCEPT !.event = Findings!Lost]
    BY <1>5 DEF Findings!EventLost
  <2>2. FindingsServer' /\ server'.status = server.status
    BY <1>1, <2>1 DEF FindingsServer
  <2> QED BY <2>1, <2>2, FindingsAside
<1> QED BY <1>2, <1>3, <1>4, <1>5

\* What a gesture may ask: it is counted, it changes no row, and it announces nothing.
FindingsGesture(n) ==
  /\ spent' = [spent EXCEPT !.moves = @ + 1] /\ UNCHANGED server
  /\ calls' = calls \o <<n>> /\ Shaped(n) /\ n.phase = "sent" /\ FindingsRequest(n) /\ ~Ends(n)
  /\ DOMAIN view' = DOMAIN view /\ DOMAIN view'.dialog = DOMAIN view.dialog
  /\ view'.notice = view.notice \/ view'.notice = Findings!NoNotice
  /\ n.op = "undo" => view.notice # Findings!NoNotice /\ n.arg.to = view.notice.from
  /\ spent.moves = 0 => (n.op = "set" => n.arg.from = "active")
  /\ \/ view'.dialog = Findings!Closed
     \/ view'.dialog.item \in Items /\ Reads(n, view'.dialog.item)
     \/ /\ view.dialog # Findings!Closed /\ view'.dialog.item = view.dialog.item
        /\ n.op \in DialogActions /\ n.arg.item = view.dialog.item

\* A gesture keeps what the properties of the page rest on.
LEMMA FindingsGestured ==
  ASSUME FindingsInv, NEW n, FindingsGesture(n)
  PROVE  FindingsInv'
<1>1. /\ Queue(calls) /\ FindingsRequests /\ FindingsView /\ FindingsServer /\ FindingsSpent
  BY DEF FindingsInv, FindingsBase
<1>2. FindingsUndo0 /\ FindingsUndo1 /\ FindingsUndo2 /\ FindingsOrder /\ FindingsRead /\ FindingsFresh
  BY DEF FindingsInv, FindingsUndo, FindingsDialog
<1>3. /\ Queue(calls')
      /\ \A j \in DOMAIN calls : j \in DOMAIN calls' /\ calls'[j] = calls[j]
      /\ Len(calls) + 1 \in DOMAIN calls' /\ calls'[Len(calls) + 1] = n
      /\ \A i \in DOMAIN calls' :
           \/ i \in DOMAIN calls /\ calls'[i] = calls[i]
           \/ i = Len(calls) + 1 /\ calls'[i] = n
  <2>1. Queue(calls') /\ \A j \in DOMAIN calls : j \in DOMAIN calls' /\ calls'[j] = calls[j]
    BY <1>1, OneSent DEF FindingsGesture
  <2>2. Len(calls) + 1 \in DOMAIN calls' /\ calls'[Len(calls) + 1] = n
    BY <1>1, OneSent DEF FindingsGesture
  <2>3. \A i \in DOMAIN calls' : \/ i \in DOMAIN calls /\ calls'[i] = calls[i]
                                 \/ i = Len(calls) + 1 /\ calls'[i] = n
    BY <1>1, OneSent DEF FindingsGesture
  <2> QED BY <2>1, <2>2, <2>3
<1>4. /\ DOMAIN spent' = DOMAIN spent /\ spent'.moves = spent.moves + 1 /\ spent.moves \in Nat
      /\ spent'.faults = spent.faults /\ spent'.inOrder = spent.inOrder /\ spent'.outside = spent.outside
  BY <1>1 DEF FindingsGesture, FindingsSpent, Counted
<1>5. FindingsBase'
  <2>1. FindingsRequest(n)'
    BY <1>4 DEF FindingsGesture, FindingsRequest
  <2>2. FindingsRequests'
    BY <1>1, <1>3, <1>4, <2>1 DEF FindingsRequests, FindingsRequest
  <2>3. FindingsView'
    <3>1. view'.dialog # Findings!Closed => view'.dialog.item \in Items
      BY <1>1 DEF FindingsGesture, FindingsView
    <3> QED BY <1>1, <3>1 DEF FindingsGesture, FindingsView
  <2>4. FindingsServer' /\ FindingsSpent'
    BY <1>1, <1>4 DEF FindingsGesture, FindingsServer, FindingsSpent, Counted
  <2> QED BY <1>3, <2>2, <2>3, <2>4 DEF FindingsBase
<1>6. FindingsUndo'
  <2>1. FindingsUndo0'
    BY <1>4 DEF FindingsUndo0
  <2>2. FindingsUndo1'
    <3> SUFFICES ASSUME spent.moves = 0 PROVE FindingsUndo1'
      BY <1>4 DEF FindingsUndo1
    <3>1. /\ \A k \in DOMAIN calls : ~Acts(calls[k]) /\ ~Ends(calls[k])
          /\ view'.notice = Findings!NoNotice
      BY <1>2 DEF FindingsUndo0, FindingsGesture, Acts, Ends, Findings!Actions, Findings!None
    <3>2. n.op # "undo" /\ (n.op = "set" => n.arg.from = "active") /\ ~Ends(n)
      BY <1>2 DEF FindingsUndo0, FindingsGesture
    <3>3. \A k \in DOMAIN calls' : /\ calls'[k].op # "undo"
                                   /\ calls'[k].op = "set" => calls'[k].arg.from = "active"
                                   /\ ~Ends(calls'[k])
      BY <1>3, <3>1, <3>2 DEF Acts, Findings!Actions
    <3>4. \A j, k \in DOMAIN calls' : Acts(calls'[j]) /\ Acts(calls'[k]) => j = k
      BY <1>3, <3>1
    <3> QED BY <3>1, <3>3, <3>4 DEF FindingsUndo1
  <2>3. FindingsUndo2'
    <3> SUFFICES ASSUME spent.moves = 1 PROVE FindingsUndo2'
      BY <1>4 DEF FindingsUndo2
    <3>1. \A k \in DOMAIN calls : calls[k].op # "undo"
      BY <1>2 DEF FindingsUndo1
    <3>2. n.op = "undo" => n.arg.to = "active" /\ n.phase = "sent" /\ \A j \in DOMAIN calls : ~Acts(calls[j])
      BY <1>2 DEF FindingsUndo1, FindingsGesture
    <3> QED BY <1>3, <3>1, <3>2 DEF FindingsUndo2
  <2> QED BY <2>1, <2>2, <2>3 DEF FindingsUndo
<1>7. FindingsDialog'
  <2>0. \A j \in DOMAIN calls : j < Len(calls) + 1
    BY <1>1, QueueNumbers
  <2>1. FindingsOrder'
    <3>1. \A j, k \in DOMAIN calls' : j < k => j \in DOMAIN calls
      <4>1. Len(calls) \in Nat /\ DOMAIN calls = 1..Len(calls)
        BY <1>1, QueueNumbers
      <4>2. \A j, k \in Nat : j = Len(calls) + 1 /\ k \in 1..Len(calls) => ~(j < k)
        BY <4>1
      <4>3. ~(Len(calls) + 1 < Len(calls) + 1)
        BY <4>1
      <4>4. \A k \in DOMAIN calls : k \in Nat /\ Len(calls) + 1 \in Nat
        BY <4>1
      <4> QED BY <1>3, <4>1, <4>2, <4>3, <4>4
    <3> QED BY <1>2, <1>3, <1>4, <3>1 DEF FindingsOrder, FindingsGesture
  <2>2. CASE view'.dialog = Findings!Closed
    BY <2>1, <2>2 DEF FindingsDialog, FindingsRead, FindingsFresh, Undisturbed
  <2>3. CASE view'.dialog # Findings!Closed /\ Reads(n, view'.dialog.item)
    <3>1. n.phase = "sent" /\ n.op \notin RowActions
      BY <2>3 DEF FindingsGesture, Reads, RowActions
    <3>2. FindingsRead'
      BY <1>3, <2>0, <2>3, <3>1 DEF FindingsRead
    <3>3. FindingsFresh'
      BY <1>3, <2>3, <3>1 DEF FindingsFresh
    <3> QED BY <2>1, <3>2, <3>3 DEF FindingsDialog
  <2>4. CASE /\ view.dialog # Findings!Closed /\ view'.dialog.item = view.dialog.item
             /\ n.op \in DialogActions /\ n.arg.item = view.dialog.item
    <3>1. Undisturbed' => Undisturbed
      BY <1>4, <2>4 DEF Undisturbed
    <3>2. FindingsRead'
      BY <1>2, <1>3, <2>4, <3>1 DEF FindingsRead, RowActions, DialogActions
    <3>3. FindingsFresh'
      BY <1>3, <2>4 DEF FindingsFresh
    <3> QED BY <2>1, <3>2, <3>3 DEF FindingsDialog
  <2> QED BY <2>2, <2>3, <2>4 DEF FindingsGesture
<1> QED BY <1>5, <1>6, <1>7 DEF FindingsInv

\* The gestures of the operator.
LEMMA FindingsGestures ==
  ASSUME FindingsInv,
         \/ \E tab \in Findings!Tabs : Findings!SwitchTab(tab)
         \/ \E f \in Items : Findings!ChangeStatus(f) \/ Findings!Verify(f) \/ Findings!Open(f)
         \/ Findings!Undo
         \/ \E op \in {"dialogSet", "dialogVerify"} : Findings!ActInDialog(op)
  PROVE  FindingsInv'
<1>1. /\ FindingsView /\ FindingsUndo0
  BY DEF FindingsInv, FindingsBase, FindingsUndo
<1>2. /\ DOMAIN view = FindingsFields /\ DOMAIN view.dialog = {"item", "status", "busy"}
      /\ view.dialog # Findings!Closed => view.dialog.item \in Items
      /\ view.notice # Findings!NoNotice => view.notice.item \in Items
  BY <1>1 DEF FindingsView
<1>3. ASSUME NEW tab, Findings!SwitchTab(tab) PROVE FindingsInv'
  <2> DEFINE n == Findings!Reload(tab)
  <2>0. Shaped(n) /\ n.op = "load" /\ n.arg.ends = Findings!None /\ n.phase = "sent"
    BY FindingsAsk DEF Findings!Reload, Findings!Change
  <2>1. calls' = calls \o <<n>> /\ Shaped(n) /\ n.op = "load" /\ n.arg.ends = Findings!None /\ n.phase = "sent"
    BY <1>3, <2>0 DEF Findings!SwitchTab, Findings!Gesture
  <2> HIDE DEF n
  <2>2. /\ DOMAIN view' = DOMAIN view /\ view'.notice = view.notice /\ view'.dialog = view.dialog
        /\ view.dialog = Findings!Closed
    BY <1>2, <1>3 DEF Findings!SwitchTab, Findings!Gesture, FindingsFields
  <2>3. FindingsRequest(n) /\ ~Ends(n)
    BY <2>1 DEF FindingsRequest, Ends, Findings!None, Findings!Actions
  <2>4. UNCHANGED server /\ spent' = [spent EXCEPT !.moves = @ + 1]
    BY <1>3 DEF Findings!SwitchTab, Findings!Gesture, Findings!Spend
  <2>5. FindingsGesture(n)
    BY <2>1, <2>2, <2>3, <2>4 DEF FindingsGesture
  <2> QED BY <2>5, FindingsGestured
<1>4. ASSUME NEW f \in Items, Findings!ChangeStatus(f) PROVE FindingsInv'
  <2> DEFINE n == Findings!Change("set", f, view.rows[f], Findings!Opposite(view.rows[f]), view.tab)
  <2>0. Shaped(n) /\ n.op = "set" /\ n.phase = "sent" /\ n.arg.item = f /\ n.arg.from = view.rows[f]
    BY FindingsAsk DEF Findings!Reload, Findings!Change
  <2>1. calls' = calls \o <<n>> /\ Shaped(n) /\ n.op = "set" /\ n.phase = "sent" /\ n.arg.item = f /\ n.arg.from = view.rows[f]
    BY <1>4, <2>0 DEF Findings!ChangeStatus, Findings!Gesture
  <2> HIDE DEF n
  <2>2. /\ DOMAIN view' = DOMAIN view /\ view'.notice = Findings!NoNotice /\ view'.dialog = view.dialog
        /\ view.dialog = Findings!Closed /\ f \in DOMAIN view.rows
    BY <1>2, <1>4 DEF Findings!ChangeStatus, Findings!Free, Findings!Gesture, FindingsFields
  <2>3. FindingsRequest(n) /\ ~Ends(n)
    BY <2>1 DEF FindingsRequest, Ends, Findings!Actions
  <2>4. UNCHANGED server /\ spent' = [spent EXCEPT !.moves = @ + 1]
    BY <1>4 DEF Findings!ChangeStatus, Findings!Gesture, Findings!Spend
  <2>5. spent.moves = 0 => n.arg.from = "active"
    BY <1>1, <2>1, <2>2 DEF FindingsUndo0
  <2>6. FindingsGesture(n)
    BY <2>1, <2>2, <2>3, <2>4, <2>5 DEF FindingsGesture
  <2> QED BY <2>6, FindingsGestured
<1>5. ASSUME NEW f \in Items, Findings!Verify(f) PROVE FindingsInv'
  <2> DEFINE n == Findings!Change("verify", f, view.rows[f], "resolved", view.tab)
  <2>0. Shaped(n) /\ n.op = "verify" /\ n.phase = "sent" /\ n.arg.item = f
    BY FindingsAsk DEF Findings!Reload, Findings!Change
  <2>1. calls' = calls \o <<n>> /\ Shaped(n) /\ n.op = "verify" /\ n.phase = "sent" /\ n.arg.item = f
    BY <1>5, <2>0 DEF Findings!Verify, Findings!Gesture
  <2> HIDE DEF n
  <2>2. /\ DOMAIN view' = DOMAIN view /\ view'.notice = Findings!NoNotice /\ view'.dialog = view.dialog
        /\ view.dialog = Findings!Closed
    BY <1>2, <1>5 DEF Findings!Verify, Findings!Gesture, FindingsFields
  <2>3. FindingsRequest(n) /\ ~Ends(n)
    BY <2>1 DEF FindingsRequest, Ends, Findings!Actions
  <2>4. UNCHANGED server /\ spent' = [spent EXCEPT !.moves = @ + 1]
    BY <1>5 DEF Findings!Verify, Findings!Gesture, Findings!Spend
  <2>5. FindingsGesture(n)
    BY <2>1, <2>2, <2>3, <2>4 DEF FindingsGesture
  <2> QED BY <2>5, FindingsGestured
<1>6. ASSUME NEW f \in Items, Findings!Open(f) PROVE FindingsInv'
  <2> DEFINE n == Findings!Request("read", [item |-> f, ends |-> Findings!None])
  <2>0. Shaped(n) /\ n.op = "read" /\ n.phase = "sent" /\ n.arg.item = f
    BY FindingsAsk DEF Findings!Reload, Findings!Change
  <2>1. calls' = calls \o <<n>> /\ Shaped(n) /\ n.op = "read" /\ n.phase = "sent" /\ n.arg.item = f
    BY <1>6, <2>0 DEF Findings!Open, Findings!Gesture
  <2> HIDE DEF n
  <2>2. /\ DOMAIN view' = DOMAIN view /\ view'.notice = view.notice
        /\ view'.dialog = [Findings!Closed EXCEPT !.item = f]
    BY <1>2, <1>6 DEF Findings!Open, Findings!Gesture, FindingsFields
  <2>3. DOMAIN view'.dialog = DOMAIN view.dialog /\ view'.dialog.item = f
    BY <1>2, <2>2 DEF Findings!Closed
  <2>4. FindingsRequest(n) /\ ~Ends(n)
    BY <2>1 DEF FindingsRequest, Ends, Findings!Actions
  <2>5. UNCHANGED server /\ spent' = [spent EXCEPT !.moves = @ + 1]
    BY <1>6 DEF Findings!Open, Findings!Gesture, Findings!Spend
  <2>6. FindingsGesture(n)
    BY <2>1, <2>2, <2>3, <2>4, <2>5 DEF FindingsGesture, Reads
  <2> QED BY <2>6, FindingsGestured
<1>7. CASE Findings!Undo
  <2> DEFINE n == Findings!Change("undo", view.notice.item, view.notice.to, view.notice.from, view.notice.tab)
  <2>0. Shaped(n) /\ n.op = "undo" /\ n.phase = "sent" /\ n.arg.item = view.notice.item /\ n.arg.to = view.notice.from
    BY FindingsAsk DEF Findings!Reload, Findings!Change
  <2>1. calls' = calls \o <<n>> /\ Shaped(n) /\ n.op = "undo" /\ n.phase = "sent" /\ n.arg.item = view.notice.item /\ n.arg.to = view.notice.from
    BY <1>7, <2>0 DEF Findings!Undo, Findings!Gesture
  <2> HIDE DEF n
  <2>2. /\ DOMAIN view' = DOMAIN view /\ view'.notice = Findings!NoNotice /\ view'.dialog = view.dialog
        /\ view.dialog = Findings!Closed /\ view.notice # Findings!NoNotice
    BY <1>2, <1>7 DEF Findings!Undo, Findings!Gesture, FindingsFields
  <2>3. FindingsRequest(n) /\ ~Ends(n)
    BY <1>2, <2>1, <2>2 DEF FindingsRequest, Ends, Findings!Actions
  <2>4. UNCHANGED server /\ spent' = [spent EXCEPT !.moves = @ + 1]
    BY <1>7 DEF Findings!Undo, Findings!Gesture, Findings!Spend
  <2>5. FindingsGesture(n)
    BY <2>1, <2>2, <2>3, <2>4 DEF FindingsGesture
  <2> QED BY <2>5, FindingsGestured
<1>8. ASSUME NEW op \in {"dialogSet", "dialogVerify"}, Findings!ActInDialog(op) PROVE FindingsInv'
  <2> DEFINE n == Findings!Change(op, view.dialog.item, view.dialog.status,
                               IF op = "dialogSet" THEN Findings!Opposite(view.dialog.status) ELSE "resolved", view.tab)
  <2>0. Shaped(n) /\ n.op = op /\ n.phase = "sent" /\ n.arg.item = view.dialog.item
    BY FindingsAsk DEF Findings!Reload, Findings!Change
  <2>1. calls' = calls \o <<n>> /\ Shaped(n) /\ n.op = op /\ n.phase = "sent" /\ n.arg.item = view.dialog.item
    BY <1>8, <2>0 DEF Findings!ActInDialog, Findings!Gesture
  <2> HIDE DEF n
  <2>2. view' = [view EXCEPT !.dialog.busy = TRUE]
    BY <1>8 DEF Findings!ActInDialog, Findings!Gesture
  <2>3. /\ DOMAIN view' = DOMAIN view /\ view'.notice = view.notice
        /\ DOMAIN view'.dialog = DOMAIN view.dialog /\ view'.dialog.item = view.dialog.item
    BY <1>2, <2>2 DEF FindingsFields
  <2>4. view.dialog # Findings!Closed
    BY <1>8 DEF Findings!ActInDialog, Findings!Closed
  <2>5. FindingsRequest(n) /\ ~Ends(n)
    BY <1>2, <2>1, <2>4 DEF FindingsRequest, Ends, Findings!Actions
  <2>6. UNCHANGED server /\ spent' = [spent EXCEPT !.moves = @ + 1]
    BY <1>8 DEF Findings!ActInDialog, Findings!Gesture, Findings!Spend
  <2>7. FindingsGesture(n)
    BY <2>1, <2>3, <2>4, <2>5, <2>6 DEF FindingsGesture, DialogActions
  <2> QED BY <2>7, FindingsGestured
<1> QED BY <1>3, <1>4, <1>5, <1>6, <1>7, <1>8

\* A finding changes apart from the page.
LEMMA FindingsApart ==
  ASSUME FindingsInv, NEW f \in Items, NEW s \in Findings!Statuses, Findings!Outside(f, s)
  PROVE  FindingsInv'
<1>1. /\ Queue(calls) /\ FindingsRequests /\ FindingsView /\ FindingsServer /\ FindingsSpent
  BY DEF FindingsInv, FindingsBase
<1>2. FindingsUndo0 /\ FindingsUndo1 /\ FindingsOrder
  BY DEF FindingsInv, FindingsUndo, FindingsDialog
<1>3. /\ DOMAIN spent' = DOMAIN spent /\ spent'.moves = spent.moves + 1 /\ spent.moves \in Nat
      /\ spent'.faults = spent.faults /\ spent'.inOrder = spent.inOrder
      /\ spent'.outside = spent.outside + 1 /\ spent.outside \in Nat
      /\ UNCHANGED <<view, calls>>
  BY <1>1 DEF Findings!Outside, FindingsSpent, Counted
<1>4. FindingsBase'
  <2>1. FindingsServer'
    BY <1>1 DEF Findings!Outside, FindingsServer
  <2> QED BY <1>1, <1>3, <2>1
          DEF FindingsBase, FindingsRequests, FindingsRequest, FindingsView, FindingsSpent, Counted
<1>5. FindingsUndo'
  <2>1. spent'.moves # 0 /\ (spent'.moves = 1 => spent.moves = 0) /\ (spent'.moves = 2 => spent.moves = 1)
    BY <1>3
  <2>2. FindingsUndo1'
    BY <1>2, <1>3, <2>1 DEF FindingsUndo0, FindingsUndo1, Acts, Ends, Findings!Actions, Findings!None
  <2>3. FindingsUndo2'
    BY <1>2, <1>3, <2>1 DEF FindingsUndo1, FindingsUndo2
  <2> QED BY <2>1, <2>2, <2>3 DEF FindingsUndo, FindingsUndo0
<1>6. FindingsDialog'
  <2>1. spent'.outside # 0
    BY <1>3
  <2> QED BY <1>2, <1>3, <2>1 DEF FindingsDialog, FindingsOrder, FindingsRead, FindingsFresh, Undisturbed
<1> QED BY <1>4, <1>5, <1>6 DEF FindingsInv

\* The network fails.
LEMMA FindingsFailed ==
  ASSUME FindingsInv, NEW k \in DOMAIN calls, Findings!Fail(k)
  PROVE  FindingsInv'
<1>1. /\ Queue(calls) /\ FindingsRequests /\ FindingsView /\ FindingsServer /\ FindingsSpent
  BY DEF FindingsInv, FindingsBase
<1>2. FindingsUndo0 /\ FindingsUndo1 /\ FindingsOrder
  BY DEF FindingsInv, FindingsUndo, FindingsDialog
<1>3. /\ DOMAIN spent' = DOMAIN spent /\ spent'.moves = spent.moves + 1 /\ spent.moves \in Nat
      /\ spent'.faults = spent.faults + 1 /\ spent.faults \in Nat /\ spent'.inOrder = spent.inOrder
      /\ spent'.outside = spent.outside /\ UNCHANGED <<server, view>>
  BY <1>1 DEF Findings!Fail, FindingsSpent, Counted
<1>4. spent'.faults # 0
  BY <1>3
<1>5. /\ Queue(calls') /\ DOMAIN calls' = DOMAIN calls
      /\ \A j \in DOMAIN calls : calls'[j].op = calls[j].op /\ calls'[j].arg = calls[j].arg
      /\ \A j \in DOMAIN calls : j # k => calls'[j] = calls[j]
      /\ calls'[k].phase = "refused"
  <2>1. Becomes(k, "refused", Findings!None)
    BY DEF Findings!Fail, Becomes
  <2>2. Queue(calls') /\ DOMAIN calls' = DOMAIN calls
    BY <1>1, <2>1, OneServed
  <2>3. \A j \in DOMAIN calls : calls'[j].op = calls[j].op /\ calls'[j].arg = calls[j].arg
    BY <1>1, <2>1, OneServed
  <2>4. (\A j \in DOMAIN calls : j # k => calls'[j] = calls[j]) /\ calls'[k].phase = "refused"
    BY <1>1, <2>1, OneServed
  <2> QED BY <2>2, <2>3, <2>4
<1>6. FindingsBase'
  <2>1. FindingsRequests'
    BY <1>1, <1>4, <1>5 DEF FindingsRequests, FindingsRequest
  <2> QED BY <1>1, <1>3, <1>5, <2>1 DEF FindingsBase, FindingsView, FindingsServer, FindingsSpent, Counted
<1>7. FindingsUndo'
  <2>1. spent'.moves # 0 /\ (spent'.moves = 1 => spent.moves = 0) /\ (spent'.moves = 2 => spent.moves = 1)
    BY <1>3
  <2>2. FindingsUndo1'
    BY <1>2, <1>3, <1>5, <2>1 DEF FindingsUndo0, FindingsUndo1, Acts, Ends, Findings!Actions, Findings!None
  <2>3. FindingsUndo2'
    BY <1>2, <1>3, <1>5, <2>1 DEF FindingsUndo1, FindingsUndo2
  <2> QED BY <2>1, <2>2, <2>3 DEF FindingsUndo, FindingsUndo0
<1>8. FindingsDialog'
  <2>1. FindingsOrder'
    BY <1>2, <1>3, <1>5 DEF FindingsOrder
  <2> QED BY <1>4, <2>1 DEF FindingsDialog, FindingsRead, FindingsFresh, Undisturbed
<1> QED BY <1>6, <1>7, <1>8 DEF FindingsInv

\* What the server does of a request: only an action changes a status, that of its finding.
FindingsService(k, s, reply) ==
  LET c == calls[k]
  IN  /\ Findings!Serve(k, s, reply)
      /\ DOMAIN s = {"status", "event"} /\ DOMAIN s.status = Items
      /\ ~Acts(c) => s.status = server.status
      /\ Acts(c) => \A f \in Items : f # c.arg.item => s.status[f] = server.status[f]
      /\ c.op = "undo" => s.status[c.arg.item] = c.arg.to
      /\ c.op = "read" => reply = server.status[c.arg.item]
      /\ c.op = "load" => \A f \in DOMAIN reply : f \in Items /\ reply[f] = server.status[f]

\* So does what the server does.
LEMMA FindingsServed ==
  ASSUME FindingsInv, NEW k \in DOMAIN calls, NEW s, NEW reply, FindingsService(k, s, reply)
  PROVE  FindingsInv'
<1> DEFINE c == calls[k]
<1>1. /\ Queue(calls) /\ FindingsRequests /\ FindingsView /\ FindingsServer /\ FindingsSpent
  BY DEF FindingsInv, FindingsBase
<1>2. FindingsUndo0 /\ FindingsUndo1 /\ FindingsUndo2 /\ FindingsOrder /\ FindingsRead /\ FindingsFresh
  BY DEF FindingsInv, FindingsUndo, FindingsDialog
<1>3. /\ UNCHANGED <<view, spent>> /\ server' = s /\ c.phase = "sent"
      /\ spent.inOrder => \A j \in 1..(k - 1) : calls[j].phase # "sent"
  BY DEF FindingsService, Findings!Serve, Findings!InOrder
<1>4. /\ DOMAIN s = {"status", "event"} /\ DOMAIN s.status = Items
      /\ ~Acts(c) => s.status = server.status
      /\ Acts(c) => \A f \in Items : f # c.arg.item => s.status[f] = server.status[f]
      /\ c.op = "undo" => s.status[c.arg.item] = c.arg.to
      /\ c.op = "read" => reply = server.status[c.arg.item]
      /\ c.op = "load" => \A f \in DOMAIN reply : f \in Items /\ reply[f] = server.status[f]
  BY DEF FindingsService
<1>5. /\ Queue(calls') /\ DOMAIN calls' = DOMAIN calls
      /\ \A j \in DOMAIN calls : calls'[j].op = calls[j].op /\ calls'[j].arg = calls[j].arg
      /\ \A j \in DOMAIN calls : j # k => calls'[j] = calls[j]
      /\ calls'[k].phase = "done" /\ calls'[k].reply = reply
  <2>1. Becomes(k, "done", reply)
    BY DEF FindingsService, Findings!Serve, Becomes
  <2>2. Queue(calls') /\ DOMAIN calls' = DOMAIN calls
    BY <1>1, <2>1, OneServed
  <2>3. \A j \in DOMAIN calls : calls'[j].op = calls[j].op /\ calls'[j].arg = calls[j].arg
    BY <1>1, <2>1, OneServed
  <2>4. /\ \A j \in DOMAIN calls : j # k => calls'[j] = calls[j]
        /\ calls'[k].phase = "done" /\ calls'[k].reply = reply
    BY <1>1, <2>1, OneServed
  <2> QED BY <2>2, <2>3, <2>4
<1>6. /\ Len(calls) \in Nat /\ DOMAIN calls = 1..Len(calls)
  BY <1>1, QueueNumbers
<1>7. spent.inOrder => \A j \in DOMAIN calls : j < k => calls[j].phase # "sent"
  BY <1>3, <1>6
<1>8. FindingsBase'
  <2>1. FindingsRequests'
    BY <1>1, <1>3, <1>5 DEF FindingsRequests, FindingsRequest
  <2>2. FindingsServer'
    BY <1>3, <1>4 DEF FindingsServer
  <2> QED BY <1>1, <1>3, <1>5, <2>1, <2>2 DEF FindingsBase, FindingsView, FindingsSpent, Counted
<1>9. FindingsUndo'
  <2>1. FindingsUndo0'
    <3> SUFFICES ASSUME spent.moves = 0 PROVE FindingsUndo0'
      BY <1>3 DEF FindingsUndo0
    <3>1. ~Acts(c) /\ c.op = "load" /\ s.status = server.status
      BY <1>2, <1>4 DEF FindingsUndo0, Acts, Findings!Actions
    <3>2. \A f \in DOMAIN reply : reply[f] = "active"
      BY <1>2, <1>4, <3>1 DEF FindingsUndo0
    <3>3. \A j \in DOMAIN calls' :
            /\ calls'[j].op = "load" /\ calls'[j].arg.ends = Findings!None
            /\ calls'[j].phase = "done" => \A f \in DOMAIN calls'[j].reply : calls'[j].reply[f] = "active"
      BY <1>2, <1>5, <3>2 DEF FindingsUndo0
    <3> QED BY <1>2, <1>3, <3>1, <3>3 DEF FindingsUndo0
  <2>2. FindingsUndo1'
    BY <1>2, <1>3, <1>5 DEF FindingsUndo1, Acts, Ends
  <2>3. FindingsUndo2'
    <3> SUFFICES ASSUME spent.moves = 2, NEW j \in DOMAIN calls, calls[j].op = "undo"
                 PROVE  /\ calls'[j].arg.to = "active"
                        /\ \A i \in DOMAIN calls' : Acts(calls'[i]) => i = j
                        /\ calls'[j].phase = "done" => server'.status[calls'[j].arg.item] = "active"
      BY <1>3, <1>5 DEF FindingsUndo2
    <3>1. calls[j].arg.to = "active" /\ \A i \in DOMAIN calls : Acts(calls[i]) => i = j
      BY <1>2 DEF FindingsUndo2
    <3>2. CASE j = k
      BY <1>3, <1>4, <1>5, <3>1, <3>2 DEF Acts
    <3>3. CASE j # k
      BY <1>2, <1>3, <1>4, <1>5, <3>1, <3>3 DEF FindingsUndo2, Acts
    <3> QED BY <3>2, <3>3
  <2> QED BY <2>1, <2>2, <2>3 DEF FindingsUndo
<1>10. FindingsDialog'
  <2>1. FindingsOrder'
    <3> SUFFICES ASSUME spent.inOrder, NEW i \in DOMAIN calls, NEW j \in DOMAIN calls, i < j, calls'[j].phase = "done"
                 PROVE  calls'[i].phase # "sent"
      BY <1>3, <1>5 DEF FindingsOrder
    <3>1. CASE i = k
      BY <1>5, <3>1
    <3>2. CASE i # k /\ j = k
      BY <1>5, <1>7, <3>2
    <3>3. CASE i # k /\ j # k
      BY <1>2, <1>5, <3>3 DEF FindingsOrder
    <3> QED BY <3>1, <3>2, <3>3
  <2> SUFFICES ASSUME Undisturbed PROVE FindingsRead' /\ FindingsFresh'
    BY <1>3, <2>1 DEF FindingsDialog, FindingsRead, FindingsFresh, Undisturbed
  <2> DEFINE item == view.dialog.item
  <2>2. /\ spent.inOrder /\ spent.faults = 0 /\ item \in Items /\ view'.dialog.item = item
        /\ \A j \in DOMAIN calls : calls[j].phase \in {"sent", "done"}
    BY <1>1, <1>3 DEF Undisturbed, FindingsView, FindingsRequests, FindingsRequest
  <2>3. FindingsRead'
    <3> SUFFICES ASSUME NEW j \in DOMAIN calls, calls[j].op \in RowActions, calls[j].arg.item = item, calls'[j].phase = "sent"
                 PROVE  \E l \in DOMAIN calls' : l > j /\ Reads(calls'[l], item) /\ calls'[l].phase = "sent"
      BY <1>5, <2>2 DEF FindingsRead
    <3>1. j # k /\ calls[j].phase = "sent"
      BY <1>5
    <3>2. PICK l \in DOMAIN calls : l > j /\ Reads(calls[l], item) /\ calls[l].phase = "sent"
      BY <1>2, <3>1 DEF FindingsRead
    <3>3. l # k
      BY <1>6, <1>7, <2>2, <3>1, <3>2
    <3> QED BY <1>5, <3>2, <3>3
  <2>4. FindingsFresh'
    <3> HIDE DEF item
\* The dialog is read: this is the last reading, or another one will come.
    <3>1. CASE Reads(c, item)
      <4>1. CASE \E l \in DOMAIN calls : l # k /\ Reads(calls[l], item) /\ calls[l].phase = "sent"
        BY <1>5, <2>2, <4>1 DEF FindingsFresh, item
      <4>2. CASE ~\E l \in DOMAIN calls : l # k /\ Reads(calls[l], item) /\ calls[l].phase = "sent"
        <5>1. \A j \in DOMAIN calls : Reads(calls[j], item) => j <= k
          <6> SUFFICES ASSUME NEW j \in DOMAIN calls, Reads(calls[j], item), ~(j <= k) PROVE FALSE
            OBVIOUS
          <6>1. k < j /\ j # k
            BY <1>6
          <6>2. calls[j].phase = "done"
            BY <2>2, <4>2, <6>1
          <6> QED BY <1>2, <1>3, <2>2, <6>1, <6>2 DEF FindingsOrder
        <5>2. reply = server.status[item] /\ s.status = server.status
          BY <1>4, <3>1 DEF Reads, Acts, Findings!Actions
        <5>3. /\ Reads(calls'[k], item) /\ calls'[k].phase = "done" /\ calls'[k].reply = server'.status[item]
              /\ \A j \in DOMAIN calls' : Reads(calls'[j], item) => j <= k
          BY <1>3, <1>5, <3>1, <5>1, <5>2 DEF Reads
        <5> QED BY <1>5, <2>2, <5>3 DEF FindingsFresh, item
      <4> QED BY <4>1, <4>2
\* An action of a row on the finding: it will be read after it.
    <3>2. CASE c.op \in RowActions /\ c.arg.item = item
      <4>1. PICK l \in DOMAIN calls : l > k /\ Reads(calls[l], item) /\ calls[l].phase = "sent"
        BY <1>2, <1>3, <3>2 DEF FindingsRead, item
      <4>2. l # k
        BY <1>6, <4>1
      <4> QED BY <1>5, <2>2, <4>1, <4>2 DEF FindingsFresh, item
\* An action of the dialog: it will be read when it is answered.
    <3>3. CASE c.op \in DialogActions /\ c.arg.item = item
      BY <1>5, <2>2, <3>3 DEF FindingsFresh, item
\* Anything else leaves its status.
    <3>4. CASE /\ ~Reads(c, item)
               /\ ~(c.op \in RowActions /\ c.arg.item = item)
               /\ ~(c.op \in DialogActions /\ c.arg.item = item)
      <4>1. s.status[item] = server.status[item]
        <5>1. CASE Acts(c)
          BY <1>4, <2>2, <3>4, <5>1 DEF Acts, Findings!Actions, RowActions, DialogActions
        <5>2. CASE ~Acts(c)
          BY <1>4, <5>2
        <5> QED BY <5>1, <5>2
      <4>2. \A j \in DOMAIN calls : Reads(calls[j], item) => calls'[j] = calls[j]
        BY <1>5, <3>4
      <4>3. \A j \in DOMAIN calls : Reads(calls'[j], item) => Reads(calls[j], item)
        BY <1>5 DEF Reads
      <4>4. \A j \in DOMAIN calls : calls'[j].op = calls[j].op /\ calls'[j].arg = calls[j].arg
        BY <1>5
      <4>5. CASE \E l \in DOMAIN calls : Reads(calls[l], item) /\ calls[l].phase = "sent"
        BY <1>5, <2>2, <4>2, <4>5 DEF FindingsFresh, item
      <4>6. CASE \E l \in DOMAIN calls : calls[l].op \in DialogActions /\ calls[l].arg.item = item
        BY <1>5, <2>2, <4>6 DEF FindingsFresh, item
      <4>7. CASE \E l \in DOMAIN calls : /\ Reads(calls[l], item) /\ calls[l].phase = "done"
                                         /\ calls[l].reply = server.status[item]
                                         /\ \A j \in DOMAIN calls : Reads(calls[j], item) => j <= l
        <5>1. PICK l \in DOMAIN calls : /\ Reads(calls[l], item) /\ calls[l].phase = "done"
                                        /\ calls[l].reply = server.status[item]
                                        /\ \A j \in DOMAIN calls : Reads(calls[j], item) => j <= l
          BY <4>7
        <5>2. /\ Reads(calls'[l], item) /\ calls'[l].phase = "done" /\ calls'[l].reply = server'.status[item]
              /\ \A j \in DOMAIN calls' : Reads(calls'[j], item) => j <= l
          BY <1>3, <1>5, <4>1, <4>2, <4>3, <5>1
        <5> QED BY <1>5, <2>2, <5>2 DEF FindingsFresh, item
      <4>8. CASE (\A l \in DOMAIN calls : ~Reads(calls[l], item)) /\ view.dialog.status = server.status[item]
        BY <1>3, <1>5, <2>2, <4>1, <4>3, <4>8 DEF FindingsFresh, item
      <4> QED BY <1>2, <4>5, <4>6, <4>7, <4>8 DEF FindingsFresh, item
    <3> QED BY <3>1, <3>2, <3>3, <3>4
  <2> QED BY <2>1, <2>3, <2>4 DEF FindingsDialog
<1> QED BY <1>8, <1>9, <1>10 DEF FindingsInv

\* The server serves a request, or a verification that concludes nothing.
LEMMA FindingsServes ==
  ASSUME FindingsInv, NEW k \in DOMAIN calls, Findings!ServeOne(k) \/ Findings!ServeVerification(k)
  PROVE  FindingsInv'
<1> DEFINE c == calls[k]
<1>1. FindingsServer /\ FindingsRequest(c)
  BY DEF FindingsInv, FindingsBase, FindingsRequests
<1>2. CASE Findings!ServeOne(k)
  <2> DEFINE s == Findings!Effect(server, c)
             reply == Findings!Reply(server, c)
  <2>1. Findings!Serve(k, s, reply)
    BY <1>2 DEF Findings!ServeOne
  <2>2. CASE Acts(c)
    <3>1. s = [status |-> [server.status EXCEPT ![c.arg.item] = c.arg.to], event |-> "sent"] /\ c.arg.item \in Items
      BY <1>1, <2>2 DEF Findings!Effect, Acts, FindingsRequest, Findings!Actions
    <3>2. /\ DOMAIN s = {"status", "event"} /\ DOMAIN s.status = Items
          /\ \A f \in Items : f # c.arg.item => s.status[f] = server.status[f]
          /\ s.status[c.arg.item] = c.arg.to
      BY <1>1, <3>1 DEF FindingsServer
    <3>3. FindingsService(k, s, reply)
      BY <2>1, <2>2, <3>2 DEF FindingsService, Acts, Findings!Actions
    <3> HIDE DEF s, reply
    <3> QED BY <3>3, FindingsServed
  <2>3. CASE ~Acts(c)
    <3>1. /\ c.op \in {"load", "read"}
          /\ DOMAIN s = DOMAIN server /\ s.status = server.status
      BY <1>1, <2>3 DEF Findings!Effect, Findings!CaughtUp, Acts, FindingsRequest, Findings!Actions, FindingsServer
    <3>2. c.op = "read" => reply = server.status[c.arg.item]
      BY DEF Findings!Reply, Findings!Actions
    <3>3. c.op = "load" => \A f \in DOMAIN reply : f \in Items /\ reply[f] = server.status[f]
      <4> SUFFICES ASSUME c.op = "load" PROVE \A f \in DOMAIN reply : f \in Items /\ reply[f] = server.status[f]
        OBVIOUS
      <4>1. reply = Findings!ListOf(server, c.arg.tab)
        BY DEF Findings!Reply, Findings!Actions
      <4> QED BY <4>1 DEF Findings!ListOf
    <3>4. FindingsService(k, s, reply)
      BY <1>1, <2>1, <2>3, <3>1, <3>2, <3>3 DEF FindingsService, FindingsServer
    <3> HIDE DEF s, reply
    <3> QED BY <3>4, FindingsServed
  <2> QED BY <2>2, <2>3
<1>3. CASE Findings!ServeVerification(k)
  <2>1. PICK verdict : Findings!Serve(k, server, verdict)
    BY <1>3 DEF Findings!ServeVerification
  <2>2. c.op \in {"verify", "dialogVerify"}
    BY <1>3 DEF Findings!ServeVerification
  <2>3. FindingsService(k, server, verdict)
    BY <1>1, <2>1, <2>2 DEF FindingsService, FindingsServer
  <2> QED BY <2>3, FindingsServed
<1> QED BY <1>2, <1>3

\* What an answer leads to: the dialog shows what was read, an undo is announced once the list is there,
\* and what was asked in the dialog is followed by a reading.
FindingsAnswer(k, n) ==
  LET c == calls[k]
  IN  /\ c.phase \in {"done", "refused"} /\ (spent.inOrder => k = 1) /\ UNCHANGED <<server, spent>>
      /\ calls' \in {Others(k) \o << >>, Others(k) \o <<n>>}
      /\ Shaped(n) /\ n.op \in {"load", "read"} /\ n.phase = "sent" /\ FindingsRequest(n)
      /\ spent.moves = 0 => n.op = "load" /\ n.arg.ends = Findings!None
      /\ spent.moves = 1 /\ Ends(n) => Acts(c) /\ n.arg.change.from = "active"
      /\ DOMAIN view' = DOMAIN view /\ DOMAIN view'.dialog = DOMAIN view.dialog
      /\ view'.dialog.item = view.dialog.item
      /\ view'.dialog # view.dialog => view'.dialog.item \in Items
      /\ \/ view'.rows = view.rows
         \/ c.op = "load" /\ c.phase = "done" /\ view'.rows = c.reply
      /\ \/ view'.notice = view.notice
         \/ Ends(c) /\ view'.notice = c.arg.change
      /\ spent.faults = 0 => c.phase = "done"
      /\ \/ view'.dialog.status = view.dialog.status /\ (c.phase = "done" => ~Reads(c, view.dialog.item))
         \/ Reads(c, view.dialog.item) /\ c.phase = "done" /\ view'.dialog.status = c.reply
      /\ c.op \in DialogActions /\ c.arg.item = view.dialog.item /\ c.phase = "done" =>
           Reads(n, view.dialog.item) /\ calls' = Others(k) \o <<n>>

\* So does an answer.
LEMMA FindingsAnswered ==
  ASSUME FindingsInv, NEW k \in DOMAIN calls, NEW n, FindingsAnswer(k, n)
  PROVE  FindingsInv'
<1> DEFINE c == calls[k]
<1>1. /\ Queue(calls) /\ FindingsRequests /\ FindingsView /\ FindingsServer /\ FindingsSpent
  BY DEF FindingsInv, FindingsBase
<1>2. FindingsUndo0 /\ FindingsUndo1 /\ FindingsUndo2 /\ FindingsOrder /\ FindingsRead /\ FindingsFresh
  BY DEF FindingsInv, FindingsUndo, FindingsDialog
<1>3. /\ UNCHANGED <<server, spent>> /\ c.phase \in {"done", "refused"} /\ (spent.inOrder => k = 1)
      /\ n.op \in {"load", "read"} /\ n.phase = "sent" /\ FindingsRequest(n)
  BY DEF FindingsAnswer
<1>4. calls' = Others(k) \o << >> \/ (Shaped(n) /\ calls' = Others(k) \o <<n>>)
  BY DEF FindingsAnswer
<1>5. /\ Queue(calls') /\ Len(calls) \in Nat \ {0} /\ DOMAIN calls = 1..Len(calls) /\ k \in 1..Len(calls)
  BY <1>1, <1>4, Answers
<1>6. \A j \in DOMAIN calls : j # k => Moved(k, j) \in DOMAIN calls' /\ calls'[Moved(k, j)] = calls[j]
  BY <1>1, <1>4, Answers
<1>7. /\ \A i \in DOMAIN calls' : i \in 1..Len(calls)
      /\ \A i \in DOMAIN calls' :
           \/ Came(k, i) \in DOMAIN calls /\ Came(k, i) # k /\ calls'[i] = calls[Came(k, i)]
           \/ i = Len(calls) /\ calls'[i] = n
  BY <1>1, <1>4, Answers
<1>8. FindingsBase'
  <2>1. FindingsRequests'
    <3>1. FindingsRequest(n)'
      BY <1>3 DEF FindingsRequest
    <3>2. \A j \in DOMAIN calls : FindingsRequest(calls[j])
      BY <1>1 DEF FindingsRequests
    <3>3. \A i \in DOMAIN calls' : FindingsRequest(calls'[i])
      BY <1>3, <1>7, <3>2
    <3> QED BY <1>3, <3>3 DEF FindingsRequests, FindingsRequest
  <2>2. FindingsView'
    <3>1. view'.notice # Findings!NoNotice => view'.notice.item \in Items
      <4>1. Ends(c) => c.arg.change.item \in Items
        BY <1>1 DEF FindingsRequests, FindingsRequest, Ends
      <4> QED BY <1>1, <4>1 DEF FindingsAnswer, FindingsView
    <3>2. view'.dialog # Findings!Closed => view'.dialog.item \in Items
      BY <1>1 DEF FindingsAnswer, FindingsView
    <3> QED BY <1>1, <3>1, <3>2 DEF FindingsAnswer, FindingsView
  <2>3. FindingsServer' /\ FindingsSpent'
    BY <1>1, <1>3 DEF FindingsServer, FindingsSpent, Counted
  <2> QED BY <1>5, <2>1, <2>2, <2>3 DEF FindingsBase
<1>9. FindingsUndo'
  <2>1. FindingsUndo0'
    <3> SUFFICES ASSUME spent.moves = 0 PROVE FindingsUndo0'
      BY <1>3 DEF FindingsUndo0
    <3>1. n.op = "load" /\ n.arg.ends = Findings!None
      BY DEF FindingsAnswer
    <3>2. c.op = "load" /\ ~Ends(c) /\ (c.phase = "done" => \A f \in DOMAIN c.reply : c.reply[f] = "active")
      BY <1>2 DEF FindingsUndo0, Ends, Findings!None
    <3>3. /\ view'.dialog.status = Findings!None /\ view'.notice = Findings!NoNotice
          /\ \A f \in DOMAIN view'.rows : view'.rows[f] = "active"
      BY <1>2, <3>2 DEF FindingsUndo0, FindingsAnswer, Reads
    <3>4. \A i \in DOMAIN calls' :
            /\ calls'[i].op = "load" /\ calls'[i].arg.ends = Findings!None
            /\ calls'[i].phase = "done" => \A f \in DOMAIN calls'[i].reply : calls'[i].reply[f] = "active"
      BY <1>2, <1>3, <1>7, <3>1 DEF FindingsUndo0
    <3> QED BY <1>2, <1>3, <3>3, <3>4 DEF FindingsUndo0
  <2>2. FindingsUndo1'
    <3> SUFFICES ASSUME spent.moves = 1 PROVE FindingsUndo1'
      BY <1>3 DEF FindingsUndo1
    <3>1. /\ \A j \in DOMAIN calls : /\ calls[j].op # "undo"
                                     /\ calls[j].op = "set" => calls[j].arg.from = "active"
                                     /\ Ends(calls[j]) => calls[j].arg.change.from = "active"
          /\ view.notice # Findings!NoNotice => view.notice.from = "active"
          /\ \A i, j \in DOMAIN calls : Acts(calls[i]) /\ Acts(calls[j]) => i = j
          /\ view.notice # Findings!NoNotice => \A j \in DOMAIN calls : ~Acts(calls[j])
          /\ \A i \in DOMAIN calls : Ends(calls[i]) => \A j \in DOMAIN calls : ~Acts(calls[j])
      BY <1>2 DEF FindingsUndo1
    <3>2. ~Acts(n) /\ n.op \notin {"undo", "set"} /\ (Ends(n) => Acts(c) /\ n.arg.change.from = "active")
      BY <1>3 DEF FindingsAnswer, Acts, Findings!Actions
    <3>3. \A i \in DOMAIN calls' : /\ calls'[i].op # "undo"
                                   /\ calls'[i].op = "set" => calls'[i].arg.from = "active"
                                   /\ Ends(calls'[i]) => calls'[i].arg.change.from = "active"
      BY <1>7, <3>1, <3>2
    <3>4. \A i \in DOMAIN calls' : Acts(calls'[i]) =>
             Came(k, i) \in DOMAIN calls /\ Came(k, i) # k /\ Acts(calls[Came(k, i)])
      BY <1>7, <3>2
    <3>5. \A i, j \in DOMAIN calls' : Came(k, i) = Came(k, j) => i = j
      <4>1. \A i, j \in 1..Len(calls) : Came(k, i) = Came(k, j) => i = j
        BY <1>5 DEF Came
      <4> QED BY <1>7, <4>1
    <3>6. \A i, j \in DOMAIN calls' : Acts(calls'[i]) /\ Acts(calls'[j]) => i = j
      BY <3>1, <3>4, <3>5
    <3>7. Acts(c) => \A i \in DOMAIN calls' : ~Acts(calls'[i])
      BY <3>1, <3>4
    <3>8. view'.notice # Findings!NoNotice =>
            view'.notice.from = "active" /\ \A j \in DOMAIN calls : ~Acts(calls[j])
      BY <3>1 DEF FindingsAnswer
    <3>9. view'.notice # Findings!NoNotice => \A i \in DOMAIN calls' : ~Acts(calls'[i])
      BY <3>4, <3>8
    <3>10. \A i \in DOMAIN calls' : Ends(calls'[i]) => \A j \in DOMAIN calls' : ~Acts(calls'[j])
      <4> SUFFICES ASSUME NEW i \in DOMAIN calls', Ends(calls'[i]) PROVE \A j \in DOMAIN calls' : ~Acts(calls'[j])
        OBVIOUS
      <4>1. CASE Came(k, i) \in DOMAIN calls /\ Ends(calls[Came(k, i)])
        BY <3>1, <3>4, <4>1
      <4>2. CASE Ends(n)
        BY <3>2, <3>7, <4>2
      <4> QED BY <1>7, <4>1, <4>2
    <3> QED BY <3>3, <3>6, <3>8, <3>9, <3>10 DEF FindingsUndo1
  <2>3. FindingsUndo2'
    <3> SUFFICES ASSUME spent.moves = 2, NEW i \in DOMAIN calls', calls'[i].op = "undo"
                 PROVE  /\ calls'[i].arg.to = "active"
                        /\ \A j \in DOMAIN calls' : Acts(calls'[j]) => j = i
                        /\ calls'[i].phase = "done" => server'.status[calls'[i].arg.item] = "active"
      BY <1>3 DEF FindingsUndo2
    <3>1. Came(k, i) \in DOMAIN calls /\ calls'[i] = calls[Came(k, i)]
      BY <1>3, <1>7
    <3>2. /\ calls'[i].arg.to = "active" /\ (calls'[i].phase = "done" => server'.status[calls'[i].arg.item] = "active")
          /\ \A j \in DOMAIN calls : Acts(calls[j]) => j = Came(k, i)
      BY <1>2, <1>3, <3>1 DEF FindingsUndo2
    <3>3. \A j \in DOMAIN calls' : Acts(calls'[j]) => Came(k, j) = Came(k, i)
      BY <1>3, <1>7, <3>2 DEF Acts, Findings!Actions
    <3>4. \A j \in 1..Len(calls) : \A l \in 1..Len(calls) : Came(k, j) = Came(k, l) => j = l
      BY <1>5 DEF Came
    <3> QED BY <1>7, <3>2, <3>3, <3>4
  <2> QED BY <2>1, <2>2, <2>3 DEF FindingsUndo
<1>10. FindingsDialog'
  <2>1. FindingsOrder'
    <3> SUFFICES ASSUME spent.inOrder, NEW i \in DOMAIN calls', NEW j \in DOMAIN calls', i < j, calls'[j].phase = "done"
                 PROVE  calls'[i].phase # "sent"
      BY <1>3 DEF FindingsOrder
    <3>1. i \in 1..Len(calls) /\ j \in 1..Len(calls) /\ i # Len(calls)
      BY <1>5, <1>7
    <3>2. /\ Came(k, i) \in DOMAIN calls /\ calls'[i] = calls[Came(k, i)]
          /\ Came(k, j) \in DOMAIN calls /\ calls'[j] = calls[Came(k, j)]
      BY <1>3, <1>7, <3>1
    <3>3. Came(k, i) < Came(k, j)
      BY <1>5, <3>1 DEF Came
    <3> QED BY <1>2, <3>2, <3>3 DEF FindingsOrder
  <2> SUFFICES ASSUME Undisturbed' PROVE FindingsRead' /\ FindingsFresh'
    BY <2>1 DEF FindingsDialog, FindingsRead, FindingsFresh
  <2>2. Undisturbed /\ view'.dialog.item = view.dialog.item /\ k = 1 /\ c.phase = "done"
    <3>1. k = 1 /\ c.phase = "done" /\ view'.dialog.item = view.dialog.item
      BY <1>3 DEF FindingsAnswer, Undisturbed
    <3>2. view'.dialog # Findings!Closed /\ view'.dialog.item \in Items
      BY <1>8 DEF Undisturbed, FindingsBase, FindingsView
    <3>3. view.dialog # Findings!Closed
      BY <3>1, <3>2, ItemsAssumption DEF Findings!Closed, Findings!None, None
    <3> QED BY <1>3, <3>1, <3>3 DEF Undisturbed
  <2> DEFINE item == view.dialog.item
\* In order, every other request moves up by one.
  <2>3. /\ \A j \in DOMAIN calls : j # 1 => j - 1 \in DOMAIN calls' /\ calls'[j - 1] = calls[j]
        /\ \A i \in DOMAIN calls' : \/ i + 1 \in DOMAIN calls /\ calls'[i] = calls[i + 1]
                                    \/ i = Len(calls) /\ calls'[i] = n
    <3>1. \A j \in DOMAIN calls : j # 1 => Moved(k, j) = j - 1
      BY <1>5, <2>2 DEF Moved
    <3>2. \A i \in DOMAIN calls' : Came(k, i) = i + 1
      BY <1>7, <2>2 DEF Came
    <3>3. \A j \in DOMAIN calls : j # 1 => j - 1 \in DOMAIN calls' /\ calls'[j - 1] = calls[j]
      BY <1>6, <2>2, <3>1
    <3>4. \A i \in DOMAIN calls' : \/ i + 1 \in DOMAIN calls /\ calls'[i] = calls[i + 1]
                                   \/ i = Len(calls) /\ calls'[i] = n
      BY <1>7, <3>2
    <3> QED BY <3>3, <3>4
  <2>4. /\ \A i \in DOMAIN calls' : i \in Nat \ {0}
        /\ \A j \in DOMAIN calls : j \in Nat \ {0}
    <3>1. \A l \in Nat : \A i \in 1..l : i \in Nat \ {0}
      OBVIOUS
    <3> QED BY <1>5, <1>7, <3>1
  <2>5. FindingsRead'
    <3> SUFFICES ASSUME NEW i \in DOMAIN calls', calls'[i].op \in RowActions, calls'[i].arg.item = item, calls'[i].phase = "sent"
                 PROVE  \E l \in DOMAIN calls' : l > i /\ Reads(calls'[l], item) /\ calls'[l].phase = "sent"
      BY <2>2 DEF FindingsRead
    <3>1. i + 1 \in DOMAIN calls /\ calls'[i] = calls[i + 1]
      BY <1>3, <2>3 DEF RowActions
    <3>2. PICK l \in DOMAIN calls : l > i + 1 /\ Reads(calls[l], item) /\ calls[l].phase = "sent"
      BY <1>2, <2>2, <3>1 DEF FindingsRead
    <3>3. l # 1 /\ l - 1 > i
      BY <2>4, <3>2
    <3> QED BY <2>3, <3>2, <3>3
  <2>6. FindingsFresh'
    <3>1. \/ view'.dialog.status = view.dialog.status /\ ~Reads(c, item)
          \/ Reads(c, item) /\ view'.dialog.status = c.reply
      BY <2>2 DEF FindingsAnswer
    <3>2. c.op \in DialogActions /\ c.arg.item = item => Reads(n, item) /\ calls' = Others(k) \o <<n>>
      BY <2>2 DEF FindingsAnswer
    <3> HIDE DEF item
    <3>3. CASE \E l \in DOMAIN calls : Reads(calls[l], item) /\ calls[l].phase = "sent"
      <4>1. PICK l \in DOMAIN calls : Reads(calls[l], item) /\ calls[l].phase = "sent"
        BY <3>3
      <4>2. l # 1
        BY <2>2, <4>1
      <4> QED BY <2>2, <2>3, <4>1, <4>2 DEF FindingsFresh, item
    <3>4. CASE \E l \in DOMAIN calls : calls[l].op \in DialogActions /\ calls[l].arg.item = item
      <4>1. PICK l \in DOMAIN calls : calls[l].op \in DialogActions /\ calls[l].arg.item = item
        BY <3>4
      <4>2. CASE l # 1
        BY <2>2, <2>3, <4>1, <4>2 DEF FindingsFresh, item
      <4>3. CASE l = 1
        <5>1. Reads(n, item) /\ calls' = Others(k) \o <<n>>
          BY <2>2, <3>2, <4>1, <4>3
        <5>2. calls'[Len(calls)] = n /\ DOMAIN calls' = DOMAIN calls
          <6>1. Shaped(n)
            BY DEF FindingsAnswer
          <6> QED BY <1>1, <5>1, <6>1, OneAsked
        <5>3. Len(calls) \in DOMAIN calls' /\ calls'[Len(calls)] = n
          BY <1>5, <5>2
        <5> QED BY <1>3, <2>2, <5>1, <5>3 DEF FindingsFresh, item
      <4> QED BY <4>2, <4>3
    <3>5. CASE \E l \in DOMAIN calls : /\ Reads(calls[l], item) /\ calls[l].phase = "done"
                                       /\ calls[l].reply = server.status[item]
                                       /\ \A j \in DOMAIN calls : Reads(calls[j], item) => j <= l
      <4>1. PICK l \in DOMAIN calls : /\ Reads(calls[l], item) /\ calls[l].phase = "done"
                                      /\ calls[l].reply = server.status[item]
                                      /\ \A j \in DOMAIN calls : Reads(calls[j], item) => j <= l
        BY <3>5
      <4>2. CASE \E i \in DOMAIN calls' : Reads(calls'[i], item) /\ calls'[i].phase = "sent"
        BY <2>2, <4>2 DEF FindingsFresh, item
      <4>3. CASE ~\E i \in DOMAIN calls' : Reads(calls'[i], item) /\ calls'[i].phase = "sent"
        <5>1. \A i \in DOMAIN calls' : Reads(calls'[i], item) => i + 1 \in DOMAIN calls /\ Reads(calls[i + 1], item) /\ i + 1 <= l
          BY <1>3, <2>3, <4>1, <4>3
        <5>2. CASE l # 1
          <6>1. l - 1 \in DOMAIN calls' /\ calls'[l - 1] = calls[l]
            BY <2>3, <5>2
          <6>2. \A i \in DOMAIN calls' : Reads(calls'[i], item) => i <= l - 1
            BY <2>4, <5>1
          <6> QED BY <1>3, <2>2, <4>1, <6>1, <6>2 DEF FindingsFresh, item
        <5>3. CASE l = 1
          <6>1. \A i \in DOMAIN calls' : ~Reads(calls'[i], item)
            <7>1. \A i \in DOMAIN calls' : ~(i + 1 <= 1)
              BY <2>4
            <7> QED BY <5>1, <5>3, <7>1
          <6>2. view'.dialog.status = server.status[item]
            BY <2>2, <3>1, <4>1, <5>3
          <6> QED BY <1>3, <2>2, <6>1, <6>2 DEF FindingsFresh, item
        <5> QED BY <5>2, <5>3
      <4> QED BY <4>2, <4>3
    <3>6. CASE (\A l \in DOMAIN calls : ~Reads(calls[l], item)) /\ view.dialog.status = server.status[item]
      <4>1. view'.dialog.status = server.status[item]
        BY <3>1, <3>6
      <4>2. CASE \E i \in DOMAIN calls' : Reads(calls'[i], item)
        BY <1>3, <2>2, <2>3, <3>6, <4>2 DEF FindingsFresh, item
      <4>3. CASE ~\E i \in DOMAIN calls' : Reads(calls'[i], item)
        BY <1>3, <2>2, <4>1, <4>3 DEF FindingsFresh, item
      <4> QED BY <4>2, <4>3
    <3> QED BY <1>2, <2>2, <3>3, <3>4, <3>5, <3>6 DEF FindingsFresh, item
  <2> QED BY <2>1, <2>5, <2>6 DEF FindingsDialog
<1> QED BY <1>8, <1>9, <1>10 DEF FindingsInv

\* The answers, and the failures.
LEMMA FindingsAnswers ==
  ASSUME FindingsInv, NEW k \in DOMAIN calls,
         Findings!HandleList(k) \/ Findings!HandleRead(k) \/ Findings!HandleAction(k) \/ Findings!HandleFailure(k)
  PROVE  FindingsInv'
<1> DEFINE c == calls[k]
           none == Findings!Reload("active")
<1>1. /\ FindingsView /\ FindingsRequest(c) /\ FindingsUndo1 /\ Queue(calls)
  BY DEF FindingsInv, FindingsBase, FindingsUndo, FindingsRequests
<1>2. DOMAIN view = FindingsFields /\ DOMAIN view.dialog = {"item", "status", "busy"}
  BY <1>1 DEF FindingsView
<1>3. /\ Shaped(none) /\ none.op = "load" /\ none.phase = "sent" /\ none.arg.ends = Findings!None
      /\ FindingsRequest(none) /\ ~Ends(none)
  BY FindingsAsk DEF Findings!Reload, FindingsRequest, Ends, Findings!None, Findings!Actions
<1>4. view.dialog # Findings!Closed => view.dialog.item \in Items
  BY <1>1 DEF FindingsView
<1>5. CASE Findings!HandleList(k)
  <2>1. /\ c.op = "load" /\ c.phase = "done" /\ (spent.inOrder => k = 1) /\ UNCHANGED <<server, spent>>
        /\ calls' = Others(k) \o << >>
        /\ view' = Findings!Finished(Findings!WithList(view, c.arg.tab, c.reply), c.arg)
    BY <1>5 DEF Findings!HandleList, Findings!Settle, Findings!InOrder, Findings!Others, Others
  <2>2. /\ DOMAIN view' = DOMAIN view /\ view'.dialog = view.dialog /\ view'.rows = c.reply
        /\ view'.notice = view.notice \/ (Ends(c) /\ view'.notice = c.arg.change)
    <3> DEFINE v == Findings!WithList(view, c.arg.tab, c.reply)
    <3>1. DOMAIN v = DOMAIN view /\ v.dialog = view.dialog /\ v.rows = c.reply /\ v.notice = view.notice
      BY <1>2 DEF Findings!WithList, FindingsFields
    <3>2. view' = Findings!Finished(v, c.arg)
      BY <2>1
    <3> HIDE DEF v
    <3>3. c.arg.ends \in {Findings!None, "set", "undo", "verify"}
      BY <1>1, <2>1 DEF FindingsRequest, RowActions
    <3>4. CASE c.arg.ends = Findings!None
      <4>1. view' = v
        BY <3>2, <3>4 DEF Findings!Finished, Findings!None
      <4> QED BY <3>1, <4>1
    <3>5. CASE c.arg.ends = "set"
      <4>1. view' = [v EXCEPT !.busy = Findings!None, !.notice = c.arg.change]
        BY <3>2, <3>5 DEF Findings!Finished, Findings!None
      <4> QED BY <1>2, <2>1, <3>1, <3>5, <4>1 DEF FindingsFields, Ends
    <3>6. CASE c.arg.ends \in {"undo", "verify"}
      <4>1. view' = [v EXCEPT !.busy = Findings!None]
        BY <3>2, <3>6 DEF Findings!Finished, Findings!None
      <4> QED BY <1>2, <3>1, <4>1 DEF FindingsFields
    <3> QED BY <3>3, <3>4, <3>5, <3>6
  <2>3. FindingsAnswer(k, none)
    BY <1>2, <1>3, <2>1, <2>2 DEF FindingsAnswer, Reads, DialogActions
  <2> HIDE DEF none
  <2> QED BY <2>3, FindingsAnswered
<1>6. CASE Findings!HandleRead(k)
  <2>1. PICK phase \in {"done", "refused"} :
          /\ c.phase = phase /\ c.op = "read" /\ (spent.inOrder => k = 1) /\ UNCHANGED <<server, spent>>
          /\ calls' = Others(k) \o (IF c.arg.ends = Findings!None THEN << >> ELSE <<Findings!Reload(c.arg.ends)>>)
          /\ view' = IF ~Findings!OpenOn(view, c.arg.item) THEN view
                     ELSE [view EXCEPT !.dialog.status = IF phase = "done" THEN c.reply ELSE @,
                                       !.dialog.busy = @ /\ c.arg.ends = Findings!None]
    BY <1>6 DEF Findings!HandleRead, Findings!Settle, Findings!InOrder, Findings!Others, Others
  <2> DEFINE n == IF c.arg.ends = Findings!None THEN none ELSE Findings!Reload(c.arg.ends)
  <2>2. /\ Shaped(n) /\ n.op = "load" /\ n.phase = "sent" /\ n.arg.ends = Findings!None
        /\ FindingsRequest(n) /\ ~Ends(n)
    BY <1>3, FindingsAsk DEF Findings!Reload, FindingsRequest, Ends, Findings!None, Findings!Actions
  <2>3. calls' \in {Others(k) \o << >>, Others(k) \o <<n>>}
    BY <2>1
  <2>4. /\ DOMAIN view' = DOMAIN view /\ DOMAIN view'.dialog = DOMAIN view.dialog
        /\ view'.dialog.item = view.dialog.item /\ view'.rows = view.rows /\ view'.notice = view.notice
        /\ view'.dialog # view.dialog => view'.dialog.item \in Items
        /\ \/ view'.dialog.status = view.dialog.status /\ (c.phase = "done" => ~Reads(c, view.dialog.item))
           \/ Reads(c, view.dialog.item) /\ c.phase = "done" /\ view'.dialog.status = c.reply
    <3>1. CASE ~Findings!OpenOn(view, c.arg.item)
      <4>1. view' = view /\ ~Reads(c, view.dialog.item)
        BY <2>1, <3>1 DEF Findings!OpenOn, Reads
      <4> QED BY <4>1
    <3>2. CASE Findings!OpenOn(view, c.arg.item)
      <4>1. PICK busy : view' = [view EXCEPT !.dialog.status = IF phase = "done" THEN c.reply ELSE @, !.dialog.busy = busy]
        BY <1>2, <2>1, <3>2 DEF FindingsFields
      <4>2. /\ DOMAIN view' = DOMAIN view /\ view'.rows = view.rows /\ view'.notice = view.notice
            /\ view'.dialog = [view.dialog EXCEPT !.status = IF phase = "done" THEN c.reply ELSE @, !.busy = busy]
        BY <1>2, <4>1 DEF FindingsFields
      <4>3. /\ DOMAIN view'.dialog = DOMAIN view.dialog /\ view'.dialog.item = view.dialog.item
            /\ view'.dialog.status = IF phase = "done" THEN c.reply ELSE view.dialog.status
        BY <1>2, <4>2
      <4>4. Reads(c, view.dialog.item) /\ view.dialog.item \in Items
        BY <1>1, <2>1, <3>2 DEF Findings!OpenOn, Reads, FindingsRequest
      <4> QED BY <2>1, <4>2, <4>3, <4>4
    <3> QED BY <3>1, <3>2
  <2>5. spent.faults = 0 => c.phase = "done"
    BY <1>1, <2>1 DEF FindingsRequest
  <2> HIDE DEF n
  <2>6. FindingsAnswer(k, n)
    BY <1>2, <2>1, <2>2, <2>3, <2>4, <2>5 DEF FindingsAnswer, DialogActions
  <2> HIDE DEF none
  <2> QED BY <2>6, FindingsAnswered
<1>7. CASE Findings!HandleAction(k)
  <2>1. CASE c.op \in {"set", "undo", "verify"} /\ c.reply = "conclusive" /\ Findings!Settle(k, "done", view, <<Findings!ReloadAfter(c)>>)
    <3> DEFINE n == Findings!ReloadAfter(c)
    <3>1. Shaped(n) /\ n.op = "load" /\ n.phase = "sent" /\ n.arg.ends = c.op /\ n.arg.change = c.arg
      BY FindingsAsk DEF Findings!ReloadAfter
    <3>2. /\ c.phase = "done" /\ (spent.inOrder => k = 1) /\ UNCHANGED <<server, spent, view>>
          /\ calls' = Others(k) \o <<n>>
      BY <2>1 DEF Findings!Settle, Findings!InOrder, Findings!Others, Others
    <3> HIDE DEF n
    <3>3. FindingsRequest(n)
      BY <1>1, <2>1, <3>1 DEF FindingsRequest, RowActions, Findings!Actions
    <3>4. Acts(c) /\ ~Reads(c, view.dialog.item) /\ c.op \notin DialogActions
      BY <2>1 DEF Acts, Findings!Actions, Reads, DialogActions
    <3>5. spent.moves # 0
      <4>1. FindingsUndo0
        BY DEF FindingsInv, FindingsUndo
      <4> QED BY <2>1, <4>1 DEF FindingsUndo0
    <3>6. spent.moves = 1 /\ Ends(n) => n.arg.change.from = "active"
      BY <1>1, <3>1 DEF FindingsUndo1, Ends
    <3>7. FindingsAnswer(k, n)
      BY <3>1, <3>2, <3>3, <3>4, <3>5, <3>6 DEF FindingsAnswer
    <3> QED BY <3>7, FindingsAnswered
  <2>2. CASE c.op = "verify" /\ c.reply = "vain" /\ Findings!Settle(k, "done", [view EXCEPT !.busy = Findings!None], << >>)
    <3>1. /\ c.phase = "done" /\ (spent.inOrder => k = 1) /\ UNCHANGED <<server, spent>>
          /\ calls' = Others(k) \o << >> /\ view' = [view EXCEPT !.busy = Findings!None]
      BY <2>2 DEF Findings!Settle, Findings!InOrder, Findings!Others, Others
    <3>2. /\ DOMAIN view' = DOMAIN view /\ view'.dialog = view.dialog /\ view'.rows = view.rows
          /\ view'.notice = view.notice
      BY <1>2, <3>1 DEF FindingsFields
    <3>3. FindingsAnswer(k, none)
      BY <1>2, <1>3, <2>2, <3>1, <3>2 DEF FindingsAnswer, Reads, DialogActions
    <3> HIDE DEF none
    <3> QED BY <3>3, FindingsAnswered
  <2>3. CASE /\ c.op \in {"dialogSet", "dialogVerify"}
             /\ Findings!Settle(k, "done", view, <<Findings!Request("read", [item |-> c.arg.item, ends |-> c.arg.tab])>>)
    <3> DEFINE n == Findings!Request("read", [item |-> c.arg.item, ends |-> c.arg.tab])
    <3>1. Shaped(n) /\ n.op = "read" /\ n.phase = "sent" /\ n.arg.item = c.arg.item
      BY FindingsAsk
    <3>2. /\ c.phase = "done" /\ (spent.inOrder => k = 1) /\ UNCHANGED <<server, spent, view>>
          /\ calls' = Others(k) \o <<n>>
      BY <2>3 DEF Findings!Settle, Findings!InOrder, Findings!Others, Others
    <3> HIDE DEF n
    <3>3. FindingsRequest(n) /\ ~Ends(n)
      BY <1>1, <2>3, <3>1 DEF FindingsRequest, Findings!Actions, Ends
    <3>4. spent.moves # 0
      <4>1. FindingsUndo0
        BY DEF FindingsInv, FindingsUndo
      <4> QED BY <2>3, <4>1 DEF FindingsUndo0
    <3>5. FindingsAnswer(k, n)
      BY <2>3, <3>1, <3>2, <3>3, <3>4 DEF FindingsAnswer, Reads
    <3> QED BY <3>5, FindingsAnswered
  <2> QED BY <1>7, <2>1, <2>2, <2>3 DEF Findings!HandleAction
<1>8. CASE Findings!HandleFailure(k)
  <2>1. /\ c.phase = "refused" /\ (spent.inOrder => k = 1) /\ UNCHANGED <<server, spent>>
        /\ calls' = Others(k) \o << >>
    BY <1>8 DEF Findings!HandleFailure, Findings!Settle, Findings!InOrder, Findings!Others, Others
  <2>2. /\ DOMAIN view' = DOMAIN view /\ view'.rows = view.rows
        /\ view'.notice = view.notice \/ (Ends(c) /\ view'.notice = c.arg.change)
        /\ DOMAIN view'.dialog = DOMAIN view.dialog
        /\ view'.dialog.item = view.dialog.item /\ view'.dialog.status = view.dialog.status
        /\ view'.dialog # view.dialog => view'.dialog.item \in Items
    <3>1. CASE c.op = "load" /\ view' = Findings!Finished([view EXCEPT !.error = TRUE], c.arg)
      <4>1. PICK v : v = [view EXCEPT !.error = TRUE]
        OBVIOUS
      <4>2. DOMAIN v = DOMAIN view /\ v.dialog = view.dialog /\ v.rows = view.rows /\ v.notice = view.notice
        BY <1>2, <4>1 DEF FindingsFields
      <4>3. c.arg.ends \in {Findings!None, "set", "undo", "verify"}
        BY <1>1, <3>1 DEF FindingsRequest, RowActions
      <4>4. view' = Findings!Finished(v, c.arg)
        BY <3>1, <4>1
      <4>5. CASE c.arg.ends = Findings!None
        <5>1. view' = v
          BY <4>4, <4>5 DEF Findings!Finished, Findings!None
        <5> QED BY <4>2, <5>1
      <4>6. CASE c.arg.ends = "set"
        <5>1. view' = [v EXCEPT !.busy = Findings!None, !.notice = c.arg.change]
          BY <4>4, <4>6 DEF Findings!Finished, Findings!None
        <5> QED BY <1>2, <3>1, <4>2, <4>6, <5>1 DEF FindingsFields, Ends
      <4>7. CASE c.arg.ends \in {"undo", "verify"}
        <5>1. view' = [v EXCEPT !.busy = Findings!None]
          BY <4>4, <4>7 DEF Findings!Finished, Findings!None
        <5> QED BY <1>2, <4>2, <5>1 DEF FindingsFields
      <4> QED BY <4>3, <4>5, <4>6, <4>7
    <3>2. CASE view' = [view EXCEPT !.busy = Findings!None, !.error = TRUE]
      BY <1>2, <3>2 DEF FindingsFields
    <3>3. CASE /\ c.op \in {"dialogSet", "dialogVerify"}
               /\ view' = IF Findings!OpenOn(view, c.arg.item) THEN [view EXCEPT !.dialog.busy = FALSE] ELSE view
      <4>1. CASE ~Findings!OpenOn(view, c.arg.item)
        <5>1. view' = view
          BY <3>3, <4>1
        <5> QED BY <5>1
      <4>2. CASE Findings!OpenOn(view, c.arg.item)
        <5>1. view' = [view EXCEPT !.dialog.busy = FALSE]
          BY <3>3, <4>2
        <5>2. view.dialog.item \in Items
          BY <1>1, <3>3, <4>2 DEF Findings!OpenOn, FindingsRequest
        <5> QED BY <1>2, <5>1, <5>2 DEF FindingsFields
      <4> QED BY <4>1, <4>2
    <3> QED BY <1>8, <3>1, <3>2, <3>3 DEF Findings!HandleFailure, Findings!Settle
  <2>3. spent.faults # 0
    BY <1>1, <2>1 DEF FindingsRequest
  <2>4. FindingsAnswer(k, none)
    BY <1>3, <2>1, <2>2, <2>3 DEF FindingsAnswer
  <2> HIDE DEF none
  <2> QED BY <2>4, FindingsAnswered
<1> QED BY <1>5, <1>6, <1>7, <1>8

\* Each step of the page keeps what its properties rest on.
LEMMA FindingsStep == FindingsInv /\ Findings!Next => FindingsInv'
BY FindingsTimed, FindingsGestures, FindingsApart, FindingsServes, FindingsFailed, FindingsAnswers DEF Findings!Next

\* What the steps keep says that an undo restores, and that the dialog is true.
LEMMA FindingsHold == FindingsInv => Findings!UndoRestores /\ Findings!DialogIsTrue
<1> SUFFICES ASSUME FindingsInv PROVE Findings!UndoRestores /\ Findings!DialogIsTrue
  OBVIOUS
<1>1. FindingsUndo2 /\ FindingsFresh
  BY DEF FindingsInv, FindingsUndo, FindingsDialog
<1>2. Findings!UndoRestores
  BY <1>1 DEF Findings!UndoRestores, FindingsUndo2
<1>3. Findings!DialogIsTrue
  <2> SUFFICES ASSUME Undisturbed, calls = << >>
               PROVE  view.dialog.status = server.status[view.dialog.item]
    BY DEF Findings!DialogIsTrue, Findings!InOrder, Findings!Quiet, Undisturbed
  <2>1. DOMAIN calls = {}
    OBVIOUS
  <2> QED BY <1>1, <2>1 DEF FindingsFresh
<1> QED BY <1>2, <1>3

-----------------------------------------------------------------------------
(* What the server held, from one request of a queue to the next. *)

\* What the server held, and what had happened to it until then, when it served what the page
\* shows (0), then each of the n requests of the queue, and what it holds now (n + 1): to go
\* from one to another costs no more than what happened in between.
Climbs(S, cost, n, held, count) ==
  /\ held \in [0..(n + 1) -> S] /\ count \in [0..(n + 1) -> Nat]
  /\ \A i, j \in 0..(n + 1) : i < j => cost[<<held[i], held[j]>>] <= count[j] - count[i]

\* What the server holds costs nothing to reach from itself.
Costs(S, cost) == cost \in [S \X S -> Nat] /\ \A x \in S : cost[<<x, x>>] = 0

\* Nothing happens.
Still(n, x) == [j \in 0..(n + 1) |-> x]

\* What it holds now is what comes after the first k requests of a queue of m sees.
Since(held, k, m, x) == [j \in 0..(m + 1) |-> IF j <= k THEN held[j] ELSE x]

\* The first of n requests is answered: the page shows what it showed, or what that request saw.
Shown(held, first, n) == [j \in 0..n |-> IF j = 0 THEN held[first] ELSE held[j + 1]]

\* Whatever the queue, nothing has happened yet.
LEMMA ClimbStarts ==
  ASSUME NEW S, NEW cost, Costs(S, cost), NEW n \in Nat, NEW x \in S, NEW u \in Nat
  PROVE  Climbs(S, cost, n, Still(n, x), Still(n, u))
<1> DEFINE h == Still(n, x)
           c == Still(n, u)
<1>1. h \in [0..(n + 1) -> S] /\ c \in [0..(n + 1) -> Nat]
  BY DEF Still
<1>2. \A j \in 0..(n + 1) : h[j] = x /\ c[j] = u
  BY DEF Still
<1> HIDE DEF h, c
<1>3. \A i, j \in 0..(n + 1) : i < j => cost[<<h[i], h[j]>>] <= c[j] - c[i]
  BY <1>2 DEF Costs
<1>4. Climbs(S, cost, n, h, c)
  BY <1>1, <1>3 DEF Climbs
<1> QED BY <1>4 DEF h, c

\* What is seen, then.
LEMMA SinceIs ==
  ASSUME NEW held, NEW m \in Nat, NEW k \in 0..m, NEW x
  PROVE  /\ \A j \in 0..m : j <= k => Since(held, k, m, x)[j] = held[j]
         /\ \A j \in 0..m : j > k => Since(held, k, m, x)[j] = x
         /\ Since(held, k, m, x)[0] = held[0]
         /\ Since(held, k, m, x)[m + 1] = x
BY DEF Since

\* Something happens at the server, which serves or is sent what comes after the first k
\* requests: all of that sees what it holds now.
LEMMA ClimbGoesOn ==
  ASSUME NEW S, NEW cost, Costs(S, cost),
         NEW n \in Nat, NEW held, NEW count, Climbs(S, cost, n, held, count),
         NEW k \in 0..n, NEW m \in Nat, k <= m,
         NEW x \in S, NEW u \in Nat, count[n + 1] <= u,
         \A y \in S : cost[<<y, x>>] <= cost[<<y, held[n + 1]>>] + (u - count[n + 1])
  PROVE  Climbs(S, cost, m, Since(held, k, m, x), Since(count, k, m, u))
<1> DEFINE h == Since(held, k, m, x)
           c == Since(count, k, m, u)
<1>1. /\ \A j \in 0..k : j \in 0..(n + 1) /\ j \in 0..(m + 1) /\ j < n + 1
      /\ \A j \in 0..(m + 1) : j <= k => j \in 0..k
  OBVIOUS
<1>2. /\ \A j \in 0..(n + 1) : held[j] \in S /\ count[j] \in Nat
      /\ \A i, j \in 0..(n + 1) : i < j => cost[<<held[i], held[j]>>] <= count[j] - count[i]
  BY DEF Climbs
<1>3. h \in [0..(m + 1) -> S] /\ c \in [0..(m + 1) -> Nat]
  BY <1>1, <1>2 DEF Since
<1>4. \A j \in 0..k : h[j] = held[j] /\ c[j] = count[j]
  BY <1>1 DEF Since
<1>5. \A j \in 0..(m + 1) : j > k => h[j] = x /\ c[j] = u
  BY DEF Since
<1> HIDE DEF h, c
<1>6. ASSUME NEW i \in 0..(m + 1), NEW j \in 0..(m + 1), i < j
      PROVE  cost[<<h[i], h[j]>>] <= c[j] - c[i]
  <2>1. CASE j <= k
    <3>1. i \in 0..k /\ j \in 0..k
      BY <1>6, <2>1
    <3> QED BY <1>1, <1>2, <1>4, <1>6, <3>1
  <2>2. CASE i <= k /\ ~(j <= k)
    <3>1. i \in 0..k /\ h[i] = held[i] /\ c[i] = count[i] /\ h[j] = x /\ c[j] = u
      BY <1>4, <1>5, <2>2
    <3>2. /\ i \in 0..(n + 1) /\ n + 1 \in 0..(n + 1) /\ i < n + 1
          /\ held[i] \in S /\ held[n + 1] \in S /\ count[i] \in Nat /\ count[n + 1] \in Nat
      BY <1>1, <1>2, <3>1
    <3>3. cost[<<held[i], held[n + 1]>>] <= count[n + 1] - count[i]
      BY <1>2, <3>2
    <3>4. cost[<<held[i], x>>] <= cost[<<held[i], held[n + 1]>>] + (u - count[n + 1])
      BY <3>2
    <3>5. cost[<<held[i], x>>] \in Nat /\ cost[<<held[i], held[n + 1]>>] \in Nat
      BY <3>2 DEF Costs
    <3> QED BY <3>1, <3>2, <3>3, <3>4, <3>5
  <2>3. CASE ~(i <= k)
    <3>1. h[i] = x /\ c[i] = u /\ h[j] = x /\ c[j] = u
      BY <1>5, <1>6, <2>3
    <3> QED BY <3>1 DEF Costs
  <2> QED BY <2>1, <2>2, <2>3
<1>7. Climbs(S, cost, m, h, c)
  BY <1>3, <1>6 DEF Climbs
<1> QED BY <1>7 DEF h, c

\* An answer that comes first takes its request away.
LEMMA ClimbIsAnswered ==
  ASSUME NEW S, NEW cost,
         NEW n \in Nat \ {0}, NEW held, NEW count, Climbs(S, cost, n, held, count),
         NEW first \in {0, 1}
  PROVE  Climbs(S, cost, n - 1, Shown(held, first, n), Shown(count, first, n))
<1> DEFINE at(j) == IF j = 0 THEN first ELSE j + 1
           h == Shown(held, first, n)
           c == Shown(count, first, n)
<1>1. /\ \A j \in 0..n : at(j) \in 0..(n + 1)
      /\ \A i, j \in 0..n : i < j => at(i) < at(j)
  OBVIOUS
<1>2. /\ \A j \in 0..(n + 1) : held[j] \in S /\ count[j] \in Nat
      /\ \A i, j \in 0..(n + 1) : i < j => cost[<<held[i], held[j]>>] <= count[j] - count[i]
  BY DEF Climbs
<1>3. \A j \in 0..n : h[j] = held[at(j)] /\ c[j] = count[at(j)]
  BY DEF Shown
<1>4. h \in [0..n -> S] /\ c \in [0..n -> Nat]
  <2>1. h = [j \in 0..n |-> held[at(j)]] /\ c = [j \in 0..n |-> count[at(j)]]
    BY DEF Shown
  <2> HIDE DEF at, h, c
  <2> QED BY <1>1, <1>2, <2>1
<1> HIDE DEF h, c, at
<1>5. \A i, j \in 0..n : i < j => cost[<<h[i], h[j]>>] <= c[j] - c[i]
  BY <1>1, <1>2, <1>3
<1>6. (n - 1) + 1 = n
  OBVIOUS
<1>7. Climbs(S, cost, n - 1, h, c)
  BY <1>4, <1>5, <1>6 DEF Climbs
<1> QED BY <1>7 DEF h, c

-----------------------------------------------------------------------------
(* The findings: what arrives is counted once. *)

\* What the list of each status would show.
Contents == [Findings!Statuses -> SUBSET Items]
FindingsLists == [t \in Findings!Statuses |-> {f \in Items : server.status[f] = t}]
Listed(lists, tab) == IF tab = "all" THEN Items ELSE lists[tab]

\* What entered a list, from one state of the lists to another.
Entered(old, new) == {f \in Items : \E t \in Findings!Statuses : f \in new[t] /\ f \notin old[t]}
Entries == [p \in Contents \X Contents |-> Cardinality(Entered(p[1], p[2]))]

\* An action that waits to be served is a move that has changed nothing yet.
Owed(q) == {k \in DOMAIN q : Acts(q[k]) /\ q[k].phase = "sent"}
Happened == spent.moves - Cardinality(Owed(calls))

\* The tabs are those of the page, and a list is one of findings.
Lists(c) == c.op = "load" /\ c.phase = "done"
ArrivalsRequest(c) ==
  /\ c.op = "load" \/ Acts(c) => c.arg.tab \in Findings!Tabs
  /\ Ends(c) => c.arg.change.tab \in Findings!Tabs
  /\ c.op = "read" => c.arg.ends \in Findings!Tabs \union {Findings!None}
  /\ Lists(c) => DOMAIN c.reply \subseteq Items
ArrivalsRequests == \A k \in DOMAIN calls : ArrivalsRequest(calls[k])
ArrivalsView ==
  /\ view.tab \in Findings!Tabs /\ view.timer \in Findings!Tabs \union {Findings!None}
  /\ view.notice # Findings!NoNotice => view.notice.tab \in Findings!Tabs
  /\ view.snapshot.tab \in Findings!Tabs \union {Findings!None} /\ view.arrived \in Nat

\* What the lists were, and what had happened until then, when the server served the list on
\* screen, then each request of the queue, and what they are now.
ArrivalsPath(held, count) ==
  /\ Climbs(Contents, Entries, Len(calls), held, count)
  /\ view.snapshot.tab # Findings!None => view.snapshot.ids = Listed(held[0], view.snapshot.tab)
  /\ view.arrived <= count[0]
  /\ held[Len(calls) + 1] = FindingsLists /\ count[Len(calls) + 1] = Happened
  /\ \A j \in DOMAIN calls : Lists(calls[j]) => DOMAIN calls[j].reply = Listed(held[j], calls[j].arg.tab)
ArrivalsCounted == spent.inOrder => \E held, count : ArrivalsPath(held, count)

ArrivalsInv == ArrivalsRequests /\ ArrivalsView /\ ArrivalsCounted

\* The lists are of the findings.
LEMMA ListsAre == FindingsLists \in Contents /\ FindingsLists' \in Contents
BY DEF FindingsLists, Contents

\* Nothing enters a list that does not change.
LEMMA EntriesCost == Costs(Contents, Entries)
<1>1. \A x, y : Cardinality(Entered(x, y)) \in Nat
  <2> TAKE x, y
  <2>1. Entered(x, y) \in SUBSET Items
    BY DEF Entered
  <2>2. IsFiniteSet(Entered(x, y))
    BY <2>1, ItemsAssumption, FS_Subset
  <2> QED BY <2>2, FS_CardinalityType
<1>2. Entries \in [Contents \X Contents -> Nat]
  BY <1>1 DEF Entries
<1>3. ASSUME NEW x \in Contents PROVE Entries[<<x, x>>] = 0
  <2>1. Entered(x, x) = {}
    BY DEF Entered
  <2>2. Entries[<<x, x>>] = Cardinality(Entered(x, x))
    BY DEF Entries
  <2> QED BY <2>1, <2>2, FS_EmptySet
<1> QED BY <1>2, <1>3 DEF Costs

\* A finding enters the lists once when its status changes, and no other one does.
LEMMA OneEnters ==
  ASSUME NEW x \in Contents, NEW z \in Contents, NEW f,
         \A g \in Items : g # f => \A t \in Findings!Statuses : g \in z[t] <=> g \in x[t]
  PROVE  \A y \in Contents : Entries[<<y, z>>] <= Entries[<<y, x>>] + 1
<1> TAKE y \in Contents
<1>1. Entries[<<y, z>>] = Cardinality(Entered(y, z)) /\ Entries[<<y, x>>] = Cardinality(Entered(y, x))
  BY DEF Entries
<1>2. PICK A, B : A = Entered(y, z) /\ B = Entered(y, x)
  OBVIOUS
<1>3. A \subseteq B \union {f} /\ B \in SUBSET Items
  BY <1>2 DEF Entered
<1>4. IsFiniteSet(B)
  BY <1>3, ItemsAssumption, FS_Subset
<1>5. /\ Cardinality(B) \in Nat /\ IsFiniteSet(B \union {f})
      /\ Cardinality(B \union {f}) = IF f \in B THEN Cardinality(B) ELSE Cardinality(B) + 1
  BY <1>4, FS_CardinalityType, FS_AddElement
<1>6. Cardinality(A) <= Cardinality(B \union {f})
  BY <1>3, <1>5, FS_Subset
<1>7. Cardinality(A) \in Nat
  BY <1>3, <1>5, FS_Subset, FS_CardinalityType
<1> QED BY <1>1, <1>2, <1>5, <1>6, <1>7

\* So many actions wait.
LEMMA OwedCounts ==
  ASSUME NEW q, Queue(q)
  PROVE  IsFiniteSet(Owed(q)) /\ Cardinality(Owed(q)) \in Nat
<1>1. Len(q) \in Nat /\ DOMAIN q = 1..Len(q)
  BY QueueNumbers
<1>2. IsFiniteSet(1..Len(q))
  BY <1>1, FS_Interval
<1>3. Owed(q) \in SUBSET (1..Len(q))
  BY <1>1 DEF Owed
<1>4. IsFiniteSet(Owed(q))
  BY <1>2, <1>3, FS_Subset
<1> QED BY <1>4, FS_CardinalityType

\* One more does when it is sent, and counts as a move.
LEMMA OwedGrows ==
  ASSUME Queue(calls), NEW n, Shaped(n), n.phase = "sent", calls' = calls \o <<n>> \/ calls' = Append(calls, n)
  PROVE  Cardinality(Owed(calls')) = Cardinality(Owed(calls)) + (IF Acts(n) THEN 1 ELSE 0)
<1>1. /\ Len(calls) + 1 \in DOMAIN calls' /\ calls'[Len(calls) + 1] = n
      /\ \A j \in DOMAIN calls : j \in DOMAIN calls' /\ calls'[j] = calls[j]
      /\ \A i \in DOMAIN calls' : \/ i \in DOMAIN calls /\ calls'[i] = calls[i]
                                  \/ i = Len(calls) + 1 /\ i \notin DOMAIN calls /\ calls'[i] = n
  <2>1. Len(calls) + 1 \in DOMAIN calls' /\ calls'[Len(calls) + 1] = n
    BY OneSent
  <2>2. \A j \in DOMAIN calls : j \in DOMAIN calls' /\ calls'[j] = calls[j]
    BY OneSent
  <2>3. \A i \in DOMAIN calls' : \/ i \in DOMAIN calls /\ calls'[i] = calls[i]
                                 \/ i = Len(calls) + 1 /\ i \notin DOMAIN calls /\ calls'[i] = n
    BY OneSent
  <2> QED BY <2>1, <2>2, <2>3
<1>2. PICK l, P, Q, q : l = Len(calls) + 1 /\ P = Owed(calls) /\ q = calls' /\ Q = Owed(q)
  OBVIOUS
<1>3. IsFiniteSet(P) /\ Cardinality(P) \in Nat
  BY <1>2, OwedCounts
<1>4. l \notin P
  <2>1. Len(calls) \in Nat /\ DOMAIN calls = 1..Len(calls)
    BY QueueNumbers
  <2> QED BY <1>2, <2>1 DEF Owed
<1>5. Q = IF Acts(n) THEN P \union {l} ELSE P
  BY <1>1, <1>2 DEF Owed, Acts
<1>6. Cardinality(P \union {l}) = Cardinality(P) + 1
  BY <1>3, <1>4, FS_AddElement
<1>7. Cardinality(Q) = Cardinality(P) + (IF Acts(n) THEN 1 ELSE 0)
  <2>1. CASE Acts(n)
    BY <1>5, <1>6, <2>1
  <2>2. CASE ~Acts(n)
    BY <1>3, <1>5, <2>2
  <2> QED BY <2>1, <2>2
<1> QED BY <1>2, <1>7

\* One less does when it is served, or lost.
LEMMA OwedServed ==
  ASSUME Queue(calls), NEW k \in DOMAIN calls, NEW phase, NEW reply, Becomes(k, phase, reply), phase # "sent"
  PROVE  Cardinality(Owed(calls')) =
           Cardinality(Owed(calls)) - (IF Acts(calls[k]) /\ calls[k].phase = "sent" THEN 1 ELSE 0)
<1>1. /\ DOMAIN calls' = DOMAIN calls
      /\ \A j \in DOMAIN calls : calls'[j].op = calls[j].op
      /\ \A j \in DOMAIN calls : j # k => calls'[j] = calls[j]
      /\ calls'[k].phase = phase
  BY OneServed
<1>2. PICK P, Q, q : P = Owed(calls) /\ q = calls' /\ Q = Owed(q)
  OBVIOUS
<1>3. IsFiniteSet(P) /\ Cardinality(P) \in Nat
  BY <1>2, OwedCounts
<1>4. Q = P \ {k} /\ (k \in P <=> Acts(calls[k]) /\ calls[k].phase = "sent")
  BY <1>1, <1>2 DEF Owed, Acts
<1>5. Cardinality(P \ {k}) = IF k \in P THEN Cardinality(P) - 1 ELSE Cardinality(P)
  BY <1>3, FS_RemoveElement
<1> QED BY <1>2, <1>3, <1>4, <1>5

\* As many do after an answer.
LEMMA OwedAnswered ==
  ASSUME Queue(calls), NEW k \in DOMAIN calls, calls[k].phase # "sent", NEW n, ~Acts(n),
         calls' = Others(k) \o << >> \/ (Shaped(n) /\ calls' = Others(k) \o <<n>>)
  PROVE  Cardinality(Owed(calls')) = Cardinality(Owed(calls))
<1>1. /\ Len(calls) \in Nat \ {0} /\ DOMAIN calls = 1..Len(calls) /\ k \in 1..Len(calls)
      /\ \A j \in DOMAIN calls : j # k => Moved(k, j) \in DOMAIN calls' /\ calls'[Moved(k, j)] = calls[j]
      /\ \A i \in DOMAIN calls' : i \in 1..Len(calls)
      /\ \A i \in DOMAIN calls' :
           \/ Came(k, i) \in DOMAIN calls /\ Came(k, i) # k /\ calls'[i] = calls[Came(k, i)]
           \/ i = Len(calls) /\ calls'[i] = n
  <2>1. Len(calls) \in Nat \ {0} /\ DOMAIN calls = 1..Len(calls) /\ k \in 1..Len(calls)
    BY Answers
  <2>2. \A j \in DOMAIN calls : j # k => Moved(k, j) \in DOMAIN calls' /\ calls'[Moved(k, j)] = calls[j]
    BY Answers
  <2>3. /\ \A i \in DOMAIN calls' : i \in 1..Len(calls)
        /\ \A i \in DOMAIN calls' :
             \/ Came(k, i) \in DOMAIN calls /\ Came(k, i) # k /\ calls'[i] = calls[Came(k, i)]
             \/ i = Len(calls) /\ calls'[i] = n
    BY Answers
  <2> QED BY <2>1, <2>2, <2>3
<1>2. PICK P, Q, q : P = Owed(calls) /\ q = calls' /\ Q = Owed(q)
  OBVIOUS
<1> DEFINE g == [j \in P |-> Moved(k, j)]
<1>3. IsFiniteSet(P)
  BY <1>2, OwedCounts
<1>4. \A j \in P : j \in DOMAIN calls /\ j # k
  BY <1>2 DEF Owed
<1>5. \A j \in P : Moved(k, j) \in Q
  BY <1>1, <1>2, <1>4 DEF Owed, Acts
<1>6. \A i, j \in P : Moved(k, i) = Moved(k, j) => i = j
  BY <1>1, <1>4 DEF Moved
<1>7. \A i \in Q : Came(k, i) \in P /\ Moved(k, Came(k, i)) = i
  <2> TAKE i \in Q
  <2>1. /\ i \in DOMAIN q /\ Acts(q[i]) /\ q[i].phase = "sent"
    BY <1>2 DEF Owed
  <2>2. Came(k, i) \in DOMAIN calls /\ Came(k, i) # k /\ q[i] = calls[Came(k, i)]
    BY <1>1, <1>2, <2>1
  <2>3. Came(k, i) \in P
    BY <1>2, <2>1, <2>2 DEF Owed
  <2>4. Moved(k, Came(k, i)) = i
    BY <1>1, <1>2, <2>1 DEF Moved, Came
  <2> QED BY <2>3, <2>4
<1>8. ExistsBijection(P, Q)
  <2>1. g \in [P -> Q]
    BY <1>5
  <2>2. \A i, j \in P : g[i] = g[j] => i = j
    BY <1>6
  <2>3. \A i \in Q : \E j \in P : g[j] = i
    BY <1>7
  <2> HIDE DEF g
  <2>4. g \in Bijection(P, Q)
    BY <2>1, <2>2, <2>3 DEF Bijection, Injection, Surjection, IsInjective
  <2> QED BY <2>4 DEF ExistsBijection
<1>9. Cardinality(Q) = Cardinality(P)
  BY <1>3, <1>8, FS_Bijection
<1> QED BY <1>2, <1>9

\* The page opens before anything happens.
LEMMA ArrivalsInit == Findings!Init => ArrivalsInv
<1> SUFFICES ASSUME Findings!Init PROVE ArrivalsInv
  OBVIOUS
<1>1. PICK c : /\ calls = <<c>> /\ Shaped(c) /\ c.op = "load" /\ c.phase = "sent"
               /\ c.arg.tab = "active" /\ c.arg.ends = Findings!None
  BY FindingsAsk DEF Findings!Init, Findings!Reload
<1>2. PICK q : q = calls
  OBVIOUS
<1>3. Queue(q) /\ Len(q) = 1 /\ DOMAIN q = {1} /\ q[1] = c
  BY <1>1, <1>2, Asked
<1>4. spent.moves = 0
  <2>1. PICK ordered :
          spent = LET bounds == [moves |-> 0, faults |-> 0, inOrder |-> ordered]
                      h == [outside |-> 0]
                  IN  [x \in DOMAIN bounds \union DOMAIN h |-> IF x \in DOMAIN bounds THEN bounds[x] ELSE h[x]]
    BY DEF Findings!Init, Findings!Unspent
  <2> QED BY <2>1, Opens
<1>5. ArrivalsRequests
  BY <1>1, <1>2, <1>3 DEF ArrivalsRequests, ArrivalsRequest, Acts, Ends, Findings!Actions, Findings!Tabs, Findings!None, Lists
<1>6. view.snapshot.tab = Findings!None /\ view.arrived = 0
  BY DEF Findings!Init
<1>7. ArrivalsView
  BY <1>6 DEF ArrivalsView, Findings!Init, Findings!Tabs
<1>8. Happened = 0
  <2>1. Owed(q) = {}
    BY <1>1, <1>3 DEF Owed, Acts, Findings!Actions
  <2> QED BY <1>2, <1>4, <2>1, FS_EmptySet DEF Happened
<1>9. ArrivalsCounted
  <2>1. PICK n, x : n = Len(calls) /\ x = FindingsLists
    OBVIOUS
  <2>2. n \in Nat /\ x \in Contents /\ 0 \in Nat
    BY <1>2, <1>3, <2>1, ListsAre
  <2> DEFINE h == Still(n, x)
             u == Still(n, 0)
  <2>3. Climbs(Contents, Entries, n, h, u)
    BY <2>2, EntriesCost, ClimbStarts
  <2>4. h[n + 1] = x /\ u[0] = 0 /\ u[n + 1] = 0
    <3>1. h[n + 1] = x
      BY <2>2 DEF Still
    <3>2. u[0] = 0 /\ u[n + 1] = 0
      BY <2>2 DEF Still
    <3> QED BY <3>1, <3>2
  <2>5. \A j \in DOMAIN calls : ~Lists(calls[j])
    BY <1>1, <1>2, <1>3 DEF Lists
  <2> HIDE DEF h, u
  <2>6. ArrivalsPath(h, u)
    BY <1>6, <1>8, <2>1, <2>3, <2>4, <2>5 DEF ArrivalsPath
  <2> QED BY <2>6 DEF ArrivalsCounted
<1> QED BY <1>5, <1>7, <1>9 DEF ArrivalsInv

\* What the page shows was counted when it happened.
LEMMA ArrivalsHold == FindingsInv /\ ArrivalsInv => Findings!ArrivalsAreCountedOnce
<1> SUFFICES ASSUME FindingsInv, ArrivalsInv, spent.inOrder PROVE view.arrived <= spent.moves
  BY DEF Findings!ArrivalsAreCountedOnce, Findings!InOrder
<1>1. Queue(calls) /\ spent.moves \in Nat /\ view.arrived \in Nat
  BY DEF FindingsInv, FindingsBase, FindingsSpent, Counted, ArrivalsInv, ArrivalsView
<1>2. PICK held, count : ArrivalsPath(held, count)
  BY DEF ArrivalsInv, ArrivalsCounted
<1>3. PICK n : n = Len(calls)
  OBVIOUS
<1>4. n \in Nat /\ 0 \in 0..(n + 1) /\ n + 1 \in 0..(n + 1) /\ 0 < n + 1
  BY <1>1, <1>3, QueueNumbers
<1>5. Climbs(Contents, Entries, n, held, count) /\ view.arrived <= count[0] /\ count[n + 1] = Happened
  BY <1>2, <1>3 DEF ArrivalsPath
<1>6. /\ held[0] \in Contents /\ held[n + 1] \in Contents /\ count[0] \in Nat /\ count[n + 1] \in Nat
      /\ Entries[<<held[0], held[n + 1]>>] <= count[n + 1] - count[0]
  BY <1>4, <1>5 DEF Climbs
<1>7. Entries[<<held[0], held[n + 1]>>] \in Nat
  BY <1>6, EntriesCost DEF Costs
<1>8. Happened <= spent.moves
  BY <1>1, OwedCounts DEF Happened
<1> QED BY <1>1, <1>5, <1>6, <1>7, <1>8

\* Nothing of the page that counts changes; what is asked comes last, and what happens counts.
LEMMA PathGrows ==
  ASSUME Queue(calls), ArrivalsCounted,
         view'.snapshot = view.snapshot, view'.arrived = view.arrived, spent'.inOrder = spent.inOrder,
         NEW n, Shaped(n), n.phase = "sent", calls' \in {calls, calls \o <<n>>, Append(calls, n)},
         Happened \in Int, Happened' \in Int, Happened <= Happened',
         \A y \in Contents : Entries[<<y, FindingsLists'>>] <= Entries[<<y, FindingsLists>>] + (Happened' - Happened)
  PROVE  ArrivalsCounted'
<1> SUFFICES ASSUME spent'.inOrder PROVE \E held, count : ArrivalsPath(held, count)'
  BY DEF ArrivalsCounted
<1>1. PICK held, count : ArrivalsPath(held, count)
  BY DEF ArrivalsCounted
<1>2. PICK x, u, l, m : x = FindingsLists' /\ u = Happened' /\ l = Len(calls) /\ m = Len(calls')
  OBVIOUS
<1>3. /\ l \in Nat /\ m \in Nat /\ l <= m /\ DOMAIN calls = 1..l
      /\ \A j \in DOMAIN calls' : \/ j \in DOMAIN calls /\ calls'[j] = calls[j]
                                  \/ ~Lists(calls'[j])
  <2>1. l \in Nat /\ DOMAIN calls = 1..l
    BY <1>2, QueueNumbers
  <2>2. CASE calls' = calls
    BY <1>2, <2>1, <2>2
  <2>3. CASE calls' = calls \o <<n>> \/ calls' = Append(calls, n)
    <3>1. m = l + 1
      BY <1>2, <2>3, OneSent
    <3>2. \A j \in DOMAIN calls' : \/ j \in DOMAIN calls /\ calls'[j] = calls[j]
                                   \/ j = Len(calls) + 1 /\ j \notin DOMAIN calls /\ calls'[j] = n
      BY <2>3, OneSent
    <3> QED BY <2>1, <3>1, <3>2 DEF Lists
  <2> QED BY <2>2, <2>3
<1> DEFINE h == Since(held, l, m, x)
           c == Since(count, l, m, u)
<1>4. l \in 0..l /\ l \in 0..m
  BY <1>3
<1>5. /\ Climbs(Contents, Entries, l, held, count)
      /\ held[l + 1] = FindingsLists /\ count[l + 1] = Happened
  BY <1>1, <1>2 DEF ArrivalsPath
<1>6. count[l + 1] \in Nat
  <2>1. l + 1 \in 0..(l + 1)
    BY <1>3
  <2> QED BY <1>5, <2>1 DEF Climbs
<1>7. /\ x \in Contents /\ u \in Nat /\ count[l + 1] <= u
      /\ \A y \in Contents : Entries[<<y, x>>] <= Entries[<<y, held[l + 1]>>] + (u - count[l + 1])
  BY <1>2, <1>5, <1>6, ListsAre
<1>8. Climbs(Contents, Entries, m, h, c)
  BY <1>3, <1>4, <1>5, <1>7, EntriesCost, ClimbGoesOn
<1>9. /\ \A j \in 0..m : j <= l => h[j] = held[j]
      /\ h[0] = held[0] /\ c[0] = count[0] /\ h[m + 1] = x /\ c[m + 1] = u
  <2>1. \A j \in 0..m : j <= l => h[j] = held[j]
    BY <1>3 DEF Since
  <2>2. h[0] = held[0] /\ h[m + 1] = x
    BY <1>3 DEF Since
  <2>3. c[0] = count[0] /\ c[m + 1] = u
    BY <1>3 DEF Since
  <2> QED BY <2>1, <2>2, <2>3
<1>10. ASSUME NEW j \in DOMAIN calls', Lists(calls'[j])
       PROVE  DOMAIN calls'[j].reply = Listed(h[j], calls'[j].arg.tab)
  <2>1. j \in DOMAIN calls /\ calls'[j] = calls[j]
    BY <1>3, <1>10
  <2>2. j \in 0..m /\ j <= l
    BY <1>3, <2>1
  <2> QED BY <1>1, <1>9, <1>10, <2>1, <2>2 DEF ArrivalsPath
<1>11. /\ view'.snapshot.tab # Findings!None => view'.snapshot.ids = Listed(h[0], view'.snapshot.tab)
       /\ view'.arrived <= c[0]
  BY <1>1, <1>9 DEF ArrivalsPath
<1> HIDE DEF h, c
<1>12. ArrivalsPath(h, c)'
  BY <1>2, <1>8, <1>9, <1>10, <1>11 DEF ArrivalsPath
<1> QED BY <1>12

\* A request is served, and sees the lists as they are, or is lost.
LEMMA PathServed ==
  ASSUME Queue(calls), FindingsOrder, ArrivalsCounted,
         view' = view, spent'.inOrder = spent.inOrder,
         NEW k \in DOMAIN calls, NEW phase, NEW reply, Becomes(k, phase, reply),
         \/ phase = "refused" /\ FindingsLists' = FindingsLists
         \/ /\ phase = "done" /\ calls[k].phase = "sent"
            /\ calls[k].op = "load" =>
                 FindingsLists' = FindingsLists /\ DOMAIN reply = Listed(FindingsLists, calls[k].arg.tab),
         Happened \in Int, Happened' \in Int, Happened <= Happened',
         \A y \in Contents : Entries[<<y, FindingsLists'>>] <= Entries[<<y, FindingsLists>>] + (Happened' - Happened)
  PROVE  ArrivalsCounted'
<1> SUFFICES ASSUME spent'.inOrder PROVE \E held, count : ArrivalsPath(held, count)'
  BY DEF ArrivalsCounted
<1>1. PICK held, count : ArrivalsPath(held, count)
  BY DEF ArrivalsCounted
<1>2. PICK x, u, l, b : /\ x = FindingsLists' /\ u = Happened' /\ l = Len(calls)
                        /\ b = IF phase = "done" THEN k - 1 ELSE l
  OBVIOUS
<1>3. /\ l \in Nat /\ DOMAIN calls = 1..l /\ Len(calls') = l /\ DOMAIN calls' = 1..l
      /\ k \in 1..l /\ b \in 0..l
  <2>1. l \in Nat /\ DOMAIN calls = 1..l /\ Len(calls') = l /\ DOMAIN calls' = DOMAIN calls
    BY <1>2, OneServed
  <2> QED BY <1>2, <2>1
<1>4. /\ \A j \in DOMAIN calls : calls'[j].op = calls[j].op /\ calls'[j].arg = calls[j].arg
      /\ \A j \in DOMAIN calls : j # k => calls'[j] = calls[j]
      /\ calls'[k].phase = phase /\ calls'[k].reply = reply
  <2>1. \A j \in DOMAIN calls : calls'[j].op = calls[j].op /\ calls'[j].arg = calls[j].arg
    BY OneServed
  <2>2. \A j \in DOMAIN calls : j # k => calls'[j] = calls[j]
    BY OneServed
  <2>3. calls'[k].phase = phase /\ calls'[k].reply = reply
    BY OneServed
  <2> QED BY <2>1, <2>2, <2>3
<1> DEFINE h == Since(held, b, l, x)
           c == Since(count, b, l, u)
<1>5. /\ Climbs(Contents, Entries, l, held, count)
      /\ held[l + 1] = FindingsLists /\ count[l + 1] = Happened
  BY <1>1, <1>2 DEF ArrivalsPath
<1>6. count[l + 1] \in Nat
  <2>1. l + 1 \in 0..(l + 1)
    BY <1>3
  <2> QED BY <1>5, <2>1 DEF Climbs
<1>7. /\ x \in Contents /\ u \in Nat /\ count[l + 1] <= u
      /\ \A y \in Contents : Entries[<<y, x>>] <= Entries[<<y, held[l + 1]>>] + (u - count[l + 1])
  BY <1>2, <1>5, <1>6, ListsAre
<1>8. l <= l
  BY <1>3
<1>9. Climbs(Contents, Entries, l, h, c)
  BY <1>3, <1>5, <1>7, <1>8, EntriesCost, ClimbGoesOn
<1>10. /\ \A j \in 0..l : j <= b => h[j] = held[j]
       /\ \A j \in 0..l : j > b => h[j] = x
       /\ h[0] = held[0] /\ c[0] = count[0] /\ h[l + 1] = x /\ c[l + 1] = u
  <2>1. \A j \in 0..l : (j <= b => h[j] = held[j]) /\ (j > b => h[j] = x)
    BY <1>3 DEF Since
  <2>2. h[0] = held[0] /\ h[l + 1] = x
    BY <1>3 DEF Since
  <2>3. c[0] = count[0] /\ c[l + 1] = u
    BY <1>3 DEF Since
  <2> QED BY <2>1, <2>2, <2>3
<1>11. ASSUME NEW j \in DOMAIN calls', Lists(calls'[j])
       PROVE  DOMAIN calls'[j].reply = Listed(h[j], calls'[j].arg.tab)
  <2>0. j \in 0..l /\ j \in DOMAIN calls /\ j \in Nat /\ k \in Nat
    BY <1>3
  <2>1. CASE j = k
    <3>1. phase = "done" /\ calls[k].op = "load" /\ reply = calls'[k].reply /\ calls'[k].arg = calls[k].arg
      BY <1>4, <1>11, <2>0, <2>1 DEF Lists
    <3>2. h[k] = x
      BY <1>2, <1>3, <1>10, <2>0, <2>1, <3>1
    <3> QED BY <1>2, <2>1, <3>1, <3>2
  <2>2. CASE j # k
    <3>1. calls'[j] = calls[j]
      BY <1>4, <2>0, <2>2
    <3>2. j <= b
      <4>1. CASE phase = "done"
        <5>1. calls[j].phase = "done" /\ calls[k].phase = "sent"
          BY <1>11, <3>1, <4>1 DEF Lists
        <5>2. ~(k < j)
          BY <2>0, <5>1 DEF FindingsOrder
        <5> QED BY <1>2, <2>0, <2>2, <4>1, <5>2
      <4>2. CASE phase # "done"
        BY <1>2, <1>3, <2>0, <4>2
      <4> QED BY <4>1, <4>2
    <3>3. h[j] = held[j]
      BY <1>10, <2>0, <3>2
    <3> QED BY <1>1, <1>11, <2>0, <3>1, <3>3 DEF ArrivalsPath
  <2> QED BY <2>1, <2>2
<1>12. /\ view'.snapshot.tab # Findings!None => view'.snapshot.ids = Listed(h[0], view'.snapshot.tab)
       /\ view'.arrived <= c[0]
  BY <1>1, <1>10 DEF ArrivalsPath
<1> HIDE DEF h, c
<1>13. ArrivalsPath(h, c)'
  BY <1>2, <1>3, <1>9, <1>10, <1>11, <1>12 DEF ArrivalsPath
<1> QED BY <1>13

\* An answer takes its request away, and what it shows that was not there entered the list since.
LEMMA PathAnswered ==
  ASSUME Queue(calls), ArrivalsRequests, ArrivalsView, ArrivalsCounted,
         FindingsLists' = FindingsLists, Happened' = Happened, spent'.inOrder = spent.inOrder,
         NEW k \in DOMAIN calls, spent.inOrder => k = 1,
         NEW n, Shaped(n), n.phase = "sent", calls' \in {Others(k) \o << >>, Others(k) \o <<n>>},
         \/ view'.snapshot = view.snapshot /\ view'.arrived = view.arrived
         \/ /\ Lists(calls[k])
            /\ view'.snapshot = [tab |-> calls[k].arg.tab, ids |-> DOMAIN calls[k].reply]
            /\ view'.arrived =
                 IF view.snapshot.tab = calls[k].arg.tab
                 THEN view.arrived + Cardinality(DOMAIN calls[k].reply \ view.snapshot.ids) ELSE 0
  PROVE  ArrivalsCounted'
<1> SUFFICES ASSUME spent'.inOrder PROVE \E held, count : ArrivalsPath(held, count)'
  BY DEF ArrivalsCounted
<1>1. PICK held, count : ArrivalsPath(held, count)
  BY DEF ArrivalsCounted
<1>2. PICK x, u, l, m, first :
        /\ x = FindingsLists /\ u = Happened /\ l = Len(calls) /\ m = Len(calls')
        /\ first = IF view'.snapshot = view.snapshot /\ view'.arrived = view.arrived THEN 0 ELSE 1
  OBVIOUS
<1>3. /\ k = 1 /\ l \in Nat \ {0} /\ DOMAIN calls = 1..l /\ m \in {l - 1, l} /\ DOMAIN calls' = 1..m
      /\ \A j \in 1..m : \/ j \in 1..(l - 1) /\ j + 1 \in 1..l /\ calls'[j] = calls[j + 1]
                         \/ ~Lists(calls'[j])
  <2>0. k = 1
    OBVIOUS
  <2>1. CASE calls' = Others(k) \o << >>
    <3>1. l \in Nat \ {0} /\ DOMAIN calls = 1..l /\ m = l - 1 /\ DOMAIN calls' = 1..(l - 1)
      BY <1>2, <2>1, OneAnswered
    <3>2. \A i \in DOMAIN calls' : calls'[i] = calls[Came(k, i)]
      BY <2>1, OneAnswered
    <3> QED BY <2>0, <3>1, <3>2 DEF Came
  <2>2. CASE calls' = Others(k) \o <<n>>
    <3>1. l \in Nat \ {0} /\ DOMAIN calls = 1..l /\ m = l /\ DOMAIN calls' = 1..l /\ calls'[l] = n
      BY <1>2, <2>2, OneAsked
    <3>2. \A i \in DOMAIN calls' : i # Len(calls) => calls'[i] = calls[Came(k, i)]
      BY <2>2, OneAsked
    <3>3. \A i \in 1..l : i # l => i \in 1..(l - 1) /\ i + 1 \in 1..l /\ Came(1, i) = i + 1
      BY <3>1 DEF Came
    <3>4. ~Lists(n)
      BY DEF Lists
    <3> QED BY <1>2, <2>0, <3>1, <3>2, <3>3, <3>4
  <2> QED BY <2>1, <2>2
<1> DEFINE g == Shown(held, first, l)
           d == Shown(count, first, l)
           h == Since(g, l - 1, m, x)
           c == Since(d, l - 1, m, u)
<1>4. /\ Climbs(Contents, Entries, l, held, count)
      /\ held[l + 1] = x /\ count[l + 1] = u
  BY <1>1, <1>2 DEF ArrivalsPath
<1>5. first \in {0, 1} /\ (l - 1) + 1 = l /\ l \in 1..l /\ l - 1 \in Nat /\ l - 1 \in 0..(l - 1) /\ m \in Nat
      /\ l - 1 <= m /\ l - 1 \in 0..m /\ l + 1 \in 0..(l + 1) /\ 0 \in 0..(l + 1) /\ 1 \in 0..(l + 1)
  <2>1. first \in {0, 1}
    BY <1>2
  <2> QED BY <1>3, <2>1
<1>6. /\ g[0] = held[first] /\ d[0] = count[first] /\ g[l] = x /\ d[l] = u
      /\ \A j \in 1..(l - 1) : g[j] = held[j + 1]
  <2>1. g[0] = held[first] /\ g[l] = held[l + 1]
    BY <1>3 DEF Shown
  <2>2. d[0] = count[first] /\ d[l] = count[l + 1]
    BY <1>3 DEF Shown
  <2>3. \A j \in 1..(l - 1) : g[j] = held[j + 1]
    BY <1>3 DEF Shown
  <2> QED BY <1>4, <2>1, <2>2, <2>3
<1>7. Climbs(Contents, Entries, l - 1, g, d)
  BY <1>3, <1>4, <1>5, ClimbIsAnswered
<1>8. /\ \A j \in 1..(l - 1) : h[j] = g[j]
      /\ h[0] = g[0] /\ c[0] = d[0] /\ h[m + 1] = x /\ c[m + 1] = u
  <2> HIDE DEF g, d
  <2>1. \A j \in 1..(l - 1) : h[j] = g[j]
    BY <1>3, <1>5 DEF Since
  <2>2. h[0] = g[0] /\ h[m + 1] = x
    BY <1>3, <1>5 DEF Since
  <2>3. c[0] = d[0] /\ c[m + 1] = u
    BY <1>3, <1>5 DEF Since
  <2> QED BY <2>1, <2>2, <2>3
<1> HIDE DEF g, d
<1>9. /\ x \in Contents /\ u \in Nat
      /\ \A y \in Contents : Entries[<<y, x>>] \in Nat
  <2>1. x \in Contents /\ u \in Nat
    BY <1>2, <1>4, <1>5, ListsAre DEF Climbs
  <2> QED BY <2>1, EntriesCost DEF Costs
<1>10. /\ d[(l - 1) + 1] <= u
       /\ \A y \in Contents : Entries[<<y, x>>] <= Entries[<<y, g[(l - 1) + 1]>>] + (u - d[(l - 1) + 1])
  <2>1. g[(l - 1) + 1] = x /\ d[(l - 1) + 1] = u
    BY <1>5, <1>6
  <2>2. u <= u /\ u - u = 0
    BY <1>9
  <2> QED BY <1>9, <2>1, <2>2
<1>11. Climbs(Contents, Entries, m, h, c)
  <2>1. PICK z : z = l - 1
    OBVIOUS
  <2> QED BY <1>5, <1>7, <1>9, <1>10, <2>1, EntriesCost, ClimbGoesOn
<1> HIDE DEF h, c
<1>12. ASSUME NEW j \in DOMAIN calls', Lists(calls'[j])
       PROVE  DOMAIN calls'[j].reply = Listed(h[j], calls'[j].arg.tab)
  <2>1. j \in 1..(l - 1) /\ j + 1 \in DOMAIN calls /\ calls'[j] = calls[j + 1]
    BY <1>3, <1>12
  <2>2. h[j] = held[j + 1]
    BY <1>6, <1>8, <2>1
  <2> QED BY <1>1, <1>12, <2>1, <2>2 DEF ArrivalsPath
<1>13. /\ view'.snapshot.tab # Findings!None => view'.snapshot.ids = Listed(h[0], view'.snapshot.tab)
       /\ view'.arrived <= c[0]
  <2>1. CASE first = 0
    <3>1. view'.snapshot = view.snapshot /\ view'.arrived = view.arrived /\ h[0] = held[0] /\ c[0] = count[0]
      BY <1>2, <1>6, <1>8, <2>1
    <3> QED BY <1>1, <3>1 DEF ArrivalsPath
  <2>2. CASE first = 1
    <3> DEFINE tab == calls[k].arg.tab
               ids == DOMAIN calls[k].reply
    <3>1. h[0] = held[1] /\ c[0] = count[1]
      BY <1>6, <1>8, <2>2
    <3>2. /\ Lists(calls[1]) /\ view'.snapshot = [tab |-> tab, ids |-> ids]
          /\ view'.arrived = IF view.snapshot.tab = tab THEN view.arrived + Cardinality(ids \ view.snapshot.ids) ELSE 0
      BY <1>2, <1>3, <2>2
    <3>3. ids = Listed(held[1], tab)
      BY <1>1, <1>3, <3>2 DEF ArrivalsPath
    <3>4. tab \in Findings!Tabs
      BY <1>3, <3>2 DEF ArrivalsRequests, ArrivalsRequest, Lists
    <3>5. /\ held[0] \in Contents /\ held[1] \in Contents /\ count[0] \in Nat /\ count[1] \in Nat
          /\ Entries[<<held[0], held[1]>>] <= count[1] - count[0]
      BY <1>4, <1>5 DEF Climbs
    <3>6. view'.arrived <= count[1]
      <4>1. CASE view.snapshot.tab # tab
        BY <3>2, <3>5, <4>1
      <4>2. CASE view.snapshot.tab = tab
        <5>1. view.snapshot.ids = Listed(held[0], tab) /\ view.arrived <= count[0] /\ view.arrived \in Nat
          BY <1>1, <3>4, <4>2 DEF ArrivalsPath, ArrivalsView, Findings!Tabs, Findings!None
        <5>2. PICK old, new : old = held[0] /\ new = held[1]
          OBVIOUS
        <5>3. ids \ view.snapshot.ids \in SUBSET Entered(old, new)
          BY <3>3, <3>4, <3>5, <5>1, <5>2 DEF Listed, Entered, Contents, Findings!Tabs, Findings!Statuses
        <5>4. IsFiniteSet(Entered(old, new))
          <6>1. Entered(old, new) \in SUBSET Items
            BY DEF Entered
          <6> QED BY <6>1, ItemsAssumption, FS_Subset
        <5>5. Entries[<<held[0], held[1]>>] = Cardinality(Entered(old, new))
          BY <3>5, <5>2 DEF Entries
        <5>6. PICK a : a = ids \ view.snapshot.ids
          OBVIOUS
        <5>7. IsFiniteSet(a) /\ Cardinality(a) <= Cardinality(Entered(old, new))
          BY <5>3, <5>4, <5>6, FS_Subset
        <5>8. Cardinality(a) \in Nat /\ Cardinality(Entered(old, new)) \in Nat
          BY <5>4, <5>7, FS_CardinalityType
        <5>9. view'.arrived = view.arrived + Cardinality(a)
          BY <3>2, <4>2, <5>6
        <5> QED BY <3>5, <5>1, <5>5, <5>7, <5>8, <5>9
      <4> QED BY <4>1, <4>2
    <3> QED BY <3>1, <3>2, <3>3, <3>6
  <2> QED BY <1>5, <2>1, <2>2
<1>14. ArrivalsPath(h, c)'
  BY <1>2, <1>8, <1>11, <1>12, <1>13 DEF ArrivalsPath
<1> QED BY <1>14

\* What has happened is a number.
LEMMA HappenedIs ==
  /\ FindingsBase => Happened \in Int
  /\ FindingsBase' => Happened' \in Int
<1>1. ASSUME FindingsBase PROVE Happened \in Int
  <2>1. Queue(calls) /\ spent.moves \in Nat
    BY <1>1 DEF FindingsBase, FindingsSpent, Counted
  <2>2. Cardinality(Owed(calls)) \in Nat
    BY <2>1, OwedCounts
  <2> QED BY <2>1, <2>2 DEF Happened
<1>2. ASSUME FindingsBase' PROVE Happened' \in Int
  <2>1. Queue(calls') /\ spent'.moves \in Nat
    BY <1>2 DEF FindingsBase, FindingsSpent, Counted
  <2>2. PICK q : q = calls'
    OBVIOUS
  <2>3. Cardinality(Owed(q)) \in Nat
    BY <2>1, <2>2, OwedCounts
  <2> QED BY <2>1, <2>2, <2>3 DEF Happened
<1> QED BY <1>1, <1>2

\* Entries by which nothing changes.
LEMMA NoneEnters ==
  ASSUME FindingsLists' = FindingsLists, Happened \in Int, Happened' \in Int, Happened <= Happened'
  PROVE  \A y \in Contents : Entries[<<y, FindingsLists'>>] <= Entries[<<y, FindingsLists>>] + (Happened' - Happened)
<1> TAKE y \in Contents
<1>1. Entries[<<y, FindingsLists>>] \in Nat
  BY EntriesCost, ListsAre DEF Costs
<1> QED BY <1>1

\* What asks for a list, or for an action, counts as a move at most.
LEMMA ArrivalsGrow ==
  ASSUME FindingsBase, FindingsBase', ArrivalsInv,
         NEW n, Shaped(n), n.phase = "sent", ArrivalsRequest(n),
         \/ calls' = calls /\ spent'.moves \in {spent.moves, spent.moves + 1}
         \/ /\ calls' = calls \o <<n>> \/ calls' = Append(calls, n)
            /\ spent'.moves = spent.moves + 1 \/ (~Acts(n) /\ spent'.moves = spent.moves),
         FindingsLists' = FindingsLists, spent'.inOrder = spent.inOrder,
         ArrivalsView', view'.snapshot = view.snapshot, view'.arrived = view.arrived
  PROVE  ArrivalsInv'
<1>1. /\ Queue(calls) /\ ArrivalsRequests /\ ArrivalsCounted
      /\ spent.moves \in Nat /\ Happened \in Int /\ Happened' \in Int
  BY HappenedIs DEF FindingsBase, FindingsSpent, Counted, ArrivalsInv
<1>2. Happened <= Happened'
  <2>1. Cardinality(Owed(calls)) \in Nat
    BY <1>1, OwedCounts
  <2>2. CASE calls' = calls
    BY <1>1, <2>1, <2>2 DEF Happened
  <2>3. CASE calls' = calls \o <<n>> \/ calls' = Append(calls, n)
    <3>1. Cardinality(Owed(calls')) = Cardinality(Owed(calls)) + (IF Acts(n) THEN 1 ELSE 0)
      BY <1>1, <2>3, OwedGrows
    <3>2. spent'.moves = spent.moves + 1 \/ (~Acts(n) /\ spent'.moves = spent.moves)
      <4>1. calls' # calls
        <5>1. Len(calls') = Len(calls) + 1 /\ Len(calls) \in Nat
          BY <1>1, <2>3, OneSent
        <5> QED BY <5>1
      <4> QED BY <4>1
    <3> QED BY <1>1, <2>1, <3>1, <3>2 DEF Happened
  <2> QED BY <2>2, <2>3
<1>3. ArrivalsCounted'
  <2>1. \A y \in Contents : Entries[<<y, FindingsLists'>>] <= Entries[<<y, FindingsLists>>] + (Happened' - Happened)
    BY <1>1, <1>2, NoneEnters
  <2>2. calls' \in {calls, calls \o <<n>>, Append(calls, n)}
    OBVIOUS
  <2> QED BY <1>1, <1>2, <2>1, <2>2, PathGrows
<1>4. ArrivalsRequests'
  <2>1. CASE calls' = calls
    BY <1>1, <2>1 DEF ArrivalsRequests
  <2>2. CASE calls' = calls \o <<n>> \/ calls' = Append(calls, n)
    <3>1. \A j \in DOMAIN calls' : \/ j \in DOMAIN calls /\ calls'[j] = calls[j]
                                   \/ j = Len(calls) + 1 /\ j \notin DOMAIN calls /\ calls'[j] = n
      BY <1>1, <2>2, OneSent
    <3> QED BY <1>1, <3>1 DEF ArrivalsRequests
  <2> QED BY <2>1, <2>2
<1> QED BY <1>3, <1>4 DEF ArrivalsInv

\* The gestures, the stream and the timer.
LEMMA ArrivalsGestures ==
  ASSUME FindingsBase, FindingsBase', ArrivalsInv,
         \/ \E tab \in Findings!Tabs : Findings!SwitchTab(tab)
         \/ \E f \in Items : Findings!ChangeStatus(f) \/ Findings!Verify(f) \/ Findings!Open(f)
         \/ Findings!Undo \/ Findings!Close
         \/ \E op \in DialogActions : Findings!ActInDialog(op)
         \/ Findings!EventArrives \/ Findings!EventLost \/ Findings!TimerFires
  PROVE  ArrivalsInv'
<1>1. /\ DOMAIN view = FindingsFields /\ {"moves", "inOrder"} \subseteq DOMAIN spent
      /\ DOMAIN server = {"status", "event"} /\ ArrivalsView
  BY DEF FindingsBase, FindingsView, FindingsServer, FindingsSpent, Counted, ArrivalsInv
<1>2. ASSUME NEW tab \in Findings!Tabs
      PROVE  LET n == Findings!Reload(tab) IN Shaped(n) /\ n.phase = "sent" /\ ArrivalsRequest(n) /\ ~Acts(n)
  BY FindingsAsk DEF Findings!Reload, ArrivalsRequest, Acts, Ends, Findings!Actions, Findings!Tabs, Findings!None, Lists
<1>3. ASSUME NEW op \in Findings!Actions, NEW f, NEW from, NEW to, NEW tab \in Findings!Tabs
      PROVE  LET n == Findings!Change(op, f, from, to, tab) IN Shaped(n) /\ n.phase = "sent" /\ ArrivalsRequest(n)
  BY FindingsAsk DEF Findings!Change, ArrivalsRequest, Acts, Ends, Findings!Actions, Findings!Tabs, Findings!None, Lists
<1>4. ASSUME NEW f
      PROVE  LET n == Findings!Request("read", [item |-> f, ends |-> Findings!None])
             IN  Shaped(n) /\ n.phase = "sent" /\ ArrivalsRequest(n)
  BY FindingsAsk DEF ArrivalsRequest, Acts, Ends, Findings!Actions, Lists
\* A gesture asks one thing.
<1>5. ASSUME NEW n, NEW v, Findings!Gesture(v, <<n>>), Shaped(n), n.phase = "sent", ArrivalsRequest(n),
             v.snapshot = view.snapshot, v.arrived = view.arrived,
             v.tab \in Findings!Tabs, v.timer = view.timer, v.notice \in {view.notice, Findings!NoNotice}
      PROVE  ArrivalsInv'
  <2>1. /\ calls' = calls \o <<n>> /\ view' = v /\ UNCHANGED server
        /\ spent' = [spent EXCEPT !.moves = @ + 1]
    BY <1>5 DEF Findings!Gesture, Findings!Spend
  <2>2. spent'.moves = spent.moves + 1 /\ spent'.inOrder = spent.inOrder
    BY <1>1, <2>1
  <2>3. FindingsLists' = FindingsLists
    BY <2>1 DEF FindingsLists
  <2>4. ArrivalsView'
    BY <1>1, <1>5, <2>1 DEF ArrivalsView
  <2> QED BY <1>5, <2>1, <2>2, <2>3, <2>4, ArrivalsGrow
<1>6. ASSUME NEW tab \in Findings!Tabs, Findings!SwitchTab(tab) PROVE ArrivalsInv'
  <2>1. PICK n, v : n = Findings!Reload(tab) /\ v = [view EXCEPT !.tab = tab]
    OBVIOUS
  <2>2. Findings!Gesture(v, <<n>>) /\ Shaped(n) /\ n.phase = "sent" /\ ArrivalsRequest(n)
    BY <1>2, <1>6, <2>1 DEF Findings!SwitchTab
  <2>3. /\ v.snapshot = view.snapshot /\ v.arrived = view.arrived /\ v.timer = view.timer /\ v.notice = view.notice
        /\ v.tab \in Findings!Tabs
    BY <1>1, <2>1 DEF FindingsFields
  <2> QED BY <1>5, <2>2, <2>3
<1>7. ASSUME NEW f \in Items, Findings!ChangeStatus(f) PROVE ArrivalsInv'
  <2>1. PICK n, v : /\ n = Findings!Change("set", f, view.rows[f], Findings!Opposite(view.rows[f]), view.tab)
                    /\ v = [view EXCEPT !.notice = Findings!NoNotice, !.busy = f]
    OBVIOUS
  <2>2. Findings!Gesture(v, <<n>>)
    BY <1>7, <2>1 DEF Findings!ChangeStatus
  <2>3. Shaped(n) /\ n.phase = "sent" /\ ArrivalsRequest(n)
    BY <1>1, <1>3, <2>1 DEF ArrivalsView, Findings!Actions
  <2>4. /\ v.snapshot = view.snapshot /\ v.arrived = view.arrived /\ v.timer = view.timer
        /\ v.notice = Findings!NoNotice /\ v.tab \in Findings!Tabs
    BY <1>1, <2>1 DEF FindingsFields, ArrivalsView
  <2> QED BY <1>5, <2>2, <2>3, <2>4
<1>8. ASSUME NEW f \in Items, Findings!Verify(f) PROVE ArrivalsInv'
  <2>1. PICK n, v : /\ n = Findings!Change("verify", f, view.rows[f], "resolved", view.tab)
                    /\ v = [view EXCEPT !.notice = Findings!NoNotice, !.busy = f]
    OBVIOUS
  <2>2. Findings!Gesture(v, <<n>>)
    BY <1>8, <2>1 DEF Findings!Verify
  <2>3. Shaped(n) /\ n.phase = "sent" /\ ArrivalsRequest(n)
    BY <1>1, <1>3, <2>1 DEF ArrivalsView, Findings!Actions
  <2>4. /\ v.snapshot = view.snapshot /\ v.arrived = view.arrived /\ v.timer = view.timer
        /\ v.notice = Findings!NoNotice /\ v.tab \in Findings!Tabs
    BY <1>1, <2>1 DEF FindingsFields, ArrivalsView
  <2> QED BY <1>5, <2>2, <2>3, <2>4
<1>9. ASSUME NEW f \in Items, Findings!Open(f) PROVE ArrivalsInv'
  <2>1. PICK n, v : /\ n = Findings!Request("read", [item |-> f, ends |-> Findings!None])
                    /\ v = [view EXCEPT !.dialog = [Findings!Closed EXCEPT !.item = f]]
    OBVIOUS
  <2>2. Findings!Gesture(v, <<n>>)
    BY <1>9, <2>1 DEF Findings!Open
  <2>3. Shaped(n) /\ n.phase = "sent" /\ ArrivalsRequest(n)
    BY <1>4, <2>1
  <2>4. /\ v.snapshot = view.snapshot /\ v.arrived = view.arrived /\ v.timer = view.timer
        /\ v.notice = view.notice /\ v.tab \in Findings!Tabs
    BY <1>1, <2>1 DEF FindingsFields, ArrivalsView
  <2> QED BY <1>5, <2>2, <2>3, <2>4
<1>10. ASSUME Findings!Undo PROVE ArrivalsInv'
  <2>1. PICK n, v : /\ n = Findings!Change("undo", view.notice.item, view.notice.to, view.notice.from, view.notice.tab)
                    /\ v = [view EXCEPT !.notice = Findings!NoNotice, !.busy = view.notice.item]
    OBVIOUS
  <2>2. Findings!Gesture(v, <<n>>)
    BY <1>10, <2>1 DEF Findings!Undo
  <2>3. view.notice.tab \in Findings!Tabs
    BY <1>1, <1>10 DEF ArrivalsView, Findings!Undo
  <2>4. Shaped(n) /\ n.phase = "sent" /\ ArrivalsRequest(n)
    BY <1>3, <2>1, <2>3 DEF Findings!Actions
  <2>5. /\ v.snapshot = view.snapshot /\ v.arrived = view.arrived /\ v.timer = view.timer
        /\ v.notice = Findings!NoNotice /\ v.tab \in Findings!Tabs
    BY <1>1, <2>1 DEF FindingsFields, ArrivalsView
  <2> QED BY <1>5, <2>2, <2>4, <2>5
<1>11. ASSUME NEW op \in DialogActions, Findings!ActInDialog(op) PROVE ArrivalsInv'
  <2>1. PICK n, v, to : /\ n = Findings!Change(op, view.dialog.item, view.dialog.status, to, view.tab)
                        /\ v = [view EXCEPT !.dialog.busy = TRUE]
                        /\ Findings!Gesture(v, <<n>>)
    BY <1>11 DEF Findings!ActInDialog
  <2>2. Shaped(n) /\ n.phase = "sent" /\ ArrivalsRequest(n)
    BY <1>1, <1>3, <2>1 DEF ArrivalsView, Findings!Actions, DialogActions
  <2>3. /\ v.snapshot = view.snapshot /\ v.arrived = view.arrived /\ v.timer = view.timer
        /\ v.notice = view.notice /\ v.tab \in Findings!Tabs
    BY <1>1, <2>1 DEF FindingsFields, ArrivalsView
  <2> QED BY <1>5, <2>1, <2>2, <2>3
<1>12. ASSUME Findings!Close \/ Findings!EventArrives \/ Findings!EventLost \/ Findings!TimerFires PROVE ArrivalsInv'
  <2>1. PICK n : /\ Shaped(n) /\ n.phase = "sent" /\ ArrivalsRequest(n) /\ ~Acts(n)
                 /\ calls' = calls \/ calls' = Append(calls, n)
    <3>1. CASE Findings!TimerFires
      <4>1. view.timer \in Findings!Tabs
        BY <1>1, <3>1 DEF ArrivalsView, Findings!TimerFires
      <4> QED BY <1>2, <3>1, <4>1 DEF Findings!TimerFires
    <3>2. CASE ~Findings!TimerFires
      <4>1. "active" \in Findings!Tabs
        BY DEF Findings!Tabs
      <4> QED BY <1>2, <1>12, <3>2, <4>1 DEF Findings!Close, Findings!EventArrives, Findings!EventLost
    <3> QED BY <3>1, <3>2
  <2>2. /\ UNCHANGED spent /\ server'.status = server.status
        /\ view'.snapshot = view.snapshot /\ view'.arrived = view.arrived /\ view'.tab = view.tab
        /\ view'.notice = view.notice /\ view'.timer \in {view.timer, view.tab, Findings!None}
    BY <1>1, <1>12 DEF Findings!Close, Findings!EventArrives, Findings!EventLost, Findings!TimerFires, FindingsFields
  <2>3. ArrivalsView'
    BY <1>1, <2>2 DEF ArrivalsView
  <2>4. FindingsLists' = FindingsLists
    BY <2>2 DEF FindingsLists
  <2> QED BY <2>1, <2>2, <2>3, <2>4, ArrivalsGrow
<1> QED BY <1>6, <1>7, <1>8, <1>9, <1>10, <1>11, <1>12

\* A finding changes apart from the page: it enters a list, once.
LEMMA ArrivalsApart ==
  ASSUME FindingsBase, FindingsBase', ArrivalsInv,
         NEW f \in Items, NEW s \in Findings!Statuses, Findings!Outside(f, s)
  PROVE  ArrivalsInv'
<1>1. /\ Queue(calls) /\ ArrivalsRequests /\ ArrivalsView /\ ArrivalsCounted
      /\ spent.moves \in Nat /\ Happened \in Int /\ Happened' \in Int
      /\ {"moves", "inOrder", "outside"} \subseteq DOMAIN spent
  BY HappenedIs DEF FindingsBase, FindingsSpent, Counted, ArrivalsInv
<1>2. /\ UNCHANGED <<view, calls>> /\ spent'.moves = spent.moves + 1 /\ spent'.inOrder = spent.inOrder
      /\ \A g \in Items : g # f => server'.status[g] = server.status[g]
  BY <1>1 DEF Findings!Outside, FindingsBase, FindingsServer
<1>3. Happened' = Happened + 1
  <2>1. Cardinality(Owed(calls)) \in Nat
    BY <1>1, OwedCounts
  <2> QED BY <1>1, <1>2, <2>1 DEF Happened
<1>4. \A y \in Contents : Entries[<<y, FindingsLists'>>] <= Entries[<<y, FindingsLists>>] + (Happened' - Happened)
  <2>1. PICK x, z : x = FindingsLists /\ z = FindingsLists'
    OBVIOUS
  <2>2. /\ x \in Contents /\ z \in Contents
        /\ \A g \in Items : g # f => \A t \in Findings!Statuses : g \in z[t] <=> g \in x[t]
    BY <1>2, <2>1, ListsAre DEF FindingsLists
  <2>3. \A y \in Contents : Entries[<<y, z>>] <= Entries[<<y, x>>] + 1
    BY <2>2, OneEnters
  <2>4. Happened' - Happened = 1
    BY <1>1, <1>3
  <2> QED BY <2>1, <2>3, <2>4
<1>5. PICK n : Shaped(n) /\ n.phase = "sent"
  BY FindingsAsk
<1>6. ArrivalsCounted'
  <2>1. Happened <= Happened' /\ calls' \in {calls, calls \o <<n>>, Append(calls, n)}
    BY <1>1, <1>2, <1>3
  <2>2. view'.snapshot = view.snapshot /\ view'.arrived = view.arrived
    BY <1>2
  <2> QED BY <1>1, <1>2, <1>4, <1>5, <2>1, <2>2, PathGrows
<1> QED BY <1>1, <1>2, <1>6 DEF ArrivalsInv, ArrivalsRequests, ArrivalsView

\* The server serves a request, which sees the lists as they are or moves one finding, or the
\* network loses it.
LEMMA ArrivalsServed ==
  ASSUME FindingsInv, FindingsBase', ArrivalsInv, NEW k \in DOMAIN calls,
         Findings!ServeOne(k) \/ Findings!ServeVerification(k) \/ Findings!Fail(k)
  PROVE  ArrivalsInv'
<1> DEFINE c == calls[k]
<1>1. /\ FindingsBase /\ FindingsOrder /\ Queue(calls) /\ FindingsRequest(c) /\ FindingsServer
      /\ ArrivalsRequests /\ ArrivalsView /\ ArrivalsCounted
      /\ spent.moves \in Nat /\ Happened \in Int /\ Happened' \in Int
      /\ {"moves", "faults", "inOrder"} \subseteq DOMAIN spent
  BY HappenedIs DEF FindingsInv, FindingsBase, FindingsDialog, FindingsRequests, FindingsSpent, Counted, ArrivalsInv
<1>2. PICK phase, reply, gain :
        /\ Becomes(k, phase, reply) /\ view' = view /\ spent'.inOrder = spent.inOrder
        /\ \/ /\ phase = "refused" /\ c.phase \in {"sent", "done"} /\ gain = 0
              /\ spent'.moves = spent.moves + 1
           \/ /\ phase = "done" /\ c.phase = "sent" /\ spent'.moves = spent.moves
              /\ c.op = "load" => gain = 0 /\ DOMAIN reply = Listed(FindingsLists, c.arg.tab)
        /\ gain = 1 => Acts(c) /\ \A g \in Items : g # c.arg.item => server'.status[g] = server.status[g]
        /\ gain = 0 => server'.status = server.status
        /\ gain \in {0, 1}
  <2>1. CASE Findings!Fail(k)
    <3>1. /\ Becomes(k, "refused", Findings!None) /\ UNCHANGED <<server, view>> /\ c.phase \in {"sent", "done"}
          /\ spent'.moves = spent.moves + 1 /\ spent'.inOrder = spent.inOrder
      BY <1>1, <2>1 DEF Findings!Fail, Becomes
    <3> QED BY <3>1
  <2>2. CASE Findings!ServeOne(k)
    <3> DEFINE reply == Findings!Reply(server, c)
    <3>1. /\ Becomes(k, "done", reply) /\ UNCHANGED <<view, spent>> /\ c.phase = "sent"
          /\ server' = Findings!Effect(server, c)
      BY <2>2 DEF Findings!ServeOne, Findings!Serve, Becomes
    <3>2. Acts(c) => \A g \in Items : g # c.arg.item => server'.status[g] = server.status[g]
      BY <1>1, <3>1 DEF Acts, Findings!Effect, FindingsServer
    <3>3. ~Acts(c) => server'.status = server.status
      BY <1>1, <3>1 DEF Acts, Findings!Effect, Findings!CaughtUp, FindingsServer
    <3>4. c.op = "load" => ~Acts(c) /\ DOMAIN reply = Listed(FindingsLists, c.arg.tab)
      <4> SUFFICES ASSUME c.op = "load" PROVE ~Acts(c) /\ DOMAIN reply = Listed(FindingsLists, c.arg.tab)
        OBVIOUS
      <4>1. ~Acts(c) /\ c.arg.tab \in Findings!Tabs
        BY <1>1 DEF Acts, Findings!Actions, ArrivalsRequests, ArrivalsRequest
      <4>2. reply = Findings!ListOf(server, c.arg.tab)
        BY DEF Findings!Reply, Findings!Actions
      <4>3. DOMAIN reply = {f \in Items : c.arg.tab = "all" \/ server.status[f] = c.arg.tab}
        BY <4>2 DEF Findings!ListOf
      <4>4. CASE c.arg.tab = "all"
        BY <4>3, <4>4, <4>1 DEF Listed
      <4>5. CASE c.arg.tab # "all"
        <5>1. c.arg.tab \in Findings!Statuses
          BY <4>1, <4>5 DEF Findings!Tabs, Findings!Statuses
        <5> QED BY <4>1, <4>3, <4>5, <5>1 DEF Listed, FindingsLists
      <4> QED BY <4>1, <4>4, <4>5
    <3> HIDE DEF reply
    <3>5. CASE Acts(c)
      BY <3>1, <3>2, <3>4, <3>5
    <3>6. CASE ~Acts(c)
      BY <3>1, <3>3, <3>4, <3>6
    <3> QED BY <3>5, <3>6
  <2>3. CASE Findings!ServeVerification(k)
    <3>1. PICK verdict : Becomes(k, "done", verdict) /\ UNCHANGED <<server, view, spent>> /\ c.phase = "sent"
      BY <2>3 DEF Findings!ServeVerification, Findings!Serve, Becomes
    <3>2. c.op # "load"
      BY <2>3 DEF Findings!ServeVerification
    <3> QED BY <3>1, <3>2
  <2> QED BY <2>1, <2>2, <2>3
<1>3. Happened + gain <= Happened'
  <2>1. Cardinality(Owed(calls)) \in Nat
    BY <1>1, OwedCounts
  <2>2. phase # "sent"
    BY <1>2
  <2>3. Cardinality(Owed(calls')) =
          Cardinality(Owed(calls)) - (IF Acts(c) /\ c.phase = "sent" THEN 1 ELSE 0)
    BY <1>1, <1>2, <2>2, OwedServed
  <2>4. gain = 1 => Acts(c) /\ c.phase = "sent"
    BY <1>2
  <2> QED BY <1>1, <1>2, <2>1, <2>3, <2>4 DEF Happened
<1>4. gain = 0 => FindingsLists' = FindingsLists
  BY <1>2 DEF FindingsLists
<1>5. \A y \in Contents : Entries[<<y, FindingsLists'>>] <= Entries[<<y, FindingsLists>>] + (Happened' - Happened)
  <2>1. CASE gain = 0
    <3>1. Happened <= Happened'
      BY <1>3, <2>1, <1>1
    <3> QED BY <1>1, <1>4, <2>1, <3>1, NoneEnters
  <2>2. CASE gain = 1
    <3>1. PICK x, z : x = FindingsLists /\ z = FindingsLists'
      OBVIOUS
    <3>2. /\ x \in Contents /\ z \in Contents
          /\ \A g \in Items : g # c.arg.item => \A t \in Findings!Statuses : g \in z[t] <=> g \in x[t]
      BY <1>2, <2>2, <3>1, ListsAre DEF FindingsLists
    <3>3. \A y \in Contents : Entries[<<y, z>>] <= Entries[<<y, x>>] + 1
      BY <3>2, OneEnters
    <3>4. \A y \in Contents : Entries[<<y, z>>] \in Nat /\ Entries[<<y, x>>] \in Nat
      BY <3>2, EntriesCost DEF Costs
    <3>5. PICK u, w : u = Happened /\ w = Happened'
      OBVIOUS
    <3>6. u \in Int /\ w \in Int /\ u + 1 <= w
      BY <1>1, <1>3, <2>2, <3>5
    <3>7. \A y \in Contents : Entries[<<y, z>>] <= Entries[<<y, x>>] + (w - u)
      <4> TAKE y \in Contents
      <4>1. PICK a, b : a = Entries[<<y, z>>] /\ b = Entries[<<y, x>>]
        OBVIOUS
      <4>2. a \in Nat /\ b \in Nat /\ a <= b + 1
        BY <3>3, <3>4, <4>1
      <4> QED BY <3>6, <4>1, <4>2
    <3> QED BY <3>1, <3>5, <3>7
  <2> QED BY <1>2, <2>1, <2>2
<1>6. ArrivalsCounted'
  <2>1. Happened <= Happened'
    BY <1>1, <1>2, <1>3
  <2>2. \/ phase = "refused" /\ FindingsLists' = FindingsLists
        \/ /\ phase = "done" /\ calls[k].phase = "sent"
           /\ calls[k].op = "load" =>
                FindingsLists' = FindingsLists /\ DOMAIN reply = Listed(FindingsLists, calls[k].arg.tab)
    BY <1>2, <1>4
  <2> QED BY <1>1, <1>2, <1>5, <2>1, <2>2, PathServed
<1>7. ArrivalsRequests'
  <2>1. DOMAIN calls' = DOMAIN calls
    BY <1>1, <1>2, OneServed
  <2>2. \A j \in DOMAIN calls : calls'[j].op = calls[j].op /\ calls'[j].arg = calls[j].arg
    BY <1>1, <1>2, OneServed
  <2>3. \A j \in DOMAIN calls : j # k => calls'[j] = calls[j]
    BY <1>1, <1>2, OneServed
  <2>4. calls'[k].phase = phase /\ calls'[k].reply = reply
    BY <1>1, <1>2, OneServed
  <2>5. Lists(calls'[k]) => DOMAIN calls'[k].reply \subseteq Items
    <3> SUFFICES ASSUME Lists(calls'[k]) PROVE DOMAIN reply \subseteq Items
      BY <2>4
    <3>1. c.op = "load" /\ DOMAIN reply = Listed(FindingsLists, c.arg.tab) /\ c.arg.tab \in Findings!Tabs
      BY <1>1, <1>2, <2>2, <2>4 DEF Lists, ArrivalsRequests, ArrivalsRequest
    <3> QED BY <3>1, ListsAre DEF Listed, Contents, Findings!Tabs, Findings!Statuses
  <2>6. \A j \in DOMAIN calls : Lists(calls'[j]) => DOMAIN calls'[j].reply \subseteq Items
    BY <1>1, <2>3, <2>5 DEF ArrivalsRequests, ArrivalsRequest
  <2> QED BY <1>1, <2>1, <2>2, <2>6 DEF ArrivalsRequests, ArrivalsRequest, Acts, Ends
<1>8. ArrivalsView'
  BY <1>1, <1>2 DEF ArrivalsView
<1> QED BY <1>6, <1>7, <1>8 DEF ArrivalsInv

\* What becomes of the page with an answer: a list that comes is counted, and replaces what it shows.
ArrivalsAnswer(k, n) ==
  LET c == calls[k]
  IN  /\ c.phase # "sent" /\ (spent.inOrder => k = 1) /\ UNCHANGED <<server, spent>>
      /\ calls' \in {Others(k) \o << >>, Others(k) \o <<n>>}
      /\ Shaped(n) /\ n.phase = "sent" /\ ~Acts(n) /\ ArrivalsRequest(n)
      /\ view'.tab = view.tab /\ view'.timer = view.timer
      /\ view'.notice = view.notice \/ (Ends(c) /\ view'.notice = c.arg.change)
      /\ \/ view'.snapshot = view.snapshot /\ view'.arrived = view.arrived
         \/ /\ Lists(c)
            /\ view'.snapshot = [tab |-> c.arg.tab, ids |-> DOMAIN c.reply]
            /\ view'.arrived =
                 IF view.snapshot.tab = c.arg.tab THEN view.arrived + Cardinality(Findings!Added(c.reply)) ELSE 0

\* A list that is answered is counted, and the page keeps what its property rests on.
LEMMA ArrivalsAnswered ==
  ASSUME FindingsBase, FindingsBase', ArrivalsInv, NEW k \in DOMAIN calls, NEW n, ArrivalsAnswer(k, n)
  PROVE  ArrivalsInv'
<1> DEFINE c == calls[k]
<1>1. /\ Queue(calls) /\ ArrivalsRequests /\ ArrivalsView /\ ArrivalsCounted
      /\ Happened \in Int /\ Happened' \in Int
  BY HappenedIs DEF FindingsBase, ArrivalsInv
<1>2. /\ c.phase # "sent" /\ (spent.inOrder => k = 1) /\ UNCHANGED <<server, spent>>
      /\ calls' \in {Others(k) \o << >>, Others(k) \o <<n>>}
      /\ Shaped(n) /\ n.phase = "sent" /\ ~Acts(n) /\ ArrivalsRequest(n)
  BY DEF ArrivalsAnswer
<1>3. FindingsLists' = FindingsLists /\ spent'.inOrder = spent.inOrder
  BY <1>2 DEF FindingsLists
<1>4. Happened' = Happened
  <2>1. Cardinality(Owed(calls')) = Cardinality(Owed(calls))
    BY <1>1, <1>2, OwedAnswered
  <2> QED BY <1>2, <2>1 DEF Happened
<1>5. ArrivalsCounted'
  <2>1. \/ view'.snapshot = view.snapshot /\ view'.arrived = view.arrived
        \/ /\ Lists(calls[k])
           /\ view'.snapshot = [tab |-> calls[k].arg.tab, ids |-> DOMAIN calls[k].reply]
           /\ view'.arrived =
                IF view.snapshot.tab = calls[k].arg.tab
                THEN view.arrived + Cardinality(DOMAIN calls[k].reply \ view.snapshot.ids) ELSE 0
    BY DEF ArrivalsAnswer, Findings!Added
  <2> QED BY <1>1, <1>2, <1>3, <1>4, <2>1, PathAnswered
<1>6. ArrivalsRequests'
  <2>1. \A i \in DOMAIN calls' :
          \/ Came(k, i) \in DOMAIN calls /\ Came(k, i) # k /\ calls'[i] = calls[Came(k, i)]
          \/ i = Len(calls) /\ calls'[i] = n
    BY <1>1, <1>2, Answers
  <2> QED BY <1>1, <1>2, <2>1 DEF ArrivalsRequests
<1>7. ArrivalsView'
  <2>1. view'.tab = view.tab /\ view'.timer = view.timer
    BY DEF ArrivalsAnswer
  <2>2. view'.notice # Findings!NoNotice => view'.notice.tab \in Findings!Tabs
    BY <1>1 DEF ArrivalsAnswer, ArrivalsView, ArrivalsRequests, ArrivalsRequest
  <2>3. view'.snapshot.tab \in Findings!Tabs \union {Findings!None} /\ view'.arrived \in Nat
    <3>1. CASE view'.snapshot = view.snapshot /\ view'.arrived = view.arrived
      BY <1>1, <3>1 DEF ArrivalsView
    <3>2. CASE /\ Lists(c)
               /\ view'.snapshot = [tab |-> c.arg.tab, ids |-> DOMAIN c.reply]
               /\ view'.arrived =
                    IF view.snapshot.tab = c.arg.tab THEN view.arrived + Cardinality(Findings!Added(c.reply)) ELSE 0
      <4>1. c.arg.tab \in Findings!Tabs /\ DOMAIN c.reply \subseteq Items
        BY <1>1, <3>2 DEF ArrivalsRequests, ArrivalsRequest, Lists
      <4>2. Cardinality(Findings!Added(c.reply)) \in Nat
        <5>1. Findings!Added(c.reply) \in SUBSET Items
          BY <4>1 DEF Findings!Added
        <5>2. IsFiniteSet(Findings!Added(c.reply))
          BY <5>1, ItemsAssumption, FS_Subset
        <5> QED BY <5>2, FS_CardinalityType
      <4> QED BY <1>1, <3>2, <4>1, <4>2 DEF ArrivalsView
    <3> QED BY <3>1, <3>2 DEF ArrivalsAnswer
  <2> QED BY <1>1, <2>1, <2>2, <2>3 DEF ArrivalsView
<1> QED BY <1>5, <1>6, <1>7 DEF ArrivalsInv

\* A page counts a set as anything does.
LEMMA FindingsCount == ASSUME NEW S PROVE Findings!Cardinality(S) = Cardinality(S)
BY DEF Findings!Cardinality, Cardinality

\* The answers, and the failures.
LEMMA ArrivalsAnswers ==
  ASSUME FindingsBase, FindingsBase', ArrivalsInv, NEW k \in DOMAIN calls,
         Findings!HandleList(k) \/ Findings!HandleRead(k) \/ Findings!HandleAction(k) \/ Findings!HandleFailure(k)
  PROVE  ArrivalsInv'
<1> DEFINE c == calls[k]
<1>1. /\ DOMAIN view = FindingsFields /\ FindingsRequest(c) /\ ArrivalsRequest(c)
  BY DEF FindingsBase, FindingsView, FindingsRequests, ArrivalsInv, ArrivalsRequests
<1>2. ASSUME NEW tab \in Findings!Tabs
      PROVE  LET n == Findings!Reload(tab) IN Shaped(n) /\ n.phase = "sent" /\ ArrivalsRequest(n) /\ ~Acts(n)
  BY FindingsAsk DEF Findings!Reload, ArrivalsRequest, Lists, Acts, Ends, Findings!Actions, Findings!Tabs, Findings!None
<1>3. PICK none : Shaped(none) /\ none.phase = "sent" /\ ArrivalsRequest(none) /\ ~Acts(none)
  <2>1. "active" \in Findings!Tabs
    BY DEF Findings!Tabs
  <2> QED BY <1>2, <2>1
\* What ends with a list changes no more than the notice.
<1>4. ASSUME NEW v, DOMAIN v = FindingsFields, c.op = "load", view' = Findings!Finished(v, c.arg)
      PROVE  /\ view'.tab = v.tab /\ view'.timer = v.timer /\ view'.snapshot = v.snapshot /\ view'.arrived = v.arrived
             /\ view'.notice = v.notice \/ (Ends(c) /\ view'.notice = c.arg.change)
  <2>1. c.arg.ends \in {Findings!None, "set", "undo", "verify"}
    BY <1>1, <1>4 DEF FindingsRequest, RowActions
  <2>2. CASE c.arg.ends = Findings!None
    <3>1. view' = v
      BY <1>4, <2>2 DEF Findings!Finished, Findings!None
    <3> QED BY <3>1
  <2>3. CASE c.arg.ends = "set"
    <3>1. view' = [v EXCEPT !.busy = Findings!None, !.notice = c.arg.change]
      BY <1>4, <2>3 DEF Findings!Finished, Findings!None
    <3> QED BY <1>4, <2>3, <3>1 DEF FindingsFields, Ends
  <2>4. CASE c.arg.ends \in {"undo", "verify"}
    <3>1. view' = [v EXCEPT !.busy = Findings!None]
      BY <1>4, <2>4 DEF Findings!Finished, Findings!None
    <3> QED BY <1>4, <3>1 DEF FindingsFields
  <2> QED BY <2>1, <2>2, <2>3, <2>4
<1>5. CASE Findings!HandleList(k)
  <2>1. PICK v : v = Findings!WithList(view, c.arg.tab, c.reply)
    OBVIOUS
  <2>2. /\ DOMAIN v = FindingsFields /\ v.tab = view.tab /\ v.timer = view.timer /\ v.notice = view.notice
        /\ v.snapshot = [tab |-> c.arg.tab, ids |-> DOMAIN c.reply]
        /\ v.arrived =
             IF view.snapshot.tab = c.arg.tab THEN view.arrived + Cardinality(Findings!Added(c.reply)) ELSE 0
    <3>1. PICK new : new = Cardinality(Findings!Added(c.reply))
      OBVIOUS
    <3>2. v = [view EXCEPT !.rows = c.reply, !.snapshot = [tab |-> c.arg.tab, ids |-> DOMAIN c.reply],
                           !.arrived = IF view.snapshot.tab = c.arg.tab THEN @ + new ELSE 0, !.error = FALSE]
      <4>1. Findings!Cardinality(Findings!Added(c.reply)) = new
        BY <3>1, FindingsCount
      <4> QED BY <2>1, <4>1 DEF Findings!WithList
    <3> QED BY <1>1, <3>1, <3>2 DEF FindingsFields
  <2>3. /\ Lists(c) /\ c.op = "load" /\ c.phase # "sent" /\ (spent.inOrder => k = 1) /\ UNCHANGED <<server, spent>>
        /\ calls' = Others(k) \o << >> /\ view' = Findings!Finished(v, c.arg)
    BY <1>5, <2>1 DEF Findings!HandleList, Findings!Settle, Findings!InOrder, Findings!Others, Others, Lists
  <2>4. /\ view'.tab = v.tab /\ view'.timer = v.timer /\ view'.snapshot = v.snapshot /\ view'.arrived = v.arrived
        /\ view'.notice = v.notice \/ (Ends(c) /\ view'.notice = c.arg.change)
    BY <1>4, <2>2, <2>3
  <2>5. ArrivalsAnswer(k, none)
    BY <1>3, <2>2, <2>3, <2>4 DEF ArrivalsAnswer
  <2> QED BY <2>5, ArrivalsAnswered
<1>6. CASE ~Findings!HandleList(k)
  <2>1. PICK phase, v, sends :
          /\ Findings!Settle(k, phase, v, sends) /\ phase \in {"done", "refused"}
          /\ \/ sends = << >>
             \/ c.op = "read" /\ c.arg.ends # Findings!None /\ sends = <<Findings!Reload(c.arg.ends)>>
             \/ c.op \in RowActions /\ sends = <<Findings!ReloadAfter(c)>>
             \/ c.op \in DialogActions /\ sends = <<Findings!Request("read", [item |-> c.arg.item, ends |-> c.arg.tab])>>
          /\ \/ c.op = "load" /\ v = Findings!Finished([view EXCEPT !.error = TRUE], c.arg)
             \/ v = view \/ v = [view EXCEPT !.busy = Findings!None] \/ v = [view EXCEPT !.dialog.busy = FALSE]
             \/ v = [view EXCEPT !.busy = Findings!None, !.error = TRUE]
             \/ \E status, busy : v = [view EXCEPT !.dialog.status = status, !.dialog.busy = busy]
    <3>1. CASE Findings!HandleRead(k)
      <4>1. PICK phase \in {"done", "refused"} :
              /\ c.op = "read"
              /\ Findings!Settle(k, phase,
                    IF ~Findings!OpenOn(view, c.arg.item) THEN view
                    ELSE [view EXCEPT !.dialog.status = IF phase = "done" THEN c.reply ELSE @,
                                      !.dialog.busy = @ /\ c.arg.ends = Findings!None],
                    IF c.arg.ends = Findings!None THEN << >> ELSE <<Findings!Reload(c.arg.ends)>>)
        BY <3>1 DEF Findings!HandleRead
      <4>2. PICK v, sends :
              /\ v = IF ~Findings!OpenOn(view, c.arg.item) THEN view
                     ELSE [view EXCEPT !.dialog.status = IF phase = "done" THEN c.reply ELSE @,
                                       !.dialog.busy = @ /\ c.arg.ends = Findings!None]
              /\ sends = IF c.arg.ends = Findings!None THEN << >> ELSE <<Findings!Reload(c.arg.ends)>>
        OBVIOUS
      <4>3. v = view \/ \E status, busy : v = [view EXCEPT !.dialog.status = status, !.dialog.busy = busy]
        BY <1>1, <4>2 DEF FindingsFields
      <4>4. c.op = "read" /\ Findings!Settle(k, phase, v, sends)
        BY <4>1, <4>2
      <4>5. sends = << >> \/ (c.arg.ends # Findings!None /\ sends = <<Findings!Reload(c.arg.ends)>>)
        BY <4>2
      <4> QED BY <4>3, <4>4, <4>5
    <3>2. CASE Findings!HandleAction(k)
      BY <3>2 DEF Findings!HandleAction, RowActions, DialogActions
    <3>3. CASE Findings!HandleFailure(k)
      <4>1. CASE c.op = "load"
        BY <3>3, <4>1 DEF Findings!HandleFailure
      <4>2. CASE c.op # "load"
        BY <3>3, <4>2 DEF Findings!HandleFailure
      <4> QED BY <4>1, <4>2
    <3> QED BY <1>6, <3>1, <3>2, <3>3
  <2>2. /\ c.phase # "sent" /\ (spent.inOrder => k = 1) /\ UNCHANGED <<server, spent>>
        /\ calls' = Others(k) \o sends /\ view' = v
    BY <2>1 DEF Findings!Settle, Findings!InOrder, Findings!Others, Others
  <2>3. PICK n : /\ Shaped(n) /\ n.phase = "sent" /\ ~Acts(n) /\ ArrivalsRequest(n)
                 /\ sends \in {<< >>, <<n>>}
    <3>1. CASE sends = << >>
      BY <1>3, <3>1
    <3>2. CASE c.op = "read" /\ c.arg.ends # Findings!None /\ sends = <<Findings!Reload(c.arg.ends)>>
      <4>1. c.arg.ends \in Findings!Tabs
        BY <1>1, <3>2 DEF ArrivalsRequest
      <4> QED BY <1>2, <3>2, <4>1
    <3>3. CASE c.op \in RowActions /\ sends = <<Findings!ReloadAfter(c)>>
      <4>1. PICK n : n = Findings!ReloadAfter(c)
        OBVIOUS
      <4>2. /\ Shaped(n) /\ n.op = "load" /\ n.phase = "sent" /\ n.arg.ends = c.op /\ n.arg.change = c.arg
            /\ n.arg.tab = c.arg.tab
        BY <4>1, FindingsAsk DEF Findings!ReloadAfter
      <4>3. c.arg.tab \in Findings!Tabs
        BY <1>1, <3>3 DEF ArrivalsRequest, Acts, RowActions, Findings!Actions
      <4>4. ArrivalsRequest(n) /\ ~Acts(n)
        BY <4>2, <4>3 DEF ArrivalsRequest, Acts, Ends, Lists, Findings!Actions
      <4> QED BY <3>3, <4>1, <4>2, <4>4
    <3>4. CASE /\ c.op \in DialogActions
               /\ sends = <<Findings!Request("read", [item |-> c.arg.item, ends |-> c.arg.tab])>>
      <4>1. PICK n : n = Findings!Request("read", [item |-> c.arg.item, ends |-> c.arg.tab])
        OBVIOUS
      <4>2. Shaped(n) /\ n.op = "read" /\ n.phase = "sent" /\ n.arg.ends = c.arg.tab
        BY <4>1, FindingsAsk
      <4>3. c.arg.tab \in Findings!Tabs
        BY <1>1, <3>4 DEF ArrivalsRequest, Acts, DialogActions, Findings!Actions
      <4>4. ArrivalsRequest(n) /\ ~Acts(n)
        BY <4>2, <4>3 DEF ArrivalsRequest, Acts, Ends, Lists, Findings!Actions
      <4> QED BY <3>4, <4>1, <4>2, <4>4
    <3> QED BY <2>1, <3>1, <3>2, <3>3, <3>4
  <2>4. /\ view'.tab = view.tab /\ view'.timer = view.timer
        /\ view'.snapshot = view.snapshot /\ view'.arrived = view.arrived
        /\ view'.notice = view.notice \/ (Ends(c) /\ view'.notice = c.arg.change)
    <3>1. CASE c.op = "load" /\ v = Findings!Finished([view EXCEPT !.error = TRUE], c.arg)
      <4>1. PICK w : w = [view EXCEPT !.error = TRUE]
        OBVIOUS
      <4>2. /\ DOMAIN w = FindingsFields /\ w.tab = view.tab /\ w.timer = view.timer /\ w.snapshot = view.snapshot
            /\ w.arrived = view.arrived /\ w.notice = view.notice
        BY <1>1, <4>1 DEF FindingsFields
      <4>3. view' = Findings!Finished(w, c.arg)
        BY <2>2, <3>1, <4>1
      <4> QED BY <1>4, <3>1, <4>2, <4>3
    <3>2. CASE \/ v = view \/ v = [view EXCEPT !.busy = Findings!None] \/ v = [view EXCEPT !.dialog.busy = FALSE]
               \/ v = [view EXCEPT !.busy = Findings!None, !.error = TRUE]
               \/ \E status, busy : v = [view EXCEPT !.dialog.status = status, !.dialog.busy = busy]
      BY <1>1, <2>2, <3>2 DEF FindingsFields
    <3> QED BY <2>1, <3>1, <3>2
  <2>5. ArrivalsAnswer(k, n)
    BY <2>2, <2>3, <2>4 DEF ArrivalsAnswer
  <2> QED BY <2>5, ArrivalsAnswered
<1> QED BY <1>5, <1>6

\* Each step of the page counts what arrives once.
LEMMA ArrivalsStep == FindingsInv /\ ArrivalsInv /\ Findings!Next => ArrivalsInv'
<1> SUFFICES ASSUME FindingsInv, ArrivalsInv, Findings!Next PROVE ArrivalsInv'
  OBVIOUS
<1>1. FindingsBase /\ FindingsBase'
  BY FindingsStep DEF FindingsInv
<1> QED BY <1>1, ArrivalsGestures, ArrivalsApart, ArrivalsServed, ArrivalsAnswers DEF Findings!Next, DialogActions

-----------------------------------------------------------------------------
(* The overview: what appears is told once. *)

LiveFields == {"kind", "connected", "data", "before", "error", "loading", "refreshing", "said", "pill"}
LiveOps == {"load", "count"}
LiveData == Live!DataOf(view.kind, server)

\* A reading that was served brings a count.
LiveReads(c) == c.op = "load" /\ c.phase = "done"
LiveRequests == \A k \in DOMAIN calls : calls[k].op \in LiveOps /\ (LiveReads(calls[k]) => calls[k].reply \in Nat)

LiveView ==
  /\ DOMAIN view = LiveFields
  /\ view.data \in Nat \union {Live!Unread} /\ view.before = view.data
LiveServer ==
  /\ DOMAIN server = {"critical", "open", "queue"}
  /\ server.critical \in [Live!Supervised -> Nat]
LiveSpent ==
  /\ {"moves", "faults", "inOrder", "missed", "raised", "told", "first"} \subseteq DOMAIN spent
  /\ spent.raised \in Nat /\ spent.told \in Nat /\ spent.first \in Nat \union {Live!Unread}
  /\ spent.first = Live!Unread <=> view.data = Live!Unread

\* What is shown was there at first, or was told.
LiveShown == view.data # Live!Unread => view.data <= spent.first + spent.told

LiveOrder ==
  spent.inOrder =>
    \A j, k \in DOMAIN calls : j < k /\ calls[k].phase = "done" => calls[j].phase # "sent"

\* The counts, and what they rise by from one to another.
Levels == Nat
Rise == [p \in Nat \X Nat |-> IF p[2] <= p[1] THEN 0 ELSE p[2] - p[1]]

\* What the server showed, and what had been raised until then, when it served what the page
\* shows, then each request of the queue, and what it shows now.
LivePath(held, raised) ==
  /\ Climbs(Levels, Rise, Len(calls), held, raised)
  /\ view.data \in {Live!Unread, held[0]} /\ spent.told <= raised[0]
  /\ held[Len(calls) + 1] = LiveData /\ raised[Len(calls) + 1] = spent.raised
  /\ \A j \in DOMAIN calls : LiveReads(calls[j]) => calls[j].reply = held[j]
LiveTold == spent.inOrder => \E held, raised : LivePath(held, raised)

LiveInv ==
  /\ Queue(calls) /\ LiveRequests /\ LiveView /\ LiveServer /\ LiveSpent
  /\ LiveShown /\ LiveOrder /\ LiveTold

\* A request of the page has the four fields of a request.
LEMMA LiveAsk ==
  /\ \A guard : LET c == Live!Reading(guard) IN Shaped(c) /\ c.op = "load" /\ c.phase = "sent"
  /\ LET c == Live!Count IN Shaped(c) /\ c.op = "count" /\ c.phase = "sent"
BY DEF Live!Reading, Live!Count, Live!Request, Shaped

\* What a page shows of the server is a count.
LEMMA LiveCounts ==
  /\ LiveServer => LiveData \in Nat /\ LiveData \in Levels
  /\ LiveServer' => LiveData' \in Nat /\ LiveData' \in Levels
BY DEF Levels, LiveServer, LiveData, Live!DataOf, Live!Total, Live!Supervised

\* A count rises by nothing from itself.
LEMMA RiseCosts == Costs(Levels, Rise)
<1>1. Rise \in [Nat \X Nat -> Nat]
  BY DEF Rise
<1>2. \A x \in Nat : Rise[<<x, x>>] = 0
  BY DEF Rise
<1> QED BY <1>1, <1>2 DEF Costs, Levels

\* What it rises by, from one to another.
LEMMA RiseIs == \A x, y \in Levels : Rise[<<x, y>>] = IF y <= x THEN 0 ELSE y - x
BY DEF Rise, Levels

\* The page opens unread.
LEMMA LiveInit == Live!Init => LiveInv
<1> SUFFICES ASSUME Live!Init PROVE LiveInv
  OBVIOUS
<1>1. PICK kind \in {"overview", "detail"} :
        /\ server = [critical |-> [i \in Live!Supervised |-> 1], open |-> TRUE, queue |-> << >>]
        /\ view = [kind |-> kind, connected |-> TRUE, data |-> Live!Unread, before |-> Live!Unread, error |-> FALSE,
                   loading |-> TRUE, refreshing |-> TRUE, said |-> Live!None, pill |-> Live!Unread]
        /\ calls = <<Live!Reading(FALSE), Live!Count>>
        /\ Live!Unspent([missed |-> {}, raised |-> 0, told |-> 0, first |-> Live!Unread])
  BY DEF Live!Init
<1>2. PICK c, d : /\ calls = <<c, d>> /\ Shaped(c) /\ Shaped(d)
                  /\ c.op \in LiveOps /\ c.phase = "sent" /\ d.op \in LiveOps /\ d.phase = "sent"
  BY <1>1, LiveAsk DEF LiveOps
<1>3. /\ calls \in Seq({c, d}) /\ Len(calls) = 2 /\ DOMAIN calls = {1, 2} /\ calls[1] = c /\ calls[2] = d
  BY <1>2
<1>4. Queue(calls) /\ LiveRequests /\ LiveOrder
  <2>1. \A k \in DOMAIN calls : Shaped(calls[k]) /\ calls[k].op \in LiveOps /\ calls[k].phase = "sent"
    BY <1>2, <1>3
  <2>2. \A k \in DOMAIN calls : calls[k].phase # "done"
    BY <2>1
  <2>3. Queue(calls)
    BY <1>3, <2>1 DEF Queue
  <2>4. LiveRequests
    BY <2>1, <2>2 DEF LiveRequests, LiveReads
  <2>5. LiveOrder
    BY <2>2 DEF LiveOrder
  <2> QED BY <2>3, <2>4, <2>5
<1>5. LiveView
  BY <1>1 DEF LiveView, LiveFields
<1>6. LiveServer
  BY <1>1 DEF LiveServer
<1>7. /\ {"moves", "faults", "inOrder", "missed", "raised", "told", "first"} \subseteq DOMAIN spent
      /\ spent.raised = 0 /\ spent.told = 0 /\ spent.first = Live!Unread
  <2>1. PICK ordered :
          spent = LET bounds == [moves |-> 0, faults |-> 0, inOrder |-> ordered]
                      h == [missed |-> {}, raised |-> 0, told |-> 0, first |-> Live!Unread]
                  IN  [x \in DOMAIN bounds \union DOMAIN h |-> IF x \in DOMAIN bounds THEN bounds[x] ELSE h[x]]
    BY <1>1 DEF Live!Unspent
  <2>2. {"moves", "faults", "inOrder", "missed", "raised", "told", "first"} \subseteq DOMAIN spent
    BY <2>1
  <2>3. spent["raised"] = 0 /\ spent["told"] = 0 /\ spent["first"] = Live!Unread
    BY <2>1
  <2> QED BY <2>2, <2>3
<1>8. LiveSpent /\ LiveShown
  BY <1>1, <1>7 DEF LiveSpent, LiveShown
<1>9. LiveTold
  <2>1. LiveData \in Levels /\ Len(calls) \in Nat /\ 0 \in Nat
    BY <1>3, <1>6, LiveCounts
  <2> DEFINE h == Still(Len(calls), LiveData)
             r == Still(Len(calls), 0)
  <2>2. Climbs(Levels, Rise, Len(calls), h, r)
    BY <2>1, RiseCosts, ClimbStarts
  <2>3. /\ view.data = Live!Unread /\ h[0] = LiveData /\ r[0] = 0
        /\ h[Len(calls) + 1] = LiveData /\ r[Len(calls) + 1] = 0
    BY <1>1, <2>1 DEF Still
  <2> HIDE DEF h, r
  <2>4. LivePath(h, r)
    BY <1>2, <1>3, <1>7, <2>2, <2>3 DEF LivePath, LiveReads
  <2> QED BY <2>4 DEF LiveTold
<1> QED BY <1>4, <1>5, <1>6, <1>8, <1>9 DEF LiveInv

\* Readings and counts are sent behind those that wait.
LiveGrows(q, p) ==
  /\ Queue(p)
  /\ Len(q) \in Nat /\ Len(p) \in Nat /\ Len(q) <= Len(p)
  /\ DOMAIN q = 1..Len(q) /\ DOMAIN p = 1..Len(p)
  /\ \A j \in 1..Len(q) : p[j] = q[j]
  /\ \A j \in 1..Len(p) : j > Len(q) => p[j].op \in LiveOps /\ p[j].phase = "sent"

\* One is, or none.
LEMMA LiveGrowsByOne ==
  ASSUME NEW q, Queue(q)
  PROVE  /\ LiveGrows(q, q)
         /\ q \o << >> = q
         /\ \A c : Append(q, c) = q \o <<c>>
         /\ \A c : Shaped(c) /\ c.op \in LiveOps /\ c.phase = "sent" => LiveGrows(q, q \o <<c>>)
<1>1. LiveGrows(q, q)
  <2>1. Len(q) \in Nat /\ DOMAIN q = 1..Len(q)
    BY QueueNumbers
  <2>2. \A n \in Nat : n <= n /\ \A j \in 1..n : ~(j > n)
    OBVIOUS
  <2> QED BY <2>1, <2>2 DEF LiveGrows
<1>2. PICK S : q \in Seq(S)
  BY DEF Queue
<1>3. q \o << >> = q
  BY <1>2
<1>4. \A c : Append(q, c) = q \o <<c>>
  BY <1>2
<1>5. ASSUME NEW c, Shaped(c), c.op \in LiveOps, c.phase = "sent"
      PROVE  LiveGrows(q, q \o <<c>>)
  <2>1. Queue(<<c>>) /\ Len(<<c>>) = 1 /\ <<c>>[1] = c
    BY <1>5, Asked
  <2>2. PICK r, p : r = <<c>> /\ p = q \o r
    OBVIOUS
  <2>3. Queue(r) /\ Len(r) = 1 /\ r[1] = c
    BY <2>1, <2>2
  <2>4. /\ Queue(p) /\ Len(q) \in Nat /\ Len(p) = Len(q) + 1 /\ DOMAIN q = 1..Len(q) /\ DOMAIN p = 1..(Len(q) + 1)
        /\ \A j \in 1..Len(q) : p[j] = q[j]
        /\ \A j \in 1..(Len(q) + 1) : j > Len(q) => j - Len(q) \in 1..1 /\ p[j] = r[j - Len(q)]
    BY <2>2, <2>3, Sent
  <2>5. \A j \in 1..(Len(q) + 1) : j > Len(q) => p[j] = c
    BY <2>3, <2>4
  <2>6. LiveGrows(q, p)
    BY <1>5, <2>4, <2>5 DEF LiveGrows
  <2> QED BY <2>2, <2>6
<1> QED BY <1>1, <1>3, <1>4, <1>5

\* Then others.
LEMMA LiveGrowsAgain ==
  ASSUME NEW q, NEW p, NEW s, LiveGrows(q, p), LiveGrows(p, s)
  PROVE  LiveGrows(q, s)
<1>1. PICK l, m, n : l = Len(q) /\ m = Len(p) /\ n = Len(s)
  OBVIOUS
<1>2. /\ Queue(s) /\ l \in Nat /\ m \in Nat /\ n \in Nat /\ l <= m /\ m <= n
      /\ DOMAIN q = 1..l /\ DOMAIN s = 1..n
      /\ \A j \in 1..l : p[j] = q[j]
      /\ \A j \in 1..m : s[j] = p[j]
      /\ \A j \in 1..m : j > l => p[j].op \in LiveOps /\ p[j].phase = "sent"
      /\ \A j \in 1..n : j > m => s[j].op \in LiveOps /\ s[j].phase = "sent"
  BY <1>1 DEF LiveGrows
<1>3. \A j \in 1..l : s[j] = q[j]
  BY <1>2
<1>4. \A j \in 1..n : j > l => s[j].op \in LiveOps /\ s[j].phase = "sent"
  BY <1>2
<1> QED BY <1>1, <1>2, <1>3, <1>4 DEF LiveGrows

\* What leaves the numbers of the page leaves the path.
LEMMA LiveAside ==
  ASSUME LiveInv, LiveGrows(calls, calls'),
         LiveServer', DOMAIN view' = DOMAIN view, view'.kind = view.kind,
         view'.data = view.data, view'.before = view.before,
         DOMAIN spent' = DOMAIN spent, spent'.inOrder = spent.inOrder,
         spent'.told = spent.told, spent'.first = spent.first,
         spent'.raised \in Nat, spent.raised <= spent'.raised,
         LiveData' - LiveData <= spent'.raised - spent.raised
  PROVE  LiveInv'
<1>1. /\ Queue(calls) /\ LiveRequests /\ LiveView /\ LiveServer /\ LiveSpent
      /\ LiveShown /\ LiveOrder /\ LiveTold
  BY DEF LiveInv
<1>2. /\ Queue(calls')
      /\ Len(calls) \in Nat /\ Len(calls') \in Nat /\ Len(calls) <= Len(calls')
      /\ DOMAIN calls = 1..Len(calls) /\ DOMAIN calls' = 1..Len(calls')
      /\ \A j \in 1..Len(calls) : calls'[j] = calls[j]
      /\ \A j \in 1..Len(calls') : j > Len(calls) => calls'[j].op \in LiveOps /\ calls'[j].phase = "sent"
  BY DEF LiveGrows
<1>3. \A j \in DOMAIN calls' : \/ j \in DOMAIN calls /\ calls'[j] = calls[j]
                               \/ /\ calls'[j].op \in LiveOps /\ calls'[j].phase = "sent"
                                  /\ \A i \in DOMAIN calls : i < j
  <2> TAKE j \in DOMAIN calls'
  <2>1. /\ Len(calls) \in Nat /\ DOMAIN calls = 1..Len(calls) /\ j \in 1..Len(calls')
        /\ j \in 1..Len(calls) => calls'[j] = calls[j]
        /\ j > Len(calls) => calls'[j].op \in LiveOps /\ calls'[j].phase = "sent"
    BY <1>2
  <2>2. Len(calls') \in Nat
    BY <1>2
  <2> QED BY <2>1, <2>2
<1>4. LiveRequests'
  BY <1>1, <1>3 DEF LiveRequests, LiveReads
<1>5. LiveOrder'
  <2>1. Len(calls) \in Nat /\ DOMAIN calls = 1..Len(calls)
    BY <1>2
  <2>2. DOMAIN calls' \subseteq Nat
    BY <1>2
  <2>3. ASSUME spent'.inOrder, NEW j \in DOMAIN calls', NEW k \in DOMAIN calls', j < k, calls'[k].phase = "done"
        PROVE  calls'[j].phase # "sent"
    <3>1. k \in DOMAIN calls /\ calls'[k] = calls[k]
      BY <1>3, <2>3
    <3>2. j \in DOMAIN calls /\ calls'[j] = calls[j]
      <4>1. ~(\A i \in DOMAIN calls : i < j)
        BY <2>1, <2>2, <2>3, <3>1
      <4> QED BY <1>3, <4>1
    <3> QED BY <1>1, <2>3, <3>1, <3>2 DEF LiveOrder
  <2> QED BY <2>3 DEF LiveOrder
<1>6. LiveView' /\ LiveSpent' /\ LiveShown'
  BY <1>1 DEF LiveView, LiveSpent, LiveShown
<1>7. LiveTold'
  <2> SUFFICES ASSUME spent'.inOrder PROVE \E held, raised : LivePath(held, raised)'
    BY DEF LiveTold
  <2>1. PICK held, raised : LivePath(held, raised)
    BY <1>1 DEF LiveTold
  <2>2. /\ LiveData \in Nat /\ LiveData' \in Nat /\ LiveData \in Levels /\ LiveData' \in Levels
        /\ spent.raised \in Nat /\ spent'.raised \in Nat
    BY <1>1, LiveCounts DEF LiveSpent
  <2>3. /\ Climbs(Levels, Rise, Len(calls), held, raised)
        /\ held[Len(calls) + 1] = LiveData /\ raised[Len(calls) + 1] = spent.raised
    BY <2>1 DEF LivePath
  <2>4. \A y \in Levels : Rise[<<y, LiveData'>>] <= Rise[<<y, LiveData>>] + (spent'.raised - spent.raised)
    <3>1. PICK x, z, u : x = LiveData' /\ z = LiveData /\ u = spent'.raised - spent.raised
      OBVIOUS
    <3>2. x \in Nat /\ z \in Nat /\ u \in Nat /\ x - z <= u
      BY <2>2, <3>1
    <3>3. \A y \in Levels : Rise[<<y, x>>] <= Rise[<<y, z>>] + u
      BY <3>2, RiseIs DEF Levels
    <3> QED BY <3>1, <3>3
  <2>5. PICK x, u, n, m : x = LiveData' /\ u = spent'.raised /\ n = Len(calls) /\ m = Len(calls')
    OBVIOUS
  <2> DEFINE h == Since(held, n, m, x)
             r == Since(raised, n, m, u)
  <2>6. n \in Nat /\ m \in Nat /\ n <= m /\ n \in 0..n /\ n \in 0..m /\ DOMAIN calls = 1..n
    <3>1. n \in Nat /\ m \in Nat /\ n <= m /\ DOMAIN calls = 1..n
      BY <1>2, <2>5
    <3> QED BY <3>1
  <2>7. Climbs(Levels, Rise, m, h, r)
    <3>1. /\ Climbs(Levels, Rise, n, held, raised)
          /\ held[n + 1] = LiveData /\ raised[n + 1] = spent.raised
      BY <2>3, <2>5
    <3>2. /\ x \in Levels /\ u \in Nat /\ raised[n + 1] <= u
          /\ \A y \in Levels : Rise[<<y, x>>] <= Rise[<<y, held[n + 1]>>] + (u - raised[n + 1])
      BY <2>2, <2>4, <2>5, <3>1
    <3> QED BY <2>6, <3>1, <3>2, RiseCosts, ClimbGoesOn
  <2>8. /\ \A j \in 0..m : j <= n => h[j] = held[j]
        /\ h[0] = held[0] /\ r[0] = raised[0] /\ h[m + 1] = x /\ r[m + 1] = u
    BY <2>6, SinceIs
  <2>9. ASSUME NEW j \in DOMAIN calls', LiveReads(calls'[j])
        PROVE  calls'[j].reply = h[j]
    <3>1. j \in DOMAIN calls /\ calls'[j] = calls[j]
      BY <1>3, <2>9 DEF LiveReads
    <3>2. j \in 0..m /\ j <= n
      BY <2>6, <3>1
    <3> QED BY <2>1, <2>8, <2>9, <3>1, <3>2 DEF LivePath
  <2>10. view'.data \in {Live!Unread, h[0]} /\ spent'.told <= r[0]
    BY <2>1, <2>8 DEF LivePath
  <2> HIDE DEF h, r
  <2>11. LivePath(h, r)'
    BY <2>5, <2>7, <2>8, <2>9, <2>10 DEF LivePath
  <2> QED BY <2>11
<1> QED BY <1>2, <1>4, <1>5, <1>6, <1>7 DEF LiveInv

\* The server's data and the stream change, and the page asks for readings.
LEMMA LiveGestures ==
  ASSUME LiveInv,
         \/ \E i \in Live!Supervised, by \in {1, -1}, guard \in BOOLEAN : Live!Changes(i, by, guard)
         \/ Live!Breaks \/ Live!SeesItBroken \/ Live!Reconnects \/ Live!Delivered
         \/ \E op \in LiveOps : Live!Poll(op)
  PROVE  LiveInv'
<1>1. Queue(calls) /\ LiveView /\ LiveServer /\ LiveSpent
  BY DEF LiveInv
<1>2. LiveData \in Nat
  BY <1>1, LiveCounts
<1>3. ASSUME NEW i \in Live!Supervised, NEW by \in {1, -1}, NEW guard \in BOOLEAN, Live!Changes(i, by, guard)
      PROVE  LiveInv'
  <2>1. /\ UNCHANGED <<view, calls>> /\ server.critical[i] + by \in 0..2
        /\ DOMAIN server' = DOMAIN server /\ server'.critical = [server.critical EXCEPT ![i] = @ + by]
    BY <1>1, <1>3 DEF Live!Changes, Live!Publish, LiveServer
  <2>2. LiveServer'
    BY <1>1, <2>1 DEF LiveServer, Live!Supervised
  <2>3. /\ DOMAIN spent' = DOMAIN spent /\ spent'.inOrder = spent.inOrder
        /\ spent'.told = spent.told /\ spent'.first = spent.first
        /\ spent'.raised = IF by = 1 THEN spent.raised + 1 ELSE spent.raised
    BY <1>1, <1>3 DEF Live!Changes, LiveSpent
  <2>4. /\ by = 1 => LiveData' <= LiveData + 1
        /\ by = -1 => LiveData' <= LiveData
    BY <1>1, <2>1 DEF LiveServer, LiveData, Live!DataOf, Live!Total, Live!Supervised
  <2>5. LiveData' \in Nat
    BY <2>2, LiveCounts
  <2>6. /\ spent'.raised \in Nat /\ spent.raised <= spent'.raised
        /\ LiveData' - LiveData <= spent'.raised - spent.raised
    BY <1>1, <1>2, <2>3, <2>4, <2>5 DEF LiveSpent
  <2>7. LiveGrows(calls, calls')
    BY <1>1, <2>1, LiveGrowsByOne
  <2> QED BY <2>1, <2>2, <2>3, <2>6, <2>7, LiveAside
<1>4. CASE Live!Breaks \/ Live!SeesItBroken \/ Live!Reconnects \/ Live!Delivered \/ \E op \in LiveOps : Live!Poll(op)
  <2>1. /\ LiveServer' /\ server'.critical = server.critical
    BY <1>1, <1>4 DEF Live!Breaks, Live!SeesItBroken, Live!Reconnects, Live!Delivered, Live!Poll, LiveServer
  <2>2. /\ DOMAIN view' = DOMAIN view /\ view'.kind = view.kind
        /\ view'.data = view.data /\ view'.before = view.before
    BY <1>1, <1>4 DEF Live!Breaks, Live!SeesItBroken, Live!Reconnects, Live!Delivered, Live!Poll, LiveView, LiveFields
  <2>3. /\ DOMAIN spent' = DOMAIN spent /\ spent'.inOrder = spent.inOrder
        /\ spent'.told = spent.told /\ spent'.first = spent.first /\ spent'.raised = spent.raised
    BY <1>1, <1>4 DEF Live!Breaks, Live!SeesItBroken, Live!Reconnects, Live!Delivered, Live!Poll, LiveSpent
  <2>4. LiveData' = LiveData
    BY <2>1, <2>2 DEF LiveData, Live!DataOf, Live!Total
  <2>5. /\ spent'.raised \in Nat /\ spent.raised <= spent'.raised
        /\ LiveData' - LiveData <= spent'.raised - spent.raised
    BY <1>1, <1>2, <2>3, <2>4 DEF LiveSpent
  <2>6. LiveGrows(calls, calls')
    <3>1. CASE calls' = calls
      BY <1>1, <3>1, LiveGrowsByOne
    <3>2. CASE Live!Delivered
      <4>1. PICK c, d, p : c = Live!Reading(Head(server.queue).guard) /\ d = Live!Count /\ p = calls \o <<c>>
        OBVIOUS
      <4>2. /\ Shaped(c) /\ c.op \in LiveOps /\ c.phase = "sent"
            /\ Shaped(d) /\ d.op \in LiveOps /\ d.phase = "sent"
        BY <4>1, LiveAsk DEF LiveOps
      <4>3. calls' = (calls \o <<c>>) \o <<d>> \/ calls' = (calls \o << >>) \o <<d>>
        BY <3>2, <4>1 DEF Live!Delivered
      <4>4. CASE calls' = (calls \o << >>) \o <<d>>
        <5>1. calls' = calls \o <<d>>
          BY <1>1, <4>4, LiveGrowsByOne
        <5> QED BY <1>1, <4>2, <5>1, LiveGrowsByOne
      <4>5. CASE calls' = (calls \o <<c>>) \o <<d>>
        <5>1. LiveGrows(calls, p)
          BY <1>1, <4>1, <4>2, LiveGrowsByOne
        <5>2. Queue(p)
          BY <5>1 DEF LiveGrows
        <5>3. LiveGrows(p, calls')
          BY <4>1, <4>2, <4>5, <5>2, LiveGrowsByOne
        <5> QED BY <5>1, <5>3, LiveGrowsAgain
      <4> QED BY <4>3, <4>4, <4>5
    <3>3. ASSUME NEW op \in LiveOps, Live!Poll(op)
          PROVE  LiveGrows(calls, calls')
      <4>1. PICK c : Shaped(c) /\ c.op \in LiveOps /\ c.phase = "sent" /\ calls' = Append(calls, c)
        BY <3>3, LiveAsk DEF Live!Poll, LiveOps
      <4>2. calls' = calls \o <<c>>
        BY <1>1, <4>1, LiveGrowsByOne
      <4> QED BY <1>1, <4>1, <4>2, LiveGrowsByOne
    <3> QED BY <1>4, <3>1, <3>2, <3>3 DEF Live!Breaks, Live!SeesItBroken, Live!Reconnects
  <2> QED BY <2>1, <2>2, <2>3, <2>5, <2>6, LiveAside
<1> QED BY <1>3, <1>4

\* The server and the network: what is served sees what the server shows now.
LEMMA LiveServed ==
  ASSUME LiveInv, NEW k \in DOMAIN calls, Live!ServeOne(k) \/ Live!Fail(k)
  PROVE  LiveInv'
<1>1. /\ Queue(calls) /\ LiveRequests /\ LiveView /\ LiveServer /\ LiveSpent
      /\ LiveShown /\ LiveOrder /\ LiveTold
  BY DEF LiveInv
<1>2. /\ UNCHANGED <<server, view>>
      /\ DOMAIN spent' = DOMAIN spent /\ spent'.inOrder = spent.inOrder
      /\ spent'.told = spent.told /\ spent'.first = spent.first /\ spent'.raised = spent.raised
  BY <1>1 DEF Live!ServeOne, Live!Fail, LiveSpent
<1>3. LiveView' /\ LiveServer' /\ LiveSpent' /\ LiveShown' /\ LiveData' = LiveData
  BY <1>1, <1>2 DEF LiveView, LiveServer, LiveSpent, LiveShown, LiveData, Live!DataOf, Live!Total
<1>4. LiveData \in Nat /\ spent.raised \in Nat
  BY <1>1, LiveCounts DEF LiveSpent
<1>5. PICK phase, reply :
        /\ Becomes(k, phase, reply)
        /\ \/ phase = "refused" /\ Live!Fail(k)
           \/ /\ phase = "done" /\ calls[k].phase = "sent" /\ (calls[k].op = "load" => reply = LiveData)
              /\ spent.inOrder => \A j \in 1..(k - 1) : calls[j].phase # "sent"
  <2>1. CASE Live!Fail(k)
    BY <2>1 DEF Live!Fail, Becomes
  <2>2. CASE Live!ServeOne(k)
    BY <2>2 DEF Live!ServeOne, Becomes, LiveData, Live!InOrder
  <2> QED BY <2>1, <2>2
<1>6. /\ Queue(calls') /\ Len(calls) \in Nat /\ DOMAIN calls = 1..Len(calls)
      /\ Len(calls') = Len(calls) /\ DOMAIN calls' = DOMAIN calls
  BY <1>1, <1>5, OneServed
<1>7. /\ \A j \in DOMAIN calls : calls'[j].op = calls[j].op
      /\ \A j \in DOMAIN calls : j # k => calls'[j] = calls[j]
      /\ calls'[k].phase = phase /\ calls'[k].reply = reply
  BY <1>1, <1>5, OneServed
<1>8. LiveRequests'
  BY <1>1, <1>4, <1>5, <1>6, <1>7 DEF LiveRequests, LiveReads
<1>9. spent.inOrder /\ phase = "done" => \A j \in DOMAIN calls : j > k => calls[j].phase # "done"
  BY <1>1, <1>5 DEF LiveOrder
<1>10. LiveOrder'
  <2>1. \A j \in DOMAIN calls : j < k => j \in 1..(k - 1)
    BY <1>6
  <2> QED BY <1>1, <1>2, <1>5, <1>6, <1>7, <2>1 DEF LiveOrder
<1>11. LiveTold'
  <2> SUFFICES ASSUME spent'.inOrder PROVE \E held, raised : LivePath(held, raised)'
    BY DEF LiveTold
  <2>1. PICK held, raised : LivePath(held, raised)
    BY <1>1, <1>2 DEF LiveTold
  <2>2. CASE phase = "refused"
    <3>1. \A j \in DOMAIN calls : LiveReads(calls'[j]) => LiveReads(calls[j]) /\ calls'[j] = calls[j]
      BY <1>7, <2>2 DEF LiveReads
    <3>2. LivePath(held, raised)'
      BY <1>2, <1>3, <1>6, <2>1, <3>1 DEF LivePath
    <3> QED BY <3>2
  <2>3. CASE phase = "done"
    <3>1. PICK x, u, n, b : x = LiveData /\ u = spent.raised /\ n = Len(calls) /\ b = k - 1
      OBVIOUS
    <3> DEFINE h == Since(held, b, n, x)
               r == Since(raised, b, n, u)
    <3>2. /\ n \in Nat /\ b \in 0..n /\ b <= n /\ k \in 1..n /\ DOMAIN calls = 1..n
          /\ \A j \in 1..n : j \in 0..n /\ (j <= b <=> j < k)
      <4>1. n \in Nat /\ k \in 1..n /\ b = k - 1 /\ DOMAIN calls = 1..n
        BY <1>6, <3>1
      <4> QED BY <4>1
    <3>3. /\ Climbs(Levels, Rise, n, held, raised)
          /\ held[n + 1] = x /\ raised[n + 1] = u
      BY <2>1, <3>1 DEF LivePath
    <3>4. /\ x \in Levels /\ u \in Nat /\ raised[n + 1] <= u
          /\ \A y \in Levels : Rise[<<y, x>>] <= Rise[<<y, held[n + 1]>>] + (u - raised[n + 1])
      <4>1. x \in Levels /\ u \in Nat
        BY <1>1, <1>4, <3>1, LiveCounts
      <4>2. \A y \in Levels : Rise[<<y, x>>] \in Nat
        BY <4>1, RiseCosts DEF Costs
      <4>3. raised[n + 1] <= u /\ u - raised[n + 1] = 0
        BY <3>3, <4>1
      <4> QED BY <3>3, <4>1, <4>2, <4>3
    <3>5. Climbs(Levels, Rise, n, h, r)
      BY <3>2, <3>3, <3>4, RiseCosts, ClimbGoesOn
    <3>6. /\ \A j \in 0..n : j <= b => h[j] = held[j]
          /\ \A j \in 0..n : j > b => h[j] = x
          /\ h[0] = held[0] /\ r[0] = raised[0] /\ h[n + 1] = x /\ r[n + 1] = u
      <4>1. \A j \in 0..n : (j <= b => h[j] = held[j]) /\ (j > b => h[j] = x)
        BY <3>2 DEF Since
      <4>3. h[0] = held[0] /\ h[n + 1] = x
        BY <3>2 DEF Since
      <4>2. r[0] = raised[0] /\ r[n + 1] = u
        BY <3>2 DEF Since
      <4> QED BY <4>1, <4>2, <4>3
    <3> HIDE DEF h, r
    <3>7. ASSUME NEW j \in DOMAIN calls, LiveReads(calls'[j])
          PROVE  calls'[j].reply = h[j]
      <4>1. CASE j < k
        <5>1. j \in 0..n /\ j <= b /\ j # k
          BY <3>2, <4>1
        <5> QED BY <1>7, <2>1, <3>6, <3>7, <5>1 DEF LivePath
      <4>2. CASE j = k
        <5>1. j \in 0..n /\ j > b
          BY <3>2, <4>2
        <5>2. calls[k].op = "load" /\ calls'[k].reply = reply
          BY <1>7, <3>7, <4>2 DEF LiveReads
        <5>3. reply = x
          BY <1>5, <2>3, <3>1, <5>2
        <5> QED BY <3>6, <4>2, <5>1, <5>2, <5>3
      <4>3. CASE j > k
        <5>1. j # k
          BY <3>2, <4>3
        <5> QED BY <1>2, <1>7, <1>9, <2>3, <3>7, <4>3, <5>1 DEF LiveReads
      <4>4. j < k \/ j = k \/ j > k
        BY <3>2
      <4> QED BY <4>1, <4>2, <4>3, <4>4
    <3>8. LivePath(h, r)'
      BY <1>2, <1>3, <1>6, <2>1, <3>1, <3>5, <3>6, <3>7 DEF LivePath
    <3> QED BY <3>8
  <2> QED BY <1>5, <2>2, <2>3
<1> QED BY <1>3, <1>6, <1>8, <1>10, <1>11 DEF LiveInv

\* A reading that comes is told from what the page showed, which both are on the path.
LEMMA LiveAnswered ==
  ASSUME LiveInv, NEW k \in DOMAIN calls,
         Live!HandleReading(k) \/ Live!HandleFailure(k) \/ Live!HandleCount(k)
  PROVE  LiveInv'
<1>1. /\ Queue(calls) /\ LiveRequests /\ LiveView /\ LiveServer /\ LiveSpent
      /\ LiveShown /\ LiveOrder /\ LiveTold
  BY DEF LiveInv
<1>2. calls' = Others(k) \o << >> /\ UNCHANGED server /\ (spent.inOrder => k = 1)
  <2>1. CASE Live!HandleReading(k)
    <3>1. Live!Others(k) = Others(k) /\ Queue(calls)
      BY <1>1 DEF Live!Others, Others
    <3>2. Others(k) \o << >> = Others(k)
      <4>1. PICK q : q = Others(k)
        OBVIOUS
      <4>2. Queue(q)
        BY <1>1, <4>1, Taken DEF Others
      <4> QED BY <4>1, <4>2, LiveGrowsByOne
    <3> QED BY <2>1, <3>1, <3>2 DEF Live!HandleReading, Live!InOrder
  <2>2. CASE Live!HandleFailure(k) \/ Live!HandleCount(k)
    BY <2>2 DEF Live!HandleFailure, Live!HandleCount, Live!Settle, Live!Others, Others, Live!InOrder
  <2> QED BY <2>1, <2>2
<1>3. /\ Queue(calls') /\ Len(calls) \in Nat \ {0} /\ DOMAIN calls = 1..Len(calls) /\ k \in 1..Len(calls)
      /\ Len(calls') = Len(calls) - 1 /\ DOMAIN calls' = 1..(Len(calls) - 1)
  BY <1>1, <1>2, OneAnswered
<1>4. \A i \in DOMAIN calls' : Came(k, i) \in DOMAIN calls /\ Came(k, i) # k /\ calls'[i] = calls[Came(k, i)]
  BY <1>1, <1>2, OneAnswered
<1>5. LiveRequests' /\ LiveOrder'
  <2>1. LiveRequests'
    BY <1>1, <1>4 DEF LiveRequests, LiveReads
  <2>2. \A i, j \in DOMAIN calls' : i < j => Came(k, i) < Came(k, j)
    BY <1>3 DEF Came
  <2>3. spent'.inOrder => spent.inOrder
    BY <1>1 DEF Live!HandleReading, Live!HandleFailure, Live!HandleCount, Live!Settle, LiveSpent
  <2> QED BY <1>1, <1>4, <2>1, <2>2, <2>3 DEF LiveOrder
\* What the page shows then, and what it told.
<1>6. \/ /\ LiveReads(calls[k]) /\ view'.data = calls[k].reply /\ view'.before = view'.data
         /\ spent'.told = spent.told + Live!Appeared(view, view'.data)
         /\ spent'.first = IF spent.first = Live!Unread THEN view'.data ELSE spent.first
      \/ /\ ~LiveReads(calls[k]) /\ view'.data = view.data /\ view'.before = view.before
         /\ spent'.told = spent.told /\ spent'.first = spent.first
  <2>1. CASE Live!HandleReading(k)
    <3>1. LiveReads(calls[k])
      BY <2>1 DEF Live!HandleReading, LiveReads
    <3>2. view'.data = calls[k].reply /\ view'.before = calls[k].reply
      BY <1>1, <2>1 DEF Live!HandleReading, Live!Read, LiveView, LiveFields
    <3>3. /\ spent'.told = spent.told + Live!Appeared(view, calls[k].reply)
          /\ spent'.first = IF spent.first = Live!Unread THEN calls[k].reply ELSE spent.first
      BY <1>1, <2>1 DEF Live!HandleReading, LiveSpent
    <3> QED BY <3>1, <3>2, <3>3
  <2>2. CASE Live!HandleFailure(k) \/ Live!HandleCount(k)
    BY <1>1, <2>2 DEF Live!HandleFailure, Live!HandleCount, Live!Settle, LiveReads, LiveView, LiveFields
  <2> QED BY <2>1, <2>2
<1>7. /\ DOMAIN view' = DOMAIN view /\ view'.kind = view.kind
      /\ DOMAIN spent' = DOMAIN spent /\ spent'.inOrder = spent.inOrder /\ spent'.raised = spent.raised
  <2>1. CASE Live!HandleReading(k)
    BY <1>1, <2>1 DEF Live!HandleReading, Live!Read, LiveView, LiveFields, LiveSpent
  <2>2. CASE Live!HandleFailure(k) \/ Live!HandleCount(k)
    BY <1>1, <2>2 DEF Live!HandleFailure, Live!HandleCount, Live!Settle, LiveView, LiveFields
  <2> QED BY <2>1, <2>2
<1>8. LiveServer' /\ LiveData' = LiveData
  BY <1>1, <1>2, <1>7 DEF LiveServer, LiveData, Live!DataOf, Live!Total
<1>9. LiveReads(calls[k]) => view'.data \in Nat /\ calls[k].reply \in Nat
  BY <1>1, <1>6 DEF LiveRequests
\* What is told of it.
<1>10. LiveReads(calls[k]) =>
         Live!Appeared(view, view'.data) =
           IF view.data = Live!Unread \/ view'.data <= view.data THEN 0 ELSE view'.data - view.data
  BY <1>1 DEF Live!Appeared, LiveView
<1>11. LiveView' /\ LiveSpent' /\ LiveShown'
  <2>1. CASE ~LiveReads(calls[k])
    BY <1>1, <1>6, <1>7, <2>1 DEF LiveView, LiveSpent, LiveShown
  <2>2. CASE LiveReads(calls[k])
    <3>1. LiveView'
      BY <1>1, <1>6, <1>7, <1>9, <2>2 DEF LiveView
    <3>2. LiveSpent'
      BY <1>1, <1>6, <1>7, <1>9, <1>10, <2>2 DEF LiveSpent, LiveView, Live!Unread
    <3>3. LiveShown'
      BY <1>1, <1>6, <1>9, <1>10, <2>2 DEF LiveShown, LiveSpent, LiveView, Live!Unread
    <3> QED BY <3>1, <3>2, <3>3
  <2> QED BY <2>1, <2>2
<1>12. LiveTold'
  <2> SUFFICES ASSUME spent'.inOrder PROVE \E held, raised : LivePath(held, raised)'
    BY DEF LiveTold
  <2>1. PICK held, raised : LivePath(held, raised)
    BY <1>1, <1>7 DEF LiveTold
  <2>2. PICK n, first : n = Len(calls) /\ first = IF LiveReads(calls[k]) THEN 1 ELSE 0
    OBVIOUS
  <2> DEFINE h == Shown(held, first, n)
             r == Shown(raised, first, n)
  <2>3. /\ k = 1 /\ n \in Nat \ {0} /\ first \in {0, 1} /\ DOMAIN calls = 1..n
        /\ Len(calls') = n - 1 /\ (n - 1) + 1 = n /\ n \in 1..n /\ DOMAIN calls' = 1..(n - 1)
    <3>1. k = 1 /\ n \in Nat \ {0} /\ first \in {0, 1} /\ DOMAIN calls = 1..n /\ Len(calls') = n - 1 /\ DOMAIN calls' = 1..(n - 1)
      BY <1>2, <1>3, <1>7, <2>2
    <3>2. (n - 1) + 1 = n /\ n \in 1..n
      BY <3>1
    <3> QED BY <3>1, <3>2
  <2>4. /\ Climbs(Levels, Rise, n, held, raised)
        /\ held[n + 1] = LiveData /\ raised[n + 1] = spent.raised
        /\ view.data \in {Live!Unread, held[0]} /\ spent.told <= raised[0]
        /\ \A j \in DOMAIN calls : LiveReads(calls[j]) => calls[j].reply = held[j]
    BY <2>1, <2>2 DEF LivePath
  <2>5. Climbs(Levels, Rise, n - 1, h, r)
    BY <2>3, <2>4, ClimbIsAnswered
  <2>6. /\ h[0] = held[first] /\ \A j \in 1..n : h[j] = held[j + 1]
        /\ r[0] = raised[first] /\ \A j \in 1..n : r[j] = raised[j + 1]
    <3>1. h[0] = held[first] /\ \A j \in 1..n : h[j] = held[j + 1]
      BY <2>3 DEF Shown
    <3>2. r[0] = raised[first] /\ \A j \in 1..n : r[j] = raised[j + 1]
      BY <2>3 DEF Shown
    <3> QED BY <3>1, <3>2
  <2>7. h[n] = LiveData' /\ r[n] = spent'.raised
    BY <1>7, <1>8, <2>3, <2>4, <2>6
  <2>8. ASSUME NEW j \in DOMAIN calls', LiveReads(calls'[j])
        PROVE  calls'[j].reply = h[j]
    <3>1. j \in 1..n /\ Came(k, j) = j + 1
      BY <2>3 DEF Came
    <3>2. j + 1 \in DOMAIN calls /\ calls'[j] = calls[j + 1]
      BY <1>4, <3>1
    <3> QED BY <2>4, <2>6, <2>8, <3>1, <3>2
  <2>9. view'.data \in {Live!Unread, h[0]} /\ spent'.told <= r[0]
    <3>1. CASE ~LiveReads(calls[k])
      BY <1>6, <2>2, <2>4, <2>6, <3>1
    <3>2. CASE LiveReads(calls[k])
      <4>1. first = 1 /\ h[0] = held[1] /\ r[0] = raised[1] /\ view'.data = held[1]
        BY <1>6, <2>2, <2>3, <2>4, <2>6, <3>2
      <4>2. /\ held[0] \in Nat /\ held[1] \in Nat /\ raised[0] \in Nat /\ raised[1] \in Nat
            /\ Rise[<<held[0], held[1]>>] <= raised[1] - raised[0]
        <5>1. 0 \in 0..(n + 1) /\ 1 \in 0..(n + 1)
          BY <2>3
        <5> QED BY <2>4, <5>1 DEF Climbs, Levels
      <4>3. Rise[<<held[0], held[1]>>] = IF held[1] <= held[0] THEN 0 ELSE held[1] - held[0]
        BY <4>2, RiseIs DEF Levels
      <4>4. spent'.told <= raised[1]
        <5>1. spent.told \in Nat /\ spent'.told = spent.told + Live!Appeared(view, view'.data)
          BY <1>1, <1>6, <3>2 DEF LiveSpent
        <5> QED BY <1>10, <2>4, <3>2, <4>1, <4>2, <4>3, <5>1 DEF Live!Unread
      <4> QED BY <4>1, <4>4
    <3> QED BY <3>1, <3>2
  <2> HIDE DEF h, r
  <2>10. LivePath(h, r)'
    BY <2>3, <2>5, <2>7, <2>8, <2>9 DEF LivePath
  <2> QED BY <2>10
<1> QED BY <1>3, <1>5, <1>8, <1>11, <1>12 DEF LiveInv

\* Each step of the page keeps what its property rests on.
LEMMA LiveStep == LiveInv /\ Live!Next => LiveInv'
BY LiveGestures, LiveServed, LiveAnswered DEF Live!Next, LiveOps

\* What is told was raised, for what the page shows comes first on the path.
LEMMA LiveHolds == LiveInv => Live!CriticalsAreAnnouncedOnce
<1> SUFFICES ASSUME LiveInv, spent.inOrder, view.data # Live!Unread
             PROVE  view.data <= spent.first + spent.told /\ spent.told <= spent.raised
  BY DEF Live!CriticalsAreAnnouncedOnce, Live!InOrder
<1>1. view.data <= spent.first + spent.told
  BY DEF LiveInv, LiveShown
<1>2. PICK held, raised : LivePath(held, raised)
  BY DEF LiveInv, LiveTold
<1>3. PICK n : n = Len(calls)
  OBVIOUS
<1>4. n \in Nat /\ 0 \in 0..(n + 1) /\ n + 1 \in 0..(n + 1) /\ 0 < n + 1
  BY <1>3, QueueNumbers DEF LiveInv
<1>5. /\ Climbs(Levels, Rise, n, held, raised)
      /\ spent.told <= raised[0] /\ raised[n + 1] = spent.raised
  BY <1>2, <1>3 DEF LivePath
<1>6. /\ held[0] \in Levels /\ held[n + 1] \in Levels /\ raised[0] \in Nat /\ raised[n + 1] \in Nat
      /\ Rise[<<held[0], held[n + 1]>>] <= raised[n + 1] - raised[0]
  BY <1>4, <1>5 DEF Climbs
<1>7. Rise[<<held[0], held[n + 1]>>] \in Nat
  BY <1>6, RiseCosts DEF Costs
<1>8. spent.told \in Nat
  BY DEF LiveInv, LiveSpent
<1> QED BY <1>1, <1>5, <1>6, <1>7, <1>8

-----------------------------------------------------------------------------
(* What a page shows is what the server holds, once nothing is under way. *)

\* Of some requests of the queue, by their places, the last one.
Last(about) == {k \in about : \A j \in about : j <= k}

\* The last request brings what is good, and what is shown is, when there is none, unless another
\* one is owed.
Fresh(about, owed, good, shown) == owed \/ (Last(about) \subseteq good /\ (about = {} => shown))

Asks(q, op) == {k \in DOMAIN q : q[k].op = op}
Done(q, ops) == \E k \in DOMAIN q : q[k].op \in ops /\ q[k].phase = "done"
InStep == spent.inOrder /\ spent.faults = 0

\* A request that comes after the others is the last.
LEMMA LastAdded ==
  ASSUME NEW about, about \subseteq Nat, NEW n \in about, \A k \in about : k <= n
  PROVE  Last(about) = {n} /\ about # {}
<1>1. ASSUME NEW k \in about, \A j \in about : j <= k PROVE k = n
  <2>1. n <= k /\ k <= n /\ k \in Nat /\ n \in Nat
    BY <1>1
  <2> QED BY <2>1
<1> QED BY <1>1 DEF Last

\* The requests move ahead by one place, the first of them having been answered.
LEMMA LastMoved ==
  ASSUME NEW about, NEW about1,
         about \subseteq Nat \ {0}, about1 \subseteq Nat \ {0},
         \A i \in Nat \ {0} : i \in about1 <=> i + 1 \in about
  PROVE  /\ \A i \in Last(about1) : i + 1 \in Last(about)
         /\ about1 = {} => about = {} \/ 1 \in Last(about)
<1>1. \A j \in about : j = 1 \/ (j - 1 \in about1 /\ j - 1 \in Nat /\ j \in Nat)
  <2> TAKE j \in about
  <2>1. CASE j = 1
    BY <2>1
  <2>2. CASE j # 1
    <3>1. j - 1 \in Nat \ {0} /\ (j - 1) + 1 = j /\ j \in Nat
      BY <2>2
    <3> QED BY <3>1
  <2> QED BY <2>1, <2>2
<1>2. ASSUME NEW k \in Last(about1) PROVE k + 1 \in Last(about)
  <2>1. k \in about1 /\ k + 1 \in about /\ k \in Nat \ {0}
    BY DEF Last
  <2>2. ASSUME NEW j \in about PROVE j <= k + 1
    <3>1. CASE j = 1
      BY <2>1, <3>1
    <3>2. CASE j - 1 \in about1 /\ j - 1 \in Nat /\ j \in Nat
      <4>1. j - 1 <= k
        BY <3>2 DEF Last
      <4> QED BY <2>1, <3>2, <4>1
    <3> QED BY <1>1, <3>1, <3>2
  <2> QED BY <2>1, <2>2 DEF Last
<1>3. ASSUME about1 = {} PROVE about = {} \/ 1 \in Last(about)
  <2>1. \A j \in about : j = 1
    BY <1>1, <1>3
  <2> QED BY <2>1 DEF Last
<1> QED BY <1>2, <1>3

\* A request that is sent is the last of its kind.
LEMMA AsksSent ==
  ASSUME Queue(calls), NEW n, Shaped(n), calls' = calls \o <<n>> \/ calls' = Append(calls, n), NEW op
  PROVE  /\ n.op # op => Asks(calls', op) = Asks(calls, op)
         /\ n.op = op => Last(Asks(calls', op)) = {Len(calls) + 1} /\ Asks(calls', op) # {}
         /\ Len(calls) + 1 \in DOMAIN calls' /\ calls'[Len(calls) + 1] = n
         /\ \A k \in DOMAIN calls : k \in DOMAIN calls' /\ calls'[k] = calls[k] /\ k # Len(calls) + 1
<1>1. /\ Len(calls) \in Nat /\ DOMAIN calls = 1..Len(calls) /\ DOMAIN calls' = 1..(Len(calls) + 1)
      /\ \A j \in DOMAIN calls : j \in DOMAIN calls' /\ calls'[j] = calls[j]
      /\ Len(calls) + 1 \in DOMAIN calls' /\ calls'[Len(calls) + 1] = n
      /\ \A i \in DOMAIN calls' : \/ i \in DOMAIN calls /\ calls'[i] = calls[i]
                                  \/ i = Len(calls) + 1 /\ i \notin DOMAIN calls /\ calls'[i] = n
  BY OneSent
<1>2. n.op # op => Asks(calls', op) = Asks(calls, op)
  BY <1>1 DEF Asks
<1>3. ASSUME n.op = op PROVE Last(Asks(calls', op)) = {Len(calls) + 1} /\ Asks(calls', op) # {}
  <2>1. Asks(calls', op) \subseteq Nat /\ \A k \in Asks(calls', op) : k <= Len(calls) + 1
    BY <1>1 DEF Asks
  <2>2. Len(calls) + 1 \in Asks(calls', op)
    BY <1>1, <1>3 DEF Asks
  <2> QED BY <2>1, <2>2, LastAdded
<1>4. \A k \in DOMAIN calls : k # Len(calls) + 1
  BY <1>1
<1> QED BY <1>1, <1>2, <1>3, <1>4

\* The first request is answered, and asks nothing of the kind.
LEMMA AsksAnswered ==
  ASSUME Queue(calls), 1 \in DOMAIN calls, NEW n, NEW op,
         calls' = Others(1) \o << >> \/ (Shaped(n) /\ n.op # op /\ calls' = Others(1) \o <<n>>)
  PROVE  /\ \A i \in Last(Asks(calls', op)) : i + 1 \in Last(Asks(calls, op)) /\ i + 1 \in DOMAIN calls /\ calls'[i] = calls[i + 1]
         /\ Asks(calls', op) = {} => Asks(calls, op) = {} \/ 1 \in Last(Asks(calls, op))
         /\ \A j \in DOMAIN calls : j # 1 => j - 1 \in DOMAIN calls' /\ calls'[j - 1] = calls[j]
         /\ \A i \in DOMAIN calls' : \/ i + 1 \in DOMAIN calls /\ calls'[i] = calls[i + 1]
                                     \/ calls'[i] = n /\ calls' # Others(1) \o << >>
<1>1. /\ Len(calls) \in Nat \ {0} /\ DOMAIN calls = 1..Len(calls)
      /\ \A j \in DOMAIN calls : j # 1 => Moved(1, j) \in DOMAIN calls' /\ calls'[Moved(1, j)] = calls[j]
      /\ \A i \in DOMAIN calls' : i \in 1..Len(calls)
  BY Answers
<1>2. \A i \in DOMAIN calls' :
        \/ Came(1, i) \in DOMAIN calls /\ calls'[i] = calls[Came(1, i)]
        \/ i = Len(calls) /\ calls'[i] = n /\ calls' # Others(1) \o << >>
  <2>1. CASE calls' = Others(1) \o << >>
    BY <2>1, OneAnswered
  <2>2. CASE Shaped(n) /\ calls' = Others(1) \o <<n>> /\ calls' # Others(1) \o << >>
    BY <2>2, Answers
  <2> QED BY <2>1, <2>2
<1>3. \A j \in DOMAIN calls : j # 1 => j - 1 \in DOMAIN calls' /\ calls'[j - 1] = calls[j]
  BY <1>1 DEF Moved
<1>4. \A i \in DOMAIN calls' : Came(1, i) = i + 1
  BY <1>1 DEF Came
<1>5. \A i \in Nat \ {0} : i \in Asks(calls', op) <=> i + 1 \in Asks(calls, op)
  <2> TAKE i \in Nat \ {0}
  <2>1. ASSUME i \in Asks(calls', op) PROVE i + 1 \in Asks(calls, op)
    <3>1. i \in DOMAIN calls' /\ calls'[i].op = op
      BY <2>1 DEF Asks
    <3>2. i + 1 \in DOMAIN calls /\ calls'[i] = calls[i + 1]
      <4>1. CASE calls' = Others(1) \o << >>
        BY <1>2, <1>4, <3>1, <4>1
      <4>2. CASE n.op # op
        BY <1>2, <1>4, <3>1, <4>2
      <4> QED BY <4>1, <4>2
    <3> QED BY <3>1, <3>2 DEF Asks
  <2>2. ASSUME i + 1 \in Asks(calls, op) PROVE i \in Asks(calls', op)
    <3>1. i + 1 \in DOMAIN calls /\ i + 1 # 1 /\ (i + 1) - 1 = i /\ calls[i + 1].op = op
      BY <2>2 DEF Asks
    <3>2. i \in DOMAIN calls' /\ calls'[i] = calls[i + 1]
      BY <1>3, <3>1
    <3> QED BY <3>1, <3>2 DEF Asks
  <2> QED BY <2>1, <2>2
<1>6. Asks(calls, op) \subseteq Nat \ {0} /\ Asks(calls', op) \subseteq Nat \ {0}
  BY <1>1 DEF Asks
<1>7. /\ \A i \in Last(Asks(calls', op)) : i + 1 \in Last(Asks(calls, op))
      /\ Asks(calls', op) = {} => Asks(calls, op) = {} \/ 1 \in Last(Asks(calls, op))
  <2> HIDE DEF Asks
  <2> QED BY <1>5, <1>6, LastMoved
<1>8. ASSUME NEW i \in Last(Asks(calls', op)) PROVE i + 1 \in DOMAIN calls /\ calls'[i] = calls[i + 1]
  <2>1. i \in Nat \ {0} /\ i + 1 \in Asks(calls, op)
    BY <1>5, <1>6 DEF Last
  <2>2. i + 1 \in DOMAIN calls /\ i + 1 # 1 /\ (i + 1) - 1 = i
    BY <2>1 DEF Asks
  <2> QED BY <1>3, <2>2
<1> QED BY <1>2, <1>3, <1>4, <1>7, <1>8

\* The request at the end of the queue is the last of its kind.
LEMMA AsksEnd ==
  ASSUME NEW l \in Nat \ {0}, DOMAIN calls' = 1..l, NEW op, calls'[l].op = op
  PROVE  Last(Asks(calls', op)) = {l} /\ Asks(calls', op) # {}
<1>1. Asks(calls', op) \subseteq Nat /\ \A i \in Asks(calls', op) : i <= l
  BY DEF Asks
<1>2. l \in Asks(calls', op)
  BY DEF Asks
<1> QED BY <1>1, <1>2, LastAdded

\* A request is answered, and asks another, which is the last of its kind.
LEMMA AsksAgain ==
  ASSUME Queue(calls), NEW k \in DOMAIN calls, NEW n, Shaped(n), calls' = Others(k) \o <<n>>, NEW op, n.op = op
  PROVE  Last(Asks(calls', op)) = {Len(calls)} /\ Asks(calls', op) # {} /\ Len(calls) \in DOMAIN calls' /\ calls'[Len(calls)] = n
<1>1. /\ Len(calls) \in Nat \ {0} /\ DOMAIN calls' = 1..Len(calls) /\ Len(calls) \in DOMAIN calls'
      /\ calls'[Len(calls)] = n
  BY OneAsked
<1>2. calls'[Len(calls)].op = op
  BY <1>1
<1> QED BY <1>1, <1>2, AsksEnd

\* What is last is asked.
LEMMA LastAsks ==
  ASSUME NEW q, NEW op, NEW k \in Last(Asks(q, op))
  PROVE  k \in DOMAIN q /\ q[k].op = op
BY DEF Last, Asks

-----------------------------------------------------------------------------
(* The lists of the accounts, the instances and the webhooks. *)

\* A list is read again after each of some acts: the last reading brings the truth, or the rows are
\* it when none is asked, unless an act that was served still has its answer to come.
ListTrue(q, acts, truth, rows) ==
  Fresh(Asks(q, "load"), Done(q, acts), {k \in DOMAIN q : q[k].phase = "done" => q[k].reply = truth}, rows = truth)
ListRead(q) == \A k \in Asks(q, "load") : q[k].phase \in {"sent", "done"}

\* A request is sent.
LEMMA ListSent ==
  ASSUME Queue(calls), NEW n, Shaped(n), n.phase = "sent", calls' = calls \o <<n>> \/ calls' = Append(calls, n),
         NEW acts, NEW truth, NEW rows, ListRead(calls), ListTrue(calls, acts, truth, rows) \/ n.op = "load"
  PROVE  ListRead(calls') /\ ListTrue(calls', acts, truth, rows)
<1>1. /\ n.op # "load" => Asks(calls', "load") = Asks(calls, "load")
      /\ n.op = "load" => Last(Asks(calls', "load")) = {Len(calls) + 1} /\ Asks(calls', "load") # {}
      /\ Len(calls) + 1 \in DOMAIN calls' /\ calls'[Len(calls) + 1] = n
      /\ \A k \in DOMAIN calls : k \in DOMAIN calls' /\ calls'[k] = calls[k] /\ k # Len(calls) + 1
  BY AsksSent
<1>2. \A i \in DOMAIN calls' : (i \in DOMAIN calls /\ calls'[i] = calls[i]) \/ calls'[i] = n
  BY OneSent
<1>3. ListRead(calls')
  BY <1>2 DEF ListRead, Asks
<1>4. ASSUME n.op = "load" PROVE ListTrue(calls', acts, truth, rows)
  <2>1. Last(Asks(calls', "load")) \subseteq {k \in DOMAIN calls' : calls'[k].phase = "done" => calls'[k].reply = truth}
    BY <1>1, <1>4
  <2> QED BY <1>1, <1>4, <2>1 DEF ListTrue, Fresh
<1>5. ASSUME n.op # "load" PROVE ListTrue(calls', acts, truth, rows)
  <2>1. Asks(calls', "load") = Asks(calls, "load") /\ ListTrue(calls, acts, truth, rows)
    BY <1>1, <1>5
  <2>2. Done(calls, acts) => Done(calls', acts)
    BY <1>1 DEF Done
  <2>3. \A k \in Last(Asks(calls, "load")) : k \in DOMAIN calls' /\ calls'[k] = calls[k]
    BY <1>1, LastAsks
  <2> QED BY <2>1, <2>2, <2>3 DEF ListTrue, Fresh
<1> QED BY <1>3, <1>4, <1>5

\* A request is served, or refused: a reading brings the truth of that time, and what changes it is
\* one of the acts.
LEMMA ListServed ==
  ASSUME Queue(calls), NEW k \in DOMAIN calls, NEW phase, NEW reply, Becomes(k, phase, reply),
         calls[k].phase = "sent",
         NEW acts, NEW truth, NEW truth1, NEW rows, ListRead(calls), ListTrue(calls, acts, truth, rows),
         calls[k].op = "load" => phase = "done" /\ reply = truth1,
         truth1 = truth \/ (calls[k].op \in acts /\ phase = "done")
  PROVE  ListRead(calls') /\ ListTrue(calls', acts, truth1, rows)
<1>1. /\ DOMAIN calls' = DOMAIN calls
      /\ \A j \in DOMAIN calls : calls'[j].op = calls[j].op
      /\ \A j \in DOMAIN calls : j # k => calls'[j] = calls[j]
      /\ calls'[k].phase = phase /\ calls'[k].reply = reply
  BY OneServed
<1>2. Asks(calls', "load") = Asks(calls, "load")
  BY <1>1 DEF Asks
<1>3. ListRead(calls')
  BY <1>1 DEF ListRead, Asks
<1>4. ASSUME calls[k].op \in acts, phase = "done" PROVE ListTrue(calls', acts, truth1, rows)
  <2>1. Done(calls', acts)
    BY <1>1, <1>4 DEF Done
  <2> QED BY <2>1 DEF ListTrue, Fresh
<1>5. ASSUME truth1 = truth PROVE ListTrue(calls', acts, truth1, rows)
  <2>1. Done(calls, acts) => Done(calls', acts)
    <3>1. ASSUME NEW j \in DOMAIN calls, calls[j].op \in acts, calls[j].phase = "done"
          PROVE  calls'[j].op \in acts /\ calls'[j].phase = "done"
      <4>1. j # k
        BY <3>1
      <4> QED BY <1>1, <3>1, <4>1
    <3> QED BY <1>1, <3>1 DEF Done
  <2>2. ASSUME NEW j \in Last(Asks(calls, "load")), calls[j].phase = "done" => calls[j].reply = truth,
               calls'[j].phase = "done"
        PROVE  calls'[j].reply = truth1
    <3>1. j \in DOMAIN calls /\ calls[j].op = "load"
      BY LastAsks
    <3>2. CASE j = k
      BY <1>1, <1>5, <3>1, <3>2
    <3>3. CASE j # k
      BY <1>1, <1>5, <2>2, <3>1, <3>3
    <3> QED BY <3>2, <3>3
  <2>3. \A j \in Last(Asks(calls, "load")) : j \in DOMAIN calls'
    BY <1>1, LastAsks
  <2> QED BY <1>2, <1>5, <2>1, <2>2, <2>3 DEF ListTrue, Fresh
<1> QED BY <1>3, <1>4, <1>5

\* The first request is answered: the rows are what a reading brings, and an act is followed by
\* another reading.
LEMMA ListAnswered ==
  ASSUME Queue(calls), 1 \in DOMAIN calls, NEW n,
         calls' = Others(1) \o << >> \/ (Shaped(n) /\ n.op = "load" /\ n.phase = "sent" /\ calls' = Others(1) \o <<n>>),
         NEW acts, "load" \notin acts, NEW truth, NEW rows, NEW rows1, ListRead(calls), ListTrue(calls, acts, truth, rows),
         calls[1].op \in acts /\ calls[1].phase = "done" => calls' # Others(1) \o << >>,
         calls[1].op # "load" => rows1 = rows,
         calls[1].op = "load" /\ calls[1].phase = "done" => rows1 = calls[1].reply,
         calls[1].phase \in {"done", "refused"}
  PROVE  ListRead(calls') /\ ListTrue(calls', acts, truth, rows1)
<1>1. CASE Shaped(n) /\ n.op = "load" /\ n.phase = "sent" /\ calls' = Others(1) \o <<n>>
  <2>1. /\ Last(Asks(calls', "load")) = {Len(calls)} /\ Asks(calls', "load") # {}
        /\ Len(calls) \in DOMAIN calls' /\ calls'[Len(calls)] = n
    BY <1>1, AsksAgain
  <2>2. \A i \in DOMAIN calls' : (\E j \in DOMAIN calls : calls'[i] = calls[j]) \/ calls'[i] = n
    BY <1>1, Answers
  <2>3. ListRead(calls')
    BY <1>1, <2>2 DEF ListRead, Asks
  <2>4. ListTrue(calls', acts, truth, rows1)
    BY <1>1, <2>1 DEF ListTrue, Fresh
  <2> QED BY <2>3, <2>4
<1>2. CASE calls' = Others(1) \o << >>
  <2>1. /\ \A i \in Last(Asks(calls', "load")) :
             i + 1 \in Last(Asks(calls, "load")) /\ i + 1 \in DOMAIN calls /\ calls'[i] = calls[i + 1]
        /\ Asks(calls', "load") = {} => Asks(calls, "load") = {} \/ 1 \in Last(Asks(calls, "load"))
        /\ \A j \in DOMAIN calls : j # 1 => j - 1 \in DOMAIN calls' /\ calls'[j - 1] = calls[j]
        /\ \A i \in DOMAIN calls' : i + 1 \in DOMAIN calls /\ calls'[i] = calls[i + 1]
    BY <1>2, AsksAnswered
  <2>2. ListRead(calls')
    BY <2>1 DEF ListRead, Asks
  <2>3. Done(calls, acts) => Done(calls', acts)
    BY <1>2, <2>1 DEF Done
  <2>4. ASSUME Asks(calls', "load") = {}, Asks(calls, "load") = {} => rows = truth,
               \A k \in Last(Asks(calls, "load")) : calls[k].phase = "done" => calls[k].reply = truth
        PROVE  rows1 = truth
    <3>1. CASE Asks(calls, "load") = {}
      BY <2>4, <3>1 DEF Asks
    <3>2. CASE 1 \in Last(Asks(calls, "load"))
      <4>1. calls[1].op = "load" /\ calls[1].phase = "done"
        <5>1. 1 \in Asks(calls, "load") /\ calls[1].op = "load"
          BY <3>2 DEF Last, Asks
        <5> QED BY <5>1 DEF ListRead
      <4> QED BY <2>4, <3>2, <4>1
    <3> QED BY <2>1, <2>4, <3>1, <3>2
  <2>5. ListTrue(calls', acts, truth, rows1)
    <3>1. CASE Done(calls, acts)
      BY <2>3, <3>1 DEF ListTrue, Fresh
    <3>2. CASE ~Done(calls, acts)
      <4>1. /\ \A k \in Last(Asks(calls, "load")) : calls[k].phase = "done" => calls[k].reply = truth
            /\ Asks(calls, "load") = {} => rows = truth
        BY <3>2 DEF ListTrue, Fresh
      <4>2. Asks(calls', "load") = {} => rows1 = truth
        BY <2>4, <4>1
      <4>3. \A i \in Last(Asks(calls', "load")) : i \in DOMAIN calls' /\ (calls'[i].phase = "done" => calls'[i].reply = truth)
        BY <2>1, <4>1 DEF Last, Asks
      <4> QED BY <4>2, <4>3 DEF ListTrue, Fresh
    <3> QED BY <3>1, <3>2
  <2> QED BY <2>2, <2>5
<1> QED BY <1>1, <1>2

\* A gesture, an event or an elapsed time sends one request at most.
LEMMA ListStays ==
  ASSUME Queue(calls), InStep' => InStep, NEW acts, NEW truth, NEW rows,
         InStep => ListRead(calls) /\ ListTrue(calls, acts, truth, rows),
         \/ calls' = calls
         \/ \E n : Shaped(n) /\ n.phase = "sent" /\ (calls' = calls \o <<n>> \/ calls' = Append(calls, n))
  PROVE  InStep' => ListRead(calls') /\ ListTrue(calls', acts, truth, rows)
<1>1. CASE calls' = calls
  BY <1>1 DEF ListRead, ListTrue, Fresh, Asks, Done
<1>2. CASE \E n : Shaped(n) /\ n.phase = "sent" /\ (calls' = calls \o <<n>> \/ calls' = Append(calls, n))
  BY <1>2, ListSent
<1> QED BY <1>1, <1>2

\* What a step that is no failure counts keeps the requests in step.
LEMMA StaysInStep == Spends => (InStep' <=> InStep)
BY DEF Spends, InStep

\* The page that waits for its first reading shows nothing yet that is wrong.
LEMMA OneRead ==
  ASSUME DOMAIN calls = {1}, calls[1].op = "load", calls[1].phase = "sent", NEW acts, NEW truth, NEW rows
  PROVE  ListRead(calls) /\ ListTrue(calls, acts, truth, rows)
<1>1. Asks(calls, "load") = {1}
  BY DEF Asks
<1>2. Last(Asks(calls, "load")) = {1}
  BY <1>1 DEF Last
<1> QED BY <1>1, <1>2 DEF ListRead, ListTrue, Fresh

\* Once nothing is under way, the rows are the truth.
LEMMA ListShown ==
  ASSUME calls = << >>, NEW acts, NEW truth, NEW rows, ListTrue(calls, acts, truth, rows)
  PROVE  rows = truth
BY DEF ListTrue, Fresh, Asks, Done

\* An answer that asks something leaves a longer queue than one that asks nothing.
LEMMA AskedIsLonger ==
  ASSUME Queue(calls), NEW k \in DOMAIN calls, NEW n, Shaped(n)
  PROVE  Others(k) \o <<n>> # Others(k) \o << >>
<1>1. Queue(Others(k))
  BY Taken DEF Others
<1>2. Len(Others(k) \o <<n>>) = Len(Others(k)) + 1 /\ Len(Others(k) \o << >>) = Len(Others(k)) + 0 /\ Len(Others(k)) \in Nat
  BY <1>1, Asked, Sent
<1>3. ASSUME NEW a, NEW b, Len(a) = Len(b) + 1, Len(b) \in Nat PROVE a # b
  BY <1>3
<1>4. Len(Others(k) \o <<n>>) = Len(Others(k) \o << >>) + 1 /\ Len(Others(k) \o << >>) \in Nat
  BY <1>2
<1> QED BY <1>3, <1>4

\* A page opens with what it remembers.
LEMMA OpensWith ==
  ASSUME NEW ordered, NEW h,
         spent = LET bounds == [moves |-> 0, faults |-> 0, inOrder |-> ordered]
                 IN  [x \in DOMAIN bounds \union DOMAIN h |-> IF x \in DOMAIN bounds THEN bounds[x] ELSE h[x]]
  PROVE  /\ spent.inOrder = ordered
         /\ \A x \in DOMAIN h : x \notin {"moves", "faults", "inOrder"} => x \in DOMAIN spent /\ spent[x] = h[x]
<1> DEFINE f == [moves |-> 0, faults |-> 0, inOrder |-> ordered]
<1>1. spent = [x \in DOMAIN f \union DOMAIN h |-> IF x \in DOMAIN f THEN f[x] ELSE h[x]]
  OBVIOUS
<1>2. DOMAIN f = {"moves", "faults", "inOrder"} /\ f["inOrder"] = ordered
  OBVIOUS
<1> HIDE DEF f
<1>3. spent["inOrder"] = ordered
  BY <1>1, <1>2
<1>4. \A x \in DOMAIN h : x \notin {"moves", "faults", "inOrder"} => x \in DOMAIN spent /\ spent[x] = h[x]
  BY <1>1, <1>2
<1> QED BY <1>3, <1>4

\* No reading is refused: when one is sent,
LEMMA ReadsSent ==
  ASSUME Queue(calls), NEW n, Shaped(n), n.phase = "sent", calls' = calls \o <<n>> \/ calls' = Append(calls, n), ListRead(calls)
  PROVE  ListRead(calls')
<1>1. \A i \in DOMAIN calls' : (i \in DOMAIN calls /\ calls'[i] = calls[i]) \/ calls'[i] = n
  BY OneSent
<1> QED BY <1>1 DEF ListRead, Asks

\* when one is served,
LEMMA ReadsServed ==
  ASSUME Queue(calls), NEW k \in DOMAIN calls, NEW phase, NEW reply, Becomes(k, phase, reply), ListRead(calls),
         calls[k].op = "load" => phase = "done"
  PROVE  ListRead(calls')
<1>1. /\ DOMAIN calls' = DOMAIN calls
      /\ \A j \in DOMAIN calls : calls'[j].op = calls[j].op
      /\ \A j \in DOMAIN calls : j # k => calls'[j] = calls[j]
      /\ calls'[k].phase = phase
  BY OneServed
<1> QED BY <1>1 DEF ListRead, Asks

\* and when a request is answered.
LEMMA ReadsAnswered ==
  ASSUME Queue(calls), NEW k \in DOMAIN calls, NEW n, Shaped(n), n.phase = "sent",
         calls' = Others(k) \o << >> \/ calls' = Others(k) \o <<n>>, ListRead(calls)
  PROVE  ListRead(calls')
<1>1. \A i \in DOMAIN calls' : (\E j \in DOMAIN calls : calls'[i] = calls[j]) \/ calls'[i] = n
  BY Answers
<1> QED BY <1>1 DEF ListRead, Asks

-----------------------------------------------------------------------------
(* The accounts: the list is that of the server. *)

UsersActs == {"create", "reset", "delete", "role"}
UsersTrue == InStep => ListRead(calls) /\ ListTrue(calls, UsersActs, server.users, view.users)
UsersQuiet == Counted /\ UsersTrue

\* The page opens on its first reading.
LEMMA UsersQuietInit == Users!Init => UsersQuiet
<1> SUFFICES ASSUME Users!Init PROVE UsersQuiet
  OBVIOUS
<1>1. Counted
  <2>1. PICK ordered \in OrdersOn("users") :
          spent = LET bounds == [moves |-> 0, faults |-> 0, inOrder |-> ordered]
                  IN  [x \in DOMAIN bounds \union DOMAIN Users!NoHistory |-> IF x \in DOMAIN bounds THEN bounds[x] ELSE Users!NoHistory[x]]
    BY DEF Users!Init, Users!Unspent
  <2> QED BY <2>1, Opens
<1>2. calls = <<Users!Request("load", Users!None)>> /\ DOMAIN calls = {1} /\ calls[1].op = "load" /\ calls[1].phase = "sent"
  BY DEF Users!Init, Users!Request
<1>3. ListRead(calls) /\ ListTrue(calls, UsersActs, server.users, view.users)
  BY <1>2, OneRead
<1> QED BY <1>1, <1>3 DEF UsersQuiet, UsersTrue

\* A gesture changes neither the list nor what it is read from.
LEMMA UsersQuietGestures ==
  ASSUME UsersInv, UsersQuiet,
         \/ \E name \in Users!Names, role \in Users!Roles : Users!ChangeRole(name, role)
         \/ \E name \in Users!Names, kind \in {"create", "reset", "delete"} : Users!Open(kind, name)
         \/ Users!Close \/ Users!Submit
  PROVE  UsersQuiet'
<1>1. Queue(calls) /\ UsersFields \subseteq DOMAIN view /\ Counted /\ UsersTrue
  BY DEF UsersInv, UsersQuiet
<1>2. Spends /\ server' = server
  BY <1>1, Spent DEF Users!ChangeRole, Users!Open, Users!Close, Users!Submit, Users!Gesture, Users!Spend
<1>3. view'.users = view.users
  BY <1>1 DEF Users!ChangeRole, Users!Open, Users!Close, Users!Submit, Users!Gesture, UsersFields
<1>4. \/ calls' = calls
      \/ \E n : Shaped(n) /\ n.phase = "sent" /\ (calls' = calls \o <<n>> \/ calls' = Append(calls, n))
  <2>1. \A op, arg : LET n == Users!Request(op, arg) IN Shaped(n) /\ n.phase = "sent"
    BY DEF Users!Request, Shaped
  <2>2. \/ calls' = calls \o << >>
        \/ \E op, arg : calls' = calls \o <<Users!Request(op, arg)>>
    BY DEF Users!ChangeRole, Users!Open, Users!Close, Users!Submit, Users!Gesture
  <2> QED BY <1>1, <2>1, <2>2, NothingSent
<1>5. InStep' => InStep
  BY <1>2, StaysInStep
<1>6. InStep' => ListRead(calls') /\ ListTrue(calls', UsersActs, server.users, view.users)
  BY <1>1, <1>4, <1>5, ListStays DEF UsersTrue
<1> QED BY <1>2, <1>3, <1>6 DEF UsersQuiet, UsersTrue, Spends

\* What a request changes is read again; a reading brings what there is.
LEMMA UsersQuietServed ==
  ASSUME UsersInv, UsersQuiet, NEW k \in DOMAIN calls, Users!ServeOne(k) \/ Users!Fail(k)
  PROVE  UsersQuiet'
<1>1. Queue(calls) /\ UsersAsked /\ Counted /\ UsersTrue
  BY DEF UsersInv, UsersQuiet
<1>2. view' = view
  BY DEF Users!ServeOne, Users!Refuse, Users!Serve, Users!Fail
<1>3. CASE Users!Fail(k)
  <2>1. Counted' /\ spent'.faults = spent.faults + 1
    BY <1>1, <1>3 DEF Users!Fail, Counted
  <2> QED BY <1>1, <2>1 DEF UsersQuiet, UsersTrue, InStep, Counted
<1>4. CASE Users!ServeOne(k)
  <2>1. UNCHANGED spent /\ calls[k].phase = "sent"
    BY <1>4 DEF Users!ServeOne, Users!Refuse, Users!Serve
  <2>2. Spends /\ (InStep' => InStep)
    BY <1>1, <2>1, Spent, StaysInStep
  <2>3. PICK phase, reply :
          /\ Becomes(k, phase, reply)
          /\ calls[k].op = "load" => phase = "done" /\ reply = server'.users
          /\ server'.users = server.users \/ (calls[k].op \in UsersActs /\ phase = "done")
    <3>1. CASE Users!Refused(calls[k])
      <4>1. Becomes(k, "refused", calls[k].reply) /\ server' = server /\ calls[k].op # "load"
        BY <1>4, <3>1 DEF Users!ServeOne, Users!Refuse, Becomes, Users!Refused
      <4> QED BY <4>1
    <3>2. CASE ~Users!Refused(calls[k])
      <4>1. Becomes(k, "done", IF calls[k].op = "load" THEN server.users ELSE Users!None)
        BY <1>4, <3>2 DEF Users!ServeOne, Users!Serve, Becomes
      <4>2. calls[k].op = "load" => server' = server
        BY <1>4, <3>2 DEF Users!ServeOne, Users!Serve, Users!Effect
      <4>3. calls[k].op = "load" \/ calls[k].op \in UsersActs
        BY <1>1 DEF UsersAsked, UsersOps, UsersKinds, UsersActs
      <4> QED BY <4>1, <4>2, <4>3
    <3> QED BY <3>1, <3>2
  <2>4. InStep' => ListRead(calls') /\ ListTrue(calls', UsersActs, server'.users, view.users)
    BY <1>1, <2>1, <2>2, <2>3, ListServed DEF UsersTrue
  <2> QED BY <1>2, <2>2, <2>4 DEF UsersQuiet, UsersTrue, Spends
<1> QED BY <1>3, <1>4

\* What is answered is shown, or read again.
LEMMA UsersQuietAnswered ==
  ASSUME UsersInv, UsersQuiet, NEW k \in DOMAIN calls, Users!HandleAnswer(k) \/ Users!HandleRefusal(k)
  PROVE  UsersQuiet'
<1> DEFINE c == calls[k]
<1>1. Queue(calls) /\ UsersAsked /\ UsersFields \subseteq DOMAIN view /\ Counted /\ UsersTrue
  BY DEF UsersInv, UsersQuiet
<1>2. UNCHANGED <<server, spent>> /\ (InStep => k = 1)
  BY DEF Users!HandleAnswer, Users!HandleRefusal, Users!Settle, InStep, Users!InOrder
<1>3. Spends /\ (InStep' <=> InStep)
  BY <1>1, <1>2, Spent, StaysInStep
<1>4. c.op \in UsersActs \union {"load"}
  BY <1>1 DEF UsersAsked, UsersOps, UsersKinds, UsersActs
<1>5. ASSUME InStep PROVE ListRead(calls') /\ ListTrue(calls', UsersActs, server.users, view'.users)
  <2>1. k = 1 /\ ListRead(calls) /\ ListTrue(calls, UsersActs, server.users, view.users)
    BY <1>1, <1>2, <1>5 DEF UsersTrue
  <2>2. c.phase \in {"done", "refused"}
    BY DEF Users!HandleAnswer, Users!HandleRefusal, Users!Settle
  <2>3. Users!Others(1) = Others(1)
    BY DEF Users!Others, Others
  <2>4. PICK n : /\ Shaped(n) /\ n.op = "load" /\ n.phase = "sent"
                 /\ calls' = Others(1) \o << >> \/ calls' = Others(1) \o <<n>>
                 /\ c.op \in UsersActs /\ c.phase = "done" => calls' # Others(1) \o << >>
    <3> DEFINE n == Users!Request("load", Users!None)
    <3>1. Shaped(n) /\ n.op = "load" /\ n.phase = "sent"
      BY DEF Users!Request, Shaped
    <3>2. calls' = Others(1) \o << >> \/ calls' = Others(1) \o <<n>>
      BY <2>1, <2>3 DEF Users!HandleAnswer, Users!HandleRefusal, Users!Settle, Users!Then
    <3>3. c.op \in UsersActs /\ c.phase = "done" => calls' = Others(1) \o <<n>>
      BY <2>1, <2>3 DEF Users!HandleAnswer, Users!HandleRefusal, Users!Settle, Users!Then, UsersActs
    <3>4. Others(1) \o <<n>> # Others(1) \o << >>
      BY <1>1, <2>1, <3>1, AskedIsLonger
    <3> HIDE DEF n
    <3> QED BY <3>1, <3>2, <3>3, <3>4
  <2>5. c.op # "load" => view'.users = view.users
    BY <1>1, <1>4 DEF Users!HandleAnswer, Users!HandleRefusal, Users!Settle, Users!Answered, Users!Refusal, Users!Without, UsersFields, UsersActs
  <2>6. c.op = "load" /\ c.phase = "done" => view'.users = c.reply
    BY <1>1 DEF Users!HandleAnswer, Users!HandleRefusal, Users!Settle, Users!Answered, UsersFields
  <2>7. "load" \notin UsersActs /\ 1 \in DOMAIN calls
    BY <2>1 DEF UsersActs
  <2>8. /\ calls[1].op \in UsersActs /\ calls[1].phase = "done" => calls' # Others(1) \o << >>
        /\ calls[1].op # "load" => view'.users = view.users
        /\ calls[1].op = "load" /\ calls[1].phase = "done" => view'.users = calls[1].reply
        /\ calls[1].phase \in {"done", "refused"}
    BY <2>1, <2>2, <2>4, <2>5, <2>6
  <2> HIDE DEF c
  <2> QED BY <1>1, <2>1, <2>4, <2>7, <2>8, ListAnswered
<1> QED BY <1>2, <1>3, <1>5 DEF UsersQuiet, UsersTrue, Spends

\* The list of the accounts stays what was read last.
LEMMA UsersQuietStep == UsersInv /\ UsersQuiet /\ Users!Next => UsersQuiet'
BY UsersQuietGestures, UsersQuietServed, UsersQuietAnswered DEF Users!Next

\* Once nothing is under way, it is that of the server.
LEMMA UsersQuietHolds == UsersQuiet => Users!ListIsTrue
BY ListShown DEF UsersQuiet, UsersTrue, Users!ListIsTrue, Users!InOrder, InStep

-----------------------------------------------------------------------------
(* The webhooks: the list is that of the server, headers stay, and a format is decided. *)

WebhooksFields == {"rows", "loading", "error", "notice", "form", "opened", "confirm", "deleting"}
WebhooksFormFields ==
  {"nth", "id", "url", "format", "rest", "replace", "touched", "chosen", "busy", "error"}
WebhooksActs == {"test", "fix", "save", "remove"}
WebhooksRows == [id \in DOMAIN server.rows |-> Webhooks!Row(server.rows[id])]
Formatted(rows) == \A id \in DOMAIN rows : rows[id].format # Webhooks!None

\* What is asked has a format, and tells the headers of the first webhook once they were replaced only.
WebhooksRequest(c) ==
  /\ c.op \in WebhooksActs \union {"load"}
  /\ c.op = "load" /\ c.phase = "done" => Formatted(c.reply)
  /\ c.op \in {"save", "fix"} =>
       /\ c.arg.format # Webhooks!None
       /\ c.arg.id \in Hooks \ spent.replaced => c.arg.headers = Webhooks!None
  /\ c.op = "fix" => c.arg.id # Webhooks!None
WebhooksRequests == \A k \in DOMAIN calls : WebhooksRequest(calls[k])

WebhooksServer ==
  /\ DOMAIN server = {"rows"} /\ Formatted(server.rows)
  /\ \A id \in DOMAIN server.rows : DOMAIN server.rows[id] = {"url", "format", "rest", "headers"}
  /\ Webhooks!HeadersSurvive
WebhooksSpent == Counted /\ "replaced" \in DOMAIN spent

\* The format of a form is the one that was chosen, or follows its address.
WebhooksFormat(form) ==
  /\ form.format # Webhooks!None /\ (form.touched <=> form.chosen # Webhooks!None)
  /\ form.chosen # Webhooks!None => form.format = form.chosen
  /\ form.chosen = Webhooks!None => Webhooks!Guess(form.url) \in {Webhooks!None, form.format}
WebhooksView ==
  /\ WebhooksFields \subseteq DOMAIN view /\ Formatted(view.rows)
  /\ view.form # Webhooks!NoForm => WebhooksFormFields \subseteq DOMAIN view.form /\ WebhooksFormat(view.form)

WebhooksTrue == InStep => ListRead(calls) /\ ListTrue(calls, WebhooksActs, WebhooksRows, view.rows)

WebhooksKept == WebhooksRequests /\ WebhooksServer /\ WebhooksSpent /\ WebhooksView
WebhooksInv == Queue(calls) /\ WebhooksKept /\ WebhooksTrue

\* A request of the page has the four fields of a request.
LEMMA WebhooksAsk ==
  \A op, arg : LET n == Webhooks!Request(op, arg) IN Shaped(n) /\ n.phase = "sent" /\ n.op = op /\ n.arg = arg
BY DEF Webhooks!Request, Shaped

\* The page opens on its first reading.
LEMMA WebhooksInit == Webhooks!Init => WebhooksInv
<1> SUFFICES ASSUME Webhooks!Init PROVE WebhooksInv
  OBVIOUS
<1>1. WebhooksSpent
  <2> DEFINE h == [replaced |-> {}]
  <2>1. PICK ordered \in OrdersOn("webhooks") :
          spent = LET bounds == [moves |-> 0, faults |-> 0, inOrder |-> ordered]
                  IN  [x \in DOMAIN bounds \union DOMAIN h |-> IF x \in DOMAIN bounds THEN bounds[x] ELSE h[x]]
    BY DEF Webhooks!Init, Webhooks!Unspent
  <2>2. DOMAIN h = {"replaced"}
    OBVIOUS
  <2> HIDE DEF h
  <2>3. Counted
    BY <2>1, Opens
  <2>4. \A x \in DOMAIN h : x \notin {"moves", "faults", "inOrder"} => x \in DOMAIN spent /\ spent[x] = h[x]
    BY <2>1, OpensWith
  <2> QED BY <2>2, <2>3, <2>4 DEF WebhooksSpent
<1>2. Queue(calls) /\ DOMAIN calls = {1} /\ calls[1].op = "load" /\ calls[1].phase = "sent"
  <2>1. PICK c : Shaped(c) /\ c.op = "load" /\ c.phase = "sent" /\ calls = <<c>>
    BY WebhooksAsk DEF Webhooks!Init
  <2> QED BY <2>1, Asked
<1>3. ListRead(calls) /\ ListTrue(calls, WebhooksActs, WebhooksRows, view.rows)
  BY <1>2, OneRead
<1>4. PICK url : server = [rows |-> [id \in Hooks |-> [url |-> url[id], format |-> "generic", rest |-> "r1", headers |-> "h1"]]]
  BY DEF Webhooks!Init
<1>5. WebhooksServer
  BY <1>4 DEF WebhooksServer, Formatted, Webhooks!None, Webhooks!HeadersSurvive
<1>6. WebhooksFields \subseteq DOMAIN view /\ view.rows = << >> /\ view.form = Webhooks!NoForm
  BY DEF Webhooks!Init, WebhooksFields
<1>7. WebhooksView
  BY <1>6 DEF WebhooksView, Formatted
<1>8. WebhooksRequests
  BY <1>2 DEF WebhooksRequests, WebhooksRequest
<1> QED BY <1>1, <1>2, <1>3, <1>5, <1>7, <1>8 DEF WebhooksInv, WebhooksKept, WebhooksTrue

\* What the operator does leaves the server; what is asked has a format, and the headers of before.
LEMMA WebhooksAside ==
  ASSUME WebhooksInv, server' = server, Spends, "replaced" \in DOMAIN spent', spent.replaced \subseteq spent'.replaced,
         view'.rows = view.rows, DOMAIN view' = DOMAIN view,
         view'.form # Webhooks!NoForm => WebhooksFormFields \subseteq DOMAIN view'.form /\ WebhooksFormat(view'.form),
         \/ calls' = calls
         \/ \E n : /\ Shaped(n) /\ n.phase = "sent" /\ (calls' = calls \o <<n>> \/ calls' = Append(calls, n))
                   /\ n.op \in WebhooksActs
                   /\ n.op \in {"save", "fix"} =>
                        /\ n.arg.format # Webhooks!None
                        /\ n.arg.id \in Hooks \ spent'.replaced => n.arg.headers = Webhooks!None
                   /\ n.op = "fix" => n.arg.id # Webhooks!None
  PROVE  WebhooksInv'
<1>1. Queue(calls) /\ WebhooksKept /\ WebhooksTrue
  BY DEF WebhooksInv
<1>2. InStep' => InStep
  BY StaysInStep
<1>3. InStep' => ListRead(calls') /\ ListTrue(calls', WebhooksActs, WebhooksRows, view.rows)
  BY <1>1, <1>2, ListStays DEF WebhooksTrue
<1>4. WebhooksRows' = WebhooksRows
  BY DEF WebhooksRows
<1>5. WebhooksTrue'
  BY <1>3, <1>4 DEF WebhooksTrue
<1>6. WebhooksServer' /\ WebhooksSpent' /\ WebhooksView'
  BY <1>1 DEF WebhooksKept, WebhooksServer, WebhooksSpent, WebhooksView, Webhooks!HeadersSurvive, Spends
<1>7. Queue(calls') /\ WebhooksRequests'
  <2>1. CASE calls' = calls
    BY <1>1, <2>1 DEF WebhooksKept, WebhooksRequests, WebhooksRequest
  <2>2. CASE \E n : /\ Shaped(n) /\ n.phase = "sent" /\ (calls' = calls \o <<n>> \/ calls' = Append(calls, n))
                    /\ n.op \in WebhooksActs
                    /\ n.op \in {"save", "fix"} =>
                         /\ n.arg.format # Webhooks!None
                         /\ n.arg.id \in Hooks \ spent'.replaced => n.arg.headers = Webhooks!None
                    /\ n.op = "fix" => n.arg.id # Webhooks!None
    <3>1. PICK n : /\ Shaped(n) /\ n.phase = "sent" /\ (calls' = calls \o <<n>> \/ calls' = Append(calls, n))
                   /\ n.op \in WebhooksActs
                   /\ n.op \in {"save", "fix"} =>
                        /\ n.arg.format # Webhooks!None
                        /\ n.arg.id \in Hooks \ spent'.replaced => n.arg.headers = Webhooks!None
                   /\ n.op = "fix" => n.arg.id # Webhooks!None
      BY <2>2
    <3>2. Queue(calls') /\ \A i \in DOMAIN calls' : (i \in DOMAIN calls /\ calls'[i] = calls[i]) \/ calls'[i] = n
      BY <1>1, <3>1, OneSent
    <3>3. WebhooksRequest(n)'
      BY <3>1 DEF WebhooksRequest, WebhooksActs
    <3>4. \A i \in DOMAIN calls : WebhooksRequest(calls[i]) => WebhooksRequest(calls[i])'
      <4> SUFFICES ASSUME NEW i \in DOMAIN calls, i \in DOMAIN calls', calls'[i] = calls[i], WebhooksRequest(calls[i])
                   PROVE  WebhooksRequest(calls[i])'
        BY <1>1, <3>1, OneSent
      <4> QED BY DEF WebhooksRequest
    <3> QED BY <1>1, <3>1, <3>2, <3>3, <3>4 DEF WebhooksKept, WebhooksRequests, WebhooksRequest
  <2> QED BY <1>1, <2>1, <2>2
<1> QED BY <1>5, <1>6, <1>7 DEF WebhooksInv, WebhooksKept

\* The gestures on the list.
LEMMA WebhooksGestures ==
  ASSUME WebhooksInv,
         \/ \E id \in Webhooks!Keys : Webhooks!Test(id) \/ Webhooks!Fix(id) \/ Webhooks!AskDelete(id)
         \/ Webhooks!CancelDelete \/ Webhooks!ConfirmDelete
  PROVE  WebhooksInv'
<1>1. Queue(calls) /\ WebhooksSpent /\ WebhooksView
  BY DEF WebhooksInv, WebhooksKept
<1>2. server' = server /\ spent' = [spent EXCEPT !.moves = @ + 1]
  BY DEF Webhooks!Test, Webhooks!Fix, Webhooks!AskDelete, Webhooks!CancelDelete, Webhooks!ConfirmDelete, Webhooks!Gesture, Webhooks!Spend
<1>3. Spends /\ DOMAIN spent' = DOMAIN spent /\ spent'.replaced = spent.replaced
  BY <1>1, <1>2, Spent DEF WebhooksSpent
<1>4. DOMAIN view' = DOMAIN view /\ view'.rows = view.rows /\ view'.form = view.form
  <2>1. \/ view' = [view EXCEPT !.notice = Webhooks!None]
        \/ \E id : view' = [view EXCEPT !.confirm = id]
        \/ view' = [view EXCEPT !.deleting = TRUE]
    BY DEF Webhooks!Test, Webhooks!Fix, Webhooks!AskDelete, Webhooks!CancelDelete, Webhooks!ConfirmDelete, Webhooks!Gesture
  <2> QED BY <1>1, <2>1 DEF WebhooksView, WebhooksFields
<1>5. \/ calls' = calls
      \/ \E n : /\ Shaped(n) /\ n.phase = "sent" /\ (calls' = calls \o <<n>> \/ calls' = Append(calls, n))
                /\ n.op \in WebhooksActs
                /\ n.op \in {"save", "fix"} =>
                     /\ n.arg.format # Webhooks!None
                     /\ n.arg.id \in Hooks \ spent'.replaced => n.arg.headers = Webhooks!None
                /\ n.op = "fix" => n.arg.id # Webhooks!None
  <2>1. CASE calls' = calls \o << >>
    BY <1>1, <2>1, NothingSent
  <2>2. ASSUME NEW id, Webhooks!Test(id) \/ Webhooks!ConfirmDelete
        PROVE  \E n : Shaped(n) /\ n.phase = "sent" /\ calls' = calls \o <<n>> /\ n.op \in {"test", "remove"}
    <3>1. PICK n : (n = Webhooks!Request("test", id) \/ n = Webhooks!Request("remove", view.confirm)) /\ calls' = calls \o <<n>>
      BY <2>2 DEF Webhooks!Test, Webhooks!ConfirmDelete, Webhooks!Gesture
    <3>2. Shaped(n) /\ n.phase = "sent" /\ n.op \in {"test", "remove"}
      BY <3>1, WebhooksAsk
    <3> QED BY <3>1, <3>2
  <2>3. ASSUME NEW id \in Webhooks!Keys, Webhooks!Fix(id)
        PROVE  \E n : /\ Shaped(n) /\ n.phase = "sent" /\ calls' = calls \o <<n>> /\ n.op = "fix"
                      /\ n.arg.format # Webhooks!None /\ n.arg.headers = Webhooks!None /\ n.arg.id # Webhooks!None
    <3> DEFINE body == Webhooks!Body(0, id, view.rows[id].url, Webhooks!Guess(view.rows[id].url), view.rows[id].rest, Webhooks!None)
    <3>1. PICK n : n = Webhooks!Request("fix", body)
      OBVIOUS
    <3>2. calls' = calls \o <<n>>
      BY <2>3, <3>1 DEF Webhooks!Fix, Webhooks!Gesture
    <3>3. body.format # Webhooks!None /\ body.headers = Webhooks!None /\ body.id # Webhooks!None
      BY <2>3, NamesAssumption DEF Webhooks!Fix, Webhooks!Mismatch, Webhooks!Body, Webhooks!Keys, Webhooks!None, Webhooks!New, None
    <3> HIDE DEF body
    <3>4. Shaped(n) /\ n.phase = "sent" /\ n.op = "fix" /\ n.arg = body
      BY <3>1, WebhooksAsk
    <3> QED BY <3>2, <3>3, <3>4
  <2>4. \/ calls' = calls \o << >>
        \/ \E id : Webhooks!Test(id) \/ Webhooks!ConfirmDelete
        \/ \E id \in Webhooks!Keys : Webhooks!Fix(id)
    BY DEF Webhooks!AskDelete, Webhooks!CancelDelete, Webhooks!Gesture
  <2>5. \A n : n.op \in {"test", "remove"} => n.op \in WebhooksActs /\ n.op \notin {"save", "fix"}
    BY DEF WebhooksActs
  <2>6. \A n : n.op = "fix" => n.op \in WebhooksActs
    BY DEF WebhooksActs
  <2>7. CASE \E id : Webhooks!Test(id) \/ Webhooks!ConfirmDelete
    <3>1. PICK n : Shaped(n) /\ n.phase = "sent" /\ calls' = calls \o <<n>> /\ n.op \in {"test", "remove"}
      BY <2>2, <2>7
    <3>2. n.op \in WebhooksActs /\ n.op # "save" /\ n.op # "fix"
      BY <3>1 DEF WebhooksActs
    <3> QED BY <3>1, <3>2
  <2>8. CASE \E id \in Webhooks!Keys : Webhooks!Fix(id)
    <3>1. PICK n : /\ Shaped(n) /\ n.phase = "sent" /\ calls' = calls \o <<n>> /\ n.op = "fix"
                   /\ n.arg.format # Webhooks!None /\ n.arg.headers = Webhooks!None /\ n.arg.id # Webhooks!None
      BY <2>3, <2>8
    <3> QED BY <2>6, <3>1
  <2> QED BY <2>1, <2>4, <2>7, <2>8
<1>6. view'.form # Webhooks!NoForm => WebhooksFormFields \subseteq DOMAIN view'.form /\ WebhooksFormat(view'.form)
  BY <1>1, <1>4 DEF WebhooksView
<1> QED BY <1>1, <1>2, <1>3, <1>4, <1>5, <1>6, WebhooksAside DEF WebhooksSpent

\* The gestures on the form.
LEMMA WebhooksForms ==
  ASSUME WebhooksInv,
         \/ Webhooks!Close \/ Webhooks!ChangeRest \/ Webhooks!ReplaceHeaders
         \/ \E id \in Webhooks!Keys \union {Webhooks!None} : Webhooks!Open(id)
         \/ \E url \in Webhooks!Addresses : Webhooks!TypeAddress(url)
         \/ \E format \in Webhooks!Formats : Webhooks!Choose(format)
  PROVE  WebhooksInv'
<1>1. Queue(calls) /\ WebhooksSpent /\ WebhooksView
  BY DEF WebhooksInv, WebhooksKept
<1>2. server' = server /\ spent' = [spent EXCEPT !.moves = @ + 1] /\ calls' = calls
  <2>1. server' = server /\ spent' = [spent EXCEPT !.moves = @ + 1] /\ calls' = calls \o << >>
    BY DEF Webhooks!Close, Webhooks!ChangeRest, Webhooks!ReplaceHeaders, Webhooks!Open, Webhooks!TypeAddress, Webhooks!Choose,
           Webhooks!Gesture, Webhooks!Spend
  <2> QED BY <1>1, <2>1, NothingSent
<1>3. Spends /\ DOMAIN spent' = DOMAIN spent /\ spent'.replaced = spent.replaced
  BY <1>1, <1>2, Spent DEF WebhooksSpent
<1>4. \/ view' = [view EXCEPT !.form = Webhooks!NoForm]
      \/ /\ view.form # Webhooks!NoForm
         /\ \/ view' = [view EXCEPT !.form.rest = "r2"]
            \/ view' = [view EXCEPT !.form.replace = ~@]
            \/ \E url : view' = [view EXCEPT !.form = Webhooks!Typed(@, url)]
            \/ \E format \in Webhooks!Formats : view' = [view EXCEPT !.form.format = format, !.form.touched = TRUE, !.form.chosen = format]
      \/ \E nth : \/ view' = [view EXCEPT !.opened = nth, !.form = Webhooks!Blank(nth)]
                  \/ \E id \in DOMAIN view.rows : /\ id # Webhooks!None
                                                  /\ view' = [view EXCEPT !.opened = nth, !.form = Webhooks!Existing(nth, id, view.rows[id])]
  <2>1. CASE Webhooks!Close \/ Webhooks!ChangeRest \/ Webhooks!ReplaceHeaders
    BY <2>1 DEF Webhooks!Close, Webhooks!ChangeRest, Webhooks!ReplaceHeaders, Webhooks!Gesture
  <2>2. ASSUME NEW url, Webhooks!TypeAddress(url)
        PROVE  view.form # Webhooks!NoForm /\ view' = [view EXCEPT !.form = Webhooks!Typed(@, url)]
    BY <2>2 DEF Webhooks!TypeAddress, Webhooks!Gesture
  <2>3. ASSUME NEW format, Webhooks!Choose(format)
        PROVE  view.form # Webhooks!NoForm /\ view' = [view EXCEPT !.form.format = format, !.form.touched = TRUE, !.form.chosen = format]
    BY <2>3 DEF Webhooks!Choose, Webhooks!Gesture
  <2>4. ASSUME NEW id, Webhooks!Open(id)
        PROVE  \E nth : \/ view' = [view EXCEPT !.opened = nth, !.form = Webhooks!Blank(nth)]
                        \/ /\ id \in DOMAIN view.rows /\ id # Webhooks!None
                           /\ view' = [view EXCEPT !.opened = nth, !.form = Webhooks!Existing(nth, id, view.rows[id])]
    <3>1. CASE id = Webhooks!None
      BY <2>4, <3>1 DEF Webhooks!Open, Webhooks!Gesture
    <3>2. CASE id # Webhooks!None
      BY <2>4, <3>2 DEF Webhooks!Open, Webhooks!Gesture
    <3> QED BY <3>1, <3>2
  <2>5. CASE \E url : Webhooks!TypeAddress(url)
    BY <2>2, <2>5
  <2>6. CASE \E format \in Webhooks!Formats : Webhooks!Choose(format)
    BY <2>3, <2>6
  <2>7. CASE \E id : Webhooks!Open(id)
    BY <2>4, <2>7
  <2> QED BY <2>1, <2>5, <2>6, <2>7
<1>5. view.form # Webhooks!NoForm => WebhooksFormFields \subseteq DOMAIN view.form /\ WebhooksFormat(view.form)
  BY <1>1 DEF WebhooksView
<1>6. /\ DOMAIN view' = DOMAIN view /\ view'.rows = view.rows
      /\ view'.form # Webhooks!NoForm => WebhooksFormFields \subseteq DOMAIN view'.form /\ WebhooksFormat(view'.form)
  <2> USE DEF WebhooksFields
  <2>1. WebhooksFields \subseteq DOMAIN view
    BY <1>1 DEF WebhooksView
  <2>2. CASE view' = [view EXCEPT !.form = Webhooks!NoForm]
    BY <2>1, <2>2
  <2>3. CASE view.form # Webhooks!NoForm /\ view' = [view EXCEPT !.form.rest = "r2"]
    <3>1. DOMAIN view' = DOMAIN view /\ view'.rows = view.rows /\ view'.form = [view.form EXCEPT !.rest = "r2"]
      BY <2>1, <2>3
    <3>2. \A x \in {"url", "format", "touched", "chosen"} : view'.form[x] = view.form[x]
      BY <1>5, <2>3, <3>1 DEF WebhooksFormFields
    <3>3. DOMAIN view'.form = DOMAIN view.form
      BY <3>1
    <3> QED BY <1>5, <2>3, <3>1, <3>2, <3>3 DEF WebhooksFormat
  <2>4. CASE view.form # Webhooks!NoForm /\ view' = [view EXCEPT !.form.replace = ~@]
    <3>1. DOMAIN view' = DOMAIN view /\ view'.rows = view.rows /\ view'.form = [view.form EXCEPT !.replace = ~@]
      BY <2>1, <2>4
    <3>2. \A x \in {"url", "format", "touched", "chosen"} : view'.form[x] = view.form[x]
      BY <1>5, <2>4, <3>1 DEF WebhooksFormFields
    <3>3. DOMAIN view'.form = DOMAIN view.form
      BY <3>1
    <3> QED BY <1>5, <2>4, <3>1, <3>2, <3>3 DEF WebhooksFormat
  <2>5. ASSUME NEW url, view.form # Webhooks!NoForm, view' = [view EXCEPT !.form = Webhooks!Typed(@, url)]
        PROVE  /\ DOMAIN view' = DOMAIN view /\ view'.rows = view.rows
               /\ WebhooksFormFields \subseteq DOMAIN view'.form /\ WebhooksFormat(view'.form)
    <3>1. DOMAIN view' = DOMAIN view /\ view'.rows = view.rows /\ view'.form = Webhooks!Typed(view.form, url)
      BY <2>1, <2>5
    <3>2. view'.form = [view.form EXCEPT !.url = url, !.format =
                          IF Webhooks!Guess(url) # Webhooks!None /\ ~view.form.touched THEN Webhooks!Guess(url) ELSE view.form.format]
      BY <1>5, <2>5, <3>1 DEF Webhooks!Typed, WebhooksFormFields
    <3>3. /\ DOMAIN view'.form = DOMAIN view.form /\ view'.form.url = url
          /\ view'.form.touched = view.form.touched /\ view'.form.chosen = view.form.chosen
          /\ view'.form.format = IF Webhooks!Guess(url) # Webhooks!None /\ ~view.form.touched
                                 THEN Webhooks!Guess(url) ELSE view.form.format
      BY <1>5, <2>5, <3>2 DEF WebhooksFormFields
    <3> QED BY <1>5, <2>5, <3>1, <3>3 DEF WebhooksFormat
  <2>6. ASSUME NEW format \in Webhooks!Formats, view.form # Webhooks!NoForm,
               view' = [view EXCEPT !.form.format = format, !.form.touched = TRUE, !.form.chosen = format]
        PROVE  /\ DOMAIN view' = DOMAIN view /\ view'.rows = view.rows
               /\ WebhooksFormFields \subseteq DOMAIN view'.form /\ WebhooksFormat(view'.form)
    <3>1. /\ DOMAIN view' = DOMAIN view /\ view'.rows = view.rows
          /\ view'.form = [view.form EXCEPT !.format = format, !.touched = TRUE, !.chosen = format]
      BY <2>1, <2>6
    <3>2. format # Webhooks!None
      BY DEF Webhooks!Formats, Webhooks!None
    <3>3. /\ DOMAIN view'.form = DOMAIN view.form /\ view'.form.touched = TRUE
          /\ view'.form.chosen = format /\ view'.form.format = format
      BY <1>5, <2>6, <3>1 DEF WebhooksFormFields
    <3> QED BY <1>5, <2>6, <3>1, <3>2, <3>3 DEF WebhooksFormat
  <2>7. ASSUME NEW nth, view' = [view EXCEPT !.opened = nth, !.form = Webhooks!Blank(nth)]
        PROVE  /\ DOMAIN view' = DOMAIN view /\ view'.rows = view.rows
               /\ WebhooksFormFields \subseteq DOMAIN view'.form /\ WebhooksFormat(view'.form)
    <3>1. DOMAIN view' = DOMAIN view /\ view'.rows = view.rows /\ view'.form = Webhooks!Blank(nth)
      BY <2>1, <2>7
    <3>2. /\ WebhooksFormFields \subseteq DOMAIN view'.form /\ view'.form.url = "other" /\ view'.form.format = "generic"
          /\ view'.form.touched = FALSE /\ view'.form.chosen = Webhooks!None
      BY <3>1 DEF WebhooksFormFields, Webhooks!Blank, Webhooks!Form
    <3>3. Webhooks!Guess("other") = Webhooks!None /\ Webhooks!None # "generic"
      BY DEF Webhooks!Guess, Webhooks!None
    <3> QED BY <3>1, <3>2, <3>3 DEF WebhooksFormat
  <2>8. ASSUME NEW nth, NEW id \in DOMAIN view.rows, id # Webhooks!None,
               view' = [view EXCEPT !.opened = nth, !.form = Webhooks!Existing(nth, id, view.rows[id])]
        PROVE  /\ DOMAIN view' = DOMAIN view /\ view'.rows = view.rows
               /\ WebhooksFormFields \subseteq DOMAIN view'.form /\ WebhooksFormat(view'.form)
    <3>1. DOMAIN view' = DOMAIN view /\ view'.rows = view.rows /\ view'.form = Webhooks!Existing(nth, id, view.rows[id])
      BY <2>1, <2>8
    <3>2. view.rows[id].format # Webhooks!None
      BY <1>1 DEF WebhooksView, Formatted
    <3>3. /\ WebhooksFormFields \subseteq DOMAIN view'.form /\ view'.form.format = view.rows[id].format
          /\ view'.form.touched = TRUE /\ view'.form.chosen = view.rows[id].format
      BY <3>1 DEF WebhooksFormFields, Webhooks!Existing, Webhooks!Form
    <3> QED BY <3>1, <3>2, <3>3 DEF WebhooksFormat
  <2> QED BY <1>4, <2>2, <2>3, <2>4, <2>5, <2>6, <2>7, <2>8
<1> QED BY <1>1, <1>2, <1>3, <1>6, WebhooksAside DEF WebhooksSpent

\* A form that is sent tells the headers when they are replaced, which is remembered.
LEMMA WebhooksSubmitted ==
  ASSUME WebhooksInv, NEW headers, Webhooks!Submit(headers)
  PROVE  WebhooksInv'
<1>1. Queue(calls) /\ WebhooksSpent /\ WebhooksView
  BY DEF WebhooksInv, WebhooksKept
<1> DEFINE f == view.form
           body == Webhooks!Body(f.nth, f.id, f.url, f.format, f.rest, headers)
<1>2. /\ f # Webhooks!NoForm /\ (headers = Webhooks!None <=> ~f.replace) /\ server' = server
      /\ spent' = [spent EXCEPT !.moves = @ + 1, !.replaced = IF f.replace THEN @ \union {f.id} ELSE @]
      /\ view' = [view EXCEPT !.form.busy = TRUE, !.form.error = FALSE]
      /\ calls' = Append(calls, Webhooks!Request("save", body))
  BY DEF Webhooks!Submit
<1>3. WebhooksFormFields \subseteq DOMAIN f /\ WebhooksFormat(f)
  BY <1>1, <1>2 DEF WebhooksView
<1>4. Counted' /\ DOMAIN spent' = DOMAIN spent /\ spent'.inOrder = spent.inOrder /\ spent'.faults = spent.faults
  BY <1>1, <1>2 DEF WebhooksSpent, Counted
<1>5. spent'.replaced = IF f.replace THEN spent.replaced \union {f.id} ELSE spent.replaced
  BY <1>1, <1>2 DEF WebhooksSpent
<1>6. DOMAIN view' = DOMAIN view /\ view'.rows = view.rows /\ view'.form = [f EXCEPT !.busy = TRUE, !.error = FALSE]
  BY <1>1, <1>2 DEF WebhooksView, WebhooksFields
<1>7. WebhooksFormFields \subseteq DOMAIN view'.form /\ WebhooksFormat(view'.form)
  BY <1>3, <1>6 DEF WebhooksFormFields, WebhooksFormat
<1>8. body.format # Webhooks!None /\ (body.id \in Hooks \ spent'.replaced => body.headers = Webhooks!None)
  <2>1. body.format = f.format /\ body.id = f.id /\ body.headers = headers
    BY DEF Webhooks!Body
  <2>2. f.format # Webhooks!None
    BY <1>3 DEF WebhooksFormat
  <2> HIDE DEF body, f
  <2> QED BY <1>2, <1>5, <2>1, <2>2
<1>9. \E n : /\ Shaped(n) /\ n.phase = "sent" /\ (calls' = calls \o <<n>> \/ calls' = Append(calls, n))
             /\ n.op \in WebhooksActs
             /\ n.op \in {"save", "fix"} =>
                  /\ n.arg.format # Webhooks!None
                  /\ n.arg.id \in Hooks \ spent'.replaced => n.arg.headers = Webhooks!None
             /\ n.op = "fix" => n.arg.id # Webhooks!None
  <2>1. PICK n : n = Webhooks!Request("save", body)
    OBVIOUS
  <2> HIDE DEF body
  <2>2. Shaped(n) /\ n.phase = "sent" /\ n.op = "save" /\ n.arg = body
    BY <2>1, WebhooksAsk
  <2>3. calls' = Append(calls, n)
    BY <1>2, <2>1
  <2>4. n.op \in WebhooksActs
    BY <2>2 DEF WebhooksActs
  <2> QED BY <1>8, <2>2, <2>3, <2>4
<1>10. Spends /\ "replaced" \in DOMAIN spent' /\ spent.replaced \subseteq spent'.replaced
  BY <1>1, <1>4, <1>5 DEF Spends, WebhooksSpent
<1> QED BY <1>2, <1>6, <1>7, <1>9, <1>10, WebhooksAside

\* What a request changes is read again; headers that are not told stay, and so do formats.
LEMMA WebhooksServed ==
  ASSUME WebhooksInv, NEW k \in DOMAIN calls, Webhooks!ServeOne(k) \/ Webhooks!Fail(k)
  PROVE  WebhooksInv'
<1> DEFINE c == calls[k]
<1>1. /\ Queue(calls) /\ WebhooksRequests /\ WebhooksServer /\ WebhooksSpent /\ WebhooksView /\ WebhooksTrue
      /\ WebhooksRequest(c)
  BY DEF WebhooksInv, WebhooksKept, WebhooksRequests
<1>2. view' = view
  BY DEF Webhooks!ServeOne, Webhooks!Refuse, Webhooks!Serve, Webhooks!Fail
<1>3. CASE Webhooks!Fail(k)
  <2>1. Becomes(k, "refused", Webhooks!None) /\ server' = server
    BY <1>3 DEF Webhooks!Fail, Becomes
  <2>2. /\ Queue(calls') /\ DOMAIN calls' = DOMAIN calls
        /\ \A j \in DOMAIN calls : calls'[j].op = calls[j].op /\ calls'[j].arg = calls[j].arg
        /\ \A j \in DOMAIN calls : j # k => calls'[j] = calls[j]
        /\ calls'[k].phase = "refused"
    BY <1>1, <2>1, OneServed
  <2>3. Counted' /\ spent'.faults = spent.faults + 1 /\ DOMAIN spent' = DOMAIN spent /\ spent'.replaced = spent.replaced
    BY <1>1, <1>3 DEF Webhooks!Fail, WebhooksSpent, Counted
  <2>4. ~InStep' /\ WebhooksSpent'
    BY <1>1, <2>3 DEF InStep, WebhooksSpent, Counted
  <2>5. WebhooksServer' /\ WebhooksView'
    BY <1>1, <1>2, <2>1, <2>3 DEF WebhooksServer, WebhooksView, Webhooks!HeadersSurvive
  <2>6. WebhooksRequests'
    BY <1>1, <2>2, <2>3 DEF WebhooksRequests, WebhooksRequest
  <2> QED BY <2>2, <2>4, <2>5, <2>6 DEF WebhooksInv, WebhooksKept, WebhooksTrue
<1>4. CASE Webhooks!ServeOne(k)
  <2>1. UNCHANGED spent /\ c.phase = "sent"
    BY <1>4 DEF Webhooks!ServeOne, Webhooks!Refuse, Webhooks!Serve
  <2>2. WebhooksSpent' /\ (InStep' <=> InStep)
    BY <1>1, <2>1 DEF WebhooksSpent, Counted, InStep
  <2>3. WebhooksServer' /\ (c.op \in {"load", "test"} => server' = server)
    <3>1. CASE server' = server
      BY <1>1, <2>1, <3>1 DEF WebhooksServer, Webhooks!HeadersSurvive
    <3>2. CASE c.op = "remove" /\ server' = Webhooks!Effect(server, c)
      <4>1. server' = [server EXCEPT !.rows = [id \in DOMAIN server.rows \ {c.arg} |-> server.rows[id]]]
        BY <3>2 DEF Webhooks!Effect
      <4>2. DOMAIN server' = DOMAIN server /\ server'.rows = [id \in DOMAIN server.rows \ {c.arg} |-> server.rows[id]]
        BY <1>1, <4>1 DEF WebhooksServer
      <4> QED BY <1>1, <2>1, <3>2, <4>2 DEF WebhooksServer, Webhooks!HeadersSurvive, Formatted
    <3>3. ASSUME c.op \in {"save", "fix"}, c.arg.id # Webhooks!None, c.arg.id \in DOMAIN server.rows, server' = Webhooks!Effect(server, c)
          PROVE  WebhooksServer'
      <4>1. PICK s : s = Webhooks!Stored(server.rows[c.arg.id], c.arg)
        OBVIOUS
      <4>2. server' = [server EXCEPT !.rows[c.arg.id] = s]
        BY <3>3, <4>1 DEF Webhooks!Effect
      <4>3. DOMAIN server' = DOMAIN server /\ server'.rows = [server.rows EXCEPT ![c.arg.id] = s]
        BY <1>1, <4>2 DEF WebhooksServer
      <4>4. /\ DOMAIN s = {"url", "format", "rest", "headers"} /\ s.format = c.arg.format
            /\ c.arg.headers = Webhooks!None => s.headers = server.rows[c.arg.id].headers
        BY <4>1 DEF Webhooks!Stored, Webhooks!None
      <4>5. c.arg.format # Webhooks!None /\ (c.arg.id \in Hooks \ spent.replaced => c.arg.headers = Webhooks!None)
        BY <1>1, <3>3 DEF WebhooksRequest
      <4>6. /\ DOMAIN server'.rows = DOMAIN server.rows /\ server'.rows[c.arg.id] = s
            /\ \A id \in DOMAIN server.rows : id # c.arg.id => server'.rows[id] = server.rows[id]
        BY <3>3, <4>3
      <4> HIDE DEF c
      <4>7. Formatted(server'.rows) /\ \A id \in DOMAIN server'.rows : DOMAIN server'.rows[id] = {"url", "format", "rest", "headers"}
        BY <1>1, <4>4, <4>5, <4>6 DEF WebhooksServer, Formatted
      <4>8. Webhooks!HeadersSurvive'
        BY <1>1, <2>1, <4>4, <4>5, <4>6 DEF WebhooksServer, Webhooks!HeadersSurvive
      <4> QED BY <1>1, <4>3, <4>7, <4>8 DEF WebhooksServer
    <3>4. CASE c.op = "save" /\ c.arg.id = Webhooks!None /\ server' = Webhooks!Effect(server, c)
      <4>1. PICK s : s = Webhooks!Stored([headers |-> Webhooks!None], c.arg)
        OBVIOUS
      <4>2. server' = [server EXCEPT !.rows = [id \in DOMAIN server.rows \union {Webhooks!New} |-> IF id = Webhooks!New THEN s ELSE server.rows[id]]]
        BY <3>4, <4>1 DEF Webhooks!Effect
      <4>3. /\ DOMAIN server' = DOMAIN server
            /\ server'.rows = [id \in DOMAIN server.rows \union {Webhooks!New} |-> IF id = Webhooks!New THEN s ELSE server.rows[id]]
        BY <1>1, <4>2 DEF WebhooksServer
      <4>4. DOMAIN s = {"url", "format", "rest", "headers"} /\ s.format = c.arg.format /\ c.arg.format # Webhooks!None
        BY <1>1, <3>4, <4>1 DEF Webhooks!Stored, WebhooksRequest
      <4> QED BY <1>1, <2>1, <3>4, <4>3, <4>4, NamesAssumption DEF WebhooksServer, Webhooks!HeadersSurvive, Formatted
    <3>5. c.op \in WebhooksActs \union {"load"}
      BY <1>1 DEF WebhooksRequest
    <3>6. CASE Webhooks!Refused(c)
      BY <1>4, <3>1, <3>6 DEF Webhooks!ServeOne, Webhooks!Refuse
    <3>7. CASE ~Webhooks!Refused(c)
      <4>1. server' = Webhooks!Effect(server, c)
        BY <1>4, <3>7 DEF Webhooks!ServeOne, Webhooks!Serve
      <4>2. c.op \in {"save", "fix"} => c.arg.id \in DOMAIN server.rows \union {Webhooks!None}
        BY <3>7 DEF Webhooks!Refused
      <4>3. c.op \in {"load", "test"} => server' = server
        BY <4>1 DEF Webhooks!Effect
      <4>4. c.op = "fix" /\ c.arg.id = Webhooks!None => FALSE
        BY <1>1 DEF WebhooksRequest
      <4> QED BY <3>1, <3>2, <3>3, <3>4, <3>5, <4>1, <4>2, <4>3, <4>4 DEF WebhooksActs
    <3> QED BY <3>6, <3>7
  <2>4. PICK p, r :
          /\ Becomes(k, p, r)
          /\ c.op = "load" => p = "done" /\ r = WebhooksRows'
          /\ WebhooksRows' = WebhooksRows \/ (c.op \in WebhooksActs /\ p = "done")
    <3>1. CASE Webhooks!Refused(c)
      <4>1. Becomes(k, "refused", c.reply) /\ server' = server /\ c.op # "load"
        BY <1>4, <3>1 DEF Webhooks!ServeOne, Webhooks!Refuse, Becomes, Webhooks!Refused
      <4> QED BY <4>1 DEF WebhooksRows
    <3>2. CASE ~Webhooks!Refused(c)
      <4>1. Becomes(k, "done", Webhooks!Reply(server, c))
        BY <1>4, <3>2 DEF Webhooks!ServeOne, Webhooks!Serve, Becomes
      <4>2. c.op = "load" => Webhooks!Reply(server, c) = WebhooksRows
        BY DEF Webhooks!Reply, WebhooksRows
      <4>3. c.op = "load" \/ c.op \in WebhooksActs
        BY <1>1 DEF WebhooksRequest
      <4>4. c.op = "load" => WebhooksRows' = WebhooksRows
        BY <2>3 DEF WebhooksRows
      <4> QED BY <4>1, <4>2, <4>3, <4>4
    <3> QED BY <3>1, <3>2
  <2>5. InStep => ListRead(calls') /\ ListTrue(calls', WebhooksActs, WebhooksRows', view.rows)
    BY <1>1, <2>1, <2>4, ListServed DEF WebhooksTrue
  <2>6. WebhooksTrue'
    BY <1>2, <2>2, <2>5 DEF WebhooksTrue
  <2>7. WebhooksView'
    BY <1>1, <1>2 DEF WebhooksView
  <2>8. /\ Queue(calls') /\ DOMAIN calls' = DOMAIN calls
        /\ \A j \in DOMAIN calls : calls'[j].op = calls[j].op /\ calls'[j].arg = calls[j].arg
        /\ \A j \in DOMAIN calls : j # k => calls'[j] = calls[j]
        /\ calls'[k].reply = r
    BY <1>1, <2>4, OneServed
  <2>9. c.op = "load" => Formatted(r)
    <3>1. Formatted(WebhooksRows')
      BY <2>3 DEF WebhooksServer, WebhooksRows, Formatted, Webhooks!Row
    <3> QED BY <2>4, <3>1
  <2>10. WebhooksRequests'
    <3>1. \A j \in DOMAIN calls : WebhooksRequest(calls[j])'
      <4> SUFFICES ASSUME NEW j \in DOMAIN calls PROVE WebhooksRequest(calls[j])'
        OBVIOUS
      <4>1. WebhooksRequest(calls[j])
        BY <1>1 DEF WebhooksRequests
      <4>2. calls'[j].op = "load" /\ calls'[j].phase = "done" => Formatted(calls'[j].reply)
        <5>1. CASE j = k
          BY <2>8, <2>9, <5>1
        <5>2. CASE j # k
          BY <2>8, <4>1, <5>2 DEF WebhooksRequest
        <5> QED BY <5>1, <5>2
      <4> QED BY <2>1, <2>8, <4>1, <4>2 DEF WebhooksRequest
    <3> QED BY <2>8, <3>1 DEF WebhooksRequests
  <2> QED BY <2>2, <2>3, <2>6, <2>7, <2>8, <2>10 DEF WebhooksInv, WebhooksKept
<1> QED BY <1>3, <1>4

\* What is answered is shown, or read again.
LEMMA WebhooksAnswered ==
  ASSUME WebhooksInv, NEW k \in DOMAIN calls, Webhooks!HandleAnswer(k) \/ Webhooks!HandleRefusal(k)
  PROVE  WebhooksInv'
<1> DEFINE c == calls[k]
<1>1. /\ Queue(calls) /\ WebhooksRequests /\ WebhooksServer /\ WebhooksSpent /\ WebhooksView /\ WebhooksTrue
      /\ WebhooksRequest(c)
  BY DEF WebhooksInv, WebhooksKept, WebhooksRequests
<1>2. UNCHANGED <<server, spent>> /\ (InStep => k = 1) /\ c.phase \in {"done", "refused"}
  BY DEF Webhooks!HandleAnswer, Webhooks!HandleRefusal, Webhooks!Settle, InStep, Webhooks!InOrder
<1>3. WebhooksServer' /\ WebhooksSpent' /\ (InStep' <=> InStep) /\ WebhooksRows' = WebhooksRows
  BY <1>1, <1>2 DEF WebhooksServer, Webhooks!HeadersSurvive, WebhooksSpent, Counted, InStep, WebhooksRows
<1>4. c.op \in WebhooksActs \union {"load"}
  BY <1>1 DEF WebhooksRequest
<1>5. \/ view' = Webhooks!Answered(view, c) /\ c.phase = "done"
      \/ view' = Webhooks!Refusal(view, c) /\ c.phase = "refused"
  BY DEF Webhooks!HandleAnswer, Webhooks!HandleRefusal, Webhooks!Settle
<1>6. PICK n : /\ Shaped(n) /\ n.op = "load" /\ n.phase = "sent"
               /\ calls' = Others(k) \o << >> \/ calls' = Others(k) \o <<n>>
               /\ c.op \in WebhooksActs /\ c.phase = "done" => calls' # Others(k) \o << >>
  <2> DEFINE n == Webhooks!Request("load", Webhooks!None)
  <2>1. Shaped(n) /\ n.op = "load" /\ n.phase = "sent"
    BY WebhooksAsk
  <2>2. Webhooks!Others(k) = Others(k)
    BY DEF Webhooks!Others, Others
  <2>3. calls' = Others(k) \o << >> \/ calls' = Others(k) \o <<n>>
    BY <2>2 DEF Webhooks!HandleAnswer, Webhooks!HandleRefusal, Webhooks!Settle, Webhooks!Then
  <2>4. c.op \in WebhooksActs /\ c.phase = "done" => calls' = Others(k) \o <<n>>
    BY <2>2 DEF Webhooks!HandleAnswer, Webhooks!HandleRefusal, Webhooks!Settle, Webhooks!Then, WebhooksActs
  <2>5. Others(k) \o <<n>> # Others(k) \o << >>
    BY <1>1, <2>1, AskedIsLonger
  <2> HIDE DEF n
  <2> QED BY <2>1, <2>3, <2>4, <2>5
<1>7. /\ DOMAIN view' = DOMAIN view
      /\ view'.form \in {view.form, Webhooks!NoForm} \/ (view.form # Webhooks!NoForm /\ view'.form = [view.form EXCEPT !.error = TRUE, !.busy = FALSE])
      /\ c.op # "load" => view'.rows = view.rows
      /\ c.op = "load" /\ c.phase = "done" => view'.rows = c.reply
      /\ c.op = "load" /\ c.phase = "refused" => view'.rows = view.rows
  <2>1. WebhooksFields \subseteq DOMAIN view
    BY <1>1 DEF WebhooksView
  <2>2. CASE view' = Webhooks!Answered(view, c) /\ c.phase = "done"
    BY <1>4, <2>1, <2>2 DEF Webhooks!Answered, WebhooksFields, WebhooksActs
  <2>3. CASE view' = Webhooks!Refusal(view, c) /\ c.phase = "refused" /\ c.op # "save"
    BY <1>4, <2>1, <2>3 DEF Webhooks!Refusal, WebhooksFields, WebhooksActs
  <2>4. CASE view' = Webhooks!Refusal(view, c) /\ c.phase = "refused" /\ c.op = "save"
    <3>1. \/ view' = view
          \/ view.form # Webhooks!NoForm /\ view' = [view EXCEPT !.form.error = TRUE, !.form.busy = FALSE]
      BY <2>4 DEF Webhooks!Refusal
    <3>2. CASE view.form # Webhooks!NoForm /\ view' = [view EXCEPT !.form.error = TRUE, !.form.busy = FALSE]
      <4>1. /\ DOMAIN view' = DOMAIN view /\ view'.rows = view.rows
            /\ view'.form = [view.form EXCEPT !.error = TRUE, !.busy = FALSE]
        BY <2>1, <3>2 DEF WebhooksFields
      <4> QED BY <2>4, <3>2, <4>1
    <3> QED BY <2>4, <3>1, <3>2
  <2> QED BY <1>5, <2>2, <2>3, <2>4
<1>8. WebhooksView'
  <2>1. Formatted(view'.rows)
    BY <1>1, <1>2, <1>7 DEF WebhooksView, WebhooksRequest
  <2>2. view'.form # Webhooks!NoForm => WebhooksFormFields \subseteq DOMAIN view'.form /\ WebhooksFormat(view'.form)
    BY <1>1, <1>7 DEF WebhooksView, WebhooksFormFields, WebhooksFormat
  <2> QED BY <1>1, <1>7, <2>1, <2>2 DEF WebhooksView
<1>9. Queue(calls') /\ \A i \in DOMAIN calls' : (\E j \in DOMAIN calls : calls'[i] = calls[j]) \/ calls'[i] = n
  BY <1>1, <1>6, Answers
<1>10. WebhooksRequests'
  BY <1>1, <1>2, <1>6, <1>9 DEF WebhooksRequests, WebhooksRequest
<1>11. ASSUME InStep PROVE ListRead(calls') /\ ListTrue(calls', WebhooksActs, WebhooksRows, view'.rows)
  <2>1. /\ k = 1 /\ 1 \in DOMAIN calls /\ "load" \notin WebhooksActs
        /\ ListRead(calls) /\ ListTrue(calls, WebhooksActs, WebhooksRows, view.rows)
    BY <1>1, <1>2, <1>11 DEF WebhooksTrue, WebhooksActs
  <2>2. /\ calls[1].op \in WebhooksActs /\ calls[1].phase = "done" => calls' # Others(1) \o << >>
        /\ calls[1].op # "load" => view'.rows = view.rows
        /\ calls[1].op = "load" /\ calls[1].phase = "done" => view'.rows = calls[1].reply
        /\ calls[1].phase \in {"done", "refused"}
        /\ calls' = Others(1) \o << >> \/ calls' = Others(1) \o <<n>>
    BY <1>2, <1>6, <1>7, <2>1
  <2> HIDE DEF c
  <2> QED BY <1>1, <1>6, <2>1, <2>2, ListAnswered
<1>12. WebhooksTrue'
  BY <1>3, <1>11 DEF WebhooksTrue
<1> QED BY <1>3, <1>8, <1>9, <1>10, <1>12 DEF WebhooksInv, WebhooksKept

\* The list of the webhooks stays what was read last, and a format is still decided.
LEMMA WebhooksStep == WebhooksInv /\ Webhooks!Next => WebhooksInv'
BY WebhooksGestures, WebhooksForms, WebhooksSubmitted, WebhooksServed, WebhooksAnswered DEF Webhooks!Next

\* Once nothing is under way, the list is that of the server; headers that were not replaced survive.
LEMMA WebhooksHold == WebhooksInv => Webhooks!ListIsTrue /\ Webhooks!HeadersSurvive /\ Webhooks!FormatIsDecided
<1> SUFFICES ASSUME WebhooksInv PROVE Webhooks!ListIsTrue /\ Webhooks!HeadersSurvive /\ Webhooks!FormatIsDecided
  OBVIOUS
<1>1. Webhooks!ListIsTrue
  BY ListShown DEF WebhooksInv, WebhooksTrue, WebhooksRows, Webhooks!ListIsTrue, Webhooks!InOrder, InStep
<1>2. Webhooks!HeadersSurvive
  BY DEF WebhooksInv, WebhooksKept, WebhooksServer
<1>3. Webhooks!FormatIsDecided
  BY DEF WebhooksInv, WebhooksKept, WebhooksView, WebhooksFormat, Webhooks!FormatIsDecided
<1> QED BY <1>1, <1>2, <1>3
=============================================================================
