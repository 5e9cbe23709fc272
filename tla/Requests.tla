------------------------------ MODULE Requests ------------------------------
(***************************************************************************)
(* What every page of the front-end does with the API (api/client.ts): a   *)
(* callback sends a request and waits for its answer, while the operator,  *)
(* the stream and the other callbacks go on.  The page says what the       *)
(* server does of a request and what becomes of the page when it is        *)
(* answered.                                                               *)
(***************************************************************************)
EXTENDS Integers, FiniteSets, Sequences

CONSTANTS
  Orders,     \* whether requests are served and answered in the order they were sent, or both
  MaxMoves    \* bound on what the operator, the others and the network do, together

ASSUME RequestsAssumption == Orders \subseteq BOOLEAN /\ MaxMoves \in Nat

VARIABLES
  server,  \* what the server holds, and the event it still has to deliver
  view,    \* the state of the page
  calls,   \* the requests that wait, oldest first
  spent    \* how much of the bounds is used up, and what a property remembers

vars == <<server, view, calls, spent>>

None == "none"
NoHistory == << >>

\* An event that the stream lost, of which nothing was read again yet.
Lost == "lost"
Underway == server.event \notin {None, Lost}

\* Two connections of the browser may overtake each other; most often they do not.
Unspent(history) ==
  \E ordered \in Orders :
    LET bounds == [moves |-> 0, faults |-> 0, inOrder |-> ordered]
    IN  spent = [x \in DOMAIN bounds \union DOMAIN history |-> IF x \in DOMAIN bounds THEN bounds[x] ELSE history[x]]
InOrder == spent.inOrder

\* A request: what is asked, with the values of the render it was asked in.
Request(op, arg) == [op |-> op, arg |-> arg, phase |-> "sent", reply |-> None]

Spend ==
  /\ spent.moves < MaxMoves
  /\ spent' = [spent EXCEPT !.moves = @ + 1]

\* A gesture: the page changes, a request may leave.
Gesture(v, requests) ==
  /\ Spend
  /\ view' = v
  /\ calls' = calls \o requests
  /\ UNCHANGED server

\* The server serves request k: what it holds becomes s.
Serve(k, s, reply) ==
  /\ calls[k].phase = "sent"
  /\ InOrder => \A j \in 1..(k - 1) : calls[j].phase # "sent"
  /\ server' = s
  /\ calls' = [calls EXCEPT ![k].phase = "done", ![k].reply = reply]
  /\ UNCHANGED <<view, spent>>

\* The server refuses it (a ProblemDetails): nothing changes there.
Refuse(k) ==
  /\ calls[k].phase = "sent"
  /\ InOrder => \A j \in 1..(k - 1) : calls[j].phase # "sent"
  /\ calls' = [calls EXCEPT ![k].phase = "refused"]
  /\ UNCHANGED <<server, view, spent>>

\* The network fails, before the server acts or after it.
Fail(k) ==
  /\ calls[k].phase \in {"sent", "done"}
  /\ spent.moves < MaxMoves
  /\ spent' = [spent EXCEPT !.moves = @ + 1, !.faults = @ + 1]
  /\ calls' = [calls EXCEPT ![k].phase = "refused", ![k].reply = None]
  /\ UNCHANGED <<server, view>>

\* The queue without request k.
Others(k) == [j \in 1..(Len(calls) - 1) |-> IF j < k THEN calls[j] ELSE calls[j + 1]]

\* The callback goes on: with the answer, or in its catch.
Settle(k, phase, v, requests) ==
  /\ calls[k].phase = phase
  /\ InOrder => k = 1
  /\ view' = v
  /\ calls' = Others(k) \o requests
  /\ UNCHANGED <<server, spent>>

\* What was announced last is lost: the stream is opened again without what was published
\* meanwhile, and the queue of a subscriber that is full drops its oldest item.
EventLost ==
  /\ Underway
  /\ server' = [server EXCEPT !.event = Lost]
  /\ UNCHANGED <<view, calls, spent>>

\* What is read after a loss says what the event would have made the page read.
CaughtUp(s) == [s EXCEPT !.event = IF @ = Lost THEN None ELSE @]

Waiting(ops) == \E k \in DOMAIN calls : calls[k].op \in ops
=============================================================================
