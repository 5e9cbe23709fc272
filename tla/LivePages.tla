------------------------------ MODULE LivePages ------------------------------
(***************************************************************************)
(* The pages that watch (pages/DashboardPage.tsx, InstanceDetailPage.tsx)  *)
(* and the pill of the navigation (layout/useActiveFindings.ts), on the    *)
(* stream of events (app/EventsContext.tsx, the event bus of the server):  *)
(* each event asks for a reading, the stream may break without telling,    *)
(* and two of the three poll while they know it is broken.                 *)
(*                                                                         *)
(* The data is a count of critical findings per instance; the overview     *)
(* shows their sum, the detail that of its instance.                       *)
(***************************************************************************)
EXTENDS Requests

CONSTANT Capacity  \* of the queue of a subscriber

Unread == -1
Supervised == {"mine", "other"}
Total(s) == s.critical["mine"] + s.critical["other"]

\* What the page shows of the server.
DataOf(kind, s) == IF kind = "overview" THEN Total(s) ELSE s.critical["mine"]

Reading(guard) == Request("load", guard)
Count == Request("count", FALSE)

Init ==
  \E kind \in {"overview", "detail"} :
    /\ server = [critical |-> [i \in Supervised |-> 1], open |-> TRUE, queue |-> << >>]
    /\ view = [kind |-> kind, connected |-> TRUE, data |-> Unread, before |-> Unread, error |-> FALSE,
               loading |-> TRUE, refreshing |-> TRUE, said |-> None, pill |-> Unread]
    /\ calls = <<Reading(FALSE), Count>>
    /\ Unspent([missed |-> {}, raised |-> 0, told |-> 0, first |-> Unread])

TypeOK ==
  /\ server.open \in BOOLEAN /\ Len(server.queue) <= Capacity
  /\ view.said \in {None, "change", "guard"}
  /\ view.connected \in BOOLEAN /\ spent.missed \subseteq {"page", "pill"}

-----------------------------------------------------------------------------
(* The server and the stream. *)

\* Mutant: a queue without a bound.
Publish_Unbounded(s, event) == IF ~s.open THEN s ELSE [s EXCEPT !.queue = Append(@, event)]

\* A subscriber that does not read loses its oldest events; nobody keeps those of one
\* that is gone.
Publish(s, event) ==
  IF ~s.open THEN s
  ELSE [s EXCEPT !.queue = Append(IF Len(@) = Capacity THEN Tail(@) ELSE @, event)]

\* The readers an event is lost for: all when nobody listens; when the queue is full,
\* the detail, which only heeds the events of its instance.
Deprived(s) ==
  IF ~s.open THEN {"page", "pill"}
  ELSE IF Len(s.queue) = Capacity /\ view.kind = "detail" THEN {"page"} ELSE {}

\* A finding of an instance appears or goes; the guard may be what made it go.
Changes(i, by, guard) ==
  /\ server.critical[i] + by \in 0..2 /\ (guard => by = -1)
  /\ spent.moves < MaxMoves
  /\ spent' = [spent EXCEPT !.moves = @ + 1, !.missed = @ \union Deprived(server),
                            !.raised = IF by = 1 THEN @ + 1 ELSE @]
  /\ server' = Publish([server EXCEPT !.critical[i] = @ + by], [about |-> i, guard |-> guard])
  /\ UNCHANGED <<view, calls>>

\* The stream breaks; the browser sees it later, if it does before it is open again.
Breaks ==
  /\ server.open /\ spent.moves < MaxMoves
  /\ spent' = [spent EXCEPT !.moves = @ + 1, !.missed = IF server.queue # << >> THEN {"page", "pill"} ELSE @]
  /\ server' = [server EXCEPT !.open = FALSE, !.queue = << >>]
  /\ UNCHANGED <<view, calls>>

SeesItBroken ==
  /\ ~server.open /\ view.connected
  /\ view' = [view EXCEPT !.connected = FALSE]
  /\ UNCHANGED <<server, calls, spent>>

\* What happened meanwhile is not sent again.
Reconnects ==
  /\ ~server.open /\ ~view.connected
  /\ server' = [server EXCEPT !.open = TRUE]
  /\ view' = [view EXCEPT !.connected = TRUE]
  /\ UNCHANGED <<calls, spent>>

\* An event reaches the handlers of the page, and the pill.
Delivered ==
  /\ server.queue # << >>
  /\ LET event == Head(server.queue)
         heeded == view.kind = "overview" \/ event.about = "mine"
     IN  /\ server' = [server EXCEPT !.queue = Tail(@)]
         /\ view' = [view EXCEPT !.refreshing = @ \/ heeded]
         /\ calls' = calls \o (IF heeded THEN <<Reading(event.guard)>> ELSE << >>) \o <<Count>>
         /\ UNCHANGED spent

\* Mutant: the fallback asks once, for want of a first reading.
Poll_First(op) ==
  /\ ~view.connected /\ ~Waiting({op}) /\ (op = "load" => view.kind = "overview" /\ view.data = Unread)
  /\ view' = [view EXCEPT !.refreshing = @ \/ op = "load"]
  /\ calls' = Append(calls, IF op = "load" THEN Reading(FALSE) ELSE Count)
  /\ UNCHANGED <<server, spent>>

\* The fallback lives while the stream is known to be dead; the detail has none.
Poll(op) ==
  /\ ~view.connected /\ ~Waiting({op}) /\ (op = "load" => view.kind = "overview")
  /\ view' = [view EXCEPT !.refreshing = @ \/ op = "load"]
  /\ calls' = Append(calls, IF op = "load" THEN Reading(FALSE) ELSE Count)
  /\ UNCHANGED <<server, spent>>

ServeOne(k) ==
  /\ calls[k].phase = "sent" /\ (InOrder => \A j \in 1..(k - 1) : calls[j].phase # "sent")
  /\ calls' = [calls EXCEPT ![k].phase = "done",
                            ![k].reply = IF calls[k].op = "load" THEN DataOf(view.kind, server) ELSE Total(server)]
  /\ spent' = [spent EXCEPT !.missed = @ \ {IF calls[k].op = "load" THEN "page" ELSE "pill"}]
  /\ UNCHANGED <<server, view>>

-----------------------------------------------------------------------------
(* The answers. *)

\* Mutant: what was read first is what every reading is compared with.
Read_SinceFirst(v, data) ==
  [v EXCEPT !.data = data, !.before = IF @ = Unread THEN data ELSE @, !.error = FALSE,
            !.loading = FALSE, !.refreshing = FALSE,
            !.said = IF v.before \notin {Unread, data} THEN "change" ELSE None]

\* `load': the first reading announces nothing.
Read(v, data) ==
  [v EXCEPT !.data = data, !.before = data, !.error = FALSE, !.loading = FALSE, !.refreshing = FALSE,
            !.said = IF v.before \notin {Unread, data} THEN "change" ELSE None]

\* What `announce' says appeared.
Appeared(v, data) == IF v.before = Unread \/ data <= v.before THEN 0 ELSE data - v.before

HandleReading(k) ==
  /\ calls[k].op = "load" /\ calls[k].phase = "done"
  /\ InOrder => k = 1
  /\ view' = LET v == Read(view, calls[k].reply) IN IF calls[k].arg THEN [v EXCEPT !.said = "guard"] ELSE v
  /\ spent' = [spent EXCEPT !.told = @ + Appeared(view, calls[k].reply),
                            !.first = IF @ = Unread THEN calls[k].reply ELSE @]
  /\ calls' = Others(k)
  /\ UNCHANGED server

\* A reading that fails keeps what was read.
HandleFailure(k) ==
  /\ calls[k].op = "load"
  /\ Settle(k, "refused",
            [view EXCEPT !.error = TRUE, !.loading = FALSE, !.refreshing = FALSE,
                         !.said = IF calls[k].arg THEN "guard" ELSE @], << >>)

\* A count that fails shows no count, rather than one that may be false.
HandleCount(k) ==
  /\ calls[k].op = "count"
  /\ \/ Settle(k, "done", [view EXCEPT !.pill = calls[k].reply], << >>)
     \/ Settle(k, "refused", [view EXCEPT !.pill = Unread], << >>)

Next ==
  \/ \E i \in Supervised, by \in {1, -1}, guard \in BOOLEAN : Changes(i, by, guard)
  \/ Breaks \/ SeesItBroken \/ Reconnects \/ Delivered
  \/ \E op \in {"load", "count"} : Poll(op)
  \/ \E k \in DOMAIN calls :
       ServeOne(k) \/ Fail(k) \/ HandleReading(k) \/ HandleFailure(k) \/ HandleCount(k)

GoesOn == \E k \in DOMAIN calls : ServeOne(k) \/ HandleReading(k) \/ HandleFailure(k) \/ HandleCount(k)

Fairness ==
  /\ WF_vars(SeesItBroken)
  /\ \A op \in {"load", "count"} : WF_vars(Poll(op))
  /\ WF_vars(GoesOn)

Spec == Init /\ [][Next]_vars /\ Fairness

-----------------------------------------------------------------------------
(* Properties. *)

Quiet == calls = << >> /\ server.queue = << >>

\* Once nothing is under way, the page shows what the server holds, unless an event was
\* lost since it was last read or it says that it could not read.
PageIsFresh == InOrder /\ Quiet /\ "page" \notin spent.missed /\ ~view.error => view.data = DataOf(view.kind, server)

\* "Un zero invente annoncerait le calme": the same of the pill, that is empty when in doubt.
PillIsTrue == InOrder /\ Quiet /\ "pill" \notin spent.missed => view.pill \in {Unread, Total(server)}

\* What `announce' finds new on the overview adds up: no critical is counted twice, none that
\* is shown was left out (the message of the guard may then take the place of this one).
CriticalsAreAnnouncedOnce ==
  InOrder /\ view.kind = "overview" /\ view.data # Unread =>
    /\ view.data <= spent.first + spent.told
    /\ spent.told <= spent.raised

\* The overview says what the server holds.
OverviewIsTrue == view.kind = "overview" => view.data = Total(server) /\ ~view.error

\* "Repli lorsque le flux temps reel est interrompu": while the stream stays dead, the
\* overview ends up showing what the server holds.
PollCatchesUp == <>[](~server.open) => <>[]OverviewIsTrue
=============================================================================
