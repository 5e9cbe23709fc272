------------------------------ MODULE RulesPage ------------------------------
(***************************************************************************)
(* The catalogue of the rules (pages/RulesPage.tsx): it is read in two     *)
(* requests, rules and refused files, again at each event of the catalogue *)
(* or of the guard; the table is filtered and sorted, and a notice leads   *)
(* to the rules the guard watches.                                         *)
(*                                                                         *)
(* A rule has a rank among the names, a category, an activation and what   *)
(* the guard says of it on the instances; a refused file has only a name.  *)
(***************************************************************************)
EXTENDS Requests

CONSTANT Rules   \* the rules, each by its rank among the names

Watched == {"degraded", "quarantined"}
Tags == {"enabled", "disabled"} \union Watched
Columns == {"rule", "category", "state"}
NoFilters == [category |-> {}, state |-> {}]

Rule(enabled, health) == [category |-> "storage", enabled |-> enabled, health |-> health]

\* A reading of the catalogue, for the page or at the end of a reload: of its two parts, none is there yet.
Load(from) == [Request("load", from) EXCEPT !.reply = << >>]

Init ==
  \E enabled \in SUBSET Rules, watched \in SUBSET Rules :
    /\ server = [rules |-> [r \in Rules |-> Rule(r \in enabled, IF r \in watched THEN Watched ELSE {})],
                 errors |-> {}, event |-> None]
    /\ view = [rules |-> << >>, errors |-> {}, loading |-> TRUE, failure |-> FALSE, reloading |-> FALSE, said |-> None,
               filters |-> NoFilters, column |-> "rule", descending |-> FALSE]
    /\ calls = <<Load("page")>>
    /\ Unspent(NoHistory)

TypeOK ==
  /\ DOMAIN view.rules \subseteq Rules /\ view.errors \subseteq Rules
  /\ DOMAIN server.rules = Rules \ server.errors
  /\ view.filters.state \subseteq Tags /\ view.column \in Columns
  /\ view.said \in {None, "reloaded", "guard"}

-----------------------------------------------------------------------------
(* What the table shows. *)

\* `stateTags': activation, and what the guard says.
StateTags(rule) == {IF rule.enabled THEN "enabled" ELSE "disabled"} \union rule.health

\* `filtered'.
Filtered(rules, filters) ==
  {r \in DOMAIN rules : /\ filters.category # {} => rules[r].category \in filters.category
                        /\ filters.state # {} => StateTags(rules[r]) \cap filters.state # {}}

\* `stateRank': the most worrying first.
StateRank(rule) ==
  CASE "quarantined" \in rule.health -> 0
    [] "degraded" \in rule.health /\ "quarantined" \notin rule.health -> 1
    [] OTHER -> IF rule.enabled THEN 2 ELSE 3

CategoryRank(rule) == IF rule.category = "storage" THEN 0 ELSE 1

Compared(rules, column, a, b) ==
  CASE column = "rule" -> 0
    [] column = "category" -> CategoryRank(rules[a]) - CategoryRank(rules[b])
    [] column = "state" -> StateRank(rules[a]) - StateRank(rules[b])

\* `ordered': the name decides between equals, in the same direction.
Before(v, a, b) ==
  LET by == Compared(v.rules, v.column, a, b)
      all == IF by # 0 THEN by ELSE a - b
  IN  IF v.descending THEN all > 0 ELSE all < 0

Quarantined(rules) == {r \in DOMAIN rules : "quarantined" \in rules[r].health}
Degraded(rules) == {r \in DOMAIN rules : "degraded" \in rules[r].health} \ Quarantined(rules)

\* `showGuarded'.
Guarded(rules) ==
  (IF Quarantined(rules) # {} THEN {"quarantined"} ELSE {}) \union (IF Degraded(rules) # {} THEN {"degraded"} ELSE {})

-----------------------------------------------------------------------------
(* The gestures. *)

Shown == ~view.loading

SetFilter(key, values) ==
  /\ Shown /\ view.filters[key] # values
  /\ Gesture([view EXCEPT !.filters[key] = values], << >>)

ShowGuarded ==
  /\ Shown /\ Guarded(view.rules) # {}
  /\ Gesture([view EXCEPT !.filters.state = Guarded(view.rules)], << >>)

ClearFilters ==
  /\ view.filters # NoFilters
  /\ Gesture([view EXCEPT !.filters = NoFilters], << >>)

\* A new column opens in ascending order, the same one is reversed.
ToggleSort(column) ==
  /\ Shown
  /\ Gesture([view EXCEPT !.column = column, !.descending = column = view.column /\ ~@], << >>)

Reload ==
  /\ Shown /\ ~view.reloading
  /\ Gesture([view EXCEPT !.reloading = TRUE], <<Request("reload", None)>>)

-----------------------------------------------------------------------------
(* The server. *)

\* The guard watches a rule on an instance, or ceases to.
Guards(r, health) ==
  /\ r \in DOMAIN server.rules /\ server.rules[r].health # health /\ ~Underway
  /\ Spend
  /\ server' = [server EXCEPT !.rules[r].health = health, !.event = "guard"]
  /\ UNCHANGED <<view, calls>>

\* A file is written on the volume: its rule is refused, or accepted with another category.
Rewritten(r) ==
  /\ ~Underway
  /\ Spend
  /\ server' = IF r \in server.errors
                 THEN [server EXCEPT !.errors = @ \ {r}, !.event = "reloaded",
                                     !.rules = [x \in DOMAIN @ \union {r} |->
                                                  IF x = r THEN [Rule(TRUE, {}) EXCEPT !.category = "memory"] ELSE @[x]]]
                 ELSE [server EXCEPT !.errors = @ \union {r}, !.event = "reloaded",
                                     !.rules = [x \in DOMAIN @ \ {r} |-> @[x]]]
  /\ UNCHANGED <<view, calls>>

\* Both kinds of events are announced, and the catalogue is read again.
EventArrives ==
  /\ Underway
  /\ server' = [server EXCEPT !.event = None]
  /\ view' = [view EXCEPT !.said = server.event]
  /\ calls' = Append(calls, Load("page"))
  /\ UNCHANGED spent

Part(s, part) == IF part = "rules" THEN s.rules ELSE s.errors

\* The two readings of a load are two requests; what was lost before the first of them is
\* served is told by both.
ServeLoad(k, part) ==
  /\ calls[k].op = "load" /\ calls[k].phase = "sent"
  /\ InOrder => \A j \in 1..(k - 1) : calls[j].phase # "sent"
  /\ LET next == [x \in DOMAIN calls[k].reply \union {part} |-> IF x = part THEN Part(server, part) ELSE calls[k].reply[x]]
     IN  /\ part \notin DOMAIN calls[k].reply
         /\ calls' = [calls EXCEPT ![k].reply = next,
                                   ![k].phase = IF DOMAIN next = {"rules", "errors"} THEN "done" ELSE "sent"]
         /\ server' = IF DOMAIN calls[k].reply = {} THEN CaughtUp(server) ELSE server
  /\ UNCHANGED <<view, spent>>

ServeReload(k) == calls[k].op = "reload" /\ Serve(k, [server EXCEPT !.event = "reloaded"], None)

-----------------------------------------------------------------------------
(* The answers. *)

\* `reload' waits for its `load', which says itself what fails.
Then(c) == IF c.op = "reload" THEN <<Load("reload")>> ELSE << >>

HandleAnswer(k) ==
  LET c == calls[k]
  IN  Settle(k, "done",
        IF c.op = "reload" THEN view
        ELSE [view EXCEPT !.rules = c.reply.rules, !.errors = c.reply.errors, !.loading = FALSE, !.failure = FALSE,
                          !.reloading = @ /\ c.arg # "reload", !.said = IF c.arg = "reload" THEN "reloaded" ELSE @],
        Then(c))

HandleRefusal(k) ==
  LET c == calls[k]
  IN  Settle(k, "refused",
             [view EXCEPT !.failure = TRUE, !.loading = @ /\ c.op # "load",
                          !.reloading = @ /\ ~(c.op = "reload" \/ c.arg = "reload"),
                          !.said = IF c.arg = "reload" THEN "reloaded" ELSE @], << >>)

Next ==
  \/ \E r \in Rules : Rewritten(r) \/ \E health \in {{}, {"degraded"}, {"quarantined"}} : Guards(r, health)
  \/ \E values \in {{}, {"storage"}} : SetFilter("category", values)
  \/ \E values \in {{}, {"enabled"}, {"disabled"}, Watched} : SetFilter("state", values)
  \/ \E column \in Columns : ToggleSort(column)
  \/ ShowGuarded \/ ClearFilters \/ Reload \/ EventArrives \/ EventLost
  \/ \E k \in DOMAIN calls :
       \/ \E part \in {"rules", "errors"} : ServeLoad(k, part)
       \/ ServeReload(k) \/ Fail(k) \/ HandleAnswer(k) \/ HandleRefusal(k)

Spec == Init /\ [][Next]_vars

-----------------------------------------------------------------------------
(* Properties. *)

\* Once nothing is under way and nothing failed, the catalogue and the refused files are
\* those of the server: no rule is in both, nor in neither, though they are read apart.
\* An event that is lost leaves them stale until they are read again.
CatalogueIsTrue ==
  InOrder /\ calls = << >> /\ server.event = None /\ spent.faults = 0
    => view.rules = server.rules /\ view.errors = server.errors

\* "Ramene le tableau sur les seules regles que le garde-fou a signalees": on these, and,
\* without another filter, on all of them.
GuardedAreShown ==
  Guarded(view.rules) # {} =>
    Filtered(view.rules, [NoFilters EXCEPT !.state = Guarded(view.rules)])
      = {r \in DOMAIN view.rules : view.rules[r].health # {}}

\* "Sans quoi la liste bouge a chaque rechargement": of two rules one always comes first,
\* and reversing the column reverses every pair.
OrderIsDecided ==
  \A a, b \in DOMAIN view.rules : a # b =>
    /\ Before(view, a, b) = ~Before(view, b, a)
    /\ Before([view EXCEPT !.descending = ~@], a, b) = ~Before(view, a, b)

\* The button of the reload is busy for as long as something is awaited, no more.
ReloadEnds == view.reloading => \E k \in DOMAIN calls : calls[k].op = "reload" \/ calls[k].arg = "reload"
=============================================================================
