-------------------------- MODULE FindingsFilters --------------------------
(***************************************************************************)
(* The filters, the sort and the search of the list of the findings        *)
(* (pages/FindingsPage.tsx, MultiSelect and Tabs in ui/primitives.tsx).    *)
(* They live in the address of the page, which links lead to; the search   *)
(* is typed in a field of its own, and written there after a while.        *)
(*                                                                         *)
(* The list is what the server holds: FindingsPage says how it is read.    *)
(***************************************************************************)
EXTENDS Requests

Findings == {1, 2, 3}
Statuses == {"active", "resolved", "all"}
Severity == <<"critical", "critical", "info">>
Category == <<"storage", "locks", "storage">>
DetectedAt == <<1, 2, 3>>
Texts == {"", "a", "ab"}
Matches(f, text) == text = "" \/ (text = "a" /\ f # 2) \/ (text = "ab" /\ f = 3)
SortKeys == {"severity", "category", "detected"}

\* The address of a link to the page.
Address(severity, category, search) ==
  [status |-> "active", severity |-> severity, category |-> category, search |-> search,
   sort |-> "severity", descending |-> FALSE]
Links == {Address({}, {}, ""), Address({"critical"}, {}, ""), Address({}, {"storage"}, ""), Address({}, {}, "a")}

\* `draft' is what the field shows, `applied' what it last took for the address.
Init ==
  /\ server = Findings /\ calls = << >>
  /\ \E url \in Links : view = [url |-> url, draft |-> url.search, applied |-> url.search]
  /\ Unspent([cleared |-> FALSE])

-----------------------------------------------------------------------------
(* What is shown. *)

ListOf(status) ==
  CASE status = "active" -> server [] status = "resolved" -> Findings \ server [] status = "all" -> Findings

\* `filtered': an empty selection is no filter.
Selected(values, value) == values = {} \/ value \in values
Filtered(url) ==
  {f \in ListOf(url.status) :
     Selected(url.severity, Severity[f]) /\ Selected(url.category, Category[f]) /\ Matches(f, url.search)}

\* Whether "clear the filters" is there.
Filtering(url) == url.severity # {} \/ url.category # {} \/ url.search # ""

\* SEVERITY_RANK, and the alphabet.
SeverityRank == [critical |-> 0, info |-> 2]
CategoryRank == [locks |-> 0, storage |-> 1]
Compared(key, f, g) ==
  CASE key = "severity" -> SeverityRank[Severity[f]] - SeverityRank[Severity[g]]
    [] key = "category" -> CategoryRank[Category[f]] - CategoryRank[Category[g]]
    [] key = "detected" -> DetectedAt[f] - DetectedAt[g]

\* `ordered': the most recent first among equals, in both directions.
Before(url, f, g) ==
  LET compared == Compared(url.sort, f, g) * (IF url.descending THEN -1 ELSE 1)
  IN  compared < 0 \/ (compared = 0 /\ DetectedAt[f] > DetectedAt[g])

\* The active findings that are critical, for the figure of the header and its button.
Criticals == {f \in server : Severity[f] = "critical"}
ButtonShown(url) == Criticals # {} /\ ~(url.status = "active" /\ url.severity = {"critical"})

-----------------------------------------------------------------------------
(* The address and the field. *)

\* The field follows an address that is not the one it wrote.
Followed(v) ==
  IF v.url.search = v.applied THEN v ELSE [v EXCEPT !.draft = v.url.search, !.applied = v.url.search]

Go(url) == url # view.url /\ Gesture(Followed([view EXCEPT !.url = url]), << >>)

Remembering(cleared) ==
  /\ spent.moves < MaxMoves
  /\ spent' = [spent EXCEPT !.moves = @ + 1, !.cleared = cleared]
  /\ UNCHANGED <<server, calls>>

Type(text) ==
  /\ text # view.draft
  /\ view' = [view EXCEPT !.draft = text]
  /\ Remembering(FALSE)

\* The timer runs as long as the field holds something else than it applied.
Pending == view.draft # view.applied
SearchFires ==
  /\ Pending
  /\ view' = [view EXCEPT !.applied = view.draft, !.url.search = view.draft]
  /\ UNCHANGED <<server, calls, spent>>

\* A search that waits is given up, unless no search was applied yet: there is nothing to follow then.
ClearFilters ==
  /\ Filtering(view.url)
  /\ view' = Followed([view EXCEPT !.url.severity = {}, !.url.category = {}, !.url.search = ""])
  /\ Remembering(view.applied # "" \/ ~Pending)

\* One value, or all of them; taking the last one away lifts the filter.
Choose(key, value) ==
  Go([view.url EXCEPT ![key] = IF value \in @ THEN @ \ {value} ELSE @ \union {value}])
ChooseAll(key, values) == Go([view.url EXCEPT ![key] = IF @ = values THEN {} ELSE values])

SwitchTab(status) == Go([view.url EXCEPT !.status = status])

ToggleSort(key) ==
  Go([view.url EXCEPT !.sort = key, !.descending = key = view.url.sort /\ ~view.url.descending])

ShowCritical ==
  /\ ButtonShown(view.url)
  /\ Go([view.url EXCEPT !.status = "active", !.severity = {"critical"}])

\* The menu leads to the bare page.
FollowLink == Go(Address({}, {}, ""))

\* A pass resolves a finding, or detects it again.
Changes(f) ==
  /\ server' = IF f \in server THEN server \ {f} ELSE server \union {f}
  /\ Spend
  /\ UNCHANGED <<view, calls>>

Next ==
  \/ \E text \in Texts : Type(text)
  \/ SearchFires \/ ClearFilters \/ ShowCritical \/ FollowLink
  \/ \E value \in {"critical", "info"} : Choose("severity", value)
  \/ \E value \in {"storage", "locks"} : Choose("category", value)
  \/ ChooseAll("severity", {"critical", "info"})
  \/ (\E status \in Statuses : SwitchTab(status)) \/ (\E key \in SortKeys : ToggleSort(key))
  \/ \E f \in Findings : Changes(f)

Spec == Init /\ [][Next]_vars

TypeOK ==
  /\ view.url.status \in Statuses /\ view.url.sort \in SortKeys
  /\ {view.url.search, view.draft, view.applied} \subseteq Texts

-----------------------------------------------------------------------------
(* Properties. *)

\* "La saisie suit l'URL, qui reste la source de verite": when no search waits to be applied, the
\* field shows the one that filters the list.
FieldFollowsTheAddress == ~Pending => view.draft = view.url.search

\* Filters that were cleared stay so until something is typed; but a first search typed just before
\* they were is applied nevertheless, which this leaves out.
ClearedStaysClear == spent.cleared => view.url.search = ""

\* Nothing is hidden for good: when a row is missing, the filters can be cleared, and a critical
\* finding counted in the header is in the list, or a button leads there.
HiddenCanBeShown ==
  /\ Filtered(view.url) # ListOf(view.url.status) => Filtering(view.url)
  /\ Criticals \subseteq Filtered(view.url) \/ ButtonShown(view.url) \/ Filtering(view.url)

\* Findings that were not detected together have one order only, in both directions of every sort.
OrderIsDecided ==
  /\ \A f, g \in Findings : f # g => (Before(view.url, f, g) <=> ~Before(view.url, g, f))
  /\ \A f, g, h \in Findings : Before(view.url, f, g) /\ Before(view.url, g, h) => Before(view.url, f, h)
=============================================================================
