----------------------------- MODULE Navigation -----------------------------
(***************************************************************************)
(* The column of navigation (components/layout/Sidebar.tsx): its sections, *)
(* folded or not, the column collapsed to icons with a bubble for each     *)
(* section, and the count of the active findings, which is read once by    *)
(* the shell and is not known when the reading failed.                     *)
(***************************************************************************)
EXTENDS Requests, Functions

\* The sections that have entries, with the pages they lead to.
Sections == {"supervision", "configuration"}
Entries(admin) ==
  [supervision |-> {"instances", "findings", "queries"},
   configuration |-> {"rules", "webhooks"} \union (IF admin THEN {"users"} ELSE {})]
Counted == {"findings"}
Pages == {"overview", "instances", "findings", "rules", "users"}
Unknown == -1

\* `isActivePath'; a page is a path, and the pages under it.
IsIn(v, section) == v.path \in Entries(v.admin)[section]

\* A section is open at first when it has the page.
Init ==
  /\ server = None /\ calls = << >>
  /\ \E path \in Pages, admin, collapsed \in BOOLEAN :
       view = [path |-> path, admin |-> admin, collapsed |-> collapsed, counts |-> Unknown, flyouts |-> {},
               open |-> [s \in Sections |-> path \in Entries(admin)[s]]]
  /\ Unspent([folded |-> {}])

-----------------------------------------------------------------------------
(* The counts. *)

\* `countsFor': zero is not shown.
CountOf(v, entry) == IF entry \in Counted /\ v.counts > 0 THEN v.counts ELSE 0

\* `rollUp': the sum of the entries of a section.
RolledUp(v, section) ==
  LET counts == [e \in Entries(v.admin)[section] |-> CountOf(v, e)]
  IN  FoldFunction(LAMBDA a, b : a + b, 0, counts)

\* The entries that are on screen, each with its own badge.
Listed(v, section) ==
  IF v.collapsed THEN section \in v.flyouts ELSE v.open[section]

\* The badge on the title of a folded section, or the dot on the icon of a collapsed one.
OnTitle(v, section) == IF ~v.collapsed /\ v.open[section] THEN 0 ELSE RolledUp(v, section)

-----------------------------------------------------------------------------
(* The gestures. *)

Move(v, folded) ==
  /\ v # view
  /\ spent.moves < MaxMoves
  /\ spent' = [spent EXCEPT !.moves = @ + 1, !.folded = folded]
  /\ view' = v
  /\ UNCHANGED <<server, calls>>

\* A section opens when the page enters it; it is not folded when the page leaves it.
Visited(v, path) ==
  LET w == [v EXCEPT !.path = path]
  IN  [w EXCEPT !.open = [s \in Sections |-> @[s] \/ (IsIn(w, s) /\ ~IsIn(v, s))]]

\* From a link of the page, the history, or an entry of a section, which also closes its bubble.
Visit(path) ==
  /\ path = "users" => view.admin
  /\ Move(Visited(view, path), {s \in spent.folded : IsIn(view, s) /\ path \in Entries(view.admin)[s]})
FollowEntry(section, path) ==
  /\ path \in Entries(view.admin)[section] /\ Listed(view, section)
  /\ Move([Visited(view, path) EXCEPT !.flyouts = @ \ {section}],
          {s \in spent.folded : IsIn(view, s) /\ path \in Entries(view.admin)[s]})

Toggle(section) ==
  /\ ~view.collapsed
  /\ Move([view EXCEPT !.open[section] = ~@],
          IF view.open[section] THEN spent.folded \union {section} ELSE spent.folded \ {section})

\* A bubble disappears with the collapsed section it hangs from.
Collapse == Move([view EXCEPT !.collapsed = ~@, !.flyouts = {}], spent.folded)

\* The pointer enters a section while the focus is in another: each has its bubble.  They leave, the
\* button is pressed again, Escape; a scroll or another size of the window closes them all.
OpenFlyout(section) == view.collapsed /\ Move([view EXCEPT !.flyouts = @ \union {section}], spent.folded)
CloseFlyouts(sections) == Move([view EXCEPT !.flyouts = @ \ sections], spent.folded)

\* The shell reads the counts again, or cannot.
Count(n) == Move([view EXCEPT !.counts = n], spent.folded)

Next ==
  \/ \E path \in Pages : Visit(path) \/ \E section \in Sections : FollowEntry(section, path)
  \/ \E section \in Sections : Toggle(section) \/ OpenFlyout(section) \/ CloseFlyouts({section})
  \/ Collapse \/ CloseFlyouts(Sections)
  \/ \E n \in {Unknown, 0, 3} : Count(n)

Spec == Init /\ [][Next]_vars

TypeOK ==
  /\ view.path \in Pages /\ view.open \in [Sections -> BOOLEAN] /\ view.flyouts \subseteq Sections
  /\ view.flyouts # {} => view.collapsed

-----------------------------------------------------------------------------
(* Properties. *)

\* "Replier un menu range des liens, cela n'eteint pas ce qu'ils annoncent": what waits is on screen
\* however the column is folded, and is not written twice in the open one; nothing is
\* announced when the count is not known.
CountIsNeverHidden ==
  LET Entry(s) == {e \in Entries(view.admin)[s] : Listed(view, s) /\ CountOf(view, e) > 0}
      seen == {s \in Sections : OnTitle(view, s) > 0 \/ Entry(s) # {}}
  IN  /\ (view.counts > 0) <=> (seen # {})
      /\ ~view.collapsed => \A s \in seen : OnTitle(view, s) > 0 <=> Entry(s) = {}

\* "L'utilisateur voit immediatement ou il se trouve": the section of the page is open, unless it was
\* folded since the page is in it.
PlaceIsShown == \A s \in Sections : IsIn(view, s) => view.open[s] \/ s \in spent.folded
=============================================================================
