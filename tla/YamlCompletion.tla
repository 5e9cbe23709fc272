--------------------------- MODULE YamlCompletion ---------------------------
(***************************************************************************)
(* The words that the editor of a rule proposes at the caret, which stands *)
(* at the end of a line (lib/yamlComplete.ts, YamlEditor in                *)
(* lib/yamlHighlight.tsx): what is proposed there, and what becomes of it  *)
(* while the text goes on changing.                                        *)
(*                                                                         *)
(* A line is a form: a bare word (a key being written, or SQL), a field, a *)
(* bullet, a comment, or a template that is open.  A fragment is nothing,  *)
(* the initial of some words, a whole word, or SQL that starts none.       *)
(***************************************************************************)
EXTENDS Requests

TopLevel == <<"category", "condition", "query", "requires", "recommendation">>
RequiresKeys == <<"views", "primary">>
RecommendationKeys == <<"title", "impact">>
Initial ==
  [category |-> "c", condition |-> "c", query |-> "q", requires |-> "r", recommendation |-> "r",
   views |-> "v", primary |-> "p", title |-> "t", impact |-> "i", storage |-> "s", true |-> "t",
   false |-> "f", low |-> "l", pg_locks |-> "p", coalesce |-> "c", bytes |-> "b"]
Select == "SELECT"
Mangled == "mangled"

Line(indent, form, key, fragment) == [indent |-> indent, form |-> form, key |-> key, fragment |-> fragment]
Key(indent, key) == Line(indent, "field", key, "")
Sql(indent) == Line(indent, "word", None, Select)
MangledLine == Line(0, "word", None, Mangled)

\* The lines above, and the lines that may be written under them.
Documents ==
  LET views == <<Key(0, "requires"), Key(1, "views")>>
  IN  {<< >>, <<Key(0, "category"), Key(0, "recommendation")>>, views, Append(views, Line(0, "remark", None, "")),
       Append(views, Line(2, "bullet", None, "pg_locks")), <<Key(0, "query"), Sql(1)>>}
Lines ==
  LET Written(indent) ==
        {Line(indent, "word", None, f) : f \in {"", "c", "v", Select}}
          \union (UNION {{Line(indent, "field", k, f) : f \in {"", "t"}} : k \in {"category", "primary", "impact"}})
          \union {Line(indent, "bullet", None, f) : f \in {"", "p"}}
          \union {Line(indent, "template", k, "") : k \in {None, "|"}} \union {Line(indent, "remark", None, "")}
  IN  UNION {Written(indent) : indent \in 0..2}

NoList == [items |-> << >>, of |-> << >>]

Init ==
  /\ server = None /\ calls = << >>
  /\ \E doc \in Documents :
       view = [doc |-> doc, line |-> Line(0, "word", None, ""), list |-> NoList, active |-> 0, frame |-> FALSE]
  /\ Unspent([hasty |-> FALSE])

-----------------------------------------------------------------------------
(* What can be proposed. *)

\* The first line above that is less indented, when it opens a block.
ParentKey(doc, indent) ==
  LET above == {k \in DOMAIN doc : doc[k].form # "remark" /\ doc[k].indent < indent}
  IN  IF above = {} THEN None ELSE doc[CHOOSE k \in above : \A j \in above : j <= k].key

ValuesFor(key, parent) ==
  CASE parent = "recommendation" -> IF key = "impact" THEN <<"low">> ELSE << >>
    [] parent = "requires" -> IF key = "primary" THEN <<"true", "false">> ELSE << >>
    [] OTHER -> IF key = "category" THEN <<"storage">> ELSE << >>

KeysFor(parent) ==
  CASE parent = "requires" -> RequiresKeys
    [] parent = "recommendation" -> RecommendationKeys
    [] parent = None -> TopLevel
    [] OTHER -> << >>

ItemsFor(parent) == IF parent = "views" THEN <<"pg_locks">> ELSE << >>

\* `narrow': an empty fragment proposes everything.
Narrow(items, fragment) == SelectSeq(items, LAMBDA word : fragment \in {"", Initial[word], word})

CompletionAt(doc, line) ==
  LET parent == ParentKey(doc, line.indent)
  IN  IF line.form = "remark" \/ (line.form # "template" /\ parent = "query") THEN << >>
      ELSE CASE line.form = "template" -> Narrow(IF line.key = "|" THEN <<"bytes">> ELSE <<"coalesce">>, line.fragment)
             [] line.form = "bullet" -> Narrow(ItemsFor(parent), line.fragment)
             [] line.form = "word" -> Narrow(KeysFor(parent), line.fragment)
             [] line.form = "field" -> Narrow(ValuesFor(line.key, parent), line.fragment)

-----------------------------------------------------------------------------
(* The editor. *)

\* A list keeps the bounds of the fragment it was computed for.
Refreshed(v) ==
  LET items == CompletionAt(v.doc, v.line)
  IN  [v EXCEPT !.list = IF items = << >> THEN NoList ELSE [items |-> items, of |-> <<v.doc, v.line>>], !.active = 0]

Listed == view.list # NoList

\* A key, a deletion, a paste: the list follows after the render.
Write(line) == line # view.line /\ Gesture([view EXCEPT !.line = line, !.frame = TRUE], << >>)

Frame ==
  /\ view.frame
  /\ view' = Refreshed([view EXCEPT !.frame = FALSE])
  /\ UNCHANGED <<server, calls, spent>>

\* Ctrl+Space, or a click in the text.
Ask == Gesture(Refreshed(view), << >>)

\* Escape, a scroll, or the focus that leaves.
Dismiss == Listed /\ Gesture([view EXCEPT !.list = NoList], << >>)

Arrow(step) ==
  LET n == Len(view.list.items)
  IN  Listed /\ Gesture([view EXCEPT !.active = (@ + step + n) % n], << >>)

Hover(index) == Listed /\ Gesture([view EXCEPT !.active = index], << >>)

\* The word takes the place of the fragment, wherever the text has gone since.
Completed(line, word) ==
  IF line.form = "word" THEN Key(line.indent, word) ELSE [line EXCEPT !.fragment = word]

Accept ==
  /\ Listed /\ view.active < Len(view.list.items)
  /\ spent.moves < MaxMoves
  /\ spent' = [spent EXCEPT !.moves = @ + 1, !.hasty = @ \/ view.frame]
  /\ LET word == view.list.items[view.active + 1]
         line == IF view.list.of = <<view.doc, view.line>> THEN Completed(view.line, word)
                 ELSE MangledLine
     IN  view' = [view EXCEPT !.line = line, !.list = NoList]
  /\ UNCHANGED <<server, calls>>

\* The page puts another text under the editor: what the server answered.
Replace(doc) ==
  /\ doc # view.doc /\ spent.moves < MaxMoves
  /\ spent' = [spent EXCEPT !.moves = @ + 1, !.hasty = @ \/ Listed]
  /\ view' = [view EXCEPT !.doc = doc]
  /\ UNCHANGED <<server, calls>>

Next ==
  \/ \E line \in Lines : Write(line)
  \/ Frame \/ Ask \/ Dismiss \/ Accept
  \/ \E step \in {-1, 1} : Arrow(step)
  \/ \E index \in 0..(Len(view.list.items) - 1) : Hover(index)
  \/ \E doc \in Documents : Replace(doc)

Spec == Init /\ [][Next]_vars

TypeOK ==
  /\ view.doc \in Documents /\ view.frame \in BOOLEAN /\ view.active \in Nat
  /\ view.list # NoList => view.list.items # << >>

-----------------------------------------------------------------------------
(* Properties. *)

\* What may be written in a block, read from the top: the keys that are open after each line, innermost last.
Block(doc, indent) ==
  LET Enclosing(path, n) == SelectSeq(path, LAMBDA k : k.indent < n)
      path[k \in 0..Len(doc)] ==
        IF k = 0 THEN << >>
        ELSE IF doc[k].form = "remark" THEN path[k - 1]
        ELSE IF doc[k].form # "field" THEN Enclosing(path[k - 1], doc[k].indent)
        ELSE Append(Enclosing(path[k - 1], doc[k].indent), doc[k])
      enclosing == Enclosing(path[Len(doc)], indent)
  IN  IF enclosing = << >> THEN None ELSE enclosing[Len(enclosing)].key

\* "Distingue `views:' sous `requires:' de `title:' sous `recommendation:'": a key is proposed in the
\* block that has it, and in the text of a query nothing is; but a query is taken for a block
\* of keys again from its second level of indentation on, which this leaves out.
ProposalsFitTheBlock ==
  LET doc == view.list.of[1]
      line == view.list.of[2]
      block == Block(doc, line.indent)
      allowed == CASE block = "requires" -> {"views", "primary"}
                   [] block = "recommendation" -> {"title", "impact"}
                   [] block = None -> {TopLevel[i] : i \in DOMAIN TopLevel}
                   [] OTHER -> {}
      deep == block = "query" /\ line.indent > 1
  IN  Listed /\ line.form = "word" /\ ~deep => \A i \in DOMAIN view.list.items : view.list.items[i] \in allowed

\* "Insere la proposition a la place du fragment en cours": a word that is accepted replaces what it was
\* proposed for, unless it is accepted before the list caught up with the text, or the page
\* replaced the text under an open list.
AcceptedTakesItsPlace == view.line = MangledLine => spent.hasty

\* The word that Enter would insert is one of the list, whatever list replaced the one it was chosen in.
ChosenIsListed == Listed => view.active < Len(view.list.items)
=============================================================================
