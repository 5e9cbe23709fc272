------------------------------- MODULE WebApp -------------------------------
(***************************************************************************)
(* The front-end (pg-advisor-web/src/App.tsx): one page is mounted at a    *)
(* time.  Two parts of a page that ask nothing of the server and hold what *)
(* the operator typed (the filters of the findings, the completion of the  *)
(* editor) are systems of their own, beside the pages: this is the         *)
(* composition of them all.                                                *)
(***************************************************************************)
EXTENDS Pages

Filters == INSTANCE FindingsFilters WITH MaxMoves <- Moves["filters"], Orders <- OrdersOn("filters")
Completion == INSTANCE YamlCompletion WITH MaxMoves <- Moves["completion"], Orders <- OrdersOn("completion")

Init ==
  \/ On("session") /\ Session!Init
  \/ On("live") /\ Live!Init
  \/ On("findings") /\ Findings!Init
  \/ On("rules") /\ Catalogue!Init
  \/ On("editor") /\ Editor!Init
  \/ On("instances") /\ Targets!Init
  \/ On("webhooks") /\ Webhooks!Init
  \/ On("users") /\ Users!Init
  \/ On("queries") /\ Rankings!Init
  \/ On("filters") /\ Filters!Init
  \/ On("completion") /\ Completion!Init

Next ==
  \/ On("session") /\ UNCHANGED page /\ Session!Next
  \/ On("live") /\ UNCHANGED page /\ Live!Next
  \/ On("findings") /\ UNCHANGED page /\ Findings!Next
  \/ On("rules") /\ UNCHANGED page /\ Catalogue!Next
  \/ On("editor") /\ UNCHANGED page /\ Editor!Next
  \/ On("instances") /\ UNCHANGED page /\ Targets!Next
  \/ On("webhooks") /\ UNCHANGED page /\ Webhooks!Next
  \/ On("users") /\ UNCHANGED page /\ Users!Next
  \/ On("queries") /\ UNCHANGED page /\ Rankings!Next
  \/ On("filters") /\ UNCHANGED page /\ Filters!Next
  \/ On("completion") /\ UNCHANGED page /\ Completion!Next

\* The browser sees a broken stream, its timers fire, and requests end.
Fairness ==
  /\ WF_vars(On("live") /\ Live!SeesItBroken)
  /\ \A op \in {"load", "count"} : WF_vars(On("live") /\ Live!Poll(op))
  /\ WF_vars(On("live") /\ Live!GoesOn)

Spec == Init /\ [][Next]_<<page, vars>> /\ Fairness

-----------------------------------------------------------------------------
(* Properties. *)

TypeOK ==
  /\ page \in Routes
  /\ On("session") => Session!TypeOK
  /\ On("live") => Live!TypeOK
  /\ On("findings") => Findings!TypeOK
  /\ On("rules") => Catalogue!TypeOK
  /\ On("editor") => Editor!TypeOK
  /\ On("instances") => Targets!TypeOK
  /\ On("webhooks") => Webhooks!TypeOK
  /\ On("users") => Users!TypeOK
  /\ On("queries") => Rankings!TypeOK
  /\ On("filters") => Filters!TypeOK
  /\ On("completion") => Completion!TypeOK

\* Once nothing is under way, each page shows what the server holds: each gesture is followed
\* by the reading that shows it, and no answer or event leaves something stale.  Excused are
\* the page that failed to read, and the one whose event was lost (the stream is opened again
\* without replay, EventsContext.tsx:43-73, and the bus drops the oldest, EventBus.cs:42-65),
\* until the page is read again: on the lists and the card, only a gesture or a later event asks for it.
PagesShowTheServer ==
  /\ On("session") => Session!SessionIsTrue /\ Session!ObligationIsTrue
  /\ On("live") => Live!PageIsFresh /\ Live!PillIsTrue
  /\ On("findings") => Findings!ListIsTrue
  /\ On("rules") => Catalogue!CatalogueIsTrue
  /\ On("editor") => Editor!CardIsTrue
  /\ On("instances") => Targets!ListIsTrue
  /\ On("webhooks") => Webhooks!ListIsTrue
  /\ On("users") => Users!ListIsTrue
  /\ On("queries") => Rankings!RankingIsTrue

\* What the operator typed, or chose, is neither overwritten by what arrives nor erased by what
\* is saved: the text of a rule, the values of a query, a password, headers, a format, a search;
\* and a word that is completed lands where it was asked for.
InputIsKept ==
  /\ On("editor") => Editor!TypingSurvivesTheGuard
  /\ On("queries") => Rankings!TypedValuesStay
  /\ On("instances") => Targets!SecretsSurvive
  /\ On("webhooks") => Webhooks!HeadersSurvive /\ Webhooks!FormatIsDecided
  /\ On("filters") => Filters!FieldFollowsTheAddress /\ Filters!ClearedStaysClear
  /\ On("completion") => Completion!AcceptedTakesItsPlace

\* An answer is about what the operator reads beside it: the badge about the text, the test
\* about the form, the dialog about its finding, an undo about what was done, and a page that
\* is busy waits for something.
AnswersAreAboutTheScreen ==
  /\ On("findings") => Findings!UndoRestores /\ Findings!DialogIsTrue
  /\ On("editor") => Editor!BadgeIsOfTheText
  /\ On("instances") => Targets!TestIsOfTheForm
  /\ On("users") => Users!BusyIsWaiting
  /\ On("rules") => Catalogue!ReloadEnds

\* What appears is told once, however many readings see it, on the list of the findings and
\* on the overview.
ArrivalsAreToldOnce ==
  /\ On("findings") => Findings!ArrivalsAreCountedOnce
  /\ On("live") => Live!CriticalsAreAnnouncedOnce

\* A list is ranked by what it says, and what a choice offers can be chosen: an order is decided by its
\* criterion and its ties, a rule that is watched is not lost among the others, what a filter hides can be
\* shown again, and what is proposed can be written where it is.
ListsObey ==
  /\ On("rules") => Catalogue!GuardedAreShown /\ Catalogue!OrderIsDecided
  /\ On("filters") => Filters!HiddenCanBeShown /\ Filters!OrderIsDecided
  /\ On("completion") => Completion!ProposalsFitTheBlock /\ Completion!ChosenIsListed

\* The box and the variables of an instance are two halves of one record, sent whole: a gesture
\* made on a page that was up to date changes its own half only.
HalvesAreKept == [][On("editor") => Editor!HalfIsKept]_<<page, vars>>

\* "Repli lorsque le flux temps reel est interrompu": while the stream stays dead, the
\* overview ends up showing what the server holds.
PollCatchesUp ==
  <>[](On("live") /\ ~server.open) => <>[](On("live") => Live!OverviewIsTrue)
=============================================================================
