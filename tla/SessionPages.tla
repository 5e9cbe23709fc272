---------------------------- MODULE SessionPages ----------------------------
(***************************************************************************)
(* Who the page believes is signed in (app/AuthContext.tsx, api/client.ts),*)
(* on the way in and out: the login form and the change of password it     *)
(* imposes (pages/LoginPage.tsx), the profile (pages/ProfilePage.tsx), the *)
(* account menu, and the guard of the routes (App.tsx).                    *)
(*                                                                         *)
(* One account, whose password may be changed to another; the server keeps *)
(* the session in a cookie the page cannot read.                           *)
(***************************************************************************)
EXTENDS Requests

Passwords == {"first", "second"}
Screens == {"login", "app", "profile"}
Nobody == [in |-> FALSE, must |-> FALSE]
User(s) == [in |-> TRUE, must |-> s.must]

\* Whom a cookie names must still exist, for what is asked about the account itself.
Session(s) == s.cookie /\ s.account

Init ==
  \E cookie \in BOOLEAN, must \in BOOLEAN :
    /\ server = [cookie |-> cookie, must |-> must, password |-> "first", account |-> TRUE]
    /\ view = [user |-> Nobody, loading |-> TRUE, screen |-> "app", password |-> None, busy |-> FALSE,
               error |-> FALSE, done |-> FALSE]
    /\ calls = <<Request("me", "start")>>
    /\ Unspent([unnoticed |-> FALSE, reset |-> FALSE])

TypeOK ==
  /\ server.password \in Passwords /\ server.cookie \in BOOLEAN
  /\ view.screen \in Screens /\ view.password \in Passwords \union {None}
  /\ view.user \in [in : BOOLEAN, must : BOOLEAN]

-----------------------------------------------------------------------------
(* Where the routes lead. *)

\* `Protected' sends to the login screen whoever is not signed in; the login screen sends
\* away whoever is, and has no password to change.
Routed(v) ==
  CASE ~v.loading /\ v.screen # "login" /\ ~v.user.in -> [v EXCEPT !.screen = "login", !.password = None, !.error = FALSE]
    [] ~v.loading /\ v.screen = "login" /\ v.user.in /\ ~v.user.must -> [v EXCEPT !.screen = "app"]
    [] OTHER -> v

Shown == ~view.loading

\* The two forms of the login screen share the password that was typed.
SubmitLogin(password) ==
  /\ Shown /\ view.screen = "login" /\ ~view.user.in /\ ~view.busy
  /\ Gesture([view EXCEPT !.password = password, !.busy = TRUE, !.error = FALSE],
             <<Request("login", password)>>)

SubmitImposedChange(new) ==
  /\ Shown /\ view.screen = "login" /\ view.user.must /\ ~view.busy
  /\ Gesture([view EXCEPT !.busy = TRUE, !.error = FALSE],
             <<Request("change", [current |-> view.password, new |-> new, from |-> "login"])>>)

\* The two passwords typed differ: nothing is sent.
Mismatch ==
  /\ Shown /\ view.screen = "login" /\ view.user.must /\ ~view.busy /\ ~view.error
  /\ Gesture([view EXCEPT !.error = TRUE], << >>)

SubmitChange(current, new) ==
  /\ view.screen = "profile" /\ ~view.busy
  /\ Gesture([view EXCEPT !.busy = TRUE, !.error = FALSE, !.done = FALSE],
             <<Request("change", [current |-> current, new |-> new, from |-> "profile"])>>)

\* The menu, or the address; the routes only ask that someone is signed in.  One does not
\* leave a form while it is being sent.
Visit(screen) ==
  /\ Shown /\ view.user.in /\ screen # view.screen /\ ~view.busy
  /\ Gesture(Routed([view EXCEPT !.screen = screen, !.password = None, !.error = FALSE, !.done = FALSE]), << >>)

\* Any other page asks something.
Ask ==
  /\ view.screen = "app" /\ Shown /\ view.user.in
  /\ Gesture(view, <<Request("data", None)>>)

Logout ==
  /\ Shown /\ view.screen # "login" /\ view.user.in
  /\ Gesture(view, <<Request("logout", None)>>)

\* The cookie runs out, or the account is deleted, which the cookie survives.
Expire ==
  /\ Session(server) /\ spent.moves < MaxMoves
  /\ spent' = [spent EXCEPT !.moves = @ + 1, !.unnoticed = TRUE]
  /\ \/ server' = [server EXCEPT !.cookie = FALSE]
     \/ server' = [server EXCEPT !.account = FALSE]
  /\ UNCHANGED <<view, calls>>

\* Another administrator gives the account a password, which lifts the obligation.
Reset ==
  /\ server.account /\ spent.moves < MaxMoves
  /\ spent' = [spent EXCEPT !.moves = @ + 1, !.reset = TRUE]
  /\ server' = [server EXCEPT !.password = "second", !.must = FALSE]
  /\ UNCHANGED <<view, calls>>

-----------------------------------------------------------------------------
(* The server: what it answers is a user, "no content", a refusal, or 401. *)

\* The 401 of a login is no news of the session.
Unauthorized(c) ==
  \/ c.op = "data" /\ ~server.cookie
  \/ c.op \in {"me", "change"} /\ ~Session(server)

Refused(c) ==
  \/ Unauthorized(c)
  \/ c.op = "login" /\ (~server.account \/ c.arg # server.password)
  \/ c.op = "change" /\ c.arg.current # server.password

\* The reading of the session of a deleted account drops the cookie.
Effect(s, c) ==
  CASE c.op = "login" -> [s EXCEPT !.cookie = TRUE]
    [] c.op = "logout" -> [s EXCEPT !.cookie = FALSE]
    [] c.op = "change" -> [s EXCEPT !.password = c.arg.new, !.must = FALSE]
    [] c.op \in {"me", "data"} -> s

ServeOne(k) ==
  LET c == calls[k]
  IN  /\ c.phase = "sent" /\ (InOrder => \A j \in 1..(k - 1) : calls[j].phase # "sent")
      /\ server' = CASE ~Refused(c) -> Effect(server, c)
                     [] Refused(c) /\ c.op = "me" -> [server EXCEPT !.cookie = FALSE]
                     [] Refused(c) /\ c.op # "me" -> server
      /\ calls' = [calls EXCEPT ![k].phase = IF Refused(c) THEN "refused" ELSE "done",
                                ![k].reply = CASE Unauthorized(c) -> "401"
                                               [] Refused(c) /\ ~Unauthorized(c) -> "no"
                                               [] ~Refused(c) -> User(server)]
      /\ spent' = [spent EXCEPT !.unnoticed = @ /\ ~Unauthorized(c) /\ (Refused(c) \/ c.op \notin {"login", "logout"}),
                                !.reset = @ /\ (Refused(c) \/ c.op \notin {"me", "login"})]
      /\ UNCHANGED view

-----------------------------------------------------------------------------
(* The answers. *)

\* 401 on any request but these two says that the session is gone; a reading of the
\* session that fails, for whatever reason, says so too.
Refusal(v, c) ==
  CASE c.op = "me" -> [v EXCEPT !.user = Nobody, !.loading = FALSE, !.busy = FALSE]
    [] c.op = "login" -> [v EXCEPT !.busy = FALSE, !.error = TRUE]
    [] c.op = "change" -> [v EXCEPT !.busy = FALSE, !.error = @ \/ c.arg.from = v.screen,
                            !.user = IF c.reply = "401" THEN Nobody ELSE @]
    [] c.op \in {"data", "logout"} -> [v EXCEPT !.user = IF c.reply = "401" THEN Nobody ELSE @]

HandleRefusal(k) == Settle(k, "refused", Routed(Refusal(view, calls[k])), << >>)

\* After an imposed change the form waits for the reading of the session, then goes home.
Answered(v, c) ==
  CASE c.op = "me" -> [v EXCEPT !.user = c.reply, !.loading = FALSE, !.busy = @ /\ c.arg # "login",
                                !.screen = IF c.arg = "login" THEN "app" ELSE @]
    [] c.op = "login" -> [v EXCEPT !.user = c.reply, !.busy = FALSE]
    [] c.op = "logout" -> [v EXCEPT !.user = Nobody, !.screen = "login"]
    [] c.op = "change" -> [v EXCEPT !.busy = c.arg.from = "login", !.done = c.arg.from = "profile" /\ v.screen = "profile"]
    [] c.op = "data" -> v

\* A password that was changed lifts the obligation: the session is read again.
Then(c) == IF c.op = "change" THEN <<Request("me", c.arg.from)>> ELSE << >>

HandleAnswer(k) == Settle(k, "done", Routed(Answered(view, calls[k])), Then(calls[k]))

Next ==
  \/ \E password \in Passwords : SubmitLogin(password) \/ SubmitImposedChange(password)
  \/ \E current, new \in Passwords : SubmitChange(current, new)
  \/ \E screen \in Screens : Visit(screen)
  \/ Mismatch \/ Ask \/ Logout \/ Expire \/ Reset
  \/ \E k \in DOMAIN calls : ServeOne(k) \/ Fail(k) \/ HandleAnswer(k) \/ HandleRefusal(k)

Spec == Init /\ [][Next]_vars

-----------------------------------------------------------------------------
(* Properties. *)

Settled == calls = << >> /\ spent.faults = 0

\* Once nothing is under way, and unless the session ended without anything being asked
\* since, the page shows someone signed in exactly when the server holds a session.
SessionIsTrue == InOrder /\ Settled /\ ~spent.unnoticed => view.user.in = Session(server)

\* The obligation to change the password is on screen exactly when the server holds it,
\* unless somebody else lifted it since the session was read.
ObligationIsTrue == Settled /\ view.user.in /\ ~spent.reset /\ ~spent.unnoticed => view.user.must = server.must
=============================================================================
