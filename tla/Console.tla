------------------------------- MODULE Console -------------------------------
(***************************************************************************)
(* The console of macmini/photo-share-monitor.py: one page in a browser,   *)
(* the server's thread for each request, and the runs of the command line  *)
(* that they start.  Of the commands only what they do to the shares is    *)
(* modelled here; ShareCommands models how they do it.                     *)
(***************************************************************************)
EXTENDS Naturals

CONSTANTS
    Links,      \* keys that shares may get
    NoLink,     \* no key
    Timers,     \* requests of the page's timer that may be under way at one time
    MaxTroubles \* bound: lost answers, failures of Immich, lockouts and reloads

VARIABLES
    live,     \* the shares that Immich lists
    made,     \* the keys that were ever handed out
    page,     \* [table, rows, create]
    calls,    \* the requests under way
    orphans,  \* what commands whose process was killed may still do
    stuck,    \* history: was the answer lost that "create" waits for
    troubles

consoleVars == <<live, made, page, calls, orphans, stuck, troubles>>

\* A click is under way beside the requests of the timer.
Slots == Timers \cup {"click"}

\* "from": the page, or one that was closed since.
Free == [what |-> "none", from |-> "page", valid |-> TRUE, key |-> NoLink,
         at |-> "free", done |-> FALSE, code |-> 0, rows |-> {}]

NewPage == [table |-> "loading", rows |-> {}, create |-> TRUE]

Trouble == troubles < MaxTroubles /\ troubles' = troubles + 1

-----------------------------------------------------------------------------
(* The page.                                                               *)

Send(s, request) ==
    /\ calls[s].at = "free"
    /\ calls' = [calls EXCEPT ![s] = request]
    /\ UNCHANGED <<live, made, orphans, troubles>>

\* loadShares, every 15 seconds and after each click.
Refresh(t) ==
    /\ Send(t, [Free EXCEPT !.what = "shares", !.at = "sent"])
    /\ UNCHANGED <<page, stuck>>

\* The button is disabled while the request is under way.
ClickCreate ==
    /\ page.create
    /\ page' = [page EXCEPT !.create = FALSE]
    /\ \E valid \in BOOLEAN : Send("click", [Free EXCEPT !.what = "open", !.at = "sent", !.valid = valid])
    /\ UNCHANGED stuck

\* A row's own key, of whatever time the table is.
ClickClose(k) ==
    /\ page.table = "rows" /\ k \in page.rows
    /\ Send("click", [Free EXCEPT !.what = "close", !.at = "sent", !.key = k])
    /\ UNCHANGED <<page, stuck>>

\* Mutant: the table is filled once.
FilledOnce(c) ==
    CASE c.from # "page" \/ c.what = "close" -> page
      [] c.what = "shares" -> IF page.table = "rows" THEN page ELSE [page EXCEPT !.table = "rows", !.rows = c.rows]
      [] c.what = "open" -> [page EXCEPT !.create = TRUE]
\* What the page does with an answer.
Shown(c) ==
    CASE c.from # "page" -> page
      [] c.what = "shares" /\ c.code = 200 -> [page EXCEPT !.table = "rows", !.rows = c.rows]
      [] c.what = "shares" /\ c.code # 200 -> [page EXCEPT !.table = "error", !.rows = {}]
      [] c.what = "open" -> [page EXCEPT !.create = TRUE]
      [] c.what = "close" -> page

Deliver(s) ==
    /\ calls[s].at = "answered"
    /\ page' = Shown(calls[s])
    /\ calls' = [calls EXCEPT ![s] = Free]
    /\ UNCHANGED <<live, made, orphans, stuck, troubles>>

\* fetch rejects, before the request arrived or after it was served: what
\* follows it in the script is not run.
Lose(s) ==
    /\ calls[s].at \in {"sent", "answered"} /\ calls[s].from = "page"
    /\ Trouble
    /\ calls' = [calls EXCEPT ![s] = Free]
    /\ stuck' = (stuck \/ calls[s].what = "open")
    /\ UNCHANGED <<live, made, page, orphans>>

Reload ==
    /\ Trouble
    /\ page' = NewPage
    /\ stuck' = FALSE
    /\ calls' = [s \in Slots |-> IF calls[s].from = "page" /\ calls[s].at # "free"
                                   THEN [calls[s] EXCEPT !.from = "closedPage"] ELSE calls[s]]
    /\ UNCHANGED <<live, made, orphans>>

-----------------------------------------------------------------------------
(* The server: _get or _post; Handlers models the checks before them.      *)

Answer(s, code) == calls' = [calls EXCEPT ![s].at = "answered", ![s].code = code]

Serve(s) ==
    LET c == calls[s] IN
    /\ c.at = "sent"
    /\ CASE c.what = "shares" -> calls' = [calls EXCEPT ![s].at = "answered", ![s].code = 200, ![s].rows = live]
         [] ~c.valid -> Answer(s, 400)
         [] OTHER -> calls' = [calls EXCEPT ![s].at = "cli"]
    /\ UNCHANGED <<live, made, page, orphans, stuck, troubles>>

\* The client is locked out, Immich does not answer, or the database fails.
ServeFails(s) ==
    /\ calls[s].at = "sent"
    /\ Trouble
    /\ \E code \in {401} \cup (IF calls[s].what = "shares" THEN {500, 502} ELSE {}) : Answer(s, code)
    /\ UNCHANGED <<live, made, page, orphans, stuck>>

\* open makes a share, close revokes one.
Takes(what, key) ==
    \/ what = "open" /\ key \notin made /\ live' = live \cup {key} /\ made' = made \cup {key}
    \/ what = "close" /\ key \in live /\ live' = live \ {key} /\ UNCHANGED made

\* The command takes effect.
Act(s) ==
    /\ calls[s].at = "cli" /\ ~calls[s].done
    /\ \E k \in IF calls[s].what = "open" THEN Links ELSE {calls[s].key} :
         /\ Takes(calls[s].what, k)
         /\ calls' = [calls EXCEPT ![s].done = TRUE, ![s].key = k]
    /\ UNCHANGED <<page, orphans, stuck, troubles>>

\* The command succeeded, or it failed, perhaps after it had taken effect, or
\* parse_open_output refuses its output.
CliEnds(s) ==
    /\ calls[s].at = "cli"
    /\ \E code \in IF calls[s].done THEN {200, 502} ELSE {502} : Answer(s, code)
    /\ UNCHANGED <<live, made, page, orphans, stuck, troubles>>

\* Mutant: the command is waited for without an end.
WaitForever(s) == FALSE /\ UNCHANGED consoleVars
\* _run_cli: after 180 seconds the process is killed, but not what it started.
CliTimeout(s) ==
    /\ calls[s].at = "cli"
    /\ Answer(s, 502)
    /\ orphans' \in {orphans} \cup
         (IF calls[s].done THEN {} ELSE {orphans \cup {[what |-> calls[s].what, key |-> calls[s].key]}})
    /\ UNCHANGED <<live, made, page, stuck, troubles>>

OrphanActs ==
    /\ \E o \in orphans :
         /\ \E k \in IF o.what = "open" THEN Links ELSE {o.key} : Takes(o.what, k)
         /\ orphans' = orphans \ {o}
    /\ UNCHANGED <<page, calls, stuck, troubles>>

Expires ==
    /\ \E k \in live : live' = live \ {k}
    /\ UNCHANGED <<made, page, calls, orphans, stuck, troubles>>

-----------------------------------------------------------------------------
ConsoleInit ==
    /\ live = {} /\ made = {}
    /\ page = NewPage
    /\ calls = [s \in Slots |-> Free]
    /\ orphans = {} /\ stuck = FALSE /\ troubles = 0

ConsoleNext ==
    \/ \E t \in Timers : Refresh(t)
    \/ ClickCreate \/ Reload \/ OrphanActs \/ Expires
    \/ \E k \in Links : ClickClose(k)
    \/ \E s \in Slots : Deliver(s) \/ Lose(s) \/ Serve(s) \/ ServeFails(s) \/ Act(s)
                        \/ CliEnds(s) \/ CliTimeout(s)

\* The timer of the page, the threads of the server and the timeout of a
\* command; not that a command ends.
ConsoleFairness ==
    /\ \A t \in Timers : WF_consoleVars(Refresh(t))
    /\ \A s \in Slots : WF_consoleVars(Serve(s)) /\ WF_consoleVars(Deliver(s)) /\ WF_consoleVars(CliTimeout(s))

ConsoleSpec == ConsoleInit /\ [][ConsoleNext]_consoleVars /\ ConsoleFairness

-----------------------------------------------------------------------------
(* Whatever order the answers of the timer's requests come in, and though  *)
(* the answer to a click was lost or came before its command was done:     *)
(* once the shares stay as they are, the page ends up showing just them.   *)
PageCatchesUp ==
    \A S \in SUBSET Links : <>[](live = S) => <>[](page.table = "rows" /\ page.rows = S)

(* The button "create", disabled for the time of a request, comes back     *)
(* unless the answer itself was lost: a command that hangs does not keep   *)
(* it.                                                                     *)
ButtonReturns == ~page.create ~> page.create \/ stuck
==============================================================================
