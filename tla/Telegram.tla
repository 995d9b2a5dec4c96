------------------------------ MODULE Telegram ------------------------------
(***************************************************************************)
(* The Telegram thread (telegram_service/tl_engine.rs, commands.rs and the *)
(* settings commands of registry.rs): it takes updates from the server by  *)
(* long polling, runs one handler at a time inside its loop, and sends the *)
(* queued messages between two polls.                                      *)
(*                                                                         *)
(* An update is named by its update_id, 1, 2, ...; the server (external)   *)
(* keeps an update until a poll with a higher offset reaches it.  Dates    *)
(* and the clock count seconds, the same on both sides.  Of a message only *)
(* its place in the queue matters, so the queue is its length.  The rest   *)
(* of the bot queues messages too; the process may crash and start again.  *)
(***************************************************************************)
EXTENDS Naturals

CONSTANTS
  Values,       \* values a settings command may carry
  Default,      \* the value of every setting in params.rs
  MaxUpdates,   \* updates sent to the bot (a bound)
  MaxClock,     \* seconds that pass (a bound)
  MaxReports,   \* messages of the other tasks (a bound)
  MaxLives,     \* processes (a bound)
  BadSends      \* failed sends after which the client is created anew: 3

ASSUME TelegramAssumption ==
  /\ Default \in Values
  /\ MaxUpdates \in Nat /\ MaxClock \in Nat /\ MaxReports \in Nat
  /\ MaxLives \in Nat \ {0} /\ BadSends \in Nat \ {0}

VARIABLES
  inbox,      \* updates of the server: command, value and date
  sentUpTo,   \* id of the newest one
  confirmed,  \* the server has forgotten the updates below
  clock,      \* seconds
  start,      \* start_unix of this process
  lives,      \* processes so far
  at,         \* where the loop is
  offset, upto,  \* next update to ask for; last one of the batch in hand
  waiting,    \* messages in the queue
  bad,        \* bad_sends_main
  leaving,    \* the background task of close off
  settings,   \* the row of general_settings: pct_list_2, pct_number, amount
  told,       \* what the replies have said of it
  first,      \* history: the first update this process is to handle
  taken,      \* history: how often this process took an update
  earlier,    \* history: updates that earlier processes took
  reports     \* messages of the other tasks so far

telegramVars == <<inbox, sentUpTo, confirmed, clock, start, lives, at, offset, upto,
          waiting, bad, leaving, settings, told, first, taken, earlier, reports>>

server == <<inbox, sentUpTo, confirmed, clock>>
process == <<start, lives, first, earlier, reports>>

Ids == 1..MaxUpdates
\* "ask" stands for info, bal and malformed commands, "trade" for the commands
\* that swap or move liquidity (Funds.tla), "other" for what is no command, a
\* text of another chat, or none.
Commands == {"pct", "pcts", "amount", "ask", "trade", "close off", "other"}
Updates == [cmd: Commands, value: Values, date: 0..MaxClock]
NoUpdate == [cmd |-> "other", value |-> Default, date |-> 0]
Numbers == {"1", "2"}
Settings == [list: Values, number: Numbers, amount: Values]
Defaults == [list |-> Default, number |-> "1", amount |-> Default]
Handlers == {"handler", "number"}
Labels == {"first", "drain", "batch", "dead", "down"} \cup Handlers
Unsure == "unsure"

TelegramTypeOK ==
  /\ inbox \in [Ids -> Updates] /\ sentUpTo \in 0..MaxUpdates
  /\ confirmed \in 0..MaxUpdates + 1
  /\ clock \in 0..MaxClock /\ start \in 0..MaxClock /\ lives \in 1..MaxLives
  /\ at \in Labels
  /\ offset \in 0..MaxUpdates + 1 /\ upto \in 0..MaxUpdates
  /\ waiting \in Nat /\ bad \in 0..BadSends - 1
  /\ leaving \in {"no", "closing", "leaving"}
  /\ settings \in Settings
  /\ told \in [list: Values \cup {Unsure}, number: Numbers,
               amount: Values]
  /\ first \in 0..MaxUpdates + 1
  /\ taken \in [Ids -> Nat] /\ earlier \subseteq Ids
  /\ reports \in 0..MaxReports

TelegramInit ==
  /\ inbox = [u \in Ids |-> NoUpdate] /\ sentUpTo = 0 /\ confirmed = 1
  /\ clock = 0 /\ start = 0 /\ lives = 1
  /\ at = "first" /\ offset = 0 /\ upto = 0
  /\ waiting = 0 /\ bad = 0 /\ leaving = "no"
  /\ settings = Defaults /\ told = Defaults
  /\ first = 0 /\ taken = [u \in Ids |-> 0] /\ earlier = {} /\ reports = 0

-----------------------------------------------------------------------------
(***************************************************************************)
(* The server and the user.                                                *)
(***************************************************************************)

UserSends ==
  /\ sentUpTo < MaxUpdates
  /\ sentUpTo' = sentUpTo + 1
  /\ \E cmd \in Commands, value \in Values :
       /\ cmd \notin {"pct", "amount"} => value = Default
       /\ inbox' = [inbox EXCEPT ![sentUpTo + 1] =
                      [cmd |-> cmd, value |-> value, date |-> clock]]
  /\ UNCHANGED <<confirmed, clock, at, offset, upto, waiting, bad, leaving,
                 settings, told, taken, process>>

Tick ==
  /\ clock < MaxClock /\ clock' = clock + 1
  /\ UNCHANGED <<inbox, sentUpTo, confirmed, at, offset, upto, waiting, bad,
                 leaving, settings, told, taken, process>>

Later(a, b) == IF a > b THEN a ELSE b

\* getUpdates confirms what is below its offset, also when the answer is lost.
Confirms == confirmed' = Later(confirmed, offset)

-----------------------------------------------------------------------------
(***************************************************************************)
(* telegram_loop.                                                          *)
(***************************************************************************)

\* The last update of an answer for those from `next` on: an answer holds a
\* limited number of them, the oldest ones.
Answers(next) == next..sentUpTo

\* The poll before the loop: all it returns is passed over.  It waits for up to
\* a minute, so that may be an update sent after the start.
FirstPoll ==
  /\ at = "first"
  /\ \/ \E last \in Answers(confirmed) : offset' = last + 1 /\ first' = last + 1
     \/ sentUpTo < confirmed /\ offset' = 1 /\ first' = sentUpTo + 1
     \/ offset' = 0 /\ first' = confirmed                       \* it failed
  /\ at' = "drain"
  /\ UNCHANGED <<server, start, lives, earlier, reports, upto, waiting, bad,
                 leaving, settings, told, taken>>

\* Mutant: the client is created anew one failure too late.
BadAgainLate == IF bad + 1 > BadSends THEN 0 ELSE bad + 1

BadAgain == IF bad + 1 >= BadSends THEN 0 ELSE bad + 1


\* The head of the queue is sent, or refused and lost.
Send ==
  /\ at = "drain" /\ waiting > 0
  /\ waiting' = waiting - 1
  /\ bad' = 0 \/ bad' = BadAgain
  /\ UNCHANGED <<server, process, at, offset, upto, leaving, settings, told, taken>>

\* A panic ends the thread and its queue, and nothing else: the trimming of a
\* long text cuts it at a byte that may lie inside a character, and a swap
\* without a transaction reaches unreachable!().
Panics ==
  /\ \/ at = "drain" /\ waiting > 0
     \/ at = "handler" /\ inbox[offset - 1].cmd = "trade"
  /\ at' = "dead" /\ waiting' = 0
  /\ UNCHANGED <<server, process, offset, upto, bad, leaving, settings, told, taken>>

\* With the queue empty, the server is asked for the updates from `offset` on.
PollAnswered ==
  /\ at = "drain" /\ waiting = 0
  /\ Confirms
  /\ IF sentUpTo >= Later(confirmed, offset)
     THEN /\ offset' = Later(confirmed, offset)
          /\ upto' \in Answers(Later(confirmed, offset))
          /\ at' = "batch"
     ELSE UNCHANGED <<offset, upto, at>>
  /\ UNCHANGED <<inbox, sentUpTo, clock, process, waiting, bad, leaving, settings,
                 told, taken>>

PollFails ==
  /\ at = "drain" /\ waiting = 0
  /\ UNCHANGED confirmed \/ Confirms
  /\ UNCHANGED <<inbox, sentUpTo, clock, process, at, offset, upto, waiting, bad,
                 leaving, settings, told, taken>>

\* Mutant: what was sent before the start is handled too.
FreshAlways(u) == TRUE

\* exec_command ignores what was sent before the start.
Fresh(u) == inbox[u].date >= start

\* Mutant: the offset moves past the whole batch at once.
NextOffsetLast == upto + 1

NextOffset == offset + 1


\* The offset moves before the handler runs.
Take ==
  /\ at = "batch" /\ offset <= upto
  /\ offset' = NextOffset
  /\ IF Fresh(offset)
     THEN /\ taken' = [taken EXCEPT ![offset] = @ + 1]
          /\ at' = IF inbox[offset].cmd = "other" THEN "batch" ELSE "handler"
     ELSE UNCHANGED <<taken, at>>
  /\ UNCHANGED <<server, process, upto, waiting, bad, leaving, settings, told>>

BatchDone ==
  /\ at = "batch" /\ offset > upto
  /\ at' = "drain"
  /\ UNCHANGED <<server, process, offset, upto, waiting, bad, leaving, settings,
                 told, taken>>

-----------------------------------------------------------------------------
(***************************************************************************)
(* The handlers.  A settings command ends with a reply that says what it   *)
(* did; every update of the row may fail.                                  *)
(***************************************************************************)

\* The update whose handler runs.
Current == inbox[offset - 1]

Replies == waiting' = waiting + 1 /\ at' = "batch"
Handling(cmd) ==
  /\ at = "handler" /\ Current.cmd = cmd
  /\ UNCHANGED <<server, process, offset, upto, bad, taken>>

\* pct: the list, and then the number that makes it the active one.
PctList ==
  /\ Handling("pct") /\ UNCHANGED leaving
  /\ \/ /\ settings' = [settings EXCEPT !.list = Current.value]
        /\ told' = [told EXCEPT !.list = Unsure]
        /\ at' = "number" /\ UNCHANGED waiting
     \/ Replies /\ UNCHANGED <<settings, told>>

\* Mutant: the second failure is not looked at.
PctNumberUnchecked ==
  /\ at = "number"
  /\ \/ settings' = [settings EXCEPT !.number = "2"]
     \/ UNCHANGED settings
  /\ told' = [told EXCEPT !.list = settings.list, !.number = "2"]
  /\ Replies
  /\ UNCHANGED <<server, process, offset, upto, bad, taken, leaving>>

\* When the second update fails the list stays changed.
PctNumber ==
  /\ at = "number"
  /\ \/ /\ settings' = [settings EXCEPT !.number = "2"]
        /\ told' = [told EXCEPT !.list = settings.list, !.number = "2"]
     \/ UNCHANGED <<settings, told>>
  /\ Replies
  /\ UNCHANGED <<server, process, offset, upto, bad, taken, leaving>>

\* pcts reads the row first; nobody else writes it.
Pcts ==
  /\ Handling("pcts") /\ UNCHANGED leaving
  /\ LET new == IF settings.number = "1" THEN "2" ELSE "1"
     IN \/ /\ settings' = [settings EXCEPT !.number = new]
           /\ told' = [told EXCEPT !.number = new]
        \/ UNCHANGED <<settings, told>>
  /\ Replies

\* amount; int has the same shape.
Amount ==
  /\ Handling("amount") /\ UNCHANGED leaving
  /\ \/ /\ settings' = [settings EXCEPT !.amount = Current.value]
        /\ told' = [told EXCEPT !.amount = Current.value]
     \/ UNCHANGED <<settings, told>>
  /\ Replies

\* A panic in inc, which runs in a thread of its own, only costs the reply.
Answer ==
  /\ \/ Handling("ask") /\ Replies
     \/ Handling("trade") /\ (Replies \/ (at' = "batch" /\ UNCHANGED waiting))
  /\ UNCHANGED <<settings, told, leaving>>

\* close off leaves its work to a task of the background.
CloseOff ==
  /\ Handling("close off")
  /\ leaving' = IF leaving = "no" THEN "closing" ELSE leaving
  /\ Replies /\ UNCHANGED <<settings, told>>

Handler == PctList \/ PctNumber \/ Pcts \/ Amount \/ Answer \/ CloseOff

-----------------------------------------------------------------------------
(***************************************************************************)
(* The rest of the process.  A message for a dead thread goes nowhere.     *)
(***************************************************************************)

Queues == waiting' = IF at = "dead" THEN 0 ELSE waiting + 1

Reports ==
  /\ at # "down" /\ reports < MaxReports
  /\ reports' = reports + 1 /\ Queues
  /\ UNCHANGED <<server, start, lives, first, earlier, at, offset, upto, bad,
                 leaving, settings, told, taken>>

\* It queues its report; without a wallet or balances it returns at that.
CloseOffReports ==
  /\ leaving = "closing"
  /\ leaving' \in {"leaving", "no"}
  /\ Queues
  /\ UNCHANGED <<server, process, at, offset, upto, bad, settings, told, taken>>

\* The process is gone: its history joins that of the earlier ones.
Gone ==
  /\ at' = "down"
  /\ waiting' = 0 /\ leaving' = "no"
  /\ earlier' = earlier \cup {u \in Ids : taken[u] > 0}
  /\ taken' = [u \in Ids |-> 0]
  /\ UNCHANGED <<server, start, lives, first, reports, offset, upto, bad, settings, told>>

\* std::process::exit, whether or not the queue is empty.
CloseOffExits == leaving = "leaving" /\ Gone

Crash == at # "down" /\ lives < MaxLives /\ Gone

\* init_settings_from_params writes the row anew; the thread starts over.
Restart ==
  /\ at = "down" /\ lives < MaxLives
  /\ lives' = lives + 1
  /\ start' = clock
  /\ at' = "first" /\ offset' = 0 /\ upto' = 0 /\ first' = 0 /\ bad' = 0
  /\ settings' = Defaults /\ told' = Defaults
  /\ UNCHANGED <<server, waiting, leaving, taken, earlier, reports>>

Loop == FirstPoll \/ Send \/ Take \/ BatchDone \/ Handler

TelegramNext ==
  \/ UserSends \/ Tick \/ Loop \/ Panics \/ PollAnswered \/ PollFails
  \/ Reports \/ CloseOffReports \/ CloseOffExits \/ Crash \/ Restart

\* tokio runs the thread: every await is answered.  Not every poll fails.
TelegramSpec ==
  /\ TelegramInit /\ [][TelegramNext]_telegramVars
  /\ WF_telegramVars(Loop) /\ SF_telegramVars(PollAnswered)

-----------------------------------------------------------------------------
(***************************************************************************)
(* Properties.                                                             *)
(***************************************************************************)

\* telegram_loop and exec_command: one process takes an update at most once,
\* however its polls fail; a later process takes it again only if it was sent
\* in the second in which that process started.
TakenOnce ==
  \A u \in Ids :
    /\ taken[u] <= 1
    /\ taken[u] = 1 /\ u \in earlier => inbox[u].date = start

\* No failed poll, send or handler makes the loop pass over an update: what the
\* offset has left behind since the first poll, and is not stale, was taken.
NonePassedOver ==
  at \notin {"first", "down"} =>
    \A u \in Ids : first <= u /\ u < offset /\ inbox[u].date >= start => taken[u] = 1

\* The server forgets no update of this process that was not taken.
NoneForgotten ==
  at \notin {"first", "down"} =>
    \A u \in Ids : first <= u /\ u < confirmed /\ inbox[u].date >= start => taken[u] = 1

\* The settings commands: what the last reply said of a setting is what the row
\* holds, unless pct failed half way.
SettingsAsTold ==
  \A field \in {"list", "number", "amount"} :
    told[field] \in {Unsure, settings[field]}



=============================================================================
