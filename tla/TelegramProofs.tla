--------------------------- MODULE TelegramProofs ---------------------------
(***************************************************************************)
(* Proofs about the Telegram thread.  The two properties about what is     *)
(* passed over and what the server forgets carry each other: a poll        *)
(* confirms what the offset has left behind, and the offset jumps to what  *)
(* is confirmed.                                                           *)
(***************************************************************************)
EXTENDS Telegram, TLAPS

\* The offset, the batch and the confirmations stay within what was sent, and
\* a handler runs for an update that exists.
Ordered ==
  /\ 1 <= confirmed /\ confirmed <= sentUpTo + 1
  /\ offset <= sentUpTo + 1 /\ upto <= sentUpTo
  /\ at = "batch" => offset >= 1
  /\ at \in Handlers => offset >= 2

\* No update is dated after now, nor one of an earlier process after the start.
Dated ==
  /\ start <= clock
  /\ \A u \in Ids : u <= sentUpTo => inbox[u].date <= clock
  /\ \A u \in earlier : u <= sentUpTo /\ (at # "down" => inbox[u].date <= start)

\* What this process took lies behind the offset and is fresh.
TakenBehind ==
  /\ \A u \in Ids : taken[u] <= 1
  /\ \A u \in Ids : taken[u] > 0 => u < offset /\ inbox[u].date >= start
  /\ at \in {"first", "down"} => \A u \in Ids : taken[u] = 0

Inv == TelegramTypeOK /\ Ordered /\ Dated /\ TakenBehind /\ NonePassedOver /\ NoneForgotten

\* The actions of the thread and of the rest of the process that touch neither
\* the updates nor what was taken.
Quiet ==
  \/ Send \/ Panics \/ (PollFails /\ UNCHANGED confirmed) \/ BatchDone \/ PctList
  \/ PctNumber \/ Pcts \/ Amount \/ Answer \/ CloseOff \/ Reports \/ CloseOffReports

\* The others, of which Gone is the end of a process.
LEMMA Cases ==
  ASSUME TelegramNext
  PROVE  \/ UserSends \/ Tick \/ FirstPoll \/ Take \/ PollAnswered
         \/ (PollFails /\ Confirms) \/ Gone \/ Restart \/ Quiet
  BY DEF TelegramNext, Loop, Handler, CloseOffExits, Crash, PollFails, Quiet

-----------------------------------------------------------------------------

\* The initial state is well typed and in order.
LEMMA InitInv == TelegramInit => Inv
  <1> SUFFICES ASSUME TelegramInit PROVE Inv
    OBVIOUS
  <1> USE TelegramAssumption DEF TelegramInit
  <1>1. TelegramTypeOK
    BY DEF TelegramTypeOK, Updates, NoUpdate, Commands, Ids, Labels, Settings,
           Defaults, Numbers
  <1>2. Ordered /\ Dated /\ TakenBehind
    BY DEF Ordered, Dated, TakenBehind, Handlers, Ids
  <1>3. NonePassedOver /\ NoneForgotten
    BY DEF NonePassedOver, NoneForgotten
  <1> QED
    BY <1>1, <1>2, <1>3 DEF Inv

\* What the quiet actions leave alone.
LEMMA QuietFrame ==
  ASSUME Quiet
  PROVE  UNCHANGED <<inbox, sentUpTo, confirmed, clock, start, first, earlier, offset,
                     upto, taken>>
  BY DEF Quiet, Send, Panics, PollFails, BatchDone, PctList, PctNumber, Pcts, Amount,
         Answer, CloseOff, Reports, CloseOffReports, Handling, server, process

\* Where they lead.
LEMMA QuietAt ==
  ASSUME Quiet, TelegramTypeOK
  PROVE  /\ (at' \in Labels /\ at' \notin {"first", "down"}) \/ at' = at
         /\ at' \in {"batch", "number"} => at' = at \/ at \in Handlers
         /\ at' # "handler" \/ at' = at
         /\ at \in {"first", "down"} => at' = at
  <1> USE DEF Labels, Handlers, TelegramTypeOK
  <1>1. CASE Send \/ Panics \/ BatchDone \/ Reports \/ CloseOffReports
    BY <1>1 DEF Send, Panics, BatchDone, Reports, CloseOffReports
  <1>2. CASE PollFails
    BY <1>2 DEF PollFails
  <1>3. CASE PctList \/ PctNumber \/ Pcts \/ Amount \/ Answer \/ CloseOff
    BY <1>3 DEF PctList, PctNumber, Pcts, Amount, Answer, CloseOff, Handling, Replies
  <1> QED
    BY <1>1, <1>2, <1>3 DEF Quiet

\* The update a handler runs for.
LEMMA HandledUpdate ==
  ASSUME TelegramTypeOK, Ordered, at \in Handlers
  PROVE  offset - 1 \in Ids /\ Current \in Updates
  <1>1. offset - 1 \in Ids
    BY TelegramAssumption DEF TelegramTypeOK, Ordered, Ids
  <1> QED
    BY <1>1 DEF TelegramTypeOK, Current

\* The quiet actions keep the types.
LEMMA QuietTypes ==
  ASSUME Quiet, TelegramTypeOK, Ordered
  PROVE  TelegramTypeOK'
  <1> DEFINE Parts ==
        /\ waiting \in Nat /\ bad \in 0..BadSends - 1
        /\ leaving \in {"no", "closing", "leaving"} /\ settings \in Settings
        /\ told \in [list: Values \cup {Unsure}, number: Numbers, amount: Values]
        /\ reports \in 0..MaxReports /\ lives \in 1..MaxLives
  <1>0. Parts
    BY DEF TelegramTypeOK
  <1>1. ASSUME Parts' PROVE TelegramTypeOK'
    <2>1. at' \in Labels
      BY QuietAt DEF TelegramTypeOK
    <2> QED
      BY <1>1, <2>1, QuietFrame DEF TelegramTypeOK
  <1>2. CASE Send \/ Panics \/ BatchDone \/ Reports \/ CloseOffReports
    <2> USE <1>0, TelegramAssumption
    <2>1. CASE Send
      BY <1>1, <2>1 DEF Send, BadAgain, process
    <2>2. CASE Panics
      BY <1>1, <2>2 DEF Panics, process
    <2>3. CASE BatchDone
      BY <1>1, <2>3 DEF BatchDone, process
    <2>4. CASE Reports
      BY <1>1, <2>4 DEF Reports, Queues
    <2>5. CASE CloseOffReports
      BY <1>1, <2>5 DEF CloseOffReports, Queues, process
    <2> QED
      BY <1>2, <2>1, <2>2, <2>3, <2>4, <2>5
  <1>3. CASE PollFails
    BY <1>0, <1>1, <1>3 DEF PollFails, process
  <1>4. CASE PctList \/ Pcts \/ Amount \/ Answer \/ CloseOff
    <2>1. Current.value \in Values
      <3>1. at \in Handlers
        BY <1>4 DEF PctList, Pcts, Amount, Answer, CloseOff, Handling, Handlers
      <3> QED
        BY <3>1, HandledUpdate DEF Updates
    <2> USE <1>0, <2>1 DEF Replies, Handling, process, Settings, Numbers
    <2>2. CASE PctList
      BY <1>1, <2>2 DEF PctList
    <2>3. CASE Pcts
      BY <1>1, <2>3 DEF Pcts
    <2>4. CASE Amount
      BY <1>1, <2>4 DEF Amount
    <2>5. CASE Answer \/ CloseOff
      <3>1. waiting' \in {waiting, waiting + 1} /\ leaving' \in {"no", "closing", "leaving"}
        BY <2>5 DEF Answer, CloseOff
      <3>2. UNCHANGED <<settings, told, bad, reports, lives>>
        BY <2>5 DEF Answer, CloseOff
      <3> QED
        BY <1>1, <3>1, <3>2
    <2> QED
      BY <1>4, <2>2, <2>3, <2>4, <2>5
  <1>5. CASE PctNumber
    <2> USE <1>0, <1>5 DEF PctNumber, Replies, process, Settings, Numbers
    <2>1. settings' \in Settings
      OBVIOUS
    <2>2. told' \in [list: Values \cup {Unsure}, number: Numbers, amount: Values]
      OBVIOUS
    <2>3. waiting' = waiting + 1 /\ UNCHANGED <<bad, leaving, reports, lives>>
      OBVIOUS
    <2> QED
      BY <1>1, <2>1, <2>2, <2>3
  <1> QED
    BY <1>2, <1>3, <1>4, <1>5 DEF Quiet

\* Every step keeps the types.
LEMMA TypeStep ==
  ASSUME TelegramTypeOK, Ordered, TelegramNext
  PROVE  TelegramTypeOK'
  <1> USE TelegramAssumption DEF server, process
  <1>1. CASE UserSends
    <2> PICK cmd \in Commands, value \in Values :
          inbox' = [inbox EXCEPT ![sentUpTo + 1] =
                      [cmd |-> cmd, value |-> value, date |-> clock]]
      BY <1>1, Zenon DEF UserSends
    <2>1. inbox' \in [Ids -> Updates]
      <3>1. inbox \in [Ids -> Updates] /\ clock \in 0..MaxClock
        BY DEF TelegramTypeOK
      <3>2. [cmd |-> cmd, value |-> value, date |-> clock] \in Updates
        BY <3>1 DEF Updates
      <3> QED
        BY <3>1, <3>2
    <2>2. sentUpTo' \in 0..MaxUpdates
      BY <1>1 DEF UserSends, TelegramTypeOK
    <2> QED
      BY <1>1, <2>1, <2>2 DEF UserSends, TelegramTypeOK
  <1>2. CASE Tick
    BY <1>2 DEF Tick, TelegramTypeOK
  <1>3. CASE FirstPoll
    BY <1>3 DEF FirstPoll, Answers, TelegramTypeOK, Ordered, Labels
  <1>4. CASE Take
    <2>1. offset \in Ids /\ offset' = offset + 1
      BY <1>4 DEF Take, NextOffset, TelegramTypeOK, Ordered, Ids
    <2>2. at' \in Labels /\ taken' \in [Ids -> Nat]
      BY <1>4, <2>1 DEF Take, TelegramTypeOK, Labels, Handlers
    <2> QED
      BY <1>4, <2>1, <2>2 DEF Take, TelegramTypeOK, Ids
  <1>5. CASE PollAnswered
    BY <1>5 DEF PollAnswered, Answers, Confirms, Later, TelegramTypeOK, Labels
  <1>6. CASE PollFails /\ Confirms
    BY <1>6 DEF PollFails, Confirms, Later, TelegramTypeOK
  <1>7. CASE Gone
    BY <1>7 DEF Gone, TelegramTypeOK, Labels
  <1>8. CASE Restart
    BY <1>8 DEF Restart, TelegramTypeOK, Labels, Settings, Defaults, Numbers
  <1>9. CASE Quiet
    BY <1>9, QuietTypes
  <1> QED
    BY <1>1, <1>2, <1>3, <1>4, <1>5, <1>6, <1>7, <1>8, <1>9, Cases

-----------------------------------------------------------------------------

LEMMA OrderedStep ==
  ASSUME TelegramTypeOK, Ordered, TelegramNext
  PROVE  Ordered'
  <1> USE DEF Ordered, server, process, TelegramTypeOK, Handlers
  <1>1. CASE UserSends
    BY <1>1 DEF UserSends
  <1>2. CASE Tick
    BY <1>2 DEF Tick
  <1>3. CASE FirstPoll
    BY <1>3 DEF FirstPoll, Answers
  <1>4. CASE Take
    BY <1>4 DEF Take, NextOffset
  <1>5. CASE PollAnswered
    BY <1>5 DEF PollAnswered, Answers, Confirms, Later
  <1>6. CASE PollFails /\ Confirms
    BY <1>6 DEF PollFails, Confirms, Later
  <1>7. CASE Gone
    BY <1>7 DEF Gone
  <1>8. CASE Restart
    BY <1>8 DEF Restart
  <1>9. CASE Quiet
    BY <1>9, QuietFrame, QuietAt
  <1> QED
    BY <1>1, <1>2, <1>3, <1>4, <1>5, <1>6, <1>7, <1>8, <1>9, Cases

\* Of an update that was sent nothing changes.
LEMMA SentFixed ==
  ASSUME TelegramTypeOK, TelegramNext, NEW u \in Ids, u <= sentUpTo
  PROVE  u <= sentUpTo' /\ inbox'[u] = inbox[u]
  <1>1. CASE UserSends
    BY <1>1 DEF UserSends, TelegramTypeOK, Ids
  <1>2. CASE Quiet
    BY <1>2, QuietFrame
  <1>3. CASE ~UserSends /\ ~Quiet
    BY <1>3, Cases DEF Tick, FirstPoll, Take, PollAnswered, PollFails, Gone, Restart,
       server
  <1> QED
    BY <1>1, <1>2, <1>3

\* The dates follow the clock, and an update that was taken belongs to the past
\* of the next start.
LEMMA DatedStep ==
  ASSUME TelegramTypeOK, Ordered, Dated, TakenBehind, TelegramNext
  PROVE  Dated'
  <1> USE DEF server, process
  <1>1. clock <= clock' /\ start' <= clock' /\ start' \in Nat /\ clock' \in Nat
    <2>1. UNCHANGED <<clock, start>> \/ Tick \/ Restart
      BY Cases, QuietFrame DEF UserSends, FirstPoll, Take, PollAnswered, PollFails, Gone
    <2>2. CASE UNCHANGED <<clock, start>>
      BY <2>2 DEF Dated, TelegramTypeOK
    <2>3. CASE Tick
      BY <2>3, TelegramAssumption DEF Tick, Dated, TelegramTypeOK
    <2>4. CASE Restart
      BY <2>4 DEF Restart, TelegramTypeOK
    <2> QED
      BY <2>1, <2>2, <2>3, <2>4
  <1>2. ASSUME NEW u \in Ids, u <= sentUpTo'
        PROVE  inbox'[u].date <= clock'
    <2>1. CASE u <= sentUpTo
      BY <1>1, <2>1, SentFixed DEF Dated, TelegramTypeOK, Updates
    <2>2. CASE ~(u <= sentUpTo)
      <3>1. ~UserSends => sentUpTo' = sentUpTo
        BY Cases, QuietFrame DEF Tick, FirstPoll, Take, PollAnswered, PollFails, Gone,
           Restart
      <3>2. UserSends => sentUpTo' = sentUpTo + 1
        BY DEF UserSends
      <3>3. UserSends /\ u = sentUpTo + 1
        BY <1>2, <2>2, <3>1, <3>2 DEF TelegramTypeOK, Ids
      <3>4. inbox'[u].date = clock
        BY <3>3 DEF UserSends, TelegramTypeOK
      <3> QED
        BY <1>1, <3>4 DEF TelegramTypeOK
    <2> QED
      BY <2>1, <2>2
  <1>3. ASSUME NEW u \in earlier'
        PROVE  u <= sentUpTo' /\ (at' # "down" => inbox'[u].date <= start')
    <2>1. CASE Gone
      <3>1. u \in Ids /\ u <= sentUpTo
        BY <1>3, <2>1 DEF Gone, Dated, TakenBehind, Ordered, TelegramTypeOK, Ids
      <3> QED
        BY <2>1, <3>1 DEF Gone
    <2>2. CASE ~Gone
      <3>1. u \in earlier /\ u \in Ids
        BY <1>3, <2>2, Cases, QuietFrame DEF UserSends, Tick, FirstPoll, Take,
           PollAnswered, PollFails, Restart, TelegramTypeOK
      <3>2. u <= sentUpTo' /\ inbox'[u] = inbox[u]
        BY <3>1, SentFixed DEF Dated
      <3>3. CASE Restart
        <4>1. inbox[u].date <= clock
          BY <3>1 DEF Dated
        <4> QED
          BY <3>2, <3>3, <4>1 DEF Restart
      <3>4. CASE ~Restart
        <4>1. start' = start /\ (at' # "down" => at # "down")
          BY <2>2, <3>4, Cases, QuietFrame, QuietAt DEF UserSends, Tick, FirstPoll, Take,
             PollAnswered, PollFails
        <4> QED
          BY <3>1, <3>2, <4>1 DEF Dated
      <3> QED
        BY <3>3, <3>4
    <2> QED
      BY <2>1, <2>2
  <1> QED
    BY <1>1, <1>2, <1>3 DEF Dated

\* What Take does besides.
LEMMA TakeMoves ==
  ASSUME TelegramTypeOK, Ordered, Take
  PROVE  /\ offset \in Ids /\ offset' = offset + 1
         /\ at' \in {"batch", "handler"}
         /\ UNCHANGED <<inbox, start, confirmed, first>>
  <1>1. offset \in Ids /\ offset' = offset + 1
    BY TelegramAssumption DEF Take, NextOffset, TelegramTypeOK, Ordered, Ids
  <1>2. at' \in {"batch", "handler"}
    <2>1. CASE Fresh(offset)
      BY <2>1 DEF Take
    <2>2. CASE ~Fresh(offset)
      BY <2>2 DEF Take
    <2> QED
      BY <2>1, <2>2
  <1>3. UNCHANGED <<inbox, start, confirmed, first>>
    BY DEF Take, server, process
  <1> QED
    BY <1>1, <1>2, <1>3

\* Within a process `taken` grows only in Take, and only for the update at the
\* offset, which is then left behind.
LEMMA TakenStep ==
  ASSUME TelegramTypeOK, Ordered, TakenBehind, TelegramNext
  PROVE  TakenBehind'
  <1> USE DEF server, process
  <1>1. CASE Take
    <2>1. offset \in Ids /\ offset' = offset + 1 /\ at' \notin {"first", "down"}
      BY <1>1, TakeMoves
    <2>2. UNCHANGED <<inbox, start>>
      BY <1>1, TakeMoves
    <2>3. ASSUME NEW u \in Ids
          PROVE  taken'[u] <= 1 /\ (taken'[u] > 0 => u < offset' /\ inbox'[u].date >= start')
      <3>1. CASE u = offset
        <4>1. taken[u] = 0
          BY <3>1, <2>3 DEF TakenBehind, TelegramTypeOK, Ids
        <4>2. (Fresh(offset) /\ taken'[u] = 1) \/ taken'[u] = 0
          BY <1>1, <3>1, <4>1 DEF Take, TelegramTypeOK
        <4> QED
          BY <2>1, <2>2, <3>1, <4>2 DEF Fresh, Ids
      <3>2. CASE u # offset
        <4>1. taken'[u] = taken[u]
          BY <1>1, <2>1, <3>2 DEF Take, TelegramTypeOK
        <4> QED
          BY <2>1, <2>2, <2>3, <4>1 DEF TakenBehind, Ids
      <3> QED
        BY <3>1, <3>2
    <2> QED
      BY <2>1, <2>3 DEF TakenBehind
  <1>2. CASE Gone \/ Restart
    BY <1>2 DEF Gone, Restart, TakenBehind, TelegramTypeOK
  <1>3. CASE FirstPoll
    BY <1>3 DEF FirstPoll, TakenBehind, TelegramTypeOK
  <1>4. CASE ~Take /\ ~Gone /\ ~Restart /\ ~FirstPoll
    <2>1. UNCHANGED <<taken, start>> /\ offset <= offset' /\ offset' \in Nat
      BY <1>4, Cases, QuietFrame DEF UserSends, Tick, PollAnswered, PollFails, Later,
         TelegramTypeOK
    <2>2. at' \in {"first", "down"} => at \in {"first", "down"}
      BY <1>4, Cases, QuietAt DEF UserSends, Tick, PollAnswered, PollFails
    <2>3. ASSUME NEW u \in Ids, taken[u] > 0
          PROVE  inbox'[u] = inbox[u]
      BY <2>3, SentFixed DEF TakenBehind, Ordered, TelegramTypeOK, Ids
    <2> QED
      BY <2>1, <2>2, <2>3 DEF TakenBehind, TelegramTypeOK, Ids
  <1> QED
    BY <1>1, <1>2, <1>3, <1>4

\* What was not passed over or forgotten before a step is not so after it: the
\* offset moves over an update that is taken, or to what the server has
\* confirmed, and that is what the offset was before.
LEMMA PassedStep ==
  ASSUME TelegramTypeOK, Ordered, TakenBehind, NonePassedOver, NoneForgotten, TelegramNext
  PROVE  NonePassedOver' /\ NoneForgotten'
  <1> USE DEF server, process
  <1> DEFINE Due(u) == first <= u /\ inbox[u].date >= start
  <1>1. CASE Gone \/ Restart
    BY <1>1 DEF Gone, Restart, NonePassedOver, NoneForgotten
  <1>2. CASE FirstPoll
    <2>1. offset' <= first' /\ confirmed' <= first' /\ first' \in Nat /\ offset' \in Nat
      BY <1>2 DEF FirstPoll, Answers, Ordered, TelegramTypeOK
    <2> QED
      BY <2>1, <1>2 DEF FirstPoll, NonePassedOver, NoneForgotten, Ids, TelegramTypeOK
  <1>3. CASE ~Gone /\ ~Restart /\ ~FirstPoll
    <2>1. /\ UNCHANGED <<first, start>>
          /\ at' \notin {"first", "down"} => at \notin {"first", "down"}
      <3>1. CASE Take
        BY <3>1, TakeMoves DEF Take
      <3>2. CASE Quiet
        BY <3>2, QuietFrame, QuietAt DEF TelegramTypeOK
      <3> QED
        BY <1>3, <3>1, <3>2, Cases DEF UserSends, Tick, PollAnswered, PollFails
    <2> SUFFICES ASSUME at \notin {"first", "down"}, NEW u \in Ids, Due(u)',
                        u < offset' \/ u < confirmed'
                 PROVE  taken'[u] = 1
      BY <2>1 DEF NonePassedOver, NoneForgotten
    <2>2. u < offset \/ u < confirmed => taken[u] = 1
      <3> SUFFICES ASSUME u < offset \/ u < confirmed PROVE taken[u] = 1
        OBVIOUS
      <3>1. inbox'[u] = inbox[u]
        BY SentFixed DEF Ordered, TelegramTypeOK, Ids
      <3> QED
        BY <2>1, <3>1 DEF NonePassedOver, NoneForgotten
    <2>3. CASE Take
      <3>1. offset \in Ids /\ offset' = offset + 1 /\ confirmed' = confirmed
        BY <2>3, TakeMoves
      <3>2. CASE u = offset
        <4>1. Fresh(offset)
          BY <2>1, <2>3, <3>2 DEF Take, Fresh
        <4>2. taken[u] \in {0, 1}
          BY DEF TakenBehind, TelegramTypeOK
        <4>3. taken[u] = 0
          BY <3>2, <4>2 DEF TakenBehind, TelegramTypeOK, Ids
        <4> QED
          BY <2>3, <3>2, <4>1, <4>3 DEF Take, TelegramTypeOK
      <3>3. CASE u # offset
        <4>1. u < offset \/ u < confirmed
          BY <3>1, <3>3 DEF Ids, TelegramTypeOK
        <4>2. taken'[u] = taken[u]
          BY <2>3, <3>1, <3>3 DEF Take, TelegramTypeOK
        <4> QED
          BY <2>2, <4>1, <4>2
      <3> QED
        BY <3>2, <3>3
    <2>4. CASE ~Take
      <3>1. taken' = taken
        BY <1>3, <2>4, Cases, QuietFrame DEF UserSends, Tick, PollAnswered, PollFails
      <3>2. u < offset \/ u < confirmed
        <4>1. /\ offset' \in {offset, Later(confirmed, offset)}
              /\ confirmed' \in {confirmed, Later(confirmed, offset)}
          BY <1>3, <2>4, Cases, QuietFrame DEF UserSends, Tick, PollAnswered, PollFails,
             Confirms
        <4> QED
          BY <4>1 DEF Later
      <3> QED
        BY <2>2, <3>1, <3>2
    <2> QED
      BY <2>3, <2>4
  <1> QED
    BY <1>1, <1>2, <1>3

\* A stutter keeps everything.
LEMMA Stutter ==
  ASSUME Inv, UNCHANGED telegramVars
  PROVE  Inv'
  BY DEF Inv, telegramVars, server, process, TelegramTypeOK, Ordered, Dated, TakenBehind,
     NonePassedOver, NoneForgotten, Fresh

LEMMA Inductive == TelegramSpec => []Inv
  <1>1. Inv /\ [TelegramNext]_telegramVars => Inv'
    <2>1. CASE TelegramNext
      BY <2>1, TypeStep, OrderedStep, DatedStep, TakenStep, PassedStep DEF Inv
    <2>2. CASE UNCHANGED telegramVars
      BY <2>2, Stutter
    <2> QED
      BY <2>1, <2>2
  <1> QED
    BY InitInv, <1>1, PTL DEF TelegramSpec

-----------------------------------------------------------------------------

\* The state of the thread is well typed for any number of updates, seconds,
\* messages and processes.
THEOREM ThreadTypes == TelegramSpec => []TelegramTypeOK
  <1>1. Inv => TelegramTypeOK
    BY DEF Inv
  <1> QED
    BY <1>1, Inductive, PTL

\* telegram_loop and exec_command: a process takes an update at most once, and
\* a later one again only within the second of its start.
THEOREM UpdateTakenOnce == TelegramSpec => []TakenOnce
  <1>1. Inv => TakenOnce
    <2> SUFFICES ASSUME Inv, NEW u \in Ids
                 PROVE  /\ taken[u] <= 1
                        /\ taken[u] = 1 /\ u \in earlier => inbox[u].date = start
      BY DEF TakenOnce
    <2> USE DEF Inv
    <2>1. taken[u] <= 1
      BY DEF TakenBehind
    <2>2. ASSUME taken[u] = 1, u \in earlier PROVE inbox[u].date = start
      <3>1. at # "down" /\ inbox[u].date >= start
        BY <2>2 DEF TakenBehind
      <3>2. inbox[u].date <= start
        BY <2>2, <3>1 DEF Dated
      <3>3. inbox[u].date \in Nat /\ start \in Nat
        BY DEF TelegramTypeOK, Updates
      <3> QED
        BY <3>1, <3>2, <3>3
    <2> QED
      BY <2>1, <2>2
  <1> QED
    BY <1>1, Inductive, PTL

\* telegram_loop: the offset passes over no fresh update, whatever fails.
THEOREM UpdatePassedOverNever == TelegramSpec => []NonePassedOver
  <1>1. Inv => NonePassedOver
    BY DEF Inv
  <1> QED
    BY <1>1, Inductive, PTL

\* get_updates: the server is told to forget only what was taken.
THEOREM UpdateForgottenNever == TelegramSpec => []NoneForgotten
  <1>1. Inv => NoneForgotten
    BY DEF Inv
  <1> QED
    BY <1>1, Inductive, PTL

-----------------------------------------------------------------------------

\* The settings commands tell the truth about the row.
Told == TelegramTypeOK /\ Ordered /\ SettingsAsTold

LEMMA ToldStep ==
  ASSUME Told, TelegramNext
  PROVE  SettingsAsTold'
  <1> USE DEF server, process
  <1>0. /\ settings \in Settings
        /\ told \in [list: Values \cup {Unsure}, number: Numbers, amount: Values]
    BY DEF Told, TelegramTypeOK
  <1>1. CASE UNCHANGED <<settings, told>>
    BY <1>1 DEF Told, SettingsAsTold
  <1>2. CASE PctList
    BY <1>0, <1>2 DEF PctList, Told, SettingsAsTold, Settings
  <1>3. CASE PctNumber
    BY <1>0, <1>3 DEF PctNumber, Told, SettingsAsTold, Settings
  <1>4. CASE Pcts
    BY <1>0, <1>4 DEF Pcts, Told, SettingsAsTold, Settings
  <1>5. CASE Amount
    BY <1>0, <1>5 DEF Amount, Told, SettingsAsTold, Settings
  <1>6. CASE Restart
    BY <1>6 DEF Restart, SettingsAsTold, Defaults
  <1>7. \/ UNCHANGED <<settings, told>>
        \/ PctList \/ PctNumber \/ Pcts \/ Amount \/ Restart
    BY Cases DEF UserSends, Tick, FirstPoll, Take, PollAnswered, PollFails, Gone, Quiet,
       Send, Panics, BatchDone, Answer, CloseOff, Reports, CloseOffReports
  <1> QED
    BY <1>1, <1>2, <1>3, <1>4, <1>5, <1>6, <1>7

\* pct, pcts and amount: what the last reply said is what the row holds, unless
\* pct failed half way.
THEOREM RepliesAreTrue == TelegramSpec => []SettingsAsTold
  <1>1. TelegramInit => SettingsAsTold
    BY DEF TelegramInit, SettingsAsTold, Defaults
  <1>2. Inv /\ SettingsAsTold /\ [TelegramNext]_telegramVars => SettingsAsTold'
    <2>1. CASE UNCHANGED telegramVars
      BY <2>1 DEF telegramVars, SettingsAsTold
    <2>2. ASSUME Inv, SettingsAsTold, TelegramNext PROVE SettingsAsTold'
      BY <2>2, ToldStep DEF Inv, Told
    <2> QED
      BY <2>1, <2>2
  <1> QED
    BY <1>1, <1>2, Inductive, PTL DEF TelegramSpec

=============================================================================
