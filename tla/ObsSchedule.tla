------------------------------ MODULE ObsSchedule ------------------------------
(***************************************************************************)
(* The schedule of the Telescope Manager (tm/tm.py, tm/webhook_handler.py, *)
(* obs/oet.py, models/oda.py): how the observation designs that the user   *)
(* interface and the webhook deliver are merged into the archive, and how  *)
(* observations are started when their scheduling blocks begin.            *)
(*                                                                         *)
(* Events are taken from one queue by several workers.  The handlers read  *)
(* and write the list of observations without a lock: each look at it and  *)
(* each change is a step of its own.  What follows a start is the matter   *)
(* of ObsWorkflow.                                                         *)
(***************************************************************************)
EXTENDS Integers, FiniteSets, SequencesExt

CONSTANTS Sheets,      \* observation designs: sequences of [id, start, end]
          Workers,     \* processors of the Telescope Manager
          MaxConfigs,  \* bound on designs delivered
          MaxNow       \* bound on time

ASSUME ScheduleAssumption ==
    /\ {MaxConfigs, MaxNow} \subseteq Nat /\ Workers # {}
    /\ Sheets \subseteq Seq([id : STRING, start : Int, end : Int])
    /\ \A sheet \in Sheets : \A i, j \in DOMAIN sheet :
           /\ sheet[i].start < sheet[i].end
           /\ sheet[i].id = sheet[j].id => i = j

VARIABLES
    now,
    objects,   \* every observation made: [id, start, end, begun], begun: its state left EMPTY
    obs_list,  \* obs_store.obs_list: numbers of objects
    snapshot,  \* last_odt_config_snapshot
    inbox,     \* the event queue
    hands,     \* what each worker is doing
    timer,     \* when obs_start_timer is due, or NoTimer
    configs,   \* designs delivered so far (bounds them)
    cut,       \* the last decision set no timer because something was due
    crossed    \* handlers overlapped, or an observation was replaced while it started

scheduleVars == <<now, objects, obs_list, snapshot, inbox, hands, timer, configs, cut, crossed>>

NoTimer == -1
Free == [at |-> "free"]

Goes(w, hand) == hands' = [hands EXCEPT ![w] = hand]

Object(n) == objects[n]
Same(n, m) == Object(n).id = Object(m).id
Due(n) == ~Object(n).begun /\ Object(n).start <= now /\ Object(n).end > now

Starting(n) ==
    \/ [is |-> "start", obs |-> n] \in Range(inbox)
    \/ \E w \in Workers : \/ hands[w].at = "start" /\ hands[w].obs = n
                          \/ hands[w].at = "perform" /\ n \in hands[w].starts

-----------------------------------------------------------------------------
(* What arrives *)

\* Time is coarse: a handler that has decided performs before a block begins.
Tick ==
    /\ now < MaxNow /\ now' = now + 1
    /\ \A w \in Workers : hands[w].at # "perform"
    /\ UNCHANGED <<objects, obs_list, snapshot, inbox, hands, timer, configs, cut, crossed>>

PutDesign(sheet) ==
    /\ configs < MaxConfigs /\ configs' = configs + 1
    /\ inbox' = Append(inbox, [is |-> "config", sheet |-> sheet])

\* The main loop reads the design and puts an event if it is another than the last.
PollDesign == \E sheet \in Sheets :
    /\ sheet # snapshot /\ snapshot' = sheet
    /\ PutDesign(sheet)
    /\ UNCHANGED <<now, objects, obs_list, hands, timer, cut, crossed>>

\* receive_webhook of a design; a payload of another kind leaves everything alone.
ReceiveWebhook == \E sheet \in Sheets :
    /\ PutDesign(sheet)
    /\ UNCHANGED <<now, objects, obs_list, snapshot, hands, timer, cut, crossed>>

TimerDue ==
    /\ timer # NoTimer /\ timer <= now
    /\ timer' = NoTimer /\ inbox' = Append(inbox, [is |-> "timer"])
    /\ UNCHANGED <<now, objects, obs_list, snapshot, hands, configs, cut, crossed>>

-----------------------------------------------------------------------------
(* The merging of a design: process_config *)

Taken(w, is) ==
    /\ hands[w] = Free /\ inbox # <<>> /\ Head(inbox).is = is
    /\ inbox' = Tail(inbox)

Merging(w) == hands[w].at \in {"look", "change", "compare", "append"}

\* ObsList.from_dict makes the observations of the design.
TakeConfig(w) ==
    LET sheet == Head(inbox).sheet
    IN  /\ Taken(w, "config")
        /\ objects' = objects \o [i \in DOMAIN sheet |->
               [id |-> sheet[i].id, start |-> sheet[i].start, end |-> sheet[i].end, begun |-> FALSE]]
        /\ Goes(w, [at |-> "look", index |-> 1,
                    offers |-> [i \in DOMAIN sheet |-> Len(objects) + i]])
        /\ crossed' = (crossed \/ \E v \in Workers : Merging(v))
        /\ UNCHANGED <<now, obs_list, snapshot, timer, configs, cut>>

\* One round of the enumeration, up to the change it decides on.
Look(w) ==
    LET hand == hands[w]
    IN  /\ hand.at = "look"
        /\ Goes(w, IF hand.index > Len(obs_list) THEN [hand EXCEPT !.at = "compare", !.index = 1]
                   ELSE IF Object(obs_list[hand.index]).begun THEN [hand EXCEPT !.index = @ + 1]
                   ELSE [at |-> "change", index |-> hand.index, offers |-> hand.offers,
                         offer |-> {n \in Range(hand.offers) : Same(n, obs_list[hand.index])}])
        /\ UNCHANGED <<now, objects, obs_list, snapshot, inbox, timer, configs, cut, crossed>>

\* The replacement or the removal; the handler fails if the list is too short by now.
Change(w) ==
    LET hand == hands[w]
        i == hand.index
    IN  /\ hand.at = "change"
        /\ IF i > Len(obs_list) THEN Goes(w, Free) /\ UNCHANGED <<obs_list, crossed>>
           ELSE /\ obs_list' = IF hand.offer = {} THEN RemoveAt(obs_list, i)
                               ELSE [obs_list EXCEPT ![i] = CHOOSE n \in hand.offer : TRUE]
                /\ crossed' = (crossed \/ Object(obs_list[i]).begun \/ Starting(obs_list[i]))
                /\ Goes(w, [at |-> "look", index |-> i + 1, offers |-> hand.offers])
        /\ UNCHANGED <<now, objects, snapshot, inbox, timer, configs, cut>>

Compare(w) ==
    LET hand == hands[w]
    IN  /\ hand.at = "compare"
        /\ Goes(w, IF hand.index > Len(hand.offers) THEN [at |-> "decide", merged |-> TRUE]
                   ELSE IF \E n \in Range(obs_list) : Same(n, hand.offers[hand.index])
                   THEN [hand EXCEPT !.index = @ + 1]
                   ELSE [hand EXCEPT !.at = "append"])
        /\ UNCHANGED <<now, objects, obs_list, snapshot, inbox, timer, configs, cut, crossed>>

AppendOffer(w) ==
    LET hand == hands[w]
    IN  /\ hand.at = "append"
        /\ obs_list' = Append(obs_list, hand.offers[hand.index])
        /\ Goes(w, [hand EXCEPT !.at = "compare", !.index = @ + 1])
        /\ UNCHANGED <<now, objects, snapshot, inbox, timer, configs, cut, crossed>>

-----------------------------------------------------------------------------
(* The starting of observations *)

TakeTimer(w) ==
    /\ Taken(w, "timer")
    /\ Goes(w, [at |-> "decide", merged |-> FALSE])
    /\ UNCHANGED <<now, objects, obs_list, snapshot, timer, configs, cut, crossed>>

\* Mutant: nothing is timed as soon as something is due.
ReturnsIfDue(merged, due) == due # {}

\* start_next_obs_timer starts what is due and returns; after the timer's
\* handler, which has started it already, nothing is due any more.
ReturnsEarly(merged, due) == merged /\ due # {}

Decide(w) ==
    LET merged == hands[w].merged
        due == {n \in Range(obs_list) : Due(n)}
        future == {n \in Range(obs_list) : /\ ~Object(n).begun /\ Object(n).start > now
                                           /\ ~\E m \in due : Same(n, m)}
    IN  /\ hands[w].at = "decide"
        /\ Goes(w, [at |-> "perform", starts |-> due,
                    next |-> IF ReturnsEarly(merged, due) \/ future = {} THEN NoTimer
                             ELSE Min({Object(n).start : n \in future})])
        /\ cut' = (merged /\ due # {})
        /\ crossed' = (crossed \/ \E v \in Workers : hands[v].at = "perform")
        /\ UNCHANGED <<now, objects, obs_list, snapshot, inbox, timer, configs>>

\* performActions: the timer replaces the one of its name, then the starts are
\* queued.  Its time is cut to whole milliseconds: it may come a little early.
Perform(w) ==
    LET hand == hands[w]
    IN  /\ hand.at = "perform"
        /\ IF hand.next = NoTimer THEN UNCHANGED timer
           ELSE timer' \in {hand.next, Max({now, hand.next - 1})}
        /\ inbox' = inbox \o SetToSeq({[is |-> "start", obs |-> n] : n \in hand.starts})
        /\ Goes(w, Free)
        /\ UNCHANGED <<now, objects, obs_list, snapshot, configs, cut, crossed>>

TakeStart(w) ==
    /\ Taken(w, "start")
    /\ Goes(w, [at |-> "start", obs |-> Head(inbox).obs])
    /\ UNCHANGED <<now, objects, obs_list, snapshot, timer, configs, cut, crossed>>

\* The transition START, under the observation's lock.
Begin(w) ==
    /\ hands[w].at = "start"
    /\ objects' = [objects EXCEPT ![hands[w].obs].begun = TRUE]
    /\ Goes(w, Free)
    /\ UNCHANGED <<now, obs_list, snapshot, inbox, timer, configs, cut, crossed>>

ScheduleInit ==
    /\ now = 0 /\ objects = <<>> /\ obs_list = <<>> /\ snapshot = <<>> /\ inbox = <<>>
    /\ hands = [w \in Workers |-> Free]
    /\ timer = NoTimer /\ configs = 0 /\ cut = FALSE /\ crossed = FALSE

ScheduleNext ==
    \/ Tick \/ PollDesign \/ ReceiveWebhook \/ TimerDue
    \/ \E w \in Workers : \/ TakeConfig(w) \/ Look(w) \/ Change(w) \/ Compare(w) \/ AppendOffer(w)
                          \/ TakeTimer(w) \/ Decide(w) \/ Perform(w) \/ TakeStart(w) \/ Begin(w)

ScheduleSpec == ScheduleInit /\ [][ScheduleNext]_scheduleVars

-----------------------------------------------------------------------------
AllHandled == inbox = <<>> /\ \A w \in Workers : hands[w] = Free

\* A timer comes no later than the observation's block begins.
Timed(n) == timer # NoTimer /\ timer <= Object(n).start

Awaited == {n \in Range(obs_list) : ~Object(n).begun /\ Object(n).end > now}

\* As long as no two designs are merged at once and none replaces an
\* observation that is being started: one that has begun stays in the archive,
\* no observation is there twice or begins twice, and when all is handled
\* every observation whose block is to come is waited for, unless the last
\* design came while another observation was due.
ScheduleIsKept == crossed \/
    /\ \A n \in DOMAIN objects : Object(n).begun => n \in Range(obs_list)
    /\ \A i, j \in DOMAIN obs_list : Same(obs_list[i], obs_list[j]) => i = j
    /\ AllHandled /\ ~cut => \A n \in Awaited : Timed(n)

\* When all is handled, the next observation that is still EMPTY is timed:
\* start_next_obs_timer "sets a timer to start the next scheduled observation
\* with ObsState = EMPTY".
NextIsTimed == AllHandled /\ ~crossed => \A n \in Awaited : Object(n).start > now => Timed(n)
=============================================================================
