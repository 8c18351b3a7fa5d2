------------------------------ MODULE TrayClient ------------------------------
(* The menu bar app (apps/desktop, with StateClient of traffic_light_core): a
   timer starts a poll of GET /state every interval, whether or not earlier ones
   have come back, so answers may arrive out of order and refreshes overlap at
   each await.  A tick is one interval.  The app's own steps, reading a file and
   calling the menu bar, take less than an interval; a request may take any time
   up to its timeout.                                                        *)
EXTENDS StateService, Rendering

CONSTANT Timeout   \* of a request, in intervals

ASSUME TimeoutAssumption == Timeout \in Nat \ {0}

VARIABLES held,     \* StateClient._token
          polls,    \* refreshes that are in fetch(), in the order they began
          channel,  \* refreshes that wait for setTitle to return, in that order
          ticking,  \* whether the timer has been started
          title,    \* _lastTitle, which is what the menu bar shows
          menu,     \* the context menu
          lastTrue  \* history: ticks since each title was the right one

appVars == <<held, polls, channel, ticking, title, menu>>
tvars == <<serviceVars, appVars, lastTrue>>

-----------------------------------------------------------------------------
(* A refresh ends with an answer or a failure, and both have a title and a menu. *)

Ok(result) == "snapshot" \in DOMAIN result

titleFor(result) == IF Ok(result) THEN Title(result.snapshot) ELSE <<"offline">>
menuFor(result) ==
  IF Ok(result) THEN Menu(result.snapshot) ELSE [detail |-> result.failure]

Titles == {Title(answer) : answer \in Answer}
Right == {Title(answer) : answer \in Current}

Bound == 2 * Timeout + 1

TInit ==
  /\ ServiceInit
  /\ held = Empty
  /\ polls = <<[stage |-> "begun", age |-> 0]>>
  /\ channel = << >>
  /\ ticking = FALSE
  /\ title = <<"starting">>
  /\ menu = [detail |-> "none"]
  /\ lastTrue = [t \in Titles |-> Bound + 1]

-----------------------------------------------------------------------------
(* The server, the file and the sessions behind them. *)

InUse == Tokens \cup {held}
           \cup {polls[i].token : i \in {i \in DOMAIN polls : "token" \in DOMAIN polls[i]}}

World ==
  /\ Service(InUse)
  /\ lastTrue' = [t \in Titles |-> IF t \in Right' THEN 0 ELSE lastTrue[t]]
  /\ UNCHANGED appVars

-----------------------------------------------------------------------------
(* StateClient.fetch *)

Without(s, i) == [j \in 1 .. Len(s) - 1 |-> IF j < i THEN s[j] ELSE s[j + 1]]

Becomes(i, poll) == polls' = [polls EXCEPT ![i] = poll]

(* Broken Refresh: a failed poll leaves the menu bar as it is, title or all. *)
Refresh_titleOfSuccess(i, result) ==
  /\ polls' = Without(polls, i)
  /\ IF Ok(result) /\ titleFor(result) # title
     THEN /\ title' = titleFor(result)
          /\ channel' = Append(channel, result)
          /\ UNCHANGED <<menu, ticking>>
     ELSE /\ menu' = menuFor(result)
          /\ ticking' = TRUE
          /\ UNCHANGED <<title, channel>>
  /\ UNCHANGED <<serviceVars, lastTrue>>

Refresh_onSuccess(i, result) ==
  /\ polls' = Without(polls, i)
  /\ IF Ok(result) /\ titleFor(result) # title
     THEN /\ title' = titleFor(result)
          /\ channel' = Append(channel, result)
          /\ UNCHANGED <<menu, ticking>>
     ELSE /\ menu' = IF Ok(result) THEN menuFor(result) ELSE menu
          /\ ticking' = TRUE
          /\ UNCHANGED <<title, channel>>
  /\ UNCHANGED <<serviceVars, lastTrue>>

(* What _refresh does with the result, up to its next await: a new title is set
   first, the same title leaves only the menu to be set.                     *)
Refresh(i, result) ==
  /\ polls' = Without(polls, i)
  /\ IF titleFor(result) # title
     THEN /\ title' = titleFor(result)
          /\ channel' = Append(channel, result)
          /\ UNCHANGED <<menu, ticking>>
     ELSE /\ menu' = menuFor(result)
          /\ ticking' = TRUE
          /\ UNCHANGED <<title, channel>>
  /\ UNCHANGED <<serviceVars, lastTrue>>

(* setTitle has returned: the refresh goes on to its menu, and the first one
   starts the timer.                                                         *)
SetContextMenu ==
  /\ channel # << >>
  /\ menu' = menuFor(Head(channel))
  /\ channel' = Tail(channel)
  /\ ticking' = TRUE
  /\ UNCHANGED <<serviceVars, held, polls, title, lastTrue>>

Sent(i, token) ==
  Becomes(i, [stage |-> "sent", age |-> polls[i].age, token |-> token])

(* A token in memory is used, and otherwise the file is read. *)
Begin(i) ==
  /\ polls[i].stage = "begun"
  /\ IF held # Empty THEN Sent(i, held)
     ELSE Becomes(i, [stage |-> "read", age |-> polls[i].age,
                      token |-> IF file \in Token THEN file ELSE Empty])
  /\ UNCHANGED <<serviceVars, held, channel, ticking, title, menu, lastTrue>>

(* loadToken has returned: what it read replaces whatever is held by now. *)
Loaded(i) ==
  LET token == polls[i].token
  IN /\ polls[i].stage = "read"
     /\ held' = token
     /\ IF token = Empty
        THEN Refresh(i, Failed("no token"))
        ELSE /\ Sent(i, token)
             /\ UNCHANGED <<serviceVars, channel, ticking, title, menu, lastTrue>>

(* Broken Arrive: a rejected token is kept. *)
Arrive_keepsToken(i) ==
  /\ polls[i].stage = "answered"
  /\ UNCHANGED held
  /\ Refresh(i, polls[i].result)

(* The answer arrives; a 401 makes the next poll read the file again. *)
Arrive(i) ==
  /\ polls[i].stage = "answered"
  /\ held' = IF polls[i].result = Failed("rejected") THEN Empty ELSE held
  /\ Refresh(i, polls[i].result)

(* Broken Due: the timeout is an interval longer. *)
Due_late(i) == polls[i].stage \in {"sent", "answered"} /\ polls[i].age = Timeout + 1

Due(i) == polls[i].stage \in {"sent", "answered"} /\ polls[i].age = Timeout

TimeOut(i) ==
  /\ Due(i)
  /\ Refresh(i, Failed("unreachable"))
  /\ UNCHANGED held

(* Nobody listens. *)
Refused(i) ==
  /\ polls[i].stage = "sent" /\ Up = {}
  /\ Refresh(i, Failed("unreachable"))
  /\ UNCHANGED held

(* The server answers, if the token is its own. *)
Serve(i) ==
  /\ polls[i].stage = "sent" /\ Up # {}
  /\ Becomes(i, [stage  |-> "answered", age |-> polls[i].age,
                 result |-> Respond(polls[i].token)])
  /\ UNCHANGED <<serviceVars, held, channel, ticking, title, menu, lastTrue>>

App ==
  \/ SetContextMenu
  \/ \E i \in DOMAIN polls :
       Begin(i) \/ Loaded(i) \/ Serve(i) \/ Arrive(i) \/ Refused(i) \/ TimeOut(i)

(* An interval has passed: timers fire on time, and a poll begins. *)
Tick ==
  /\ channel = << >>
  /\ \A i \in DOMAIN polls : polls[i].stage \in {"sent", "answered"} /\ ~ Due(i)
  /\ polls' = [i \in DOMAIN polls |-> [polls[i] EXCEPT !.age = @ + 1]]
                \o IF ticking THEN <<[stage |-> "begun", age |-> 0]>> ELSE << >>
  /\ lastTrue' = [t \in Titles |->
                    IF t \in Right THEN 0
                    ELSE IF lastTrue[t] <= Bound THEN lastTrue[t] + 1 ELSE lastTrue[t]]
  /\ UNCHANGED <<serviceVars, held, channel, ticking, title, menu>>

TNext == World \/ App \/ Tick

TSpec == TInit /\ [][TNext]_tvars

(* The app and the loopback network go on, and time passes. *)
TFairSpec == TSpec /\ WF_tvars(App) /\ WF_tvars(Tick)

-----------------------------------------------------------------------------

Result == {Success(answer) : answer \in Answer}
            \cup {Failed(why) : why \in {"no token", "rejected", "unreachable"}}

(* Types, and the bound on overlapping polls: one for each interval of a timeout. *)
TTypeOK ==
  /\ ServiceTypeOK
  /\ held \in Token \cup {Empty}
  /\ Len(polls) <= Timeout + 1
  /\ \A i \in DOMAIN polls : polls[i].age \in 0..Timeout
  /\ \A i \in DOMAIN channel : channel[i] \in Result
  /\ ticking \in BOOLEAN
  /\ lastTrue \in [Titles -> 0 .. Bound + 1]

(* The menu bar keeps the promise of a display, however slow requests are and in
   whatever order their answers come: no state is put up that has been over for
   longer than a timeout, and none stays for longer than two and an interval; by
   then it shows a later one, or says offline.                               *)
Menubar == INSTANCE Display WITH Sight <- Titles, Fresh <- Timeout, Bound <- Bound,
                                 right <- Right, shown <- title, age <- lastTrue
TrayIsADisplay == Menubar!DSpec

(* Unless a refresh is between the two, title and menu are of one mind: they
   tell the same answer's story or both tell of a failure, though refreshes
   overlap and the title is only set when it changes.                        *)
TitleAndMenuAgree ==
  (channel = << >> /\ ticking) =>
    \E result \in Result : title = titleFor(result) /\ menu = menuFor(result)

(* Once requests are answered in time and the server stays up with the token
   that is in the file, the menu bar comes to show what a settled GET /state
   says, title and menu, and stays there: also when the app held the token of
   an earlier server.                                                        *)
TrayConverges ==
  \A answer \in Answer :
    (/\ <>[](Up # {} /\ file = secret /\ view = answer)
     /\ <>[][\A i \in DOMAIN polls : ~ TimeOut(i)]_tvars)
      => <>[](title = titleFor(Success(answer)) /\ menu = menuFor(Success(answer)))
=============================================================================
