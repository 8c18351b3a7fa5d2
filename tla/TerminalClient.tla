---------------------------- MODULE TerminalClient ----------------------------
(* The terminal client (apps/cli): it resolves the token when it is launched and
   never again, then polls GET /state one request at a time, on a ticker whose
   channel holds one tick, and prints what is news.  The loop's own steps take
   no time; a request may take any time up to its timeout.                   *)
EXTENDS StateService, Rendering

CONSTANTS Interval, \* between two ticks of the ticker
          Timeout   \* of a request

ASSUME IntervalAssumption == Interval \in Nat \ {0}
ASSUME TimeoutAssumption == Timeout \in Nat \ {0}

VARIABLES on,       \* whether the client runs
          all,      \* its -all flag
          bearer,   \* the token it resolved
          request,  \* the poll in flight, or NoRequest
          due,      \* time until the ticker fires
          pending,  \* whether ticker.C holds a tick
          sig,      \* whether sig holds a signal
          last, lastErr,
          out,      \* history: the last two blocks it printed
          heard,    \* history: what its last poll came to
          lastTrue  \* history: ticks since each render was the right one

loopVars == <<all, bearer, due, pending, sig>>
printVars == <<last, lastErr, out, heard>>
cvars == <<serviceVars, on, request, loopVars, printVars, lastTrue>>

NoRequest == [stage |-> "none"]
NoText == << >>
State(answer) == <<"state", render(answer)>>
Error(why) == <<"unreachable", why>>

Errors == {"rejected", "refused", "timed out"}
Sights == {State(answer) : answer \in Answer}
Right == {State(answer) : answer \in Current}
Shows == IF out = << >> THEN NoText ELSE Last(out)

(* A request that begins as another ends takes its timeout after that of the
   other, or after a tick.                                                   *)
Bound == Timeout + Max({Timeout, Interval})

CInit ==
  /\ ServiceInit
  /\ on = FALSE /\ request = NoRequest
  /\ all = FALSE /\ bearer = Empty /\ due = Interval /\ pending = FALSE /\ sig = FALSE
  /\ last = NoText /\ lastErr = "" /\ out = << >> /\ heard = NoText
  /\ lastTrue = [t \in Sights |-> Bound + 1]

-----------------------------------------------------------------------------

World ==
  /\ Service(Tokens \cup {bearer})
  /\ lastTrue' = [t \in Sights |-> IF t \in Right' THEN 0 ELSE lastTrue[t]]
  /\ UNCHANGED <<on, request, loopVars, printVars>>

Sent == [stage |-> "sent", age |-> 0]

(* resolveToken takes the -token flag or else reads the file; without a token the
   client ends at once.  Otherwise the first poll begins.                    *)
Launch(every, given) ==
  LET token == IF given # Empty THEN given ELSE file
  IN /\ ~ on /\ token \in Token
     /\ on' = TRUE /\ all' = every /\ bearer' = token
     /\ request' = Sent
     /\ UNCHANGED <<serviceVars, due, pending, sig, printVars, lastTrue>>

(* A signal is noted, and looked at between polls. *)
Interrupt ==
  /\ on /\ ~ sig
  /\ sig' = TRUE
  /\ UNCHANGED <<serviceVars, on, request, all, bearer, due, pending, printVars, lastTrue>>

Quit ==
  /\ on /\ request = NoRequest /\ sig
  /\ on' = FALSE
  /\ all' = FALSE /\ bearer' = Empty /\ due' = Interval /\ pending' = FALSE /\ sig' = FALSE
  /\ last' = NoText /\ lastErr' = "" /\ out' = << >> /\ heard' = NoText
  /\ UNCHANGED <<serviceVars, request, lastTrue>>

(* Broken PollAgain: an error ends the polling. *)
PollAgain_whileWell ==
  /\ on /\ request = NoRequest /\ pending /\ lastErr = ""
  /\ pending' = FALSE
  /\ request' = Sent
  /\ UNCHANGED <<serviceVars, on, all, bearer, due, sig, printVars, lastTrue>>

PollAgain ==
  /\ on /\ request = NoRequest /\ pending
  /\ pending' = FALSE
  /\ request' = Sent
  /\ UNCHANGED <<serviceVars, on, all, bearer, due, sig, printVars, lastTrue>>

-----------------------------------------------------------------------------
(* poll: what becomes of an answer or an error. *)

Prints(block) == out' = (IF out = << >> THEN << >> ELSE <<Last(out)>>) \o <<block>>

(* Broken Succeeds: what was printed is not remembered. *)
Succeeds_forgetsLast(answer) ==
  /\ heard' = State(answer)
  /\ lastErr' = ""
  /\ IF State(answer) = last /\ ~ all THEN UNCHANGED out
     ELSE Prints(State(answer))
  /\ UNCHANGED last

Succeeds(answer) ==
  /\ heard' = State(answer)
  /\ lastErr' = ""
  /\ IF State(answer) = last /\ ~ all THEN UNCHANGED <<last, out>>
     ELSE last' = State(answer) /\ Prints(State(answer))

(* Broken Fails: the state before it counts as still on the screen. *)
Fails_keepsLast(why) ==
  /\ heard' = Error(why)
  /\ IF why = lastErr THEN UNCHANGED <<lastErr, out>>
     ELSE lastErr' = why /\ Prints(Error(why))
  /\ UNCHANGED last

(* Broken Fails: an error is not worth a line. *)
Fails_quietly(why) == heard' = Error(why) /\ UNCHANGED <<last, lastErr, out>>

Fails(why) ==
  /\ heard' = Error(why)
  /\ IF why = lastErr THEN UNCHANGED <<last, lastErr, out>>
     ELSE lastErr' = why /\ last' = NoText /\ Prints(Error(why))

(* Broken PollEnds: an error is retried before anything else is looked at. *)
PollEnds_retries(result) ==
  /\ IF "snapshot" \in DOMAIN result THEN Succeeds(result.snapshot)
                                     ELSE Fails(result.failure)
  /\ request' = IF "snapshot" \in DOMAIN result THEN NoRequest ELSE Sent
  /\ UNCHANGED <<serviceVars, on, loopVars, lastTrue>>

PollEnds(result) ==
  /\ IF "snapshot" \in DOMAIN result THEN Succeeds(result.snapshot)
                                     ELSE Fails(result.failure)
  /\ request' = NoRequest
  /\ UNCHANGED <<serviceVars, on, loopVars, lastTrue>>

(* Broken Due: the request has no timeout. *)
Due_never == FALSE

Due == request # NoRequest /\ request.age = Timeout

TimeOut == Due /\ PollEnds(Failed("timed out"))

(* Nobody listens, or the server ends before it answers. *)
Refused == request.stage = "sent" /\ Up = {} /\ PollEnds(Failed("refused"))

Serve ==
  /\ request.stage = "sent" /\ Up # {}
  /\ request' = [stage |-> "answered", age |-> request.age, result |-> Respond(bearer)]
  /\ UNCHANGED <<serviceVars, on, loopVars, printVars, lastTrue>>

Arrive == request.stage = "answered" /\ PollEnds(request.result)

Loop == PollAgain \/ TimeOut \/ Refused \/ Arrive

(* Time passes.  A tick that finds the channel full is dropped. *)
Tick ==
  /\ on => IF request = NoRequest THEN ~ pending /\ ~ sig ELSE ~ Due
  /\ request' = IF request = NoRequest THEN NoRequest ELSE [request EXCEPT !.age = @ + 1]
  /\ IF on THEN /\ due' = IF due = 1 THEN Interval ELSE due - 1
                /\ pending' = (pending \/ due = 1)
           ELSE UNCHANGED <<due, pending>>
  /\ lastTrue' = [t \in Sights |->
                    IF t \in Right THEN 0
                    ELSE IF lastTrue[t] <= Bound THEN lastTrue[t] + 1 ELSE lastTrue[t]]
  /\ UNCHANGED <<serviceVars, on, all, bearer, sig, printVars>>

CNext ==
  \/ World
  \/ \E every \in BOOLEAN, given \in (Token \cap Tokens) \cup {Empty} : Launch(every, given)
  \/ Interrupt \/ Quit
  \/ Serve \/ Loop
  \/ Tick

CSpec == CInit /\ [][CNext]_cvars

(* Time passes and the loop runs; nothing is assumed of the server.  The select of
   the loop picks at random between a tick and a signal, so a signal that is
   there time and again is taken at some time.                               *)
CFairSpec == CSpec /\ WF_cvars(Loop) /\ WF_cvars(Tick) /\ SF_cvars(Quit)

-----------------------------------------------------------------------------

(* Types: one request at a time, and never older than its timeout. *)
CTypeOK ==
  /\ ServiceTypeOK
  /\ {on, all, pending, sig} \subseteq BOOLEAN
  /\ bearer \in Token \cup {Empty} /\ (bearer = Empty <=> ~ on)
  /\ request # NoRequest => on /\ request.age \in 0..Timeout
  /\ due \in 1..Interval
  /\ last \in Sights \cup {NoText} /\ lastErr \in Errors \cup {""}
  /\ Len(out) <= 2 /\ \A i \in DOMAIN out : out[i] \in Sights \cup {Error(e) : e \in Errors}

(* The last block on the screen is what the last poll came to, though only changes
   are printed and states and errors are compared with different memories.   *)
TerminalSaysWhatItHeard == Shows = heard

(* Without -all nothing is printed twice in a row: not a state, however its dates
   move, and not an error either.                                            *)
PrintsOnlyChanges == (~ all /\ Len(out) = 2) => out[1] # out[2]

(* The terminal keeps the promise of a display too. *)
Screen == INSTANCE Display WITH Sight <- Sights, Fresh <- Timeout, Bound <- Bound,
                                right <- Right, shown <- Shows, age <- lastTrue
TerminalIsADisplay == Screen!DSpec

(* While a server is up that asks for the token of this client, and requests are
   answered in time, the terminal comes to show what a settled GET /state says
   and stays there, whatever errors came before.  A client with another token
   is no case of this: only a new launch reads the file again.               *)
TerminalConverges ==
  \A answer \in Answer :
    (/\ <>[](Up # {} /\ view = answer /\ on /\ bearer = secret)
     /\ <>[][~ TimeOut]_cvars)
      => <>[](Shows = State(answer))

(* A signal ends the client, also when the server answers nothing. *)
InterruptIsHeeded == []<> ~ sig
=============================================================================
