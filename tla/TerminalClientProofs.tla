------------------------- MODULE TerminalClientProofs -------------------------
(* Theorems of TerminalClient, for every value of its constants. *)
EXTENDS TerminalClient, TokenFileProofs, SequenceTheorems

-----------------------------------------------------------------------------
(* The invariant. *)

Ages == 0 .. Timeout
Outcome == {Success(answer) : answer \in Answer} \cup {Failed(why) : why \in Errors}
Block == Sights \cup {Error(e) : e \in Errors}
InFlight == [stage : {"sent"}, age : Ages]
              \cup [stage : {"answered"}, age : Ages, result : Outcome]

ClientTypes ==
  /\ view \in Answer
  /\ on \in BOOLEAN /\ all \in BOOLEAN /\ pending \in BOOLEAN /\ sig \in BOOLEAN
  /\ bearer \in Token \cup {Empty} /\ (bearer = Empty <=> ~ on)
  /\ request \in InFlight \cup {NoRequest} /\ (request # NoRequest => on)
  /\ due \in 1 .. Interval
  /\ out \in Seq(Block) /\ Len(out) <= 2
  /\ lastTrue \in [Sights -> 0 .. Bound + 1]

(* An answer on its way was right after its poll began. *)
AnswerIsFresh ==
  (request.stage = "answered" /\ "snapshot" \in DOMAIN request.result)
    => lastTrue[State(request.result.snapshot)] <= request.age

RightIsNow == \A t \in Right : lastTrue[t] = 0

(* What the client compares with is what it printed last: the state if that was a
   state, the error if it was an error, and nothing before the first print.  *)
Remembers ==
  /\ heard = Shows
  /\ \/ out = << >> /\ last = NoText /\ lastErr = ""
     \/ out # << >> /\ last = Shows /\ last \in Sights /\ lastErr = ""
     \/ out # << >> /\ last = NoText /\ lastErr \in Errors /\ Shows = Error(lastErr)
  /\ ~ on => out = << >>

(* A poll that began at a tick has had less than an interval, until the next. *)
TickerAhead == (request # NoRequest /\ ~ pending) => request.age + due <= Interval

Longest == Max({Timeout, Interval})

(* What has been over for long is about to be replaced: by the poll in flight, or
   by the one that the next tick begins.                                     *)
ReplacementIsComing ==
  Shows \in Sights =>
    lastTrue[Shows] <= IF request # NoRequest THEN Longest + request.age
                       ELSE IF pending THEN Longest
                       ELSE Interval - due

ClientInv ==
  /\ ClientTypes
  /\ AnswerIsFresh
  /\ RightIsNow
  /\ Remembers
  /\ PrintsOnlyChanges
  /\ TickerAhead
  /\ ReplacementIsComing

-----------------------------------------------------------------------------
(* Outcomes, blocks and bounds. *)

LEMMA LongestIs == /\ Longest \in {Timeout, Interval} /\ Longest \in Nat
                   /\ Timeout <= Longest /\ Interval <= Longest
                   /\ Bound = Timeout + Longest
<1> USE TimeoutAssumption, IntervalAssumption
<1>1. \E x \in {Timeout, Interval} : \A y \in {Timeout, Interval} : x >= y
  OBVIOUS
<1>2. /\ Max({Timeout, Interval}) \in {Timeout, Interval}
      /\ \A y \in {Timeout, Interval} : Max({Timeout, Interval}) >= y
  BY <1>1 DEF Max
<1> QED
  BY <1>2 DEF Longest, Bound

(* A state, an error and a blank screen are told apart. *)
LEMMA Kinds ==
  /\ NoText \notin Sights
  /\ \A e : Error(e) \notin Sights /\ Error(e) # NoText
  /\ \A e, f : Error(e) = Error(f) => e = f
<1>1. \A answer : State(answer) # NoText
  BY DEF State, NoText
<1>2. \A answer, e : State(answer) # Error(e)
  BY DEF State, Error
<1>3. \A e : Error(e) # NoText
  BY DEF Error, NoText
<1>4. \A e, f : Error(e) = Error(f) => e = f
  BY DEF Error
<1> QED
  BY <1>1, <1>2, <1>3, <1>4 DEF Sights

LEMMA OutcomeIs ==
  ASSUME NEW result \in Outcome
  PROVE  IF "snapshot" \in DOMAIN result
         THEN result.snapshot \in Answer /\ State(result.snapshot) \in Sights
         ELSE result.failure \in Errors
<1>1. ASSUME NEW answer \in Answer, result = Success(answer)
      PROVE  "snapshot" \in DOMAIN result /\ result.snapshot \in Answer
  BY <1>1 DEF Success
<1>2. ASSUME NEW why \in Errors, result = Failed(why)
      PROVE  "snapshot" \notin DOMAIN result /\ result.failure \in Errors
  <2>1. DOMAIN result = {"failure"} /\ result.failure = why
    BY <1>2 DEF Failed
  <2> QED
    BY <2>1
<1> QED
  BY <1>1, <1>2 DEF Outcome, Sights

LEMMA ShowsOne ==
  ASSUME out \in Seq(Block), out # << >>
  PROVE  Shows = out[Len(out)] /\ Len(out) \in Nat /\ Len(out) > 0 /\ Shows \in Block
<1>1. Len(out) \in Nat /\ Len(out) > 0
  OBVIOUS
<1>2. out[Len(out)] \in Block
  BY <1>1
<1> QED
  BY <1>1, <1>2 DEF Shows, Last

LEMMA Blank == << >> \in Seq(Block) /\ Len(<< >>) = 0
BY EmptySeq

LEMMA TwoBlocks ==
  ASSUME NEW S, NEW x \in S, NEW y \in S, NEW s, s = <<x>> \o <<y>>
  PROVE  s \in Seq(S) /\ Len(s) = 2 /\ s # << >> /\ s[1] = x /\ s[2] = y
<1>1. s \in Seq(S) /\ Len(s) = 2 /\ s[1] = x /\ s[2] = y
  OBVIOUS
<1> QED
  BY <1>1, EmptySeq

LEMMA PrintsOne ==
  ASSUME out \in Seq(Block), NEW block \in Block, Prints(block)
  PROVE  /\ out' \in Seq(Block) /\ out' # << >> /\ Len(out') <= 2
         /\ Shows' = block
         /\ Len(out') = 2 => out # << >> /\ out'[1] = Shows /\ out'[2] = block
<1>1. CASE out = << >>
  <2>1. out' = <<block>>
    BY <1>1 DEF Prints
  <2> QED
    BY <2>1, <1>1 DEF Shows, Last
<1>2. CASE out # << >>
  <2>1. Last(out) = Shows /\ Shows \in Block
    BY <1>2, ShowsOne DEF Shows
  <2>2. out' = <<Shows>> \o <<block>>
    BY <1>2, <2>1 DEF Prints
  <2>3. /\ out' \in Seq(Block) /\ Len(out') = 2 /\ out' # << >>
        /\ out'[1] = Shows /\ out'[2] = block
    BY <2>1, <2>2, TwoBlocks
  <2> QED
    BY <1>2, <2>3 DEF Shows, Last
<1> QED
  BY <1>1, <1>2

LEMMA RightKept ==
  ASSUME UNCHANGED serviceVars
  PROVE  Right' = Right
BY DEF serviceVars, tokenVars, Right, Current, Up, Phase

LEMMA RightIsOne ==
  ASSUME view \in Answer
  PROVE  Right \in {{}} \cup {{t} : t \in Sights}
BY DEF Right, Current, Sights

-----------------------------------------------------------------------------
(* A poll ends: with an answer that is fresh, or with an error. *)

LEMMA PollEndsStep ==
  ASSUME ClientInv, NEW result \in Outcome, request # NoRequest, PollEnds(result),
         "snapshot" \in DOMAIN result => lastTrue[State(result.snapshot)] <= request.age
  PROVE  /\ ClientInv'
         /\ Shows' \in Sights => lastTrue[Shows'] <= Timeout
<1> USE TimeoutAssumption, IntervalAssumption
<1>1. /\ request' = NoRequest
      /\ UNCHANGED <<serviceVars, on, all, bearer, due, pending, sig, lastTrue>>
  BY DEF PollEnds, loopVars
<1>2. /\ out \in Seq(Block) /\ Len(out) <= 2 /\ on
      /\ request.age \in 0 .. Timeout /\ due \in 1 .. Interval
      /\ lastTrue \in [Sights -> 0 .. Bound + 1]
  BY DEF ClientInv, ClientTypes, InFlight, Ages
<1> DEFINE New == /\ out' \in Seq(Block) /\ Len(out') <= 2
                  /\ Remembers' /\ PrintsOnlyChanges'
                  /\ Shows' \in Sights => lastTrue[Shows'] <= request.age
<1>3. ASSUME "snapshot" \in DOMAIN result
      PROVE  New
  <2> DEFINE answer == result.snapshot
  <2>1. State(answer) \in Sights /\ State(answer) \in Block
    BY <1>3, OutcomeIs DEF Block
  <2>2. Succeeds(answer)
    BY <1>3 DEF PollEnds
  <2>3. lastTrue[State(answer)] <= request.age
    BY <1>3
  <2> HIDE DEF answer
  <2>4. CASE State(answer) = last /\ ~ all
    <3>1. UNCHANGED <<last, out>> /\ heard' = State(answer) /\ lastErr' = ""
      BY <2>2, <2>4 DEF Succeeds
    <3>2. out # << >> /\ Shows = State(answer)
      BY <2>1, <2>4, Kinds DEF ClientInv, Remembers
    <3>3. Shows' = Shows
      BY <3>1 DEF Shows, Last
    <3>4. Remembers'
      BY <1>1, <1>2, <2>1, <2>4, <3>1, <3>2, <3>3 DEF Remembers
    <3>5. PrintsOnlyChanges'
      BY <1>1, <3>1 DEF ClientInv, PrintsOnlyChanges
    <3> QED
      BY <1>2, <2>3, <3>1, <3>2, <3>3, <3>4, <3>5
  <2>5. CASE ~ (State(answer) = last /\ ~ all)
    <3>1. last' = State(answer) /\ Prints(State(answer))
          /\ heard' = State(answer) /\ lastErr' = ""
      BY <2>2, <2>5 DEF Succeeds
    <3>2. /\ out' \in Seq(Block) /\ out' # << >> /\ Len(out') <= 2
          /\ Shows' = State(answer)
          /\ Len(out') = 2 =>
               out # << >> /\ out'[1] = Shows /\ out'[2] = State(answer)
      BY <1>2, <2>1, <3>1, PrintsOne
    <3>3. Remembers'
      BY <1>1, <1>2, <2>1, <3>1, <3>2 DEF Remembers
    <3>4. ASSUME ~ all, out # << >>
          PROVE  Shows # State(answer)
      BY <2>1, <2>5, <3>4, Kinds DEF ClientInv, Remembers
    <3>5. PrintsOnlyChanges'
      BY <1>1, <3>2, <3>4 DEF PrintsOnlyChanges
    <3> QED
      BY <2>3, <3>2, <3>3, <3>5
  <2> QED
    BY <2>4, <2>5
<1>4. ASSUME "snapshot" \notin DOMAIN result
      PROVE  New
  <2> DEFINE why == result.failure
  <2>1. why \in Errors /\ Error(why) \in Block
    BY <1>4, OutcomeIs DEF Block
  <2>2. Fails(why)
    BY <1>4 DEF PollEnds
  <2> HIDE DEF why
  <2>3. why # ""
    BY <2>1 DEF Errors
  <2>4. CASE why = lastErr
    <3>1. UNCHANGED <<last, lastErr, out>> /\ heard' = Error(why)
      BY <2>2, <2>4 DEF Fails
    <3>2. out # << >> /\ Shows = Error(why) /\ last = NoText
      BY <2>3, <2>4 DEF ClientInv, Remembers
    <3>3. Shows' = Shows
      BY <3>1 DEF Shows, Last
    <3>4. Remembers'
      BY <1>1, <1>2, <2>1, <2>4, <3>1, <3>2, <3>3 DEF Remembers
    <3>5. PrintsOnlyChanges'
      BY <1>1, <3>1 DEF ClientInv, PrintsOnlyChanges
    <3> QED
      BY <1>2, <3>1, <3>2, <3>3, <3>4, <3>5, Kinds
  <2>5. CASE why # lastErr
    <3>1. /\ lastErr' = why /\ last' = NoText /\ Prints(Error(why))
          /\ heard' = Error(why)
      BY <2>2, <2>5 DEF Fails
    <3>2. /\ out' \in Seq(Block) /\ out' # << >> /\ Len(out') <= 2
          /\ Shows' = Error(why)
          /\ Len(out') = 2 =>
               out # << >> /\ out'[1] = Shows /\ out'[2] = Error(why)
      BY <1>2, <2>1, <3>1, PrintsOne
    <3>3. Remembers'
      BY <1>1, <1>2, <2>1, <3>1, <3>2 DEF Remembers
    <3>4. ASSUME out # << >>
          PROVE  Shows # Error(why)
      BY <2>5, <3>4, Kinds DEF ClientInv, Remembers
    <3>5. PrintsOnlyChanges'
      BY <1>1, <3>2, <3>4 DEF PrintsOnlyChanges
    <3> QED
      BY <3>2, <3>3, <3>5, Kinds
  <2> QED
    BY <2>4, <2>5
<1>5. New
  BY <1>3, <1>4
<1> HIDE DEF New
<1>6. ClientTypes'
  BY <1>1, <1>5 DEF New, ClientInv, ClientTypes, serviceVars
<1>7. AnswerIsFresh' /\ TickerAhead'
  BY <1>1 DEF AnswerIsFresh, TickerAhead, NoRequest
<1>8. RightIsNow'
  BY <1>1, RightKept DEF ClientInv, RightIsNow
<1>9. ReplacementIsComing'
  <2>1. ASSUME Shows' \in Sights
        PROVE  lastTrue[Shows'] <= IF pending THEN Longest ELSE Interval - due
    <3>1. lastTrue[Shows'] <= request.age /\ lastTrue[Shows'] \in Nat
      BY <1>2, <1>5, <2>1, LongestIs DEF New
    <3>2. CASE pending
      BY <1>2, <3>1, <3>2, LongestIs
    <3>3. CASE ~ pending
      <4>1. request.age + due <= Interval
        BY <3>3 DEF ClientInv, TickerAhead
      <4> QED
        BY <1>2, <3>1, <3>3, <4>1
    <3> QED
      BY <3>2, <3>3
  <2> QED
    BY <1>1, <2>1 DEF ReplacementIsComing
<1>10. Shows' \in Sights => lastTrue[Shows'] <= Timeout
  BY <1>2, <1>5, LongestIs DEF New
<1> QED
  BY <1>5, <1>6, <1>7, <1>8, <1>9, <1>10 DEF New, ClientInv

-----------------------------------------------------------------------------
(* The service behind the address goes its own way. *)

LEMMA WorldServes ==
  ASSUME World
  PROVE  /\ TokenNext \/ UNCHANGED tokenVars
         /\ view \in Answer => view' \in Answer
<1> DEFINE inUse == Tokens \cup {bearer}
<1>1. Service(inUse)
  BY DEF World
<1> HIDE DEF inUse
<1>2. ASSUME NEW p \in Server, Token \ inUse # {}, Generate(p, NewToken(inUse))
      PROVE  TokenNext
  <2>1. NewToken(inUse) \in Token
    BY <1>2 DEF NewToken
  <2> QED
    BY <1>2, <2>1 DEF TokenNext
<1>3. TokenNext \/ UNCHANGED tokenVars
  BY <1>1, <1>2 DEF Service, Processes, Changes, TokenNext
<1>4. view \in Answer => view' \in Answer
  BY <1>1, AnswerAssumption DEF Service, Processes, Changes
<1> QED
  BY <1>3, <1>4

(* The client only asks: it changes nothing of the service. *)
LEMMA ClientOnlyAsks ==
  ASSUME CNext
  PROVE  World \/ UNCHANGED serviceVars
BY DEF CNext, Launch, Interrupt, Quit, Serve, Loop, PollAgain, TimeOut, Refused, Arrive,
       PollEnds, Tick

(* The processes behind the terminal are those of TokenFile. *)
LEMMA TerminalTokens == CSpec => TokenSpec
<1>1. CInit => TokenInit
  BY DEF CInit, ServiceInit
<1>2. [CNext]_cvars => [TokenNext]_tokenVars
  BY WorldServes, ClientOnlyAsks DEF cvars, serviceVars
<1> QED
  BY <1>1, <1>2, PTL DEF CSpec, TokenSpec

(* The world behind the client only makes states right again. *)
LEMMA WorldStep ==
  ASSUME ClientInv, World
  PROVE  ClientInv'
<1>1. /\ lastTrue \in [Sights -> 0 .. Bound + 1] /\ Bound \in Nat
      /\ lastTrue' = [t \in Sights |-> IF t \in Right' THEN 0 ELSE lastTrue[t]]
      /\ UNCHANGED <<on, request, all, bearer, due, pending, sig>>
      /\ UNCHANGED <<last, lastErr, out, heard>>
  BY TimeoutAssumption, LongestIs DEF World, ClientInv, ClientTypes, loopVars, printVars
<1>2. \A t \in Sights : lastTrue'[t] \in 0 .. Bound + 1 /\ lastTrue'[t] <= lastTrue[t]
  BY <1>1
<1>3. ClientTypes'
  <2>1. view' \in Answer
    BY WorldServes DEF ClientInv, ClientTypes
  <2> QED
    BY <1>1, <1>2, <2>1 DEF ClientInv, ClientTypes
<1>4. AnswerIsFresh'
  <2>1. ASSUME request.stage = "answered", "snapshot" \in DOMAIN request.result
        PROVE  lastTrue'[State(request.result.snapshot)] <= request.age
    <3>1. request.result \in Outcome /\ request.age \in Nat
      BY <2>1 DEF ClientInv, ClientTypes, InFlight, Ages, NoRequest
    <3>2. State(request.result.snapshot) \in Sights
      BY <2>1, <3>1, OutcomeIs
    <3>3. lastTrue[State(request.result.snapshot)] <= request.age
      BY <2>1 DEF ClientInv, AnswerIsFresh
    <3> QED
      BY <1>1, <1>2, <3>1, <3>2, <3>3
  <2> QED
    BY <1>1, <2>1 DEF AnswerIsFresh
<1>5. RightIsNow'
  <2>1. Right' \subseteq Sights
    BY <1>3, RightIsOne DEF ClientTypes, Right, Current, Sights
  <2> QED
    BY <1>1, <2>1 DEF RightIsNow
<1>6. Shows' = Shows
  BY <1>1 DEF Shows, Last
<1>7. Remembers' /\ PrintsOnlyChanges' /\ TickerAhead'
  BY <1>1, <1>6 DEF ClientInv, Remembers, PrintsOnlyChanges, TickerAhead
<1>8. ReplacementIsComing'
  <2>1. ASSUME Shows \in Sights
        PROVE  lastTrue'[Shows] <= IF request # NoRequest THEN Longest + request.age
                                   ELSE IF pending THEN Longest ELSE Interval - due
    <3> DEFINE limit == IF request # NoRequest THEN Longest + request.age
                        ELSE IF pending THEN Longest ELSE Interval - due
    <3>1. lastTrue[Shows] <= limit
      BY <2>1 DEF ClientInv, ReplacementIsComing
    <3>2. limit \in Int
      BY LongestIs, IntervalAssumption DEF ClientInv, ClientTypes, InFlight, Ages
    <3> HIDE DEF limit
    <3>3. lastTrue'[Shows] <= limit
      BY <1>1, <1>2, <2>1, <3>1, <3>2
    <3> QED
      BY <3>3 DEF limit
  <2> QED
    BY <1>1, <1>6, <2>1 DEF ReplacementIsComing
<1> QED
  BY <1>3, <1>4, <1>5, <1>7, <1>8 DEF ClientInv

-----------------------------------------------------------------------------
(* The client's own steps. *)

LEMMA LoopStep ==
  ASSUME ClientInv, Loop
  PROVE  /\ ClientInv'
         /\ \/ Shows' = Shows
            \/ Shows' \in Sights => lastTrue[Shows'] <= Timeout
         /\ UNCHANGED <<serviceVars, lastTrue>>
<1> USE TimeoutAssumption, IntervalAssumption
<1> DEFINE Goal == /\ ClientInv'
                   /\ \/ Shows' = Shows
                      \/ Shows' \in Sights => lastTrue[Shows'] <= Timeout
<1>1. ASSUME PollAgain
      PROVE  Goal
  <2>1. /\ on /\ request = NoRequest /\ pending /\ ~ pending' /\ request' = Sent
        /\ UNCHANGED <<serviceVars, on, all, bearer, due, sig, lastTrue>>
        /\ UNCHANGED <<last, lastErr, out, heard>>
    BY <1>1 DEF PollAgain, printVars, ClientInv, ClientTypes
  <2>2. Sent \in InFlight /\ Sent # NoRequest /\ Sent.age = 0 /\ Sent.stage = "sent"
    BY DEF Sent, InFlight, Ages, NoRequest
  <2>3. ClientTypes'
    <3>1. pending' \in BOOLEAN
      BY <1>1 DEF PollAgain
    <3> QED
      BY <2>1, <2>2, <3>1 DEF ClientInv, ClientTypes, serviceVars
  <2>4. AnswerIsFresh' /\ TickerAhead'
    BY <2>1, <2>2 DEF ClientInv, ClientTypes, AnswerIsFresh, TickerAhead
  <2>5. RightIsNow'
    BY <2>1, RightKept DEF ClientInv, RightIsNow
  <2>6. Shows' = Shows
    BY <2>1 DEF Shows, Last
  <2>7. Remembers' /\ PrintsOnlyChanges'
    BY <2>1, <2>6 DEF ClientInv, Remembers, PrintsOnlyChanges
  <2>8. ReplacementIsComing'
    BY <2>1, <2>2, <2>6, LongestIs DEF ClientInv, ReplacementIsComing
  <2> QED
    BY <2>3, <2>4, <2>5, <2>6, <2>7, <2>8 DEF ClientInv
<1>2. ASSUME TimeOut
      PROVE  Goal
  <2>1. Failed("timed out") \in Outcome /\ "snapshot" \notin DOMAIN Failed("timed out")
    BY DEF Outcome, Errors, Failed
  <2>2. request # NoRequest /\ PollEnds(Failed("timed out"))
    BY <1>2 DEF TimeOut, Due
  <2> QED
    BY <2>1, <2>2, PollEndsStep
<1>3. ASSUME Refused
      PROVE  Goal
  <2>1. Failed("refused") \in Outcome /\ "snapshot" \notin DOMAIN Failed("refused")
    BY DEF Outcome, Errors, Failed
  <2>2. request # NoRequest /\ PollEnds(Failed("refused"))
    BY <1>3 DEF Refused, NoRequest
  <2> QED
    BY <2>1, <2>2, PollEndsStep
<1>4. ASSUME Arrive
      PROVE  Goal
  <2>1. /\ request # NoRequest /\ request.stage = "answered"
        /\ PollEnds(request.result) /\ request.result \in Outcome
    BY <1>4 DEF Arrive, NoRequest, ClientInv, ClientTypes, InFlight
  <2>2. "snapshot" \in DOMAIN request.result
          => lastTrue[State(request.result.snapshot)] <= request.age
    BY <2>1 DEF ClientInv, AnswerIsFresh
  <2> QED
    BY <2>1, <2>2, PollEndsStep
<1>5. UNCHANGED <<serviceVars, lastTrue>>
  BY DEF Loop, PollAgain, TimeOut, Refused, Arrive, PollEnds
<1> QED
  BY <1>1, <1>2, <1>3, <1>4, <1>5 DEF Loop

(* A launch, a signal, the end, and a request that reaches the server. *)
LEMMA OtherStep ==
  ASSUME ClientInv,
         \/ \E every \in BOOLEAN, given \in (Token \cap Tokens) \cup {Empty} :
              Launch(every, given)
         \/ Interrupt \/ Quit \/ Serve
  PROVE  /\ ClientInv'
         /\ Shows' = Shows \/ Shows' \notin Sights
         /\ UNCHANGED <<serviceVars, lastTrue>>
<1> USE TimeoutAssumption, IntervalAssumption
<1>1. UNCHANGED <<serviceVars, lastTrue>>
  BY DEF Launch, Interrupt, Quit, Serve
<1>2. Right' = Right /\ RightIsNow' /\ view' \in Answer
      /\ lastTrue' \in [Sights -> 0 .. Bound + 1]
  <2>1. Bound' = Bound
    BY DEF Bound
  <2> QED
    BY <1>1, <2>1, RightKept DEF ClientInv, RightIsNow, ClientTypes, serviceVars
<1> DEFINE Goal == ClientInv' /\ (Shows' = Shows \/ Shows' \notin Sights)
<1>3. ASSUME NEW every \in BOOLEAN, NEW given \in (Token \cap Tokens) \cup {Empty},
             Launch(every, given)
      PROVE  Goal
  <2> DEFINE token == IF given # Empty THEN given ELSE file
  <2>1. /\ ~ on /\ token \in Token /\ on' = TRUE /\ all' = every /\ bearer' = token
        /\ request' = Sent
        /\ UNCHANGED <<due, pending, sig, last, lastErr, out, heard>>
    BY <1>3 DEF Launch, printVars
  <2> HIDE DEF token
  <2>2. Sent \in InFlight /\ Sent # NoRequest /\ Sent.age = 0 /\ Sent.stage = "sent"
    BY DEF Sent, InFlight, Ages, NoRequest
  <2>3. out = << >> /\ out' = << >>
    BY <2>1 DEF ClientInv, Remembers
  <2>4. token # Empty
    BY <2>1, TokenAssumption
  <2>5. ClientTypes'
    BY <1>2, <2>1, <2>2, <2>4 DEF ClientInv, ClientTypes
  <2>6. AnswerIsFresh' /\ TickerAhead'
    BY <2>1, <2>2 DEF ClientInv, ClientTypes, AnswerIsFresh, TickerAhead
  <2>7. Shows = NoText /\ Shows' = NoText
    BY <2>3 DEF Shows
  <2>8. Remembers' /\ PrintsOnlyChanges' /\ ReplacementIsComing'
    <3>1. Remembers'
      BY <2>1, <2>3, <2>7 DEF ClientInv, Remembers
    <3>2. PrintsOnlyChanges'
      BY <2>3, EmptySeq DEF PrintsOnlyChanges
    <3>3. ReplacementIsComing'
      BY <2>7, Kinds DEF ReplacementIsComing
    <3> QED
      BY <3>1, <3>2, <3>3
  <2> QED
    BY <1>2, <2>5, <2>6, <2>7, <2>8 DEF ClientInv
<1>4. ASSUME Interrupt
      PROVE  Goal
  <2>1. /\ sig' = TRUE
        /\ UNCHANGED <<on, request, all, bearer, due, pending, last, lastErr, out, heard>>
    BY <1>4 DEF Interrupt, printVars
  <2>2. Shows' = Shows
    BY <2>1 DEF Shows, Last
  <2>3. ClientTypes'
    BY <1>2, <2>1 DEF ClientInv, ClientTypes
  <2>4. AnswerIsFresh' /\ TickerAhead'
    BY <1>1, <2>1 DEF ClientInv, AnswerIsFresh, TickerAhead
  <2>5. Remembers' /\ PrintsOnlyChanges' /\ ReplacementIsComing'
    BY <1>1, <2>1, <2>2
    DEF ClientInv, Remembers, PrintsOnlyChanges, ReplacementIsComing, Longest
  <2> QED
    BY <1>2, <2>2, <2>3, <2>4, <2>5 DEF ClientInv
<1>5. ASSUME Quit
      PROVE  Goal
  <2>1. /\ request = NoRequest /\ request' = NoRequest
        /\ on' = FALSE /\ all' = FALSE /\ bearer' = Empty /\ due' = Interval
        /\ pending' = FALSE /\ sig' = FALSE
        /\ last' = NoText /\ lastErr' = "" /\ out' = << >> /\ heard' = NoText
    BY <1>5 DEF Quit
  <2>2. Shows' = NoText
    BY <2>1 DEF Shows
  <2>3. ClientTypes'
    <3>1. out' \in Seq(Block) /\ Len(out') <= 2
      <4>1. out' = << >>
        BY <2>1
      <4> QED
        BY <4>1, Blank
    <3>2. due' \in 1 .. Interval /\ bearer' \in Token \cup {Empty}
      <4>1. Interval \in 1 .. Interval
        OBVIOUS
      <4> QED
        BY <2>1, <4>1
    <3> QED
      BY <1>2, <2>1, <3>1, <3>2 DEF ClientTypes
  <2>4. AnswerIsFresh' /\ TickerAhead' /\ Remembers' /\ PrintsOnlyChanges'
        /\ ReplacementIsComing'
    <3>1. Len(out') # 2
      <4>1. out' = << >>
        BY <2>1
      <4> QED
        BY <4>1, Blank
    <3>2. AnswerIsFresh' /\ TickerAhead'
      BY <2>1 DEF AnswerIsFresh, TickerAhead, NoRequest
    <3> QED
      BY <2>1, <2>2, <3>1, <3>2, Kinds DEF Remembers, PrintsOnlyChanges, ReplacementIsComing
  <2> QED
    BY <1>2, <2>2, <2>3, <2>4, Kinds DEF ClientInv
<1>6. ASSUME Serve
      PROVE  Goal
  <2> DEFINE result == Respond(bearer)
  <2>1. /\ request.stage = "sent" /\ Up # {}
        /\ request' = [stage |-> "answered", age |-> request.age, result |-> result]
        /\ UNCHANGED <<on, all, bearer, due, pending, sig, last, lastErr, out, heard>>
    BY <1>6 DEF Serve, loopVars, printVars
  <2>2. result \in Outcome
    BY DEF ClientInv, ClientTypes, Respond, Success, Failed, Outcome, Errors
  <2>3. "snapshot" \in DOMAIN result => lastTrue[State(result.snapshot)] = 0
    <3>1. "snapshot" \in DOMAIN result => result.snapshot = view
      BY DEF Respond, Success, Failed
    <3>2. State(view) \in Right
      BY <2>1 DEF Right, Current
    <3> QED
      BY <3>1, <3>2 DEF ClientInv, RightIsNow
  <2> HIDE DEF result
  <2>4. /\ request # NoRequest /\ request.age \in Ages /\ request' # NoRequest
        /\ request' \in InFlight /\ request'.age = request.age
        /\ request'.result = result
    BY <2>1, <2>2 DEF ClientInv, ClientTypes, InFlight, NoRequest
  <2>5. Shows' = Shows
    BY <2>1 DEF Shows, Last
  <2>6. ClientTypes'
    BY <1>2, <2>1, <2>4 DEF ClientInv, ClientTypes
  <2>7. AnswerIsFresh'
    BY <1>1, <2>3, <2>4 DEF AnswerIsFresh, Ages
  <2>8. TickerAhead' /\ Remembers' /\ PrintsOnlyChanges'
    BY <2>1, <2>4, <2>5 DEF ClientInv, TickerAhead, Remembers, PrintsOnlyChanges
  <2>9. ReplacementIsComing'
    BY <1>1, <2>4, <2>5 DEF ClientInv, ReplacementIsComing, Longest
  <2> QED
    BY <1>2, <2>5, <2>6, <2>7, <2>8, <2>9 DEF ClientInv
<1> QED
  BY <1>1, <1>3, <1>4, <1>5, <1>6

-----------------------------------------------------------------------------
(* Time passes: nothing on the terminal has been over for longer than Bound. *)

LEMMA TickStep ==
  ASSUME ClientInv, Tick
  PROVE  /\ ClientInv'
         /\ Shows' = Shows
         /\ Shows \in Sights => lastTrue'[Shows] <= Bound
<1> USE TimeoutAssumption, IntervalAssumption
<1>1. /\ lastTrue \in [Sights -> 0 .. Bound + 1] /\ Bound \in Nat
      /\ lastTrue' = [t \in Sights |->
                        IF t \in Right THEN 0
                        ELSE IF lastTrue[t] <= Bound THEN lastTrue[t] + 1 ELSE lastTrue[t]]
      /\ UNCHANGED <<serviceVars, on, all, bearer, sig, last, lastErr, out, heard>>
  BY LongestIs DEF Tick, ClientInv, ClientTypes, printVars
<1>2. \A t \in Sights : lastTrue'[t] \in 0 .. Bound + 1 /\ lastTrue'[t] <= lastTrue[t] + 1
  BY <1>1
<1>3. Shows' = Shows
  BY <1>1 DEF Shows, Last
<1>4. ASSUME request # NoRequest
      PROVE  /\ request' # NoRequest /\ request.age \in 0 .. Timeout - 1
             /\ request' \in InFlight /\ request'.age = request.age + 1
             /\ request'.stage = request.stage
             /\ request.stage = "answered" =>
                  request'.result = request.result /\ request.result \in Outcome
  <2>1. request' = [request EXCEPT !.age = @ + 1] /\ request \in InFlight
    BY <1>4 DEF Tick, ClientInv, ClientTypes
  <2>2. on /\ request.age # Timeout
    BY <1>4 DEF Tick, Due, ClientInv, ClientTypes
  <2>3. request.age \in 0 .. Timeout - 1
    BY <2>1, <2>2 DEF InFlight, Ages
  <2>4. CASE request.stage = "sent"
    <3>1. request \in [stage : {"sent"}, age : Ages]
      BY <2>1, <2>4 DEF InFlight
    <3>2. request' \in [stage : {"sent"}, age : Ages]
      BY <2>1, <2>3, <3>1 DEF Ages
    <3> QED
      BY <2>1, <2>3, <2>4, <3>1, <3>2 DEF InFlight, NoRequest
  <2>5. CASE request.stage = "answered"
    <3>1. request \in [stage : {"answered"}, age : Ages, result : Outcome]
      BY <2>1, <2>5 DEF InFlight
    <3>2. request' \in [stage : {"answered"}, age : Ages, result : Outcome]
      BY <2>1, <2>3, <3>1 DEF Ages
    <3> QED
      BY <2>1, <2>3, <2>5, <3>1, <3>2 DEF InFlight, NoRequest
  <2> QED
    BY <2>1, <2>4, <2>5 DEF InFlight
<1>5. request = NoRequest => request' = NoRequest
  BY DEF Tick
<1>6. /\ due \in 1 .. Interval /\ due' \in 1 .. Interval /\ pending' \in BOOLEAN
      /\ on => /\ due = 1 => due' = Interval /\ pending' = TRUE
               /\ due # 1 => due' = due - 1 /\ pending' = pending
      /\ on /\ request = NoRequest => ~ pending
  BY DEF Tick, ClientInv, ClientTypes
<1>7. ClientTypes'
  <2>1. request' \in InFlight \cup {NoRequest} /\ (request' # NoRequest => on)
    BY <1>4, <1>5 DEF ClientInv, ClientTypes
  <2>2. Bound' = Bound
    BY DEF Bound
  <2>3. lastTrue' \in [Sights -> 0 .. Bound + 1]
    BY <1>1, <1>2
  <2> QED
    BY <1>1, <1>6, <2>1, <2>2, <2>3 DEF ClientInv, ClientTypes, serviceVars
<1>8. AnswerIsFresh'
  <2>1. ASSUME request'.stage = "answered", "snapshot" \in DOMAIN request'.result
        PROVE  lastTrue'[State(request'.result.snapshot)] <= request'.age
    <3>1. request # NoRequest
      BY <1>5, <2>1 DEF NoRequest
    <3>2. /\ request.stage = "answered" /\ request'.age = request.age + 1
          /\ request'.result = request.result /\ request.result \in Outcome
          /\ request.age \in Nat
      BY <1>4, <2>1, <3>1
    <3> DEFINE t == State(request.result.snapshot)
    <3>3. t \in Sights
      BY <2>1, <3>2, OutcomeIs
    <3>4. lastTrue[t] <= request.age
      BY <2>1, <3>2 DEF ClientInv, AnswerIsFresh
    <3> HIDE DEF t
    <3>5. lastTrue'[t] <= request'.age
      BY <1>1, <1>2, <3>2, <3>3, <3>4
    <3> QED
      BY <3>2, <3>5 DEF t
  <2> QED
    BY <2>1 DEF AnswerIsFresh
<1>9. RightIsNow'
  <2>1. Right' = Right /\ Right \subseteq Sights
    BY <1>1, RightKept, RightIsOne DEF ClientInv, ClientTypes
  <2> QED
    BY <1>1, <2>1 DEF RightIsNow
<1>10. Remembers' /\ PrintsOnlyChanges'
  BY <1>1, <1>3 DEF ClientInv, Remembers, PrintsOnlyChanges
<1>11. TickerAhead'
  <2>1. ASSUME request' # NoRequest, ~ pending'
        PROVE  request'.age + due' <= Interval
    <3>1. request # NoRequest /\ on
      BY <1>5, <2>1 DEF ClientInv, ClientTypes
    <3>2. due # 1 /\ due' = due - 1 /\ ~ pending
      BY <1>6, <2>1, <3>1
    <3>3. request.age + due <= Interval
      BY <3>1, <3>2 DEF ClientInv, TickerAhead
    <3> QED
      BY <1>4, <1>6, <3>1, <3>2, <3>3
  <2> QED
    BY <2>1 DEF TickerAhead
<1>12. ASSUME Shows \in Sights
       PROVE  /\ lastTrue'[Shows] <= Bound
              /\ lastTrue'[Shows] <= IF request' # NoRequest THEN Longest + request'.age
                                     ELSE IF pending' THEN Longest ELSE Interval - due'
  <2>1. on
    BY <1>12, Kinds DEF ClientInv, Remembers, Shows
  <2>2. lastTrue[Shows] \in Nat /\ lastTrue'[Shows] \in Nat
        /\ lastTrue'[Shows] <= lastTrue[Shows] + 1
    BY <1>1, <1>2, <1>12
  <2>3. CASE request # NoRequest
    <3>1. lastTrue[Shows] <= Longest + request.age
      BY <1>12, <2>3 DEF ClientInv, ReplacementIsComing
    <3> QED
      BY <1>4, <2>2, <2>3, <3>1, LongestIs
  <2>4. CASE request = NoRequest
    <3>1. ~ pending /\ lastTrue[Shows] <= Interval - due
      BY <1>6, <1>12, <2>1, <2>4 DEF ClientInv, ReplacementIsComing
    <3>2. lastTrue'[Shows] <= Interval - due + 1
      BY <1>6, <2>2, <3>1
    <3>3. lastTrue'[Shows] <= Bound
      BY <1>6, <2>2, <3>2, LongestIs
    <3>4. CASE due = 1
      BY <1>5, <1>6, <2>1, <2>2, <2>4, <3>2, <3>3, <3>4, LongestIs
    <3>5. CASE due # 1
      BY <1>5, <1>6, <2>1, <2>2, <2>4, <3>1, <3>2, <3>3, <3>5
    <3> QED
      BY <3>4, <3>5
  <2> QED
    BY <2>3, <2>4
<1>13. ReplacementIsComing'
  <2>1. Longest' = Longest
    BY DEF Longest
  <2> QED
    BY <1>3, <1>12, <2>1 DEF ReplacementIsComing
<1> QED
  BY <1>3, <1>7, <1>8, <1>9, <1>10, <1>11, <1>12, <1>13 DEF ClientInv

LEMMA NothingRight == CInit => Right = {}
<1>1. CInit => Up = {}
  <2>1. CInit => server = [p \in Server |-> Down]
    BY DEF CInit, ServiceInit, TokenInit
  <2> QED
    BY <2>1 DEF Up, Phase, Down
<1> QED
  BY <1>1 DEF Right, Current

THEOREM ClientInvHolds == CSpec => []ClientInv
<1>1. CInit => ClientInv
  <2> SUFFICES ASSUME CInit PROVE ClientInv
    OBVIOUS
  <2>1. Shows = NoText /\ out = << >>
    BY DEF CInit, Shows
  <2>2. ClientTypes
    <3>1. lastTrue \in [Sights -> 0 .. Bound + 1]
      <4>1. Bound + 1 \in 0 .. Bound + 1
        BY LongestIs, TimeoutAssumption
      <4> QED
        BY <4>1 DEF CInit
    <3>2. due \in 1 .. Interval
      <4>1. due = Interval
        BY DEF CInit
      <4> QED
        BY <4>1, IntervalAssumption
    <3>3. out \in Seq(Block) /\ Len(out) <= 2
      BY <2>1, Blank
    <3>4. view \in Answer
      BY AnswerAssumption DEF CInit, ServiceInit
    <3> QED
      BY <3>1, <3>2, <3>3, <3>4 DEF CInit, ClientTypes
  <2>3. AnswerIsFresh /\ TickerAhead
    BY DEF CInit, AnswerIsFresh, TickerAhead, NoRequest
  <2>4. RightIsNow
    BY NothingRight DEF RightIsNow
  <2>5. Remembers /\ ReplacementIsComing
    BY <2>1, Kinds DEF CInit, Remembers, ReplacementIsComing
  <2>6. PrintsOnlyChanges
    <3>1. Len(out) = 0
      BY <2>1, Blank
    <3> QED
      BY <3>1 DEF PrintsOnlyChanges
  <2> QED
    BY <2>2, <2>3, <2>4, <2>5, <2>6 DEF ClientInv
<1>2. ClientInv /\ [CNext]_cvars => ClientInv'
  <2> SUFFICES ASSUME ClientInv, [CNext]_cvars PROVE ClientInv'
    OBVIOUS
  <2>1. CASE UNCHANGED cvars
    <3>1. UNCHANGED <<serviceVars, on, request, all, bearer, due, pending, sig>>
          /\ UNCHANGED <<last, lastErr, out, heard, lastTrue>>
      BY <2>1 DEF cvars, loopVars, printVars
    <3>2. Right' = Right /\ Shows' = Shows
      BY <3>1, RightKept DEF Shows, Last
    <3>3. ClientTypes'
      BY <3>1 DEF ClientInv, ClientTypes, serviceVars, Bound
    <3> QED
      BY <3>1, <3>2, <3>3 DEF ClientInv, AnswerIsFresh, RightIsNow, Remembers,
                              PrintsOnlyChanges, TickerAhead, ReplacementIsComing, Longest
  <2> QED
    BY <2>1, WorldStep, LoopStep, OtherStep, TickStep DEF CNext
<1> QED
  BY <1>1, <1>2, PTL DEF CSpec

-----------------------------------------------------------------------------
(* What the terminal promises. *)

(* Types: one request at a time, and never older than its timeout. *)
THEOREM CTypeCorrect == CSpec => []CTypeOK
<1>1. ClientInv /\ TokenTypeOK => CTypeOK
  <2> SUFFICES ASSUME ClientInv, TokenTypeOK PROVE CTypeOK
    OBVIOUS
  <2>1. ClientTypes /\ Remembers
    BY DEF ClientInv
  <2>2. request # NoRequest => on /\ request.age \in 0 .. Timeout
    BY <2>1 DEF ClientTypes, InFlight, Ages
  <2>3. \A i \in DOMAIN out : out[i] \in Sights \cup {Error(e) : e \in Errors}
    BY <2>1 DEF ClientTypes, Block
  <2>4. last \in Sights \cup {NoText} /\ lastErr \in Errors \cup {""}
    BY <2>1 DEF Remembers
  <2> QED
    BY <2>1, <2>2, <2>3, <2>4 DEF ClientTypes, CTypeOK, ServiceTypeOK
<1> QED
  BY <1>1, ClientInvHolds, TerminalTokens, TokenTypes, PTL

(* The last block printed is what the last poll came to, though only changes are
   printed (cli main.go:107-126).                                            *)
THEOREM TerminalSaysWhatItHeardHolds == CSpec => []TerminalSaysWhatItHeard
<1>1. ClientInv => TerminalSaysWhatItHeard
  BY DEF ClientInv, Remembers, TerminalSaysWhatItHeard
<1> QED
  BY <1>1, ClientInvHolds, PTL

(* Without -all no block is printed twice in a row. *)
THEOREM PrintsOnlyChangesHolds == CSpec => []PrintsOnlyChanges
<1>1. ClientInv => PrintsOnlyChanges
  BY DEF ClientInv
<1> QED
  BY <1>1, ClientInvHolds, PTL

(* The terminal is a display, for any interval, any timeout and any answers: each
   of its steps is one of a display, or none.                                *)
THEOREM TerminalIsADisplayHolds == CSpec => TerminalIsADisplay
<1>1. CInit => Screen!DInit
  <2>1. CInit => Right = {}
    BY NothingRight
  <2>2. CInit => Shows = NoText
    BY DEF CInit, Shows
  <2> QED
    BY <2>1, <2>2, Kinds DEF CInit, Screen!DInit, Screen!Horizon
<1>2. ClientInv /\ [CNext]_cvars => [Screen!DNext]_Screen!dvars
  <2> SUFFICES ASSUME ClientInv, [CNext]_cvars
               PROVE  Screen!DNext \/ UNCHANGED <<Right, Shows, lastTrue>>
    BY DEF Screen!dvars
  <2>1. CASE World
    <3>1. Right' \in {{}} \cup {{t} : t \in Sights}
      <4>1. view' \in Answer
        BY <2>1, WorldStep DEF ClientInv, ClientTypes
      <4> QED
        BY <4>1 DEF Right, Current, Sights
    <3>2. Shows' = Shows
      BY <2>1 DEF World, printVars, Shows, Last
    <3> QED
      BY <2>1, <3>1, <3>2 DEF World, Screen!DNext, Screen!Turn
  <2>2. CASE Loop
    <3>1. Right' = Right /\ lastTrue' = lastTrue
      BY <2>2, LoopStep, RightKept
    <3> QED
      BY <2>2, <3>1, LoopStep DEF Screen!DNext, Screen!Show
  <2>3. ASSUME \/ \E every \in BOOLEAN, given \in (Token \cap Tokens) \cup {Empty} :
                    Launch(every, given)
               \/ Interrupt \/ Quit \/ Serve
        PROVE  Screen!DNext \/ UNCHANGED <<Right, Shows, lastTrue>>
    <3>1. Right' = Right /\ lastTrue' = lastTrue
      BY <2>3, OtherStep, RightKept
    <3> QED
      BY <2>3, <3>1, OtherStep DEF Screen!DNext, Screen!Show
  <2>4. CASE Tick
    <3>1. Right' = Right
      BY <2>4, RightKept DEF Tick
    <3>2. Shows' = Shows /\ (Shows \in Sights => lastTrue'[Shows] <= Bound)
      BY <2>4, TickStep
    <3>3. /\ lastTrue \in [Sights -> 0 .. Bound + 1] /\ Bound \in Nat
      BY LongestIs, TimeoutAssumption DEF ClientInv, ClientTypes
    <3>4. \A t \in Sights : (lastTrue[t] <= Bound) <=> (lastTrue[t] < Bound + 1)
      BY <3>3
    <3>5. lastTrue' = [t \in Sights |-> IF t \in Right THEN 0 ELSE Screen!Older(t)]
      BY <2>4, <3>3, <3>4 DEF Tick, Screen!Older, Screen!Horizon
    <3> QED
      BY <3>1, <3>2, <3>5 DEF Screen!DNext, Screen!Tick, Screen!NotLongOver
  <2>5. CASE UNCHANGED cvars
    BY <2>5, RightKept DEF cvars, printVars, Shows, Last
  <2> QED
    BY <2>1, <2>2, <2>3, <2>4, <2>5 DEF CNext
<1> QED
  BY <1>1, <1>2, ClientInvHolds, PTL DEF CSpec, TerminalIsADisplay, Screen!DSpec

(* What that comes to: nothing stays on the terminal for longer than a timeout and
   the longer of timeout and interval after it was right.                    *)
THEOREM TerminalIsNeverLongWrong == CSpec => []Screen!NeverLongWrong
<1>1. ClientInv => Screen!NeverLongWrong
  <2> SUFFICES ASSUME ClientInv, Shows \in Sights PROVE lastTrue[Shows] <= Bound
    BY DEF Screen!NeverLongWrong, Screen!NotLongOver
  <2>1. lastTrue[Shows] \in Nat /\ due \in 1 .. Interval /\ Bound \in Nat
        /\ (request # NoRequest => request.age \in 0 .. Timeout)
    BY LongestIs, TimeoutAssumption DEF ClientInv, ClientTypes, InFlight, Ages
  <2> QED
    BY <2>1, LongestIs, TimeoutAssumption, IntervalAssumption
    DEF ClientInv, ReplacementIsComing
<1> QED
  BY <1>1, ClientInvHolds, PTL
=============================================================================
