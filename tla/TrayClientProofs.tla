--------------------------- MODULE TrayClientProofs ---------------------------
(* Theorems of TrayClient, for every value of its constants. *)
EXTENDS TrayClient, TokenFileProofs, SequenceTheorems

-----------------------------------------------------------------------------
(* The invariant. *)

Ages == 0 .. Timeout
Poll == [stage : {"begun"}, age : Ages]
          \cup [stage : {"read"}, age : Ages, token : Token \cup {Empty}]
          \cup [stage : {"sent"}, age : Ages, token : Token]
          \cup [stage : {"answered"}, age : Ages, result : Result]

AppTypes ==
  /\ view \in Answer
  /\ held \in Token \cup {Empty}
  /\ polls \in Seq(Poll)
  /\ channel \in Seq(Result)
  /\ ticking \in BOOLEAN
  /\ lastTrue \in [Titles -> 0 .. Bound + 1]

(* A poll begins each interval at most, so that those ahead are older by one each. *)
OneEachInterval == \A i \in DOMAIN polls : polls[i].age >= Len(polls) - i

(* An answer on its way was right after its poll began. *)
AnswersAreFresh ==
  \A i \in DOMAIN polls :
    (polls[i].stage = "answered" /\ Ok(polls[i].result))
      => lastTrue[Title(polls[i].result.snapshot)] <= polls[i].age

RightIsNow == \A t \in Right : lastTrue[t] = 0

Agree == \E result \in Result : title = titleFor(result) /\ menu = menuFor(result)

(* The title is of the refresh that set it last, whose menu comes last. *)
MenuFollows ==
  /\ (channel = << >> /\ ~ ticking) => title = <<"starting">>
  /\ (channel = << >> /\ ticking) => Agree
  /\ channel # << >> => title = titleFor(channel[Len(channel)])

(* What has been over for longer than a timeout is about to be replaced: some poll
   began no later than an interval after that timeout.                       *)
ReplacementIsComing ==
  title \in Titles =>
    \/ lastTrue[title] <= Timeout
    \/ \E i \in DOMAIN polls : lastTrue[title] <= Timeout + 1 + polls[i].age

TrayInv ==
  /\ AppTypes
  /\ OneEachInterval
  /\ AnswersAreFresh
  /\ RightIsNow
  /\ MenuFollows
  /\ ReplacementIsComing

-----------------------------------------------------------------------------
(* Titles, and what a refresh leaves of the polls. *)

(* No answer has the title of an app that starts or has failed. *)
LEMMA TitleIsASight ==
  ASSUME NEW answer
  PROVE  Title(answer) # <<"offline">> /\ Title(answer) # <<"starting">>
<1> DEFINE glyph == Glyph(answer.overall.state, overallWaitingTooLong(answer))
<1>1. Range(values) = {"waiting", "error", "unknown", "executing", "done", "idle"}
  <2>1. DOMAIN values = 1..6
    BY DEF values
  <2>2. \A x : x \in Range(values) <=> \E i \in 1..6 : values[i] = x
    BY <2>1 DEF Range
  <2> QED
    BY <2>2 DEF values
<1>2. glyph \in {"waiting", "error", "unknown", "executing", "done", "idle", "stale"}
  BY <1>1 DEF Glyph, fromWire
<1>3. Title(answer) \in {<<glyph>>, <<glyph, answer.overall.tool>>}
  BY DEF Title
<1> HIDE DEF glyph
<1> QED
  BY <1>2, <1>3

LEMMA ResultTitle ==
  ASSUME NEW result \in Result
  PROVE  /\ titleFor(result) # <<"starting">>
         /\ titleFor(result) \in Titles =>
              Ok(result) /\ titleFor(result) = Title(result.snapshot)
         /\ Ok(result) => result.snapshot \in Answer /\ Title(result.snapshot) \in Titles
<1>1. Ok(result) => result.snapshot \in Answer
  <2>1. ASSUME NEW answer \in Answer, result = Success(answer)
        PROVE  result.snapshot \in Answer
    BY <2>1 DEF Success
  <2>2. ASSUME NEW why, result = Failed(why)
        PROVE  ~ Ok(result)
    <3>1. DOMAIN result = {"failure"}
      BY <2>2 DEF Failed
    <3> QED
      BY <3>1 DEF Ok
  <2> QED
    BY <2>1, <2>2 DEF Result
<1>2. ~ Ok(result) => titleFor(result) \notin Titles
  BY TitleIsASight DEF titleFor, Titles
<1> QED
  BY <1>1, <1>2, TitleIsASight DEF titleFor, Titles

LEMMA WithoutElement ==
  ASSUME NEW S, NEW s \in Seq(S), NEW i \in DOMAIN s
  PROVE  /\ Without(s, i) \in Seq(S)
         /\ Len(Without(s, i)) = Len(s) - 1
         /\ \A j \in DOMAIN Without(s, i) :
              /\ j \in 1 .. Len(s) - 1
              /\ Without(s, i)[j] = IF j < i THEN s[j] ELSE s[j + 1]
<1>1. Len(s) \in Nat /\ Len(s) > 0 /\ DOMAIN s = 1 .. Len(s)
  OBVIOUS
<1>2. \A j \in 1 .. Len(s) - 1 : (IF j < i THEN s[j] ELSE s[j + 1]) \in S
  BY <1>1
<1>3. DOMAIN Without(s, i) = 1 .. Len(s) - 1
  BY DEF Without
<1>4. Without(s, i) \in Seq(S)
  BY <1>1, <1>2 DEF Without
<1> QED
  BY <1>1, <1>3, <1>4 DEF Without

-----------------------------------------------------------------------------
(* The service behind the address goes its own way. *)

LEMMA ServiceStep ==
  ASSUME TNext
  PROVE  \/ /\ World /\ (TokenNext \/ UNCHANGED tokenVars)
            /\ view \in Answer => view' \in Answer
         \/ ~ World /\ UNCHANGED serviceVars
<1>1. ASSUME World
      PROVE  TokenNext \/ UNCHANGED tokenVars
  <2>1. CASE Processes(InUse)
    <3>1. ASSUME NEW p \in Server, Token \ InUse # {}, Generate(p, NewToken(InUse))
          PROVE  TokenNext
      <4>1. NewToken(InUse) \in Token
        BY <3>1 DEF NewToken
      <4> QED
        BY <3>1, <4>1 DEF TokenNext
    <3> QED
      BY <2>1, <3>1 DEF Processes, TokenNext
  <2> QED
    BY <1>1, <2>1 DEF World, Service, Changes, TokenNext
<1>2. ASSUME World, view \in Answer
      PROVE  view' \in Answer
  BY <1>2, AnswerAssumption DEF World, Service, Processes, Changes
<1>3. ASSUME App \/ Tick
      PROVE  UNCHANGED serviceVars
  BY <1>3 DEF App, Tick, SetContextMenu, Begin, Loaded, Serve, Arrive, Refused, TimeOut,
              Refresh
<1> QED
  BY <1>1, <1>2, <1>3 DEF TNext

(* The processes behind the menu bar are those of TokenFile. *)
LEMMA TrayTokens == TSpec => TokenSpec
<1>1. TInit => TokenInit
  BY DEF TInit, ServiceInit
<1>2. [TNext]_tvars => [TokenNext]_tokenVars
  BY ServiceStep DEF tvars, serviceVars
<1> QED
  BY <1>1, <1>2, PTL DEF TSpec, TokenSpec

LEMMA RightKept ==
  ASSUME UNCHANGED serviceVars
  PROVE  Right' = Right
BY DEF serviceVars, tokenVars, Right, Current, Up, Phase

LEMMA RightIsOne ==
  ASSUME view \in Answer
  PROVE  Right \in {{}} \cup {{t} : t \in Titles}
BY DEF Right, Current, Titles

-----------------------------------------------------------------------------
(* A refresh ends: with an answer that is fresh, or with a failure. *)

LEMMA RefreshStep ==
  ASSUME TrayInv, NEW i \in DOMAIN polls, NEW result \in Result, Refresh(i, result),
         held' \in Token \cup {Empty},
         Ok(result) => lastTrue[Title(result.snapshot)] <= Timeout
  PROVE  /\ TrayInv'
         /\ title' \in Titles => lastTrue[title'] <= Timeout
<1> USE TimeoutAssumption
<1>1. /\ polls \in Seq(Poll) /\ polls' = Without(polls, i)
      /\ UNCHANGED <<serviceVars, lastTrue>>
  BY DEF TrayInv, AppTypes, Refresh
<1>2. /\ polls' \in Seq(Poll)
      /\ Len(polls') = Len(polls) - 1 /\ Len(polls) \in Nat /\ DOMAIN polls = 1 .. Len(polls)
      /\ \A j \in DOMAIN polls' :
           /\ j \in 1 .. Len(polls) - 1
           /\ polls'[j] = IF j < i THEN polls[j] ELSE polls[j + 1]
  BY <1>1, WithoutElement
<1>3. \A j \in DOMAIN polls : polls[j] \in Poll /\ polls[j].age \in Nat
  BY <1>1 DEF Poll, Ages
<1>4. title' = titleFor(result)
  BY DEF Refresh
<1>5. title' \in Titles => lastTrue[title'] <= Timeout
  BY <1>4, ResultTitle
<1>6. AppTypes'
  <2>1. channel' \in {channel, Append(channel, result)} /\ channel \in Seq(Result)
    BY DEF Refresh, TrayInv, AppTypes
  <2>2. channel' \in Seq(Result)
    BY <2>1
  <2>3. ticking' \in BOOLEAN
    BY DEF Refresh, TrayInv, AppTypes
  <2> QED
    BY <1>1, <1>2, <2>2, <2>3 DEF TrayInv, AppTypes, serviceVars
<1>7. OneEachInterval'
  <2>1. ASSUME NEW j \in DOMAIN polls'
        PROVE  polls'[j].age >= Len(polls') - j
    <3>1. j \in DOMAIN polls /\ j + 1 \in DOMAIN polls
      BY <1>2, <2>1
    <3>2. /\ polls[j].age >= Len(polls) - j
          /\ polls[j + 1].age >= Len(polls) - (j + 1)
      BY <3>1 DEF TrayInv, OneEachInterval
    <3>3. j \in Int /\ polls[j].age \in Nat /\ polls[j + 1].age \in Nat
      BY <1>2, <1>3, <2>1, <3>1
    <3>4. CASE j < i
      <4>1. polls'[j] = polls[j]
        BY <1>2, <2>1, <3>4
      <4> QED
        BY <1>2, <3>2, <3>3, <4>1
    <3>5. CASE ~ (j < i)
      <4>1. polls'[j] = polls[j + 1]
        BY <1>2, <2>1, <3>5
      <4> QED
        BY <1>2, <3>2, <3>3, <4>1
    <3> QED
      BY <3>4, <3>5
  <2> QED
    BY <2>1 DEF OneEachInterval
<1>8. AnswersAreFresh'
  <2>1. ASSUME NEW j \in DOMAIN polls'
        PROVE  \E k \in DOMAIN polls : polls'[j] = polls[k]
    BY <1>2, <2>1
  <2>2. lastTrue' = lastTrue
    BY <1>1
  <2> QED
    BY <2>1, <2>2 DEF TrayInv, AnswersAreFresh
<1>9. RightIsNow'
  BY <1>1, RightKept DEF TrayInv, RightIsNow
<1>10. MenuFollows'
  <2>1. CASE titleFor(result) # title
    <3>1. channel' = Append(channel, result) /\ channel \in Seq(Result)
      BY <2>1 DEF Refresh, TrayInv, AppTypes
    <3>2. channel' # << >> /\ channel'[Len(channel')] = result
      BY <3>1
    <3> QED
      BY <1>4, <3>2 DEF MenuFollows
  <2>2. CASE titleFor(result) = title
    <3>1. /\ menu' = menuFor(result) /\ ticking' = TRUE
          /\ title' = title /\ channel' = channel
      BY <2>2 DEF Refresh
    <3>2. Agree'
      BY <1>4, <3>1 DEF Agree
    <3> QED
      BY <3>1, <3>2 DEF MenuFollows, TrayInv
  <2> QED
    BY <2>1, <2>2
<1>11. ReplacementIsComing'
  BY <1>1, <1>5 DEF ReplacementIsComing
<1> QED
  BY <1>1, <1>5, <1>6, <1>7, <1>8, <1>9, <1>10, <1>11 DEF TrayInv

(* A poll goes on, and nothing else happens. *)
LEMMA BecomesStep ==
  ASSUME TrayInv, NEW i \in DOMAIN polls, NEW poll \in Poll, Becomes(i, poll),
         poll.age = polls[i].age,
         (poll.stage = "answered" /\ Ok(poll.result))
           => lastTrue[Title(poll.result.snapshot)] <= poll.age,
         held' \in Token \cup {Empty},
         UNCHANGED <<serviceVars, channel, ticking, title, menu, lastTrue>>
  PROVE  TrayInv'
<1>1. /\ polls \in Seq(Poll) /\ polls' \in Seq(Poll)
      /\ Len(polls') = Len(polls) /\ DOMAIN polls' = DOMAIN polls
      /\ polls'[i] = poll
      /\ \A j \in DOMAIN polls : polls'[j].age = polls[j].age
      /\ \A j \in DOMAIN polls \ {i} : polls'[j] = polls[j]
  <2>1. polls \in Seq(Poll) /\ polls' = [polls EXCEPT ![i] = poll]
    BY DEF TrayInv, AppTypes, Becomes
  <2> QED
    BY <2>1
<1>2. AppTypes'
  BY <1>1 DEF TrayInv, AppTypes, serviceVars
<1>3. OneEachInterval'
  BY <1>1 DEF TrayInv, OneEachInterval
<1>4. AnswersAreFresh'
  <2>1. ASSUME NEW j \in DOMAIN polls', polls'[j].stage = "answered", Ok(polls'[j].result)
        PROVE  lastTrue[Title(polls'[j].result.snapshot)] <= polls'[j].age
    <3>1. CASE j = i
      BY <1>1, <2>1, <3>1
    <3>2. CASE j # i
      BY <1>1, <2>1, <3>2 DEF TrayInv, AnswersAreFresh
    <3> QED
      BY <3>1, <3>2
  <2> QED
    BY <2>1 DEF AnswersAreFresh
<1>5. RightIsNow'
  BY RightKept DEF TrayInv, RightIsNow
<1>6. MenuFollows'
  BY DEF TrayInv, MenuFollows, Agree
<1>7. ReplacementIsComing'
  BY <1>1 DEF TrayInv, ReplacementIsComing
<1> QED
  BY <1>2, <1>3, <1>4, <1>5, <1>6, <1>7 DEF TrayInv

(* Every step of the app keeps the invariant, and a title it puts up is fresh. *)
LEMMA AppStep ==
  ASSUME TrayInv, App
  PROVE  /\ TrayInv'
         /\ title' = title \/ (title' \in Titles => lastTrue[title'] <= Timeout)
         /\ UNCHANGED <<serviceVars, lastTrue>>
<1> DEFINE Goal == /\ TrayInv'
                   /\ title' = title \/ (title' \in Titles => lastTrue[title'] <= Timeout)
                   /\ UNCHANGED <<serviceVars, lastTrue>>
<1> USE TimeoutAssumption
<1>1. /\ held \in Token \cup {Empty} /\ view \in Answer
      /\ \A i \in DOMAIN polls : polls[i] \in Poll
  BY DEF TrayInv, AppTypes
<1>2. {Failed("no token"), Failed("rejected"), Failed("unreachable")} \subseteq Result
  BY DEF Result
<1>3. ~ Ok(Failed("no token")) /\ ~ Ok(Failed("rejected")) /\ ~ Ok(Failed("unreachable"))
  BY DEF Ok, Failed
<1>4. CASE SetContextMenu
  <2>1. /\ channel \in Seq(Result) /\ channel # << >>
        /\ channel' = Tail(channel) /\ menu' = menuFor(Head(channel))
        /\ UNCHANGED <<serviceVars, held, polls, title, lastTrue>> /\ ticking' = TRUE
    BY <1>4 DEF SetContextMenu, TrayInv, AppTypes
  <2>2. /\ channel' \in Seq(Result)
        /\ channel' = << >> => Head(channel) = channel[Len(channel)] /\ Head(channel) \in Result
        /\ channel' # << >> => channel'[Len(channel')] = channel[Len(channel)]
    <3>1. /\ channel' \in Seq(Result) /\ Len(channel') = Len(channel) - 1
          /\ Len(channel) \in Nat \ {0}
          /\ \A i \in 1 .. Len(channel') : channel'[i] = channel[i + 1]
          /\ Head(channel) = channel[1] /\ Head(channel) \in Result
      BY <2>1, HeadTailProperties
    <3>2. channel' = << >> => Len(channel) = 1
      BY <3>1
    <3>3. channel' # << >> => Len(channel') \in 1 .. Len(channel')
      BY <3>1
    <3> QED
      BY <3>1, <3>2, <3>3
  <2>3. AppTypes' /\ OneEachInterval' /\ AnswersAreFresh' /\ ReplacementIsComing'
    BY <2>1, <2>2 DEF TrayInv, AppTypes, OneEachInterval, AnswersAreFresh,
                      ReplacementIsComing, serviceVars
  <2>4. RightIsNow'
    BY <2>1, RightKept DEF TrayInv, RightIsNow
  <2>5. MenuFollows'
    BY <2>1, <2>2 DEF TrayInv, MenuFollows, Agree
  <2> QED
    BY <2>1, <2>3, <2>4, <2>5 DEF TrayInv
<1>5. ASSUME NEW i \in DOMAIN polls, NEW token \in Token, Sent(i, token),
             held' \in Token \cup {Empty},
             UNCHANGED <<serviceVars, channel, ticking, title, menu, lastTrue>>
      PROVE  Goal
  <2> DEFINE poll == [stage |-> "sent", age |-> polls[i].age, token |-> token]
  <2>1. poll \in Poll /\ poll.age = polls[i].age /\ poll.stage # "answered"
    BY <1>1 DEF Poll
  <2>2. Becomes(i, poll)
    BY <1>5 DEF Sent
  <2> HIDE DEF poll
  <2> QED
    BY <1>5, <2>1, <2>2, BecomesStep
<1>6. ASSUME NEW i \in DOMAIN polls, Begin(i)
      PROVE  Goal
  <2>1. CASE held # Empty
    BY <1>1, <1>5, <1>6, <2>1 DEF Begin
  <2>2. CASE held = Empty
    <3> DEFINE poll == [stage |-> "read", age |-> polls[i].age,
                        token |-> IF file \in Token THEN file ELSE Empty]
    <3>1. poll \in Poll /\ poll.age = polls[i].age /\ poll.stage # "answered"
      BY <1>1 DEF Poll
    <3>2. Becomes(i, poll) /\ held' = held
          /\ UNCHANGED <<serviceVars, channel, ticking, title, menu, lastTrue>>
      BY <1>6, <2>2 DEF Begin
    <3> HIDE DEF poll
    <3> QED
      BY <1>1, <3>1, <3>2, BecomesStep
  <2> QED
    BY <2>1, <2>2
<1>7. ASSUME NEW i \in DOMAIN polls, NEW result \in Result, Refresh(i, result),
             held' \in Token \cup {Empty},
             Ok(result) => lastTrue[Title(result.snapshot)] <= Timeout
      PROVE  Goal
  BY <1>7, RefreshStep DEF Refresh
<1>8. ASSUME NEW i \in DOMAIN polls, Loaded(i)
      PROVE  Goal
  <2>1. polls[i].token \in Token \cup {Empty} /\ held' = polls[i].token
    BY <1>1, <1>8 DEF Loaded, Poll
  <2>2. CASE polls[i].token = Empty
    BY <1>2, <1>3, <1>7, <1>8, <2>1, <2>2 DEF Loaded
  <2>3. CASE polls[i].token # Empty
    BY <1>5, <1>8, <2>1, <2>3 DEF Loaded
  <2> QED
    BY <2>2, <2>3
<1>9. ASSUME NEW i \in DOMAIN polls, Serve(i)
      PROVE  Goal
  <2> DEFINE result == Respond(polls[i].token)
             poll   == [stage |-> "answered", age |-> polls[i].age, result |-> result]
  <2>1. result \in Result
    BY <1>1, <1>2 DEF Respond, Result
  <2>2. Ok(result) => result.snapshot = view
    BY <1>3 DEF Respond, Success
  <2>3. Ok(result) => lastTrue[Title(result.snapshot)] = 0
    <3>1. Title(view) \in Right
      BY <1>9 DEF Serve, Right, Current
    <3> QED
      BY <2>2, <3>1 DEF TrayInv, RightIsNow
  <2> HIDE DEF result
  <2>4. poll \in Poll /\ poll.age = polls[i].age /\ poll.age >= 0 /\ poll.result = result
    BY <1>1, <2>1 DEF Poll, Ages
  <2>5. Becomes(i, poll) /\ held' = held
        /\ UNCHANGED <<serviceVars, channel, ticking, title, menu, lastTrue>>
    BY <1>9 DEF Serve, result
  <2> HIDE DEF poll
  <2> QED
    BY <1>1, <2>3, <2>4, <2>5, BecomesStep
<1>10. ASSUME NEW i \in DOMAIN polls, Arrive(i)
       PROVE  Goal
  <2>1. /\ polls[i].result \in Result /\ polls[i].age \in 0 .. Timeout
        /\ polls[i].stage = "answered"
    BY <1>1, <1>10 DEF Arrive, Poll, Ages
  <2>2. Ok(polls[i].result) => lastTrue[Title(polls[i].result.snapshot)] <= polls[i].age
    BY <2>1 DEF TrayInv, AnswersAreFresh
  <2>3. Ok(polls[i].result) => lastTrue[Title(polls[i].result.snapshot)] <= Timeout
    <3>1. lastTrue \in [Titles -> 0 .. Bound + 1] /\ Bound \in Nat
      BY DEF TrayInv, AppTypes, Bound
    <3>2. Ok(polls[i].result) => Title(polls[i].result.snapshot) \in Titles
      BY <2>1, ResultTitle
    <3> QED
      BY <2>1, <2>2, <3>1, <3>2
  <2> QED
    BY <1>1, <1>7, <1>10, <2>1, <2>3 DEF Arrive
<1>11. ASSUME NEW i \in DOMAIN polls, Refused(i) \/ TimeOut(i)
       PROVE  Goal
  BY <1>1, <1>2, <1>3, <1>7, <1>11 DEF Refused, TimeOut
<1> QED
  BY <1>4, <1>6, <1>8, <1>9, <1>10, <1>11 DEF App

(* The world behind the app only makes titles right again. *)
LEMMA WorldStep ==
  ASSUME TrayInv, World
  PROVE  TrayInv'
<1>1. /\ lastTrue \in [Titles -> 0 .. Bound + 1] /\ Bound \in Nat
      /\ lastTrue' = [t \in Titles |-> IF t \in Right' THEN 0 ELSE lastTrue[t]]
      /\ UNCHANGED appVars
  BY TimeoutAssumption DEF World, TrayInv, AppTypes, Bound
<1>2. \A t \in Titles : lastTrue'[t] \in 0 .. Bound + 1 /\ lastTrue'[t] <= lastTrue[t]
  BY <1>1
<1>3. AppTypes'
  <2>1. view' \in Answer
    BY ServiceStep DEF TNext, TrayInv, AppTypes
  <2> QED
    BY <1>1, <1>2, <2>1 DEF TrayInv, AppTypes, appVars
<1>4. OneEachInterval' /\ MenuFollows'
  BY <1>1 DEF TrayInv, OneEachInterval, MenuFollows, Agree, appVars
<1>5. AnswersAreFresh'
  <2>1. ASSUME NEW i \in DOMAIN polls, polls[i].stage = "answered", Ok(polls[i].result)
        PROVE  lastTrue'[Title(polls[i].result.snapshot)] <= polls[i].age
    <3>1. polls[i].result \in Result /\ polls[i].age \in Nat
      BY <2>1 DEF TrayInv, AppTypes, Poll, Ages
    <3>2. Title(polls[i].result.snapshot) \in Titles
      BY <2>1, <3>1, ResultTitle
    <3>3. lastTrue[Title(polls[i].result.snapshot)] <= polls[i].age
      BY <2>1 DEF TrayInv, AnswersAreFresh
    <3> QED
      BY <1>1, <1>2, <3>1, <3>2, <3>3
  <2> QED
    BY <1>1, <2>1 DEF AnswersAreFresh, appVars
<1>6. RightIsNow'
  <2>1. Right' \subseteq Titles
    BY <1>3, RightIsOne DEF AppTypes, Right, Current, Titles
  <2> QED
    BY <1>1, <2>1 DEF RightIsNow
<1>7. ReplacementIsComing'
  <2>1. polls \in Seq(Poll) /\ \A i \in DOMAIN polls : polls[i].age \in Nat
    BY DEF TrayInv, AppTypes, Poll, Ages
  <2>2. ASSUME title \in Titles
        PROVE  \/ lastTrue'[title] <= Timeout
               \/ \E i \in DOMAIN polls : lastTrue'[title] <= Timeout + 1 + polls[i].age
    BY <1>1, <1>2, <2>1, <2>2, TimeoutAssumption DEF TrayInv, ReplacementIsComing
  <2> QED
    BY <1>1, <2>2 DEF ReplacementIsComing, appVars
<1> QED
  BY <1>3, <1>4, <1>5, <1>6, <1>7 DEF TrayInv

(* An interval passes: nothing on the menu bar has been over for longer than Bound. *)
LEMMA TickStep ==
  ASSUME TrayInv, Tick
  PROVE  /\ TrayInv'
         /\ title \in Titles => lastTrue'[title] <= Bound
<1> USE TimeoutAssumption
<1>1. /\ lastTrue \in [Titles -> 0 .. Bound + 1] /\ Bound = 2 * Timeout + 1
      /\ lastTrue' = [t \in Titles |->
                        IF t \in Right THEN 0
                        ELSE IF lastTrue[t] <= Bound THEN lastTrue[t] + 1 ELSE lastTrue[t]]
      /\ UNCHANGED <<serviceVars, held, channel, ticking, title, menu>>
      /\ channel = << >>
  BY DEF Tick, TrayInv, AppTypes, Bound
<1>2. \A t \in Titles : lastTrue'[t] \in 0 .. Bound + 1 /\ lastTrue'[t] <= lastTrue[t] + 1
  BY <1>1
<1> DEFINE older == [i \in DOMAIN polls |-> [polls[i] EXCEPT !.age = @ + 1]]
           begun == IF ticking THEN <<[stage |-> "begun", age |-> 0]>> ELSE << >>
<1>3. polls \in Seq(Poll) /\ polls' = older \o begun
  BY DEF Tick, TrayInv, AppTypes
<1>4. ASSUME NEW i \in DOMAIN polls
      PROVE  /\ polls[i].age \in 0 .. Timeout - 1
             /\ older[i] \in Poll /\ older[i].age = polls[i].age + 1
             /\ older[i].stage = polls[i].stage
             /\ polls[i].stage = "answered" =>
                  older[i].result = polls[i].result /\ polls[i].result \in Result
  <2>1. polls[i] \in Poll
    BY <1>3
  <2>2. polls[i].stage \in {"sent", "answered"} /\ polls[i].age # Timeout
    BY DEF Tick, Due
  <2>3. polls[i].age \in 0 .. Timeout - 1
    BY <2>1, <2>2 DEF Poll, Ages
  <2>4. CASE polls[i].stage = "sent"
    <3>1. polls[i] \in [stage : {"sent"}, age : Ages, token : Token]
      BY <2>1, <2>4 DEF Poll
    <3>2. older[i] \in [stage : {"sent"}, age : Ages, token : Token]
      BY <2>3, <3>1 DEF Ages
    <3> QED
      BY <2>3, <2>4, <3>1, <3>2 DEF Poll
  <2>5. CASE polls[i].stage = "answered"
    <3>1. polls[i] \in [stage : {"answered"}, age : Ages, result : Result]
      BY <2>1, <2>5 DEF Poll
    <3>2. older[i] \in [stage : {"answered"}, age : Ages, result : Result]
      BY <2>3, <3>1 DEF Ages
    <3> QED
      BY <2>3, <2>5, <3>1, <3>2 DEF Poll
  <2> QED
    BY <2>2, <2>4, <2>5
<1>5. older \in Seq(Poll) /\ Len(older) = Len(polls) /\ DOMAIN older = DOMAIN polls
      /\ DOMAIN polls = 1 .. Len(polls) /\ Len(polls) \in Nat
  <2>1. DOMAIN polls = 1 .. Len(polls) /\ Len(polls) \in Nat
    BY <1>3
  <2>2. \A i \in 1 .. Len(polls) : older[i] \in Poll
    BY <1>4, <2>1
  <2>3. older \in [1 .. Len(polls) -> Poll]
    BY <2>1, <2>2
  <2> HIDE DEF older
  <2> QED
    BY <2>1, <2>3, SeqDef
<1>6. /\ begun \in Seq(Poll)
      /\ \A i \in DOMAIN begun : i = 1 /\ begun[i].stage = "begun" /\ begun[i].age = 0
      /\ Len(begun) = IF ticking THEN 1 ELSE 0
  <2>1. [stage |-> "begun", age |-> 0] \in Poll
    BY DEF Poll, Ages
  <2>2. CASE ticking
    BY <2>1, <2>2
  <2>3. CASE ~ ticking
    BY <2>3
  <2> QED
    BY <2>2, <2>3
<1> HIDE DEF older
<1>7. /\ polls' \in Seq(Poll) /\ Len(polls') = Len(polls) + Len(begun)
      /\ DOMAIN polls' = 1 .. Len(polls')
      /\ Len(begun) = IF ticking THEN 1 ELSE 0
      /\ \A i \in DOMAIN polls : i \in DOMAIN polls' /\ polls'[i] = older[i]
      /\ \A i \in DOMAIN polls' \ DOMAIN polls :
           i = Len(polls) + 1 /\ polls'[i].stage = "begun" /\ polls'[i].age = 0
  BY <1>3, <1>5, <1>6
<1>8. AppTypes'
  BY <1>1, <1>2, <1>7 DEF TrayInv, AppTypes, serviceVars
<1>9. OneEachInterval'
  <2>1. ASSUME NEW i \in DOMAIN polls'
        PROVE  polls'[i].age >= Len(polls') - i
    <3>1. CASE i \in DOMAIN polls
      <4>1. polls[i].age >= Len(polls) - i /\ polls'[i].age = polls[i].age + 1
        BY <1>4, <1>7, <3>1 DEF TrayInv, OneEachInterval
      <4> QED
        BY <1>4, <1>5, <1>7, <3>1, <4>1
    <3>2. CASE i \notin DOMAIN polls
      BY <1>5, <1>7, <2>1, <3>2
    <3> QED
      BY <3>1, <3>2
  <2> QED
    BY <2>1 DEF OneEachInterval
<1>10. AnswersAreFresh'
  <2>1. ASSUME NEW i \in DOMAIN polls', polls'[i].stage = "answered", Ok(polls'[i].result)
        PROVE  lastTrue'[Title(polls'[i].result.snapshot)] <= polls'[i].age
    <3>1. i \in DOMAIN polls
      BY <1>7, <2>1
    <3>2. /\ polls[i].stage = "answered" /\ polls'[i].age = polls[i].age + 1
          /\ polls'[i].result = polls[i].result /\ polls[i].result \in Result
          /\ polls[i].age \in Nat
      BY <1>4, <1>7, <2>1, <3>1
    <3> DEFINE t == Title(polls[i].result.snapshot)
    <3>3. t \in Titles
      BY <2>1, <3>2, ResultTitle
    <3>4. lastTrue[t] <= polls[i].age
      BY <2>1, <3>1, <3>2 DEF TrayInv, AnswersAreFresh
    <3> HIDE DEF t
    <3>5. lastTrue'[t] <= polls'[i].age
      BY <1>1, <1>2, <3>2, <3>3, <3>4
    <3> QED
      BY <3>2, <3>5 DEF t
  <2> QED
    BY <2>1 DEF AnswersAreFresh
<1>11. Right' = Right /\ RightIsNow'
  <2>1. Right' = Right /\ Right \subseteq Titles
    BY <1>1, RightKept, RightIsOne DEF TrayInv, AppTypes
  <2> QED
    BY <1>1, <2>1 DEF RightIsNow
<1>12. MenuFollows'
  <2>1. ticking' = ticking /\ channel' = << >> /\ title' = title /\ menu' = menu
    BY <1>1
  <2> QED
    BY <1>1, <2>1 DEF TrayInv, MenuFollows, Agree
<1>13. ASSUME title \in Titles
       PROVE  /\ lastTrue'[title] <= Bound
              /\ \E i \in DOMAIN polls' : lastTrue'[title] <= Timeout + 1 + polls'[i].age
  <2>1. ticking
    BY <1>1, <1>13, TitleIsASight DEF TrayInv, MenuFollows, AppTypes, Titles
  <2>2. lastTrue[title] \in Nat /\ lastTrue'[title] \in Nat
        /\ lastTrue'[title] <= lastTrue[title] + 1
    BY <1>1, <1>2, <1>13
  <2>3. CASE lastTrue[title] <= Timeout
    <3>1. Len(polls) + 1 \in DOMAIN polls' \ DOMAIN polls
      BY <1>5, <1>7, <2>1
    <3>2. polls'[Len(polls) + 1].age = 0
      BY <1>7, <3>1
    <3>3. lastTrue'[title] <= Timeout + 1
      BY <2>2, <2>3
    <3>4. lastTrue'[title] <= Bound
      BY <1>1, <2>2, <3>3
    <3> QED
      BY <3>1, <3>2, <3>3, <3>4
  <2>4. ASSUME NEW i \in DOMAIN polls, lastTrue[title] <= Timeout + 1 + polls[i].age
        PROVE  /\ lastTrue'[title] <= Bound
               /\ lastTrue'[title] <= Timeout + 1 + polls'[i].age /\ i \in DOMAIN polls'
    <3>1. polls[i].age \in 0 .. Timeout - 1 /\ polls'[i].age = polls[i].age + 1
      BY <1>4, <1>7
    <3>2. lastTrue'[title] <= Timeout + 1 + polls'[i].age
      BY <2>2, <2>4, <3>1
    <3>3. lastTrue'[title] <= Bound
      BY <1>1, <2>2, <3>1, <3>2
    <3> QED
      BY <1>7, <3>2, <3>3
  <2> QED
    BY <1>13, <2>3, <2>4 DEF TrayInv, ReplacementIsComing
<1>14. ReplacementIsComing'
  BY <1>1, <1>13 DEF ReplacementIsComing
<1> QED
  BY <1>8, <1>9, <1>10, <1>11, <1>12, <1>13, <1>14 DEF TrayInv

THEOREM TrayInvHolds == TSpec => []TrayInv
<1>1. TInit => TrayInv
  <2> SUFFICES ASSUME TInit PROVE TrayInv
    OBVIOUS
  <2>1. AppTypes
    <3>1. [stage |-> "begun", age |-> 0] \in Poll
      BY TimeoutAssumption DEF Poll, Ages
    <3>2. polls \in Seq(Poll) /\ channel \in Seq(Result)
      BY <3>1 DEF TInit
    <3>3. lastTrue \in [Titles -> 0 .. Bound + 1]
      BY TimeoutAssumption DEF TInit, Bound
    <3> QED
      BY <3>2, <3>3, AnswerAssumption DEF TInit, ServiceInit, AppTypes
  <2>2. OneEachInterval /\ AnswersAreFresh
    BY DEF TInit, OneEachInterval, AnswersAreFresh
  <2>3. RightIsNow
    BY DEF TInit, ServiceInit, TokenInit, RightIsNow, Right, Current, Up, Phase, Down
  <2>4. MenuFollows /\ ReplacementIsComing
    BY TitleIsASight DEF TInit, MenuFollows, ReplacementIsComing, Titles
  <2> QED
    BY <2>1, <2>2, <2>3, <2>4 DEF TrayInv
<1>2. TrayInv /\ [TNext]_tvars => TrayInv'
  <2> SUFFICES ASSUME TrayInv, [TNext]_tvars PROVE TrayInv'
    OBVIOUS
  <2>1. CASE UNCHANGED tvars
    <3>1. UNCHANGED <<serviceVars, appVars, lastTrue>>
      BY <2>1 DEF tvars
    <3>2. Right' = Right
      BY <3>1, RightKept
    <3> QED
      BY <3>1, <3>2 DEF appVars, serviceVars, TrayInv, AppTypes, OneEachInterval,
                        AnswersAreFresh, RightIsNow, MenuFollows, Agree,
                        ReplacementIsComing
  <2> QED
    BY <2>1, WorldStep, AppStep, TickStep DEF TNext
<1> QED
  BY <1>1, <1>2, PTL DEF TSpec

-----------------------------------------------------------------------------
(* What the menu bar promises. *)

(* Types: and never more polls at a time than intervals in a timeout, and one. *)
THEOREM TTypeCorrect == TSpec => []TTypeOK
<1>1. TrayInv /\ TokenTypeOK => TTypeOK
  <2> SUFFICES ASSUME TrayInv, TokenTypeOK PROVE TTypeOK
    OBVIOUS
  <2>1. AppTypes
    BY DEF TrayInv
  <2>2. \A i \in DOMAIN polls : polls[i].age \in 0 .. Timeout
    BY <2>1 DEF AppTypes, Poll, Ages
  <2>3. Len(polls) <= Timeout + 1
    <3>1. Len(polls) \in Nat /\ DOMAIN polls = 1 .. Len(polls)
      BY <2>1 DEF AppTypes
    <3>2. CASE Len(polls) = 0
      BY <3>2, TimeoutAssumption
    <3>3. CASE Len(polls) > 0
      <4>1. polls[1].age >= Len(polls) - 1 /\ polls[1].age \in 0 .. Timeout
        BY <2>2, <3>1, <3>3 DEF TrayInv, OneEachInterval
      <4> QED
        BY <3>1, <4>1, TimeoutAssumption
    <3> QED
      BY <3>1, <3>2, <3>3
  <2>4. \A i \in DOMAIN channel : channel[i] \in Result
    BY <2>1 DEF AppTypes
  <2> QED
    BY <2>1, <2>2, <2>3, <2>4 DEF AppTypes, TTypeOK, ServiceTypeOK
<1> QED
  BY <1>1, TrayInvHolds, TrayTokens, TokenTypes, PTL

(* Once no refresh is between its title and its menu, both tell of one result,
   whatever refreshes overlapped before.                                     *)
THEOREM TitleAndMenuAgreeHolds == TSpec => []TitleAndMenuAgree
<1>1. TrayInv => TitleAndMenuAgree
  BY DEF TrayInv, MenuFollows, Agree, TitleAndMenuAgree
<1> QED
  BY <1>1, TrayInvHolds, PTL

(* The menu bar is a display, for any timeout, any answers and any number of
   servers: the initial state is one, and each step is a step of one or none. *)
THEOREM TrayIsADisplayHolds == TSpec => TrayIsADisplay
<1>1. TInit => Menubar!DInit
  <2>1. TInit => Right = {}
    BY DEF TInit, ServiceInit, TokenInit, Right, Current, Up, Phase, Down
  <2>2. <<"starting">> \notin Titles
    BY TitleIsASight DEF Titles
  <2> QED
    BY <2>1, <2>2 DEF TInit, Menubar!DInit, Menubar!Horizon
<1>2. TrayInv /\ [TNext]_tvars => [Menubar!DNext]_Menubar!dvars
  <2> SUFFICES ASSUME TrayInv, [TNext]_tvars
               PROVE  Menubar!DNext \/ UNCHANGED <<Right, title, lastTrue>>
    BY DEF Menubar!dvars
  <2>1. CASE World
    <3>1. Right' \in {{}} \cup {{t} : t \in Titles}
      <4>1. view' \in Answer
        BY <2>1, WorldStep DEF TrayInv, AppTypes
      <4> QED
        BY <4>1 DEF Right, Current, Titles
    <3> QED
      BY <2>1, <3>1 DEF World, appVars, Menubar!DNext, Menubar!Turn
  <2>2. CASE App
    <3>1. Right' = Right /\ lastTrue' = lastTrue
      BY <2>2, AppStep, RightKept
    <3> QED
      BY <2>2, <3>1, AppStep DEF Menubar!DNext, Menubar!Show
  <2>3. CASE Tick
    <3>1. Right' = Right
      BY <2>3, RightKept DEF Tick
    <3>2. title' = title /\ (title \in Titles => lastTrue'[title] <= Bound)
      BY <2>3, TickStep DEF Tick
    <3>3. /\ lastTrue \in [Titles -> 0 .. Bound + 1] /\ Bound \in Nat
      BY TimeoutAssumption DEF TrayInv, AppTypes, Bound
    <3>4. \A t \in Titles : (lastTrue[t] <= Bound) <=> (lastTrue[t] < Bound + 1)
      BY <3>3
    <3>5. lastTrue' = [t \in Titles |-> IF t \in Right THEN 0 ELSE Menubar!Older(t)]
      BY <2>3, <3>3, <3>4 DEF Tick, Menubar!Older, Menubar!Horizon
    <3> QED
      BY <3>1, <3>2, <3>5 DEF Menubar!DNext, Menubar!Tick, Menubar!NotLongOver
  <2>4. CASE UNCHANGED tvars
    BY <2>4, RightKept DEF tvars, appVars
  <2> QED
    BY <2>1, <2>2, <2>3, <2>4 DEF TNext
<1> QED
  BY <1>1, <1>2, TrayInvHolds, PTL DEF TSpec, TrayIsADisplay, Menubar!DSpec

(* What that comes to: no title stays on the menu bar for more than two timeouts and
   an interval after it was right.                                           *)
THEOREM TrayIsNeverLongWrong == TSpec => []Menubar!NeverLongWrong
<1>1. TrayInv => Menubar!NeverLongWrong
  <2> SUFFICES ASSUME TrayInv, title \in Titles PROVE lastTrue[title] <= Bound
    BY DEF Menubar!NeverLongWrong, Menubar!NotLongOver
  <2>1. lastTrue[title] \in Nat /\ \A i \in DOMAIN polls : polls[i].age \in 0 .. Timeout
    BY TimeoutAssumption DEF TrayInv, AppTypes, Poll, Ages, Bound
  <2> QED
    BY <2>1, TimeoutAssumption DEF TrayInv, ReplacementIsComing, Bound
<1> QED
  BY <1>1, TrayInvHolds, PTL
=============================================================================
