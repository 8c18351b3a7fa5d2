------------------------------- MODULE EndToEnd -------------------------------
(* From the agent to the screen: Claude Code sessions with their hooks, the server,
   and connections of clients that poll it.  All that is posted comes from hooks.            *)
EXTENDS HookPipeline, Screens

claudeVars == <<async, agent, hooks, synced>>
evars == <<vars, claudeVars, call>>

EInit == PInit /\ SInit

FromClaude(s) ==
  /\ \/ Claude(s) \/ Hook(s)
     \/ \E i \in DOMAIN hooks[s] : Deliver(s, i) \/ Lose(s, i)
  /\ UNCHANGED call

Poll(c) == (handleState_Snapshot(c) \/ handleState_Build(c)) /\ UNCHANGED claudeVars
Time == Tick /\ UNCHANGED <<claudeVars, call>>

ENext ==
  \/ \E s \in SessionID : FromClaude(s)
  \/ \E c \in Conn : Poll(c)
  \/ Time
  \/ PRestart /\ ServerRestart

ESpec == EInit /\ [][ENext]_evars

(* Hook processes run and their timers fire, time passes, and connections go on
   being polled and are answered.  No event is sure to reach the server.                  *)
EFairSpec ==
  /\ ESpec
  /\ \A s \in SessionID : WF_evars(Hook(s) /\ UNCHANGED call)
  /\ WF_evars(Time)
  /\ \A c \in Conn : WF_evars(Poll(c))

-----------------------------------------------------------------------------

Heard(s) == synced[s] /\ hooks[s] = << >>

(* A session that asks and goes on asking, once the server has heard it, has WAITING
   for the headline of what any connection is answered, again and again, whatever
   other sessions do, however many events were lost and however often the server
   was started before.                                                       *)
AskingReachesScreens ==
  \A s \in SessionID, c \in Conn :
    <>[](agent[s] = "asking" /\ Heard(s))
      => []<>Answered(c) /\ <>[](Answered(c) => Headline(c).state = "waiting")

(* A prompt of s is not up, nor is it still to be seen for a while after the end of
   s, or not beyond the end of this run.                                     *)
Calm(s) ==
  LET k == <<Source, s>>
  IN /\ agent[s] \notin {"asking", "answered"}
     /\ (agent[s] = "away" /\ k \in DOMAIN sessions) => sessions[k].removeAt <= MaxTime

(* And no client is left asking for attention: when no session has a prompt up and
   the server has heard it, no answer has the tool WAITING any more.         *)
CalmReachesScreens ==
  \A c \in Conn :
    <>[](\A s \in SessionID : Heard(s) /\ Calm(s))
      => <>[](Answered(c) /\ Source \in DOMAIN Tools(c)
                => Tools(c)[Source].state # "waiting")
=============================================================================
