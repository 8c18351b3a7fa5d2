--------------------------- MODULE TokenFileProofs ---------------------------
(* Proofs about TokenFile, for any number of server processes. *)
EXTENDS TokenFile, TLAPS

(* What TokenIsShared rests on: as long as nothing is disturbed, a server that
   makes a token runs alone until the file holds it.                         *)
Settled(p) ==
  /\ Phase(p) \in {"loaded", "up"} => file = server[p].token
  /\ Phase(p) = "making" => file = Absent /\ Alone(p)
  /\ Phase(p) = "writing" => file = Empty /\ Alone(p)

-----------------------------------------------------------------------------

(* File, servers and their history keep their types through every step. *)
LEMMA TokenTypes == TokenSpec => []TokenTypeOK
<1>1. TokenInit => TokenTypeOK
  BY DEF TokenInit, TokenTypeOK, Down, Absent
<1>2. TokenTypeOK /\ [TokenNext]_tokenVars => TokenTypeOK'
  <2> SUFFICES ASSUME TokenTypeOK, [TokenNext]_tokenVars PROVE TokenTypeOK'
    OBVIOUS
  <2> USE DEF TokenTypeOK
  <2>1. ASSUME NEW p \in Server, Load(p) PROVE TokenTypeOK'
    BY <2>1 DEF Load, At
  <2>2. ASSUME NEW p \in Server, NEW t \in Token, Generate(p, t) PROVE TokenTypeOK'
    BY <2>2 DEF Generate, At
  <2>3. ASSUME NEW p \in Server, CreateFile(p) PROVE TokenTypeOK'
    BY <2>3 DEF CreateFile, Phase, Down
  <2>4. ASSUME NEW p \in Server, WriteToken(p) PROVE TokenTypeOK'
    BY <2>4 DEF WriteToken, Phase, Down
  <2>5. ASSUME NEW p \in Server, Gone(p) PROVE TokenTypeOK'
    BY <2>5 DEF Gone
  <2>6. ASSUME NEW p \in Server, Listen(p) PROVE TokenTypeOK'
    <3>1. CASE Up # {}
      BY <2>5, <2>6, <3>1 DEF Listen
    <3>2. CASE Up = {}
      BY <2>6, <3>2 DEF Listen, Phase, Down
    <3>3. QED
      BY <3>1, <3>2
  <2>7. ASSUME NEW p \in Server, Stop(p) PROVE TokenTypeOK'
    BY <2>5, <2>7 DEF Stop
  <2>8. CASE RemoveFile
    BY <2>8 DEF RemoveFile, NoneRuns
  <2>9. CASE UNCHANGED tokenVars
    BY <2>9 DEF tokenVars
  <2>10. QED
    BY <2>1, <2>2, <2>3, <2>4, <2>6, <2>7, <2>8, <2>9 DEF TokenNext, Runs
<1>3. QED
  BY <1>1, <1>2, PTL DEF TokenSpec

-----------------------------------------------------------------------------

(* While nothing is disturbed, who makes a token is alone from finding no file to
   having filled it, and so the file holds what every later server loads.    *)
LEMMA SettledHolds == TokenSpec => [](~ disturbed => \A p \in Server : Settled(p))
<1> DEFINE IInv == ~ disturbed => \A p \in Server : Settled(p)
<1>1. TokenInit => IInv
  BY DEF TokenInit, Settled, Phase, Down
<1>2. TokenTypeOK /\ IInv /\ [TokenNext]_tokenVars => IInv'
  <2> SUFFICES ASSUME TokenTypeOK, IInv, [TokenNext]_tokenVars, ~ disturbed',
                      NEW q \in Server
               PROVE  Settled(q)'
    OBVIOUS
  <2>1. ASSUME NEW p \in Server, Load(p) PROVE Settled(q)'
    BY <2>1, TokenAssumption DEF Load, At, Settled, Phase, Alone, Down, TokenTypeOK
  <2>2. ASSUME NEW p \in Server, NEW t \in Token, Generate(p, t) PROVE Settled(q)'
    BY <2>2, TokenAssumption DEF Generate, At, Settled, Phase, Alone, Down, TokenTypeOK
  <2>3. ASSUME NEW p \in Server, CreateFile(p) PROVE Settled(q)'
    BY <2>3, TokenAssumption DEF CreateFile, Settled, Phase, Alone, Down, TokenTypeOK
  <2>4. ASSUME NEW p \in Server, WriteToken(p) PROVE Settled(q)'
    BY <2>4, TokenAssumption DEF WriteToken, Settled, Phase, Alone, Down, TokenTypeOK
  <2>5. ASSUME NEW p \in Server, Gone(p) PROVE Settled(q)'
    BY <2>5, TokenAssumption DEF Gone, Settled, Phase, Alone, Down, TokenTypeOK
  <2>6. ASSUME NEW p \in Server, Listen(p) PROVE Settled(q)'
    <3>1. CASE Up # {}
      BY <2>5, <2>6, <3>1 DEF Listen
    <3>2. CASE Up = {}
      BY <2>6, <3>2, TokenAssumption DEF Listen, Settled, Phase, Alone, Down, TokenTypeOK
    <3>3. QED
      BY <3>1, <3>2
  <2>7. ASSUME NEW p \in Server, Stop(p) PROVE Settled(q)'
    BY <2>5, <2>7 DEF Stop
  <2>8. CASE RemoveFile
    <3>1. server'[q] = Down
      BY <2>8 DEF RemoveFile, NoneRuns
    <3>2. QED
      BY <3>1 DEF Settled, Phase, Down
  <2>9. CASE UNCHANGED tokenVars
    BY <2>9 DEF tokenVars, Settled, Phase, Alone
  <2>10. QED
    BY <2>1, <2>2, <2>3, <2>4, <2>6, <2>7, <2>8, <2>9 DEF TokenNext, Runs
<1>3. QED
  BY <1>1, <1>2, TokenTypes, PTL DEF TokenSpec

(* However many servers start, crash and meet, a server that is past loading its
   token asks for the one in the file, unless two first starts overlapped or
   the file went away under a server (auth.go:25-50).                        *)
THEOREM TokenIsSharedHolds == TokenSpec => []TokenIsShared
<1>1. (~ disturbed => \A p \in Server : Settled(p)) => TokenIsShared
  BY DEF Settled, TokenIsShared
<1>2. QED
  BY <1>1, SettledHolds, PTL
=============================================================================
