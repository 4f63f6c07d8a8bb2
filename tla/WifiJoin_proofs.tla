-------------------------- MODULE WifiJoin_proofs --------------------------
(***************************************************************************)
(* Theorems about WifiJoin, for any networks, waits and bounds: what the   *)
(* module's invariants say of the answer, of the host's configuration and  *)
(* of infrafid's files.  JoinInv is the invariant that every step keeps.   *)
(***************************************************************************)
EXTENDS WifiJoin, TLAPS

\* What the assumption says of the constants that are numbers or names.
LEMMA Bounds ==
  /\ AssocWait \in Nat /\ AuthGrace \in Nat /\ DhcpWait \in Nat
  /\ MaxRequests \in Nat /\ MaxCrashes \in Nat /\ None \notin Ssids
BY JoinAssumption

\* At first nothing was asked for, and infrafid has changed nothing.
LEMMA JoinInit == Init => JoinInv
<1> SUFFICES ASSUME Init PROVE JoinInv OBVIOUS
<1> USE Bounds DEF Init
<1>1. HostOK BY DEF HostOK, Files, NoFiles
<1>2. CallOK BY DEF CallOK
<1>3. CountersOK BY DEF CountersOK
<1>4. TimeInv BY DEF TimeInv
<1>5. SelectedInv BY DEF SelectedInv, Attempt
<1>6. ResultInv BY DEF ResultInv, OkMeansJoined
<1>7. HostInv BY DEF HostInv, RolledBack, Attempt, NoFiles
<1> QED BY <1>1, <1>2, <1>3, <1>4, <1>5, <1>6, <1>7 DEF JoinInv, TypeOK

\* Every step keeps the invariant.
LEMMA JoinStep == JoinInv /\ [Next]_vars => JoinInv'
<1> SUFFICES ASSUME JoinInv, [Next]_vars PROVE JoinInv' OBVIOUS
<1> USE Bounds
<1>0. /\ HostOK /\ CallOK /\ CountersOK
      /\ TimeInv /\ SelectedInv /\ ResultInv /\ HostInv
  BY DEF JoinInv, TypeOK
<1>1. ASSUME NEW ssid \in Ssids, Receive(ssid) PROVE JoinInv'
  <2> USE <1>1 DEF Receive, host
  <2>1. HostOK' BY <1>0 DEF HostOK, CallOK, SelectedInv, Files
  <2>2. CallOK' BY <1>0 DEF HostOK, CallOK, SelectedInv
  <2>3. CountersOK' BY <1>0 DEF CountersOK, TimeInv, CallOK
  <2>4. TimeInv' BY <1>0 DEF CountersOK, TimeInv, CallOK
  <2>5. SelectedInv' BY <1>0 DEF HostOK, CallOK, SelectedInv, Attempt
  <2>6. ResultInv'
    BY <1>0 DEF HostOK, CallOK, ResultInv, OkMeansJoined, SelectedInv, Attempt
  <2>7. HostInv'
    BY <1>0 DEF CallOK, HostInv, RolledBack, Attempt, SelectedInv, ResultInv,
         NoFiles, Files
  <2> QED BY <2>1, <2>2, <2>3, <2>4, <2>5, <2>6, <2>7 DEF JoinInv, TypeOK
<1>2. CASE GetCurrent
  <2>0. /\ pc = "current" /\ pc' = "connect" /\ prev' \in {assoc, None}
        /\ prev' # None => manager = "nm" \/ WpaCliWorks
        /\ UNCHANGED <<manager, assoc, ip, allowed, conf, files, target, connected,
                       elapsed, joined, seconds, answer, requests, crashes>>
    BY <1>2 DEF GetCurrent, host
  <2>1. HostOK' BY <1>0, <2>0 DEF HostOK, CallOK, SelectedInv, Files
  <2>2. CallOK' BY <1>0, <2>0 DEF HostOK, CallOK, SelectedInv
  <2>3. CountersOK' BY <1>0, <2>0 DEF CountersOK, TimeInv, CallOK
  <2>4. TimeInv' BY <1>0, <2>0 DEF CountersOK, TimeInv, CallOK
  <2>5. SelectedInv' BY <1>0, <2>0 DEF HostOK, CallOK, SelectedInv, Attempt
  <2>6. ResultInv'
    BY <1>0, <2>0 DEF HostOK, CallOK, ResultInv, OkMeansJoined, SelectedInv, Attempt
  <2>7. HostInv'
    BY <1>0, <2>0 DEF CallOK, HostInv, RolledBack, Attempt, SelectedInv, ResultInv,
         NoFiles, Files
  <2> QED BY <2>1, <2>2, <2>3, <2>4, <2>5, <2>6, <2>7 DEF JoinInv, TypeOK
<1>3. CASE ConnectFails
  <2> USE <1>3 DEF ConnectFails, Return
  <2>1. HostOK' BY <1>0 DEF HostOK, CallOK, SelectedInv, Files
  <2>2. CallOK' BY <1>0 DEF HostOK, CallOK, SelectedInv
  <2>3. CountersOK' BY <1>0 DEF CountersOK, TimeInv, CallOK
  <2>4. TimeInv' BY <1>0 DEF CountersOK, TimeInv, CallOK
  <2>5. SelectedInv' BY <1>0 DEF HostOK, CallOK, SelectedInv, Attempt
  <2>6. ResultInv'
    BY <1>0 DEF HostOK, CallOK, ResultInv, OkMeansJoined, SelectedInv, Attempt
  <2>7. HostInv'
    BY <1>0 DEF CallOK, HostInv, RolledBack, Attempt, SelectedInv, ResultInv,
         NoFiles, Files
  <2> QED BY <2>1, <2>2, <2>3, <2>4, <2>5, <2>6, <2>7 DEF JoinInv, TypeOK
<1>4. CASE NmConnect
  <2> USE <1>4 DEF NmConnect, Connecting, Return
  <2>1. HostOK' BY <1>0 DEF HostOK, CallOK, SelectedInv, Files
  <2>2. CallOK' BY <1>0 DEF HostOK, CallOK, SelectedInv
  <2>3. CountersOK' BY <1>0 DEF CountersOK, TimeInv, CallOK
  <2>4. TimeInv' BY <1>0 DEF CountersOK, TimeInv, CallOK
  <2>5. SelectedInv' BY <1>0 DEF HostOK, CallOK, SelectedInv, Attempt
  <2>6. ResultInv'
    BY <1>0 DEF HostOK, CallOK, ResultInv, OkMeansJoined, SelectedInv, Attempt
  <2>7. HostInv'
    BY <1>0 DEF CallOK, HostInv, RolledBack, Attempt, SelectedInv, ResultInv,
         NoFiles, Files
  <2> QED BY <2>1, <2>2, <2>3, <2>4, <2>5, <2>6, <2>7 DEF JoinInv, TypeOK
<1>5. CASE NetworkdSelect
  <2> USE <1>5 DEF NetworkdSelect, Connecting
  <2>1. HostOK' BY <1>0 DEF HostOK, CallOK, SelectedInv, Files
  <2>2. CallOK' BY <1>0 DEF HostOK, CallOK, SelectedInv
  <2>3. CountersOK' BY <1>0 DEF CountersOK, TimeInv, CallOK
  <2>4. TimeInv' BY <1>0 DEF CountersOK, TimeInv, CallOK
  <2>5. SelectedInv' BY <1>0 DEF HostOK, CallOK, SelectedInv, Attempt
  <2>6. ResultInv'
    BY <1>0 DEF HostOK, CallOK, ResultInv, OkMeansJoined, SelectedInv, Attempt
  <2>7. HostInv'
    BY <1>0 DEF CallOK, HostInv, RolledBack, Attempt, SelectedInv, ResultInv,
         NoFiles, Files
  <2> QED BY <2>1, <2>2, <2>3, <2>4, <2>5, <2>6, <2>7 DEF JoinInv, TypeOK
<1>6. CASE IfupdownWrite
  <2> USE <1>6 DEF IfupdownWrite, Connecting, Files
  <2>1. HostOK' BY <1>0 DEF HostOK, CallOK, SelectedInv, Files
  <2>2. CallOK' BY <1>0 DEF HostOK, CallOK, SelectedInv
  <2>3. CountersOK' BY <1>0 DEF CountersOK, TimeInv, CallOK
  <2>4. TimeInv' BY <1>0 DEF CountersOK, TimeInv, CallOK
  <2>5. SelectedInv' BY <1>0 DEF HostOK, CallOK, SelectedInv, Attempt
  <2>6. ResultInv'
    BY <1>0 DEF HostOK, CallOK, ResultInv, OkMeansJoined, SelectedInv, Attempt
  <2>7. HostInv'
    BY <1>0 DEF CallOK, HostInv, RolledBack, Attempt, SelectedInv, ResultInv,
         NoFiles, Files
  <2> QED BY <2>1, <2>2, <2>3, <2>4, <2>5, <2>6, <2>7 DEF JoinInv, TypeOK
<1>7. CASE IfupdownRaise
  <2> USE <1>7 DEF IfupdownRaise, Files
  <2>1. HostOK' BY <1>0 DEF HostOK, CallOK, SelectedInv, Files
  <2>2. CallOK' BY <1>0 DEF HostOK, CallOK, SelectedInv
  <2>3. CountersOK' BY <1>0 DEF CountersOK, TimeInv, CallOK
  <2>4. TimeInv' BY <1>0 DEF CountersOK, TimeInv, CallOK
  <2>5. SelectedInv' BY <1>0 DEF HostOK, CallOK, SelectedInv, Attempt
  <2>6. ResultInv'
    BY <1>0 DEF HostOK, CallOK, ResultInv, OkMeansJoined, SelectedInv, Attempt
  <2>7. HostInv'
    BY <1>0 DEF CallOK, HostInv, RolledBack, Attempt, SelectedInv, ResultInv,
         NoFiles, Files
  <2> QED BY <2>1, <2>2, <2>3, <2>4, <2>5, <2>6, <2>7 DEF JoinInv, TypeOK
<1>8. CASE IfupdownHalfWritten
  <2> USE <1>8 DEF IfupdownHalfWritten, Return, Files
  <2>1. HostOK' BY <1>0 DEF HostOK, CallOK, SelectedInv, Files
  <2>2. CallOK' BY <1>0 DEF HostOK, CallOK, SelectedInv
  <2>3. CountersOK' BY <1>0 DEF CountersOK, TimeInv, CallOK
  <2>4. TimeInv' BY <1>0 DEF CountersOK, TimeInv, CallOK
  <2>5. SelectedInv' BY <1>0 DEF HostOK, CallOK, SelectedInv, Attempt
  <2>6. ResultInv'
    BY <1>0 DEF HostOK, CallOK, ResultInv, OkMeansJoined, SelectedInv, Attempt
  <2>7. HostInv'
    BY <1>0 DEF CallOK, HostInv, RolledBack, Attempt, SelectedInv, ResultInv,
         NoFiles, Files
  <2> QED BY <2>1, <2>2, <2>3, <2>4, <2>5, <2>6, <2>7 DEF JoinInv, TypeOK
<1>9. CASE PollAssoc
  <2> USE <1>9 DEF PollAssoc, AssocResult, Return
  <2>1. HostOK' BY <1>0 DEF HostOK, CallOK, SelectedInv, Files
  <2>2. CallOK' BY <1>0 DEF HostOK, CallOK, SelectedInv
  <2>3. CountersOK' BY <1>0 DEF CountersOK, TimeInv, CallOK
  <2>4. TimeInv' BY <1>0 DEF CountersOK, TimeInv, CallOK
  <2>5. SelectedInv' BY <1>0 DEF HostOK, CallOK, SelectedInv, Attempt
  <2>6. ResultInv'
    BY <1>0 DEF HostOK, CallOK, ResultInv, OkMeansJoined, SelectedInv, Attempt
  <2>7. HostInv'
    BY <1>0 DEF CallOK, HostInv, RolledBack, Attempt, SelectedInv, ResultInv,
         NoFiles, Files
  <2> QED BY <2>1, <2>2, <2>3, <2>4, <2>5, <2>6, <2>7 DEF JoinInv, TypeOK
<1>10. CASE PollSsid
  <2> USE <1>10 DEF PollSsid, AssocResult, Return
  <2>1. HostOK' BY <1>0 DEF HostOK, CallOK, SelectedInv, Files
  <2>2. CallOK' BY <1>0 DEF HostOK, CallOK, SelectedInv
  <2>3. CountersOK' BY <1>0 DEF CountersOK, TimeInv, CallOK
  <2>4. TimeInv' BY <1>0 DEF CountersOK, TimeInv, CallOK
  <2>5. SelectedInv' BY <1>0 DEF HostOK, CallOK, SelectedInv, Attempt
  <2>6. ResultInv'
    BY <1>0 DEF HostOK, CallOK, ResultInv, OkMeansJoined, SelectedInv, Attempt
  <2>7. HostInv'
    BY <1>0 DEF CallOK, HostInv, RolledBack, Attempt, SelectedInv, ResultInv,
         NoFiles, Files
  <2> QED BY <2>1, <2>2, <2>3, <2>4, <2>5, <2>6, <2>7 DEF JoinInv, TypeOK
<1>11. CASE AssocTimeout
  <2> USE <1>11 DEF AssocTimeout, AssocResult, Return
  <2>1. HostOK' BY <1>0 DEF HostOK, CallOK, SelectedInv, Files
  <2>2. CallOK' BY <1>0 DEF HostOK, CallOK, SelectedInv
  <2>3. CountersOK' BY <1>0 DEF CountersOK, TimeInv, CallOK
  <2>4. TimeInv' BY <1>0 DEF CountersOK, TimeInv, CallOK
  <2>5. SelectedInv' BY <1>0 DEF HostOK, CallOK, SelectedInv, Attempt
  <2>6. ResultInv'
    BY <1>0 DEF HostOK, CallOK, ResultInv, OkMeansJoined, SelectedInv, Attempt
  <2>7. HostInv'
    BY <1>0 DEF CallOK, HostInv, RolledBack, Attempt, SelectedInv, ResultInv,
         NoFiles, Files
  <2> QED BY <2>1, <2>2, <2>3, <2>4, <2>5, <2>6, <2>7 DEF JoinInv, TypeOK
<1>12. CASE PollDhcp
  <2> USE <1>12 DEF PollDhcp, Return, host
  <2>1. HostOK' BY <1>0 DEF HostOK, CallOK, SelectedInv, Files
  <2>2. CallOK' BY <1>0 DEF HostOK, CallOK, SelectedInv
  <2>3. CountersOK' BY <1>0 DEF CountersOK, TimeInv, CallOK
  <2>4. TimeInv' BY <1>0 DEF CountersOK, TimeInv, CallOK
  <2>5. SelectedInv' BY <1>0 DEF HostOK, CallOK, SelectedInv, Attempt
  <2>6. ResultInv'
    BY <1>0 DEF HostOK, CallOK, ResultInv, OkMeansJoined, SelectedInv, Attempt
  <2>7. HostInv'
    BY <1>0 DEF CallOK, HostInv, RolledBack, Attempt, SelectedInv, ResultInv,
         NoFiles, Files
  <2> QED BY <2>1, <2>2, <2>3, <2>4, <2>5, <2>6, <2>7 DEF JoinInv, TypeOK
<1>13. CASE DhcpTimeout
  <2> USE <1>13 DEF DhcpTimeout, Return, host
  <2>1. HostOK' BY <1>0 DEF HostOK, CallOK, SelectedInv, Files
  <2>2. CallOK' BY <1>0 DEF HostOK, CallOK, SelectedInv
  <2>3. CountersOK' BY <1>0 DEF CountersOK, TimeInv, CallOK
  <2>4. TimeInv' BY <1>0 DEF CountersOK, TimeInv, CallOK
  <2>5. SelectedInv' BY <1>0 DEF HostOK, CallOK, SelectedInv, Attempt
  <2>6. ResultInv'
    BY <1>0 DEF HostOK, CallOK, ResultInv, OkMeansJoined, SelectedInv, Attempt
  <2>7. HostInv'
    BY <1>0 DEF CallOK, HostInv, RolledBack, Attempt, SelectedInv, ResultInv,
         NoFiles, Files
  <2> QED BY <2>1, <2>2, <2>3, <2>4, <2>5, <2>6, <2>7 DEF JoinInv, TypeOK
<1>14. CASE SaveConfig
  <2> USE <1>14 DEF SaveConfig, Return
  <2>1. HostOK' BY <1>0 DEF HostOK, CallOK, SelectedInv, Files
  <2>2. CallOK' BY <1>0 DEF HostOK, CallOK, SelectedInv
  <2>3. CountersOK' BY <1>0 DEF CountersOK, TimeInv, CallOK
  <2>4. TimeInv' BY <1>0 DEF CountersOK, TimeInv, CallOK
  <2>5. SelectedInv' BY <1>0 DEF HostOK, CallOK, SelectedInv, Attempt
  <2>6. ResultInv'
    BY <1>0 DEF HostOK, CallOK, ResultInv, OkMeansJoined, SelectedInv, Attempt
  <2>7. HostInv'
    BY <1>0 DEF CallOK, HostInv, RolledBack, Attempt, SelectedInv, ResultInv,
         NoFiles, Files
  <2> QED BY <2>1, <2>2, <2>3, <2>4, <2>5, <2>6, <2>7 DEF JoinInv, TypeOK
<1>15. CASE Answer
  <2> USE <1>15 DEF Answer, host
  <2>1. HostOK' BY <1>0 DEF HostOK, CallOK, SelectedInv, Files
  <2>2. CallOK' BY <1>0 DEF HostOK, CallOK, SelectedInv
  <2>3. CountersOK' BY <1>0 DEF CountersOK, TimeInv, CallOK
  <2>4. TimeInv' BY <1>0 DEF CountersOK, TimeInv, CallOK
  <2>5. SelectedInv' BY <1>0 DEF HostOK, CallOK, SelectedInv, Attempt
  <2>6. ResultInv'
    BY <1>0 DEF HostOK, CallOK, ResultInv, OkMeansJoined, SelectedInv, Attempt
  <2>7. HostInv'
    BY <1>0 DEF CallOK, HostInv, RolledBack, Attempt, SelectedInv, ResultInv,
         NoFiles, Files
  <2> QED BY <2>1, <2>2, <2>3, <2>4, <2>5, <2>6, <2>7 DEF JoinInv, TypeOK
<1>16. CASE Rollback
  <2> USE <1>16 DEF Rollback, Files, NoFiles
  <2>1. HostOK' BY <1>0 DEF HostOK, CallOK, SelectedInv, Files
  <2>2. CallOK' BY <1>0 DEF HostOK, CallOK, SelectedInv
  <2>3. CountersOK' BY <1>0 DEF CountersOK, TimeInv, CallOK
  <2>4. TimeInv' BY <1>0 DEF CountersOK, TimeInv, CallOK
  <2>5. SelectedInv' BY <1>0 DEF HostOK, CallOK, SelectedInv, Attempt
  <2>6. ResultInv'
    BY <1>0 DEF HostOK, CallOK, ResultInv, OkMeansJoined, SelectedInv, Attempt
  <2>7. HostInv'
    BY <1>0 DEF CallOK, HostInv, RolledBack, Attempt, SelectedInv, ResultInv,
         NoFiles, Files
  <2> QED BY <2>1, <2>2, <2>3, <2>4, <2>5, <2>6, <2>7 DEF JoinInv, TypeOK
<1>17. CASE Roam
  <2> USE <1>17 DEF Roam
  <2>1. HostOK' BY <1>0 DEF HostOK, CallOK, SelectedInv, Files
  <2>2. CallOK' BY <1>0 DEF HostOK, CallOK, SelectedInv
  <2>3. CountersOK' BY <1>0 DEF CountersOK, TimeInv, CallOK
  <2>4. TimeInv' BY <1>0 DEF CountersOK, TimeInv, CallOK
  <2>5. SelectedInv' BY <1>0 DEF HostOK, CallOK, SelectedInv, Attempt
  <2>6. ResultInv'
    BY <1>0 DEF HostOK, CallOK, ResultInv, OkMeansJoined, SelectedInv, Attempt
  <2>7. HostInv'
    BY <1>0 DEF CallOK, HostInv, RolledBack, Attempt, SelectedInv, ResultInv,
         NoFiles, Files
  <2> QED BY <2>1, <2>2, <2>3, <2>4, <2>5, <2>6, <2>7 DEF JoinInv, TypeOK
<1>18. CASE Lease
  <2> USE <1>18 DEF Lease
  <2>1. HostOK' BY <1>0 DEF HostOK, CallOK, SelectedInv, Files
  <2>2. CallOK' BY <1>0 DEF HostOK, CallOK, SelectedInv
  <2>3. CountersOK' BY <1>0 DEF CountersOK, TimeInv, CallOK
  <2>4. TimeInv' BY <1>0 DEF CountersOK, TimeInv, CallOK
  <2>5. SelectedInv' BY <1>0 DEF HostOK, CallOK, SelectedInv, Attempt
  <2>6. ResultInv'
    BY <1>0 DEF HostOK, CallOK, ResultInv, OkMeansJoined, SelectedInv, Attempt
  <2>7. HostInv'
    BY <1>0 DEF CallOK, HostInv, RolledBack, Attempt, SelectedInv, ResultInv,
         NoFiles, Files
  <2> QED BY <2>1, <2>2, <2>3, <2>4, <2>5, <2>6, <2>7 DEF JoinInv, TypeOK
<1>19. CASE Crash
  <2> USE <1>19 DEF Crash, host
  <2>1. HostOK' BY <1>0 DEF HostOK, CallOK, SelectedInv, Files
  <2>2. CallOK' BY <1>0 DEF HostOK, CallOK, SelectedInv
  <2>3. CountersOK' BY <1>0 DEF CountersOK, TimeInv, CallOK
  <2>4. TimeInv' BY <1>0 DEF CountersOK, TimeInv, CallOK
  <2>5. SelectedInv' BY <1>0 DEF HostOK, CallOK, SelectedInv, Attempt
  <2>6. ResultInv'
    BY <1>0 DEF HostOK, CallOK, ResultInv, OkMeansJoined, SelectedInv, Attempt
  <2>7. HostInv'
    BY <1>0 DEF CallOK, HostInv, RolledBack, Attempt, SelectedInv, ResultInv,
         NoFiles, Files
  <2> QED BY <2>1, <2>2, <2>3, <2>4, <2>5, <2>6, <2>7 DEF JoinInv, TypeOK
<1>20. CASE UNCHANGED vars
  <2> USE <1>20 DEF vars, host
  <2>1. HostOK' BY <1>0 DEF HostOK, CallOK, SelectedInv, Files
  <2>2. CallOK' BY <1>0 DEF HostOK, CallOK, SelectedInv
  <2>3. CountersOK' BY <1>0 DEF CountersOK, TimeInv, CallOK
  <2>4. TimeInv' BY <1>0 DEF CountersOK, TimeInv, CallOK
  <2>5. SelectedInv' BY <1>0 DEF HostOK, CallOK, SelectedInv, Attempt
  <2>6. ResultInv'
    BY <1>0 DEF HostOK, CallOK, ResultInv, OkMeansJoined, SelectedInv, Attempt
  <2>7. HostInv'
    BY <1>0 DEF CallOK, HostInv, RolledBack, Attempt, SelectedInv, ResultInv,
         NoFiles, Files
  <2> QED BY <2>1, <2>2, <2>3, <2>4, <2>5, <2>6, <2>7 DEF JoinInv, TypeOK
<1> QED
  BY <1>1, <1>2, <1>3, <1>4, <1>5, <1>6, <1>7, <1>8, <1>9, <1>10,
     <1>11, <1>12, <1>13, <1>14, <1>15, <1>16, <1>17, <1>18, <1>19, <1>20
  DEF Next, Handle, Radio

-----------------------------------------------------------------------------
\* Whatever the radio does, every variable keeps its type, and no request
\* takes longer than its waits (daemon/wfr_network.c).
THEOREM JoinTypeCorrect == Spec => []TypeOK
<1>1. JoinInv => TypeOK BY DEF JoinInv
<1> QED BY <1>1, JoinInit, JoinStep, PTL DEF Spec

\* With a wpa_cli that works, handle_credentials takes a join for successful
\* only if the radio was on the requested network after it was selected.
THEOREM SuccessIsReal == ASSUME WpaCliWorks PROVE Spec => []OkMeansJoined
<1>1. JoinInv => OkMeansJoined BY DEF JoinInv, ResultInv
<1> QED BY <1>1, JoinInit, JoinStep, PTL DEF Spec

\* A failed request with a network to go back to leaves the host's own
\* networks free to be joined, and none of infrafid's files.
THEOREM RollbackCorrect == Spec => []RollbackRestores
<1>1. JoinInv => RollbackRestores
  BY DEF JoinInv, HostInv, RollbackRestores, RolledBack
<1> QED BY <1>1, JoinInit, JoinStep, PTL DEF Spec

\* infrafid's two ifupdown files are of one network, except where a request
\* failed half-way and there was nothing to go back to.
THEOREM FilesCorrect == Spec => []FilesPaired
<1>1. JoinInv => FilesPaired
  BY DEF JoinInv, HostInv, FilesPaired, RolledBack, NoFiles
<1> QED BY <1>1, JoinInit, JoinStep, PTL DEF Spec

\* Only NmConnect and SaveConfig write the host's configuration: the one
\* joins the network it adds, the other follows a lease on the network that
\* is selected (save_config in daemon/wfr_network.c).
LEMMA PersistStep ==
  JoinInv /\ [Next]_vars => [conf' \subseteq conf \cup joined']_vars
<1> SUFFICES ASSUME JoinInv, [Next]_vars PROVE conf' \subseteq conf \cup joined'
  OBVIOUS
<1>1. CASE NmConnect BY <1>1 DEF NmConnect
<1>2. CASE SaveConfig
  <2>1. pc = "save" /\ conf' \in {conf, allowed} /\ joined' = joined
    BY <1>2 DEF SaveConfig
  <2>2. allowed = {target} /\ target \in joined
    BY <2>1 DEF JoinInv, SelectedInv, Attempt
  <2> QED BY <2>1, <2>2
<1>3. CASE UNCHANGED conf BY <1>3
<1>4. NmConnect \/ SaveConfig \/ UNCHANGED conf
  BY DEF Next, Handle, Radio, Receive, GetCurrent, ConnectFails, NetworkdSelect,
         IfupdownWrite, IfupdownRaise, IfupdownHalfWritten, PollAssoc, PollSsid,
         AssocTimeout, PollDhcp, DhcpTimeout, Answer, Rollback, Roam, Lease, Crash, host, vars
<1> QED BY <1>1, <1>2, <1>3, <1>4

\* What outlives a restart of the host only ever gains networks that the radio
\* was on.
THEOREM PersistedCorrect == Spec => PersistedWasJoined
BY JoinInit, JoinStep, PersistStep, PTL DEF Spec, PersistedWasJoined
=============================================================================
