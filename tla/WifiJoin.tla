------------------------------ MODULE WifiJoin ------------------------------
(***************************************************************************)
(* handle_credentials of infrafid (daemon/main.c): remember the current    *)
(* network, join the new one with whatever manages the host's WiFi         *)
(* (daemon/wfr_network.c), answer over infrared (daemon/wfr_ack.c), and go *)
(* back to the old network if the join failed.                             *)
(*                                                                         *)
(* The radio is on its own: between two commands of the daemon it may gain *)
(* or lose a network or an address.  The daemon sees it only through the   *)
(* commands it runs, one action each, and sleeps between two polls.        *)
(***************************************************************************)
EXTENDS Naturals, FiniteSets

CONSTANTS
  Ssids,         \* networks in range or not
  None,          \* no network
  Managers,      \* what may manage the WiFi: "nm", "networkd", "ifupdown"
  WpaCliWorks,   \* wpa_cli is there and reaches wpa_supplicant
  AssocWait,     \* seconds to wait for an association: 20
  AuthGrace,     \* seconds in which "DISCONNECTED" is not final: 6
  DhcpWait,      \* seconds to wait for an address: 15
  MaxRequests,   \* bound: credentials received
  MaxCrashes     \* bound: deaths of the daemon

ASSUME JoinAssumption ==
  /\ None \notin Ssids /\ Managers \subseteq {"nm", "networkd", "ifupdown"}
  /\ WpaCliWorks \in BOOLEAN
  /\ {AssocWait, AuthGrace, DhcpWait, MaxRequests, MaxCrashes} \subseteq Nat

VARIABLES
  \* the host
  manager,
  assoc,     \* the network of the radio, or None
  ip,        \* its address: "none", "linklocal" or "global"
  allowed,   \* networks that the supplicant or NetworkManager may join
  conf,      \* networks of the host's own configuration, which outlive it
  files,     \* infrafid's two ifupdown files: the network of each, or None
  \* handle_credentials
  pc, target, prev,
  connected,  \* what wfr_net_connect returned
  elapsed,    \* of the wait loop that is running
  \* history and bounds
  joined,     \* networks the radio was on since the new one was selected
  seconds,    \* slept since the credentials arrived
  answer,     \* what was sent back
  requests, crashes

host == <<manager, assoc, ip, allowed, conf, files>>
vars == <<host, pc, target, prev, connected, elapsed,
          joined, seconds, answer, requests, crashes>>

Files == [wpa : Ssids \cup {None}, interfaces : Ssids \cup {None}]
NoFiles == [wpa |-> None, interfaces |-> None]

Init ==
  /\ manager \in Managers
  /\ conf \in SUBSET Ssids /\ (manager = "ifupdown" => Cardinality(conf) \leq 1)
  /\ allowed = conf /\ assoc = None /\ ip = "none" /\ files = NoFiles
  /\ pc = "idle" /\ target = None /\ prev = None /\ connected = FALSE
  /\ elapsed = 0 /\ joined = {} /\ seconds = 0 /\ answer = "none"
  /\ requests = 0 /\ crashes = 0

-----------------------------------------------------------------------------
(* The radio, NetworkManager and wpa_supplicant.                           *)

\* The network is lost, or one of the allowed is joined.
Roam ==
  /\ assoc' \in allowed \cup {None} /\ assoc' # assoc
  /\ joined' = joined \cup ({assoc'} \ {None})
  /\ ip' = "none"
  /\ UNCHANGED <<manager, allowed, conf, files, pc, target, prev, connected,
                 elapsed, seconds, answer, requests, crashes>>

\* DHCP answers, or the host gives itself an address.
Lease ==
  /\ assoc # None /\ ip' \in {"linklocal", "global"} /\ ip' # ip
  /\ UNCHANGED <<manager, assoc, allowed, conf, files, pc, target, prev, connected,
                 elapsed, joined, seconds, answer, requests, crashes>>

-----------------------------------------------------------------------------
(* handle_credentials, one action per command that it waits for.           *)

\* Mutant of Receive: the time of the request before counts too.
ReceiveKeepsClock(ssid) ==
  /\ pc = "idle" /\ requests < MaxRequests
  /\ pc' = "current" /\ target' = ssid /\ requests' = requests + 1
  /\ prev' = None /\ connected' = FALSE /\ answer' = "none"
  /\ UNCHANGED <<host, elapsed, joined, seconds, crashes>>

\* A payload that does not parse is dropped without an answer; of one that
\* does, target is the network.
Receive(ssid) ==
  /\ pc = "idle" /\ requests < MaxRequests
  /\ pc' = "current" /\ target' = ssid /\ requests' = requests + 1
  /\ prev' = None /\ connected' = FALSE /\ seconds' = 0 /\ answer' = "none"
  /\ UNCHANGED <<host, elapsed, joined, crashes>>

\* wfr_net_get_current, which may find nothing.
GetCurrent ==
  /\ pc = "current" /\ pc' = "connect"
  /\ prev' \in IF manager = "nm" \/ WpaCliWorks THEN {assoc, None} ELSE {None}
  /\ UNCHANGED <<host, target, connected, elapsed, joined, seconds, answer,
                 requests, crashes>>

Connecting(m) == pc = "connect" /\ manager = m

\* The end of wfr_net_connect.
Return(result) == connected' = result /\ pc' = "answer"

\* No WiFi interface, no room to escape a string, a file that cannot be
\* written, a wpa_cli or nmcli command that fails: the first command to fail
\* ends the attempt.  NetworkManager may have dropped the old network by then.
ConnectFails ==
  /\ pc = "connect" /\ Return(FALSE)
  /\ IF manager = "nm" THEN assoc' \in {assoc, None} ELSE UNCHANGED assoc
  /\ ip' = IF assoc' = assoc THEN ip ELSE "none"
  /\ UNCHANGED <<manager, allowed, conf, files, target, prev, elapsed, joined,
                 seconds, answer, requests, crashes>>

\* nmcli dev wifi connect succeeds: NetworkManager joined the network and
\* made a profile of it.  Whether the internet is reached is only logged.
NmConnect ==
  /\ Connecting("nm") /\ Return(TRUE)
  /\ assoc' = target /\ ip' \in {"none", "linklocal", "global"}
  /\ conf' = conf \cup {target} /\ allowed' = conf' /\ joined' = {target}
  /\ seconds' = seconds + 3
  /\ UNCHANGED <<manager, files, target, prev, elapsed, answer,
                 requests, crashes>>

\* A new network is added, described and selected, the others thereby
\* disabled.  The radio may be on the old one a little longer.
NetworkdSelect ==
  /\ Connecting("networkd") /\ WpaCliWorks
  /\ pc' = "assoc" /\ elapsed' = 0
  /\ allowed' = {target} /\ joined' = {assoc} \ {None}
  /\ UNCHANGED <<manager, assoc, ip, conf, files, target, prev, connected,
                 seconds, answer, requests, crashes>>

\* infrafid's wpa_supplicant file for the interface is written.
IfupdownWrite ==
  /\ Connecting("ifupdown") /\ pc' = "written"
  /\ files' = [files EXCEPT !.wpa = target]
  /\ UNCHANGED <<manager, assoc, ip, allowed, conf, target, prev, connected,
                 elapsed, joined, seconds, answer, requests, crashes>>

\* Mutant of IfupdownRaise: the interfaces file is left as it was.
RaiseOneFile ==
  /\ pc = "written" /\ pc' = "assoc" /\ elapsed' = 0
  /\ files' = files
  /\ allowed' = IF WpaCliWorks \/ allowed = {} THEN {target} ELSE allowed
  /\ assoc' = None /\ ip' = "none" /\ joined' = {}
  /\ seconds' = seconds + 1
  /\ UNCHANGED <<manager, conf, target, prev, connected, answer,
                 requests, crashes>>

\* The interfaces file, which names the first, is written too, the running
\* wpa_supplicant is told to end - which needs wpa_cli - and the interface is
\* taken down and up.
IfupdownRaise ==
  /\ pc = "written" /\ pc' = "assoc" /\ elapsed' = 0
  /\ files' = [files EXCEPT !.interfaces = target]
  /\ allowed' = IF WpaCliWorks \/ allowed = {} THEN {target} ELSE allowed
  /\ assoc' = None /\ ip' = "none" /\ joined' = {}
  /\ seconds' = seconds + 1
  /\ UNCHANGED <<manager, conf, target, prev, connected, answer,
                 requests, crashes>>

\* The interfaces file cannot be written: the first is removed again.
IfupdownHalfWritten ==
  /\ pc = "written" /\ Return(FALSE)
  /\ files' = [files EXCEPT !.wpa = None]
  /\ UNCHANGED <<manager, assoc, ip, allowed, conf, target, prev, elapsed,
                 joined, seconds, answer, requests, crashes>>

\* Mutant of AssocResult: an association not seen is taken for one.
UnknownAccepted(r) ==
  IF r = "failed" \/ FALSE
  THEN Return(FALSE) /\ UNCHANGED <<ip, elapsed>>
  ELSE /\ pc' = "dhcp" /\ elapsed' = 0
       /\ ip' = IF manager = "networkd" THEN "none" ELSE ip
       /\ UNCHANGED connected

\* What wait_for_wpa_association does with a result: an authentication failure
\* ends the attempt; for networkd so does an association not seen, which the
\* path of ifupdown takes to DHCP.  networkd then renews the lease by hand.
AssocResult(r) ==
  IF r = "failed" \/ (r = "unknown" /\ manager = "networkd")
  THEN Return(FALSE) /\ UNCHANGED <<ip, elapsed>>
  ELSE /\ pc' = "dhcp" /\ elapsed' = 0
       /\ ip' = IF manager = "networkd" THEN "none" ELSE ip
       /\ UNCHANGED connected

\* One pass of the loop of wait_for_wpa_association, up to wpa_cli's state.
PollAssoc ==
  /\ pc = "assoc" /\ elapsed < AssocWait
  /\ seconds' = seconds + 2
  /\ \/ AssocResult("unknown")              \* no state: no wpa_supplicant
     \/ /\ WpaCliWorks /\ assoc # None        \* COMPLETED
        /\ pc' = "ssid" /\ UNCHANGED <<connected, elapsed, ip>>
     \/ /\ WpaCliWorks /\ assoc = None        \* still working on it
        /\ elapsed' = elapsed + 2 /\ UNCHANGED <<pc, connected, ip>>
     \/ /\ WpaCliWorks /\ assoc = None        \* DISCONNECTED, too late
        /\ elapsed > AuthGrace /\ AssocResult("failed")
  /\ UNCHANGED <<manager, assoc, allowed, conf, files, target, prev, joined,
                 answer, requests, crashes>>

\* Mutant of PollSsid: whatever network is associated counts.
SsidUnchecked ==
  /\ pc = "ssid"
  /\ AssocResult("completed")
  /\ UNCHANGED <<manager, assoc, allowed, conf, files, target, prev, joined,
                 seconds, answer, requests, crashes>>

\* "COMPLETED": a second command asks for the network.  If there is none any
\* more, the first answer counts.
PollSsid ==
  /\ pc = "ssid"
  /\ AssocResult(IF assoc \in {target, None} THEN "completed" ELSE "failed")
  /\ UNCHANGED <<manager, assoc, allowed, conf, files, target, prev, joined,
                 seconds, answer, requests, crashes>>

\* Mutant of AssocTimeout: the wait ends one second late.
TimeoutOffByOne ==
  /\ pc = "assoc" /\ elapsed > AssocWait
  /\ AssocResult("unknown")
  /\ UNCHANGED <<manager, assoc, allowed, conf, files, target, prev, joined,
                 seconds, answer, requests, crashes>>

AssocTimeout ==
  /\ pc = "assoc" /\ elapsed \geq AssocWait
  /\ AssocResult("unknown")
  /\ UNCHANGED <<manager, assoc, allowed, conf, files, target, prev, joined,
                 seconds, answer, requests, crashes>>

\* One pass of the loop of wait_for_dhcp.
PollDhcp ==
  /\ pc = "dhcp" /\ elapsed < DhcpWait
  /\ seconds' = seconds + 2
  /\ IF ip = "global"
     THEN IF manager = "networkd" THEN pc' = "save" /\ UNCHANGED <<connected, elapsed>>
                                  ELSE Return(TRUE) /\ UNCHANGED elapsed
     ELSE elapsed' = elapsed + 2 /\ UNCHANGED <<pc, connected>>
  /\ UNCHANGED <<host, target, prev, joined, answer, requests, crashes>>

DhcpTimeout ==
  /\ pc = "dhcp" /\ elapsed \geq DhcpWait
  /\ Return(FALSE)
  /\ UNCHANGED <<host, target, prev, elapsed, joined, seconds, answer,
                 requests, crashes>>

\* save_config: the selected network is kept, the disabled ones stay disabled.
\* A failure is only logged.
SaveConfig ==
  /\ pc = "save" /\ Return(TRUE)
  /\ conf' \in {conf, allowed}
  /\ UNCHANGED <<manager, assoc, ip, allowed, files, target, prev, elapsed,
                 joined, seconds, answer, requests, crashes>>

\* send_ack: with an address the answer is OK, without one FAIL.  A host that
\* cannot transmit sends nothing.
Answer ==
  /\ pc = "answer"
  /\ \/ answer' = IF connected /\ ip # "none" THEN "OK" ELSE "FAIL"
     \/ UNCHANGED answer
  /\ seconds' = seconds + 1
  /\ pc' = IF ~connected /\ prev # None THEN "rollback" ELSE "idle"
  /\ UNCHANGED <<host, target, prev, connected, elapsed, joined, requests, crashes>>

\* Mutant of Rollback: the networks of the host stay disabled.
RollbackDisabled ==
  /\ pc = "rollback" /\ pc' = "idle"
  /\ \/ /\ manager = "nm" /\ assoc' \in {assoc, prev}
        /\ ip' = IF assoc' = assoc THEN ip ELSE "none"
        /\ UNCHANGED <<allowed, files>>
     \/ /\ manager = "networkd"
        /\ allowed' = allowed
        /\ UNCHANGED <<assoc, ip, files>>
     \/ /\ manager = "ifupdown"
        /\ files' = NoFiles /\ assoc' = None /\ ip' = "none"
        /\ allowed' = IF WpaCliWorks THEN conf ELSE allowed
  /\ joined' = joined \cup ({assoc'} \ {None})
  /\ UNCHANGED <<manager, conf, target, prev, connected, elapsed, seconds,
                 answer, requests, crashes>>

\* wfr_net_rollback.  nmcli con up may fail; the other ways only make the
\* host's own configuration current again.  The interface is still there, and a
\* wpa_cli that works does not fail to reconfigure: assumptions of the model.
Rollback ==
  /\ pc = "rollback" /\ pc' = "idle"
  /\ \/ /\ manager = "nm" /\ assoc' \in {assoc, prev}
        /\ ip' = IF assoc' = assoc THEN ip ELSE "none"
        /\ UNCHANGED <<allowed, files>>
     \/ /\ manager = "networkd"
        /\ allowed' = IF WpaCliWorks THEN conf ELSE allowed
        /\ UNCHANGED <<assoc, ip, files>>
     \/ /\ manager = "ifupdown"
        /\ files' = NoFiles /\ assoc' = None /\ ip' = "none"
        /\ allowed' = IF WpaCliWorks THEN conf ELSE allowed
  /\ joined' = joined \cup ({assoc'} \ {None})
  /\ UNCHANGED <<manager, conf, target, prev, connected, elapsed, seconds,
                 answer, requests, crashes>>

\* The daemon dies at any point; systemd starts it again, with nothing kept.
Crash ==
  /\ pc # "idle" /\ crashes < MaxCrashes
  /\ crashes' = crashes + 1
  /\ pc' = "idle" /\ prev' = None /\ connected' = FALSE /\ target' = None
  /\ UNCHANGED <<host, elapsed, joined, seconds, answer, requests>>

Handle == GetCurrent \/ ConnectFails \/ NmConnect \/ NetworkdSelect
          \/ IfupdownWrite \/ IfupdownRaise \/ IfupdownHalfWritten
          \/ PollAssoc \/ PollSsid \/ AssocTimeout \/ PollDhcp \/ DhcpTimeout
          \/ SaveConfig \/ Answer \/ Rollback

Radio == Roam \/ Lease

Next == Handle \/ Radio \/ Crash \/ \E ssid \in Ssids : Receive(ssid)

Spec == Init /\ [][Next]_vars

\* The commands return and the sleeps end.  The radio promises nothing.
FairSpec == Spec /\ WF_vars(Handle)

-----------------------------------------------------------------------------
\* Every variable has its type, and a request takes the time of its two waits
\* and a few seconds at most.
HostOK ==
  /\ manager \in Managers /\ assoc \in Ssids \cup {None}
  /\ ip \in {"none", "linklocal", "global"} /\ (assoc = None => ip = "none")
  /\ allowed \subseteq Ssids /\ conf \subseteq Ssids /\ files \in Files

CallOK ==
  /\ pc \in {"idle", "current", "connect", "written", "assoc", "ssid", "dhcp",
             "save", "answer", "rollback"}
  /\ target \in Ssids \cup {None} /\ prev \in Ssids \cup {None}
  /\ connected \in BOOLEAN /\ joined \subseteq Ssids
  /\ answer \in {"none", "OK", "FAIL"}

CountersOK ==
  /\ elapsed \in 0 .. AssocWait + 1 \cup 0 .. DhcpWait + 1
  /\ seconds \in 0 .. AssocWait + DhcpWait + 5
  /\ requests \in 0 .. MaxRequests /\ crashes \in 0 .. MaxCrashes

TypeOK == HostOK /\ CallOK /\ CountersOK

\* A join is reported as successful only if the radio was on the requested
\* network after it was selected - not because wpa_supplicant was still on the
\* old one, nor because the association came and went between two commands.
OkMeansJoined == connected => target \in joined

\* The last request came to its end, failed, and had a network to go back to.
RolledBack == pc = "idle" /\ target # None /\ ~connected /\ prev # None

\* A failed request leaves the host free to join all the networks of its own
\* configuration, as before, and leaves none of infrafid's files behind.
RollbackRestores ==
  RolledBack => /\ conf \subseteq allowed
                /\ manager = "ifupdown" => files = NoFiles

\* infrafid's interfaces file never names a wpa_supplicant file that is not
\* there, except where a request failed half-way with no network to return to.
FilesPaired ==
  pc = "idle" /\ target # None /\ (connected \/ prev # None)
    => files.interfaces = files.wpa

\* What outlives a restart of the host is changed only in favour of a network
\* that the radio was on in this request.
PersistedWasJoined == [][conf' \subseteq conf \cup joined']_vars

\* Why these hold: an invariant that every step preserves.
Attempt == {"assoc", "ssid", "dhcp", "save"}

\* The time slept, by how far the request has come.
TimeInv ==
  /\ pc \in {"current", "connect", "written"} => seconds = 0
  /\ pc = "assoc" => seconds \leq elapsed + 1 /\ elapsed \leq AssocWait + 1
  /\ pc = "ssid" => seconds \leq AssocWait + 2
  /\ pc = "dhcp" => seconds \leq AssocWait + 2 + elapsed /\ elapsed \leq DhcpWait + 1
  /\ pc = "save" => seconds \leq AssocWait + DhcpWait + 3
  /\ pc = "answer" => seconds \leq AssocWait + DhcpWait + 4

\* From its selection on the new network is the only one that can be joined.
\* The radio may still be on another while wpa_supplicant is asked, of
\* networkd's hosts, and is no more when DHCP is waited for.
SelectedInv ==
  /\ pc # "idle" => target \in Ssids
  /\ pc = "written" => manager = "ifupdown" /\ files.wpa = target
  /\ pc = "save" => manager = "networkd" /\ target \in joined
  /\ pc \in Attempt =>
       /\ manager = "ifupdown" \/ (manager = "networkd" /\ WpaCliWorks)
       /\ WpaCliWorks =>
            /\ allowed = {target} /\ (assoc # None => assoc \in joined)
            /\ manager = "ifupdown" \/ pc \in {"dhcp", "save"} =>
                 assoc \in {target, None}

\* What the request has come to, and what there is to go back to.
ResultInv ==
  /\ pc \notin {"idle", "answer"} => ~connected
  /\ pc = "rollback" => prev # None
  /\ prev # None => manager = "nm" \/ WpaCliWorks
  /\ WpaCliWorks => OkMeansJoined

\* What infrafid has changed on the host.
HostInv ==
  /\ manager # "ifupdown" => files = NoFiles
  /\ pc \in Attempt \/ connected => files.interfaces = files.wpa
  /\ RolledBack => files = NoFiles /\ conf \subseteq allowed
  /\ manager = "nm" => conf \subseteq allowed

\* handle_credentials, between any two commands: the four parts above, which
\* together say why a lease is evidence of the new network and why nothing of a
\* failed request stays behind.
JoinInv == TypeOK /\ TimeInv /\ SelectedInv /\ ResultInv /\ HostInv

\* Every request comes to its end, whatever the radio does.
HandlingEnds == (pc # "idle") ~> (pc = "idle")

\* The README's promise: the host reconnects to the previous network.
PreviousRestored == RolledBack => prev \in allowed
=============================================================================
