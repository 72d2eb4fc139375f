---------------------------- MODULE ManagedMihomo ----------------------------
(***************************************************************************)
(* The supervisor of subscription mode (runManagedMihomo and what it calls *)
(* in cmd/proxy-pools/main.go): it merges the subscriptions, writes the    *)
(* files that pp and Mihomo read, starts Mihomo on them, and replaces it   *)
(* when a tick or a SIGHUP finds the subscriptions changed.  Around it are *)
(* the Mihomo process, systemd, and the pp command that resets passwords.  *)
(*                                                                         *)
(* A subscription stands for its nodes and their ports, which module       *)
(* ListenerPorts has in full, and a password for the credentials of one    *)
(* node that all subscriptions have.  listeners.tsv and proxies.json, two  *)
(* views of the same data written one after the other, are one file here.  *)
(***************************************************************************)
EXTENDS Integers, FiniteSets

CONSTANTS
  Subscriptions,
  Passwords,
  Nothing         \* no subscription, no password, no file, no process

ASSUME ManagedAssumption ==
  /\ Nothing \notin Subscriptions \cup Passwords
  /\ Subscriptions # {}
  /\ \A p \in Passwords : Passwords # {p}

VARIABLES
  pc,            \* supervisor: off boot ports auth save publish config launch ready
                 \*             select fetch stop return
  subscription,  \* the merged subscription in effect
  target,        \* the one being taken over
  auth,          \* authByName, while Mihomo is being started
  cmd,           \* the process runManagedMihomo believes is running
  refreshSignal, \* the channel SIGHUP is delivered to holds a value
  ticked,        \* so does the ticker's
  stopping,      \* SIGTERM has arrived: ctx is done
  mihomo,        \* mihomo[p]: the configuration a process runs, or Nothing
  upstream,      \* what the subscription URLs answer, merged
  disk,          \* contents of the files
  reset,         \* pp reset-auth: none, truncated, restarting
  asked,         \* history: a SIGHUP has come and no fetch has begun since
  served,        \* history: the password of the last Mihomo that became ready
  lost,          \* history: pp reset-auth or a write that did not end took it from auth.tsv
  revoked        \* history: the password in auth.tsv when pp reset-auth emptied it

memory         == <<subscription, target, auth, cmd>>
supervisorVars == <<pc, memory>>
signalVars     == <<refreshSignal, ticked, stopping, asked>>
authHistory    == <<served, lost, revoked>>
worldVars      == <<upstream, disk, reset, authHistory>>
vars == <<supervisorVars, signalVars, mihomo, worldVars>>

\* The deferred stopManagedMihomo keeps the process of the first start; all later
\* ones are waited for before the next, and one name is enough for them.
Processes == {"first", "later"}

Configurations == [sub : Subscriptions, password : Passwords]

NoMihomo == [p \in Processes |-> Nothing]

NoFiles == [ports |-> Nothing, auth |-> Nothing, list |-> Nothing, config |-> Nothing]

Init ==
  /\ pc = "off" /\ subscription = Nothing /\ target = Nothing /\ auth = Nothing
  /\ cmd = "first"
  /\ refreshSignal = FALSE /\ ticked = FALSE /\ stopping = FALSE /\ asked = FALSE
  /\ mihomo = NoMihomo
  /\ upstream \in Subscriptions
  /\ disk = NoFiles
  /\ reset = "none"
  /\ served = Nothing /\ lost = FALSE /\ revoked = Nothing

-----------------------------------------------------------------------------
\* systemd starts the service once nothing of its last run is left.
Boot ==
  /\ pc = "off" /\ mihomo = NoMihomo
  /\ pc' = "boot"
  /\ UNCHANGED <<memory, signalVars, mihomo, worldVars>>

\* The program ends, and what it had in memory is gone.
Exit ==
  /\ pc' = "off" /\ subscription' = Nothing /\ target' = Nothing /\ auth' = Nothing
  /\ cmd' = "first"
  /\ refreshSignal' = FALSE /\ ticked' = FALSE /\ stopping' = FALSE /\ asked' = FALSE

\* The subscriptions are fetched and merged, and the nodes have their ports.
FirstFetch ==
  /\ pc = "boot"
  /\ pc' = "ports" /\ target' = upstream
  /\ UNCHANGED <<subscription, auth, cmd, signalVars, mihomo, worldVars>>

\* An error before the deferred stop is in place: the program exits.
BootFails ==
  /\ pc = "boot" /\ Exit
  /\ UNCHANGED <<mihomo, worldVars>>

-----------------------------------------------------------------------------
\* startManagedMihomo, a file at a time.
WritePorts ==
  /\ pc = "ports" /\ pc' = "auth"
  /\ disk' = [disk EXCEPT !.ports = target]
  /\ UNCHANGED <<memory, signalVars, mihomo, upstream, reset, authHistory>>

\* A random password may be any but the one whose return would matter.
Fresh == Passwords \ {revoked}

\* Mutant of ReadAuth: the file is not looked at.
ReadAuthNot ==
  /\ pc = "auth" /\ pc' = "save"
  /\ auth' \in Fresh
  /\ UNCHANGED <<subscription, target, cmd, signalVars, mihomo, worldVars>>

\* loadListenerAuth: nodes that auth.tsv does not have get new credentials.
ReadAuth ==
  /\ pc = "auth" /\ pc' = "save"
  /\ IF disk.auth # Nothing THEN auth' = disk.auth ELSE auth' \in Fresh
  /\ UNCHANGED <<subscription, target, cmd, signalVars, mihomo, worldVars>>

\* Mutant of WriteAuth: new credentials are not saved.
WriteAuthNot ==
  /\ pc = "save" /\ pc' = "publish"
  /\ UNCHANGED <<memory, signalVars, mihomo, worldVars>>

\* The same function rewrites the file.
WriteAuth ==
  /\ pc = "save" /\ pc' = "publish"
  /\ disk' = [disk EXCEPT !.auth = auth]
  /\ UNCHANGED <<memory, signalVars, mihomo, upstream, reset, authHistory>>

Planned == [sub |-> target, password |-> auth]

\* listeners.tsv and proxies.json, for the users.
WriteList ==
  /\ pc = "publish" /\ pc' = "config"
  /\ disk' = [disk EXCEPT !.list = Planned]
  /\ UNCHANGED <<memory, signalVars, mihomo, upstream, reset, authHistory>>

\* config.yaml, for Mihomo.
WriteConfig ==
  /\ pc = "config" /\ pc' = "launch"
  /\ disk' = [disk EXCEPT !.config = Planned]
  /\ UNCHANGED <<memory, signalVars, mihomo, upstream, reset, authHistory>>

Launch ==
  /\ pc = "launch" /\ pc' = "ready"
  /\ cmd' = IF subscription = Nothing THEN "first" ELSE "later"
  /\ mihomo' = [mihomo EXCEPT ![cmd'] = disk.config]
  /\ UNCHANGED <<subscription, target, auth, signalVars, worldVars>>

Starting == pc \in {"ports", "auth", "save", "publish", "config", "launch"}

\* An error of startManagedMihomo ends runManagedMihomo, and the deferred stop runs if
\* it is in place.
Fail ==
  IF subscription = Nothing THEN Exit
  ELSE pc' = "return" /\ UNCHANGED <<memory, signalVars>>

\* os.WriteFile empties a file before it writes.  What a crash, or a write that fails,
\* leaves of the file: a node's line may be gone, or end in half a password.
Torn ==
  CASE pc = "ports"   -> {[disk EXCEPT !.ports = Nothing]}
    [] pc = "save"    -> {[disk EXCEPT !.auth = half] : half \in {Nothing} \cup Fresh}
    [] pc = "publish" -> {[disk EXCEPT !.list = Nothing]}
    [] pc = "config"  -> {[disk EXCEPT !.config = Nothing]}
    [] OTHER          -> {}

DiskMayTear ==
  /\ disk' \in {disk} \cup Torn
  /\ lost' = (lost \/ disk'.auth # disk.auth)

\* A file cannot be read, opened or written to its end, or Mihomo cannot be started.
StartFails ==
  /\ Starting /\ Fail
  /\ DiskMayTear
  /\ UNCHANGED <<mihomo, upstream, reset, served, revoked>>

\* The controller answers WaitReady, and the subscription is taken over.
Ready ==
  /\ pc = "ready" /\ mihomo[cmd] # Nothing /\ ~stopping
  /\ pc' = "select" /\ subscription' = target /\ auth' = Nothing
  /\ served' = mihomo[cmd].password
  /\ lost' = (disk.auth # mihomo[cmd].password)
  /\ IF reset = "restarting" THEN reset' = "none" /\ revoked' = Nothing ELSE UNCHANGED <<reset, revoked>>
  /\ UNCHANGED <<target, cmd, signalVars, mihomo, upstream, disk>>

\* Mutant of NotReady: Mihomo is left running.
NotReadyLeavesIt ==
  /\ pc = "ready" /\ Fail
  /\ UNCHANGED <<mihomo, worldVars>>

\* Nobody answers for 30 seconds, or ctx is done: Mihomo is stopped.
NotReady ==
  /\ pc = "ready" /\ Fail
  /\ mihomo' = [mihomo EXCEPT ![cmd] = Nothing]
  /\ UNCHANGED <<worldVars>>

-----------------------------------------------------------------------------
\* Mutant of SelectStop: ctx is looked at only when there is nothing else to do.
SelectStopLast ==
  /\ pc = "select" /\ stopping /\ ~refreshSignal /\ ~ticked
  /\ pc' = "return"
  /\ UNCHANGED <<memory, signalVars, mihomo, worldVars>>

\* The select of the supervisor's loop, which may take any case that is ready.
SelectStop ==
  /\ pc = "select" /\ stopping
  /\ pc' = "return"
  /\ UNCHANGED <<memory, signalVars, mihomo, worldVars>>

SelectRefresh ==
  /\ pc = "select"
  /\ \/ refreshSignal /\ refreshSignal' = FALSE /\ UNCHANGED ticked
     \/ ticked /\ ticked' = FALSE /\ UNCHANGED refreshSignal
  /\ pc' = "fetch" /\ asked' = FALSE
  /\ UNCHANGED <<subscription, target, auth, cmd, stopping, mihomo, worldVars>>

\* The fetch or the merge fails, the result is what is in effect already, or there are
\* not enough ports: the listeners are retained.
FetchRetains ==
  /\ pc = "fetch" /\ pc' = "select"
  /\ UNCHANGED <<memory, signalVars, mihomo, worldVars>>

FetchChanged ==
  /\ pc = "fetch" /\ upstream # subscription
  /\ pc' = "stop" /\ target' = upstream
  /\ UNCHANGED <<subscription, auth, cmd, signalVars, mihomo, worldVars>>

\* Mutant of Stop: the process is left alone.
StopNot ==
  /\ pc = "stop" /\ pc' = "ports"
  /\ UNCHANGED <<memory, signalVars, mihomo, worldVars>>

\* stopManagedMihomo signals the process and waits for its end.
Stop ==
  /\ pc = "stop" /\ pc' = "ports"
  /\ mihomo' = [mihomo EXCEPT ![cmd] = Nothing]
  /\ UNCHANGED <<subscription, target, auth, cmd, signalVars, worldVars>>

\* The deferred stop evaluated its argument when there was only the first process.
Return ==
  /\ pc = "return" /\ Exit
  /\ mihomo' = [mihomo EXCEPT !["first"] = Nothing]
  /\ UNCHANGED <<worldVars>>

-----------------------------------------------------------------------------
\* Mutant of Hup: the channel has no buffer.
HupUnbuffered ==
  /\ pc # "off"
  /\ refreshSignal' = (refreshSignal \/ pc = "select") /\ asked' = TRUE
  /\ UNCHANGED <<supervisorVars, ticked, stopping, mihomo, worldVars>>

\* pp update.  The channel holds one signal; another one is dropped.
Hup ==
  /\ pc # "off"
  /\ refreshSignal' = TRUE /\ asked' = TRUE
  /\ UNCHANGED <<supervisorVars, ticked, stopping, mihomo, worldVars>>

Tick ==
  /\ pc # "off" /\ subscription # Nothing
  /\ ticked' = TRUE
  /\ UNCHANGED <<supervisorVars, refreshSignal, stopping, asked, mihomo, worldVars>>

Terminate ==
  /\ pc # "off"
  /\ stopping' = TRUE
  /\ UNCHANGED <<supervisorVars, refreshSignal, ticked, asked, mihomo, worldVars>>

\* Mihomo ends by itself; nobody waits for it.
MihomoDies(p) ==
  /\ mihomo[p] # Nothing
  /\ mihomo' = [mihomo EXCEPT ![p] = Nothing]
  /\ UNCHANGED <<supervisorVars, signalVars, worldVars>>

\* The supervisor is killed, and systemd kills what it started.
Crash ==
  /\ pc # "off" /\ Exit
  /\ mihomo' = NoMihomo
  /\ DiskMayTear
  /\ UNCHANGED <<upstream, reset, served, revoked>>

\* systemd kills what the supervisor left behind when it exited.
CleanUp ==
  /\ pc = "off" /\ mihomo # NoMihomo
  /\ mihomo' = NoMihomo
  /\ UNCHANGED <<supervisorVars, signalVars, worldVars>>

NewSubscription ==
  /\ upstream' \in Subscriptions
  /\ UNCHANGED <<supervisorVars, signalVars, mihomo, disk, reset, authHistory>>

\* pp reset-auth empties auth.tsv ...
EmptyAuth ==
  /\ reset = "none"
  /\ reset' = "truncated" /\ revoked' = disk.auth
  /\ disk' = [disk EXCEPT !.auth = Nothing]
  /\ lost' = TRUE
  /\ UNCHANGED <<supervisorVars, signalVars, mihomo, upstream, served>>

\* ... and restarts the service.
RestartService ==
  /\ reset = "truncated"
  /\ reset' = "restarting"
  /\ stopping' = (pc # "off")
  /\ UNCHANGED <<supervisorVars, refreshSignal, ticked, asked, mihomo, upstream, disk, authHistory>>

-----------------------------------------------------------------------------
Supervise ==
  \/ FirstFetch \/ BootFails
  \/ WritePorts \/ ReadAuth \/ WriteAuth \/ WriteList \/ WriteConfig \/ Launch \/ StartFails
  \/ Ready \/ NotReady
  \/ SelectStop \/ SelectRefresh \/ FetchRetains \/ FetchChanged \/ Stop \/ Return

Environment ==
  \/ Boot \/ Hup \/ Tick \/ Terminate \/ Crash \/ CleanUp \/ NewSubscription
  \/ EmptyAuth \/ RestartService
  \/ \E p \in Processes : MihomoDies(p)

Next == Supervise \/ Environment

Spec == Init /\ [][Next]_vars

\* Downloads and WaitReady have timeouts, and Mihomo ends when it is asked to.  A
\* select that finds several cases ready takes one at random, so the case of ctx is
\* taken if it is ready again and again.
FairSpec == Spec /\ WF_vars(Supervise) /\ SF_vars(SelectStop)

-----------------------------------------------------------------------------
TypeOK ==
  /\ pc \in {"off", "boot", "ports", "auth", "save", "publish", "config", "launch",
             "ready", "select", "fetch", "stop", "return"}
  /\ subscription \in Subscriptions \cup {Nothing}
  /\ target \in Subscriptions \cup {Nothing}
  /\ auth \in Passwords \cup {Nothing}
  /\ cmd \in Processes
  /\ refreshSignal \in BOOLEAN /\ ticked \in BOOLEAN /\ stopping \in BOOLEAN /\ asked \in BOOLEAN
  /\ mihomo \in [Processes -> Configurations \cup {Nothing}]
  /\ upstream \in Subscriptions
  /\ disk \in [ports : Subscriptions \cup {Nothing}, auth : Passwords \cup {Nothing},
              list : Configurations \cup {Nothing}, config : Configurations \cup {Nothing}]
  /\ reset \in {"none", "truncated", "restarting"}
  /\ served \in Passwords \cup {Nothing} /\ lost \in BOOLEAN
  /\ revoked \in Passwords \cup {Nothing}

Running == {p \in Processes : mihomo[p] # Nothing}

\* There is never a second Mihomo, which could not bind the ports of the first; and
\* none runs while the files of another are being written (main.go:445-446).
OneMihomo ==
  /\ Cardinality(Running) <= 1
  /\ Starting => Running = {}

\* Whatever the files went through, a Mihomo that runs listens on the ports and asks
\* for the password that pp list and pp export show, and a restart will find them
\* both again, unless pp reset-auth has just emptied the file (main.go:469-494).
ServedIsPublished ==
  \A p \in Running :
    /\ disk.list = mihomo[p] /\ disk.config = mihomo[p]
    /\ disk.ports = mihomo[p].sub
    /\ disk.auth = mihomo[p].password \/ (lost /\ disk.auth = Nothing)

\* A start that failed leaves no Mihomo behind to hold the ports, and neither does an
\* exit before the first refresh (main.go:418, 511-515).
FailedStartLeavesNone ==
  /\ pc = "off" => mihomo["first"] = Nothing
  /\ pc = "return" /\ target # subscription => Running = {}

\* A password stays the same from one Mihomo to the next, across any number of
\* refreshes, restarts, crashes and starts that fail, unless auth.tsv lost it in one of
\* two ways: pp reset-auth emptied the file, or a crash or an error came while
\* loadListenerAuth was writing it back (main.go:613-652).
PasswordsSurvive ==
  [][pc = "ready" /\ pc' = "select" /\ served # Nothing /\ ~lost => served' = served]_vars

\* deploy/pp: "reset-auth  Regenerate all listener passwords".
ResetChangesPasswords ==
  [][reset = "restarting" /\ reset' = "none" => served' # revoked]_vars

\* pp update is never lost: a fetch begins after it, even when it comes in the middle
\* of a refresh, or the supervisor ends (main.go:52, 425-429).
UpdateIsHonoured == asked ~> ~asked

\* SIGTERM ends the supervisor, whatever it is doing and however often it is asked to
\* refresh (main.go:425-427, 508-515).
StopEnds == stopping ~> pc = "off"

=============================================================================
