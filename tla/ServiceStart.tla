----------------------------- MODULE ServiceStart -----------------------------
(***************************************************************************)
(* How a change of the subscriptions reaches the running service: the      *)
(* encrypted list, the pp commands that rewrite it and restart or stop the *)
(* service (deploy/pp), systemd with the wrapper that decrypts the list    *)
(* for the program (deploy/install.sh, deploy/proxy-pools.service), and    *)
(* the way of the program from its start to the subscriptions' fetch,      *)
(* which leads through module MihomoDownload.                              *)
(*                                                                         *)
(* pp takes no lock.  Its steps: load, cut (the list is about to be        *)
(* replaced), save, test, restart.                                         *)
(***************************************************************************)
EXTENDS MihomoDownload, SequencesExt

CONSTANTS
  URLs,
  Commands,    \* invocations of pp that may run at the same time
  Damaged      \* a list of which only a part is written: it does not decrypt

ASSUME ServiceAssumption == Damaged \notin Seq(URLs)

VARIABLES
  stored,      \* subscriptions.enc, <<>> for an empty file and for none
  pc,          \* the step of each command, idle outside of one
  change,      \* what each command is to do
  plan,        \* the list each command is about to store
  urls,        \* the list the service was started with
  trouble,     \* history: none, overlap (of commands), kill (of one of them)
  told         \* history: the URLs configured by what pp reported, without trouble

commandVars == <<pc, change, plan>>
history == <<trouble, told>>
serviceVars == <<downloadVars, stored, commandVars, urls, history>>

Lists == {l \in Seq(URLs) : IsInjective(l)}

Changes == [verb : {"add", "remove"}, url : URLs]

Busy == {c \in Commands : pc[c] # "idle"}

\* install.sh starts the service if it has a subscription.
ServiceInit ==
  /\ DownloadInit
  /\ stored \in {<<>>} \cup {<<u>> : u \in URLs}
  /\ stage = IF stored = <<>> THEN "inactive" ELSE "wrapper"
  /\ pc = [c \in Commands |-> "idle"]
  /\ change = [c \in Commands |-> Nothing]
  /\ plan = [c \in Commands |-> Nothing]
  /\ urls = Nothing
  /\ trouble = "none" /\ told = ToSet(stored)

-----------------------------------------------------------------------------
\* pp add, pp remove

Goto(c, step) == pc' = [pc EXCEPT ![c] = step]

\* What pp reports means nothing any more.
Trouble(kind) == trouble' = kind /\ told' = {}

Leave(c) ==
  /\ pc' = [pc EXCEPT ![c] = "idle"]
  /\ change' = [change EXCEPT ![c] = Nothing]
  /\ plan' = [plan EXCEPT ![c] = Nothing]

\* The command reports what it was to do as done.
Report(c) ==
  /\ told' = IF trouble # "none" THEN told
             ELSE IF change[c].verb = "add" THEN told \cup {change[c].url}
             ELSE told \ {change[c].url}
  /\ UNCHANGED trouble

Begin(c, ch) ==
  /\ pc[c] = "idle" /\ Goto(c, "load")
  /\ change' = [change EXCEPT ![c] = ch]
  /\ IF Busy # {} /\ trouble = "none" THEN Trouble("overlap") ELSE UNCHANGED history
  /\ UNCHANGED <<downloadVars, stored, plan, urls>>

\* One line of the list, copied if it is not the URL to be removed.
LineKept(kept, line, url) == IF line = url THEN kept ELSE Append(kept, line)

Without(list, url) == FoldLeft(LAMBDA kept, line : LineKept(kept, line, url), <<>>, list)

\* Mutant of Changed: what is there already is added once more.
ChangedTwice(old, ch) ==
  IF ch.verb = "add" THEN Append(old, ch.url) ELSE Without(old, ch.url)

\* The list with the change made.  Removal by number is removal of the URL the command
\* finds at that number.
Changed(old, ch) ==
  IF ch.verb = "remove" THEN Without(old, ch.url)
  ELSE IF ch.url \in ToSet(old) THEN old ELSE Append(old, ch.url)

\* A list that does not decrypt ends the command; a change that changes nothing is
\* reported.
Load(c) ==
  /\ pc[c] = "load"
  /\ IF stored = Damaged THEN Leave(c) /\ UNCHANGED history
     ELSE IF Changed(stored, change[c]) = stored
     THEN Leave(c) /\ Report(c)
     ELSE /\ Goto(c, "cut")
          /\ plan' = [plan EXCEPT ![c] = Changed(stored, change[c])]
          /\ UNCHANGED <<change, history>>
  /\ UNCHANGED <<downloadVars, stored, urls>>

AfterSave(c) == IF change[c].verb = "add" THEN "restart" ELSE "test"

\* rm, or the beginning of install, which replaces the file and then writes it.
Cut(c) ==
  /\ pc[c] = "cut"
  /\ IF plan[c] = <<>> THEN stored' = <<>> /\ Goto(c, "test")
     ELSE stored' \in {<<>>, Damaged} /\ Goto(c, "save")
  /\ UNCHANGED <<downloadVars, change, plan, urls, history>>

\* Mutant of SaveSubscriptions: what was loaded is not looked at, only the new URL.
SaveOnlyNew(c) ==
  /\ pc[c] = "save" /\ Goto(c, AfterSave(c))
  /\ stored' = IF change[c].verb = "add" THEN <<change[c].url>> ELSE plan[c]
  /\ UNCHANGED <<downloadVars, change, plan, urls, history>>

SaveSubscriptions(c) ==
  /\ pc[c] = "save" /\ Goto(c, AfterSave(c))
  /\ stored' = plan[c]
  /\ UNCHANGED <<downloadVars, change, plan, urls, history>>

\* Mutant of Restarted: systemctl start, which does nothing when the service is active.
Started ==
  IF stage \in {"inactive", "waiting"}
  THEN stage' = "wrapper" /\ binary' = Nothing /\ urls' = Nothing /\ UNCHANGED cache
  ELSE UNCHANGED <<downloadVars, urls>>

\* systemctl restart: whatever runs is killed.
Restarted ==
  stage' = "wrapper" /\ binary' = Nothing /\ urls' = Nothing /\ UNCHANGED cache

Restart(c) ==
  /\ pc[c] = "restart" /\ Leave(c) /\ Report(c)
  /\ Restarted
  /\ UNCHANGED stored

\* pp remove looks at the file again to see whether the service is to run.
TestFinds(c) ==
  /\ pc[c] = "test" /\ Goto(c, IF stored = <<>> THEN "stop" ELSE "restart")
  /\ UNCHANGED <<downloadVars, stored, change, plan, urls, history>>

StopService(c) ==
  /\ pc[c] = "stop" /\ Leave(c) /\ Report(c)
  /\ stage' = "inactive" /\ binary' = Nothing /\ urls' = Nothing
  /\ UNCHANGED <<cache, stored>>

\* The command is killed and reports nothing.
Interrupt(c) ==
  /\ pc[c] # "idle" /\ Leave(c)
  /\ Trouble("kill")
  /\ UNCHANGED <<downloadVars, stored, urls>>

Command(c) ==
  Load(c) \/ Cut(c) \/ SaveSubscriptions(c) \/ TestFinds(c) \/ Restart(c) \/ StopService(c)

\* pp subscriptions and pp restart, by someone who knows of the trouble.
Recover ==
  /\ trouble # "none" /\ Busy = {} /\ stored \notin {<<>>, Damaged}
  /\ trouble' = "none" /\ told' = ToSet(stored)
  /\ Restarted
  /\ UNCHANGED <<stored, commandVars>>

-----------------------------------------------------------------------------
\* The service

\* Mutant of Fails: the error is logged and the exit status is 0.
FailsQuietly ==
  /\ stage' = "inactive" /\ binary' = Nothing /\ urls' = Nothing
  /\ UNCHANGED <<cache, stored, commandVars, history>>

\* An error ends the process with status 1: systemd waits for RestartSec.
Fails ==
  /\ stage' = "waiting" /\ binary' = Nothing /\ urls' = Nothing
  /\ UNCHANGED <<cache, stored, commandVars, history>>

RestartSec ==
  /\ stage = "waiting" /\ stage' = "wrapper"
  /\ UNCHANGED <<binary, cache, stored, commandVars, urls, history>>

Decrypt ==
  /\ stage = "wrapper" /\ stored \notin {<<>>, Damaged}
  /\ stage' = "stat" /\ urls' = stored
  /\ UNCHANGED <<binary, cache, stored, commandVars, history>>

NothingToDecrypt == stage = "wrapper" /\ stored \in {<<>>, Damaged} /\ Fails

ProgramDownloads ==
  DownloadNext /\ UNCHANGED <<stored, commandVars, urls, history>>

\* The subscriptions are fetched, and Mihomo answers, if its binary is one.
Runs ==
  /\ stage = "fetch" /\ Whole(cache)
  /\ stage' = "running"
  /\ UNCHANGED <<binary, cache, stored, commandVars, urls, history>>

\* A download, a file or a start fails; or what runs ends with an error.
ProgramFails == stage \in {"stat", "write", "rename", "fetch", "running"} /\ Fails

Progress == RestartSec \/ Decrypt \/ NothingToDecrypt \/ ProgramDownloads \/ Runs

ServiceNext ==
  \/ \E c \in Commands :
       (\E ch \in Changes : Begin(c, ch)) \/ Command(c) \/ Interrupt(c)
  \/ Recover
  \/ Progress \/ ProgramFails

ServiceSpec == ServiceInit /\ [][ServiceNext]_serviceVars

\* systemd and the program go on, and no step on the way to a running service fails
\* for ever: GitHub, the subscriptions' servers and the disk recover.
AnyDownload == \E asset \in Assets : asset.binary <= MaxSize /\ Download(asset)

ServiceFairSpec ==
  /\ ServiceSpec
  /\ WF_serviceVars(Progress)
  /\ SF_serviceVars(AnyDownload /\ ProgramDownloads)
  /\ SF_serviceVars(Write /\ ProgramDownloads) /\ SF_serviceVars(Rename /\ ProgramDownloads)
  /\ SF_serviceVars(FromCache /\ ProgramDownloads)
  /\ SF_serviceVars(Runs)

-----------------------------------------------------------------------------
\* The list never has a URL twice, which would make the merge fetch it twice.
ServiceTypeOK ==
  /\ stage \in {"inactive", "waiting", "wrapper", "stat", "write", "rename", "fetch", "running"}
  /\ binary \in Binaries \cup {Nothing} /\ cache \in Binaries \cup {Nothing}
  /\ stored \in Lists \cup {Damaged}
  /\ pc \in [Commands -> {"idle", "load", "cut", "save", "test", "restart", "stop"}]
  /\ change \in [Commands -> Changes \cup {Nothing}]
  /\ plan \in [Commands -> Lists \cup {Nothing}]
  /\ urls \in Lists \cup {Nothing}
  /\ trouble \in {"none", "overlap", "kill"} /\ told \subseteq URLs

\* A process that is killed at any point of the download leaves no part of a binary
\* where the next start would take it for one; only a binary beyond the limit is ever
\* cached cut (managed.go:48, 86-98, 109-127).
CachedBinaryIsWhole ==
  cache # Nothing => Whole(cache) \/ cache.size > MaxSize

Settled == Busy = {} /\ trouble = "none"

\* As long as pp commands come one after the other and none is killed, what they
\* reported is what is stored, although each of them removes the file before it
\* writes it, and the service may be reading it (deploy/pp:38-65, 126-146).
StoreIsAsReported == Settled => stored # Damaged /\ ToSet(stored) = told

\* Once no command is under way, the service runs with the list that is stored, never
\* with an older one, also when commands overlapped: whoever stored it restarts the
\* service afterwards (deploy/pp:60, 149: "service restarted").
RunsWhatIsStored ==
  Busy = {} /\ trouble # "kill" /\ urls # Nothing => urls = stored

\* A list that is stored is eventually run, whatever failed before, unless the cache
\* holds a binary that was cut (proxy-pools.service: Restart=on-failure).
StoredListIsRun ==
  (Settled /\ stored # <<>>) ~>
    \/ stage = "running" /\ urls = stored
    \/ ~Settled
    \/ cache # Nothing /\ cache.size > MaxSize

=============================================================================
