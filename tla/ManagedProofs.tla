---------------------------- MODULE ManagedProofs ----------------------------
(***************************************************************************)
(* The safety of the supervisor, for any subscriptions and passwords.      *)
(***************************************************************************)
EXTENDS ManagedMihomo, FiniteSetTheorems, TLAPS

Steps == {"ports", "auth", "save", "publish", "config", "launch"}

\* Files as far as this start has written them.  pp reset-auth may have emptied
\* auth.tsv again since.
AuthHeld(password) == disk.auth = password \/ (lost /\ disk.auth = Nothing)

FilesWritten ==
  /\ pc \in Steps \cup {"ready", "stop"} => target # Nothing
  /\ pc \in Steps \ {"ports"} => disk.ports = target
  /\ pc \in {"save", "publish", "config", "launch"} => auth # Nothing
  /\ pc \in {"publish", "config", "launch"} => AuthHeld(auth)
  /\ pc \in {"config", "launch"} => disk.list = Planned
  /\ pc = "launch" => disk.config = Planned

\* Which processes may run at each step.
ProcessesKnown ==
  /\ pc \in Steps \cup {"boot"} => mihomo = NoMihomo
  /\ pc \in {"ready", "select", "fetch", "stop", "return"} =>
       \A p \in Processes : p # cmd => mihomo[p] = Nothing
  /\ pc = "off" => mihomo["first"] = Nothing
  /\ pc \in {"select", "fetch"} => target = subscription
  /\ pc = "return" => target = subscription \/ mihomo = NoMihomo

IInv == TypeOK /\ FilesWritten /\ ProcessesKnown /\ ServedIsPublished

-----------------------------------------------------------------------------
\* Nothing runs and no file is written at first.
LEMMA InitHolds == Init => IInv
<1> SUFFICES ASSUME Init PROVE IInv
  OBVIOUS
<1>1. TypeOK
  BY DEF Init, NoMihomo, NoFiles, TypeOK, Processes
<1>2. FilesWritten /\ ProcessesKnown
  BY DEF Init, NoMihomo, FilesWritten, ProcessesKnown, Steps, Processes
<1>3. ServedIsPublished
  BY DEF Init, NoMihomo, ServedIsPublished, Running
<1> QED
  BY <1>1, <1>2, <1>3 DEF IInv

\* A file that is torn has the contents of a file, and the history of a loss is a flag.
LEMMA TornFilesTyped ==
  ASSUME IInv, DiskMayTear
  PROVE  /\ disk' \in [ports : Subscriptions \cup {Nothing}, auth : Passwords \cup {Nothing},
                       list : Configurations \cup {Nothing}, config : Configurations \cup {Nothing}]
         /\ lost' \in BOOLEAN
<1>1. disk' \in {disk} \cup Torn
  BY DEF DiskMayTear
<1>2. disk' \in [ports : Subscriptions \cup {Nothing}, auth : Passwords \cup {Nothing},
                 list : Configurations \cup {Nothing}, config : Configurations \cup {Nothing}]
  BY <1>1 DEF Torn, Fresh, IInv, TypeOK
<1>3. lost' \in BOOLEAN
  BY Zenon DEF DiskMayTear, IInv, TypeOK
<1> QED
  BY <1>2, <1>3

\* The program exits: nothing is known of files and memory afterwards but their types.
LEMMA ExitKeepsIInv ==
  ASSUME IInv, Exit, mihomo' \in [Processes -> {Nothing}],
         DiskMayTear \/ UNCHANGED <<disk, lost>>,
         UNCHANGED <<upstream, reset, served, revoked>>
  PROVE  IInv'
<1>1. /\ disk' \in [ports : Subscriptions \cup {Nothing}, auth : Passwords \cup {Nothing},
                    list : Configurations \cup {Nothing}, config : Configurations \cup {Nothing}]
      /\ lost' \in BOOLEAN
  <2>1. CASE DiskMayTear
    BY <2>1, TornFilesTyped
  <2>2. CASE UNCHANGED <<disk, lost>>
    BY <2>2 DEF IInv, TypeOK
  <2> QED
    BY <2>1, <2>2
<1>2. TypeOK'
  BY <1>1 DEF Exit, IInv, TypeOK, Processes
<1>3. FilesWritten' /\ ProcessesKnown' /\ ServedIsPublished'
  BY DEF Exit, FilesWritten, ProcessesKnown, Steps, Processes, ServedIsPublished, Running
<1> QED
  BY <1>2, <1>3 DEF IInv

\* The steps of a start, one for each file and one for the process.
LEMMA StartKeepsIInv ==
  ASSUME ManagedAssumption, IInv,
         FirstFetch \/ BootFails \/ WritePorts \/ ReadAuth \/ WriteAuth \/ WriteList
           \/ WriteConfig \/ Launch \/ StartFails \/ Ready \/ NotReady
  PROVE  IInv'
<1> USE DEF Steps, Processes, Configurations, NoMihomo, Planned, AuthHeld, memory,
            signalVars, authHistory, worldVars
<1>1. CASE FirstFetch
  BY <1>1 DEF FirstFetch, ManagedAssumption, IInv, TypeOK, FilesWritten, ProcessesKnown,
              ServedIsPublished, Running
<1>2. CASE BootFails
  BY <1>2, ExitKeepsIInv DEF BootFails, IInv, TypeOK, ProcessesKnown
<1>3. CASE WritePorts
  BY <1>3 DEF WritePorts, IInv, TypeOK, FilesWritten, ProcessesKnown, ServedIsPublished, Running
<1>4. CASE ReadAuth
  BY <1>4 DEF ReadAuth, Fresh, ManagedAssumption, IInv, TypeOK, FilesWritten, ProcessesKnown,
              ServedIsPublished, Running
<1>5. CASE WriteAuth
  BY <1>5 DEF WriteAuth, IInv, TypeOK, FilesWritten, ProcessesKnown, ServedIsPublished, Running
<1>6. CASE WriteList
  BY <1>6 DEF WriteList, IInv, TypeOK, FilesWritten, ProcessesKnown, ServedIsPublished, Running
<1>7. CASE WriteConfig
  BY <1>7 DEF WriteConfig, IInv, TypeOK, FilesWritten, ProcessesKnown, ServedIsPublished, Running
<1>8. CASE Launch
  BY <1>8 DEF Launch, IInv, TypeOK, FilesWritten, ProcessesKnown, ServedIsPublished, Running
<1>9. CASE StartFails
  <2>1. mihomo' = NoMihomo /\ mihomo = NoMihomo
    BY <1>9 DEF StartFails, Starting, IInv, ProcessesKnown
  <2>2. CASE subscription = Nothing
    BY <1>9, <2>1, <2>2, ExitKeepsIInv DEF StartFails, Fail
  <2>3. CASE subscription # Nothing
    <3>1. /\ pc' = "return" /\ UNCHANGED <<memory, signalVars, mihomo>>
          /\ UNCHANGED <<upstream, reset, served, revoked>>
      BY <1>9, <2>3 DEF StartFails, Fail
    <3>2. TypeOK'
      BY <1>9, <3>1, TornFilesTyped DEF StartFails, IInv, TypeOK
    <3>3. FilesWritten' /\ ProcessesKnown' /\ ServedIsPublished'
      BY <2>1, <3>1 DEF FilesWritten, ProcessesKnown, ServedIsPublished, Running
    <3> QED
      BY <3>2, <3>3 DEF IInv
  <2> QED
    BY <2>2, <2>3
<1>10. CASE Ready
  BY <1>10 DEF Ready, IInv, TypeOK, FilesWritten, ProcessesKnown, ServedIsPublished, Running
<1>11. CASE NotReady
  <2>1. mihomo' = NoMihomo
    BY <1>11 DEF NotReady, IInv, TypeOK, ProcessesKnown
  <2>2. CASE subscription = Nothing
    BY <1>11, <2>1, <2>2, ExitKeepsIInv DEF NotReady, Fail
  <2>3. CASE subscription # Nothing
    <3>1. TypeOK'
      BY <1>11, <2>1, <2>3 DEF NotReady, Fail, IInv, TypeOK
    <3>2. FilesWritten'
      BY <1>11, <2>1, <2>3 DEF NotReady, Fail, IInv, TypeOK, FilesWritten
    <3>3. ProcessesKnown'
      BY <1>11, <2>1, <2>3 DEF NotReady, Fail, IInv, TypeOK, ProcessesKnown
    <3>4. ServedIsPublished'
      BY <1>11, <2>1, <2>3 DEF NotReady, Fail, IInv, TypeOK, ProcessesKnown, ServedIsPublished, Running
    <3> QED
      BY <3>1, <3>2, <3>3, <3>4 DEF IInv
  <2> QED
    BY <2>2, <2>3
<1> QED
  BY <1>1, <1>2, <1>3, <1>4, <1>5, <1>6, <1>7, <1>8, <1>9, <1>10, <1>11

\* The steps of the select loop of runManagedMihomo.
LEMMA LoopKeepsIInv ==
  ASSUME ManagedAssumption, IInv,
         SelectStop \/ SelectRefresh \/ FetchRetains \/ FetchChanged \/ Stop \/ Return
  PROVE  IInv'
<1> USE DEF Steps, Processes, Configurations, NoMihomo, Planned, AuthHeld, memory,
            signalVars, authHistory, worldVars
<1>1. CASE SelectStop
  BY <1>1 DEF SelectStop, IInv, TypeOK, FilesWritten, ProcessesKnown, ServedIsPublished, Running
<1>2. CASE SelectRefresh
  <2>1. TypeOK'
    <3>1. /\ refreshSignal' \in BOOLEAN /\ ticked' \in BOOLEAN
          /\ stopping' \in BOOLEAN /\ asked' \in BOOLEAN
      BY <1>2, ZenonT(30) DEF SelectRefresh, IInv, TypeOK
    <3> QED
      BY <1>2, <3>1 DEF SelectRefresh, IInv, TypeOK
  <2>2. FilesWritten'
    BY <1>2 DEF SelectRefresh, IInv, TypeOK, FilesWritten
  <2>3. ProcessesKnown'
    BY <1>2 DEF SelectRefresh, IInv, TypeOK, ProcessesKnown
  <2>4. ServedIsPublished'
    BY <1>2 DEF SelectRefresh, IInv, TypeOK, ProcessesKnown, ServedIsPublished, Running
  <2> QED
    BY <2>1, <2>2, <2>3, <2>4 DEF IInv
<1>3. CASE FetchRetains
  BY <1>3 DEF FetchRetains, IInv, TypeOK, FilesWritten, ProcessesKnown, ServedIsPublished, Running
<1>4. CASE FetchChanged
  BY <1>4 DEF FetchChanged, ManagedAssumption, IInv, TypeOK, FilesWritten, ProcessesKnown,
              ServedIsPublished, Running
<1>5. CASE Stop
  <2>1. TypeOK'
    BY <1>5 DEF Stop, IInv, TypeOK
  <2>2. FilesWritten'
    BY <1>5 DEF Stop, IInv, TypeOK, FilesWritten
  <2>3. ProcessesKnown'
    BY <1>5 DEF Stop, IInv, TypeOK, ProcessesKnown
  <2>4. ServedIsPublished'
    BY <1>5 DEF Stop, IInv, TypeOK, ProcessesKnown, ServedIsPublished, Running
  <2> QED
    BY <2>1, <2>2, <2>3, <2>4 DEF IInv
<1>6. CASE Return
  BY <1>6 DEF Return, Exit, IInv, TypeOK, FilesWritten, ProcessesKnown, ServedIsPublished, Running
<1> QED
  BY <1>1, <1>2, <1>3, <1>4, <1>5, <1>6

\* Mihomo, systemd, the signals and pp reset-auth.
LEMMA EnvironmentKeepsIInv ==
  ASSUME ManagedAssumption, IInv, Environment
  PROVE  IInv'
<1> USE DEF Steps, Processes, Configurations, NoMihomo, Planned, AuthHeld, memory,
            supervisorVars, signalVars, authHistory, worldVars
<1>1. CASE Boot
  BY <1>1 DEF Boot, IInv, TypeOK, FilesWritten, ProcessesKnown, ServedIsPublished, Running
<1>2. CASE Hup \/ Tick \/ Terminate
  <2>1. TypeOK'
    <3>1. /\ refreshSignal' \in BOOLEAN /\ ticked' \in BOOLEAN
          /\ stopping' \in BOOLEAN /\ asked' \in BOOLEAN
      BY <1>2, ZenonT(30) DEF Hup, Tick, Terminate, IInv, TypeOK
    <3> QED
      BY <1>2, <3>1 DEF Hup, Tick, Terminate, IInv, TypeOK
  <2>2. FilesWritten'
    BY <1>2 DEF Hup, Tick, Terminate, IInv, TypeOK, FilesWritten
  <2>3. ProcessesKnown'
    BY <1>2 DEF Hup, Tick, Terminate, IInv, TypeOK, ProcessesKnown
  <2>4. ServedIsPublished'
    BY <1>2 DEF Hup, Tick, Terminate, IInv, TypeOK, ProcessesKnown, ServedIsPublished, Running
  <2> QED
    BY <2>1, <2>2, <2>3, <2>4 DEF IInv
<1>3. CASE Crash
  BY <1>3, ExitKeepsIInv DEF Crash
<1>4. CASE CleanUp
  BY <1>4 DEF CleanUp, IInv, TypeOK, FilesWritten, ProcessesKnown, ServedIsPublished, Running
<1>5. CASE NewSubscription
  BY <1>5 DEF NewSubscription, IInv, TypeOK, FilesWritten, ProcessesKnown, ServedIsPublished, Running
<1>6. CASE EmptyAuth
  BY <1>6 DEF EmptyAuth, IInv, TypeOK, FilesWritten, ProcessesKnown, ServedIsPublished, Running
<1>7. CASE RestartService
  BY <1>7 DEF RestartService, IInv, TypeOK, FilesWritten, ProcessesKnown, ServedIsPublished, Running
<1>8. ASSUME NEW p \in Processes, MihomoDies(p)
      PROVE  IInv'
  BY <1>8 DEF MihomoDies, IInv, TypeOK, FilesWritten, ProcessesKnown, ServedIsPublished, Running
<1> QED
  BY <1>1, <1>2, <1>3, <1>4, <1>5, <1>6, <1>7, <1>8 DEF Environment

\* Every step keeps the invariant.
LEMMA IInvInductive == IInv /\ [Next]_vars => IInv'
<1> SUFFICES ASSUME IInv, [Next]_vars PROVE IInv'
  OBVIOUS
<1>1. CASE UNCHANGED vars
  BY <1>1 DEF vars, supervisorVars, memory, signalVars, worldVars, authHistory, IInv, TypeOK,
              FilesWritten, ProcessesKnown, Planned, AuthHeld, ServedIsPublished, Running
<1>2. CASE Supervise
  BY <1>2, ManagedAssumption, StartKeepsIInv, LoopKeepsIInv DEF Supervise
<1>3. CASE Environment
  BY <1>3, ManagedAssumption, EnvironmentKeepsIInv
<1> QED
  BY <1>1, <1>2, <1>3 DEF Next

-----------------------------------------------------------------------------
\* The variables of the supervisor and its world keep their types.
THEOREM ManagedTypeOK == Spec => []TypeOK
<1>1. IInv => TypeOK
  BY DEF IInv
<1> QED
  BY <1>1, InitHolds, IInvInductive, PTL DEF Spec

\* There is never a second Mihomo, and none while files are written (main.go:445-446).
THEOREM ManagedOneMihomo == Spec => []OneMihomo
<1>1. IInv => OneMihomo
  <2> SUFFICES ASSUME IInv PROVE OneMihomo
    OBVIOUS
  <2>1. Running = {} \/ \E p \in Processes : Running = {p}
    BY DEF IInv, TypeOK, ProcessesKnown, Steps, Processes, NoMihomo, Running
  <2>2. Cardinality(Running) <= 1
    BY <2>1, FS_EmptySet, FS_Singleton
  <2>3. Starting => Running = {}
    BY DEF Starting, IInv, ProcessesKnown, Steps, NoMihomo, Running
  <2> QED
    BY <2>2, <2>3 DEF OneMihomo
<1> QED
  BY <1>1, InitHolds, IInvInductive, PTL DEF Spec

\* A Mihomo that runs is the one pp list, pp export and a restart know of, whatever
\* crashed, was emptied or failed (main.go:469-494).
THEOREM ManagedServedIsPublished == Spec => []ServedIsPublished
<1>1. IInv => ServedIsPublished
  BY DEF IInv
<1> QED
  BY <1>1, InitHolds, IInvInductive, PTL DEF Spec

\* A start that failed leaves no Mihomo behind (main.go:418, 511-515).
THEOREM ManagedFailedStartLeavesNone == Spec => []FailedStartLeavesNone
<1>1. IInv => FailedStartLeavesNone
  BY DEF IInv, ProcessesKnown, FailedStartLeavesNone, NoMihomo, Running
<1> QED
  BY <1>1, InitHolds, IInvInductive, PTL DEF Spec

-----------------------------------------------------------------------------
\* The password the last Mihomo asked for, on its way through the next start.
KeptInv ==
  served # Nothing /\ ~lost =>
    /\ disk.auth = served
    /\ pc \in {"save", "publish", "config", "launch"} => auth = served
    /\ pc = "ready" /\ mihomo[cmd] # Nothing => mihomo[cmd].password = served

\* What is known of the last password stays true.
LEMMA KeptInductive ==
  ASSUME IInv, KeptInv, [Next]_vars
  PROVE  KeptInv'
<1> USE DEF Processes, memory, supervisorVars, signalVars, authHistory, worldVars
<1>1. CASE WritePorts \/ WriteAuth \/ WriteList \/ WriteConfig
  BY <1>1 DEF WritePorts, WriteAuth, WriteList, WriteConfig, IInv, TypeOK, KeptInv
<1>2. CASE ReadAuth
  BY <1>2 DEF ReadAuth, KeptInv
<1>3. CASE Launch
  BY <1>3 DEF Launch, IInv, TypeOK, FilesWritten, Planned, KeptInv
<1>4. CASE Ready
  BY <1>4 DEF Ready, KeptInv
<1>5. CASE FirstFetch \/ BootFails \/ NotReady \/ SelectStop \/ SelectRefresh
             \/ FetchRetains \/ FetchChanged \/ Stop \/ Return
  BY <1>5 DEF FirstFetch, BootFails, NotReady, Fail, Exit, SelectStop,
              SelectRefresh, FetchRetains, FetchChanged, Stop, Return, KeptInv
<1>6. CASE Boot \/ Hup \/ Tick \/ Terminate \/ NewSubscription \/ RestartService \/ CleanUp
  BY <1>6 DEF Boot, Hup, Tick, Terminate, NewSubscription, RestartService, CleanUp, NoMihomo,
              IInv, TypeOK, KeptInv
<1>7. CASE Crash \/ StartFails \/ EmptyAuth
  BY <1>7 DEF Crash, Exit, StartFails, Starting, Fail, DiskMayTear, EmptyAuth, KeptInv
<1>8. ASSUME NEW p \in Processes, MihomoDies(p)
      PROVE  KeptInv'
  BY <1>8 DEF MihomoDies, IInv, TypeOK, KeptInv
<1>9. CASE UNCHANGED vars
  BY <1>9 DEF vars, KeptInv
<1> QED
  BY <1>1, <1>2, <1>3, <1>4, <1>5, <1>6, <1>7, <1>8, <1>9 DEF Next, Supervise, Environment

\* Passwords change only when auth.tsv has lost them, to pp reset-auth or to a crash or
\* an error in the middle of its own rewrite (main.go:613-652).
THEOREM ManagedPasswordsSurvive == Spec => PasswordsSurvive
<1>1. Init => KeptInv
  BY DEF Init, KeptInv
<1>2. KeptInv /\ [Next]_vars =>
        [pc = "ready" /\ pc' = "select" /\ served # Nothing /\ ~lost => served' = served]_vars
  <2> SUFFICES ASSUME KeptInv, [Next]_vars, pc = "ready", pc' = "select",
                      served # Nothing, ~lost
               PROVE  served' = served
    OBVIOUS
  <2>1. CASE Ready
    BY <2>1 DEF Ready, KeptInv
  <2>2. CASE ~Ready
    BY <2>2 DEF Next, Supervise, Environment, FirstFetch, BootFails, WritePorts, ReadAuth,
                WriteAuth, WriteList, WriteConfig, Launch, StartFails, NotReady, Fail, Exit,
                SelectStop, SelectRefresh, FetchRetains, FetchChanged, Stop, Return, Boot, Hup,
                Tick, Terminate, Crash, CleanUp, NewSubscription, EmptyAuth, RestartService,
                MihomoDies, supervisorVars, memory, worldVars, authHistory, vars
  <2> QED
    BY <2>1, <2>2
<1> QED
  BY <1>1, <1>2, KeptInductive, InitHolds, IInvInductive, PTL DEF Spec, PasswordsSurvive

=============================================================================
