------------------------- MODULE GuestRuntimeProofs --------------------------
(***************************************************************************)
(* What the guest's container runtime promises, proved for any number of    *)
(* containers, failures and log records.                                   *)
(***************************************************************************)
EXTENDS GuestRuntime, TLAPS

State == {None, "empty", "CREATED", "RUNNING", "EXITED"}
Task  == {"none", "running", "stopped"}

Creating == {"create_ctr", "create_meta", "create_trunc", "create_write"}
Starting == {"start_trunc", "start_write", "start_spawn"}
Stopping == {"stop_term", "stop_kill", "stop_trunc", "stop_write"}
Deleting == {"remove_task", "remove_container", "remove_files"}
Writing  == {"status_trunc", "status_write"}
Asking   == Writing \cup {"status_query", "log_file"}

\* The types.
FileTypes ==
  /\ meta \in {"none", "partial", "ok"}
  /\ state \in State
  /\ log \in {None} \cup [life : Nat, n : Nat]

CtrdTypes ==
  /\ record \in BOOLEAN
  /\ task \in Task
  /\ life \in Nat
  /\ owner \in Nat

AgentTypes ==
  /\ via_run \in BOOLEAN
  /\ known \in {"none", "created", "started"}
  /\ pc \in {"idle"} \cup Creating \cup Starting \cup Stopping \cup Deleting \cup Asking
  /\ seen \in State
  /\ tseen \in Task \cup {None}

ProcTypes ==
  /\ aux \in [Lives -> {"none", "spawned", "following", "draining", "trunc", "write",
                        "gone"}]
  /\ produced \in [Lives -> Nat]
  /\ logged \in [Lives -> Nat]

HostTypes ==
  /\ offset \in Nat
  /\ eof \in BOOLEAN
  /\ gfaults \in Nat

HistTypes ==
  /\ stopped \in BOOLEAN /\ removed \in BOOLEAN /\ blind \in BOOLEAN
  /\ stale \in BOOLEAN /\ early \in BOOLEAN /\ cut \in BOOLEAN
  /\ again \in BOOLEAN

Types == FileTypes /\ CtrdTypes /\ AgentTypes /\ ProcTypes /\ HostTypes /\ HistTypes

\* A container of a life has a process only once it has started; the bound on
\* the lives holds where a life begins.
Numbers ==
  /\ life <= MaxLives /\ owner <= life
  /\ via_run /\ pc \in Starting => life < MaxLives
  /\ \A l \in Lives : l > life => aux[l] = "none" /\ produced[l] = 0 /\ logged[l] = 0

\* Where the agent is, given what the host asked for last, and what it knows
\* there of containerd, whose container only the agent deletes.
Agent ==
  /\ pc \in Creating => known = "none"
  /\ pc \in Starting => known # "none" /\ ~stopped
  /\ pc \in Starting /\ known = "started" => again
  /\ again => via_run
  /\ ~via_run /\ known = "started" /\ pc \notin {"remove_container", "remove_files"}
       => task # "none"
  /\ ~via_run /\ pc \in Starting => task # "none"
  /\ pc \in Deleting => offset = 0 /\ ~eof
  /\ pc \in Stopping \cup Deleting => known # "none"
  /\ pc \in Asking => known = "started"
  /\ pc \in Writing \cup {"status_query"} => seen = "RUNNING"
  /\ task # "none" => record
  /\ pc \in Stopping => record
  /\ via_run /\ pc \in Writing => record
  /\ ~via_run /\ pc \in Stopping => task # "none"
  /\ ~via_run /\ pc \in {"create_meta", "create_trunc", "create_write"}
       => record /\ task = "none"
  /\ pc = "create_ctr" => ~via_run
  /\ blind => via_run
  /\ known # "started" => offset = 0 /\ ~eof

\* Only the runner and the watcher of the mode at hand are there.
Mode ==
  \A l \in Lives : ~via_run => aux[l] \notin {"spawned", "draining"}

\* A runner that is yet to start its container: where it could do so after a
\* stop or a remove, the history says so.
Pending ==
  Unborn =>
    /\ stopped /\ ~record => blind
    /\ pc \in Deleting => blind
    /\ removed => blind

\* Stopped and removed.
Ended ==
  /\ stopped \/ pc \in {"stop_trunc", "stop_write"} => task # "running" \/ blind
  /\ pc = "remove_files" => (task = "none" /\ ~record) \/ blind
  /\ removed => /\ known = "none" /\ pc = "idle" /\ meta = "none"
                /\ (task = "none" /\ ~record) \/ blind

\* The forked processes belong to the container that is there now.
Current ==
  ~stale /\ ~blind /\ ~again =>
    /\ \A l \in Lives : aux[l] \notin {"none", "gone"} => l = life /\ known = "started"
    /\ via_run /\ known # "started" => ~record
    /\ via_run /\ record => owner = life
    /\ via_run /\ known = "started" => life > 0 /\ aux[life] # "none"

Finished(l) == aux[l] \in {"trunc", "write", "gone"}

\* What the state file says while a runner is at work.
Runner ==
  via_run /\ ~stale /\ ~blind /\ ~again =>
    /\ pc = "start_spawn" => state = "RUNNING"
    /\ \A l \in Lives : aux[l] = "spawned" =>
         /\ ~record /\ state # "EXITED"
         /\ pc \notin Stopping \cup Deleting \cup Writing
    /\ known = "started" /\ (aux[life] = "draining" \/ Finished(life))
         => task # "running" \/ cut

\* What it says while a watcher is at work.
Watcher ==
  ~via_run /\ ~stale =>
    /\ \A l \in Lives : aux[l] \in {"trunc", "write"} => task # "running"
    /\ known = "created" /\ task = "none"
         /\ pc \notin {"remove_container", "remove_files"}
       => state # "EXITED"

\* EXITED in the state file, or on its way there.
Exits ==
  /\ NoFalseExit
  /\ pc \in Writing /\ tseen # "running"
       => task # "running" \/ stale \/ (via_run /\ (blind \/ cut \/ again))

\* The log of the container that is there now, until its removal begins.
LogInv ==
  via_run /\ known = "started" /\ pc \notin Deleting /\ ~early /\ ~stale /\ ~blind
      /\ ~cut /\ ~again =>
    /\ aux[life] = "spawned" => log = None /\ logged[life] = 0 /\ produced[life] = 0
    /\ aux[life] # "spawned" =>
         log # None /\ log.life = life /\ log.n = logged[life]
    /\ Finished(life) => logged[life] = produced[life]
    /\ state = "EXITED" => Finished(life)
    /\ pc = "log_file" /\ seen = "EXITED" => Finished(life)
    /\ offset <= logged[life]
    /\ eof => Finished(life) /\ offset = produced[life]

GuestInv ==
  /\ Types /\ Numbers /\ Agent /\ Mode
  /\ Pending /\ Ended
  /\ Current /\ Runner /\ Watcher /\ Exits /\ LogInv

\* A failure is counted.
LEMMA FaultNat == ASSUME Types, GFault PROVE gfaults' \in Nat
  BY DEF Types, HostTypes, GFault

LEMMA ZeroNat == 0 \in Nat
  BY Zenon

\* Every step of the agent, of containerd, of the forked processes and of the
\* host keeps the types.
LEMMA TypesStep == GuestInv /\ [GuestNext]_gvars => Types'
  <1> SUFFICES ASSUME GuestInv, [GuestNext]_gvars PROVE Types'
    BY Zenon
  <1> USE GuestConstants DEF GuestInv, Lives, files, ctrd, agentl, procs, hostlog,
          ghist, told,
          State, Task, Creating, Starting, Stopping, Deleting, Writing, Asking
  <1>1. ASSUME CreateBegin PROVE Types'
    <2>1. FileTypes'
      BY <1>1, Zenon DEF CreateBegin, Types, FileTypes
    <2>2. CtrdTypes'
      BY <1>1, Zenon DEF CreateBegin, Types, CtrdTypes
    <2>3. AgentTypes'
      BY <1>1, Zenon DEF CreateBegin, Types, AgentTypes
    <2>4. ProcTypes'
      BY <1>1, Zenon DEF CreateBegin, Types, ProcTypes
    <2>5. HostTypes'
      BY <1>1, Zenon DEF CreateBegin, Types, HostTypes
    <2>6. HistTypes'
      BY <1>1, Zenon DEF CreateBegin, Types, HistTypes
    <2> QED
      BY <2>1, <2>2, <2>3, <2>4, <2>5, <2>6, Zenon DEF Types
  <1>2. ASSUME CreateCtr PROVE Types'
    <2>1. FileTypes'
      BY <1>2, Zenon DEF CreateCtr, Types, FileTypes
    <2>2. CtrdTypes'
      BY <1>2, Zenon DEF CreateCtr, Types, CtrdTypes
    <2>3. AgentTypes'
      BY <1>2, ZenonT(60) DEF CreateCtr, Types, CtrdTypes, AgentTypes
    <2>4. ProcTypes'
      BY <1>2, Zenon DEF CreateCtr, Types, ProcTypes
    <2>5. HostTypes'
      BY <1>2, FaultNat, ZeroNat, Zenon DEF CreateCtr, Types, HostTypes
    <2>6. HistTypes'
      BY <1>2, Zenon DEF CreateCtr, Types, HistTypes
    <2> QED
      BY <2>1, <2>2, <2>3, <2>4, <2>5, <2>6, Zenon DEF Types
  <1>3. ASSUME CreateMeta PROVE Types'
    BY <1>3, SMTT(60) DEF CreateMeta, GFault, write_metadata, Undo, Types, FileTypes,
       CtrdTypes, AgentTypes, ProcTypes, HostTypes, HistTypes
  <1>4. ASSUME CreateTruncate PROVE Types'
    BY <1>4 DEF CreateTruncate, Truncate, Types, FileTypes, CtrdTypes, AgentTypes,
       ProcTypes, HostTypes, HistTypes
  <1>5. ASSUME CreateWrite PROVE Types'
    <2>1. FileTypes'
      BY <1>5, Zenon DEF CreateWrite, Types, FileTypes
    <2>2. CtrdTypes'
      BY <1>5, Zenon DEF CreateWrite, Undo, Types, CtrdTypes
    <2>3. AgentTypes'
      BY <1>5, Zenon DEF CreateWrite, Done, Types, AgentTypes
    <2>4. ProcTypes'
      BY <1>5, Zenon DEF CreateWrite, Types, ProcTypes
    <2>5. HostTypes'
      BY <1>5, FaultNat, ZeroNat, Zenon DEF CreateWrite, Types, HostTypes
    <2>6. HistTypes'
      BY <1>5, Zenon DEF CreateWrite, Types, HistTypes
    <2> QED
      BY <2>1, <2>2, <2>3, <2>4, <2>5, <2>6, Zenon DEF Types
  <1>6. ASSUME StartBegin PROVE Types'
    <2>1. FileTypes'
      BY <1>6, Zenon DEF StartBegin, Types, FileTypes
    <2>2. CtrdTypes'
      BY <1>6 DEF StartBegin, Types, CtrdTypes
    <2>3. AgentTypes'
      BY <1>6, Zenon DEF StartBegin, Types, AgentTypes
    <2>4. ProcTypes'
      BY <1>6, Zenon DEF StartBegin, Types, ProcTypes
    <2>5. HostTypes'
      BY <1>6, FaultNat, ZeroNat, Zenon DEF StartBegin, Types, HostTypes
    <2>6. HistTypes'
      BY <1>6, Zenon DEF StartBegin, Types, HistTypes
    <2> QED
      BY <2>1, <2>2, <2>3, <2>4, <2>5, <2>6, Zenon DEF Types
  <1>7. ASSUME StartTruncate PROVE Types'
    BY <1>7 DEF StartTruncate, Truncate, Types, FileTypes, CtrdTypes, AgentTypes,
       ProcTypes, HostTypes, HistTypes
  <1>8. ASSUME StartWrite PROVE Types'
    BY <1>8, SMTT(60) DEF StartWrite, GFault, Types, FileTypes, CtrdTypes, AgentTypes,
       ProcTypes, HostTypes, HistTypes
  <1>9. ASSUME StartSpawn PROVE Types'
    <2>1. FileTypes'
      BY <1>9, Zenon DEF StartSpawn, Types, FileTypes
    <2>2. CtrdTypes'
      BY <1>9 DEF StartSpawn, Types, CtrdTypes
    <2>3. AgentTypes'
      BY <1>9, Zenon DEF StartSpawn, Done, Types, AgentTypes
    <2>4. ProcTypes'
      BY <1>9, Zenon DEF StartSpawn, Types, ProcTypes
    <2>5. HostTypes'
      BY <1>9, FaultNat, ZeroNat, Zenon DEF StartSpawn, Types, HostTypes
    <2>6. HistTypes'
      BY <1>9, Zenon DEF StartSpawn, Types, HistTypes
    <2> QED
      BY <2>1, <2>2, <2>3, <2>4, <2>5, <2>6, Zenon DEF Types
  <1>10. ASSUME StopBegin PROVE Types'
    <2>1. FileTypes'
      BY <1>10, Zenon DEF StopBegin, Types, FileTypes
    <2>2. CtrdTypes'
      BY <1>10, Zenon DEF StopBegin, Types, CtrdTypes
    <2>3. AgentTypes'
      BY <1>10, Zenon DEF StopBegin, Types, AgentTypes
    <2>4. ProcTypes'
      BY <1>10, Zenon DEF StopBegin, Types, ProcTypes
    <2>5. HostTypes'
      BY <1>10, FaultNat, ZeroNat, Zenon DEF StopBegin, Types, HostTypes
    <2>6. HistTypes'
      BY <1>10, ZenonT(60) DEF StopBegin, Types, HistTypes
    <2> QED
      BY <2>1, <2>2, <2>3, <2>4, <2>5, <2>6, Zenon DEF Types
  <1>11. ASSUME StopWait PROVE Types'
    BY <1>11, SMTT(60) DEF StopWait, GFault, Types, FileTypes, CtrdTypes, AgentTypes,
       ProcTypes, HostTypes, HistTypes
  <1>12. ASSUME StopTruncate PROVE Types'
    BY <1>12 DEF StopTruncate, Truncate, Types, FileTypes, CtrdTypes, AgentTypes,
       ProcTypes, HostTypes, HistTypes
  <1>13. ASSUME StopWrite PROVE Types'
    <2>1. FileTypes'
      BY <1>13, Zenon DEF StopWrite, Types, FileTypes
    <2>2. CtrdTypes'
      BY <1>13, Zenon DEF StopWrite, Types, CtrdTypes
    <2>3. AgentTypes'
      BY <1>13, Zenon DEF StopWrite, Done, Types, AgentTypes
    <2>4. ProcTypes'
      BY <1>13, Zenon DEF StopWrite, Types, ProcTypes
    <2>5. HostTypes'
      BY <1>13, FaultNat, ZeroNat, Zenon DEF StopWrite, Types, HostTypes
    <2>6. HistTypes'
      BY <1>13, Zenon DEF StopWrite, Types, HistTypes
    <2> QED
      BY <2>1, <2>2, <2>3, <2>4, <2>5, <2>6, Zenon DEF Types
  <1>14. ASSUME RemoveBegin PROVE Types'
    <2>1. FileTypes'
      BY <1>14, Zenon DEF RemoveBegin, Types, FileTypes
    <2>2. CtrdTypes'
      BY <1>14, Zenon DEF RemoveBegin, Types, CtrdTypes
    <2>3. AgentTypes'
      BY <1>14, ZenonT(60) DEF RemoveBegin, Removing, Forgotten, Done, Types, AgentTypes
    <2>4. ProcTypes'
      BY <1>14, Zenon DEF RemoveBegin, Types, ProcTypes
    <2>5. HostTypes'
      BY <1>14, FaultNat, ZeroNat, Zenon DEF RemoveBegin, Removing, Forgotten, Types,
         HostTypes
    <2>6. HistTypes'
      BY <1>14, Zenon DEF RemoveBegin, Removing, Forgotten, Types, HistTypes
    <2> QED
      BY <2>1, <2>2, <2>3, <2>4, <2>5, <2>6, Zenon DEF Types
  <1>15. ASSUME RemoveTask PROVE Types'
    <2>1. FileTypes'
      BY <1>15, Zenon DEF RemoveTask, Types, FileTypes
    <2>2. CtrdTypes'
      BY <1>15, Zenon DEF RemoveTask, Types, CtrdTypes
    <2>3. AgentTypes'
      BY <1>15, ZenonT(60) DEF RemoveTask, Removing, Forgotten, Done, Types, AgentTypes
    <2>4. ProcTypes'
      BY <1>15, Zenon DEF RemoveTask, Types, ProcTypes
    <2>5. HostTypes'
      BY <1>15, FaultNat, ZeroNat, Zenon DEF RemoveTask, Removing, Forgotten, Types,
         HostTypes
    <2>6. HistTypes'
      BY <1>15, Zenon DEF RemoveTask, Removing, Forgotten, Types, HistTypes
    <2> QED
      BY <2>1, <2>2, <2>3, <2>4, <2>5, <2>6, Zenon DEF Types
  <1>16. ASSUME RemoveContainer PROVE Types'
    <2>1. FileTypes'
      BY <1>16, Zenon DEF RemoveContainer, Types, FileTypes
    <2>2. CtrdTypes'
      BY <1>16, ZenonT(60) DEF RemoveContainer, Types, CtrdTypes
    <2>3. AgentTypes'
      BY <1>16 DEF RemoveContainer, Removing, Forgotten, Done, Types, AgentTypes
    <2>4. ProcTypes'
      BY <1>16, Zenon DEF RemoveContainer, Types, ProcTypes
    <2>5. HostTypes'
      BY <1>16, FaultNat, ZeroNat, Zenon DEF RemoveContainer, Removing, Forgotten,
         Types, HostTypes
    <2>6. HistTypes'
      BY <1>16, Zenon DEF RemoveContainer, Removing, Forgotten, Types, HistTypes
    <2> QED
      BY <2>1, <2>2, <2>3, <2>4, <2>5, <2>6, Zenon DEF Types
  <1>17. ASSUME RemoveFiles PROVE Types'
    BY <1>17, ZenonT(60) DEF RemoveFiles, Forgotten, Done, Types, FileTypes, CtrdTypes,
       AgentTypes, ProcTypes, HostTypes, HistTypes
  <1>18. ASSUME StatusBegin PROVE Types'
    BY <1>18, SMTT(60) DEF StatusBegin, Done, Types, FileTypes, CtrdTypes, AgentTypes,
       ProcTypes, HostTypes, HistTypes
  <1>19. ASSUME StatusQuery PROVE Types'
    BY <1>19, SMTT(60) DEF StatusQuery, GFault, query_task_status, Done, Types,
       FileTypes, CtrdTypes, AgentTypes, ProcTypes, HostTypes, HistTypes
  <1>20. ASSUME StatusTruncate PROVE Types'
    BY <1>20, SMTT(60) DEF StatusTruncate, Truncate, Types, FileTypes, CtrdTypes,
       AgentTypes, ProcTypes, HostTypes, HistTypes
  <1>21. ASSUME StatusWrite PROVE Types'
    <2>1. FileTypes'
      BY <1>21, Zenon DEF StatusWrite, Types, FileTypes, AgentTypes
    <2>2. CtrdTypes'
      BY <1>21, Zenon DEF StatusWrite, Types, CtrdTypes
    <2>3. AgentTypes'
      BY <1>21, Zenon DEF StatusWrite, Done, Types, AgentTypes
    <2>4. ProcTypes'
      BY <1>21, Zenon DEF StatusWrite, Types, ProcTypes
    <2>5. HostTypes'
      BY <1>21, FaultNat, ZeroNat, Zenon DEF StatusWrite, Types, HostTypes
    <2>6. HistTypes'
      BY <1>21, Zenon DEF StatusWrite, Types, HistTypes
    <2> QED
      BY <2>1, <2>2, <2>3, <2>4, <2>5, <2>6, Zenon DEF Types
  <1>22. ASSUME ReadLogState PROVE Types'
    BY <1>22, SMTT(60) DEF ReadLogState, Done, Types, FileTypes, CtrdTypes, AgentTypes,
       ProcTypes, HostTypes, HistTypes
  <1>23. ASSUME ReadLogFile PROVE Types'
    BY <1>23, SMTT(60) DEF ReadLogFile, Done, Types, FileTypes, CtrdTypes, AgentTypes,
       ProcTypes, HostTypes, HistTypes
  <1>24. ASSUME Output PROVE Types'
    <2>1. FileTypes'
      BY <1>24, Zenon DEF Output, Types, FileTypes
    <2>2. CtrdTypes'
      BY <1>24, Zenon DEF Output, Types, CtrdTypes
    <2>3. AgentTypes'
      BY <1>24 DEF Output, Types, AgentTypes
    <2>4. ProcTypes'
      <3>1. CASE owner \in Lives
        <4>1. produced[owner] + 1 \in Nat
          BY <3>1 DEF Types, ProcTypes
        <4> QED
          BY <1>24, <4>1, Zenon DEF Output, Types, ProcTypes
      <3>2. CASE owner \notin Lives
        BY <1>24, <3>2, Zenon DEF Output, Types, ProcTypes
      <3> QED
        BY <3>1, <3>2, Zenon
    <2>5. HostTypes'
      BY <1>24, Zenon DEF Output, Types, HostTypes
    <2>6. HistTypes'
      BY <1>24, ZenonT(60) DEF Output, Types, HistTypes
    <2> QED
      BY <2>1, <2>2, <2>3, <2>4, <2>5, <2>6, Zenon DEF Types
  <1>25. ASSUME TaskExits PROVE Types'
    BY <1>25, SMTT(60) DEF TaskExits, Types, FileTypes, CtrdTypes, AgentTypes,
       ProcTypes, HostTypes, HistTypes
  <1>26. ASSUME NEW l \in Lives, RunnerRuns(l) PROVE Types'
    <2>1. FileTypes'
      BY <1>26 DEF RunnerRuns, Types, FileTypes
    <2>2. CtrdTypes'
      <3>1. l \in Nat
        BY SMTT(60)
      <3> QED
        BY <1>26, <3>1, Zenon DEF RunnerRuns, Types, CtrdTypes
    <2>3. AgentTypes'
      BY <1>26 DEF RunnerRuns, Types, AgentTypes
    <2>4. ProcTypes'
      BY <1>26, Zenon DEF RunnerRuns, Types, ProcTypes
    <2>5. HostTypes'
      BY <1>26, FaultNat, ZeroNat, Zenon DEF RunnerRuns, Types, HostTypes
    <2>6. HistTypes'
      BY <1>26, Zenon DEF RunnerRuns, Types, HistTypes
    <2> QED
      BY <2>1, <2>2, <2>3, <2>4, <2>5, <2>6, Zenon DEF Types
  <1>27. ASSUME NEW l \in Lives, RunnerLogs(l) PROVE Types'
    <2>1. FileTypes'
      BY <1>27 DEF RunnerLogs, Types, FileTypes
    <2>2. CtrdTypes'
      BY <1>27, Zenon DEF RunnerLogs, Types, CtrdTypes
    <2>3. AgentTypes'
      BY <1>27 DEF RunnerLogs, Types, AgentTypes
    <2>4. ProcTypes'
      BY <1>27 DEF RunnerLogs, Types, ProcTypes
    <2>5. HostTypes'
      BY <1>27, Zenon DEF RunnerLogs, Types, HostTypes
    <2>6. HistTypes'
      BY <1>27, ZenonT(60) DEF RunnerLogs, Types, HistTypes
    <2> QED
      BY <2>1, <2>2, <2>3, <2>4, <2>5, <2>6, Zenon DEF Types
  <1>28. ASSUME NEW l \in Lives, RunnerFails(l) PROVE Types'
    BY <1>28, SMTT(60) DEF RunnerFails, GFault, Types, FileTypes, CtrdTypes, AgentTypes,
       ProcTypes, HostTypes, HistTypes
  <1>29. ASSUME NEW l \in Lives, RunnerSeesExit(l) PROVE Types'
    BY <1>29, SMTT(60) DEF RunnerSeesExit, Types, FileTypes, CtrdTypes, AgentTypes,
       ProcTypes, HostTypes, HistTypes
  <1>30. ASSUME NEW l \in Lives, RunnerDrained(l) PROVE Types'
    BY <1>30 DEF RunnerDrained, Types, FileTypes, CtrdTypes, AgentTypes, ProcTypes,
       HostTypes, HistTypes
  <1>31. ASSUME NEW l \in Lives, WatcherSeesExit(l) PROVE Types'
    <2>1. FileTypes'
      BY <1>31, Zenon DEF WatcherSeesExit, Types, FileTypes
    <2>2. CtrdTypes'
      BY <1>31, ZenonT(60) DEF WatcherSeesExit, Types, CtrdTypes
    <2>3. AgentTypes'
      BY <1>31 DEF WatcherSeesExit, Types, AgentTypes
    <2>4. ProcTypes'
      BY <1>31, Zenon DEF WatcherSeesExit, Types, ProcTypes
    <2>5. HostTypes'
      BY <1>31, Zenon DEF WatcherSeesExit, Types, HostTypes
    <2>6. HistTypes'
      BY <1>31, ZenonT(60) DEF WatcherSeesExit, Types, HistTypes
    <2> QED
      BY <2>1, <2>2, <2>3, <2>4, <2>5, <2>6, Zenon DEF Types
  <1>32. ASSUME NEW l \in Lives, AuxTruncate(l) PROVE Types'
    BY <1>32, SMTT(60) DEF AuxTruncate, Types, FileTypes, CtrdTypes, AgentTypes,
       ProcTypes, HostTypes, HistTypes
  <1>33. ASSUME NEW l \in Lives, AuxWrite(l) PROVE Types'
    <2>1. FileTypes'
      BY <1>33, Zenon DEF AuxWrite, Types, FileTypes
    <2>2. CtrdTypes'
      BY <1>33, Zenon DEF AuxWrite, Types, CtrdTypes
    <2>3. AgentTypes'
      BY <1>33 DEF AuxWrite, Types, AgentTypes
    <2>4. ProcTypes'
      BY <1>33, Zenon DEF AuxWrite, Types, ProcTypes
    <2>5. HostTypes'
      BY <1>33, FaultNat, ZeroNat, Zenon DEF AuxWrite, Types, HostTypes
    <2>6. HistTypes'
      BY <1>33, Zenon DEF AuxWrite, Types, HistTypes
    <2> QED
      BY <2>1, <2>2, <2>3, <2>4, <2>5, <2>6, Zenon DEF Types
  <1>34. CASE UNCHANGED gvars
    BY <1>34, SMTT(60) DEF gvars, Types, FileTypes, CtrdTypes, AgentTypes, ProcTypes,
       HostTypes, HistTypes
  <1> QED
    BY <1>1, <1>2, <1>3, <1>4, <1>5, <1>6, <1>7, <1>8, <1>9, <1>10, <1>11, <1>12, <1>13,
       <1>14, <1>15, <1>16, <1>17, <1>18, <1>19, <1>20, <1>21, <1>22, <1>23, <1>24,
       <1>25, <1>26, <1>27, <1>28, <1>29, <1>30, <1>31, <1>32, <1>33, <1>34, Zenon
       DEF GuestNext, AgentWorks, AuxWorks

\* A life begins only below the bound, and only the processes of its mode exist.
LEMMA NumbersStep == GuestInv /\ [GuestNext]_gvars => Numbers' /\ Mode'
  <1> SUFFICES ASSUME GuestInv, [GuestNext]_gvars PROVE Numbers' /\ Mode'
    BY Zenon
  <1> USE GuestConstants DEF GuestInv, Lives, files, ctrd, agentl, procs, hostlog,
          ghist, told,
          State, Task, Creating, Starting, Stopping, Deleting, Writing, Asking
  <1>1. ASSUME CreateBegin PROVE Numbers' /\ Mode'
    BY <1>1, Zenon DEF CreateBegin, Numbers, Mode
  <1>2. ASSUME CreateCtr PROVE Numbers' /\ Mode'
    BY <1>2, Zenon DEF CreateCtr, Numbers, Mode
  <1>3. ASSUME CreateMeta PROVE Numbers' /\ Mode'
    BY <1>3, Zenon DEF CreateMeta, Numbers, Mode
  <1>4. ASSUME CreateTruncate PROVE Numbers' /\ Mode'
    BY <1>4, Zenon DEF CreateTruncate, Truncate, Numbers, Mode
  <1>5. ASSUME CreateWrite PROVE Numbers' /\ Mode'
    BY <1>5, ZenonT(60) DEF CreateWrite, Done, Numbers, Mode
  <1>6. ASSUME StartBegin PROVE Numbers' /\ Mode'
    BY <1>6 DEF StartBegin, Types, CtrdTypes, HostTypes, Numbers, Mode
  <1>7. ASSUME StartTruncate PROVE Numbers' /\ Mode'
    BY <1>7, Zenon DEF StartTruncate, Truncate, Numbers, Mode
  <1>8. ASSUME StartWrite PROVE Numbers' /\ Mode'
    BY <1>8, ZenonT(60) DEF StartWrite, Numbers, Mode
  <1>9. ASSUME StartSpawn PROVE Numbers' /\ Mode'
    BY <1>9, SMTT(60) DEF StartSpawn, GFault, Done, Types, FileTypes, CtrdTypes,
       AgentTypes, ProcTypes, HostTypes, HistTypes, Numbers, Mode
  <1>10. ASSUME StopBegin PROVE Numbers' /\ Mode'
    BY <1>10, Zenon DEF StopBegin, Numbers, Mode
  <1>11. ASSUME StopWait PROVE Numbers' /\ Mode'
    BY <1>11, Zenon DEF StopWait, Numbers, Mode
  <1>12. ASSUME StopTruncate PROVE Numbers' /\ Mode'
    BY <1>12, Zenon DEF StopTruncate, Truncate, Numbers, Mode
  <1>13. ASSUME StopWrite PROVE Numbers' /\ Mode'
    BY <1>13, Zenon DEF StopWrite, Done, Numbers, Mode
  <1>14. ASSUME RemoveBegin PROVE Numbers' /\ Mode'
    BY <1>14, Zenon DEF RemoveBegin, Removing, Forgotten, Done, Numbers, Mode
  <1>15. ASSUME RemoveTask PROVE Numbers' /\ Mode'
    BY <1>15, Zenon DEF RemoveTask, Removing, Forgotten, Done, Numbers, Mode
  <1>16. ASSUME RemoveContainer PROVE Numbers' /\ Mode'
    BY <1>16, Zenon DEF RemoveContainer, Removing, Forgotten, Done, Numbers, Mode
  <1>17. ASSUME RemoveFiles PROVE Numbers' /\ Mode'
    BY <1>17, Zenon DEF RemoveFiles, Forgotten, Done, Numbers, Mode
  <1>18. ASSUME StatusBegin PROVE Numbers' /\ Mode'
    BY <1>18, Zenon DEF StatusBegin, Done, Numbers, Mode
  <1>19. ASSUME StatusQuery PROVE Numbers' /\ Mode'
    BY <1>19, Zenon DEF StatusQuery, Done, Numbers, Mode
  <1>20. ASSUME StatusTruncate PROVE Numbers' /\ Mode'
    BY <1>20, Zenon DEF StatusTruncate, Truncate, Numbers, Mode
  <1>21. ASSUME StatusWrite PROVE Numbers' /\ Mode'
    BY <1>21, Zenon DEF StatusWrite, Done, Numbers, Mode
  <1>22. ASSUME ReadLogState PROVE Numbers' /\ Mode'
    BY <1>22, Zenon DEF ReadLogState, Done, Numbers, Mode
  <1>23. ASSUME ReadLogFile PROVE Numbers' /\ Mode'
    BY <1>23, ZenonT(60) DEF ReadLogFile, Done, Numbers, Mode
  <1>24. ASSUME Output PROVE Numbers' /\ Mode'
    BY <1>24 DEF Output, Types, CtrdTypes, Numbers, Mode
  <1>25. ASSUME TaskExits PROVE Numbers' /\ Mode'
    BY <1>25, ZenonT(60) DEF TaskExits, Numbers, Mode
  <1>26. ASSUME NEW l \in Lives, RunnerRuns(l) PROVE Numbers' /\ Mode'
    BY <1>26, SMTT(60) DEF RunnerRuns, Types, CtrdTypes, ProcTypes, Numbers, Mode
  <1>27. ASSUME NEW l \in Lives, RunnerLogs(l) PROVE Numbers' /\ Mode'
    BY <1>27 DEF RunnerLogs, Numbers, Mode
  <1>28. ASSUME NEW l \in Lives, RunnerFails(l) PROVE Numbers' /\ Mode'
    BY <1>28, SMTT(60) DEF RunnerFails, ProcTypes, Numbers, Mode
  <1>29. ASSUME NEW l \in Lives, RunnerSeesExit(l) PROVE Numbers' /\ Mode'
    BY <1>29, SMTT(60) DEF RunnerSeesExit, ProcTypes, Numbers, Mode
  <1>30. ASSUME NEW l \in Lives, RunnerDrained(l) PROVE Numbers' /\ Mode'
    BY <1>30 DEF RunnerDrained, ProcTypes, Numbers, Mode
  <1>31. ASSUME NEW l \in Lives, WatcherSeesExit(l) PROVE Numbers' /\ Mode'
    BY <1>31, ZenonT(60) DEF WatcherSeesExit, Types, ProcTypes, Numbers, Mode
  <1>32. ASSUME NEW l \in Lives, AuxTruncate(l) PROVE Numbers' /\ Mode'
    BY <1>32, SMTT(60) DEF AuxTruncate, ProcTypes, Numbers, Mode
  <1>33. ASSUME NEW l \in Lives, AuxWrite(l) PROVE Numbers' /\ Mode'
    BY <1>33 DEF AuxWrite, CtrdTypes, Numbers, Mode
  <1>34. CASE UNCHANGED gvars
    BY <1>34, ZenonT(60) DEF gvars, Numbers, Mode
  <1> QED
    BY <1>1, <1>2, <1>3, <1>4, <1>5, <1>6, <1>7, <1>8, <1>9, <1>10, <1>11, <1>12, <1>13,
       <1>14, <1>15, <1>16, <1>17, <1>18, <1>19, <1>20, <1>21, <1>22, <1>23, <1>24,
       <1>25, <1>26, <1>27, <1>28, <1>29, <1>30, <1>31, <1>32, <1>33, <1>34, Zenon
       DEF GuestNext, AgentWorks, AuxWorks

\* What the agent knows at each program counter: only the agent deletes
\* containers, and containerd answers in between.
LEMMA AgentStep == GuestInv /\ [GuestNext]_gvars => Agent'
  <1> SUFFICES ASSUME GuestInv, [GuestNext]_gvars PROVE Agent'
    BY Zenon
  <1> USE GuestConstants DEF GuestInv, Lives, files, ctrd, agentl, procs, hostlog,
          ghist, told,
          State, Task, Creating, Starting, Stopping, Deleting, Writing, Asking
  <1>1. ASSUME CreateBegin PROVE Agent'
    BY <1>1, Zenon DEF CreateBegin, Agent
  <1>2. ASSUME CreateCtr PROVE Agent'
    BY <1>2, Zenon DEF CreateCtr, Agent
  <1>3. ASSUME CreateMeta PROVE Agent'
    BY <1>3, Zenon DEF CreateMeta, Undo, Agent
  <1>4. ASSUME CreateTruncate PROVE Agent'
    BY <1>4, Zenon DEF CreateTruncate, Truncate, Agent
  <1>5. ASSUME CreateWrite PROVE Agent'
    BY <1>5, Zenon DEF CreateWrite, Undo, Done, Agent
  <1>6. ASSUME StartBegin PROVE Agent'
    BY <1>6, Zenon DEF StartBegin, Agent
  <1>7. ASSUME StartTruncate PROVE Agent'
    BY <1>7, Zenon DEF StartTruncate, Truncate, Agent
  <1>8. ASSUME StartWrite PROVE Agent'
    BY <1>8, Zenon DEF StartWrite, Agent
  <1>9. ASSUME StartSpawn PROVE Agent'
    BY <1>9, ZenonT(60) DEF StartSpawn, Done, Agent
  <1>10. ASSUME StopBegin PROVE Agent'
    BY <1>10 DEF StopBegin, Unborn, Types, AgentTypes, HostTypes, HistTypes, Agent
  <1>11. ASSUME StopWait PROVE Agent'
    BY <1>11, Zenon DEF StopWait, Agent
  <1>12. ASSUME StopTruncate PROVE Agent'
    BY <1>12, Zenon DEF StopTruncate, Truncate, Agent
  <1>13. ASSUME StopWrite PROVE Agent'
    BY <1>13, ZenonT(60) DEF StopWrite, Done, Agent
  <1>14. ASSUME RemoveBegin PROVE Agent'
    BY <1>14, SMTT(60) DEF RemoveBegin, Removing, Forgotten, Done, Unborn, Types,
       HostTypes, HistTypes, Agent
  <1>15. ASSUME RemoveTask PROVE Agent'
    BY <1>15, SMTT(60) DEF RemoveTask, Removing, Forgotten, Done, FileTypes, CtrdTypes,
       AgentTypes, ProcTypes, HostTypes, HistTypes, Agent
  <1>16. ASSUME RemoveContainer PROVE Agent'
    BY <1>16 DEF RemoveContainer, Removing, Forgotten, Done, Types, FileTypes,
       CtrdTypes, AgentTypes, ProcTypes, HostTypes, HistTypes, Agent
  <1>17. ASSUME RemoveFiles PROVE Agent'
    BY <1>17, Zenon DEF RemoveFiles, Forgotten, Done, Agent
  <1>18. ASSUME StatusBegin PROVE Agent'
    BY <1>18, Zenon DEF StatusBegin, Done, Agent
  <1>19. ASSUME StatusQuery PROVE Agent'
    BY <1>19, Zenon DEF StatusQuery, query_task_status, Done, Agent
  <1>20. ASSUME StatusTruncate PROVE Agent'
    BY <1>20, Zenon DEF StatusTruncate, Truncate, Agent
  <1>21. ASSUME StatusWrite PROVE Agent'
    BY <1>21, Zenon DEF StatusWrite, Done, Agent
  <1>22. ASSUME ReadLogState PROVE Agent'
    BY <1>22, Zenon DEF ReadLogState, Done, Agent
  <1>23. ASSUME ReadLogFile PROVE Agent'
    BY <1>23, Zenon DEF ReadLogFile, Done, Agent
  <1>24. ASSUME Output PROVE Agent'
    BY <1>24, Zenon DEF Output, Agent
  <1>25. ASSUME TaskExits PROVE Agent'
    BY <1>25, ZenonT(60) DEF TaskExits, Agent
  <1>26. ASSUME NEW l \in Lives, RunnerRuns(l) PROVE Agent'
    BY <1>26 DEF RunnerRuns, FileTypes, CtrdTypes, AgentTypes, ProcTypes, HostTypes,
       HistTypes, Agent
  <1>27. ASSUME NEW l \in Lives, RunnerLogs(l) PROVE Agent'
    BY <1>27, Zenon DEF RunnerLogs, Agent
  <1>28. ASSUME NEW l \in Lives, RunnerFails(l) PROVE Agent'
    BY <1>28, Zenon DEF RunnerFails, Agent
  <1>29. ASSUME NEW l \in Lives, RunnerSeesExit(l) PROVE Agent'
    BY <1>29, Zenon DEF RunnerSeesExit, Agent
  <1>30. ASSUME NEW l \in Lives, RunnerDrained(l) PROVE Agent'
    BY <1>30, Zenon DEF RunnerDrained, Agent
  <1>31. ASSUME NEW l \in Lives, WatcherSeesExit(l) PROVE Agent'
    BY <1>31, Zenon DEF WatcherSeesExit, Agent
  <1>32. ASSUME NEW l \in Lives, AuxTruncate(l) PROVE Agent'
    BY <1>32, Zenon DEF AuxTruncate, Agent
  <1>33. ASSUME NEW l \in Lives, AuxWrite(l) PROVE Agent'
    BY <1>33, Zenon DEF AuxWrite, Agent
  <1>34. CASE UNCHANGED gvars
    BY <1>34, Zenon DEF gvars, Agent
  <1> QED
    BY <1>1, <1>2, <1>3, <1>4, <1>5, <1>6, <1>7, <1>8, <1>9, <1>10, <1>11, <1>12, <1>13,
       <1>14, <1>15, <1>16, <1>17, <1>18, <1>19, <1>20, <1>21, <1>22, <1>23, <1>24,
       <1>25, <1>26, <1>27, <1>28, <1>29, <1>30, <1>31, <1>32, <1>33, <1>34, SMTT(60)
       DEF GuestNext, AgentWorks, AuxWorks

\* stop_container ends the task, or finds none; remove_container takes the task,
\* the container and the files; a runner that comes later is recorded as missed.
LEMMA StopsStep == GuestInv /\ [GuestNext]_gvars => Pending' /\ Ended'
  <1> SUFFICES ASSUME GuestInv, [GuestNext]_gvars PROVE Pending' /\ Ended'
    BY Zenon
  <1> USE GuestConstants DEF GuestInv, Lives, files, ctrd, agentl, procs, hostlog,
          ghist, told,
          State, Task, Creating, Starting, Stopping, Deleting, Writing, Asking
  <1>1. ASSUME CreateBegin PROVE Pending' /\ Ended'
    BY <1>1, Zenon DEF CreateBegin, Pending, Ended, Unborn
  <1>2. ASSUME CreateCtr PROVE Pending' /\ Ended'
    BY <1>2, Zenon DEF CreateCtr, Pending, Ended, Unborn
  <1>3. ASSUME CreateMeta PROVE Pending' /\ Ended'
    BY <1>3, Zenon DEF CreateMeta, Undo, Pending, Ended, Unborn
  <1>4. ASSUME CreateTruncate PROVE Pending' /\ Ended'
    BY <1>4, Zenon DEF CreateTruncate, Truncate, Pending, Ended, Unborn
  <1>5. ASSUME CreateWrite PROVE Pending' /\ Ended'
    BY <1>5, Zenon DEF CreateWrite, Undo, Done, Pending, Ended, Unborn
  <1>6. ASSUME StartBegin PROVE Pending' /\ Ended'
    BY <1>6, Zenon DEF StartBegin, Pending, Ended
  <1>7. ASSUME StartTruncate PROVE Pending' /\ Ended'
    BY <1>7, Zenon DEF StartTruncate, Truncate, Agent, Pending, Ended
  <1>8. ASSUME StartWrite PROVE Pending' /\ Ended'
    BY <1>8, Zenon DEF StartWrite, Agent, Pending, Ended
  <1>9. ASSUME StartSpawn PROVE Pending' /\ Ended'
    BY <1>9, ZenonT(60) DEF StartSpawn, Done, Agent, Pending, Ended
  <1>10. ASSUME StopBegin PROVE Pending' /\ Ended'
    BY <1>10 DEF StopBegin, Unborn, Types, AgentTypes, HistTypes, Mode, Pending, Ended
  <1>11. ASSUME StopWait PROVE Pending' /\ Ended'
    BY <1>11, Zenon DEF StopWait, query_task_status, Agent, Pending, Ended
  <1>12. ASSUME StopTruncate PROVE Pending' /\ Ended'
    BY <1>12, Zenon DEF StopTruncate, Truncate, Agent, Pending, Ended
  <1>13. ASSUME StopWrite PROVE Pending' /\ Ended'
    BY <1>13, Zenon DEF StopWrite, Done, Agent, Pending, Ended
  <1>14. ASSUME RemoveBegin PROVE Pending' /\ Ended'
    BY <1>14, Zenon DEF RemoveBegin, Removing, Forgotten, Done, Unborn, Pending, Ended
  <1>15. ASSUME RemoveTask PROVE Pending' /\ Ended'
    BY <1>15, Zenon DEF RemoveTask, Removing, Forgotten, Done, Pending, Ended, Unborn
  <1>16. ASSUME RemoveContainer PROVE Pending' /\ Ended'
    BY <1>16, Zenon DEF RemoveContainer, Forgotten, Done, Pending, Ended, Unborn
  <1>17. ASSUME RemoveFiles PROVE Pending' /\ Ended'
    BY <1>17, Zenon DEF RemoveFiles, Forgotten, Done, Pending, Ended, Unborn
  <1>18. ASSUME StatusBegin PROVE Pending' /\ Ended'
    BY <1>18, Zenon DEF StatusBegin, Done, Pending, Ended, Unborn
  <1>19. ASSUME StatusQuery PROVE Pending' /\ Ended'
    BY <1>19, Zenon DEF StatusQuery, Done, Pending, Ended, Unborn
  <1>20. ASSUME StatusTruncate PROVE Pending' /\ Ended'
    BY <1>20, Zenon DEF StatusTruncate, Truncate, Pending, Ended, Unborn
  <1>21. ASSUME StatusWrite PROVE Pending' /\ Ended'
    BY <1>21, Zenon DEF StatusWrite, Done, Pending, Ended, Unborn
  <1>22. ASSUME ReadLogState PROVE Pending' /\ Ended'
    BY <1>22, Zenon DEF ReadLogState, Done, Pending, Ended, Unborn
  <1>23. ASSUME ReadLogFile PROVE Pending' /\ Ended'
    BY <1>23, Zenon DEF ReadLogFile, Done, Pending, Ended, Unborn
  <1>24. ASSUME Output PROVE Pending' /\ Ended'
    BY <1>24, Zenon DEF Output, Pending, Ended, Unborn
  <1>25. ASSUME TaskExits PROVE Pending' /\ Ended'
    BY <1>25, ZenonT(60) DEF TaskExits, Pending, Ended, Unborn
  <1>26. ASSUME NEW l \in Lives, RunnerRuns(l) PROVE Pending' /\ Ended'
    BY <1>26 DEF RunnerRuns, AgentTypes, ProcTypes, HostTypes, HistTypes, Agent, Mode,
       Pending, Ended, Unborn
  <1>27. ASSUME NEW l \in Lives, RunnerLogs(l) PROVE Pending' /\ Ended'
    BY <1>27, ZenonT(60) DEF RunnerLogs, Pending, Ended, Unborn
  <1>28. ASSUME NEW l \in Lives, RunnerFails(l) PROVE Pending' /\ Ended'
    BY <1>28, SMTT(60) DEF RunnerFails, ProcTypes, Pending, Ended, Unborn
  <1>29. ASSUME NEW l \in Lives, RunnerSeesExit(l) PROVE Pending' /\ Ended'
    BY <1>29, SMTT(60) DEF RunnerSeesExit, ProcTypes, Pending, Ended, Unborn
  <1>30. ASSUME NEW l \in Lives, RunnerDrained(l) PROVE Pending' /\ Ended'
    BY <1>30 DEF RunnerDrained, ProcTypes, Pending, Ended, Unborn
  <1>31. ASSUME NEW l \in Lives, WatcherSeesExit(l) PROVE Pending' /\ Ended'
    BY <1>31, ZenonT(60) DEF WatcherSeesExit, Pending, Ended, Unborn
  <1>32. ASSUME NEW l \in Lives, AuxTruncate(l) PROVE Pending' /\ Ended'
    BY <1>32, SMTT(60) DEF AuxTruncate, Pending, Ended, Unborn
  <1>33. ASSUME NEW l \in Lives, AuxWrite(l) PROVE Pending' /\ Ended'
    BY <1>33 DEF AuxWrite, Pending, Ended, Unborn
  <1>34. CASE UNCHANGED gvars
    BY <1>34, Zenon DEF gvars, Pending, Ended, Unborn
  <1> QED
    BY <1>1, <1>2, <1>3, <1>4, <1>5, <1>6, <1>7, <1>8, <1>9, <1>10, <1>11, <1>12, <1>13,
       <1>14, <1>15, <1>16, <1>17, <1>18, <1>19, <1>20, <1>21, <1>22, <1>23, <1>24,
       <1>25, <1>26, <1>27, <1>28, <1>29, <1>30, <1>31, <1>32, <1>33, <1>34, ZenonT(60)
       DEF GuestNext, AgentWorks, AuxWorks

\* Without the recorded races a watcher or a runner belongs to the container that
\* is there now.
LEMMA CurrentStep == GuestInv /\ [GuestNext]_gvars => Current'
  <1> SUFFICES ASSUME GuestInv, [GuestNext]_gvars PROVE Current'
    BY Zenon
  <1> USE GuestConstants DEF GuestInv, Lives, files, ctrd, agentl, procs, hostlog,
          ghist, told,
          State, Task, Creating, Starting, Stopping, Deleting, Writing, Asking
  <1>1. ASSUME CreateBegin PROVE Current'
    BY <1>1, Zenon DEF CreateBegin, Current
  <1>2. ASSUME CreateCtr PROVE Current'
    BY <1>2, Zenon DEF CreateCtr, Agent, Current
  <1>3. ASSUME CreateMeta PROVE Current'
    BY <1>3, Zenon DEF CreateMeta, Undo, Current
  <1>4. ASSUME CreateTruncate PROVE Current'
    BY <1>4, Zenon DEF CreateTruncate, Truncate, Current
  <1>5. ASSUME CreateWrite PROVE Current'
    BY <1>5, Zenon DEF CreateWrite, Undo, Agent, Current
  <1>6. ASSUME StartBegin PROVE Current'
    <2>1. CASE UNCHANGED ctrd
      BY <1>6, <2>1, Zenon DEF StartBegin, Current
    <2>2. CASE ~via_run /\ task = "none"
      BY <1>6, <2>2, Zenon DEF StartBegin, Agent, Current
    <2> QED
      BY <1>6, <2>1, <2>2, Zenon DEF StartBegin
  <1>7. ASSUME StartTruncate PROVE Current'
    BY <1>7, Zenon DEF StartTruncate, Truncate, Current
  <1>8. ASSUME StartWrite PROVE Current'
    BY <1>8, Zenon DEF StartWrite, Current
  <1>9. ASSUME StartSpawn PROVE Current'
    <2>1. CASE UNCHANGED <<life, aux, known>>
      BY <1>9, <2>1, ZenonT(60) DEF StartSpawn, Current
    <2>2. CASE known' = "started" /\ via_run
      BY <1>9, <2>2, SMTT(60) DEF StartSpawn, Done, Types, ProcTypes, CtrdTypes,
         Numbers, Agent, Current
    <2>3. CASE known' = "started" /\ ~via_run
      BY <1>9, <2>3, ZenonT(60) DEF StartSpawn, Types, ProcTypes, Current
    <2> QED
      BY <1>9, <2>1, <2>2, <2>3, Zenon DEF StartSpawn
  <1>10. ASSUME StopBegin PROVE Current'
    BY <1>10 DEF StopBegin, Types, CtrdTypes, AgentTypes, ProcTypes, HostTypes,
       HistTypes, Numbers, Agent, Mode, Current
  <1>11. ASSUME StopWait PROVE Current'
    BY <1>11, Zenon DEF StopWait, Current
  <1>12. ASSUME StopTruncate PROVE Current'
    BY <1>12, Zenon DEF StopTruncate, Truncate, Current
  <1>13. ASSUME StopWrite PROVE Current'
    BY <1>13, Zenon DEF StopWrite, Current
  <1>14. ASSUME RemoveBegin PROVE Current'
    <2>1. CASE Removing("remove_task")
      BY <1>14, <2>1, Zenon DEF RemoveBegin, Removing, Current
    <2>2. CASE Forgotten
      BY <1>14, <2>2, Zenon DEF RemoveBegin, Forgotten, Current
    <2> QED
      BY <1>14, <2>1, <2>2, Zenon DEF RemoveBegin
  <1>15. ASSUME RemoveTask PROVE Current'
    BY <1>15, Zenon DEF RemoveTask, Removing, Forgotten, Current
  <1>16. ASSUME RemoveContainer PROVE Current'
    BY <1>16, Zenon DEF RemoveContainer, Removing, Forgotten, Current
  <1>17. ASSUME RemoveFiles PROVE Current'
    BY <1>17, Zenon DEF RemoveFiles, Forgotten, Current
  <1>18. ASSUME StatusBegin PROVE Current'
    BY <1>18, Zenon DEF StatusBegin, Current
  <1>19. ASSUME StatusQuery PROVE Current'
    BY <1>19, Zenon DEF StatusQuery, Current
  <1>20. ASSUME StatusTruncate PROVE Current'
    BY <1>20, Zenon DEF StatusTruncate, Truncate, Current
  <1>21. ASSUME StatusWrite PROVE Current'
    BY <1>21, Zenon DEF StatusWrite, Current
  <1>22. ASSUME ReadLogState PROVE Current'
    BY <1>22, Zenon DEF ReadLogState, Current
  <1>23. ASSUME ReadLogFile PROVE Current'
    BY <1>23, Zenon DEF ReadLogFile, Current
  <1>24. ASSUME Output PROVE Current'
    BY <1>24, Zenon DEF Output, Current
  <1>25. ASSUME TaskExits PROVE Current'
    BY <1>25, Zenon DEF TaskExits, Current
  <1>26. ASSUME NEW l \in Lives, RunnerRuns(l) PROVE Current'
    <2> SUFFICES ASSUME ~stale, ~blind, ~again PROVE Current'
      BY <1>26, Zenon DEF RunnerRuns, Current
    <2>1. l = life /\ known = "started"
      BY <1>26, ZenonT(60) DEF RunnerRuns, Current
    <2>2. CASE aux' = [aux EXCEPT ![l] = "following"] /\ owner' = l
      BY <1>26, <2>1, <2>2, SMTT(60) DEF RunnerRuns, Current, Types
    <2>3. CASE aux' = [aux EXCEPT ![l] = "trunc"]
               /\ (UNCHANGED <<record, owner>> \/ owner' = IF record' THEN l ELSE owner)
      BY <1>26, <2>1, <2>3 DEF RunnerRuns, Current, Types
    <2> QED
      BY <1>26, <2>2, <2>3, Zenon DEF RunnerRuns
  <1>27. ASSUME NEW l \in Lives, RunnerLogs(l) PROVE Current'
    BY <1>27, ZenonT(60) DEF RunnerLogs, Current
  <1>28. ASSUME NEW l \in Lives, RunnerFails(l) PROVE Current'
    BY <1>28, SMTT(60) DEF RunnerFails, ProcTypes, Current
  <1>29. ASSUME NEW l \in Lives, RunnerSeesExit(l) PROVE Current'
    BY <1>29, SMTT(60) DEF RunnerSeesExit, ProcTypes, Current
  <1>30. ASSUME NEW l \in Lives, RunnerDrained(l) PROVE Current'
    BY <1>30 DEF RunnerDrained, ProcTypes, Current
  <1>31. ASSUME NEW l \in Lives, WatcherSeesExit(l) PROVE Current'
    BY <1>31, ZenonT(60) DEF WatcherSeesExit, Types, ProcTypes, Current
  <1>32. ASSUME NEW l \in Lives, AuxTruncate(l) PROVE Current'
    BY <1>32, SMTT(60) DEF AuxTruncate, ProcTypes, Current
  <1>33. ASSUME NEW l \in Lives, AuxWrite(l) PROVE Current'
    BY <1>33 DEF AuxWrite, ProcTypes, Current
  <1>34. CASE UNCHANGED gvars
    BY <1>34, Zenon DEF gvars, Current
  <1> QED
    BY <1>1, <1>2, <1>3, <1>4, <1>5, <1>6, <1>7, <1>8, <1>9, <1>10, <1>11, <1>12, <1>13,
       <1>14, <1>15, <1>16, <1>17, <1>18, <1>19, <1>20, <1>21, <1>22, <1>23, <1>24,
       <1>25, <1>26, <1>27, <1>28, <1>29, <1>30, <1>31, <1>32, <1>33, <1>34, ZenonT(60)
       DEF GuestNext, AgentWorks, AuxWorks

\* What write_state of the agent, the watcher and the runner may leave in the
\* state file.
LEMMA FilesStep == GuestInv /\ [GuestNext]_gvars => Runner' /\ Watcher' /\ Exits'
  <1> SUFFICES ASSUME GuestInv, [GuestNext]_gvars PROVE Runner' /\ Watcher' /\ Exits'
    BY Zenon
  <1> USE GuestConstants DEF GuestInv, Lives, files, ctrd, agentl, procs, hostlog,
          ghist, told,
          State, Task, Creating, Starting, Stopping, Deleting, Writing, Asking
  <1>1. ASSUME CreateBegin PROVE Runner' /\ Watcher' /\ Exits'
    BY <1>1, Zenon DEF CreateBegin, Runner, Watcher, Exits, NoFalseExit
  <1>2. ASSUME CreateCtr PROVE Runner' /\ Watcher' /\ Exits'
    BY <1>2, Zenon DEF CreateCtr, Agent, Runner, Watcher, Exits, NoFalseExit
  <1>3. ASSUME CreateMeta PROVE Runner' /\ Watcher' /\ Exits'
    BY <1>3, Zenon DEF CreateMeta, Agent, Current, Runner, Watcher, Exits, NoFalseExit
  <1>4. ASSUME CreateTruncate PROVE Runner' /\ Watcher' /\ Exits'
    BY <1>4, Zenon DEF CreateTruncate, Truncate, Agent, Runner, Watcher, Exits,
       NoFalseExit
  <1>5. ASSUME CreateWrite PROVE Runner' /\ Watcher' /\ Exits'
    BY <1>5, Zenon DEF CreateWrite, Done, Agent, Current, Runner, Watcher, Exits,
       NoFalseExit
  <1>6. ASSUME StartBegin PROVE Runner' /\ Watcher' /\ Exits'
    <2>1. CASE UNCHANGED ctrd
      BY <1>6, <2>1, Zenon DEF StartBegin, Runner, Watcher, Exits, NoFalseExit, Finished
    <2>2. CASE ~via_run /\ task = "none"
      <3>1. Runner'
        BY <1>6, <2>2, Zenon DEF StartBegin, Runner
      <3>2. known = "created"
        BY <1>6, <2>2, Zenon DEF StartBegin, Agent, Types, AgentTypes
      <3>3. state # "EXITED" \/ stale
        BY <1>6, <2>2, <3>2, Zenon DEF StartBegin, Watcher
      <3>4. Watcher' /\ Exits'
        BY <1>6, <2>2, <3>2, <3>3, Zenon DEF StartBegin, Agent, Current, Watcher, Exits,
           NoFalseExit
      <3> QED
        BY <3>1, <3>4, Zenon
    <2> QED
      BY <1>6, <2>1, <2>2, Zenon DEF StartBegin
  <1>7. ASSUME StartTruncate PROVE Runner' /\ Watcher' /\ Exits'
    BY <1>7, Zenon DEF StartTruncate, Truncate, Agent, Runner, Watcher, Exits,
       NoFalseExit
  <1>8. ASSUME StartWrite PROVE Runner' /\ Watcher' /\ Exits'
    BY <1>8, Zenon DEF StartWrite, Agent, Runner, Watcher, Exits, NoFalseExit
  <1>9. ASSUME StartSpawn PROVE Runner' /\ Watcher' /\ Exits'
    BY <1>9, ZenonT(60) DEF StartSpawn, Done, Types, ProcTypes, HostTypes, HistTypes,
       Agent, Mode, Pending, Ended, Current, Runner, Watcher, Exits, NoFalseExit,
       Finished
  <1>10. ASSUME StopBegin PROVE Runner' /\ Watcher' /\ Exits'
    <2>1. Runner'
      BY <1>10, SMTT(60) DEF StopBegin, GFault, Unborn, Types, HistTypes, Agent, Runner,
         Finished
    <2>2. Watcher' /\ Exits'
      BY <1>10 DEF StopBegin, Unborn, Types, HistTypes, Agent, Watcher, Exits,
         NoFalseExit
    <2> QED
      BY <2>1, <2>2, Zenon
  <1>11. ASSUME StopWait PROVE Runner' /\ Watcher' /\ Exits'
    BY <1>11, Zenon DEF StopWait, Runner, Watcher, Exits, NoFalseExit, Finished
  <1>12. ASSUME StopTruncate PROVE Runner' /\ Watcher' /\ Exits'
    BY <1>12, Zenon DEF StopTruncate, Truncate, Ended, Runner, Watcher, Exits,
       NoFalseExit
  <1>13. ASSUME StopWrite PROVE Runner' /\ Watcher' /\ Exits'
    BY <1>13, ZenonT(60) DEF StopWrite, Done, Agent, Ended, Runner, Watcher, Exits,
       NoFalseExit
  <1>14. ASSUME RemoveBegin PROVE Runner' /\ Watcher' /\ Exits'
    BY <1>14, SMTT(60) DEF RemoveBegin, Removing, Forgotten, Done, Unborn, Types,
       AgentTypes, HistTypes, Runner, Watcher, Exits, NoFalseExit, Finished
  <1>15. ASSUME RemoveTask PROVE Runner' /\ Watcher' /\ Exits'
    BY <1>15, Zenon DEF RemoveTask, Removing, Forgotten, Done, Runner, Watcher, Exits,
       NoFalseExit
  <1>16. ASSUME RemoveContainer PROVE Runner' /\ Watcher' /\ Exits'
    BY <1>16, Zenon DEF RemoveContainer, Removing, Forgotten, Done, Runner, Watcher,
       Exits, NoFalseExit
  <1>17. ASSUME RemoveFiles PROVE Runner' /\ Watcher' /\ Exits'
    BY <1>17, Zenon DEF RemoveFiles, Forgotten, Done, Runner, Watcher, Exits,
       NoFalseExit
  <1>18. ASSUME StatusBegin PROVE Runner' /\ Watcher' /\ Exits'
    BY <1>18, Zenon DEF StatusBegin, Done, Runner, Watcher, Exits, NoFalseExit, Finished
  <1>19. ASSUME StatusQuery PROVE Runner' /\ Watcher' /\ Exits'
    BY <1>19, Zenon DEF StatusQuery, query_task_status, Done, Agent, Runner, Watcher,
       Exits, NoFalseExit, Finished
  <1>20. ASSUME StatusTruncate PROVE Runner' /\ Watcher' /\ Exits'
    BY <1>20, Zenon DEF StatusTruncate, Truncate, Runner, Watcher, Exits, NoFalseExit,
       Finished
  <1>21. ASSUME StatusWrite PROVE Runner' /\ Watcher' /\ Exits'
    BY <1>21, Zenon DEF StatusWrite, Done, Agent, Runner, Watcher, Exits, NoFalseExit,
       Finished
  <1>22. ASSUME ReadLogState PROVE Runner' /\ Watcher' /\ Exits'
    BY <1>22, Zenon DEF ReadLogState, Done, Runner, Watcher, Exits, NoFalseExit,
       Finished
  <1>23. ASSUME ReadLogFile PROVE Runner' /\ Watcher' /\ Exits'
    BY <1>23, Zenon DEF ReadLogFile, Done, Runner, Watcher, Exits, NoFalseExit, Finished
  <1>24. ASSUME Output PROVE Runner' /\ Watcher' /\ Exits'
    BY <1>24, Zenon DEF Output, Runner, Watcher, Exits, NoFalseExit, Finished
  <1>25. ASSUME TaskExits PROVE Runner' /\ Watcher' /\ Exits'
    BY <1>25, Zenon DEF TaskExits, Runner, Watcher, Exits, NoFalseExit
  <1>26. ASSUME NEW l \in Lives, RunnerRuns(l) PROVE Runner' /\ Watcher' /\ Exits'
    <2>1. Watcher'
      BY <1>26, Zenon DEF RunnerRuns, Watcher
    <2> SUFFICES ASSUME ~stale, ~blind, ~again PROVE Runner' /\ Exits'
      BY <1>26, <2>1, Zenon DEF RunnerRuns, Runner, Exits, NoFalseExit
    <2>2. l = life /\ known = "started" /\ ~record /\ task = "none" /\ state # "EXITED"
          /\ pc \notin Stopping \cup Deleting \cup Writing
      BY <1>26, Zenon DEF RunnerRuns, Current, Runner, Agent
    <2>3. \A m \in Lives : m # l => aux[m] # "spawned" /\ aux'[m] = aux[m]
      BY <1>26, <2>2, Zenon DEF RunnerRuns, Current, Types, ProcTypes
    <2>4. CASE aux' = [aux EXCEPT ![l] = "following"]
      BY <1>26, <2>2, <2>3, <2>4, Zenon DEF RunnerRuns, Runner, Exits, NoFalseExit,
         Finished, Types, ProcTypes
    <2>5. CASE aux' = [aux EXCEPT ![l] = "trunc"] /\ UNCHANGED task
      BY <1>26, <2>2, <2>3, <2>5, Zenon DEF RunnerRuns, Runner, Exits, NoFalseExit,
         Finished, Types, ProcTypes
    <2> QED
      BY <1>26, <2>4, <2>5, Zenon DEF RunnerRuns
  <1>27. ASSUME NEW l \in Lives, RunnerLogs(l) PROVE Runner' /\ Watcher' /\ Exits'
    BY <1>27, ZenonT(60) DEF RunnerLogs, Runner, Watcher, Exits, NoFalseExit, Finished
  <1>28. ASSUME NEW l \in Lives, RunnerFails(l) PROVE Runner' /\ Watcher' /\ Exits'
    BY <1>28, SMTT(60) DEF RunnerFails, Runner, Watcher, Exits, NoFalseExit
  <1>29. ASSUME NEW l \in Lives, RunnerSeesExit(l) PROVE Runner' /\ Watcher' /\ Exits'
    BY <1>29, SMTT(60) DEF RunnerSeesExit, Agent, Current, Runner, Watcher, Exits,
       NoFalseExit
  <1>30. ASSUME NEW l \in Lives, RunnerDrained(l) PROVE Runner' /\ Watcher' /\ Exits'
    BY <1>30, SMTT(60) DEF RunnerDrained, Current, Runner, Watcher, Exits, NoFalseExit
  <1>31. ASSUME NEW l \in Lives, WatcherSeesExit(l) PROVE Runner' /\ Watcher' /\ Exits'
    BY <1>31, Zenon DEF WatcherSeesExit, Runner, Watcher, Exits, NoFalseExit
  <1>32. ASSUME NEW l \in Lives, AuxTruncate(l) PROVE Runner' /\ Watcher' /\ Exits'
    BY <1>32 DEF AuxTruncate, Agent, Current, Runner, Watcher, Exits, NoFalseExit,
       Finished
  <1>33. ASSUME NEW l \in Lives, AuxWrite(l) PROVE Runner' /\ Watcher' /\ Exits'
    <2>1. Runner' /\ Watcher'
      BY <1>33, ZenonT(60) DEF AuxWrite, Runner, Watcher, Finished, Current, Types,
         ProcTypes, Agent
    <2>2. Exits'
      BY <1>33, Zenon DEF AuxWrite, Runner, Watcher, Finished, Current, Exits,
         NoFalseExit
    <2> QED
      BY <2>1, <2>2, Zenon
  <1>34. CASE UNCHANGED gvars
    BY <1>34, ZenonT(60) DEF gvars, Runner, Watcher, Exits, NoFalseExit, Finished
  <1> QED
    BY <1>1, <1>2, <1>3, <1>4, <1>5, <1>6, <1>7, <1>8, <1>9, <1>10, <1>11, <1>12, <1>13,
       <1>14, <1>15, <1>16, <1>17, <1>18, <1>19, <1>20, <1>21, <1>22, <1>23, <1>24,
       <1>25, <1>26, <1>27, <1>28, <1>29, <1>30, <1>31, <1>32, <1>33, <1>34, ZenonT(60)
       DEF GuestNext, AgentWorks, AuxWorks

\* The log file of the life that is there, what the host has read of it, and what
\* the container has written.
LEMMA LogStep == GuestInv /\ [GuestNext]_gvars => LogInv'
  <1> SUFFICES ASSUME GuestInv, [GuestNext]_gvars PROVE LogInv'
    BY Zenon
  <1> USE GuestConstants DEF GuestInv, Lives, files, ctrd, agentl, procs, hostlog,
          ghist, told,
          State, Task, Creating, Starting, Stopping, Deleting, Writing, Asking
  <1>1. ASSUME CreateBegin PROVE LogInv'
    BY <1>1, Zenon DEF CreateBegin, LogInv
  <1>2. ASSUME CreateCtr PROVE LogInv'
    BY <1>2, Zenon DEF CreateCtr, Agent, LogInv
  <1>3. ASSUME CreateMeta PROVE LogInv'
    BY <1>3, Zenon DEF CreateMeta, Agent, LogInv
  <1>4. ASSUME CreateTruncate PROVE LogInv'
    BY <1>4, Zenon DEF CreateTruncate, Truncate, Agent, LogInv
  <1>5. ASSUME CreateWrite PROVE LogInv'
    BY <1>5, Zenon DEF CreateWrite, Agent, LogInv
  <1>6. ASSUME StartBegin PROVE LogInv'
    BY <1>6, Zenon DEF StartBegin, LogInv, Finished
  <1>7. ASSUME StartTruncate PROVE LogInv'
    BY <1>7, Zenon DEF StartTruncate, Truncate, Agent, LogInv
  <1>8. ASSUME StartWrite PROVE LogInv'
    BY <1>8, ZenonT(60) DEF StartWrite, Agent, LogInv
  <1>9. ASSUME StartSpawn PROVE LogInv'
    BY <1>9, SMTT(60) DEF StartSpawn, Done, Types, CtrdTypes, ProcTypes, Numbers, Agent,
       Runner, LogInv
  <1>10. ASSUME StopBegin PROVE LogInv'
    BY <1>10, SMTT(60) DEF StopBegin, Types, HistTypes, LogInv, Finished
  <1>11. ASSUME StopWait PROVE LogInv'
    BY <1>11, Zenon DEF StopWait, LogInv, Finished
  <1>12. ASSUME StopTruncate PROVE LogInv'
    BY <1>12, Zenon DEF StopTruncate, Truncate, LogInv, Finished
  <1>13. ASSUME StopWrite PROVE LogInv'
    <2> SUFFICES ASSUME via_run, known = "started", ~early', ~stale, ~blind,
                        ~cut, ~again PROVE LogInv'
      BY <1>13, Zenon DEF StopWrite, LogInv
    <2>1. owner = life /\ life \in Lives /\ life > 0 /\ aux[life] \notin {"none",
              "spawned"}
      BY <1>13, SMTT(60) DEF StopWrite, Agent, Current, Runner, Numbers, Types,
         CtrdTypes
    <2>2. CASE UNCHANGED <<state, early>>
      BY <1>13, <2>2, Zenon DEF StopWrite, Done, LogInv, Finished
    <2>3. CASE early' = (early \/ Behind)
      <3>1. Finished(life) /\ ~early
        BY <2>1, <2>3, Zenon DEF Behind, Finished, Types, ProcTypes
      <3> QED
        BY <1>13, <2>1, <3>1, Zenon DEF StopWrite, Done, LogInv, Finished
    <2> QED
      BY <1>13, <2>2, <2>3, Zenon DEF StopWrite
  <1>14. ASSUME RemoveBegin PROVE LogInv'
    <2>1. CASE Removing("remove_task")
      BY <2>1, Zenon DEF Removing, LogInv
    <2>2. CASE Forgotten
      BY <1>14, <2>2, Zenon DEF Forgotten, LogInv
    <2> QED
      BY <1>14, <2>1, <2>2, Zenon DEF RemoveBegin
  <1>15. ASSUME RemoveTask PROVE LogInv'
    BY <1>15, Zenon DEF RemoveTask, Removing, Forgotten, LogInv, Finished
  <1>16. ASSUME RemoveContainer PROVE LogInv'
    BY <1>16, Zenon DEF RemoveContainer, Removing, Forgotten, LogInv, Finished
  <1>17. ASSUME RemoveFiles PROVE LogInv'
    BY <1>17, Zenon DEF RemoveFiles, Forgotten, LogInv
  <1>18. ASSUME StatusBegin PROVE LogInv'
    BY <1>18, Zenon DEF StatusBegin, Done, LogInv, Finished
  <1>19. ASSUME StatusQuery PROVE LogInv'
    BY <1>19, Zenon DEF StatusQuery, Done, LogInv, Finished
  <1>20. ASSUME StatusTruncate PROVE LogInv'
    BY <1>20, Zenon DEF StatusTruncate, Truncate, LogInv, Finished
  <1>21. ASSUME StatusWrite PROVE LogInv'
    <2> SUFFICES ASSUME via_run, known = "started", ~early', ~stale, ~blind,
                        ~cut, ~again PROVE LogInv'
      BY <1>21, Zenon DEF StatusWrite, LogInv
    <2>1. owner = life /\ life \in Lives /\ life > 0 /\ aux[life] \notin {"none",
              "spawned"}
      BY <1>21 DEF StatusWrite, Agent, Current, Runner, Numbers, Types, CtrdTypes
    <2>2. CASE UNCHANGED <<state, early>>
      BY <1>21, <2>2, Zenon DEF StatusWrite, Done, LogInv, Finished
    <2>3. CASE /\ state' = IF tseen = "running" THEN seen ELSE "EXITED"
               /\ early' = (early \/ (tseen # "running" /\ Behind))
      <3>1. ~early /\ (tseen # "running" => Finished(life))
        BY <2>1, <2>3, Zenon DEF Behind, Finished, Types, ProcTypes
      <3>2. tseen = "running" => state' = "RUNNING"
        BY <1>21, <2>3, Zenon DEF StatusWrite, Agent
      <3> QED
        BY <1>21, <2>1, <3>1, <3>2, Zenon DEF StatusWrite, Done, LogInv, Finished
    <2> QED
      BY <1>21, <2>2, <2>3, Zenon DEF StatusWrite
  <1>22. ASSUME ReadLogState PROVE LogInv'
    BY <1>22, Zenon DEF ReadLogState, Done, LogInv, Finished
  <1>23. ASSUME ReadLogFile PROVE LogInv'
    <2> SUFFICES ASSUME via_run, known = "started", ~early, ~stale, ~blind,
                        ~cut, ~again PROVE LogInv'
      BY <1>23, ZenonT(60) DEF ReadLogFile, LogInv
    <2>1. life \in Lives /\ logged[life] \in Nat /\ produced[life] \in Nat
              /\ offset \in Nat
      BY DEF Current, Numbers, Types, CtrdTypes, ProcTypes, HostTypes
    <2>2. offset <= logged[life]
      BY <1>23, Zenon DEF ReadLogFile, LogInv
    <2>3. CASE log = None
      <3>1. ~Finished(life) /\ offset' = offset
        BY <1>23, <2>3, Zenon DEF ReadLogFile, LogInv, Finished
      <3>2. eof' => seen = "EXITED"
        BY <1>23, Zenon DEF ReadLogFile
      <3> QED
        BY <1>23, <2>1, <2>2, <3>1, <3>2, Zenon DEF ReadLogFile, Done, LogInv, Finished
    <2>4. CASE log # None
      <3>1. log.n = logged[life]
        BY <1>23, <2>4, Zenon DEF ReadLogFile, LogInv
      <3>2. /\ offset' <= logged[life] /\ offset' \in Nat
            /\ eof' => seen = "EXITED" /\ offset' = logged[life]
        <4> DEFINE to == IF offset < logged[life] THEN offset + 1 ELSE logged[life]
        <4>1. offset' = to /\ eof' = (seen = "EXITED" /\ offset' >= logged[life])
          BY <1>23, <2>4, <3>1, ZenonT(60) DEF ReadLogFile
        <4>2. to <= logged[life] /\ to \in Nat
          BY <2>1, <2>2
        <4>3. eof' => seen = "EXITED" /\ offset' >= logged[life]
          BY <4>1, Zenon
        <4>4. offset' <= logged[life] /\ offset' \in Nat
          BY <4>1, <4>2, Zenon
        <4>5. offset' >= logged[life] => offset' = logged[life]
          BY <2>1, <4>4
        <4> QED
          BY <4>3, <4>4, <4>5, Zenon
      <3>3. eof' => Finished(life) /\ offset' = produced[life]
        BY <1>23, <3>2, Zenon DEF ReadLogFile, LogInv
      <3> QED
        BY <1>23, <3>2, <3>3, Zenon DEF ReadLogFile, Done, LogInv, Finished
    <2> QED
      BY <2>3, <2>4, Zenon
  <1>24. ASSUME Output PROVE LogInv'
    <2> SUFFICES ASSUME via_run, known = "started", ~early, ~stale, ~blind,
                        ~cut, ~again PROVE LogInv'
      BY <1>24, ZenonT(60) DEF Output, LogInv
    <2>1. aux[life] # "spawned" /\ aux[life] # "draining" /\ ~Finished(life)
      BY <1>24 DEF Output, Runner, Agent, Current, Numbers, Types, CtrdTypes
    <2> QED
      BY <1>24, <2>1, Zenon DEF Output, LogInv, Finished
  <1>25. ASSUME TaskExits PROVE LogInv'
    BY <1>25, Zenon DEF TaskExits, LogInv, Finished
  <1>26. ASSUME NEW l \in Lives, RunnerRuns(l) PROVE LogInv'
    <2> SUFFICES ASSUME known = "started", ~early, ~stale, ~blind, ~cut, ~again
                 PROVE  LogInv'
      BY <1>26, Zenon DEF RunnerRuns, LogInv
    <2>1. l = life /\ life \in Lives /\ state # "EXITED" /\ pc \notin Deleting
      BY <1>26, ZenonT(60) DEF RunnerRuns, Current, Runner
    <2>2. log = None /\ logged[life] = 0 /\ produced[life] = 0 /\ offset = 0 /\ ~eof
          /\ ~(pc = "log_file" /\ seen = "EXITED")
      BY <1>26, <2>1, SMTT(60) DEF RunnerRuns, LogInv, Finished, Types, HostTypes
    <2>3. log' = [life |-> l, n |-> 0] /\ log' # None /\ log'.life = life /\ log'.n = 0
      BY <1>26, <2>1, <2>2 DEF RunnerRuns
    <2>4. aux'[life] \in {"following", "trunc"}
      BY <1>26, <2>1, ZenonT(60) DEF RunnerRuns, Types, ProcTypes
    <2> QED
      BY <1>26, <2>1, <2>2, <2>3, <2>4, Zenon DEF RunnerRuns, LogInv
  <1>27. ASSUME NEW l \in Lives, RunnerLogs(l) PROVE LogInv'
    BY <1>27, SMTT(60) DEF RunnerLogs, Types, FileTypes, ProcTypes, HostTypes, Ended,
       Current, LogInv, Finished
  <1>28. ASSUME NEW l \in Lives, RunnerFails(l) PROVE LogInv'
    BY <1>28, Zenon DEF RunnerFails, LogInv
  <1>29. ASSUME NEW l \in Lives, RunnerSeesExit(l) PROVE LogInv'
    BY <1>29, SMTT(60) DEF RunnerSeesExit, LogInv, Finished
  <1>30. ASSUME NEW l \in Lives, RunnerDrained(l) PROVE LogInv'
    BY <1>30 DEF RunnerDrained, ProcTypes, Current, LogInv, Finished
  <1>31. ASSUME NEW l \in Lives, WatcherSeesExit(l) PROVE LogInv'
    BY <1>31, ZenonT(60) DEF WatcherSeesExit, LogInv
  <1>32. ASSUME NEW l \in Lives, AuxTruncate(l) PROVE LogInv'
    BY <1>32, SMTT(60) DEF AuxTruncate, ProcTypes, Current, Runner, LogInv, Finished
  <1>33. ASSUME NEW l \in Lives, AuxWrite(l) PROVE LogInv'
    <2> SUFFICES ASSUME via_run, known = "started", ~early, ~stale, ~blind, ~cut,
                        ~again
                 PROVE  LogInv'
      BY <1>33, Zenon DEF AuxWrite, LogInv
    <2>1. aux[l] \in {"trunc", "write"} /\ aux' = [aux EXCEPT ![l] = "gone"]
      BY <1>33, Zenon DEF AuxWrite
    <2>2. l = life
      BY <2>1, ZenonT(60) DEF Current
    <2>3. Finished(life) /\ Finished(life)' /\ aux'[life] = "gone"
      BY <2>1, <2>2, <1>33, Zenon DEF AuxWrite, Types, ProcTypes, Finished
    <2> QED
      BY <1>33, <2>1, <2>2, <2>3, Zenon DEF AuxWrite, LogInv
  <1>34. CASE UNCHANGED gvars
    BY <1>34, Zenon DEF gvars, LogInv, Finished
  <1> QED
    BY <1>1, <1>2, <1>3, <1>4, <1>5, <1>6, <1>7, <1>8, <1>9, <1>10, <1>11, <1>12, <1>13,
       <1>14, <1>15, <1>16, <1>17, <1>18, <1>19, <1>20, <1>21, <1>22, <1>23, <1>24,
       <1>25, <1>26, <1>27, <1>28, <1>29, <1>30, <1>31, <1>32, <1>33, <1>34, ZenonT(60)
       DEF GuestNext, AgentWorks, AuxWorks

\* The invariant of the container runtime (create, start, stop, remove,
\* container_status and read_log against the exit watcher or the log runner)
\* holds in every state.
THEOREM GuestInvariance == GuestSpec => []GuestInv
  <1>1. GuestInit => GuestInv
    <2> SUFFICES ASSUME GuestInit PROVE GuestInv
      BY Zenon
    <2> USE GuestConstants DEF GuestInit, Lives
    <2>1. Types
      BY ZenonT(60) DEF Types, FileTypes, CtrdTypes, AgentTypes, ProcTypes, HostTypes,
         HistTypes, State, Task
    <2>2. Numbers /\ Agent /\ Mode /\ Pending /\ Ended
      BY DEF Numbers, Agent, Mode, Pending, Ended, Starting, Stopping, Deleting, Asking,
         Writing
    <2>3. Current /\ Runner /\ Watcher /\ Exits /\ LogInv
      BY Zenon DEF Current, Runner, Watcher, Exits, NoFalseExit, LogInv
    <2> QED
      BY <2>1, <2>2, <2>3, Zenon DEF GuestInv
  <1>2. GuestInv /\ [GuestNext]_gvars => GuestInv'
    BY TypesStep, NumbersStep, AgentStep, StopsStep, CurrentStep, FilesStep, LogStep,
       Zenon DEF GuestInv
  <1> QED
    BY <1>1, <1>2, PTL DEF GuestSpec

\* When stop_container succeeds no task of the container runs until the next
\* start, unless it came before the log runner had created the task.
THEOREM GuestStops == GuestSpec => []StopMeansStopped
  <1>1. GuestInv => StopMeansStopped
    BY Zenon DEF GuestInv, Ended, Agent, StopMeansStopped
  <1> QED
    BY GuestInvariance, <1>1, PTL

\* When remove_container succeeds containerd has neither the task nor the
\* container and the metadata is gone, with the same exception.
THEOREM GuestRemoves == GuestSpec => []RemoveIsComplete
  <1>1. GuestInv => RemoveIsComplete
    BY Zenon DEF GuestInv, Ended, Agent, RemoveIsComplete
  <1> QED
    BY GuestInvariance, <1>1, PTL

\* The state file says EXITED only of a container that has ended; the exceptions
\* are a runner that a stop or remove missed, a process of an earlier container,
\* a runner that cannot write its log, and a container that was started again.
THEOREM GuestExits == GuestSpec => []NoFalseExit
  <1>1. GuestInv => NoFalseExit
    BY Zenon DEF GuestInv, Exits
  <1> QED
    BY GuestInvariance, <1>1, PTL

\* When read_log reports the end of the log the host has every record: it reads
\* the state before the file, and the runner writes EXITED after its last record.
\* The exceptions: the agent wrote EXITED before the pipes were drained, a runner
\* that failed or that a stop or remove missed, a second start, and a process of
\* an earlier container.
THEOREM GuestLogs == GuestSpec => []EofMeansAll
  <1>1. GuestInv => EofMeansAll
    BY Zenon DEF GuestInv, Agent, LogInv, EofMeansAll
  <1> QED
    BY GuestInvariance, <1>1, PTL
==============================================================================
