---------------------------- MODULE GuestRuntime -----------------------------
(***************************************************************************)
(* The containerd runtime of the guest agent (runtime_containerd_stub.c),   *)
(* for one container id.  The agent serves one request at a time, but it    *)
(* shares the state file, the log file and containerd with the processes it *)
(* forks: the log runner (start_via_run, the deployed mode), which runs     *)
(* `ctr run` in the foreground and writes its output to the CRI log, or the *)
(* exit watcher.  A container id is a hash of its specification, so the     *)
(* container created after a removal has the same id, files and name.      *)
(*                                                                         *)
(* One step is one `ctr` command or one file operation.  write_state opens *)
(* with O_TRUNC and then writes: two steps.  Exit codes, times and messages *)
(* are left out; log records are counted.                                  *)
(***************************************************************************)
EXTENDS Naturals

CONSTANTS
  MaxLives,    \* bound: containers started and failures, together
  MaxOut,      \* bound: records a container writes
  None

ASSUME GuestConstants ==
  /\ MaxLives \in Nat
  /\ None \notin {"empty", "CREATED", "RUNNING", "EXITED"}
  /\ None \notin [life : Nat, n : Nat]

Lives == 1..MaxLives

VARIABLES
  via_run,     \* impl->start_via_run
  known,       \* the host's view: "none", "created", "started"
  \* files of the container
  meta,        \* "none", "partial", "ok"
  state,       \* None, "empty", "CREATED", "RUNNING", "EXITED"
  log,         \* None, or [life, n]: n records of that life's container
  \* containerd
  record,      \* a container with this id exists
  task,        \* "none", "running", "stopped"
  life,        \* containers started so far
  owner,       \* the life whose container the record is, or was
  \* the agent: where it is, the state it read or is about to write
  pc, seen, tseen,
  \* the forked processes, by life, and what their containers wrote
  aux,         \* "none", "spawned", "following", "draining", "trunc", "write", "gone"
  produced, logged,
  \* the host's log offset, and whether it saw eof
  offset, eof,
  \* history
  removed,     \* the last remove succeeded
  blind,       \* stop or remove found no task of a runner yet to start it
  stale,       \* a process, task or container outlived the host's removal of it
  \* history of the container that is there now
  stopped,     \* the last stop succeeded
  reported,    \* a status answer said EXITED
  early,       \* the agent wrote EXITED while the runner had output to log
  clobbered,   \* the agent wrote RUNNING over EXITED
  cut,         \* the log runner gave up before its container ended
  again,       \* it was started again after a start that succeeded
  torn,        \* the state file could not be written, and nobody noticed
  gfaults

files   == <<meta, state, log>>
ctrd    == <<record, task, life, owner>>
agentl  == <<pc, seen, tseen>>
procs   == <<aux, produced, logged>>
hostlog == <<offset, eof>>
told    == <<stopped, reported, early, clobbered>>
ghist   == <<stopped, removed, reported, blind, early, stale, clobbered, cut, again,
             torn>>
gvars   == <<via_run, known, files, ctrd, agentl, procs, hostlog, ghist, gfaults>>

GuestInit ==
  /\ via_run \in BOOLEAN
  /\ known = "none"
  /\ meta = "none" /\ state = None /\ log = None
  /\ record = FALSE /\ task = "none" /\ life = 0 /\ owner = 0
  /\ pc = "idle" /\ seen = None /\ tseen = None
  /\ aux = [l \in Lives |-> "none"]
  /\ produced = [l \in Lives |-> 0]
  /\ logged = [l \in Lives |-> 0]
  /\ offset = 0 /\ eof = FALSE
  /\ stopped = FALSE /\ removed = FALSE /\ reported = FALSE
  /\ blind = FALSE /\ early = FALSE /\ stale = FALSE /\ clobbered = FALSE
  /\ cut = FALSE /\ again = FALSE /\ torn = FALSE
  /\ gfaults = 0

\* A failing command, fork or write.
GFault == life + gfaults < MaxLives /\ gfaults' = gfaults + 1

------------------------------------------------------------------------------
(* Steps the operations share.                                             *)

\* The answer is sent: the agent takes the next request.
Done == pc' = "idle" /\ seen' = None /\ tseen' = None

\* The metadata file: written whole, or up to a failure; a file that is missing
\* or cut short cannot be read.
write_metadata(whole) == meta' = IF whole THEN "ok" ELSE "partial"
read_metadata         == meta = "ok"

\* The state file can be read: it is there and has its fields.
read_state == state \notin {None, "empty"}

\* tasks ls: RUNNING, STOPPED, or no line for this container.
query_task_status == task

\* The first half of write_state, open with O_TRUNC; the write follows.  When
\* either fails the file keeps what it has, and the write's action says what
\* the caller makes of it.
Truncate(from, to) ==
  /\ pc = from
  /\ state' = "empty"
  /\ pc' = to
  /\ UNCHANGED <<via_run, known, meta, log, ctrd, seen, tseen, procs, hostlog,
                 ghist, gfaults>>

\* The runner of the latest start has yet to create its task.
Unborn == via_run /\ \E l \in Lives : aux[l] = "spawned"

------------------------------------------------------------------------------
(* CREATE.                                                                 *)

\* ensure_image succeeded (a failure changes nothing); make_container_id.
CreateBegin ==
  /\ pc = "idle" /\ known = "none" /\ life + gfaults < MaxLives
  /\ pc' = IF via_run THEN "create_meta" ELSE "create_ctr"
  /\ removed' = FALSE
  /\ UNCHANGED <<via_run, known, files, ctrd, seen, tseen, procs, hostlog,
                 stopped, reported, blind, early, stale, clobbered, cut, again, torn,
                 gfaults>>

\* ctr containers create: done, refused because the id exists, or failing or
\* timing out with or without effect.
CreateCtr ==
  /\ pc = "create_ctr"
  /\ \/ ~record /\ record' = TRUE /\ pc' = "create_meta" /\ UNCHANGED gfaults
     \/ record /\ pc' = "idle" /\ UNCHANGED <<record, gfaults>>
     \/ GFault /\ record' \in {record, TRUE} /\ pc' = "idle"
  /\ UNCHANGED <<via_run, known, files, task, life, owner, seen, tseen, procs,
                 hostlog, ghist>>

\* delete_container on the way out of a failed creation.
Undo == record' = (record /\ via_run)

CreateMeta ==
  /\ pc = "create_meta"
  /\ \/ /\ write_metadata(TRUE)
        /\ pc' = "create_trunc"
        /\ UNCHANGED <<record, gfaults>>
     \/ GFault /\ write_metadata(FALSE) /\ Undo /\ pc' = "idle"
  /\ UNCHANGED <<via_run, known, state, log, task, life, owner, seen, tseen,
                 procs, hostlog, ghist>>

CreateTruncate == Truncate("create_trunc", "create_write")

CreateWrite ==
  /\ \/ /\ pc = "create_write"
        /\ state' = "CREATED"
        /\ log' = None
        /\ known' = "created"
        /\ UNCHANGED <<meta, record, gfaults>>
     \/ /\ pc \in {"create_trunc", "create_write"}
        /\ GFault
        /\ meta' = "none" /\ Undo
        /\ UNCHANGED <<state, log, known>>
  /\ Done
  /\ UNCHANGED <<via_run, task, life, owner, procs, hostlog, ghist>>

------------------------------------------------------------------------------
(* START.                                                                  *)

\* read_metadata, or ctr tasks start -d, which may time out after its effect.
\* Nothing tells a container that was started before: with start_via_run it is
\* started again, beside the runner it has.
StartBegin ==
  /\ pc = "idle" /\ known # "none" /\ life + gfaults < MaxLives
  /\ stopped' = FALSE
  /\ again' = (again \/ (via_run /\ read_metadata /\ known = "started"))
  /\ IF via_run
       THEN /\ pc' = IF read_metadata THEN "start_trunc" ELSE "idle"
            /\ UNCHANGED <<ctrd, gfaults>>
       ELSE \/ /\ record /\ task = "none"
               /\ task' = "running" /\ life' = life + 1 /\ owner' = life + 1
               /\ pc' = "start_trunc"
               /\ UNCHANGED <<record, gfaults>>
            \/ /\ ~record \/ task # "none"
               /\ pc' = "idle"
               /\ UNCHANGED <<ctrd, gfaults>>
            \/ /\ GFault
               /\ record /\ task = "none"
               /\ task' = "running" /\ life' = life + 1 /\ owner' = life + 1
               /\ pc' = "idle"
               /\ UNCHANGED record
  /\ UNCHANGED <<via_run, known, files, seen, tseen, procs, hostlog, removed,
                 reported, blind, early, stale, clobbered, cut, torn>>

StartTruncate == Truncate("start_trunc", "start_write")

StartWrite ==
  /\ \/ /\ pc = "start_write"
        /\ state' = "RUNNING" /\ pc' = "start_spawn"
        /\ UNCHANGED gfaults
     \/ /\ pc \in {"start_trunc", "start_write"}
        /\ GFault /\ pc' = "idle"
        /\ UNCHANGED state
  /\ UNCHANGED <<via_run, known, meta, log, ctrd, seen, tseen, procs, hostlog,
                 ghist>>

\* spawn_log_runner (after unlinking the log) or spawn_exit_watcher; the two
\* forks may fail, and the state file keeps saying RUNNING.
StartSpawn ==
  /\ pc = "start_spawn"
  /\ log' = IF via_run THEN None ELSE log
  /\ \/ /\ IF via_run
             THEN /\ life' = life + 1
                  /\ aux' = [aux EXCEPT ![life'] = "spawned"]
             ELSE /\ aux' = [aux EXCEPT ![life] = "following"]
                  /\ UNCHANGED life
        /\ known' = "started"
        /\ UNCHANGED gfaults
     \/ GFault /\ UNCHANGED <<life, aux, known>>
  /\ Done
  /\ UNCHANGED <<via_run, meta, state, record, task, owner, produced,
                 logged,
                 hostlog, ghist>>

------------------------------------------------------------------------------
(* STOP.                                                                   *)

\* SIGTERM; "not found" is success at once.
StopBegin ==
  /\ pc = "idle" /\ known # "none"
  /\ \/ /\ task = "running"
        /\ pc' = "stop_term"
        /\ UNCHANGED <<stopped, blind, gfaults>>
     \/ /\ task # "running"
        /\ stopped' = TRUE
        /\ blind' = (blind \/ Unborn)
        /\ UNCHANGED <<pc, gfaults>>
     \/ GFault /\ UNCHANGED <<pc, stopped, blind>>
  /\ UNCHANGED <<via_run, known, files, ctrd, seen, tseen, procs, hostlog,
                 removed, reported, early, stale, clobbered, cut, again, torn>>

MutStopWait ==  \* the grace period's end counts as an exit
  /\ pc \in {"stop_term", "stop_kill"}
  /\ pc' = "stop_trunc"
  /\ UNCHANGED <<via_run, known, files, ctrd, seen, tseen, procs, hostlog, ghist,
                 gfaults>>

\* poll_for_exit_until, or tasks wait: the task ended; or the grace period did,
\* and SIGKILL follows; or the whole time is over (-ETIMEDOUT), or a command
\* failed.
StopWait ==
  /\ pc \in {"stop_term", "stop_kill"}
  /\ \/ /\ query_task_status # "running"
        /\ pc' = "stop_trunc"
        /\ UNCHANGED gfaults
     \/ /\ task = "running"
        /\ pc' = IF pc = "stop_term" THEN "stop_kill" ELSE "idle"
        /\ UNCHANGED gfaults
     \/ GFault /\ pc' = "idle"
  /\ UNCHANGED <<via_run, known, files, ctrd, seen, tseen, procs, hostlog, ghist>>

StopTruncate == Truncate("stop_trunc", "stop_write")

\* The log of the owner's output is behind.
Behind == via_run /\ owner > 0 /\ aux[owner] \in {"following", "draining"}

\* The result of write_state is ignored.
StopWrite ==
  /\ \/ /\ pc = "stop_write"
        /\ state' = "EXITED"
        /\ early' = (early \/ Behind)
        /\ UNCHANGED <<torn, gfaults>>
     \/ /\ pc \in {"stop_trunc", "stop_write"}
        /\ GFault /\ torn' = TRUE
        /\ UNCHANGED <<state, early>>
  /\ stopped' = TRUE
  /\ Done
  /\ UNCHANGED <<via_run, known, meta, log, ctrd, procs, hostlog, removed,
                 reported, blind, stale, clobbered, cut, again>>

------------------------------------------------------------------------------
(* REMOVE.                                                                 *)

\* The answer is sent.  Engine.RemoveContainer forgets the container, whatever
\* the answer is; what is left in the guest is there when a container with the
\* same id is created.
Forgotten ==
  /\ Done
  /\ known' = "none"
  /\ stale' = (stale \/ record' \/ task' # "none"
                 \/ \E l \in Lives : aux[l] \notin {"none", "gone"})
  /\ cut' = FALSE /\ again' = FALSE /\ torn' = FALSE

\* The agent goes on with the removal.
Removing(to) ==
  /\ pc' = to
  /\ UNCHANGED <<known, seen, tseen, stale, cut, again, torn>>

\* SIGKILL, whether the task is there or not.  How far the host read the log is
\* forgotten with the container; no request is served before that, and the
\* histories of what the host was told end here.
RemoveBegin ==
  /\ pc = "idle" /\ known # "none"
  /\ blind' = (blind \/ Unborn)
  /\ offset' = 0 /\ eof' = FALSE
  /\ stopped' = FALSE /\ reported' = FALSE /\ early' = FALSE /\ clobbered' = FALSE
  /\ UNCHANGED <<via_run, files, ctrd, procs, removed>>
  /\ \/ Removing("remove_task") /\ UNCHANGED gfaults
     \/ GFault /\ Forgotten

\* tasks delete refuses a task that still runs: the signal has yet to work.
RemoveTask ==
  /\ pc = "remove_task"
  /\ UNCHANGED <<via_run, files, record, life, owner, procs, hostlog, told, removed, blind>>
  /\ \/ task = "running" /\ UNCHANGED <<task, gfaults>> /\ Forgotten
     \/ /\ task # "running"
        /\ task' = "none"
        /\ Removing("remove_container")
        /\ UNCHANGED gfaults
     \/ task # "running" /\ GFault /\ task' \in {task, "none"} /\ Forgotten

MutRemoveContainer ==  \* a failing delete is ignored
  /\ pc = "remove_container"
  /\ \/ task = "none" /\ record' = FALSE /\ UNCHANGED gfaults
     \/ GFault /\ UNCHANGED record
  /\ Removing("remove_files")
  /\ UNCHANGED <<via_run, files, task, life, owner, procs, hostlog, told, removed,
                 blind>>

\* containers delete refuses a container with a task.
RemoveContainer ==
  /\ pc = "remove_container"
  /\ UNCHANGED <<via_run, files, task, life, owner, procs, hostlog, told, removed,
                 blind>>
  /\ \/ /\ task = "none"
        /\ record' = FALSE
        /\ Removing("remove_files")
        /\ UNCHANGED gfaults
     \/ task # "none" /\ UNCHANGED <<record, gfaults>> /\ Forgotten
     \/ GFault /\ record' \in {record, record /\ task # "none"} /\ Forgotten

RemoveFiles ==
  /\ pc = "remove_files"
  /\ meta' = "none" /\ state' = None /\ log' = None
  /\ removed' = TRUE
  /\ UNCHANGED <<via_run, ctrd, procs, hostlog, told, blind, gfaults>>
  /\ Forgotten

------------------------------------------------------------------------------
(* STATUS.                                                                 *)

\* read_state; the task is queried only while the file says RUNNING.
StatusBegin ==
  /\ pc = "idle" /\ known = "started"
  /\ IF read_state /\ state = "RUNNING"
       THEN pc' = "status_query" /\ seen' = state /\ UNCHANGED <<tseen, reported>>
       ELSE Done /\ reported' = (reported \/ state = "EXITED")
  /\ UNCHANGED <<via_run, known, files, ctrd, procs, hostlog, stopped, removed,
                 blind, early, stale, clobbered, cut, again, torn, gfaults>>

MutStatusQuery ==  \* only a missing task is an exit
  /\ pc = "status_query"
  /\ IF task = "stopped" \/ (task = "none" /\ via_run) THEN Done
     ELSE pc' = "status_trunc" /\ tseen' = task /\ UNCHANGED seen
  /\ UNCHANGED <<via_run, known, files, ctrd, procs, hostlog, ghist, gfaults>>

\* tasks ls.  A missing task is taken for an exit only without start_via_run.
StatusQuery ==
  /\ pc = "status_query"
  /\ \/ /\ IF query_task_status = "none" /\ via_run THEN Done
           ELSE /\ pc' = "status_trunc"
                /\ tseen' = query_task_status
                /\ UNCHANGED seen
        /\ UNCHANGED gfaults
     \/ GFault /\ Done
  /\ UNCHANGED <<via_run, known, files, ctrd, procs, hostlog, ghist>>

StatusTruncate == Truncate("status_trunc", "status_write")

\* The state read before the query goes back, with the task's pid, or EXITED;
\* the answer is the same when it cannot be written.
StatusWrite ==
  /\ \/ /\ pc = "status_write"
        /\ state' = IF tseen = "running" THEN seen ELSE "EXITED"
        /\ early' = (early \/ (tseen # "running" /\ Behind))
        /\ clobbered' = (clobbered \/ (tseen = "running" /\ aux[owner] = "gone"))
        /\ UNCHANGED <<torn, gfaults>>
     \/ /\ pc \in {"status_trunc", "status_write"}
        /\ GFault /\ torn' = TRUE
        /\ UNCHANGED <<state, early, clobbered>>
  /\ reported' = (reported \/ tseen # "running")
  /\ Done
  /\ UNCHANGED <<via_run, known, meta, log, ctrd, procs, hostlog, stopped,
                 removed, blind, stale, cut, again>>

------------------------------------------------------------------------------
(* READ_LOG: the state first, then the file; one record at a time.         *)

ReadLogState ==
  /\ pc = "idle" /\ known = "started" /\ ~eof
  /\ IF read_state THEN pc' = "log_file" /\ seen' = state /\ UNCHANGED tseen
     ELSE Done
  /\ UNCHANGED <<via_run, known, files, ctrd, procs, hostlog, ghist, gfaults>>

ReadLogFile ==
  /\ pc = "log_file"
  /\ LET size == IF log = None THEN 0 ELSE log.n
         to   == IF offset < size THEN offset + 1 ELSE size
     IN  /\ offset' = IF log = None THEN offset ELSE to
         /\ eof' = (seen = "EXITED" /\ offset' >= size)
  /\ Done
  /\ UNCHANGED <<via_run, known, files, ctrd, procs, ghist, gfaults>>

------------------------------------------------------------------------------
(* The container.                                                          *)

Output ==
  /\ task = "running"
  /\ produced[owner] < MaxOut
  /\ produced' = [produced EXCEPT ![owner] = @ + 1]
  /\ UNCHANGED <<via_run, known, files, ctrd, agentl, aux, logged, hostlog,
                 ghist, gfaults>>

\* By itself, or by a signal the agent sent: since it may end at any time, the
\* model keeps no trace of the signals.
TaskExits ==
  /\ task = "running"
  /\ task' = "stopped"
  /\ UNCHANGED <<via_run, known, files, record, life, owner, agentl,
                 procs, hostlog, ghist, gfaults>>

------------------------------------------------------------------------------
(* run_logged_foreground, in the log runner of life l.                     *)

\* ctr run creates the container and its task, or is refused, or fails, with or
\* without the container; the log is opened in any case.
RunnerRuns(l) ==
  /\ via_run /\ aux[l] = "spawned"
  /\ log' = IF log = None THEN [life |-> l, n |-> 0] ELSE log
  /\ \/ /\ ~record
        /\ record' = TRUE
        /\ task' = "running" /\ owner' = l
        /\ aux' = [aux EXCEPT ![l] = "following"]
        /\ UNCHANGED gfaults
     \/ /\ record
        /\ aux' = [aux EXCEPT ![l] = "trunc"]
        /\ UNCHANGED <<record, task, owner, gfaults>>
     \/ /\ ~record /\ GFault
        /\ record' \in BOOLEAN
        /\ owner' = IF record' THEN l ELSE owner
        /\ aux' = [aux EXCEPT ![l] = "trunc"]
        /\ UNCHANGED task
  /\ UNCHANGED <<via_run, known, meta, state, life, agentl, produced, logged,
                 hostlog, ghist>>

\* A record goes to the log, unless the log was unlinked meanwhile.
RunnerLogs(l) ==
  /\ via_run /\ aux[l] \in {"following", "draining"}
  /\ logged[l] < produced[l]
  /\ logged' = [logged EXCEPT ![l] = @ + 1]
  /\ log' = IF log # None /\ log.life = l THEN [log EXCEPT !.n = @ + 1] ELSE log
  /\ UNCHANGED <<via_run, known, meta, state, ctrd, agentl, aux, produced,
                 hostlog, ghist, gfaults>>

\* Writing the log, poll or read fails: the runner kills ctr, which leaves the
\* task running, and writes EXITED all the same.
RunnerFails(l) ==
  /\ via_run /\ aux[l] \in {"following", "draining"}
  /\ GFault
  /\ cut' = TRUE
  /\ aux' = [aux EXCEPT ![l] = "trunc"]
  /\ UNCHANGED <<via_run, known, files, ctrd, agentl, produced, logged, hostlog,
                 stopped, removed, reported, blind, early, stale, clobbered, again,
                 torn>>

\* ctr run sees the exit, deletes the task if the agent has not, and ends.
RunnerSeesExit(l) ==
  /\ via_run /\ aux[l] = "following"
  /\ \/ owner = l /\ task = "stopped" /\ task' = "none"
     \/ (owner # l \/ task = "none") /\ UNCHANGED task
  /\ aux' = [aux EXCEPT ![l] = "draining"]
  /\ UNCHANGED <<via_run, known, files, record, life, owner, agentl,
                 produced, logged, hostlog, ghist, gfaults>>

MutRunnerDrained(l) ==  \* ends with ctr, leaving what is in the pipes
  /\ via_run /\ aux[l] = "draining"
  /\ aux' = [aux EXCEPT ![l] = "trunc"]
  /\ UNCHANGED <<via_run, known, files, ctrd, agentl, produced, logged, hostlog,
                 ghist, gfaults>>

\* Both pipes are at their end and the last lines flushed.
RunnerDrained(l) ==
  /\ via_run /\ aux[l] = "draining"
  /\ logged[l] = produced[l]
  /\ aux' = [aux EXCEPT ![l] = "trunc"]
  /\ UNCHANGED <<via_run, known, files, ctrd, agentl, produced, logged, hostlog,
                 ghist, gfaults>>

------------------------------------------------------------------------------
(* The exit watcher of life l.                                             *)

MutWatcherSeesExit(l) ==  \* any task state but RUNNING_PAUSED ends the watch
  /\ ~via_run /\ aux[l] = "following"
  /\ aux' = [aux EXCEPT ![l] = "trunc"]
  /\ UNCHANGED <<via_run, known, files, ctrd, agentl, produced, logged, hostlog,
                 ghist, gfaults>>

\* The task of this id stopped or is missing (polling); with `ctr tasks wait`
\* a missing task ends the watch only when the state says EXITED.
WatcherSeesExit(l) ==
  /\ ~via_run /\ aux[l] = "following"
  /\ task # "running"
  /\ \/ aux' = [aux EXCEPT ![l] = "trunc"]
     \/ /\ task = "none" /\ state = "EXITED"
        /\ aux' = [aux EXCEPT ![l] = "gone"]
  /\ UNCHANGED <<via_run, known, files, ctrd, agentl, produced, logged, hostlog,
                 ghist, gfaults>>

------------------------------------------------------------------------------
(* Both write EXITED, whatever the file says now, and exit.                *)

AuxTruncate(l) ==
  /\ aux[l] = "trunc"
  /\ state' = "empty"
  /\ aux' = [aux EXCEPT ![l] = "write"]
  /\ UNCHANGED <<via_run, known, meta, log, ctrd, agentl, produced, logged,
                 hostlog, ghist, gfaults>>

\* The result of write_state is ignored here too.
AuxWrite(l) ==
  /\ \/ /\ aux[l] = "write"
        /\ state' = "EXITED"
        /\ UNCHANGED <<torn, gfaults>>
     \/ /\ aux[l] \in {"trunc", "write"}
        /\ GFault /\ torn' = TRUE
        /\ UNCHANGED state
  /\ aux' = [aux EXCEPT ![l] = "gone"]
  /\ UNCHANGED <<via_run, known, meta, log, ctrd, agentl, produced, logged,
                 hostlog, stopped, removed, reported, blind, early, stale, clobbered,
                 cut, again>>

AgentWorks ==
  \/ CreateCtr \/ CreateMeta \/ CreateTruncate \/ CreateWrite
  \/ StartTruncate \/ StartWrite \/ StartSpawn
  \/ StopWait \/ StopTruncate \/ StopWrite
  \/ RemoveTask \/ RemoveContainer \/ RemoveFiles
  \/ StatusQuery \/ StatusTruncate \/ StatusWrite
  \/ ReadLogFile

AuxWorks(l) ==
  \/ RunnerRuns(l) \/ RunnerLogs(l) \/ RunnerSeesExit(l) \/ RunnerDrained(l)
  \/ WatcherSeesExit(l)
  \/ AuxTruncate(l) \/ AuxWrite(l)

GuestNext ==
  \/ CreateBegin \/ StartBegin \/ StopBegin \/ RemoveBegin
  \/ StatusBegin \/ ReadLogState
  \/ AgentWorks
  \/ Output \/ TaskExits
  \/ \E l \in Lives : AuxWorks(l) \/ RunnerFails(l)

GuestSpec == GuestInit /\ [][GuestNext]_gvars

\* The agent and the processes it forked run (each takes a bounded number of
\* steps), and the monitor of the host asks for the status again and again.
GuestFairness ==
  /\ WF_gvars(AgentWorks)
  /\ WF_gvars(\E l \in Lives : AuxWorks(l))
  /\ SF_gvars(StatusBegin)

------------------------------------------------------------------------------
(* Properties.                                                             *)

\* When StopContainer succeeds the container does not run, and does not run
\* again before the next start (stop_container waits for the task to end).  The
\* one exception: with start_via_run, a stop that found no task because the
\* log runner had yet to create it.
StopMeansStopped ==
  stopped => task # "running" \/ (via_run /\ blind)

\* When RemoveContainer succeeds containerd holds neither the task nor the
\* container, and the metadata is gone, with the same exception.
RemoveIsComplete ==
  removed => (task = "none" /\ ~record /\ meta = "none") \/ (via_run /\ blind)

\* The state file says EXITED only when the container has ended, unless a
\* process forked for an earlier container of the same id outlived its removal,
\* or, with start_via_run: a remove missed the runner's task, the runner failed
\* on its log, or the container was started again, and the second runner, whose
\* ctr run is refused, wrote EXITED beside the first.
NoFalseExit ==
  state = "EXITED" /\ task = "running"
    => stale \/ (via_run /\ (blind \/ cut \/ again))

\* When READ_LOG says eof the host has every record of the container: the state
\* is read before the file, and the runner writes EXITED after its last record.
\* The exceptions: the agent wrote EXITED itself, after a stop or on seeing the
\* task stopped, before the runner had drained the pipes; the runner failed; a
\* second start unlinked the log; or a process of an earlier container outlived
\* its removal.
EofMeansAll ==
  eof /\ via_run /\ known = "started" =>
    offset = produced[life] \/ early \/ stale \/ blind \/ cut \/ again

\* The end of a container is reported: unless it is removed first, some answer
\* says EXITED.  The exceptions: the state file could not be written, which no
\* writer of EXITED looks at; and with start_via_run, a status request that was
\* under way at the exit wrote RUNNING over EXITED (status_container reads the
\* file, asks containerd, then writes the file), a second start wrote RUNNING
\* over EXITED and failed, or an earlier stop or remove missed the runner's task.
ExitReported ==
  (known = "started" /\ task = "stopped")
    ~> (reported \/ known # "started" \/ pc = "remove_files"
        \/ torn \/ (via_run /\ (clobbered \/ again \/ blind)))
==============================================================================
