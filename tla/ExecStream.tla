----------------------------- MODULE ExecStream ------------------------------
(***************************************************************************)
(* Terminal sessions of the guest agent: session.c, stream_device.c and the *)
(* exec_tty operations of runtime_containerd_stub.c.  The agent thread      *)
(* prepares, starts, resizes and closes sessions one request at a time; a   *)
(* started session has a child process, an output pump and a waiter; one    *)
(* reader thread takes input for all sessions from the stream channel.     *)
(* Descriptors are numbers: the lowest free one is taken, and a number that *)
(* was closed is used again, here by another terminal only (the agent opens *)
(* other files as well).  A thread that copied a number out of the session  *)
(* before it was closed goes on using the number.  Session ids, taken from  *)
(* the clock in milliseconds, are assumed to differ.                       *)
(*                                                                         *)
(* Bytes are left out.  A start that fails before its session is published *)
(* (no running task, no terminal, no memory) leaves everything as it was   *)
(* and is not a step.                                                      *)
(***************************************************************************)
EXTENDS Naturals, Functions

CONSTANTS
  Session,
  Fds,         \* bound: descriptor numbers, 1..n
  MaxStarts,   \* bound: starts, of all sessions together
  ThreadFaults \* bound: failing pthread_create calls and exit packets

ASSUME ExecConstants == Fds \in Nat /\ "nobody" \notin Session

Closed == 0    \* the descriptor -1
Nobody == "nobody"
Pump   == Session \X (1..MaxStarts)

VARIABLES
  sess,        \* session->state
  master,      \* session->master_fd
  pid,         \* session->child_pid is set
  child,       \* the child: "none", "alive", "dead" (a zombie), "reaped"
  hup,         \* the child was hung up or killed
  fdt,         \* fdt[f]: the session whose terminal f is, or Nobody
  starts,      \* starts of the session so far
  xagent,      \* the agent thread: [at, s, fd]
  pump, pfd,   \* the pumps, and the number each one uses
  waiter,      \* "none", "wait", "reaped", "send", "gone"
  reader,      \* the reader thread: [s, fd], s = Nobody when it waits
  exits,       \* history: exit packets sent for the session
  announce,    \* history: sessions whose start succeeded
  unsent,      \* history: sessions whose exit packet could not be sent
  tfaults

svars == <<sess, master, pid, child, hup, fdt, starts>>
xvars == <<svars, xagent, pump, pfd, waiter, reader, exits, announce, unsent,
           tfaults>>

Idle == [at |-> "idle", s |-> Nobody, fd |-> Closed]

ExecInit ==
  /\ sess = [s \in Session |-> "none"]
  /\ master = [s \in Session |-> Closed]
  /\ pid = [s \in Session |-> FALSE]
  /\ child = [s \in Session |-> "none"]
  /\ hup = [s \in Session |-> FALSE]
  /\ fdt = [f \in 1..Fds |-> Nobody]
  /\ starts = [s \in Session |-> 0]
  /\ xagent = Idle
  /\ pump = [p \in Pump |-> "none"]
  /\ pfd = [p \in Pump |-> Closed]
  /\ waiter = [s \in Session |-> "none"]
  /\ reader = [s |-> Nobody, fd |-> Closed]
  /\ exits = [s \in Session |-> 0]
  /\ announce = {}
  /\ unsent = {}
  /\ tfaults = 0

------------------------------------------------------------------------------
(* The agent thread.                                                       *)

\* mkga_session_prepare.
ExecPrepare(s) ==
  /\ xagent = Idle
  /\ sess[s] = "none"
  /\ sess' = [sess EXCEPT ![s] = "prepared"]
  /\ UNCHANGED <<master, pid, child, hup, fdt, starts, xagent, pump, pfd, waiter,
                 reader, exits, announce, unsent, tfaults>>

\* exec_tty_start: the container's task runs; posix_openpt and fork.
ExecOpen(s) ==
  /\ xagent = Idle
  /\ sess[s] = "prepared"
  /\ SumFunction(starts) < MaxStarts
  /\ \E f \in 1..Fds :
       /\ fdt[f] = Nobody
       /\ \A g \in 1..(f - 1) : fdt[g] # Nobody
       /\ fdt' = [fdt EXCEPT ![f] = s]
       /\ xagent' = [at |-> "publish", s |-> s, fd |-> f]
  /\ child' = [child EXCEPT ![s] = "alive"]
  /\ hup' = [hup EXCEPT ![s] = FALSE]
  /\ starts' = [starts EXCEPT ![s] = @ + 1]
  /\ UNCHANGED <<sess, master, pid, pump, pfd, waiter, reader, exits, announce,
                 unsent, tfaults>>

\* The start gives up: the session is withdrawn and the child killed.
ThreadFault ==
  /\ tfaults < ThreadFaults
  /\ tfaults' = tfaults + 1
  /\ xagent' = [xagent EXCEPT !.at = "withdraw"]

\* The session takes the terminal and the child, unless O_NONBLOCK or the
\* waiter's argument could not be had.
ExecPublish ==
  /\ xagent.at = "publish"
  /\ \/ /\ master' = [master EXCEPT ![xagent.s] = xagent.fd]
        /\ pid' = [pid EXCEPT ![xagent.s] = TRUE]
        /\ sess' = [sess EXCEPT ![xagent.s] = "running"]
        /\ xagent' = [xagent EXCEPT !.at = "pump"]
        /\ UNCHANGED tfaults
     \/ ThreadFault /\ UNCHANGED <<master, pid, sess>>
  /\ UNCHANGED <<child, hup, fdt, starts, pump, pfd, waiter, reader, exits,
                 announce, unsent>>

\* pthread_create of the pump, then of the waiter; a failure of either one
\* withdraws the session, and a pump that was created stays.
ExecCreatePump ==
  /\ xagent.at = "pump"
  /\ \/ /\ pump' = [pump EXCEPT ![<<xagent.s, starts[xagent.s]>>] = "look"]
        /\ xagent' = [xagent EXCEPT !.at = "waiter"]
        /\ UNCHANGED tfaults
     \/ ThreadFault /\ UNCHANGED pump
  /\ UNCHANGED <<svars, pfd, waiter, reader, exits, announce, unsent>>

ExecCreateWaiter ==
  /\ xagent.at = "waiter"
  /\ \/ /\ waiter' = [waiter EXCEPT ![xagent.s] = "wait"]
        /\ announce' = announce \cup {xagent.s}
        /\ xagent' = Idle
        /\ UNCHANGED tfaults
     \/ ThreadFault /\ UNCHANGED <<waiter, announce>>
  /\ UNCHANGED <<svars, pump, pfd, reader, exits, unsent>>

ExecWithdraw ==
  /\ xagent.at = "withdraw"
  /\ sess' = [sess EXCEPT ![xagent.s] = "prepared"]
  /\ master' = [master EXCEPT ![xagent.s] = Closed]
  /\ pid' = [pid EXCEPT ![xagent.s] = FALSE]
  /\ hup' = [hup EXCEPT ![xagent.s] = TRUE]
  /\ xagent' = [xagent EXCEPT !.at = "reap"]
  /\ UNCHANGED <<child, fdt, starts, pump, pfd, waiter, reader, exits, announce,
                 unsent, tfaults>>

\* waitpid of the killed child, then close.
ExecReap ==
  /\ xagent.at = "reap"
  /\ child[xagent.s] = "dead"
  /\ child' = [child EXCEPT ![xagent.s] = "reaped"]
  /\ fdt' = [fdt EXCEPT ![xagent.fd] = Nobody]
  /\ xagent' = Idle
  /\ UNCHANGED <<sess, master, pid, hup, starts, pump, pfd, waiter, reader,
                 exits, announce, unsent, tfaults>>

CloseMaster(s) ==
  /\ fdt' = IF master[s] = Closed THEN fdt ELSE [fdt EXCEPT ![master[s]] = Nobody]
  /\ master' = [master EXCEPT ![s] = Closed]

MutExecClose(s) ==  \* leaves the terminal to the waiter
  /\ xagent = Idle
  /\ sess[s] # "none"
  /\ sess' = [sess EXCEPT ![s] = "closed"]
  /\ master' = [master EXCEPT ![s] = Closed]
  /\ xagent' = [at |-> IF pid[s] THEN "hup" ELSE "idle",
                s |-> IF pid[s] THEN s ELSE Nobody, fd |-> Closed]
  /\ UNCHANGED <<pid, child, hup, fdt, starts, pump, pfd, waiter, reader, exits,
                 announce, unsent, tfaults>>

\* exec_tty_close, in any state; the signal goes out after the unlock.
ExecClose(s) ==
  /\ xagent = Idle
  /\ sess[s] # "none"
  /\ sess' = [sess EXCEPT ![s] = "closed"]
  /\ CloseMaster(s)
  /\ xagent' = [at |-> IF pid[s] THEN "hup" ELSE "idle",
                s |-> IF pid[s] THEN s ELSE Nobody, fd |-> Closed]
  /\ UNCHANGED <<pid, child, hup, starts, pump, pfd, waiter, reader, exits,
                 announce, unsent, tfaults>>

ExecHup ==
  /\ xagent.at = "hup"
  /\ hup' = [hup EXCEPT ![xagent.s] = TRUE]
  /\ xagent' = Idle
  /\ UNCHANGED <<sess, master, pid, child, fdt, starts, pump, pfd, waiter,
                 reader, exits, announce, unsent, tfaults>>

\* exec_tty_resize: the number is copied under the lock, ioctl comes after.
ExecResize(s) ==
  /\ xagent = Idle
  /\ sess[s] = "running" /\ master[s] # Closed
  /\ xagent' = [at |-> "resize", s |-> s, fd |-> master[s]]
  /\ UNCHANGED <<svars, pump, pfd, waiter, reader, exits, announce, unsent, tfaults>>

ExecIoctl ==
  /\ xagent.at = "resize"
  /\ xagent' = Idle
  /\ UNCHANGED <<svars, pump, pfd, waiter, reader, exits, announce, unsent, tfaults>>

------------------------------------------------------------------------------
(* The child, the pump and the waiter of a session.                        *)

ChildExits(s) ==
  /\ child[s] = "alive"
  /\ child' = [child EXCEPT ![s] = "dead"]
  /\ UNCHANGED <<sess, master, pid, hup, fdt, starts, xagent, pump, pfd, waiter,
                 reader, exits, announce, unsent, tfaults>>

\* The descriptor and the state are copied under the lock.
PumpLooks(p) ==
  /\ pump[p] = "look"
  /\ IF master[p[1]] = Closed \/ sess[p[1]] \in {"exited", "closed"}
       THEN pump' = [pump EXCEPT ![p] = "gone"] /\ UNCHANGED pfd
       ELSE /\ pump' = [pump EXCEPT ![p] = "poll"]
            /\ pfd' = [pfd EXCEPT ![p] = master[p[1]]]
  /\ UNCHANGED <<svars, xagent, waiter, reader, exits, announce, unsent, tfaults>>

\* poll and read on the number: output, nothing, or no such descriptor leads
\* round the loop; a terminal without its child hangs up.
PumpReads(p) ==
  /\ pump[p] = "poll"
  /\ \/ pump' = [pump EXCEPT ![p] = "look"]
     \/ /\ fdt[pfd[p]] # Nobody
        /\ child[fdt[pfd[p]]] \in {"dead", "reaped"}
        /\ pump' = [pump EXCEPT ![p] = "gone"]
  /\ pfd' = [pfd EXCEPT ![p] = Closed]
  /\ UNCHANGED <<svars, xagent, waiter, reader, exits, announce, unsent, tfaults>>

WaiterReaps(s) ==
  /\ waiter[s] = "wait"
  /\ child[s] = "dead"
  /\ child' = [child EXCEPT ![s] = "reaped"]
  /\ waiter' = [waiter EXCEPT ![s] = "reaped"]
  /\ UNCHANGED <<sess, master, pid, hup, fdt, starts, xagent, pump, pfd, reader,
                 exits, announce, unsent, tfaults>>

MutWaiterClosesFirst(s) ==  \* the state is set only after the exit packet
  /\ waiter[s] = "reaped"
  /\ CloseMaster(s)
  /\ pid' = [pid EXCEPT ![s] = FALSE]
  /\ waiter' = [waiter EXCEPT ![s] = "send"]
  /\ UNCHANGED <<sess, child, hup, starts, xagent, pump, pfd, reader, exits,
                 announce, unsent, tfaults>>

MutWaiterCloses(s) ==  \* overwrites CLOSED
  /\ waiter[s] = "reaped"
  /\ CloseMaster(s)
  /\ pid' = [pid EXCEPT ![s] = FALSE]
  /\ sess' = [sess EXCEPT ![s] = "exited"]
  /\ waiter' = [waiter EXCEPT ![s] = "send"]
  /\ UNCHANGED <<child, hup, starts, xagent, pump, pfd, reader, exits, announce,
                 unsent, tfaults>>

WaiterCloses(s) ==
  /\ waiter[s] = "reaped"
  /\ CloseMaster(s)
  /\ pid' = [pid EXCEPT ![s] = FALSE]
  /\ sess' = IF sess[s] = "closed" THEN sess ELSE [sess EXCEPT ![s] = "exited"]
  /\ waiter' = [waiter EXCEPT ![s] = "send"]
  /\ UNCHANGED <<child, hup, starts, xagent, pump, pfd, reader, exits, announce,
                 unsent, tfaults>>

MutWaiterSends(s) ==  \* a closed session gets no exit packet
  /\ waiter[s] = "send"
  /\ exits' = IF sess[s] = "closed" THEN exits ELSE [exits EXCEPT ![s] = @ + 1]
  /\ waiter' = [waiter EXCEPT ![s] = "gone"]
  /\ UNCHANGED <<svars, xagent, pump, pfd, reader, announce, unsent, tfaults>>

\* mkga_stream_send_exit: number and send under one lock.  A failing send is
\* not tried again, and its result is ignored.
WaiterSends(s) ==
  /\ waiter[s] = "send"
  /\ \/ /\ exits' = [exits EXCEPT ![s] = @ + 1]
        /\ UNCHANGED <<unsent, tfaults>>
     \/ /\ tfaults < ThreadFaults
        /\ tfaults' = tfaults + 1
        /\ unsent' = unsent \cup {s}
        /\ UNCHANGED exits
  /\ waiter' = [waiter EXCEPT ![s] = "gone"]
  /\ UNCHANGED <<svars, xagent, pump, pfd, reader, announce>>

------------------------------------------------------------------------------
(* The reader thread: mkga_session_write_stdin.                            *)

ReaderLooks(s) ==
  /\ reader.s = Nobody
  /\ sess[s] = "running" /\ master[s] # Closed
  /\ reader' = [s |-> s, fd |-> master[s]]
  /\ UNCHANGED <<svars, xagent, pump, pfd, waiter, exits, announce, unsent, tfaults>>

\* Written to whatever the number is now; an error ends it as well.
ReaderWrites ==
  /\ reader.s # Nobody
  /\ reader' = [s |-> Nobody, fd |-> Closed]
  /\ UNCHANGED <<svars, xagent, pump, pfd, waiter, exits, announce, unsent, tfaults>>

AgentExecWorks ==
  ExecPublish \/ ExecCreatePump \/ ExecCreateWaiter \/ ExecWithdraw \/ ExecReap
  \/ ExecHup \/ ExecIoctl

ExecNext ==
  \/ \E s \in Session :
       \/ ExecPrepare(s) \/ ExecOpen(s) \/ ExecClose(s) \/ ExecResize(s)
       \/ ChildExits(s) \/ WaiterReaps(s) \/ WaiterCloses(s) \/ WaiterSends(s)
       \/ ReaderLooks(s)
  \/ AgentExecWorks
  \/ \E p \in Pump : PumpLooks(p) \/ PumpReads(p)
  \/ ReaderWrites

ExecSpec == ExecInit /\ [][ExecNext]_xvars

\* Threads run, and a child that was hung up or killed ends.
ExecFairness ==
  /\ WF_xvars(AgentExecWorks)
  /\ WF_xvars(\E s \in Session : WaiterReaps(s) \/ WaiterCloses(s) \/ WaiterSends(s))
  /\ WF_xvars(\E s \in Session : hup[s] /\ ChildExits(s))

------------------------------------------------------------------------------
(* Properties.                                                             *)

\* Every open terminal belongs to a session that still names it, or to the
\* start under way, so none is leaked; and the number a session names is its own
\* open terminal, so close, the waiter and a failing start, each of which may
\* close it, never close another session's terminal or close one twice.
TerminalsHeld ==
  /\ \A s \in Session : master[s] # Closed => fdt[master[s]] = s
  /\ \A f \in 1..Fds : fdt[f] # Nobody =>
       \/ master[fdt[f]] = f
       \/ xagent.fd = f /\ xagent.s = fdt[f] /\ xagent.at \notin {"idle", "resize"}

\* As long as a session runs, its output, its input and its window size go to
\* its own terminal, though pump, reader and exec_tty_resize use a descriptor
\* they copied earlier.  The exceptions: a session started again after its
\* first start failed; and a session that has ended, whose pump, reader and
\* resize may still use the number for one call, whosever terminal it is then.
OwnTerminal ==
  /\ \A p \in Pump :
       pump[p] = "poll" /\ sess[p[1]] = "running" /\ starts[p[1]] = 1
         => fdt[pfd[p]] = p[1]
  /\ reader.s # Nobody => (sess[reader.s] = "running" /\ starts[reader.s] = 1
                              => fdt[reader.fd] = reader.s)
  /\ xagent.at = "resize" => (sess[xagent.s] = "running"
                                => fdt[xagent.fd] = xagent.s)

\* A closed session stays closed: neither the waiter nor a start revives it.
ClosedStays == [][\A s \in Session : sess[s] = "closed" => sess'[s] = "closed"]_xvars

\* A started session whose child ended or which was closed is announced by an
\* exit packet, unless that one packet could not be sent, and its child does
\* not stay a zombie.
ExitAnnounced ==
  \A s \in Session :
    (s \in announce /\ (child[s] = "dead" \/ sess[s] = "closed"))
      ~> ((exits[s] = 1 \/ s \in unsent) /\ child[s] = "reaped")
==============================================================================
