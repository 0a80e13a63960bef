-------------------------- MODULE ExecStreamProofs ---------------------------
(***************************************************************************)
(* What the guest's terminal sessions promise, proved for any number of     *)
(* sessions, descriptors, starts and failing threads.                      *)
(***************************************************************************)
EXTENDS ExecStream, TLAPS

\* Where a start is after it opened the terminal.
Early  == {"publish"}
Middle == {"pump", "waiter"}
Late   == {"withdraw", "reap"}
Start  == Early \cup Middle \cup Late

XagentTypes ==
  /\ xagent \in [at : Start \cup {"idle", "hup", "resize"},
                 s : Session \cup {Nobody}, fd : 0..Fds]
  /\ xagent.at = "idle" => xagent = Idle
  /\ xagent.at # "idle" => xagent.s \in Session
  /\ xagent.at = "hup" => xagent.fd = Closed

\* The types.  How far the pumps and waiters are matters only where it is named
\* below.
Types ==
  /\ sess \in [Session -> {"none", "prepared", "running", "exited", "closed"}]
  /\ master \in [Session -> 0..Fds]
  /\ fdt \in [1..Fds -> Session \cup {Nobody}]
  /\ starts \in [Session -> Nat]
  /\ XagentTypes
  /\ pump \in [Pump -> {"none", "look", "poll", "gone"}]
  /\ pfd \in [Pump -> 0..Fds]
  /\ waiter \in [Session -> {"none", "wait", "reaped", "send", "gone"}]
  /\ reader \in [s : Session \cup {Nobody}, fd : 0..Fds]

\* A session has a terminal just as long as it runs, and the terminal is its own.
Owned ==
  \A s \in Session :
    /\ sess[s] = "running" <=> master[s] # Closed
    /\ master[s] # Closed => fdt[master[s]] = s
    /\ sess[s] = "running" => starts[s] > 0
    /\ sess[s] \in {"none", "prepared"} => waiter[s] = "none"

\* A start under way holds its terminal, and no waiter for its session is there.
Starting ==
  xagent.at \in Start =>
    /\ xagent.fd \in 1..Fds /\ fdt[xagent.fd] = xagent.s
    /\ waiter[xagent.s] = "none"
    /\ starts[xagent.s] > 0
    /\ xagent.at \in {"publish", "reap"} => sess[xagent.s] = "prepared"
    /\ xagent.at \in Middle => master[xagent.s] = xagent.fd
    /\ xagent.at = "withdraw" => sess[xagent.s] = "prepared"
          \/ master[xagent.s] = xagent.fd

\* Nobody has copied a descriptor of a session that never ran.
Unused(s) ==
  /\ \A p \in Pump : p[1] = s => pump[p] = "none"
  /\ reader.s # s

\* What was copied is the descriptor of the only start.
Copies ==
  /\ \A s \in Session : starts[s] = 0 => Unused(s)
  /\ xagent.at = "publish" /\ starts[xagent.s] = 1 => Unused(xagent.s)
  /\ \A p \in Pump : pump[p] = "poll" /\ sess[p[1]] = "running" /\ starts[p[1]] = 1
       => pfd[p] = master[p[1]]
  /\ reader.s # Nobody => (sess[reader.s] = "running" /\ starts[reader.s] = 1
                              => reader.fd = master[reader.s])
  /\ xagent.at = "resize" => (sess[xagent.s] = "running"
                                => xagent.fd = master[xagent.s])

\* An open terminal is named by its session or by the start under way.
Named ==
  \A f \in 1..Fds : fdt[f] # Nobody =>
    \/ master[fdt[f]] = f
    \/ xagent.fd = f /\ xagent.s = fdt[f] /\ xagent.at \notin {"idle", "resize"}

ExecInv == Types /\ Owned /\ Starting /\ Named /\ Copies

\* -1, the descriptor of no terminal, is one of the values master_fd takes.
LEMMA ClosedFd == Closed \in 0..Fds
  BY ExecConstants DEF Closed

\* The agent goes on with the request it is serving.
LEMMA XagentMoves ==
  ASSUME Types, NEW at, xagent' = [xagent EXCEPT !.at = at]
  PROVE  /\ xagent'.at = at /\ xagent'.s = xagent.s /\ xagent'.fd = xagent.fd
         /\ xagent.at # "idle" /\ at \in Start => XagentTypes'
  BY Zenon DEF Types, XagentTypes, Start, Early, Middle, Late

\* The agent has answered.
LEMMA XagentIdle == ASSUME xagent' = Idle PROVE XagentTypes'
  BY ExecConstants DEF XagentTypes, Idle, Closed

\* A pthread_create that fails sends the start back.
LEMMA FaultTypes ==
  ASSUME Types, ThreadFault, xagent.at # "idle" PROVE XagentTypes'
  BY XagentMoves, Zenon DEF ThreadFault, Start, Late

\* The types are kept.
LEMMA TypesStep == ExecInv /\ [ExecNext]_xvars => Types'
  <1> SUFFICES ASSUME ExecInv, [ExecNext]_xvars PROVE Types'
    BY Zenon
  <1> USE ExecConstants DEF ExecInv
  <1>1. ASSUME NEW s \in Session, ExecPrepare(s) PROVE Types'
    BY <1>1, Zenon DEF ExecPrepare, Types, XagentTypes
  <1>2. ASSUME NEW s \in Session, ExecOpen(s) PROVE Types'
    BY <1>2, SMTT(60) DEF ExecOpen, Types, Start, Early, Middle, Late, XagentTypes
  <1>3. ASSUME NEW s \in Session, ExecClose(s) PROVE Types'
    BY <1>3, Zenon DEF ExecClose, CloseMaster, Types, Idle, XagentTypes
  <1>4. ASSUME NEW s \in Session, ExecResize(s) PROVE Types'
    BY <1>4, Zenon DEF ExecResize, svars, Types, XagentTypes
  <1>5. ASSUME NEW s \in Session, ChildExits(s) PROVE Types'
    BY <1>5, Zenon DEF ChildExits, Types, XagentTypes
  <1>6. ASSUME NEW s \in Session, WaiterReaps(s) PROVE Types'
    BY <1>6, Zenon DEF WaiterReaps, Types, XagentTypes
  <1>7. ASSUME NEW s \in Session, WaiterCloses(s) PROVE Types'
    BY <1>7, SMTT(60) DEF WaiterCloses, CloseMaster, Types, Closed, XagentTypes
  <1>8. ASSUME NEW s \in Session, WaiterSends(s) PROVE Types'
    BY <1>8, Zenon DEF WaiterSends, svars, Types, XagentTypes
  <1>9. ASSUME NEW s \in Session, ReaderLooks(s) PROVE Types'
    BY <1>9, Zenon DEF ReaderLooks, svars, Types, XagentTypes
  <1>10. ASSUME ExecPublish PROVE Types'
    <2>1. XagentTypes'
      BY <1>10, XagentMoves, FaultTypes, Zenon DEF ExecPublish, Start, Middle
    <2>2. /\ master' \in [Session -> 0..Fds]
          /\ sess' \in [Session -> {"none", "prepared", "running", "exited", "closed"}]
      <3>1. xagent.fd \in 0..Fds
        BY Zenon DEF Types, XagentTypes
      <3> QED
        BY <1>10, <3>1, Zenon DEF ExecPublish, Types
    <2> QED
      BY <1>10, <2>1, <2>2, Zenon DEF ExecPublish, Types
  <1>11. ASSUME ExecCreatePump PROVE Types'
    <2>1. XagentTypes'
      BY <1>11, XagentMoves, FaultTypes, Zenon DEF ExecCreatePump, Start, Middle
    <2>2. pump' \in [Pump -> {"none", "look", "poll", "gone"}]
      BY <1>11, Zenon DEF ExecCreatePump, Types
    <2> QED
      BY <1>11, <2>1, <2>2, Zenon DEF ExecCreatePump, svars, Types
  <1>12. ASSUME ExecCreateWaiter PROVE Types'
    <2>1. CASE xagent' = Idle /\ waiter' = [waiter EXCEPT ![xagent.s] = "wait"]
      BY <1>12, <2>1, XagentIdle, Zenon DEF ExecCreateWaiter, svars, Types
    <2>2. CASE ThreadFault /\ UNCHANGED waiter
      BY <1>12, <2>2, FaultTypes, Zenon DEF ExecCreateWaiter, svars, Types
    <2> QED
      BY <1>12, <2>1, <2>2, Zenon DEF ExecCreateWaiter
  <1>13. ASSUME ExecWithdraw PROVE Types'
    <2>1. /\ sess' \in [Session -> {"none", "prepared", "running", "exited", "closed"}]
          /\ master' \in [Session -> 0..Fds]
      BY <1>13, ClosedFd, Zenon DEF ExecWithdraw, Types
    <2>2. XagentTypes'
      BY <1>13, XagentMoves, Zenon DEF ExecWithdraw, Start, Late
    <2> QED
      BY <1>13, <2>1, <2>2, Zenon DEF ExecWithdraw, Types
  <1>14. ASSUME ExecReap PROVE Types'
    <2>1. fdt' \in [1..Fds -> Session \cup {Nobody}]
      BY <1>14, Zenon DEF ExecReap, Types
    <2> QED
      BY <1>14, <2>1, XagentIdle, Zenon DEF ExecReap, Types
  <1>15. ASSUME ExecHup PROVE Types'
    BY <1>15, Zenon DEF ExecHup, Types, Idle, XagentTypes
  <1>16. ASSUME ExecIoctl PROVE Types'
    BY <1>16, SMTT(60) DEF ExecIoctl, svars, Types, Idle, Closed, XagentTypes
  <1>17. ASSUME NEW p \in Pump, PumpLooks(p) PROVE Types'
    <2>1. /\ pump' \in [Pump -> {"none", "look", "poll", "gone"}]
          /\ pfd' \in [Pump -> 0..Fds]
      <3>1. p[1] \in Session
        BY Zenon DEF Pump
      <3>2. master[p[1]] \in 0..Fds
        BY <3>1, Zenon DEF Types
      <3> QED
        BY <1>17, <3>2, ZenonT(60) DEF PumpLooks, Types
    <2> QED
      BY <1>17, <2>1, Zenon DEF PumpLooks, svars, Types, XagentTypes
  <1>18. ASSUME NEW p \in Pump, PumpReads(p) PROVE Types'
    <2>1. /\ pump' \in [Pump -> {"none", "look", "poll", "gone"}]
          /\ pfd' \in [Pump -> 0..Fds]
      BY <1>18, ClosedFd, ZenonT(60) DEF PumpReads, Types
    <2> QED
      BY <1>18, <2>1, Zenon DEF PumpReads, svars, Types, XagentTypes
  <1>19. ASSUME ReaderWrites PROVE Types'
    BY <1>19, SMTT(60) DEF ReaderWrites, svars, Types, Closed, XagentTypes
  <1>20. CASE UNCHANGED xvars
    BY <1>20, Zenon DEF xvars, svars, Types, XagentTypes
  <1> QED
    BY <1>1, <1>2, <1>3, <1>4, <1>5, <1>6, <1>7, <1>8, <1>9, <1>10, <1>11, <1>12, <1>13,
       <1>14, <1>15, <1>16, <1>17, <1>18, <1>19, <1>20, Zenon DEF ExecNext,
           AgentExecWorks

\* master_fd is set and cleared together with the state, under the lock.
LEMMA OwnedStep == ExecInv /\ [ExecNext]_xvars => Owned'
  <1> SUFFICES ASSUME ExecInv, [ExecNext]_xvars PROVE Owned'
    BY Zenon
  <1> USE ExecConstants DEF ExecInv
  <1>1. ASSUME NEW s \in Session, ExecPrepare(s) PROVE Owned'
    BY <1>1 DEF ExecPrepare, Owned
  <1>2. ASSUME NEW s \in Session, ExecOpen(s) PROVE Owned'
    BY <1>2 DEF ExecOpen, Owned, Nobody
  <1>3. ASSUME NEW s \in Session, ExecClose(s) PROVE Owned'
    BY <1>3 DEF ExecClose, CloseMaster, Types, Owned
  <1>4. ASSUME NEW s \in Session, ExecResize(s) PROVE Owned'
    BY <1>4, Zenon DEF ExecResize, svars, Owned
  <1>5. ASSUME NEW s \in Session, ChildExits(s) PROVE Owned'
    BY <1>5, Zenon DEF ChildExits, Owned
  <1>6. ASSUME NEW s \in Session, WaiterReaps(s) PROVE Owned'
    BY <1>6 DEF WaiterReaps, Owned
  <1>7. ASSUME NEW s \in Session, WaiterCloses(s) PROVE Owned'
    BY <1>7, SMTT(60) DEF WaiterCloses, CloseMaster, Types, Owned
  <1>8. ASSUME NEW s \in Session, WaiterSends(s) PROVE Owned'
    BY <1>8 DEF WaiterSends, svars, Owned
  <1>9. ASSUME NEW s \in Session, ReaderLooks(s) PROVE Owned'
    BY <1>9, Zenon DEF ReaderLooks, svars, Owned
  <1>10. ASSUME ExecPublish PROVE Owned'
    BY <1>10, SMTT(60) DEF ExecPublish, Types, Start, Early, Closed, Owned, Starting
  <1>11. ASSUME ExecCreatePump PROVE Owned'
    BY <1>11, Zenon DEF ExecCreatePump, svars, Owned
  <1>12. ASSUME ExecCreateWaiter PROVE Owned'
    BY <1>12, SMTT(60) DEF ExecCreateWaiter, svars, Types, Start, Middle, Closed, Owned,
       Starting
  <1>13. ASSUME ExecWithdraw PROVE Owned'
    BY <1>13 DEF ExecWithdraw, Types, Start, Late, Owned, Starting
  <1>14. ASSUME ExecReap PROVE Owned'
    BY <1>14 DEF ExecReap, Start, Late, Owned, Starting
  <1>15. ASSUME ExecHup PROVE Owned'
    BY <1>15, Zenon DEF ExecHup, Owned
  <1>16. ASSUME ExecIoctl PROVE Owned'
    BY <1>16, Zenon DEF ExecIoctl, svars, Owned
  <1>17. ASSUME NEW p \in Pump, PumpLooks(p) PROVE Owned'
    BY <1>17, Zenon DEF PumpLooks, svars, Owned
  <1>18. ASSUME NEW p \in Pump, PumpReads(p) PROVE Owned'
    BY <1>18, Zenon DEF PumpReads, svars, Owned
  <1>19. ASSUME ReaderWrites PROVE Owned'
    BY <1>19, Zenon DEF ReaderWrites, svars, Owned
  <1>20. CASE UNCHANGED xvars
    BY <1>20, Zenon DEF xvars, svars, Owned
  <1> QED
    BY <1>1, <1>2, <1>3, <1>4, <1>5, <1>6, <1>7, <1>8, <1>9, <1>10, <1>11, <1>12, <1>13,
       <1>14, <1>15, <1>16, <1>17, <1>18, <1>19, <1>20, Zenon DEF ExecNext,
           AgentExecWorks

\* The dispatcher serves one request at a time: nothing but its own steps, and
\* the waiter it has yet to create, moves a session it is starting.
LEMMA StartingStep == ExecInv /\ [ExecNext]_xvars => Starting'
  <1> SUFFICES ASSUME ExecInv, [ExecNext]_xvars PROVE Starting'
    BY Zenon
  <1> USE ExecConstants DEF ExecInv
  <1>1. ASSUME NEW s \in Session, ExecPrepare(s) PROVE Starting'
    BY <1>1 DEF ExecPrepare, Starting
  <1>2. ASSUME NEW s \in Session, ExecOpen(s) PROVE Starting'
    BY <1>2 DEF ExecOpen, Types, Middle, Owned, Starting
  <1>3. ASSUME NEW s \in Session, ExecClose(s) PROVE Starting'
    BY <1>3, Zenon DEF ExecClose, Start, Early, Middle, Late, Starting
  <1>4. ASSUME NEW s \in Session, ExecResize(s) PROVE Starting'
    BY <1>4, Zenon DEF ExecResize, Start, Early, Middle, Late, Starting
  <1>5. ASSUME NEW s \in Session, ChildExits(s) PROVE Starting'
    BY <1>5, Zenon DEF ChildExits, Starting
  <1>6. ASSUME NEW s \in Session, WaiterReaps(s) PROVE Starting'
    BY <1>6 DEF WaiterReaps, Starting
  <1>7. ASSUME NEW s \in Session, WaiterCloses(s) PROVE Starting'
    BY <1>7 DEF WaiterCloses, CloseMaster, Owned, Starting
  <1>8. ASSUME NEW s \in Session, WaiterSends(s) PROVE Starting'
    BY <1>8 DEF WaiterSends, svars, Starting
  <1>9. ASSUME NEW s \in Session, ReaderLooks(s) PROVE Starting'
    BY <1>9, Zenon DEF ReaderLooks, svars, Starting
  <1>10. ASSUME ExecPublish PROVE Starting'
    BY <1>10, SMTT(60) DEF ExecPublish, ThreadFault, Types, Start, Early, Middle, Late,
       Idle,
       Closed, Owned, Starting, XagentTypes
  <1>11. ASSUME ExecCreatePump PROVE Starting'
    <2>1. xagent'.s = xagent.s /\ xagent'.fd = xagent.fd /\ xagent'.at \in {"waiter",
              "withdraw"}
      BY <1>11, XagentMoves, Zenon DEF ExecCreatePump, ThreadFault
    <2>2. xagent.at \in Start /\ xagent.at \in Middle
      BY <1>11, Zenon DEF ExecCreatePump, Start, Middle
    <2> QED
      BY <1>11, <2>1, <2>2, Zenon DEF ExecCreatePump, svars, Starting
  <1>12. ASSUME ExecCreateWaiter PROVE Starting'
    BY <1>12, SMTT(60) DEF ExecCreateWaiter, ThreadFault, svars, Types, Start, Early,
       Middle,
       Late,
       Idle, Owned, Starting, XagentTypes
  <1>13. ASSUME ExecWithdraw PROVE Starting'
    BY <1>13, ZenonT(60) DEF ExecWithdraw, Types, Middle, Starting, XagentTypes
  <1>14. ASSUME ExecReap PROVE Starting'
    BY <1>14, Zenon DEF ExecReap, Start, Early, Middle, Late, Idle, Starting
  <1>15. ASSUME ExecHup PROVE Starting'
    BY <1>15, Zenon DEF ExecHup, Start, Early, Middle, Late, Idle, Starting
  <1>16. ASSUME ExecIoctl PROVE Starting'
    BY <1>16, Zenon DEF ExecIoctl, Start, Early, Middle, Late, Idle, Starting
  <1>17. ASSUME NEW p \in Pump, PumpLooks(p) PROVE Starting'
    BY <1>17, Zenon DEF PumpLooks, svars, Starting
  <1>18. ASSUME NEW p \in Pump, PumpReads(p) PROVE Starting'
    BY <1>18, Zenon DEF PumpReads, svars, Starting
  <1>19. ASSUME ReaderWrites PROVE Starting'
    BY <1>19, Zenon DEF ReaderWrites, svars, Starting
  <1>20. CASE UNCHANGED xvars
    BY <1>20, Zenon DEF xvars, svars, Starting
  <1> QED
    BY <1>1, <1>2, <1>3, <1>4, <1>5, <1>6, <1>7, <1>8, <1>9, <1>10, <1>11, <1>12, <1>13,
       <1>14, <1>15, <1>16, <1>17, <1>18, <1>19, <1>20, Zenon DEF ExecNext,
           AgentExecWorks

\* A terminal changes hands only where its owner names it.
LEMMA NamedStep == ExecInv /\ [ExecNext]_xvars => Named'
  <1> SUFFICES ASSUME ExecInv, [ExecNext]_xvars PROVE Named'
    BY Zenon
  <1> USE ExecConstants DEF ExecInv
  <1>1. ASSUME NEW s \in Session, ExecPrepare(s) PROVE Named'
    BY <1>1, Zenon DEF ExecPrepare, Named
  <1>2. ASSUME NEW s \in Session, ExecOpen(s) PROVE Named'
    BY <1>2 DEF ExecOpen, Idle, Named
  <1>3. ASSUME NEW s \in Session, ExecClose(s) PROVE Named'
    BY <1>3 DEF ExecClose, CloseMaster, Types, Idle, Named
  <1>4. ASSUME NEW s \in Session, ExecResize(s) PROVE Named'
    BY <1>4, Zenon DEF ExecResize, svars, Idle, Named
  <1>5. ASSUME NEW s \in Session, ChildExits(s) PROVE Named'
    BY <1>5, Zenon DEF ChildExits, Named
  <1>6. ASSUME NEW s \in Session, WaiterReaps(s) PROVE Named'
    BY <1>6, Zenon DEF WaiterReaps, Named
  <1>7. ASSUME NEW s \in Session, WaiterCloses(s) PROVE Named'
    BY <1>7, SMTT(60) DEF WaiterCloses, CloseMaster, Types, Named
  <1>8. ASSUME NEW s \in Session, WaiterSends(s) PROVE Named'
    BY <1>8, Zenon DEF WaiterSends, svars, Named
  <1>9. ASSUME NEW s \in Session, ReaderLooks(s) PROVE Named'
    BY <1>9, Zenon DEF ReaderLooks, svars, Named
  <1>10. ASSUME ExecPublish PROVE Named'
    <2>1. xagent'.s = xagent.s /\ xagent'.fd = xagent.fd /\ xagent'.at \in {"pump",
              "withdraw"}
      BY <1>10, XagentMoves, Zenon DEF ExecPublish, ThreadFault
    <2>2. fdt[xagent.fd] = xagent.s /\ xagent.s \in Session
      BY <1>10, Zenon DEF ExecPublish, Starting, Types, XagentTypes
    <2>3. fdt' = fdt /\ \A s \in Session : s # xagent.s => master'[s] = master[s]
      BY <1>10, ZenonT(60) DEF ExecPublish, Types
    <2>4. fdt \in [1..Fds -> Session \cup {Nobody}] /\ master[xagent.s] = Closed
      BY <1>10, <2>2, Zenon DEF ExecPublish, Starting, Start, Early, Owned, Types
    <2> QED
      BY <2>1, <2>2, <2>3, <2>4 DEF Named, Closed
  <1>11. ASSUME ExecCreatePump PROVE Named'
    BY <1>11, Zenon DEF ExecCreatePump, svars, Start, Middle, Starting, Named
  <1>12. ASSUME ExecCreateWaiter PROVE Named'
    BY <1>12, Zenon DEF ExecCreateWaiter, svars, Start, Middle, Starting, Named
  <1>13. ASSUME ExecWithdraw PROVE Named'
    BY <1>13 DEF ExecWithdraw, Types, Start, Late, Owned, Starting, Named
  <1>14. ASSUME ExecReap PROVE Named'
    BY <1>14 DEF ExecReap, Types, Named
  <1>15. ASSUME ExecHup PROVE Named'
    <2>1. \A f \in 1..Fds : ~ (xagent.fd = f /\ xagent.s = fdt[f] /\ xagent.at = "hup")
      BY <1>15 DEF Types, XagentTypes, Closed
    <2> QED
      BY <1>15, <2>1, Zenon DEF ExecHup, Named
  <1>16. ASSUME ExecIoctl PROVE Named'
    BY <1>16, Zenon DEF ExecIoctl, svars, Named
  <1>17. ASSUME NEW p \in Pump, PumpLooks(p) PROVE Named'
    BY <1>17, Zenon DEF PumpLooks, svars, Named
  <1>18. ASSUME NEW p \in Pump, PumpReads(p) PROVE Named'
    BY <1>18, Zenon DEF PumpReads, svars, Named
  <1>19. ASSUME ReaderWrites PROVE Named'
    BY <1>19, Zenon DEF ReaderWrites, svars, Named
  <1>20. CASE UNCHANGED xvars
    BY <1>20, Zenon DEF xvars, svars, Named
  <1> QED
    BY <1>1, <1>2, <1>3, <1>4, <1>5, <1>6, <1>7, <1>8, <1>9, <1>10, <1>11, <1>12, <1>13,
       <1>14, <1>15, <1>16, <1>17, <1>18, <1>19, <1>20, Zenon DEF ExecNext,
           AgentExecWorks

\* A descriptor is copied from the session, and the session keeps it while it
\* runs: a second one takes a second start.
LEMMA CopiesStep == ExecInv /\ [ExecNext]_xvars => Copies'
  <1> SUFFICES ASSUME ExecInv, [ExecNext]_xvars PROVE Copies'
    BY Zenon
  <1> USE ExecConstants DEF ExecInv
  <1>1. ASSUME NEW s \in Session, ExecPrepare(s) PROVE Copies'
    BY <1>1 DEF ExecPrepare, Copies, Unused
  <1>2. ASSUME NEW s \in Session, ExecOpen(s) PROVE Copies'
    BY <1>2, SMTT(60) DEF ExecOpen, Types, Copies, Unused
  <1>3. ASSUME NEW s \in Session, ExecClose(s) PROVE Copies'
    BY <1>3 DEF ExecClose, CloseMaster, Types, Copies, Unused
  <1>4. ASSUME NEW s \in Session, ExecResize(s) PROVE Copies'
    BY <1>4, Zenon DEF ExecResize, svars, Copies, Unused
  <1>5. ASSUME NEW s \in Session, ChildExits(s) PROVE Copies'
    BY <1>5, Zenon DEF ChildExits, Copies, Unused
  <1>6. ASSUME NEW s \in Session, WaiterReaps(s) PROVE Copies'
    BY <1>6, Zenon DEF WaiterReaps, Copies, Unused
  <1>7. ASSUME NEW s \in Session, WaiterCloses(s) PROVE Copies'
    BY <1>7, SMTT(60) DEF WaiterCloses, CloseMaster, Types, Copies, Unused
  <1>8. ASSUME NEW s \in Session, WaiterSends(s) PROVE Copies'
    BY <1>8, Zenon DEF WaiterSends, svars, Copies, Unused
  <1>9. ASSUME NEW s \in Session, ReaderLooks(s) PROVE Copies'
    BY <1>9 DEF ReaderLooks, svars, Start, Early, Owned, Starting, Copies, Unused
  <1>10. ASSUME ExecPublish PROVE Copies'
    <2>1. xagent'.s = xagent.s /\ xagent'.at \in {"pump", "withdraw"}
      BY <1>10, XagentMoves, Zenon DEF ExecPublish, ThreadFault
    <2>2. UNCHANGED <<starts, pump, pfd, reader>>
      BY <1>10, Zenon DEF ExecPublish
    <2>3. CASE UNCHANGED <<master, pid, sess>>
      BY <2>1, <2>2, <2>3, Zenon DEF Copies, Unused
    <2>4. CASE /\ master' = [master EXCEPT ![xagent.s] = xagent.fd]
               /\ sess' = [sess EXCEPT ![xagent.s] = "running"]
      <3>1. xagent.s \in Session /\ (starts[xagent.s] = 1 => Unused(xagent.s))
        BY <1>10, Zenon DEF ExecPublish, Copies, Types, XagentTypes
      <3>2. \A s \in Session : s # xagent.s => master'[s] = master[s]
                /\ sess'[s] = sess[s]
        BY <2>4
      <3>3. \A p \in Pump : p[1] \in Session
        BY Zenon DEF Pump
      <3>4. reader.s \in Session \cup {Nobody}
        BY Zenon DEF Types
      <3> QED
        BY <2>1, <2>2, <3>1, <3>2, <3>3, <3>4 DEF Copies, Unused
    <2> QED
      BY <1>10, <2>3, <2>4, Zenon DEF ExecPublish
  <1>11. ASSUME ExecCreatePump PROVE Copies'
    <2>1. xagent'.s = xagent.s /\ xagent'.at \in {"waiter", "withdraw"}
      BY <1>11, XagentMoves, Zenon DEF ExecCreatePump, ThreadFault
    <2>2. UNCHANGED <<sess, master, starts, pfd, reader>>
      BY <1>11, Zenon DEF ExecCreatePump, svars
    <2>3. xagent.s \in Session /\ starts[xagent.s] # 0
      BY <1>11 DEF ExecCreatePump, Starting, Types, XagentTypes
    <2>4. ASSUME NEW p \in Pump, pump'[p] # pump[p]
          PROVE  pump'[p] = "look" /\ p[1] = xagent.s
      <3>1. p = <<xagent.s, starts[xagent.s]>>
        BY <1>11, <2>4, Zenon DEF ExecCreatePump, Types
      <3> QED
        BY <1>11, <2>4, <3>1, Zenon DEF ExecCreatePump, Types
    <2> QED
      BY <2>1, <2>2, <2>3, <2>4 DEF Copies, Unused
  <1>12. ASSUME ExecCreateWaiter PROVE Copies'
    BY <1>12 DEF ExecCreateWaiter, ThreadFault, svars, Types, Idle, Copies, Unused,
       XagentTypes
  <1>13. ASSUME ExecWithdraw PROVE Copies'
    BY <1>13 DEF ExecWithdraw, Types, Copies, Unused
  <1>14. ASSUME ExecReap PROVE Copies'
    BY <1>14, Zenon DEF ExecReap, Idle, Copies, Unused
  <1>15. ASSUME ExecHup PROVE Copies'
    BY <1>15, Zenon DEF ExecHup, Idle, Copies, Unused
  <1>16. ASSUME ExecIoctl PROVE Copies'
    BY <1>16, Zenon DEF ExecIoctl, svars, Idle, Copies, Unused
  <1>17. ASSUME NEW p \in Pump, PumpLooks(p) PROVE Copies'
    <2>1. UNCHANGED <<sess, master, starts, xagent, reader>>
      BY <1>17, Zenon DEF PumpLooks, svars
    <2>2. p[1] \in Session /\ starts[p[1]] # 0 /\ ~ (xagent.at = "publish"
              /\ starts[xagent.s] = 1 /\ xagent.s = p[1])
      BY <1>17, Zenon DEF PumpLooks, Copies, Unused, Pump
    <2>3. \A q \in Pump : q # p => pump'[q] = pump[q] /\ pfd'[q] = pfd[q]
      BY <1>17 DEF PumpLooks, Types
    <2>4. pump'[p] = "poll" => pfd'[p] = master[p[1]]
      BY <1>17 DEF PumpLooks, Types
    <2> QED
      BY <2>1, <2>2, <2>3, <2>4 DEF Copies, Unused
  <1>18. ASSUME NEW p \in Pump, PumpReads(p) PROVE Copies'
    BY <1>18 DEF PumpReads, svars, Types, Copies, Unused
  <1>19. ASSUME ReaderWrites PROVE Copies'
    BY <1>19 DEF ReaderWrites, svars, Types, Copies, Unused, XagentTypes, Nobody
  <1>20. CASE UNCHANGED xvars
    BY <1>20, Zenon DEF xvars, svars, Copies, Unused
  <1> QED
    BY <1>1, <1>2, <1>3, <1>4, <1>5, <1>6, <1>7, <1>8, <1>9, <1>10, <1>11, <1>12, <1>13,
       <1>14, <1>15, <1>16, <1>17, <1>18, <1>19, <1>20, ZenonT(60) DEF ExecNext,
           AgentExecWorks

\* The invariant of the session code (exec_tty_prepare, exec_tty_start,
\* exec_tty_close, exec_tty_resize, the pump, waiter and reader threads) holds in
\* every state.
THEOREM ExecInvariance == ExecSpec => []ExecInv
  <1>1. ExecInit => ExecInv
    BY ExecConstants DEF ExecInit, ExecInv, Types, XagentTypes, Owned, Starting,
       Named, Copies, Unused, Start, Early, Middle, Late, Idle, Closed, Nobody
  <1>2. ExecInv /\ [ExecNext]_xvars => ExecInv'
    BY TypesStep, OwnedStep, StartingStep, NamedStep, CopiesStep, Zenon
       DEF ExecInv
  <1> QED
    BY <1>1, <1>2, PTL DEF ExecSpec

\* No terminal is leaked: every open descriptor is the master_fd of its session or
\* in the hands of the start under way.  And none is closed under another session:
\* a master_fd that is set is the open terminal of that very session
\* (exec_tty_close, the waiter and a failing exec_tty_start all close it).
THEOREM ExecTerminals == ExecSpec => []TerminalsHeld
  <1>1. ExecInv => TerminalsHeld
    BY Zenon DEF ExecInv, Owned, Named, TerminalsHeld
  <1> QED
    BY ExecInvariance, <1>1, PTL

\* While a session runs, what its pump reads, its reader writes and
\* exec_tty_resize resizes is its own terminal, though each uses a descriptor it
\* copied before it released the lock; a session started again after a failed
\* start is left out.
THEOREM ExecOwnTerminal == ExecSpec => []OwnTerminal
  <1>1. ExecInv => OwnTerminal
    <2> SUFFICES ASSUME ExecInv PROVE OwnTerminal
      BY Zenon
    <2>1. \A s \in Session : sess[s] = "running" => fdt[master[s]] = s
      BY Zenon DEF ExecInv, Owned
    <2>2. \A p \in Pump : p[1] \in Session
      BY Zenon DEF Pump
    <2>3. reader.s # Nobody => reader.s \in Session
      BY Zenon DEF ExecInv, Types
    <2>4. xagent.at = "resize" => xagent.s \in Session
      BY Zenon DEF ExecInv, Types, XagentTypes
    <2> QED
      BY <2>1, <2>2, <2>3, <2>4, Zenon DEF ExecInv, Copies, OwnTerminal
  <1> QED
    BY ExecInvariance, <1>1, PTL

\* A session that exec_tty_close closed stays closed: neither the waiter nor the
\* undoing of a start that failed gives it another state.
THEOREM ExecClosedStays == ExecSpec => ClosedStays
  <1>1. ExecInv /\ [ExecNext]_xvars
          => [\A s \in Session : sess[s] = "closed" => sess'[s] = "closed"]_xvars
    <2> SUFFICES ASSUME ExecInv, ExecNext, NEW s \in Session, sess[s] = "closed"
                 PROVE  sess'[s] = "closed"
      BY Zenon
    <2>1. ASSUME ExecWithdraw PROVE sess'[s] = "closed"
      <3>1. xagent.s \in Session /\ sess[xagent.s] # "closed"
        BY <2>1 DEF ExecWithdraw, ExecInv, Types, XagentTypes, Starting, Owned, Closed
      <3> QED
        BY <2>1, <3>1 DEF ExecWithdraw
    <2>2. ASSUME ExecPublish PROVE sess'[s] = "closed"
      BY <2>2, SMTT(60) DEF ExecPublish, ExecInv, Types, XagentTypes, Starting
    <2>3. ASSUME ~ ExecWithdraw, ~ ExecPublish PROVE sess'[s] = "closed"
      <3>0. sess \in [Session -> {"none", "prepared", "running", "exited", "closed"}]
        BY Zenon DEF ExecInv, Types
      <3>1. ASSUME NEW r \in Session,
                   \/ ExecPrepare(r) \/ ExecClose(r) \/ WaiterReaps(r)
                   \/ WaiterCloses(r)
            PROVE  sess'[s] = "closed"
        BY <3>0, <3>1 DEF ExecPrepare, ExecClose, WaiterReaps, WaiterCloses
      <3>2. ASSUME NEW r \in Session,
                   \/ ExecOpen(r) \/ ExecResize(r) \/ ChildExits(r)
                   \/ WaiterSends(r) \/ ReaderLooks(r)
            PROVE  sess' = sess
        BY <3>2, Zenon DEF ExecOpen, ExecResize, ChildExits, WaiterSends,
           ReaderLooks, svars
      <3>3. ASSUME NEW p \in Pump, PumpLooks(p) \/ PumpReads(p) PROVE sess' = sess
        BY <3>3, Zenon DEF PumpLooks, PumpReads, svars
      <3>4. ASSUME \/ ReaderWrites \/ ExecCreatePump \/ ExecCreateWaiter
                   \/ ExecReap \/ ExecHup \/ ExecIoctl
            PROVE  sess' = sess
        BY <3>4, Zenon DEF ReaderWrites, ExecCreatePump, ExecCreateWaiter, ExecReap,
           ExecHup, ExecIoctl, svars
      <3> QED
        BY <2>3, <3>1, <3>2, <3>3, <3>4, Zenon DEF ExecNext, AgentExecWorks
    <2> QED
      BY <2>1, <2>2, <2>3, Zenon
  <1> QED
    BY ExecInvariance, <1>1, PTL DEF ExecSpec, ClosedStays

==============================================================================
