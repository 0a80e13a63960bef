------------------------- MODULE ControlPlaneProofs --------------------------
(***************************************************************************)
(* Proofs about ControlPlane for any number of calls, any queue capacity   *)
(* and any number of failures, stops and boots of the guest.               *)
(***************************************************************************)
EXTENDS ControlPlane, FiniteSetTheorems, TLAPS

Statuses == {"0", "EINVAL", "ENOENT", "ENOSPC", "ENOSYS", "EIO"}
Refusals == {"encode", "ENOLINK", "EAGAIN"}

Requests == [kind : {"REQUEST"}, id : Call, argc : Nat, status : {"0"}]
Answers  == [kind : {"RESPONSE"}, id : Call, argc : {0}, status : Statuses]
              \cup {READY}

Types ==
  /\ pending \subseteq Call
  /\ call \in [Call -> {"new", "registered", "sent", "done"}]
  /\ argc \in [Call -> Nat]
  /\ chan \in [Call -> Statuses \cup {"receiver", None}]
  /\ deposit \subseteq Call \X (Statuses \cup {"receiver"})
  /\ outcome \in [Call -> Statuses \cup Failures \cup {None}]
  /\ hq \in Seq(Answers)
  /\ g2h \in Seq(Answers)
  /\ h2g \in Seq(Requests)
  /\ gq \in Seq(Requests)
  /\ agent \in {"off", "create", "recv", "handle", "send", "dead"}
  /\ agent = "handle" => req \in Requests
  /\ agent = "send" => resp \in Answers
  /\ handled \in [Call -> {0, 1}]
  /\ rc \in [Call -> Rc \cup {None}]
  /\ deposits \in [Call -> {0, 1}]

\* Where the host's threads and the guest's kernel are, and that no queue holds
\* more descriptors than it has.
Places ==
  /\ looping \in {"none", "running", "failed"}
  /\ waiter \in {"new", "waiting", "ready", "snapshot", "receiver", "deadline"}
  /\ gk \in {"off", "bit", "up"}
  /\ hlost \in Nat
  /\ Len(h2g) + hlost <= Cap
  /\ Len(g2h) <= Cap

\* The request of c may still be run: it was sent and has not been run.
Fresh(c) == /\ handled[c] = 0
            /\ call[c] \in {"sent", "done"}
            /\ outcome[c] \notin Refusals

Distinct(s) == \A i, j \in DOMAIN s : s[i].id = s[j].id => i = j

\* A request is at one place at most: on its way, in the guest's kernel, or in
\* the agent's hands.
OnePlace ==
  /\ Distinct(gq) /\ Distinct(h2g)
  /\ \A i \in DOMAIN gq : \A j \in DOMAIN h2g : gq[i].id # h2g[j].id
  /\ \A i \in DOMAIN gq : Fresh(gq[i].id)
  /\ \A i \in DOMAIN h2g : Fresh(h2g[i].id)
  /\ agent = "handle" =>
       /\ Fresh(req.id)
       /\ \A i \in DOMAIN gq : gq[i].id # req.id
       /\ \A i \in DOMAIN h2g : h2g[i].id # req.id

\* A request that was never queued was never run.
Unsent ==
  \A c \in Call :
    /\ call[c] \in {"new", "registered"} => handled[c] = 0 /\ outcome[c] = None
    /\ outcome[c] \in Refusals => handled[c] = 0

\* A status that travels back is the one the run of that request returned.
Honest(c, st) == handled[c] = 1 /\ st = Status(rc[c])
Truthful(m)   == m = READY \/ Honest(m.id, m.status)

Faithful ==
  /\ agent = "send" => Truthful(resp)
  /\ \A i \in DOMAIN g2h : Truthful(g2h[i])
  /\ \A i \in DOMAIN hq : Truthful(hq[i])
  /\ \A d \in deposit : d[2] = "receiver" \/ Honest(d[1], d[2])
  /\ \A c \in Call : chan[c] \in {"receiver", None} \/ Honest(c, chan[c])
  /\ AnswerIsMine

\* A call that is pending has no result yet, and one that is not new never
\* becomes pending again.
Once ==
  /\ \A c \in pending : deposits[c] = 0 /\ call[c] # "new"
  /\ \A c \in Call : call[c] = "new" => deposits[c] = 0
  /\ \A d \in deposit : d[1] \notin pending /\ deposits[d[1]] = 0 /\ call[d[1]] # "new"
  /\ \A d, e \in deposit : d[1] = e[1] => d = e

------------------------------------------------------------------------------
(* Sequences of messages.                                                  *)

LEMMA TailOf ==
  ASSUME NEW S, NEW s \in Seq(S), s # <<>>
  PROVE  /\ Tail(s) \in Seq(S)
         /\ Head(s) \in S
         /\ Head(s) = s[1] /\ 1 \in DOMAIN s
         /\ \A i \in DOMAIN Tail(s) : i + 1 \in DOMAIN s /\ Tail(s)[i] = s[i + 1]
               /\ i \in Nat
  OBVIOUS

LEMMA AppendOf ==
  ASSUME NEW S, NEW s \in Seq(S), NEW m \in S
  PROVE  /\ Append(s, m) \in Seq(S)
         /\ \A i \in DOMAIN Append(s, m) :
              (i \in DOMAIN s /\ Append(s, m)[i] = s[i])
                \/ (i = Len(s) + 1 /\ i \notin DOMAIN s /\ Append(s, m)[i] = m)
  OBVIOUS

LEMMA ConcatOf ==
  ASSUME NEW S, NEW s \in Seq(S), NEW t \in Seq(S)
  PROVE  /\ s \o t \in Seq(S)
         /\ \A i \in DOMAIN (s \o t) :
              (i \in DOMAIN s /\ (s \o t)[i] = s[i])
                \/ (i - Len(s) \in DOMAIN t /\ (s \o t)[i] = t[i - Len(s)] /\ i \in Nat)
  OBVIOUS

LEMMA InSeq == ASSUME NEW S, NEW s \in Seq(S) PROVE \A i \in DOMAIN s : s[i] \in S
  OBVIOUS

LEMMA EmptyOf == ASSUME NEW S PROVE <<>> \in Seq(S) /\ DOMAIN <<>> = {}
  OBVIOUS

LEMMA DistinctTail ==
  ASSUME NEW s \in Seq(Requests), s # <<>>, Distinct(s)
  PROVE  Distinct(Tail(s)) /\ \A i \in DOMAIN Tail(s) : Tail(s)[i].id # Head(s).id
  BY TailOf DEF Distinct

LEMMA DistinctAppend ==
  ASSUME NEW s \in Seq(Requests), NEW m \in Requests, Distinct(s),
         \A i \in DOMAIN s : s[i].id # m.id
  PROVE  Distinct(Append(s, m))
  BY AppendOf DEF Distinct

LEMMA DistinctConcat ==
  ASSUME NEW s \in Seq(Requests), NEW t \in Seq(Requests), Distinct(s), Distinct(t),
         \A i \in DOMAIN s : \A j \in DOMAIN t : s[i].id # t[j].id
  PROVE  Distinct(s \o t)
  BY ConcatOf, SMTT(60) DEF Distinct

LEMMA StatusOf == ASSUME NEW e PROVE Status(e) \in Statuses
  BY Zenon DEF Status, mkga_errno_from_code, mkga_strerror_name, Statuses

\* A result is taken out of pending before it is deposited.
LEMMA OnceStep == Types /\ Once /\ [Next]_vars => Once'
  <1> SUFFICES ASSUME Types, Once, [Next]_vars PROVE Once'
    BY Zenon
  <1> USE DEF Types, Once, hostu, hostk, guestk, agentv, hist
  <1>1. ASSUME NEW c \in Call, Begin(c) PROVE Once'
    BY <1>1 DEF Begin, Started, Return
  <1>2. ASSUME NEW c \in Call, SendRefused(c) PROVE Once'
    BY <1>2 DEF SendRefused, Return
  <1>3. ASSUME NEW c \in Call, SendOk(c) \/ NotifyFails(c) PROVE Once'
    BY <1>3 DEF SendOk, NotifyFails, Queued, Return
  <1>4. ASSUME NEW c \in Call, GetResult(c) PROVE Once'
    BY <1>4, Zenon DEF GetResult, Return
  <1>5. ASSUME NEW c \in Call, SeeReceiverDone(c) \/ Deadline(c) PROVE Once'
    BY <1>5 DEF SeeReceiverDone, Deadline, Return
  <1>6. ASSUME WaitReady \/ WaitReadyEnds \/ WaitReadyAgain PROVE Once'
    BY <1>6, Zenon DEF WaitReady, WaitReadyEnds, WaitReadyAgain, Started
  <1>7. ASSUME SkipWaitReady \/ ForcePeerReady \/ LoopEnters PROVE Once'
    BY <1>7, Zenon DEF SkipWaitReady, ForcePeerReady, LoopEnters, Started
  <1>8. ASSUME LoopReceives PROVE Once'
    <2> DEFINE m == Head(hq)
    <2>1. UNCHANGED <<call, deposits>> /\ deposit = {}
      BY <1>8, Zenon DEF LoopReceives
    <2>2. CASE m.id \in pending /\ pending' = pending \ {m.id}
                               /\ deposit' = {<<m.id, m.status>>}
      <3>1. \A d \in deposit' : d = <<m.id, m.status>> /\ d[1] = m.id
        BY <2>2
      <3> HIDE DEF m
      <3> QED
        BY <2>1, <2>2, <3>1, Zenon
    <2>3. CASE UNCHANGED <<pending, deposit>>
      BY <2>1, <2>3, Zenon
    <2> QED
      BY <1>8, <2>2, <2>3, Zenon DEF LoopReceives
  <1>9. ASSUME LoopFails PROVE Once'
    <2>1. pending' = {} /\ UNCHANGED <<call, deposits>>
      BY <1>9, Zenon DEF LoopFails
    <2>2. \A d \in deposit' : d[1] \in pending /\ d = <<d[1], "receiver">>
      BY <1>9 DEF LoopFails
    <2> QED
      BY <2>1, <2>2, Zenon
  <1>10. ASSUME LoopDeposits PROVE Once'
    BY <1>10 DEF LoopDeposits
  <1>11. ASSUME HostInterrupt PROVE Once'
    BY <1>11, Zenon DEF HostInterrupt
  <1>12. ASSUME GuestInterrupt PROVE Once'
    BY <1>12, Zenon DEF GuestInterrupt
  <1>13. ASSUME GuestBoots \/ GuestUp \/ GuestStops PROVE Once'
    BY <1>13, Zenon DEF GuestBoots, GuestUp, GuestStops
  <1>14. ASSUME AgentCreates \/ AgentAnswers PROVE Once'
    BY <1>14, Zenon DEF AgentCreates, AgentAnswers, AgentSends
  <1>15. ASSUME AgentReceives PROVE Once'
    BY <1>15, Zenon DEF AgentReceives, Decodes
  <1>16. ASSUME AgentHandles PROVE Once'
    BY <1>16, Zenon DEF AgentHandles, Response
  <1>17. ASSUME AgentSignalled PROVE Once'
    BY <1>17, Zenon DEF AgentSignalled
  <1>18. CASE UNCHANGED vars
    BY <1>18, Zenon DEF vars
  <1> QED
    BY <1>1, <1>2, <1>3, <1>4, <1>5, <1>6, <1>7, <1>8, <1>9, <1>10, <1>11, <1>12, <1>13,
       <1>14, <1>15, <1>16, <1>17, <1>18, Zenon DEF Next, CallerStep, HostStep,
       GuestStep, AgentStep

\* Only a sent request is run.
LEMMA UnsentStep == Types /\ OnePlace /\ Unsent /\ [Next]_vars => Unsent'
  <1> SUFFICES ASSUME Types, OnePlace, Unsent, [Next]_vars PROVE Unsent'
    BY Zenon
  <1> USE DEF Types, Unsent, Fresh, Refusals, Requests, Failures, Statuses,
          hostu, hostk, guestk, agentv, hist
  <1>1. ASSUME NEW c \in Call, Begin(c) PROVE Unsent'
    BY <1>1 DEF Begin, Started, Return
  <1>2. ASSUME NEW c \in Call, SendRefused(c) PROVE Unsent'
    BY <1>2, SMTT(60) DEF SendRefused, Return
  <1>3. ASSUME NEW c \in Call, SendOk(c) \/ NotifyFails(c) PROVE Unsent'
    BY <1>3, SMTT(60) DEF SendOk, NotifyFails, Return
  <1>4. ASSUME NEW c \in Call, GetResult(c) PROVE Unsent'
    BY <1>4, ZenonT(60) DEF GetResult, Return
  <1>5. ASSUME NEW c \in Call, SeeReceiverDone(c) \/ Deadline(c) PROVE Unsent'
    <2>1. PICK o \in {"receiver", "deadline"} :
            /\ call[c] = "sent" /\ call' = [call EXCEPT ![c] = "done"]
            /\ outcome' = [outcome EXCEPT ![c] = o] /\ UNCHANGED handled
      BY <1>5, Zenon DEF SeeReceiverDone, Deadline, Return
    <2>2. o \notin Refusals
      BY Zenon
    <2> QED
      BY <2>1, <2>2, ZenonT(60)
  <1>6. ASSUME WaitReady \/ WaitReadyEnds \/ WaitReadyAgain PROVE Unsent'
    BY <1>6, ZenonT(60) DEF WaitReady, WaitReadyEnds, WaitReadyAgain, Started
  <1>7. ASSUME SkipWaitReady \/ ForcePeerReady \/ LoopEnters PROVE Unsent'
    BY <1>7, ZenonT(60) DEF SkipWaitReady, ForcePeerReady, LoopEnters, Started
  <1>8. ASSUME LoopReceives PROVE Unsent'
    BY <1>8, Zenon DEF LoopReceives
  <1>9. ASSUME LoopFails PROVE Unsent'
    BY <1>9, Zenon DEF LoopFails
  <1>10. ASSUME LoopDeposits PROVE Unsent'
    BY <1>10 DEF LoopDeposits
  <1>11. ASSUME HostInterrupt PROVE Unsent'
    BY <1>11, Zenon DEF HostInterrupt
  <1>12. ASSUME GuestInterrupt PROVE Unsent'
    BY <1>12, ZenonT(60) DEF GuestInterrupt
  <1>13. ASSUME GuestBoots \/ GuestUp \/ GuestStops PROVE Unsent'
    <2>1. UNCHANGED <<call, outcome, handled>>
      BY <1>13, Zenon DEF GuestBoots, GuestUp, GuestStops
    <2> QED
      BY <2>1, Zenon
  <1>14. ASSUME AgentCreates \/ AgentAnswers PROVE Unsent'
    BY <1>14, ZenonT(60) DEF AgentCreates, AgentAnswers, AgentSends
  <1>15. ASSUME AgentReceives PROVE Unsent'
    BY <1>15, Zenon DEF AgentReceives, Decodes
  <1>16. ASSUME AgentHandles PROVE Unsent'
    BY <1>16, Zenon DEF OnePlace, AgentHandles, Response
  <1>17. ASSUME AgentSignalled PROVE Unsent'
    BY <1>17, Zenon DEF AgentSignalled
  <1>18. CASE UNCHANGED vars
    BY <1>18, Zenon DEF vars
  <1> QED
    BY <1>1, <1>2, <1>3, <1>4, <1>5, <1>6, <1>7, <1>8, <1>9, <1>10, <1>11, <1>12, <1>13,
       <1>14, <1>15, <1>16, <1>17, <1>18, ZenonT(60) DEF Next, CallerStep, HostStep,
       GuestStep, AgentStep

\* Types, and that no request is run and no result deposited twice.
LEMMA TypesStep == Types /\ OnePlace /\ Once /\ [Next]_vars => Types'
  <1> SUFFICES ASSUME Types, OnePlace, Once, [Next]_vars PROVE Types'
    BY Zenon
  <1> USE DEF Types, Failures, Statuses, hostu, hostk, guestk, agentv, hist
  <1>1. ASSUME NEW c \in Call, Begin(c) PROVE Types'
    BY <1>1, ZenonT(60) DEF Begin, Started, Return
  <1>2. ASSUME NEW c \in Call, SendRefused(c) PROVE Types'
    BY <1>2, Zenon DEF SendRefused, Return
  <1>3. ASSUME NEW c \in Call, SendOk(c) \/ NotifyFails(c) PROVE Types'
    <2>1. Request(c) \in Requests
      BY Zenon DEF Request, Requests
    <2>2. Append(h2g, Request(c)) \in Seq(Requests)
      BY <2>1, AppendOf, Zenon
    <2> QED
      BY <1>3, <2>2, Zenon DEF SendOk, NotifyFails, Queued, Return
  <1>4. ASSUME NEW c \in Call, GetResult(c) PROVE Types'
    BY <1>4, Zenon DEF GetResult, Return
  <1>5. ASSUME NEW c \in Call, SeeReceiverDone(c) \/ Deadline(c) PROVE Types'
    BY <1>5, Zenon DEF SeeReceiverDone, Deadline, Return
  <1>6. ASSUME WaitReady \/ WaitReadyEnds \/ WaitReadyAgain PROVE Types'
    BY <1>6, Zenon DEF WaitReady, WaitReadyEnds, WaitReadyAgain, Started
  <1>7. ASSUME SkipWaitReady \/ ForcePeerReady \/ LoopEnters PROVE Types'
    BY <1>7, Zenon DEF SkipWaitReady, ForcePeerReady, LoopEnters, Started
  <1>8. ASSUME LoopReceives PROVE Types'
    <2>1. Tail(hq) \in Seq(Answers) /\ Head(hq) \in Answers
      BY <1>8, TailOf, Zenon DEF LoopReceives
    <2>2. Head(hq).kind = "RESPONSE" => <<Head(hq).id,
              Head(hq).status>> \in Call \X Statuses
      BY <2>1 DEF Answers, READY
    <2> QED
      BY <1>8, <2>1, <2>2, SMTT(60) DEF LoopReceives
  <1>9. ASSUME LoopFails PROVE Types'
    BY <1>9 DEF LoopFails
  <1>10. ASSUME LoopDeposits PROVE Types'
    <2>1. PICK d \in deposit : /\ chan' = [chan EXCEPT ![d[1]] = d[2]]
                               /\ deposits' = [deposits EXCEPT ![d[1]] = @ + 1]
                               /\ deposit' = deposit \ {d}
      BY <1>10, Zenon DEF LoopDeposits
    <2>2. d[1] \in Call /\ d[2] \in Statuses \cup {"receiver"} /\ deposits[d[1]] = 0
      BY Zenon DEF Once
    <2> QED
      BY <1>10, <2>1, <2>2 DEF LoopDeposits
  <1>11. ASSUME HostInterrupt PROVE Types'
    <2>1. hq \o g2h \in Seq(Answers) /\ <<>> \in Seq(Answers)
      BY ConcatOf, EmptyOf, Zenon
    <2>2. g2h # <<>> => hq \o Tail(g2h) \in Seq(Answers)
      BY ConcatOf, TailOf, Zenon
    <2> QED
      BY <1>11, <2>1, <2>2, Zenon DEF HostInterrupt
  <1>12. ASSUME GuestInterrupt PROVE Types'
    <2>1. gq \o h2g \in Seq(Requests) /\ <<>> \in Seq(Requests)
      BY ConcatOf, EmptyOf, Zenon
    <2>2. h2g # <<>> => gq \o Tail(h2g) \in Seq(Requests)
      BY ConcatOf, TailOf, Zenon
    <2> QED
      BY <1>12, <2>1, <2>2, Zenon DEF GuestInterrupt
  <1>13. ASSUME GuestBoots \/ GuestUp \/ GuestStops PROVE Types'
    BY <1>13, EmptyOf, ZenonT(60) DEF GuestBoots, GuestUp, GuestStops
  <1>14. ASSUME AgentCreates \/ AgentAnswers PROVE Types'
    <2>1. Append(g2h, READY) \in Seq(Answers)
      BY AppendOf, Zenon DEF Answers
    <2>2. resp \in Answers => Append(g2h, resp) \in Seq(Answers)
      BY AppendOf, Zenon
    <2> QED
      BY <1>14, <2>1, <2>2, Zenon DEF AgentCreates, AgentAnswers, AgentSends
  <1>15. ASSUME AgentReceives PROVE Types'
    BY <1>15, TailOf, ZenonT(60) DEF AgentReceives, Decodes
  <1>16. ASSUME AgentHandles PROVE Types'
    <2>1. PICK e \in Rc : resp' = Response(req, e) /\ rc' = [rc EXCEPT ![req.id] = e]
      BY <1>16, Zenon DEF AgentHandles
    <2>2. req.id \in Call /\ handled[req.id] = 0
      BY <1>16, Zenon DEF AgentHandles, OnePlace, Fresh, Requests
    <2>3. Response(req, e) \in Answers
      BY <2>2, StatusOf, Zenon DEF Response, Answers
    <2> QED
      BY <1>16, <2>1, <2>2, <2>3 DEF AgentHandles
  <1>17. ASSUME AgentSignalled PROVE Types'
    BY <1>17, Zenon DEF AgentSignalled
  <1>18. CASE UNCHANGED vars
    BY <1>18, Zenon DEF vars
  <1> QED
    BY <1>1, <1>2, <1>3, <1>4, <1>5, <1>6, <1>7, <1>8, <1>9, <1>10, <1>11, <1>12, <1>13,
       <1>14, <1>15, <1>16, <1>17, <1>18, ZenonT(60) DEF Next, CallerStep, HostStep,
       GuestStep, AgentStep

LEMMA IdsOf ==
  ASSUME NEW s \in Seq(Requests), NEW i \in DOMAIN s
  PROVE  s[i] \in Requests /\ s[i].id \in Call
  <1>1. s[i] \in Requests
    OBVIOUS
  <1> QED
    BY <1>1, Zenon DEF Requests

\* A step of a caller leaves the requests where they are.
LEMMA CallerKeepsPlaces ==
  ASSUME Types, OnePlace, UNCHANGED <<h2g, gq, agent, req>>,
         \A d \in Call : Fresh(d) => Fresh(d)'
  PROVE  OnePlace'
  <1>1. \A i \in DOMAIN gq : Fresh(gq[i].id)'
    BY IdsOf, Zenon DEF Types, OnePlace
  <1>2. \A i \in DOMAIN h2g : Fresh(h2g[i].id)'
    BY IdsOf, Zenon DEF Types, OnePlace
  <1>3. agent = "handle" => Fresh(req.id)'
    BY Zenon DEF Types, OnePlace, Requests
  <1> QED
    BY <1>1, <1>2, <1>3, Zenon DEF OnePlace, Distinct

\* A request moves from place to place, and leaves the last one when it is run.
LEMMA OnePlaceStep == Types /\ OnePlace /\ Unsent /\ [Next]_vars => OnePlace'
  <1> SUFFICES ASSUME Types, OnePlace, Unsent, [Next]_vars PROVE OnePlace'
    BY Zenon
  <1> USE DEF Types, Fresh, Refusals, Failures, Statuses, hostu, hostk, guestk, agentv,
          hist
  <1>1. ASSUME NEW c \in Call, Begin(c) PROVE OnePlace'
    <2>1. \A d \in Call : Fresh(d) => Fresh(d)'
      BY <1>1, Zenon DEF Begin, Started, Return
    <2>2. UNCHANGED <<h2g, gq, agent, req>>
      BY <1>1, Zenon DEF Begin, Started, Return
    <2> QED
      BY <2>1, <2>2, CallerKeepsPlaces, Zenon
  <1>2. ASSUME NEW c \in Call, SendRefused(c) PROVE OnePlace'
    <2>1. \A d \in Call : Fresh(d) => Fresh(d)'
      BY <1>2, Zenon DEF SendRefused, Return
    <2>2. UNCHANGED <<h2g, gq, agent, req>>
      BY <1>2, Zenon DEF SendRefused, Return
    <2> QED
      BY <2>1, <2>2, CallerKeepsPlaces, Zenon
  <1>3. ASSUME NEW c \in Call, SendOk(c) \/ NotifyFails(c) PROVE OnePlace'
    <2> DEFINE m == Request(c)
    <2>1. m \in Requests /\ m.id = c
      BY Zenon DEF Request, Requests
    <2>2. /\ call[c] = "registered" /\ call' \in {[call EXCEPT ![c] = "sent"],
                [call EXCEPT ![c] = "done"]}
          /\ outcome' \in {outcome, [outcome EXCEPT ![c] = "ENODEV"]}
          /\ h2g' = Append(h2g, m)
          /\ UNCHANGED <<gq, agent, req, handled>>
      BY <1>3, Zenon DEF SendOk, NotifyFails, Queued, Return
    <2> HIDE DEF m
    <2>3. \A d \in Call : Fresh(d) => d # c
      BY <2>2, Zenon
    <2>4. Fresh(c)' /\ \A d \in Call : Fresh(d) => Fresh(d)'
      <3>1. handled[c] = 0 /\ outcome[c] \notin Refusals
        BY <2>2, ControlAssumption, Zenon DEF Unsent
      <3>2. Fresh(c)'
        BY <2>2, <3>1, Zenon
      <3>3. \A d \in Call : Fresh(d) => Fresh(d)'
        BY <2>2, <2>3, Zenon
      <3> QED
        BY <3>2, <3>3, Zenon
    <2>5. /\ \A i \in DOMAIN gq : gq[i].id \in Call /\ gq[i].id # c
          /\ \A i \in DOMAIN h2g : h2g[i].id \in Call /\ h2g[i].id # c
          /\ agent = "handle" => req.id \in Call /\ req.id # c
      BY <2>3, IdsOf, Zenon DEF Requests, OnePlace
    <2> HIDE DEF Types, OnePlace, Fresh
    <2>6. /\ Distinct(h2g)'
          /\ \A i \in DOMAIN h2g' : (i \in DOMAIN h2g /\ h2g'[i] = h2g[i])
                \/ h2g'[i].id = c
      <3>1. Distinct(Append(h2g, m))
        BY <2>1, <2>5, DistinctAppend, Zenon DEF Types, OnePlace
      <3>2. Distinct(h2g)'
        BY <2>2, <3>1, Zenon DEF Distinct
      <3> QED
        BY <2>1, <2>2, <3>2, AppendOf DEF Types
    <2>7. (\A i \in DOMAIN h2g : Fresh(h2g[i].id))'
      <3> SUFFICES ASSUME NEW i \in DOMAIN h2g' PROVE Fresh(h2g[i].id)'
        BY Zenon
      <3>1. CASE h2g'[i].id = c
        BY <2>4, <3>1, Zenon DEF Fresh
      <3>2. CASE i \in DOMAIN h2g /\ h2g'[i] = h2g[i]
        <4>1. h2g[i].id \in Call /\ Fresh(h2g[i].id)
          BY <2>5, <3>2, Zenon DEF OnePlace
        <4> QED
          BY <2>4, <3>2, <4>1, Zenon DEF Fresh
      <3> QED
        BY <2>6, <3>1, <3>2, Zenon
    <2>8. (\A i \in DOMAIN gq : Fresh(gq[i].id))'
      BY <2>2, <2>4, <2>5, Zenon DEF OnePlace, Fresh
    <2>9. (agent = "handle" => Fresh(req.id))'
      BY <2>2, <2>4, <2>5, Zenon DEF OnePlace, Fresh
    <2>10. (\A i \in DOMAIN gq : \A j \in DOMAIN h2g : gq[i].id # h2g[j].id)'
      BY <2>2, <2>5, <2>6 DEF OnePlace
    <2>11. (agent = "handle" => /\ \A i \in DOMAIN gq : gq[i].id # req.id
                               /\ \A i \in DOMAIN h2g : h2g[i].id # req.id)'
      BY <2>2, <2>5, <2>6, Zenon DEF OnePlace
    <2>12. Distinct(gq)'
      BY <2>2, Zenon DEF OnePlace, Distinct
    <2> QED
      BY <2>6, <2>7, <2>8, <2>9, <2>10, <2>11, <2>12, Zenon DEF OnePlace
  <1>4. ASSUME NEW c \in Call, GetResult(c) PROVE OnePlace'
    <2>1. \A d \in Call : Fresh(d) => Fresh(d)'
      BY <1>4, ZenonT(60) DEF GetResult, Return
    <2>2. UNCHANGED <<h2g, gq, agent, req>>
      BY <1>4, Zenon DEF GetResult, Return
    <2> QED
      BY <2>1, <2>2, CallerKeepsPlaces, Zenon
  <1>5. ASSUME NEW c \in Call, SeeReceiverDone(c) \/ Deadline(c) PROVE OnePlace'
    <2>1. \A d \in Call : Fresh(d) => Fresh(d)'
      <3>1. PICK o \in {"receiver", "deadline"} :
              /\ call' = [call EXCEPT ![c] = "done"]
              /\ outcome' = [outcome EXCEPT ![c] = o] /\ UNCHANGED handled
        BY <1>5, Zenon DEF SeeReceiverDone, Deadline, Return
      <3>2. o \notin Refusals
        BY Zenon
      <3> QED
        BY <3>1, <3>2, ZenonT(60)
    <2>2. UNCHANGED <<h2g, gq, agent, req>>
      BY <1>5, ZenonT(60) DEF SeeReceiverDone, Deadline, Return
    <2> QED
      BY <2>1, <2>2, CallerKeepsPlaces, Zenon
  <1>6. ASSUME WaitReady \/ WaitReadyEnds \/ WaitReadyAgain PROVE OnePlace'
    <2>1. UNCHANGED <<handled, call, outcome, h2g, gq, agent, req>>
      BY <1>6, ZenonT(60) DEF WaitReady, WaitReadyEnds, WaitReadyAgain, Started
    <2> QED
      BY <2>1, CallerKeepsPlaces, Zenon
  <1>7. ASSUME SkipWaitReady \/ ForcePeerReady \/ LoopEnters PROVE OnePlace'
    <2>1. UNCHANGED <<handled, call, outcome, h2g, gq, agent, req>>
      BY <1>7, ZenonT(60) DEF SkipWaitReady, ForcePeerReady, LoopEnters, Started
    <2> QED
      BY <2>1, CallerKeepsPlaces, Zenon
  <1>8. ASSUME LoopReceives PROVE OnePlace'
    BY <1>8, Zenon DEF LoopReceives, OnePlace
  <1>9. ASSUME LoopFails PROVE OnePlace'
    BY <1>9, ZenonT(60) DEF LoopFails, OnePlace
  <1>10. ASSUME LoopDeposits PROVE OnePlace'
    <2>1. UNCHANGED <<handled, call, outcome, h2g, gq, agent, req>>
      BY <1>10, ZenonT(60) DEF LoopDeposits
    <2> QED
      BY <2>1, CallerKeepsPlaces, Zenon
  <1>11. ASSUME HostInterrupt PROVE OnePlace'
    BY <1>11, ZenonT(60) DEF HostInterrupt, OnePlace
  <1>12. ASSUME GuestInterrupt PROVE OnePlace'
    <2>1. UNCHANGED <<handled, call, outcome, agent, req>>
      BY <1>12, Zenon DEF GuestInterrupt
    <2>2. ASSUME NEW t \in Seq(Requests), Distinct(t), h2g' = <<>>, gq' = gq \o t,
                 \A j \in DOMAIN t : \E i \in DOMAIN h2g : t[j] = h2g[i]
          PROVE  OnePlace'
      <3>1. \A i \in DOMAIN gq' : (i \in DOMAIN gq /\ gq'[i] = gq[i])
                                 \/ \E j \in DOMAIN h2g : gq'[i] = h2g[j]
        BY <2>2, ConcatOf, SMTT(60)
      <3>2. \A i \in DOMAIN gq : \A j \in DOMAIN t : gq[i].id # t[j].id
        BY <2>2 DEF OnePlace
      <3>3. Distinct(gq \o t)
        BY <2>2, <3>2, DistinctConcat, Zenon DEF OnePlace
      <3>4. Distinct(gq)'
        BY <2>2, <3>3, ZenonT(60) DEF Distinct
      <3>5. DOMAIN h2g' = {}
        BY <2>2
      <3>6. (\A i \in DOMAIN gq : Fresh(gq[i].id))'
        <4>1. \A i \in DOMAIN gq' : Fresh(gq'[i].id)
          <5> HIDE DEF Fresh, Types, Unsent
          <5>1. /\ \A i \in DOMAIN gq : Fresh(gq[i].id)
                /\ \A i \in DOMAIN h2g : Fresh(h2g[i].id)
            BY ZenonT(60) DEF OnePlace
          <5> HIDE DEF OnePlace
          <5> QED
            BY <3>1, <5>1, Zenon
        <4> HIDE DEF OnePlace, Types, Unsent
        <4> QED
          BY <2>1, <4>1, Zenon
      <3>7. agent = "handle" => \A i \in DOMAIN gq' : gq'[i].id # req.id
        BY <3>1, ZenonT(60) DEF OnePlace
      <3> QED
        BY <2>1, <3>4, <3>5, <3>6, <3>7, ZenonT(60) DEF Distinct, OnePlace
    <2>3. CASE h2g' = <<>> /\ gq' = gq \o h2g
      BY <2>2, <2>3, Zenon DEF OnePlace
    <2>4. CASE h2g # <<>> /\ h2g' = <<>> /\ gq' = gq \o Tail(h2g)
      <3>1. Tail(h2g) \in Seq(Requests) /\ Distinct(Tail(h2g))
        BY <2>4, TailOf, DistinctTail, Zenon DEF OnePlace
      <3>2. \A j \in DOMAIN Tail(h2g) : j + 1 \in DOMAIN h2g
                /\ Tail(h2g)[j] = h2g[j + 1]
        BY <2>4, TailOf
      <3> QED
        BY <2>2, <2>4, <3>1, <3>2, Zenon
    <2>5. CASE h2g' = <<>> /\ gq' = gq
      <3>1. DOMAIN h2g' = {}
        BY <2>5
      <3> QED
        BY <2>1, <2>5, <3>1, Zenon DEF Distinct, OnePlace
    <2>6. CASE UNCHANGED <<h2g, gq>>
      BY <2>1, <2>6, Zenon DEF OnePlace
    <2> QED
      BY <1>12, <2>3, <2>4, <2>5, <2>6, Zenon DEF GuestInterrupt
  <1>13. ASSUME GuestBoots \/ GuestUp \/ GuestStops PROVE OnePlace'
    <2>1. /\ UNCHANGED <<handled, call, outcome>>
          /\ h2g' \in {h2g, <<>>} /\ gq' \in {gq, <<>>}
          /\ agent' \in {agent, "create",
                "off"} /\ (agent' = agent => UNCHANGED req \/ agent = "off")
      BY <1>13, Zenon DEF GuestBoots, GuestUp, GuestStops
    <2>2. DOMAIN <<>> = {}
      BY SMTT(60)
    <2> QED
      BY <2>1, <2>2, SMTT(60) DEF Distinct, OnePlace
  <1>14. ASSUME AgentCreates \/ AgentAnswers PROVE OnePlace'
    <2>1. UNCHANGED <<handled, call, outcome, h2g, gq>> /\ agent' # "handle"
      BY <1>14, ZenonT(60) DEF AgentCreates, AgentAnswers, AgentSends
    <2> QED
      BY <2>1, ZenonT(60) DEF Distinct, OnePlace
  <1>15. ASSUME AgentReceives PROVE OnePlace'
    <2>1. gq # <<>> /\ gq' = Tail(gq) /\ req' = Head(gq) /\ UNCHANGED h2g
      BY <1>15, Zenon DEF AgentReceives
    <2>2. UNCHANGED <<handled, call, outcome>>
      BY <1>15, Zenon DEF AgentReceives
    <2>3. /\ Distinct(Tail(gq))
          /\ \A i \in DOMAIN Tail(gq) : Tail(gq)[i].id # Head(gq).id
      BY <2>1, DistinctTail, Zenon DEF OnePlace
    <2>4. /\ Head(gq) = gq[1] /\ 1 \in DOMAIN gq
          /\ \A i \in DOMAIN Tail(gq) : Tail(gq)[i] = gq[i + 1] /\ i + 1 \in DOMAIN gq
      BY <2>1, TailOf, Zenon
    <2>5. \A i \in DOMAIN Tail(gq) :
            /\ Fresh(Tail(gq)[i].id)
            /\ \A j \in DOMAIN h2g : Tail(gq)[i].id # h2g[j].id
      BY <2>4, SMTT(60) DEF OnePlace
    <2>6. /\ Fresh(Head(gq).id)
          /\ \A j \in DOMAIN h2g : h2g[j].id # Head(gq).id
      BY <2>4, ZenonT(60) DEF OnePlace
    <2> QED
      BY <2>1, <2>2, <2>3, <2>5, <2>6, ZenonT(60) DEF OnePlace
  <1>16. ASSUME AgentHandles PROVE OnePlace'
    <2>1. /\ UNCHANGED <<call, outcome, h2g, gq>>
          /\ agent = "handle" /\ agent' = "send"
          /\ handled' = [handled EXCEPT ![req.id] = @ + 1]
      BY <1>16, Zenon DEF AgentHandles
    <2>2. \A c \in Call : c # req.id /\ Fresh(c) => Fresh(c)'
      BY <2>1, Zenon
    <2>3. /\ \A i \in DOMAIN gq : gq[i].id \in Call
          /\ \A i \in DOMAIN h2g : h2g[i].id \in Call
      <3>1. \A r \in Requests : r.id \in Call
        BY Zenon DEF Requests, Request
      <3>2. /\ \A i \in DOMAIN gq : gq[i] \in Requests
            /\ \A i \in DOMAIN h2g : h2g[i] \in Requests
        BY SMTT(60)
      <3> QED
        BY <3>1, <3>2, Zenon
    <2>4. /\ \A i \in DOMAIN gq : Fresh(gq[i].id)'
          /\ \A i \in DOMAIN h2g : Fresh(h2g[i].id)'
      BY <2>1, <2>2, <2>3, Zenon DEF OnePlace
    <2> QED
      BY <2>1, <2>4, ZenonT(60) DEF OnePlace, Distinct
  <1>17. ASSUME AgentSignalled PROVE OnePlace'
    BY <1>17, Zenon DEF AgentSignalled, OnePlace
  <1>18. CASE UNCHANGED vars
    BY <1>18, Zenon DEF vars, OnePlace
  <1> QED
    BY <1>1, <1>2, <1>3, <1>4, <1>5, <1>6, <1>7, <1>8, <1>9, <1>10, <1>11, <1>12, <1>13,
       <1>14, <1>15, <1>16, <1>17, <1>18, ZenonT(60) DEF Next, CallerStep, HostStep,
       GuestStep, AgentStep

\* A status is copied from the run to the caller and never altered.
LEMMA FaithfulFrame ==
  ASSUME Faithful, UNCHANGED <<agent, resp, g2h, hq, deposit, chan, handled, rc, outcome>>
  PROVE  Faithful'
  BY ZenonT(60) DEF Faithful, Truthful, Honest, AnswerIsMine

LEMMA FaithfulStep == Types /\ OnePlace /\ Unsent /\ Faithful /\ [Next]_vars
    => Faithful'
  <1> SUFFICES ASSUME Types, OnePlace, Unsent, Faithful, [Next]_vars PROVE Faithful'
    BY Zenon
  <1> USE DEF Types, Faithful, Honest, Truthful, AnswerIsMine, Failures, hostu, hostk,
          guestk, agentv, hist
  <1>1. ASSUME NEW c \in Call, Begin(c) PROVE Faithful'
    BY <1>1, ZenonT(60) DEF Begin, Started, Return
  <1>2. ASSUME NEW c \in Call, SendRefused(c) PROVE Faithful'
    BY <1>2, ZenonT(60) DEF SendRefused, Return
  <1>3. ASSUME NEW c \in Call, SendOk(c) \/ NotifyFails(c) PROVE Faithful'
    <2>1. UNCHANGED <<agent, resp, g2h, hq, deposit, chan, handled, rc>>
      BY <1>3, Zenon DEF SendOk, NotifyFails, Queued
    <2>2. outcome' \in {outcome, [outcome EXCEPT ![c] = "ENODEV"]}
      BY <1>3, ZenonT(60) DEF SendOk, NotifyFails, Return
    <2> QED
      BY <2>1, <2>2
  <1>4. ASSUME NEW c \in Call, GetResult(c) PROVE Faithful'
    BY <1>4 DEF GetResult, Return
  <1>5. ASSUME NEW c \in Call, SeeReceiverDone(c) \/ Deadline(c) PROVE Faithful'
    <2>1. UNCHANGED <<agent, resp, g2h, hq, deposit, chan, handled, rc>>
      BY <1>5, Zenon DEF SeeReceiverDone, Deadline
    <2>2. \E o \in {"receiver", "deadline"} : outcome' = [outcome EXCEPT ![c] = o]
      BY <1>5, Zenon DEF SeeReceiverDone, Deadline, Return
    <2> QED
      BY <2>1, <2>2, ZenonT(60)
  <1>6. ASSUME WaitReady \/ WaitReadyEnds \/ WaitReadyAgain PROVE Faithful'
    <2>1. UNCHANGED <<agent, resp, g2h, hq, deposit, chan, handled, rc, outcome>>
      BY <1>6, ZenonT(60) DEF WaitReady, WaitReadyEnds, WaitReadyAgain, Started
    <2> QED
      BY <2>1, FaithfulFrame, Zenon
  <1>7. ASSUME SkipWaitReady \/ ForcePeerReady \/ LoopEnters PROVE Faithful'
    <2>1. UNCHANGED <<agent, resp, g2h, hq, deposit, chan, handled, rc, outcome>>
      BY <1>7, ZenonT(60) DEF SkipWaitReady, ForcePeerReady, LoopEnters, Started
    <2> QED
      BY <2>1, FaithfulFrame, Zenon
  <1>8. ASSUME LoopReceives PROVE Faithful'
    <2> DEFINE m == Head(hq)
    <2>1. UNCHANGED <<agent, resp, g2h, chan, handled, rc, outcome>>
      BY <1>8, ZenonT(60) DEF LoopReceives
    <2>2. Truthful(m) /\ \A i \in DOMAIN hq' : Truthful(hq'[i])
      <3>1. hq \in Seq(Answers) /\ hq # <<>> /\ hq' = Tail(hq)
        BY <1>8, Zenon DEF LoopReceives
      <3> HIDE DEF Truthful
      <3>2. \A i \in DOMAIN hq : Truthful(hq[i])
        BY Zenon
      <3> QED
        <4>1. Head(hq) = hq[1] /\ 1 \in DOMAIN hq
          BY <3>1, TailOf, Zenon
        <4>2. ASSUME NEW i \in DOMAIN Tail(hq) PROVE Truthful(Tail(hq)[i])
          <5>1. i + 1 \in DOMAIN hq /\ Tail(hq)[i] = hq[i + 1]
            BY <3>1, TailOf, Zenon
          <5> QED
            BY <3>2, <5>1, Zenon
        <4> QED
          BY <3>1, <3>2, <4>1, <4>2, Zenon
    <2>3. \A d \in deposit' : d[2] = "receiver" \/ Honest(d[1], d[2])
      <3>1. CASE m.kind = "RESPONSE" /\ deposit' = {<<m.id, m.status>>}
        <4>1. m # READY
          BY <3>1 DEF READY
        <4> QED
          BY <2>2, <3>1, <4>1
      <3> QED
        BY <1>8, <3>1, Zenon DEF LoopReceives
    <2> HIDE DEF m
    <2> QED
      BY <2>1, <2>2, <2>3, Zenon
  <1>9. ASSUME LoopFails PROVE Faithful'
    <2>1. /\ UNCHANGED <<agent, resp, g2h, hq, chan, handled, rc, outcome>>
          /\ deposit' = {<<c, "receiver">> : c \in pending}
      BY <1>9, ZenonT(60) DEF LoopFails
    <2>2. \A d \in deposit' : d[2] = "receiver"
      BY <2>1
    <2> QED
      BY <2>1, <2>2, ZenonT(60)
  <1>10. ASSUME LoopDeposits PROVE Faithful'
    <2>1. UNCHANGED <<agent, resp, g2h, hq, handled, rc, outcome>>
      BY <1>10, ZenonT(60) DEF LoopDeposits
    <2>2. PICK d \in deposit : /\ chan' = [chan EXCEPT ![d[1]] = d[2]]
                               /\ deposit' = deposit \ {d}
      BY <1>10, ZenonT(60) DEF LoopDeposits
    <2>3. ASSUME NEW c \in Call PROVE chan'[c] = chan[c] \/ (c = d[1] /\ chan'[c] = d[2])
      BY <2>2, Zenon
    <2>4. \A c \in Call : chan'[c] \in {"receiver", None} \/ Honest(c, chan'[c])
      BY <2>2, <2>3, ZenonT(60)
    <2> QED
      BY <2>1, <2>2, <2>4, ZenonT(60)
  <1>11. ASSUME HostInterrupt PROVE Faithful'
    <2>1. UNCHANGED <<agent, resp, deposit, chan, handled, rc, outcome>>
      BY <1>11, Zenon DEF HostInterrupt, hostu
    <2>2. ASSUME NEW t \in Seq(Answers), hq' = hq \o t, g2h' = <<>>,
                 \A j \in DOMAIN t : \E i \in DOMAIN g2h : t[j] = g2h[i]
          PROVE  Faithful'
      <3>1. \A i \in DOMAIN hq' : Truthful(hq'[i])
        BY <2>2, SMTT(60)
      <3>2. DOMAIN g2h' = {}
        BY <2>2
      <3> QED
        BY <2>1, <3>1, <3>2, ZenonT(60)
    <2>3. CASE hq' = hq \o g2h /\ g2h' = <<>>
      BY <2>2, <2>3, Zenon
    <2>4. CASE g2h # <<>> /\ hq' = hq \o Tail(g2h) /\ g2h' = <<>>
      <3>1. Tail(g2h) \in Seq(Answers)
        BY <2>4, TailOf, Zenon
      <3>2. \A j \in DOMAIN Tail(g2h) : j + 1 \in DOMAIN g2h
                /\ Tail(g2h)[j] = g2h[j + 1]
        BY <2>4, TailOf, ZenonT(60)
      <3> QED
        BY <2>2, <2>4, <3>1, <3>2, ZenonT(60)
    <2>5. CASE hq' = hq /\ g2h' = <<>>
      <3>1. DOMAIN g2h' = {}
        BY <2>5
      <3> QED
        BY <2>1, <2>5, <3>1, Zenon
    <2> QED
      BY <1>11, <2>3, <2>4, <2>5, Zenon DEF HostInterrupt
  <1>12. ASSUME GuestInterrupt PROVE Faithful'
    BY <1>12, ZenonT(60) DEF GuestInterrupt
  <1>13. ASSUME GuestBoots \/ GuestUp \/ GuestStops PROVE Faithful'
    <2>1. /\ UNCHANGED <<g2h, hq, deposit, chan, handled, rc, outcome>>
          /\ agent' # "send" \/ UNCHANGED <<agent, resp>>
      BY <1>13, ZenonT(60) DEF GuestBoots, GuestUp, GuestStops
    <2> QED
      BY <2>1, ZenonT(60)
  <1>14. ASSUME AgentCreates \/ AgentAnswers PROVE Faithful'
    <2>1. UNCHANGED <<resp, hq, deposit, chan, handled, rc, outcome>> /\ agent' # "send"
      BY <1>14, Zenon DEF AgentCreates, AgentAnswers, AgentSends
    <2>2. \/ UNCHANGED g2h
          \/ \E m \in Answers : Truthful(m) /\ g2h' = Append(g2h, m)
      BY <1>14, Zenon DEF AgentCreates, AgentAnswers, AgentSends, Answers
    <2>3. \A i \in DOMAIN g2h' : Truthful(g2h'[i])
      <3>1. CASE UNCHANGED g2h
        BY <3>1, ZenonT(60)
      <3>2. ASSUME NEW m \in Answers, Truthful(m), g2h' = Append(g2h, m)
            PROVE  \A i \in DOMAIN g2h' : Truthful(g2h'[i])
        BY <3>2, SMTT(60)
      <3> QED
        BY <2>2, <3>1, <3>2, Zenon
    <2> QED
      BY <2>1, <2>3, Zenon
  <1>15. ASSUME AgentReceives PROVE Faithful'
    BY <1>15, ZenonT(60) DEF AgentReceives, Decodes
  <1>16. ASSUME AgentHandles PROVE Faithful'
    <2>1. PICK e \in Rc : resp' = Response(req, e) /\ rc' = [rc EXCEPT ![req.id] = e]
      BY <1>16, Zenon DEF AgentHandles
    <2>2. req.id \in Call /\ handled[req.id] = 0
      BY <1>16, Zenon DEF AgentHandles, OnePlace, Fresh, Requests
    <2>3. /\ handled' = [handled EXCEPT ![req.id] = 1]
          /\ UNCHANGED <<g2h, hq, deposit, chan, outcome>>
      <3>1. handled[req.id] + 1 = 1
        BY <2>2
      <3> QED
        BY <1>16, <3>1, ZenonT(60) DEF AgentHandles
    <2>4. \A c \in Call : \A st : Honest(c, st) => Honest(c, st)'
      BY <2>1, <2>2, <2>3, SMTT(60)
    <2>5. Truthful(resp)'
      BY <2>1, <2>2, <2>3, Zenon DEF Response
    <2>6. \A m \in Answers : Truthful(m) => Truthful(m)'
      BY <2>4, Zenon DEF Answers
    <2> HIDE DEF Honest, Truthful
    <2>7. AnswerIsMine'
      BY <2>3, <2>4, Zenon DEF Honest
    <2>8. /\ hq \in Seq(Answers) /\ g2h \in Seq(Answers)
          /\ \A i \in DOMAIN hq : hq[i] \in Answers
          /\ \A i \in DOMAIN g2h : g2h[i] \in Answers
      BY InSeq, Zenon
    <2>9. \A d \in deposit : d[1] \in Call
      BY Zenon
    <2> QED
      BY <2>3, <2>4, <2>5, <2>6, <2>7, <2>8, <2>9, ZenonT(60)
  <1>17. ASSUME AgentSignalled PROVE Faithful'
    BY <1>17, Zenon DEF AgentSignalled
  <1>18. CASE UNCHANGED vars
    BY <1>18, ZenonT(60) DEF vars
  <1> QED
    BY <1>1, <1>2, <1>3, <1>4, <1>5, <1>6, <1>7, <1>8, <1>9, <1>10, <1>11, <1>12, <1>13,
       <1>14, <1>15, <1>16, <1>17, <1>18, ZenonT(60) DEF Next, CallerStep, HostStep,
       GuestStep, AgentStep

\* Lengths of the queues' descriptors after a send and after an interrupt.
LEMMA Lengths ==
  ASSUME NEW S, NEW s \in Seq(S), NEW x
  PROVE  /\ Len(s) \in Nat
         /\ x \in S => Len(Append(s, x)) = Len(s) + 1
  OBVIOUS

\* A queue never holds more descriptors than it has, those that a boot of the
\* guest lost included (HostCanSend, GuestCanSend, GuestUp).
LEMMA PlacesStep == Types /\ Places /\ [Next]_vars => Places'
  <1> SUFFICES ASSUME Types, Places, [Next]_vars PROVE Places'
    BY Zenon
  <1>a. Len(h2g) \in Nat /\ Len(g2h) \in Nat /\ Cap \in Nat
    BY Lengths, ControlAssumption, Zenon DEF Types
  <1> USE DEF Places, hostu, hostk, guestk, agentv, hist
  <1>1. ASSUME NEW c \in Call, Begin(c) PROVE Places'
    BY <1>1, Zenon DEF Begin, Started, Return
  <1>2. ASSUME NEW c \in Call, SendRefused(c) PROVE Places'
    BY <1>2, Zenon DEF SendRefused, Return
  <1>3. ASSUME NEW c \in Call, SendOk(c) \/ NotifyFails(c) PROVE Places'
    <2>1. Request(c) \in Requests
      BY Zenon DEF Request, Requests, Types
    <2>2. Len(Append(h2g, Request(c))) = Len(h2g) + 1
      BY <2>1, Lengths, Zenon DEF Types
    <2> QED
      BY <1>3, <1>a, <2>2 DEF SendOk, NotifyFails, Queued, HostCanSend
  <1>4. ASSUME NEW c \in Call, GetResult(c) PROVE Places'
    BY <1>4, Zenon DEF GetResult
  <1>5. ASSUME NEW c \in Call, SeeReceiverDone(c) \/ Deadline(c) PROVE Places'
    BY <1>5, Zenon DEF SeeReceiverDone, Deadline
  <1>6. ASSUME WaitReady \/ WaitReadyEnds \/ WaitReadyAgain PROVE Places'
    BY <1>6, Zenon DEF WaitReady, WaitReadyEnds, WaitReadyAgain, Started,
       WaitReadyReturns
  <1>7. ASSUME SkipWaitReady \/ ForcePeerReady \/ LoopEnters PROVE Places'
    BY <1>7, Zenon DEF SkipWaitReady, ForcePeerReady, LoopEnters, Started
  <1>8. ASSUME LoopReceives PROVE Places'
    BY <1>8, Zenon DEF LoopReceives
  <1>9. ASSUME LoopFails PROVE Places'
    BY <1>9, Zenon DEF LoopFails
  <1>10. ASSUME LoopDeposits PROVE Places'
    BY <1>10, Zenon DEF LoopDeposits
  <1>11. ASSUME HostInterrupt PROVE Places'
    BY <1>11, <1>a DEF HostInterrupt
  <1>12. ASSUME GuestInterrupt PROVE Places'
    BY <1>12, <1>a DEF GuestInterrupt
  <1>13. ASSUME GuestBoots \/ GuestUp \/ GuestStops PROVE Places'
    BY <1>13, <1>a DEF GuestBoots, GuestUp, GuestStops
  <1>14. ASSUME AgentCreates \/ AgentAnswers PROVE Places'
    <2>1. agent = "send" => resp \in Answers
      BY Zenon DEF Types
    <2>2. \A m \in Answers : Len(Append(g2h, m)) = Len(g2h) + 1
      BY Lengths, Zenon DEF Types
    <2>3. READY \in Answers
      BY Zenon DEF Answers
    <2>4. PICK m \in Answers : UNCHANGED g2h \/ (Len(g2h) < Cap /\ g2h' = Append(g2h,
              m))
      BY <1>14, <2>1, <2>3, Zenon DEF AgentCreates, AgentAnswers, AgentSends,
         GuestCanSend
    <2>5. Len(g2h') <= Cap
      BY <1>a, <2>2, <2>4
    <2> QED
      BY <1>14, <2>5, Zenon DEF AgentCreates, AgentAnswers
  <1>15. ASSUME AgentReceives PROVE Places'
    BY <1>15, Zenon DEF AgentReceives
  <1>16. ASSUME AgentHandles PROVE Places'
    BY <1>16, Zenon DEF AgentHandles
  <1>17. ASSUME AgentSignalled PROVE Places'
    BY <1>17, Zenon DEF AgentSignalled
  <1>18. CASE UNCHANGED vars
    BY <1>18, Zenon DEF vars
  <1> QED
    BY <1>1, <1>2, <1>3, <1>4, <1>5, <1>6, <1>7, <1>8, <1>9, <1>10, <1>11, <1>12, <1>13,
       <1>14, <1>15, <1>16, <1>17, <1>18, ZenonT(60) DEF Next, CallerStep, HostStep,
       GuestStep, AgentStep

------------------------------------------------------------------------------
(* The theorems.                                                           *)

ControlInv == Types /\ Places /\ OnePlace /\ Unsent /\ Faithful /\ Once

LEMMA ControlInit == Init => ControlInv
  <1> SUFFICES ASSUME Init PROVE ControlInv
    BY Zenon
  <1>1. Types
    BY ControlAssumption, EmptyOf DEF Init, Types, Argc, Failures, Statuses
  <1>2. DOMAIN <<>> = {}
    OBVIOUS
  <1>3. OnePlace
    BY <1>2, Zenon DEF Init, OnePlace, Distinct
  <1>4. Unsent /\ Once
    BY ControlAssumption, Zenon DEF Init, Unsent, Once, Refusals
  <1>5. Faithful
    BY <1>2, Zenon DEF Init, Faithful, AnswerIsMine
  <1>6. Places
    BY ControlAssumption DEF Init, Places
  <1> QED
    BY <1>1, <1>3, <1>4, <1>5, <1>6, Zenon DEF ControlInv

LEMMA ControlStep == ControlInv /\ [Next]_vars => ControlInv'
  BY TypesStep, PlacesStep, OnePlaceStep, UnsentStep, FaithfulStep, OnceStep, Zenon
     DEF ControlInv

\* The inductive invariant: a request is at one place at most and unrun until
\* the agent runs it, and a status travels back unaltered (RoundTrip,
\* mkga_agent_serve and the two kernels between them).
THEOREM ControlInvariant == Spec => []ControlInv
  BY ControlInit, ControlStep, PTL DEF Spec

\* Every variable keeps its type, and however often the guest stops and boots
\* with requests on their way, what is queued and what a boot lost never exceed
\* the descriptors of the queue (mkring_tx_enqueue, mkring_queue_setup).
THEOREM ControlTypes == Spec => []TypeOK
  <1>1. ControlInv => TypeOK
    BY Zenon DEF ControlInv, Types, Places, TypeOK
  <1> QED
    BY <1>1, ControlInvariant, PTL

\* What RoundTrip returns is the status of its own request's only run
\* (completePending).
THEOREM ControlAnswers == Spec => []AnswerIsMine
  <1>1. ControlInv => AnswerIsMine
    BY Zenon DEF ControlInv, Faithful
  <1> QED
    BY <1>1, ControlInvariant, PTL

\* The agent runs no request twice (mkga_agent_serve).
THEOREM ControlAtMostOnce == Spec => []HandledAtMostOnce
  <1>1. ControlInv => HandledAtMostOnce
    <2> SUFFICES ASSUME ControlInv, NEW c \in Call PROVE handled[c] <= 1
      BY Zenon DEF HandledAtMostOnce
    <2>1. handled[c] \in {0, 1}
      BY Zenon DEF ControlInv, Types
    <2> QED
      BY <2>1
  <1> QED
    BY <1>1, ControlInvariant, PTL

\* A send that was refused left nothing behind that could be run
\* (mkring_tx_enqueue before the queueing, RoundTrip's encode error).
THEOREM ControlRefused == Spec => []RefusedNotRun
  <1>1. ControlInv => RefusedNotRun
    BY Zenon DEF ControlInv, Unsent, Refusals, RefusedNotRun
  <1> QED
    BY <1>1, ControlInvariant, PTL

\* The one-slot channel of a call never gets a second result (completePending,
\* failReceiver).
THEOREM ControlOneResult == Spec => []OneResultPerCall
  <1>1. ASSUME ControlInv, NEW c \in Call
        PROVE  deposits[c] + Cardinality({d \in deposit : d[1] = c}) <= 1
    <2> DEFINE D == {d \in deposit : d[1] = c}
    <2>1. deposits[c] \in {0, 1}
      BY <1>1, Zenon DEF ControlInv, Types
    <2>2. CASE D = {}
      <3>1. Cardinality(D) = 0
        BY <2>2, FS_EmptySet, Zenon
      <3> QED
        BY <2>1, <3>1
    <2>3. CASE D # {}
      <3>1. PICK d : d \in D
        BY <2>3, Zenon
      <3>2. D = {d} /\ deposits[c] = 0
        BY <1>1, <3>1, Zenon DEF ControlInv, Once
      <3>3. Cardinality(D) = 1
        BY <3>2, FS_Singleton, Zenon
      <3> QED
        BY <3>2, <3>3
    <2> QED
      BY <2>2, <2>3, Zenon
  <1>2. ControlInv => OneResultPerCall
    BY <1>1, Zenon DEF OneResultPerCall
  <1> QED
    BY <1>2, ControlInvariant, PTL
==============================================================================
