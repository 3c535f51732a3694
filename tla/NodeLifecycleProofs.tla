------------------------ MODULE NodeLifecycleProofs -------------------------
(***************************************************************************)
(* Proofs about NodeLifecycle, for every number of nodes, every team and   *)
(* every bound on crashes, and about Placement, the bots on these nodes,   *)
(* for every number of hosts and bots and every situation to start from.   *)
(***************************************************************************)
EXTENDS NodeLifecycle, Placement, FiniteSetTheorems, TLAPS

-----------------------------------------------------------------------------
(* Types                                                                    *)

\* A step of a program counter belongs to the actor whose code it is.
OwnStep(a, s) ==
    /\ s \in {"wdOffline", "wdUnhealthy", "wdRecover", "wdAbort"} => a = "watchdog"
    /\ s \in {"hbStatus", "hbActive", "hbUpdate"} => a = "heartbeat"
    /\ s \in {"regRead", "regInsert", "regUpdate", "regActive", "regReturning"} => a = "registrar"
    /\ s \in {"clScan", "clActive"} => a = "cleaner"
    /\ s \in {"drDraining", "drMigrate", "drOffline"} => a = "drainer"
    /\ s = "cdActive" => a = "cancel" /\ a \in team
    /\ s = "pvCreate" => a = "provisioner" /\ a \in team

StepsOwned == \A n \in Nodes, a \in AllActors : OwnStep(a, pc[n][a])

Rows == [node : Nodes, status : Statuses, age : {Never, Fresh, Missed, Silent}]

\* The watchdog's list names each node once.
QueueOk ==
    /\ queue \in Seq(Rows)
    /\ \A i, j \in DOMAIN queue : i # j => queue[i].node # queue[j].node

TypeInv == TypeOK /\ StepsOwned /\ QueueOk

\* The effect of Goto on every program counter.
LEMMA GotoEffect ==
    ASSUME TypeOK, NEW n \in Nodes, NEW a \in AllActors, NEW s \in Steps, Goto(n, a, s)
    PROVE  /\ pc' \in [Nodes -> [AllActors -> Steps]]
           /\ pc'[n][a] = s
           /\ \A m \in Nodes, b \in AllActors : m # n \/ b # a => pc'[m][b] = pc[m][b]
  BY DEF Goto, TypeOK

\* The same where a step moves two actors.
GotoBoth(n, a, s, b, t) == pc' = [pc EXCEPT ![n][a] = s, ![n][b] = t]

\* A step that moves two actors of a node moves nobody else.
LEMMA TwoMoves ==
    ASSUME pc \in [Nodes -> [AllActors -> Steps]],
           NEW n \in Nodes, NEW a \in AllActors, NEW s \in Steps,
           NEW b \in AllActors \ {a}, NEW t \in Steps,
           GotoBoth(n, a, s, b, t)
    PROVE  /\ pc' \in [Nodes -> [AllActors -> Steps]]
           /\ pc'[n][a] = s /\ pc'[n][b] = t
           /\ \A m \in Nodes, c \in AllActors :
                m # n \/ c \notin {a, b} => pc'[m][c] = pc[m][c]
  <1>. DEFINE once == [pc EXCEPT ![n][a] = s]
  <1>1. /\ once \in [Nodes -> [AllActors -> Steps]]
        /\ once[n][a] = s
        /\ \A m \in Nodes, c \in AllActors : m # n \/ c # a => once[m][c] = pc[m][c]
    OBVIOUS
  <1>2. pc' = [once EXCEPT ![n][b] = t]
    BY DEF GotoBoth
  <1>. HIDE DEF once
  <1>. QED
    BY <1>1, <1>2

\* What a call of transition() moves to, and where its caller goes on.
LEMMA CallSteps ==
    \A s \in DOMAIN Calls :
        /\ s \in Steps /\ s # "idle"
        /\ Calls[s].to \in Statuses /\ Calls[s].ok \in Steps /\ Calls[s].err \in Steps
  BY DEF Calls, Statuses, Steps

\* The steps by name.
LEMMA StepNames ==
    /\ DOMAIN Calls = {"wdOffline", "wdUnhealthy", "hbActive", "regActive", "regReturning", "clActive",
                       "drDraining", "drOffline", "cdActive", "rcOffline", "rcRecovering",
                       "rcRollback", "rcDone"}
    /\ Steps = DOMAIN Calls \cup
                 {"idle", "wdRecover", "wdAbort", "hbStatus", "hbUpdate", "regRead", "regInsert",
                  "regUpdate", "clScan", "drMigrate", "rcTenants", "rcFailed", "pvCreate"}
  BY DEF Calls, Steps

\* Every actor of the model is one of AllActors.
LEMMA ActorNames ==
    /\ "watchdog" \in AllActors /\ "heartbeat" \in AllActors /\ "registrar" \in AllActors
    /\ "cleaner" \in AllActors /\ "drainer" \in AllActors /\ "cancel" \in AllActors
    /\ "auto" \in AllActors /\ "manual" \in AllActors /\ "provisioner" \in AllActors
  BY DEF AllActors

\* Where an actor is, is one of the steps.
LEMMA PcType ==
    ASSUME TypeInv
    PROVE  \A n \in Nodes, a \in AllActors : pc[n][a] \in Steps
  BY DEF TypeInv, TypeOK

\* A caller goes on at a step of its own.
LEMMA CallsOwned ==
    ASSUME NEW a \in AllActors, NEW s \in DOMAIN Calls, OwnStep(a, s)
    PROVE  OwnStep(a, Calls[s].ok) /\ OwnStep(a, Calls[s].err)
  BY DEF OwnStep, Calls

\* The initial state is well typed.
LEMMA InitType == Init => TypeInv
  BY NodeLifecycleAssumption
     DEF Init, TypeInv, TypeOK, StepsOwned, OwnStep, QueueOk, Steps, Statuses, NotRead, Never, Calls

\* A call under way is at a transition.
CallsTracked ==
    \A n \in Nodes, a \in AllActors :
        from[n][a] # NotRead =>
           pc[n][a] \in DOMAIN Calls /\ <<from[n][a], Calls[pc[n][a]].to>> \in Graph

\* An actor that has no call under way moves to a step of its own.
LEMMA MoveType ==
    ASSUME TypeInv, NEW n \in Nodes, NEW a \in AllActors, NEW s \in Steps, Goto(n, a, s),
           UNCHANGED <<team, from>>, from[n][a] = NotRead, OwnStep(a, s)
    PROVE  pc' \in [Nodes -> [AllActors -> Steps]] /\ StepsOwned' /\ CallsTracked'
  <1>1. TypeOK
    BY DEF TypeInv
  <1>2. /\ pc' \in [Nodes -> [AllActors -> Steps]]
        /\ pc'[n][a] = s
        /\ \A m \in Nodes, b \in AllActors : m # n \/ b # a => pc'[m][b] = pc[m][b]
    BY <1>1, GotoEffect
  <1>3. StepsOwned'
    BY <1>2 DEF TypeInv, StepsOwned, OwnStep
  <1>4. CallsTracked'
    <2>. SUFFICES ASSUME NEW m \in Nodes, NEW b \in AllActors, from[m][b] # NotRead
                  PROVE  pc'[m][b] \in DOMAIN Calls /\ <<from[m][b], Calls[pc'[m][b]].to>> \in Graph
      BY DEF CallsTracked
    <2>1. pc'[m][b] = pc[m][b]
      BY <1>2
    <2>. QED
      BY <1>1, <2>1 DEF TypeOK
  <1>. QED
    BY <1>2, <1>3, <1>4

\* An actor at a step that is no transition has no call under way.
LEMMA NoCall ==
    ASSUME TypeInv, NEW n \in Nodes, NEW a \in AllActors, pc[n][a] \notin DOMAIN Calls
    PROVE  from[n][a] = NotRead
  BY DEF TypeInv, TypeOK

\* transition() keeps the types.
LEMMA TransitionType ==
    ASSUME TypeInv, NEW n \in Nodes, NEW a \in AllActors,
           TransitionRead(n, a) \/ TransitionWrite(n, a)
    PROVE  TypeInv'
  <1>. DEFINE call == Calls[pc[n][a]]
  <1>1. TypeOK /\ StepsOwned /\ QueueOk
    BY DEF TypeInv
  <1>2. pc[n][a] \in DOMAIN Calls
    BY DEF TransitionRead, TransitionWrite
  <1>3. /\ call.to \in Statuses /\ call.ok \in Steps /\ call.err \in Steps
        /\ OwnStep(a, call.ok) /\ OwnStep(a, call.err)
    BY <1>1, <1>2, CallSteps, CallsOwned DEF StepsOwned
  <1>4. CASE TransitionRead(n, a)
    <2>1. CASE <<status[n], call.to>> \in Graph
      <3>1. from' = [from EXCEPT ![n][a] = status[n]] /\ UNCHANGED <<team, pc, queue>>
        BY <1>4, <2>1 DEF TransitionRead
      <3>2. status[n] \in Statuses
        BY <2>1 DEF Graph, Statuses
      <3>3. CallsTracked'
        BY ZenonT(60), <1>1, <1>2, <2>1, <3>1 DEF TypeOK, CallsTracked
      <3>. QED
        BY <1>1, <1>4, <3>1, <3>2, <3>3
           DEF TypeInv, TypeOK, StepsOwned, OwnStep, QueueOk, CallsTracked, TransitionRead, ghosts
    <2>2. CASE <<status[n], call.to>> \notin Graph
      <3>1. Goto(n, a, call.err) /\ UNCHANGED <<team, from, queue>> /\ from[n][a] = NotRead
        BY <1>4, <2>2 DEF TransitionRead
      <3>2. pc' \in [Nodes -> [AllActors -> Steps]] /\ StepsOwned' /\ CallsTracked'
        BY <1>3, <3>1, MoveType
      <3>. QED
        BY <1>1, <1>4, <3>1, <3>2
           DEF TypeInv, TypeOK, QueueOk, CallsTracked, TransitionRead, ghosts
    <2>. QED
      BY <2>1, <2>2
  <1>5. CASE TransitionWrite(n, a)
    <2>1. PICK s \in {call.ok, call.err} : Goto(n, a, s)
      BY <1>5 DEF TransitionWrite
    <2>2. /\ pc' \in [Nodes -> [AllActors -> Steps]]
          /\ pc'[n][a] = s
          /\ \A m \in Nodes, b \in AllActors : m # n \/ b # a => pc'[m][b] = pc[m][b]
      BY <1>1, <1>3, <2>1, GotoEffect
    <2>3. from' = [from EXCEPT ![n][a] = NotRead] /\ UNCHANGED <<team, age, queue, agent, heard, promised, crashes>>
      BY <1>5 DEF TransitionWrite
    <2>4. StepsOwned'
      BY <1>1, <1>3, <2>1, <2>2, <2>3 DEF StepsOwned, OwnStep
    <2>5. CallsTracked'
      BY <1>1, <2>2, <2>3 DEF TypeOK, CallsTracked
    <2>6. /\ status' \in [Nodes -> Statuses \cup {"none"}]
          /\ dirty' \in [Nodes -> BOOLEAN]
      BY <1>1, <1>3, <1>5 DEF TypeOK, TransitionWrite, Write
    <2>7. from' \in [Nodes -> [AllActors -> Statuses \cup {NotRead}]]
      BY <1>1, <2>3 DEF TypeOK
    <2>. QED
      BY <1>1, <2>2, <2>3, <2>4, <2>5, <2>6, <2>7 DEF TypeInv, TypeOK, QueueOk, CallsTracked
  <1>. QED
    BY <1>4, <1>5

\* A node's actor taking up work keeps the types.
LEMMA BeginType ==
    ASSUME TypeInv, NEW n \in Nodes, NEW a \in AllActors, NEW s \in Steps, Begin(n, a, s), OwnStep(a, s)
    PROVE  TypeInv'
  <1>1. Goto(n, a, s) /\ UNCHANGED <<team, status, age, from, queue, agent, ghosts, crashes>>
    BY DEF Begin
  <1>2. from[n][a] = NotRead
    BY NoCall, StepNames DEF Begin, At
  <1>3. pc' \in [Nodes -> [AllActors -> Steps]] /\ StepsOwned' /\ CallsTracked'
    BY <1>1, <1>2, MoveType
  <1>. QED
    BY <1>1, <1>3 DEF TypeInv, TypeOK, QueueOk, CallsTracked, ghosts

\* The agent's steps, its registration and its heartbeats keep the types.
LEMMA AgentType ==
    ASSUME TypeInv, NEW n \in Nodes,
           \/ AgentBoots(n) \/ AgentDies(n) \/ Age(n) \/ HeartbeatArrives(n)
           \/ RegisterRead(n) \/ RegisterInsert(n) \/ RegisterUpdate(n)
    PROVE  TypeInv'
  <1>. USE DEF TypeInv, TypeOK, QueueOk, CallsTracked, ghosts
  <1>1. CASE AgentBoots(n)
    <2>1. Goto(n, "registrar", "regRead") /\ from[n]["registrar"] = NotRead
      BY <1>1, NoCall, StepNames, ActorNames DEF AgentBoots, At
    <2>2. UNCHANGED <<team, from>>
      BY <1>1 DEF AgentBoots
    <2>3. pc' \in [Nodes -> [AllActors -> Steps]] /\ StepsOwned' /\ CallsTracked'
      BY <2>1, <2>2, MoveType, StepNames, ActorNames DEF OwnStep
    <2>. QED
      BY <1>1, <2>3 DEF AgentBoots
  <1>2. CASE AgentDies(n)
    BY <1>2 DEF AgentDies, work, StepsOwned, OwnStep
  <1>3. CASE Age(n)
    BY <1>3 DEF Age, work, StepsOwned, OwnStep, Never, Fresh, Missed, Silent
  <1>4. CASE HeartbeatArrives(n)
    BY <1>4, BeginType, StepNames, ActorNames DEF HeartbeatArrives, OwnStep
  <1>5. CASE RegisterRead(n)
    <2>1. PICK s \in {"regInsert", "regUpdate", "idle"} : Goto(n, "registrar", s)
      BY <1>5 DEF RegisterRead
    <2>2. from[n]["registrar"] = NotRead
      BY <1>5, NoCall, StepNames, ActorNames DEF RegisterRead, At
    <2>3. UNCHANGED <<team, from>>
      BY <1>5 DEF RegisterRead
    <2>4. pc' \in [Nodes -> [AllActors -> Steps]] /\ StepsOwned' /\ CallsTracked'
      <3>1. s \in Steps /\ OwnStep("registrar", s)
        BY StepNames DEF OwnStep
      <3>2. "registrar" \in AllActors
        BY ActorNames
      <3>. QED
        BY <2>1, <2>2, <2>3, <3>1, <3>2, MoveType
    <2>. QED
      BY <1>5, <2>4 DEF RegisterRead
  <1>6. CASE RegisterInsert(n)
    <2>1. Goto(n, "registrar", "regActive") /\ from[n]["registrar"] = NotRead
      BY <1>6, NoCall, StepNames, ActorNames DEF RegisterInsert, At
    <2>2. UNCHANGED <<team, from>>
      BY <1>6 DEF RegisterInsert
    <2>3. pc' \in [Nodes -> [AllActors -> Steps]] /\ StepsOwned' /\ CallsTracked'
      BY <2>1, <2>2, MoveType, StepNames, ActorNames DEF OwnStep
    <2>. QED
      BY <1>6, <2>3 DEF RegisterInsert, Statuses
  <1>7. CASE RegisterUpdate(n)
    <2>1. Goto(n, "registrar", "regReturning") /\ from[n]["registrar"] = NotRead
      BY <1>7, NoCall, StepNames, ActorNames DEF RegisterUpdate, At
    <2>2. UNCHANGED <<team, from>>
      BY <1>7 DEF RegisterUpdate
    <2>3. pc' \in [Nodes -> [AllActors -> Steps]] /\ StepsOwned' /\ CallsTracked'
      BY <2>1, <2>2, MoveType, StepNames, ActorNames DEF OwnStep
    <2>. QED
      BY <1>7, <2>3 DEF RegisterUpdate
  <1>. QED
    BY <1>1, <1>2, <1>3, <1>4, <1>5, <1>6, <1>7

\* Heartbeats and the cleaner keep the types.
LEMMA HeartbeatType ==
    ASSUME TypeInv, NEW n \in Nodes, HeartbeatStatus(n) \/ HeartbeatUpdate(n) \/ CleanerScan(n)
    PROVE  TypeInv'
  <1>. USE DEF TypeInv, TypeOK, QueueOk, CallsTracked, ghosts
  <1>1. CASE HeartbeatStatus(n)
    <2>1. PICK s \in {"idle", "hbActive", "hbUpdate"}, c \in {pc[n]["cleaner"], "clScan"} :
             /\ pc' = [pc EXCEPT ![n]["heartbeat"] = s, ![n]["cleaner"] = c]
             /\ c = "clScan" => pc[n]["cleaner"] \in {"idle", "clScan"}
      BY <1>1, ActorNames DEF HeartbeatStatus
    <2>2. /\ pc' \in [Nodes -> [AllActors -> Steps]]
          /\ pc'[n]["heartbeat"] = s /\ pc'[n]["cleaner"] = c
          /\ \A m \in Nodes, b \in AllActors :
               m # n \/ b \notin {"heartbeat", "cleaner"} => pc'[m][b] = pc[m][b]
      <3>1. s \in Steps /\ c \in Steps
        BY StepNames, ActorNames, PcType
      <3>2. pc \in [Nodes -> [AllActors -> Steps]] /\ GotoBoth(n, "heartbeat", s, "cleaner", c)
        BY <2>1 DEF GotoBoth
      <3>3. "heartbeat" \in AllActors /\ "cleaner" \in AllActors \ {"heartbeat"}
        BY ActorNames
      <3>. HIDE DEF TypeInv, TypeOK, CallsTracked, ghosts
      <3>. QED
        BY <3>1, <3>2, <3>3, TwoMoves
    <2>3. UNCHANGED <<team, from>>
      BY <1>1 DEF HeartbeatStatus
    <2>4. StepsOwned'
      BY <2>1, <2>2, <2>3 DEF StepsOwned, OwnStep
    <2>5. from[n]["heartbeat"] = NotRead
      BY <1>1, NoCall, StepNames, ActorNames DEF HeartbeatStatus, At
    <2>6. c # pc[n]["cleaner"] => from[n]["cleaner"] = NotRead
      BY <2>1, NoCall, StepNames, ActorNames
    <2>7. CallsTracked'
      BY <2>1, <2>2, <2>3, <2>5, <2>6
    <2>8. heard' \in [Nodes -> {"no", "reading", "yes"}]
      BY <1>1 DEF HeartbeatStatus
    <2>9. UNCHANGED <<team, status, age, from, queue, agent, dirty, promised, crashes>>
      BY <1>1 DEF HeartbeatStatus
    <2>. QED
      BY <2>2, <2>4, <2>7, <2>8, <2>9
  <1>2. CASE HeartbeatUpdate(n)
    <2>1. Goto(n, "heartbeat", "idle") /\ from[n]["heartbeat"] = NotRead
      BY <1>2, NoCall, StepNames, ActorNames DEF HeartbeatUpdate, At
    <2>2. UNCHANGED <<team, from>>
      BY <1>2 DEF HeartbeatUpdate
    <2>3. pc' \in [Nodes -> [AllActors -> Steps]] /\ StepsOwned' /\ CallsTracked'
      BY <2>1, <2>2, MoveType, StepNames, ActorNames DEF OwnStep
    <2>4. heard' \in [Nodes -> {"no", "reading", "yes"}]
      BY <1>2 DEF HeartbeatUpdate
    <2>. QED
      BY <1>2, <2>3, <2>4 DEF HeartbeatUpdate
  <1>3. CASE CleanerScan(n)
    <2>1. Goto(n, "cleaner", "clActive") /\ from[n]["cleaner"] = NotRead
      BY <1>3, NoCall, StepNames, ActorNames DEF CleanerScan, At
    <2>2. UNCHANGED <<team, from>>
      BY <1>3 DEF CleanerScan
    <2>3. pc' \in [Nodes -> [AllActors -> Steps]] /\ StepsOwned' /\ CallsTracked'
      BY <2>1, <2>2, MoveType, StepNames, ActorNames DEF OwnStep
    <2>. QED
      BY <1>3, <2>3 DEF CleanerScan
  <1>. QED
    BY <1>1, <1>2, <1>3

\* The rows of a list are of nodes.
LEMMA RowNodes ==
    ASSUME NEW q \in Seq(Rows)
    PROVE  \A i \in DOMAIN q : q[i].node \in Nodes
  <1>1. \A i \in DOMAIN q : q[i] \in Rows
    OBVIOUS
  <1>. QED
    BY <1>1 DEF Rows

\* The watchdog's list has a row for each node listed, in some order.
LEMMA ListType ==
    ASSUME TypeInv, WatchdogList
    PROVE  QueueOk'
  <1>1. PICK order \in SetToSeqs(Listed) :
           queue' = [i \in DOMAIN order |->
                        [node |-> order[i], status |-> status[order[i]], age |-> age[order[i]]]]
    BY DEF WatchdogList
  <1>. DEFINE D == 1..Cardinality(Listed)
  <1>2. IsFiniteSet(Listed) /\ Cardinality(Listed) \in Nat
    BY NodeLifecycleAssumption, FS_Subset, FS_CardinalityType DEF Listed
  <1>3. order \in [D -> Listed] /\ \A i, j \in D : i # j => order[i] # order[j]
    BY DEF SetToSeqs
  <1>4. \A n \in Listed : n \in Nodes /\ status[n] \in Statuses
    BY DEF Listed, Statuses
  <1>5. DOMAIN queue' = D
    BY <1>1, <1>3
  <1>6. \A i \in D : queue'[i] = [node |-> order[i], status |-> status[order[i]], age |-> age[order[i]]]
    BY <1>1, <1>3
  <1>7. \A i \in D : queue'[i] \in Rows
    <2>. SUFFICES ASSUME NEW i \in D PROVE queue'[i] \in Rows
      OBVIOUS
    <2>. DEFINE m == order[i]
    <2>1. m \in Nodes /\ status[m] \in Statuses
      BY <1>3, <1>4
    <2>2. age[m] \in {Never, Fresh, Missed, Silent}
      BY <2>1 DEF TypeInv, TypeOK
    <2>3. queue'[i] = [node |-> m, status |-> status[m], age |-> age[m]]
      BY <1>6
    <2>. HIDE DEF m
    <2>. QED
      BY <2>1, <2>2, <2>3 DEF Rows
  <1>8. queue' \in [D -> Rows]
    BY <1>1, <1>3, <1>7
  <1>9. queue' \in Seq(Rows)
    BY <1>2, <1>8
  <1>. QED
    BY <1>3, <1>5, <1>6, <1>9 DEF QueueOk

\* What is left of the list after a visit.
LEMMA TailType ==
    ASSUME QueueOk, queue # << >>
    PROVE  /\ Head(queue) \in Rows
           /\ Tail(queue) \in Seq(Rows)
           /\ \A i \in DOMAIN Tail(queue) : i + 1 \in DOMAIN queue /\ Tail(queue)[i] = queue[i + 1]
           /\ \A i \in DOMAIN Tail(queue) : Tail(queue)[i].node # Head(queue).node
           /\ \A i, j \in DOMAIN Tail(queue) : i # j => Tail(queue)[i].node # Tail(queue)[j].node
  <1>1. queue \in Seq(Rows)
    BY DEF QueueOk
  <1>2. Len(queue) \in Nat /\ Len(queue) # 0 /\ DOMAIN queue = 1..Len(queue)
    BY <1>1
  <1>3. Head(queue) = queue[1] /\ queue[1] \in Rows
    BY <1>1, <1>2
  <1>4. Tail(queue) \in Seq(Rows) /\ DOMAIN Tail(queue) = 1..(Len(queue) - 1)
    BY <1>1, <1>2
  <1>5. \A i \in DOMAIN Tail(queue) : i + 1 \in DOMAIN queue /\ Tail(queue)[i] = queue[i + 1]
    BY <1>1, <1>2, <1>4
  <1>. QED
    BY <1>2, <1>3, <1>4, <1>5 DEF QueueOk

\* The watchdog's steps keep the types.
LEMMA WatchdogType ==
    ASSUME TypeInv,
           \/ WatchdogList \/ WatchdogVisit
           \/ \E n \in Nodes : WatchdogRecovers(n) \/ WatchdogAborts(n)
    PROVE  TypeInv'
  <1>. USE DEF TypeInv, TypeOK, CallsTracked, ghosts
  <1>1. CASE WatchdogList
    <2>1. QueueOk'
      BY <1>1, ListType
    <2>2. \A i \in DOMAIN queue' : queue'[i].node \in Nodes
      BY <2>1, RowNodes DEF QueueOk
    <2>3. heard' \in [Nodes -> {"no", "reading", "yes"}] /\ StepsOwned'
      BY <1>1 DEF WatchdogList, StepsOwned, OwnStep
    <2>. QED
      BY <1>1, <2>1, <2>2, <2>3 DEF WatchdogList
  <1>2. CASE WatchdogVisit
    <2>. DEFINE n == Head(queue).node
    <2>1. n \in Nodes /\ queue' = Tail(queue)
      BY <1>2, TailType DEF WatchdogVisit, Rows
    <2>2. QueueOk'
      BY <1>2, <2>1, TailType DEF WatchdogVisit, QueueOk
    <2>3. \A i \in DOMAIN queue' : queue'[i].node \in Nodes
      BY <2>2, RowNodes DEF QueueOk
    <2>4. PICK s \in {"wdOffline", "wdUnhealthy", "idle"} : Goto(n, "watchdog", s)
      BY <1>2 DEF WatchdogVisit
    <2>5. from[n]["watchdog"] = NotRead
      BY <1>2, <2>1, NoCall, StepNames, ActorNames DEF WatchdogVisit, WatchdogIdle, At
    <2>6. UNCHANGED <<team, from>>
      BY <1>2 DEF WatchdogVisit
    <2>7. pc' \in [Nodes -> [AllActors -> Steps]] /\ StepsOwned' /\ CallsTracked'
      BY <2>1, <2>4, <2>5, <2>6, MoveType, StepNames, ActorNames DEF OwnStep
    <2>. QED
      BY <1>2, <2>2, <2>3, <2>7 DEF WatchdogVisit
  <1>3. ASSUME NEW n \in Nodes, WatchdogRecovers(n)
        PROVE  TypeInv'
    <2>1. PICK s \in {pc[n]["auto"], "rcOffline"} :
             /\ pc' = [pc EXCEPT ![n]["watchdog"] = "idle", ![n]["auto"] = s]
             /\ s # pc[n]["auto"] => pc[n]["auto"] = "idle"
      BY <1>3, ActorNames DEF WatchdogRecovers
    <2>2. /\ pc' \in [Nodes -> [AllActors -> Steps]]
          /\ pc'[n]["watchdog"] = "idle" /\ pc'[n]["auto"] = s
          /\ \A m \in Nodes, b \in AllActors :
               m # n \/ b \notin {"watchdog", "auto"} => pc'[m][b] = pc[m][b]
      <3>1. "idle" \in Steps /\ s \in Steps
        BY StepNames, ActorNames, PcType
      <3>2. pc \in [Nodes -> [AllActors -> Steps]] /\ GotoBoth(n, "watchdog", "idle", "auto", s)
        BY <2>1 DEF GotoBoth
      <3>3. "watchdog" \in AllActors /\ "auto" \in AllActors \ {"watchdog"}
        BY ActorNames
      <3>. HIDE DEF TypeInv, TypeOK, CallsTracked, ghosts
      <3>. QED
        BY <3>1, <3>2, <3>3, TwoMoves
    <2>3. UNCHANGED <<team, from, queue>>
      BY <1>3 DEF WatchdogRecovers
    <2>4. StepsOwned'
      BY <2>1, <2>2, <2>3 DEF StepsOwned, OwnStep
    <2>5. from[n]["watchdog"] = NotRead
      BY <1>3, NoCall, StepNames, ActorNames DEF WatchdogRecovers, At
    <2>6. s # pc[n]["auto"] => from[n]["auto"] = NotRead
      BY <2>1, NoCall, StepNames, ActorNames
    <2>7. CallsTracked'
      BY <2>1, <2>2, <2>3, <2>5, <2>6
    <2>8. promised' \in [Nodes -> BOOLEAN] /\ QueueOk'
      BY <1>3, <2>3 DEF WatchdogRecovers, QueueOk
    <2>. QED
      BY <1>3, <2>2, <2>4, <2>7, <2>8 DEF WatchdogRecovers
  <1>4. ASSUME NEW n \in Nodes, WatchdogAborts(n)
        PROVE  TypeInv'
    <2>1. Goto(n, "watchdog", "idle") /\ from[n]["watchdog"] = NotRead
      BY <1>4, NoCall, StepNames, ActorNames DEF WatchdogAborts, At
    <2>2. UNCHANGED <<team, from>>
      BY <1>4 DEF WatchdogAborts
    <2>3. pc' \in [Nodes -> [AllActors -> Steps]] /\ StepsOwned' /\ CallsTracked'
      BY <2>1, <2>2, MoveType, StepNames, ActorNames DEF OwnStep
    <2>4. QueueOk'
      BY <1>4 DEF WatchdogAborts, QueueOk
    <2>. QED
      BY <1>4, <2>3, <2>4 DEF WatchdogAborts
  <1>. QED
    BY <1>1, <1>2, <1>3, <1>4

\* Recovery, drain, provisioning and a crash keep the types.
LEMMA OperationsType ==
    ASSUME TypeInv, NEW n \in Nodes,
           \/ \E a \in {"auto", "manual"} : RecoverTenants(n, a) \/ RecoveryFails(n, a)
           \/ ManualRecovery(n) \/ Drain(n) \/ CancelDrain(n) \/ DrainMigrates(n)
           \/ Provision(n) \/ ProvisionSucceeds(n) \/ ProvisionFails(n)
    PROVE  TypeInv'
  <1>. USE DEF TypeInv, TypeOK, QueueOk, CallsTracked, ghosts
  <1>1. ASSUME NEW a \in {"auto", "manual"}, RecoverTenants(n, a) \/ RecoveryFails(n, a)
        PROVE  TypeInv'
    <2>1. PICK s \in {"rcDone", "rcRollback", "idle"} : Goto(n, a, s)
      BY <1>1 DEF RecoverTenants, RecoveryFails
    <2>2. from[n][a] = NotRead /\ a \in AllActors
      BY ZenonT(60), <1>1, NoCall, StepNames, ActorNames DEF RecoverTenants, RecoveryFails, At
    <2>3. UNCHANGED <<team, from, status, age, queue, agent, dirty, heard, crashes>>
      BY <1>1 DEF RecoverTenants, RecoveryFails
    <2>4. pc' \in [Nodes -> [AllActors -> Steps]] /\ StepsOwned' /\ CallsTracked'
      BY <2>1, <2>2, <2>3, MoveType, StepNames DEF OwnStep
    <2>5. promised' \in [Nodes -> BOOLEAN]
      BY <1>1 DEF RecoverTenants, RecoveryFails
    <2>. QED
      BY <2>3, <2>4, <2>5
  <1>2. CASE ManualRecovery(n)
    BY <1>2, BeginType, StepNames, ActorNames DEF ManualRecovery, OwnStep
  <1>3. CASE Drain(n)
    BY <1>3, BeginType, StepNames, ActorNames DEF Drain, OwnStep
  <1>4. CASE CancelDrain(n)
    BY <1>4, BeginType, StepNames, ActorNames DEF CancelDrain, Begin, OwnStep
  <1>5. CASE DrainMigrates(n)
    <2>1. PICK s \in {"drOffline", "idle"} : Goto(n, "drainer", s)
      BY <1>5 DEF DrainMigrates
    <2>2. from[n]["drainer"] = NotRead
      BY <1>5, NoCall, StepNames, ActorNames DEF DrainMigrates, At
    <2>3. UNCHANGED <<team, from>>
      BY <1>5 DEF DrainMigrates
    <2>4. pc' \in [Nodes -> [AllActors -> Steps]] /\ StepsOwned' /\ CallsTracked'
      <3>1. s \in Steps /\ OwnStep("drainer", s)
        BY StepNames DEF OwnStep
      <3>2. "drainer" \in AllActors
        BY ActorNames
      <3>. QED
        BY <2>1, <2>2, <2>3, <3>1, <3>2, MoveType
    <2>. QED
      BY <1>5, <2>4 DEF DrainMigrates
  <1>6. CASE Provision(n)
    <2>1. Goto(n, "provisioner", "pvCreate") /\ from[n]["provisioner"] = NotRead
      BY <1>6, NoCall, StepNames, ActorNames DEF Provision, At
    <2>2. UNCHANGED <<team, from>> /\ "provisioner" \in team
      BY <1>6 DEF Provision
    <2>3. pc' \in [Nodes -> [AllActors -> Steps]] /\ StepsOwned' /\ CallsTracked'
      BY <2>1, <2>2, MoveType, StepNames, ActorNames DEF OwnStep
    <2>. QED
      BY <1>6, <2>3 DEF Provision, Statuses
  <1>7. CASE ProvisionSucceeds(n)
    <2>1. Goto(n, "provisioner", "idle") /\ from[n]["provisioner"] = NotRead
      BY <1>7, NoCall, StepNames, ActorNames DEF ProvisionSucceeds, At
    <2>2. UNCHANGED <<team, from>>
      BY <1>7 DEF ProvisionSucceeds
    <2>3. pc' \in [Nodes -> [AllActors -> Steps]] /\ StepsOwned' /\ CallsTracked'
      BY <2>1, <2>2, MoveType, StepNames, ActorNames DEF OwnStep
    <2>. QED
      BY <1>7, <2>3 DEF ProvisionSucceeds
  <1>8. CASE ProvisionFails(n)
    <2>1. Goto(n, "provisioner", "idle") /\ from[n]["provisioner"] = NotRead
      BY <1>8, NoCall, StepNames, ActorNames DEF ProvisionFails, At
    <2>2. UNCHANGED <<team, from>>
      BY <1>8 DEF ProvisionFails
    <2>3. pc' \in [Nodes -> [AllActors -> Steps]] /\ StepsOwned' /\ CallsTracked'
      BY <2>1, <2>2, MoveType, StepNames, ActorNames DEF OwnStep
    <2>. QED
      BY <1>8, <2>3 DEF ProvisionFails, Write, Statuses
  <1>. QED
    BY <1>1, <1>2, <1>3, <1>4, <1>5, <1>6, <1>7, <1>8

\* Every step keeps the types.
LEMMA NextType == TypeInv /\ [Next]_vars => TypeInv'
  <1>. SUFFICES ASSUME TypeInv, [Next]_vars PROVE TypeInv'
    OBVIOUS
  <1>1. ASSUME NEW n \in Nodes, Continue(n) PROVE TypeInv'
    BY <1>1, TransitionType, AgentType, HeartbeatType, WatchdogType, OperationsType
       DEF Continue, Transition
  <1>2. CASE Crash
    BY <1>2, NodeLifecycleAssumption, StepNames
       DEF Crash, TypeInv, TypeOK, StepsOwned, OwnStep, QueueOk, ghosts
  <1>3. CASE UNCHANGED vars
    BY <1>3 DEF vars, work, ghosts, TypeInv, TypeOK, StepsOwned, OwnStep, QueueOk
  <1>. QED
    BY <1>1, <1>2, <1>3, AgentType, WatchdogType, OperationsType DEF Next

-----------------------------------------------------------------------------
(* Invariants                                                               *)

\* What a node's status cannot be while an actor is at a step that relies on it.
StepsFit(n) ==
    /\ At(n, "registrar", "regActive") => status[n] # "none" /\ ~At(n, "provisioner", "pvCreate")
    /\ At(n, "provisioner", "pvCreate") => status[n] # "none"
    /\ At(n, "heartbeat", "hbActive") => status[n] \notin {"none", "provisioning"}
    /\ pc[n]["cleaner"] \in {"clScan", "clActive"} => status[n] \notin {"none", "provisioning"}

\* Unless cancel-drain is about, a placeholder row waits for its droplet.
PlaceholderKept(n) ==
    "cancel" \notin team /\ At(n, "provisioner", "pvCreate") => status[n] = "provisioning"

\* Who serves, or has yet to serve for the first time, is clean; only the
\* cleaner ends "returning", and it has cleaned before it does.
CleanPath(n) ==
    /\ status[n] \in {"none", "provisioning", "active", "unhealthy", "draining"} => ~dirty[n]
    /\ ~At(n, "heartbeat", "idle") => At(n, "registrar", "idle")
    /\ At(n, "heartbeat", "hbActive") \/ At(n, "registrar", "regActive") => status[n] # "returning"
    /\ pc[n]["cleaner"] \in {"clScan", "clActive"} => status[n] = "returning"
    /\ At(n, "cleaner", "clActive") => ~dirty[n]

NodeInv(n) ==
    /\ StepsFit(n)
    /\ PlaceholderKept(n)
    /\ team \cap {"cancel", "late"} = {} => CleanPath(n)

\* The watchdog has listed the node as unhealthy and has yet to act on it.
Watched(n) ==
    \/ \E i \in DOMAIN queue : queue[i].node = n /\ queue[i].status = "unhealthy"
    \/ At(n, "watchdog", "wdOffline")

\* A node that was listed as unhealthy and still is has not been heard of
\* since, and no heartbeat is on its way that would leave it unhealthy and
\* still be recorded.
HeardInv(n) ==
    /\ pc[n]["watchdog"] \in {"wdOffline", "wdUnhealthy"} =>
         \A i \in DOMAIN queue : queue[i].node # n
    /\ Watched(n) /\ status[n] = "unhealthy" =>
         /\ heard[n] # "yes"
         /\ heard[n] = "reading" =>
              /\ ~At(n, "heartbeat", "hbUpdate")
              /\ At(n, "heartbeat", "hbActive") => from[n]["heartbeat"] \in {NotRead, "unhealthy"}

NodesInv == \A n \in Nodes : NodeInv(n) /\ HeardInv(n)

-----------------------------------------------------------------------------
(* A node's invariant, action by action                                     *)

\* What the calls of transition() ask for, and where they lead.
LEMMA CallFacts ==
    \A s \in DOMAIN Calls :
        /\ Calls[s].to \in {"active", "unhealthy", "offline", "recovering", "returning", "draining"}
        /\ Calls[s].to = "returning" => s = "regReturning"
        /\ Calls[s].to = "unhealthy" => s = "wdUnhealthy"
        /\ Calls[s].to = "active" => s \in {"hbActive", "regActive", "clActive", "cdActive"}
        /\ {Calls[s].ok, Calls[s].err} \subseteq
              {"idle", "wdRecover", "wdAbort", "hbUpdate", "drMigrate", "rcRecovering",
               "rcTenants", "rcFailed"}
        /\ "hbUpdate" \in {Calls[s].ok, Calls[s].err} => s = "hbActive"
  BY DEF Calls

\* What the graph allows.
LEMMA GraphFacts ==
    \A x, y : <<x, y>> \in Graph =>
        /\ x # "none" /\ y \notin {"none", "provisioning"}
        /\ x = "provisioning" => y \in {"active", "failed"}
        /\ x = "returning" => y \in {"active", "failed"}
        /\ y = "active" => x \in {"provisioning", "unhealthy", "returning", "draining"}
        /\ y \in {"unhealthy", "draining"} => x = "active"
  BY DEF Graph

\* What a step of transition() does to the node, and where its caller goes on.
Moved(n, a) ==
    LET call == Calls[pc[n][a]] IN
    /\ pc[n][a] \in DOMAIN Calls
    /\ \A b \in AllActors \ {a} : pc'[n][b] = pc[n][b] /\ from'[n][b] = from[n][b]
    /\ UNCHANGED <<team, queue, heard>>
    /\ \/ /\ pc'[n][a] \in {pc[n][a], call.err}
          /\ status'[n] = status[n] /\ dirty'[n] = dirty[n]
       \/ /\ pc'[n][a] = call.ok
          /\ <<status[n], call.to>> \in Graph
          /\ status'[n] = call.to
          /\ dirty'[n] = (dirty[n] \/ call.to \in Dead)

\* Either half of a transition() either goes back, fails or follows the
\* graph.
LEMMA TransitionMoves ==
    ASSUME TypeInv, NEW n \in Nodes, NEW a \in AllActors,
           TransitionRead(n, a) \/ TransitionWrite(n, a)
    PROVE  Moved(n, a)
  <1>. DEFINE call == Calls[pc[n][a]]
  <1>1. TypeOK /\ pc[n][a] \in DOMAIN Calls
    BY DEF TypeInv, TransitionRead, TransitionWrite
  <1>2. call.ok \in Steps /\ call.err \in Steps
    BY <1>1, CallSteps
  <1>3. \A s \in Steps : Goto(n, a, s) =>
          pc'[n][a] = s /\ \A b \in AllActors \ {a} : pc'[n][b] = pc[n][b]
    BY <1>1, GotoEffect
  <1>4. CASE TransitionRead(n, a)
    <2>1. \A b \in AllActors \ {a} : from'[n][b] = from[n][b]
      BY <1>1, <1>4 DEF TransitionRead, TypeOK
    <2>. QED
      BY <1>1, <1>2, <1>3, <1>4, <2>1 DEF TransitionRead, Moved, ghosts
  <1>5. CASE TransitionWrite(n, a)
    <2>1. \A b \in AllActors \ {a} : from'[n][b] = from[n][b]
      BY <1>1, <1>5 DEF TransitionWrite, TypeOK
    <2>2. CASE status[n] = from[n][a]
      <3>1. <<status[n], call.to>> \in Graph
        BY <1>1, <1>5, <2>2 DEF TypeOK, TransitionWrite
      <3>2. Goto(n, a, call.ok) /\ Write(n, call.to)
        BY <1>5, <2>2 DEF TransitionWrite
      <3>3. status'[n] = call.to /\ dirty'[n] = (dirty[n] \/ call.to \in Dead)
        BY <1>1, <3>2 DEF Write, TypeOK
      <3>. QED
        BY <1>1, <1>2, <1>3, <1>5, <2>1, <3>1, <3>2, <3>3 DEF TransitionWrite, Moved
    <2>3. CASE status[n] # from[n][a]
      BY <1>1, <1>2, <1>3, <1>5, <2>1, <2>3 DEF TransitionWrite, Moved
    <2>. QED
      BY <2>2, <2>3
  <1>. QED
    BY <1>4, <1>5

\* transition() keeps the invariant of the node it is about.
LEMMA TransitionNode ==
    ASSUME TypeInv, NEW n \in Nodes, NEW a \in AllActors, Moved(n, a), NodeInv(n)
    PROVE  NodeInv(n)'
  <1>. DEFINE call == Calls[pc[n][a]]
  <1>1. OwnStep(a, pc[n][a]) /\ pc[n][a] \in DOMAIN Calls /\ dirty[n] \in BOOLEAN
    BY DEF TypeInv, TypeOK, StepsOwned, Moved
  <1>2. pc'[n][a] # pc[n][a] =>
          /\ pc'[n][a] \in {"idle", "wdRecover", "wdAbort", "hbUpdate", "drMigrate", "rcRecovering",
                            "rcTenants", "rcFailed"}
          /\ pc'[n][a] = "hbUpdate" => pc[n][a] = "hbActive"
    BY <1>1, CallFacts DEF Moved
  <1>3. \A b \in AllActors : b # a => pc'[n][b] = pc[n][b]
    BY DEF Moved
  <1>4. \A b \in AllActors, s \in {"regActive", "pvCreate", "hbActive", "clScan", "clActive"} :
          pc'[n][b] = s => pc[n][b] = s
    BY <1>2, <1>3
  <1>5. team' = team
    BY DEF Moved
  <1>6. CASE status'[n] = status[n] /\ dirty'[n] = dirty[n]
    <2>1. StepsFit(n)' /\ PlaceholderKept(n)'
      BY <1>4, <1>5, <1>6, ActorNames DEF NodeInv, StepsFit, PlaceholderKept, At
    <2>2. ASSUME CleanPath(n) PROVE CleanPath(n)'
      <3>1. ~At(n, "heartbeat", "idle")' => At(n, "registrar", "idle")'
        BY <1>1, <1>2, <1>3, <2>2, ActorNames, StepNames DEF CleanPath, At, OwnStep
      <3>. QED
        BY <1>4, <1>6, <2>2, <3>1, ActorNames DEF CleanPath, At
    <2>. QED
      BY <1>5, <2>1, <2>2 DEF NodeInv
  <1>7. CASE /\ pc'[n][a] = call.ok
             /\ <<status[n], call.to>> \in Graph
             /\ status'[n] = call.to
             /\ dirty'[n] = (dirty[n] \/ call.to \in Dead)
    <2>1. StepsFit(n)'
      BY <1>4, <1>7, GraphFacts, ActorNames DEF NodeInv, StepsFit, At
    <2>2. PlaceholderKept(n)'
      <3>. SUFFICES ASSUME "cancel" \notin team, At(n, "provisioner", "pvCreate")' PROVE FALSE
        BY <1>5 DEF PlaceholderKept
      <3>1. status[n] = "provisioning" /\ At(n, "provisioner", "pvCreate")
        BY <1>4, ActorNames DEF NodeInv, PlaceholderKept, At
      <3>2. call.to = "active" /\ pc[n][a] \in {"hbActive", "regActive", "clActive", "cdActive"}
        BY <1>1, <1>7, <3>1, GraphFacts, CallFacts
      <3>. QED
        BY <1>1, <3>1, <3>2 DEF NodeInv, StepsFit, OwnStep, At
    <2>3. ASSUME CleanPath(n), team \cap {"cancel", "late"} = {} PROVE CleanPath(n)'
      <3>1. call.to = "active" => pc[n][a] \in {"hbActive", "regActive", "clActive"}
        BY <1>1, <2>3, CallFacts DEF OwnStep
      <3>2. call.to = "returning" => pc[n][a] = "regReturning"
        BY <1>1, CallFacts
      <3>3. status'[n] \in {"none", "provisioning", "active", "unhealthy", "draining"} => ~dirty'[n]
        <4>. SUFFICES ASSUME status'[n] \in {"none", "provisioning", "active", "unhealthy", "draining"}
                      PROVE  ~dirty[n] /\ call.to \notin Dead
          BY <1>7
        <4>1. call.to \in {"active", "unhealthy", "draining"}
          BY <1>7, GraphFacts
        <4>2. CASE call.to = "active"
          BY <1>1, <1>7, <2>3, <3>1, <4>2, GraphFacts DEF CleanPath, OwnStep, At, Dead
        <4>3. CASE call.to \in {"unhealthy", "draining"}
          BY <1>7, <2>3, <4>3, GraphFacts DEF CleanPath, Dead
        <4>. QED
          BY <4>1, <4>2, <4>3
      <3>4. ~At(n, "heartbeat", "idle")' => At(n, "registrar", "idle")'
        BY <1>1, <1>2, <1>3, <2>3, ActorNames, StepNames DEF CleanPath, At, OwnStep
      <3>5. At(n, "heartbeat", "hbActive")' \/ At(n, "registrar", "regActive")'
              => status'[n] # "returning"
        <4>. SUFFICES ASSUME call.to = "returning",
                             At(n, "heartbeat", "hbActive")' \/ At(n, "registrar", "regActive")'
                      PROVE  FALSE
          BY <1>7
        <4>1. a = "registrar" /\ At(n, "registrar", "regReturning")
          BY <1>1, <3>2 DEF OwnStep, At
        <4>. QED
          BY <1>4, <2>3, <4>1, ActorNames DEF CleanPath, At
      <3>6. pc'[n]["cleaner"] \notin {"clScan", "clActive"}
        <4>. SUFFICES ASSUME pc'[n]["cleaner"] \in {"clScan", "clActive"} PROVE FALSE
          OBVIOUS
        <4>1. pc[n]["cleaner"] \in {"clScan", "clActive"} /\ status[n] = "returning"
          BY <1>4, <2>3, ActorNames DEF CleanPath
        <4>2. call.to = "active"
          BY <1>1, <1>7, <4>1, GraphFacts, CallFacts
        <4>3. pc[n][a] = "clActive"
          BY <1>1, <2>3, <3>1, <4>1, <4>2 DEF CleanPath, OwnStep, At
        <4>4. a = "cleaner" /\ pc'[n][a] \notin {"clScan", "clActive"}
          BY <1>1, <1>7, <4>3, CallFacts DEF OwnStep
        <4>. QED
          BY <4>4
      <3>. QED
        BY <3>3, <3>4, <3>5, <3>6 DEF CleanPath, At
    <2>. QED
      BY <1>5, <2>1, <2>2, <2>3 DEF NodeInv
  <1>. QED
    BY <1>6, <1>7 DEF Moved

\* A heartbeat's call that finds the node still unhealthy does not fail.
LEMMA TransitionHeard ==
    ASSUME TypeInv, NEW n \in Nodes, NEW a \in AllActors,
           TransitionRead(n, a) \/ TransitionWrite(n, a), HeardInv(n)
    PROVE  HeardInv(n)'
  <1>. DEFINE call == Calls[pc[n][a]]
  <1>1. Moved(n, a)
    BY TransitionMoves
  <1>2. OwnStep(a, pc[n][a]) /\ pc[n][a] \in DOMAIN Calls /\ TypeOK
    BY <1>1 DEF TypeInv, StepsOwned, Moved
  <1>3. \A b \in AllActors, s \in {"wdOffline", "wdUnhealthy", "hbActive"} :
          pc'[n][b] = s => pc[n][b] = s
    BY <1>1, <1>2, CallFacts DEF Moved
  <1>4. UNCHANGED <<team, queue, heard>>
    BY <1>1 DEF Moved
  <1>5. (pc[n]["watchdog"] \in {"wdOffline", "wdUnhealthy"})' =>
          \A i \in DOMAIN queue' : queue'[i].node # n
    BY <1>3, <1>4, ActorNames DEF HeardInv
  <1>6. ASSUME Watched(n)', status'[n] = "unhealthy"
        PROVE  /\ heard'[n] # "yes"
               /\ heard'[n] = "reading" =>
                    /\ ~At(n, "heartbeat", "hbUpdate")'
                    /\ At(n, "heartbeat", "hbActive")' => from'[n]["heartbeat"] \in {NotRead, "unhealthy"}
    <2>1. Watched(n)
      BY <1>3, <1>4, <1>6, ActorNames DEF Watched, At
    <2>2. status[n] = "unhealthy"
      <3>. SUFFICES ASSUME status[n] # "unhealthy" PROVE FALSE
        OBVIOUS
      <3>1. pc[n][a] = "wdUnhealthy" /\ a = "watchdog"
        BY <1>1, <1>2, <1>6, CallFacts DEF Moved, OwnStep
      <3>. QED
        BY <2>1, <3>1 DEF HeardInv, Watched, At
    <2>3. heard'[n] # "yes"
      BY <1>4, <2>1, <2>2 DEF HeardInv
    <2>4. ASSUME heard[n] = "reading" PROVE ~At(n, "heartbeat", "hbUpdate")'
      <3>. SUFFICES ASSUME At(n, "heartbeat", "hbUpdate")' PROVE FALSE
        OBVIOUS
      <3>1. ~At(n, "heartbeat", "hbUpdate")
        BY <2>1, <2>2, <2>4 DEF HeardInv
      <3>2. a = "heartbeat" /\ At(n, "heartbeat", "hbActive")
        <4>1. a = "heartbeat"
          BY <1>1, <3>1, ActorNames DEF Moved, At
        <4>2. pc'[n][a] = "hbUpdate" /\ pc[n][a] # "hbUpdate"
          BY <3>1, <4>1 DEF At
        <4>. QED
          BY <1>1, <1>2, <4>1, <4>2, CallFacts DEF Moved, At
      <3>3. from[n][a] \in {NotRead, "unhealthy"} /\ call.to = "active"
        BY <2>1, <2>2, <2>4, <3>2 DEF HeardInv, At, Calls
      <3>4. <<status[n], call.to>> \in Graph
        BY <2>2, <3>3 DEF Graph
      <3>5. TransitionRead(n, a) => FALSE
        BY <3>1, <3>4, <3>2 DEF TransitionRead, At
      <3>6. TransitionWrite(n, a) => status'[n] = "active"
        BY <1>2, <2>2, <3>3 DEF TransitionWrite, Write, TypeOK
      <3>. QED
        BY <1>6, <3>5, <3>6
    <2>5. ASSUME heard[n] = "reading", At(n, "heartbeat", "hbActive")'
          PROVE  from'[n]["heartbeat"] \in {NotRead, "unhealthy"}
      <3>1. from[n]["heartbeat"] \in {NotRead, "unhealthy"}
        BY <1>3, <2>1, <2>2, <2>5, ActorNames DEF HeardInv, At
      <3>2. from'[n]["heartbeat"] \in {from[n]["heartbeat"], NotRead, status[n]}
        <4>1. a # "heartbeat" => from'[n]["heartbeat"] = from[n]["heartbeat"]
          BY <1>1, ActorNames DEF Moved
        <4>2. from'[n][a] \in {from[n][a], NotRead, status[n]}
          BY <1>2 DEF TransitionRead, TransitionWrite, TypeOK
        <4>. QED
          BY <4>1, <4>2
      <3>. QED
        BY <2>2, <3>1, <3>2
    <2>. QED
      BY <1>4, <2>3, <2>4, <2>5
  <1>. QED
    BY <1>5, <1>6 DEF HeardInv

-----------------------------------------------------------------------------

\* What a node's invariants speak of, but for the watchdog's list.
Untouched(m) == UNCHANGED <<status[m], dirty[m], pc[m], from[m], heard[m]>>

\* What a step leaves alone keeps the invariant.
LEMMA Elsewhere ==
    ASSUME NEW m \in Nodes, NodeInv(m), HeardInv(m), Untouched(m), UNCHANGED <<team, queue>>
    PROVE  NodeInv(m)' /\ HeardInv(m)'
  BY DEF NodeInv, StepsFit, PlaceholderKept, CleanPath, HeardInv, Watched, Untouched, At

\* A step about one node leaves the others alone.
LEMMA OthersUntouched ==
    ASSUME TypeInv, NEW n \in Nodes,
           \/ AgentBoots(n) \/ AgentDies(n) \/ HeartbeatArrives(n) \/ Age(n) \/ Transition(n)
           \/ RegisterRead(n) \/ RegisterInsert(n) \/ RegisterUpdate(n)
           \/ HeartbeatStatus(n) \/ HeartbeatUpdate(n) \/ CleanerScan(n) \/ WatchdogRecovers(n)
           \/ \E a \in {"auto", "manual"} : RecoverTenants(n, a) \/ RecoveryFails(n, a)
           \/ ManualRecovery(n) \/ Drain(n) \/ CancelDrain(n) \/ DrainMigrates(n)
           \/ Provision(n) \/ ProvisionSucceeds(n) \/ ProvisionFails(n)
    PROVE  (\A m \in Nodes \ {n} : Untouched(m)) /\ UNCHANGED <<team, queue>>
  <1>. USE DEF TypeInv, TypeOK, Untouched, ghosts, work, Goto, Write
  <1>1. CASE AgentBoots(n) \/ AgentDies(n) \/ HeartbeatArrives(n) \/ Age(n)
    BY <1>1 DEF AgentBoots, AgentDies, HeartbeatArrives, Begin, Age
  <1>2. ASSUME NEW a \in AllActors, TransitionRead(n, a)
        PROVE  (\A m \in Nodes \ {n} : Untouched(m)) /\ UNCHANGED <<team, queue>>
    BY <1>2 DEF TransitionRead
  <1>3. ASSUME NEW a \in AllActors, TransitionWrite(n, a)
        PROVE  (\A m \in Nodes \ {n} : Untouched(m)) /\ UNCHANGED <<team, queue>>
    BY <1>3 DEF TransitionWrite
  <1>4. CASE RegisterRead(n)
    BY <1>4 DEF RegisterRead
  <1>5. CASE RegisterInsert(n) \/ RegisterUpdate(n)
    BY <1>5 DEF RegisterInsert, RegisterUpdate
  <1>6. CASE HeartbeatStatus(n)
    BY <1>6 DEF HeartbeatStatus
  <1>7. CASE HeartbeatUpdate(n) \/ CleanerScan(n)
    BY <1>7 DEF HeartbeatUpdate, CleanerScan
  <1>8. CASE WatchdogRecovers(n)
    BY <1>8 DEF WatchdogRecovers
  <1>9. CASE \E a \in {"auto", "manual"} : RecoverTenants(n, a) \/ RecoveryFails(n, a)
    BY <1>9 DEF RecoverTenants, RecoveryFails
  <1>10. CASE ManualRecovery(n) \/ Drain(n) \/ CancelDrain(n) \/ DrainMigrates(n)
    BY <1>10 DEF ManualRecovery, Drain, CancelDrain, Begin, DrainMigrates
  <1>11. CASE Provision(n) \/ ProvisionSucceeds(n) \/ ProvisionFails(n)
    BY <1>11 DEF Provision, ProvisionSucceeds, ProvisionFails
  <1>. QED
    BY <1>1, <1>2, <1>3, <1>4, <1>5, <1>6, <1>7, <1>8, <1>9, <1>10, <1>11 DEF Transition

\* Steps of the actors a node's invariant does not speak of.
LEMMA Bystander ==
    ASSUME NEW n \in Nodes, NodeInv(n), HeardInv(n), UNCHANGED <<team, queue>>,
           UNCHANGED <<status[n], dirty[n], heard[n], from[n]["heartbeat"]>>,
           \A b \in {"registrar", "heartbeat", "cleaner", "provisioner"} : pc'[n][b] = pc[n][b],
           pc'[n]["watchdog"] \in {pc[n]["watchdog"], "idle"}
    PROVE  NodeInv(n)' /\ HeardInv(n)'
  <1>1. NodeInv(n)'
    BY DEF NodeInv, StepsFit, PlaceholderKept, CleanPath, At
  <1>2. HeardInv(n)'
    BY DEF HeardInv, Watched, At
  <1>. QED
    BY <1>1, <1>2

\* The agent, its registration and its heartbeats keep the node's invariants.
LEMMA AgentNode ==
    ASSUME TypeInv, NEW n \in Nodes, NodeInv(n), HeardInv(n),
           \/ AgentBoots(n) \/ AgentDies(n) \/ Age(n) \/ HeartbeatArrives(n)
           \/ RegisterRead(n) \/ RegisterInsert(n) \/ RegisterUpdate(n)
    PROVE  NodeInv(n)' /\ HeardInv(n)'
  <1>0. TypeOK
    BY DEF TypeInv
  <1>. USE ActorNames
  <1>1. CASE AgentBoots(n)
    <2>1. pc'[n]["registrar"] = "regRead" /\ \A b \in AllActors \ {"registrar"} : pc'[n][b] = pc[n][b]
      BY <1>0, <1>1, GotoEffect, StepNames DEF AgentBoots
    <2>2. UNCHANGED <<team, status, from, queue, dirty, heard>>
      BY <1>1 DEF AgentBoots, ghosts
    <2>3. "late" \in team \/ At(n, "heartbeat", "idle")
      BY <1>1 DEF AgentBoots
    <2>. QED
      BY <2>1, <2>2, <2>3
         DEF NodeInv, StepsFit, PlaceholderKept, CleanPath, HeardInv, Watched, At
  <1>2. CASE AgentDies(n) \/ Age(n)
    BY <1>2, Bystander DEF AgentDies, Age, work, ghosts
  <1>3. CASE HeartbeatArrives(n)
    <2>1. pc'[n]["heartbeat"] = "hbStatus" /\ \A b \in AllActors \ {"heartbeat"} : pc'[n][b] = pc[n][b]
      BY <1>0, <1>3, GotoEffect, StepNames DEF HeartbeatArrives, Begin
    <2>2. UNCHANGED <<team, status, from, queue, dirty, heard>> /\ At(n, "registrar", "idle")
      BY <1>3 DEF HeartbeatArrives, Begin, ghosts
    <2>. QED
      BY <2>1, <2>2
         DEF NodeInv, StepsFit, PlaceholderKept, CleanPath, HeardInv, Watched, At
  <1>4. CASE RegisterRead(n) \/ RegisterUpdate(n)
    <2>1. /\ pc'[n]["registrar"] \in {"regInsert", "regUpdate", "regReturning", "idle"}
          /\ \A b \in AllActors \ {"registrar"} : pc'[n][b] = pc[n][b]
      BY <1>0, <1>4, GotoEffect, StepNames DEF RegisterRead, RegisterUpdate
    <2>2. UNCHANGED <<team, status, from, queue, dirty, heard>> /\ ~At(n, "registrar", "idle")
      BY <1>4 DEF RegisterRead, RegisterUpdate, At, ghosts
    <2>. QED
      BY <2>1, <2>2
         DEF NodeInv, StepsFit, PlaceholderKept, CleanPath, HeardInv, Watched, At
  <1>5. CASE RegisterInsert(n)
    <2>1. /\ pc'[n]["registrar"] = "regActive" /\ pc[n]["registrar"] = "regInsert"
          /\ \A b \in AllActors \ {"registrar"} : pc'[n][b] = pc[n][b]
      BY <1>0, <1>5, GotoEffect, StepNames DEF RegisterInsert, At
    <2>2. /\ UNCHANGED <<team, from, queue, dirty, heard>>
          /\ status[n] = "none" /\ status'[n] = "provisioning"
      BY <1>0, <1>5 DEF RegisterInsert, TypeOK, ghosts
    <2>3. NodeInv(n)'
      BY <2>1, <2>2 DEF NodeInv, StepsFit, PlaceholderKept, CleanPath, At
    <2>4. HeardInv(n)'
      BY <2>1, <2>2 DEF HeardInv
    <2>. QED
      BY <2>3, <2>4
  <1>. QED
    BY <1>1, <1>2, <1>3, <1>4, <1>5

\* So do the heartbeat handler and the cleaner.
LEMMA HeartbeatNode ==
    ASSUME TypeInv, NEW n \in Nodes, NodeInv(n), HeardInv(n),
           HeartbeatStatus(n) \/ HeartbeatUpdate(n) \/ CleanerScan(n)
    PROVE  NodeInv(n)' /\ HeardInv(n)'
  <1>0. TypeOK
    BY DEF TypeInv
  <1>. USE ActorNames
  <1>1. CASE HeartbeatStatus(n)
    <2>1. PICK s \in {"idle", "hbActive", "hbUpdate"}, c \in {pc[n]["cleaner"], "clScan"} :
             /\ GotoBoth(n, "heartbeat", s, "cleaner", c)
             /\ s = "hbActive" <=> status[n] = "unhealthy"
             /\ c # pc[n]["cleaner"] => status[n] = "returning"
      BY <1>1 DEF HeartbeatStatus, GotoBoth
    <2>2. /\ pc'[n]["heartbeat"] = s /\ pc'[n]["cleaner"] = c
          /\ \A b \in AllActors \ {"heartbeat", "cleaner"} : pc'[n][b] = pc[n][b]
      <3>1. s \in Steps /\ c \in Steps /\ pc \in [Nodes -> [AllActors -> Steps]]
        BY <1>0, StepNames, PcType DEF TypeOK
      <3>2. "heartbeat" \in AllActors /\ "cleaner" \in AllActors \ {"heartbeat"}
        OBVIOUS
      <3>. QED
        BY SMTT(30), <2>1, <3>1, <3>2, TwoMoves
    <2>3. UNCHANGED <<team, status, from, queue, dirty>> /\ At(n, "heartbeat", "hbStatus")
      BY <1>1 DEF HeartbeatStatus
    <2>4. from[n]["heartbeat"] = NotRead
      BY <2>3, NoCall, StepNames DEF At
    <2>5. heard'[n] = "reading"
      BY <1>0, <1>1 DEF HeartbeatStatus, TypeOK
    <2>6. StepsFit(n)' /\ PlaceholderKept(n)'
      BY <2>1, <2>2, <2>3 DEF NodeInv, StepsFit, PlaceholderKept, At
    <2>7. CleanPath(n) => CleanPath(n)'
      BY <2>1, <2>2, <2>3 DEF CleanPath, At
    <2>8. HeardInv(n)'
      BY <2>1, <2>2, <2>3, <2>4, <2>5 DEF HeardInv, Watched, At
    <2>. QED
      BY <2>3, <2>6, <2>7, <2>8 DEF NodeInv
  <1>2. CASE HeartbeatUpdate(n)
    <2>1. /\ pc'[n]["heartbeat"] = "idle" /\ pc[n]["heartbeat"] = "hbUpdate"
          /\ \A b \in AllActors \ {"heartbeat"} : pc'[n][b] = pc[n][b]
      BY <1>0, <1>2, GotoEffect, StepNames DEF HeartbeatUpdate, At
    <2>2. /\ UNCHANGED <<team, status, from, queue, dirty>>
          /\ heard'[n] = IF heard[n] = "reading" THEN "yes" ELSE heard[n]
      BY <1>0, <1>2 DEF HeartbeatUpdate, TypeOK
    <2>3. NodeInv(n)'
      BY <2>1, <2>2 DEF NodeInv, StepsFit, PlaceholderKept, CleanPath, At
    <2>4. HeardInv(n)'
      BY <2>1, <2>2 DEF HeardInv, Watched, At
    <2>. QED
      BY <2>3, <2>4
  <1>3. CASE CleanerScan(n)
    <2>1. /\ pc'[n]["cleaner"] = "clActive" /\ pc[n]["cleaner"] = "clScan"
          /\ \A b \in AllActors \ {"cleaner"} : pc'[n][b] = pc[n][b]
      BY <1>0, <1>3, GotoEffect, StepNames DEF CleanerScan, At
    <2>2. /\ UNCHANGED <<team, status, from, queue, heard>>
          /\ dirty'[n] = (dirty[n] /\ status[n] # "returning")
      BY <1>0, <1>3 DEF CleanerScan, TypeOK
    <2>3. NodeInv(n)'
      BY <2>1, <2>2 DEF NodeInv, StepsFit, PlaceholderKept, CleanPath, At
    <2>4. HeardInv(n)'
      BY <2>1, <2>2 DEF HeardInv, Watched, At
    <2>. QED
      BY <2>3, <2>4
  <1>. QED
    BY <1>1, <1>2, <1>3

\* So do recovery, drain and provisioning.
LEMMA OperationsNode ==
    ASSUME TypeInv, NEW n \in Nodes, NodeInv(n), HeardInv(n),
           \/ WatchdogRecovers(n)
           \/ \E a \in {"auto", "manual"} : RecoverTenants(n, a) \/ RecoveryFails(n, a)
           \/ ManualRecovery(n) \/ Drain(n) \/ CancelDrain(n) \/ DrainMigrates(n)
           \/ Provision(n) \/ ProvisionSucceeds(n) \/ ProvisionFails(n)
    PROVE  NodeInv(n)' /\ HeardInv(n)'
  <1>0. TypeOK
    BY DEF TypeInv
  <1>. USE ActorNames
  <1>1. CASE WatchdogRecovers(n)
    <2>1. PICK s \in {pc[n]["auto"], "rcOffline"} : GotoBoth(n, "watchdog", "idle", "auto", s)
      BY <1>1 DEF WatchdogRecovers, GotoBoth
    <2>2. "idle" \in Steps /\ s \in Steps /\ pc \in [Nodes -> [AllActors -> Steps]]
      BY <1>0, StepNames, PcType DEF TypeOK
    <2>3. "watchdog" \in AllActors /\ "auto" \in AllActors \ {"watchdog"}
      OBVIOUS
    <2>4. pc'[n]["watchdog"] = "idle" /\ \A b \in AllActors \ {"watchdog", "auto"} : pc'[n][b] = pc[n][b]
      BY SMTT(30), <2>1, <2>2, <2>3, TwoMoves
    <2>. QED
      BY <1>1, <2>4, Bystander DEF WatchdogRecovers
  <1>2. CASE \/ \E a \in {"auto", "manual"} : RecoverTenants(n, a) \/ RecoveryFails(n, a)
             \/ ManualRecovery(n) \/ Drain(n) \/ CancelDrain(n) \/ DrainMigrates(n)
    <2>1. PICK a \in {"auto", "manual", "drainer", "cancel"}, s \in Steps : Goto(n, a, s)
      BY <1>2, StepNames
         DEF RecoverTenants, RecoveryFails, ManualRecovery, Drain, CancelDrain, Begin, DrainMigrates
    <2>2. UNCHANGED <<team, status, from, queue, dirty, heard>>
      BY <1>2 DEF RecoverTenants, RecoveryFails, ManualRecovery, Drain, CancelDrain, Begin,
                  DrainMigrates, ghosts
    <2>3. \A b \in AllActors \ {a} : pc'[n][b] = pc[n][b]
      BY <1>0, <2>1, GotoEffect
    <2>. QED
      BY <2>2, <2>3, Bystander
  <1>3. CASE Provision(n)
    <2>1. /\ pc'[n]["provisioner"] = "pvCreate"
          /\ \A b \in AllActors \ {"provisioner"} : pc'[n][b] = pc[n][b]
      BY <1>0, <1>3, GotoEffect, StepNames DEF Provision
    <2>2. /\ UNCHANGED <<team, from, queue, dirty, heard>>
          /\ status[n] = "none" /\ status'[n] = "provisioning"
          /\ At(n, "registrar", "idle")
      BY <1>0, <1>3 DEF Provision, TypeOK, ghosts
    <2>3. NodeInv(n)'
      BY <2>1, <2>2 DEF NodeInv, StepsFit, PlaceholderKept, CleanPath, At
    <2>4. HeardInv(n)'
      BY <2>1, <2>2 DEF HeardInv
    <2>. QED
      BY <2>3, <2>4
  <1>4. CASE ProvisionSucceeds(n)
    <2>1. /\ pc'[n]["provisioner"] = "idle"
          /\ \A b \in AllActors \ {"provisioner"} : pc'[n][b] = pc[n][b]
      BY <1>0, <1>4, GotoEffect, StepNames DEF ProvisionSucceeds
    <2>2. UNCHANGED <<team, status, from, queue, dirty, heard>>
      BY <1>4 DEF ProvisionSucceeds, ghosts
    <2>. QED
      BY <2>1, <2>2 DEF NodeInv, StepsFit, PlaceholderKept, CleanPath, HeardInv, Watched, At
  <1>5. CASE ProvisionFails(n)
    <2>1. /\ pc'[n]["provisioner"] = "idle" /\ pc[n]["provisioner"] = "pvCreate"
          /\ \A b \in AllActors \ {"provisioner"} : pc'[n][b] = pc[n][b]
      BY <1>0, <1>5, GotoEffect, StepNames DEF ProvisionFails, At
    <2>2. UNCHANGED <<team, from, queue, heard>> /\ status'[n] = "failed"
      BY <1>0, <1>5 DEF ProvisionFails, Write, TypeOK
    <2>3. CleanPath(n) /\ team \cap {"cancel", "late"} = {} => CleanPath(n)'
      BY <2>1, <2>2 DEF NodeInv, StepsFit, PlaceholderKept, CleanPath, At
    <2>4. StepsFit(n)' /\ PlaceholderKept(n)'
      BY <2>1, <2>2 DEF StepsFit, PlaceholderKept, At
    <2>5. HeardInv(n)'
      BY <2>1, <2>2 DEF HeardInv, At
    <2>. QED
      BY <2>2, <2>3, <2>4, <2>5 DEF NodeInv
  <1>. QED
    BY <1>1, <1>2, <1>3, <1>4, <1>5

\* The watchdog's list, a visit of its next node and a check that ends keep
\* the invariants of every node.
LEMMA WatchdogNode ==
    ASSUME TypeInv, NodesInv,
           \/ WatchdogList \/ WatchdogVisit \/ Crash
           \/ \E n \in Nodes : WatchdogAborts(n)
    PROVE  NodesInv'
  <1>0. TypeOK
    BY DEF TypeInv
  <1>. SUFFICES ASSUME NEW m \in Nodes PROVE NodeInv(m)' /\ HeardInv(m)'
    BY DEF NodesInv
  <1>. USE ActorNames
  <1>1. NodeInv(m) /\ HeardInv(m)
    BY DEF NodesInv
  <1>2. CASE WatchdogList
    <2>1. UNCHANGED <<team, status, pc, dirty>> /\ At(m, "watchdog", "idle") /\ heard'[m] = "no"
      BY <1>2 DEF WatchdogList, WatchdogIdle
    <2>. QED
      BY <1>1, <2>1 DEF NodeInv, StepsFit, PlaceholderKept, CleanPath, HeardInv, Watched, At
  <1>3. CASE WatchdogVisit
    <2>. DEFINE n == Head(queue).node
    <2>1. PICK s \in {"wdOffline", "wdUnhealthy", "idle"} :
             Goto(n, "watchdog", s) /\ (s = "wdOffline" => Head(queue).status = "unhealthy")
      BY <1>3 DEF WatchdogVisit
    <2>2. queue # << >> /\ QueueOk /\ n \in Nodes /\ queue' = Tail(queue)
      BY <1>3, TailType DEF TypeInv, WatchdogVisit, Rows
    <2>3. /\ pc'[n]["watchdog"] = s
          /\ \A k \in Nodes, b \in AllActors : k # n \/ b # "watchdog" => pc'[k][b] = pc[k][b]
      BY <1>0, <2>1, <2>2, GotoEffect, StepNames
    <2>4. UNCHANGED <<team, status, from, dirty, heard>> /\ At(m, "watchdog", "idle")
      BY <1>3 DEF WatchdogVisit, WatchdogIdle, ghosts
    <2>5. NodeInv(m)'
      BY <1>1, <2>3, <2>4 DEF NodeInv, StepsFit, PlaceholderKept, CleanPath, At
    <2>6. (pc[m]["watchdog"] \in {"wdOffline", "wdUnhealthy"})' =>
            \A i \in DOMAIN queue' : queue'[i].node # m
      BY <2>2, <2>3, <2>4, TailType DEF At
    <2>7. Watched(m)' => Watched(m)
      <3>1. CASE \E i \in DOMAIN queue' : queue'[i].node = m /\ queue'[i].status = "unhealthy"
        BY <2>2, <3>1, TailType DEF Watched
      <3>2. CASE At(m, "watchdog", "wdOffline")'
        <4>1. m = n /\ Head(queue).status = "unhealthy"
          BY <2>1, <2>3, <2>4, <3>2 DEF At
        <4>2. 1 \in DOMAIN queue /\ Head(queue) = queue[1]
          BY <2>2 DEF QueueOk
        <4>. QED
          BY <4>1, <4>2 DEF Watched
      <3>. QED
        BY <3>1, <3>2 DEF Watched
    <2>8. HeardInv(m)'
      BY <1>1, <2>3, <2>4, <2>6, <2>7 DEF HeardInv, At
    <2>. QED
      BY <2>5, <2>8
  <1>4. CASE Crash
    <2>1. UNCHANGED <<team, status, dirty, heard>> /\ queue' = << >>
          /\ \A b \in AllActors : pc'[m][b] = "idle"
      BY <1>4 DEF Crash, ghosts
    <2>. QED
      BY <1>1, <2>1 DEF NodeInv, StepsFit, PlaceholderKept, CleanPath, HeardInv, Watched, At
  <1>5. ASSUME NEW n \in Nodes, WatchdogAborts(n)
        PROVE  NodeInv(m)' /\ HeardInv(m)'
    <2>1. /\ pc'[n]["watchdog"] = "idle"
          /\ \A k \in Nodes, b \in AllActors : k # n \/ b # "watchdog" => pc'[k][b] = pc[k][b]
      BY <1>0, <1>5, GotoEffect, StepNames DEF WatchdogAborts
    <2>2. UNCHANGED <<team, status, from, dirty, heard>> /\ queue' = << >>
      BY <1>5 DEF WatchdogAborts, ghosts
    <2>3. NodeInv(m)'
      BY <1>1, <2>1, <2>2 DEF NodeInv, StepsFit, PlaceholderKept, CleanPath, At
    <2>4. HeardInv(m)'
      BY <1>1, <2>1, <2>2 DEF HeardInv, Watched, At
    <2>. QED
      BY <2>3, <2>4
  <1>. QED
    BY <1>2, <1>3, <1>4, <1>5

\* Initially nothing is dirty, listed or under way.
LEMMA InitNodes == Init => NodesInv
  BY ActorNames
     DEF Init, NodesInv, NodeInv, StepsFit, PlaceholderKept, CleanPath, HeardInv, Watched, At

\* Every step keeps the invariants of every node.
LEMMA NextNodes == TypeInv /\ NodesInv /\ [Next]_vars => NodesInv'
  <1>. SUFFICES ASSUME TypeInv, NodesInv, [Next]_vars PROVE NodesInv'
    OBVIOUS
  <1>1. ASSUME NEW n \in Nodes,
               \/ AgentBoots(n) \/ AgentDies(n) \/ HeartbeatArrives(n) \/ Age(n) \/ Transition(n)
               \/ RegisterRead(n) \/ RegisterInsert(n) \/ RegisterUpdate(n)
               \/ HeartbeatStatus(n) \/ HeartbeatUpdate(n) \/ CleanerScan(n) \/ WatchdogRecovers(n)
               \/ \E a \in {"auto", "manual"} : RecoverTenants(n, a) \/ RecoveryFails(n, a)
               \/ ManualRecovery(n) \/ Drain(n) \/ CancelDrain(n) \/ DrainMigrates(n)
               \/ Provision(n) \/ ProvisionSucceeds(n) \/ ProvisionFails(n)
        PROVE  NodesInv'
    <2>1. (\A m \in Nodes \ {n} : Untouched(m)) /\ UNCHANGED <<team, queue>>
      BY <1>1, OthersUntouched
    <2>2. NodeInv(n) /\ HeardInv(n)
      BY DEF NodesInv
    <2>3. NodeInv(n)' /\ HeardInv(n)'
      <3>1. CASE Transition(n)
        BY <2>2, <3>1, TransitionMoves, TransitionNode, TransitionHeard DEF Transition
      <3>. QED
        BY <1>1, <2>2, <3>1, AgentNode, HeartbeatNode, OperationsNode
    <2>4. \A m \in Nodes \ {n} : NodeInv(m)' /\ HeardInv(m)'
      BY <2>1, Elsewhere DEF NodesInv
    <2>. QED
      BY <2>3, <2>4 DEF NodesInv
  <1>2. CASE UNCHANGED vars
    BY <1>2, Elsewhere DEF vars, work, ghosts, NodesInv, Untouched
  <1>. QED
    BY <1>1, <1>2, WatchdogNode DEF Next, Continue

\* The inductive invariant of the specification.
LEMMA Inductive == Spec => [](TypeInv /\ NodesInv)
  <1>1. Init => TypeInv /\ NodesInv
    BY InitType, InitNodes
  <1>2. TypeInv /\ NodesInv /\ [Next]_vars => (TypeInv /\ NodesInv)'
    BY NextType, NextNodes
  <1>. QED
    BY <1>1, <1>2, PTL DEF Spec

\* "'returning' is the ONLY path from dead states back to 'active'"
\* (node-state-machine.ts): in every behaviour, with any number of nodes and
\* crashes, a node in service has been cleaned since it was last dead, unless
\* cancel-drain is at work or heartbeats outlive their agent; and transition()
\* only ever has edges of the graph in flight.
THEOREM NodesAreSafe == Spec => []NodesSafe
  <1>1. TypeInv /\ NodesInv => NodesSafe
    BY DEF TypeInv, NodesSafe, CleanedBeforeService, NodesInv, NodeInv, CleanPath
  <1>. QED
    BY <1>1, Inductive, PTL

\* A status that is changed is changed along an edge.
LEMMA StatusMoves ==
    ASSUME TypeInv, NodesInv, [Next]_vars, NEW n \in Nodes,
           status[n] # "none", status'[n] # status[n]
    PROVE  \/ <<status[n], status'[n]>> \in Graph
           \/ At(n, "provisioner", "pvCreate") /\ status'[n] = "failed" /\ "cancel" \in team
  <1>0. TypeOK
    BY DEF TypeInv
  <1>1. ASSUME NEW m \in Nodes, NEW a \in AllActors, TransitionRead(m, a) \/ TransitionWrite(m, a)
        PROVE  <<status[n], status'[n]>> \in Graph
    <2>1. n = m
      BY <1>0, <1>1 DEF TransitionRead, TransitionWrite, Write, TypeOK
    <2>2. Moved(n, a)
      BY <1>1, <2>1, TransitionMoves
    <2>. QED
      BY <2>2 DEF Moved
  <1>2. ASSUME NEW m \in Nodes, RegisterInsert(m) \/ Provision(m) PROVE FALSE
    BY <1>0, <1>2 DEF RegisterInsert, Provision, TypeOK
  <1>3. ASSUME NEW m \in Nodes, ProvisionFails(m)
        PROVE  \/ <<status[n], status'[n]>> \in Graph
               \/ At(n, "provisioner", "pvCreate") /\ status'[n] = "failed" /\ "cancel" \in team
    <2>1. n = m /\ At(n, "provisioner", "pvCreate") /\ status'[n] = "failed"
      BY <1>0, <1>3 DEF ProvisionFails, Write, TypeOK
    <2>2. "cancel" \notin team => status[n] = "provisioning"
      BY <2>1 DEF NodesInv, NodeInv, PlaceholderKept
    <2>. QED
      BY <2>1, <2>2 DEF Graph
  <1>4. CASE UNCHANGED status
    BY <1>4
  <1>5. ASSUME NEW m \in Nodes,
               \/ AgentBoots(m) \/ AgentDies(m) \/ HeartbeatArrives(m) \/ Age(m)
               \/ RegisterRead(m) \/ RegisterUpdate(m)
               \/ HeartbeatStatus(m) \/ HeartbeatUpdate(m) \/ CleanerScan(m)
               \/ WatchdogRecovers(m) \/ WatchdogAborts(m)
               \/ \E a \in {"auto", "manual"} : RecoverTenants(m, a) \/ RecoveryFails(m, a)
               \/ ManualRecovery(m) \/ Drain(m) \/ CancelDrain(m) \/ DrainMigrates(m)
               \/ ProvisionSucceeds(m)
        PROVE  UNCHANGED status
    BY <1>5 DEF AgentBoots, AgentDies, HeartbeatArrives, Age, RegisterRead, RegisterUpdate,
                HeartbeatStatus, HeartbeatUpdate, CleanerScan, WatchdogRecovers, WatchdogAborts,
                RecoverTenants, RecoveryFails, ManualRecovery, Drain, CancelDrain, Begin,
                DrainMigrates, ProvisionSucceeds
  <1>6. CASE WatchdogList \/ WatchdogVisit \/ Crash \/ UNCHANGED vars
    BY <1>6 DEF WatchdogList, WatchdogVisit, Crash, vars
  <1>. QED
    BY <1>1, <1>2, <1>3, <1>4, <1>5, <1>6 DEF Next, Continue, Transition

\* "INodeRepository.transition() enforces this graph": whatever its callers
\* race for, a node's status moves along the graph's edges, but for a placeholder
\* that cancel-drain put into service; and the watchdog takes no node offline
\* that was heard of, and recorded, after the watchdog's list.
THEOREM MovesAreRespected == Spec => MovesRespected
  <1>1. TypeInv /\ NodesInv /\ [Next]_vars =>
          [\A n \in Nodes : status[n] # "none" /\ status'[n] # status[n]
             => \/ <<status[n], status'[n]>> \in Graph
                \/ At(n, "provisioner", "pvCreate") /\ status'[n] = "failed" /\ "cancel" \in team]_status
    BY StatusMoves
  <1>2. TypeInv /\ NodesInv /\ [Next]_vars =>
          [\A n \in Nodes :
             status[n] = "unhealthy" /\ status'[n] = "offline"
                /\ At(n, "watchdog", "wdOffline") /\ pc'[n]["watchdog"] = "wdRecover"
             => heard[n] # "yes"]_vars
    BY DEF NodesInv, HeardInv, Watched
  <1>. QED
    BY <1>1, <1>2, Inductive, PTL DEF MovesRespected, GraphRespected, OfflineIsSilent, Spec

-----------------------------------------------------------------------------
(* Bots on nodes: the orchestrators and their commands                      *)

Rescuers == {"recovery", "retry"}
RescuePlaces == {"off", "rcNext", "rcDownload", "rcImport", "rcInspect", "rcReassign", "rcFailed", "rcRemove",
                 "rcItem", "rcClose"}
MigrationPlaces == {"off", "mgExport", "mgUpload", "mgDownload", "mgStop", "mgImport", "mgInspect", "mgReassign",
                    "mgUndo", "mgRestart"}
RestorePlaces == {"off", "rsExport", "rsUpload", "rsStop", "rsRemove", "rsDownload", "rsImport", "rsInspect",
                  "rsSafety", "rsReimport"}
CleanerPlaces == {"off", "clNext", "clStop"}
ConfigPlaces == {"off", "cfUpdate"}

Places == RescuePlaces \cup MigrationPlaces \cup RestorePlaces \cup CleanerPlaces \cup ConfigPlaces

PlacesOf(p) == CASE p = "migration" -> MigrationPlaces
                 [] p = "restore" -> RestorePlaces
                 [] p = "cleaner" -> CleanerPlaces
                 [] p = "config" -> ConfigPlaces
                 [] OTHER -> RescuePlaces

Commands == {"export", "upload", "download", "stop", "start", "import", "inspect", "remove", "update"}
Outs == {None, "recovered", "failed", "waiting"}
Works == [bot : Bots, entry : Nat]
MoverRows ==
    [pc : Places,
     bot : Bots \cup {None}, from : Hosts \cup {None}, to : Hosts \cup {None},
     todo : Seq(Works), known : SUBSET Bots, flag : BOOLEAN, wait : BOOLEAN,
     item : Nat, entry : Nat, out : Outs, recovered : Nat, failed : Nat, waiting : Nat]

\* With a target in hand.
Aiming == {"rcDownload", "rcImport", "rcInspect", "rcReassign", "rcFailed", "rcRemove"}

\* What an orchestrator has in hand: a bot of the system and nodes to talk to.
\* Nobody is recovered to the dead node, and a migration to it does not get
\* past its first command there.
AimRight(p, m) ==
    /\ p \in Rescuers =>
         /\ m.pc \notin {"off", "rcNext"} => m.bot \in Bots /\ m.out # None
         /\ m.pc \in Aiming => m.to \in Hosts \ {scene.dead}
    /\ p = "migration" /\ m.pc # "off" =>
         /\ m.bot \in Bots /\ m.from \in Hosts /\ m.to \in Hosts
         /\ m.to = scene.dead => m.pc \in {"mgExport", "mgUpload", "mgDownload"}
    /\ p \in {"restore", "config"} /\ m.pc # "off" => m.bot \in Bots /\ m.from \in Hosts
    /\ p = "cleaner" =>
         /\ m.pc # "off" => m.from \in Hosts
         /\ m.pc = "clStop" => m.bot \in Bots

RowRight(p, m) ==
    /\ m \in MoverRows /\ m.pc \in PlacesOf(p)
    /\ m.wait => m.pc \in DOMAIN Sends(p)
    /\ AimRight(p, m)

RowsRight ==
    /\ mover \in [Movers -> MoverRows]
    /\ \A p \in Movers : RowRight(p, mover[p])

\* The command an orchestrator has under way
Sent(p) == [by |-> p, node |-> Target(p), cmd |-> Sends(p)[mover[p].pc].cmd,
            bot |-> mover[p].bot, key |-> Key(p), image |-> Image(p), live |-> TRUE]

\* A command that somebody still waits for is the one its sender sent last.
CommandRight(c) ==
    /\ c.by \in Movers /\ c.node \in Hosts /\ c.bot \in Bots /\ c.cmd \in Commands
    /\ c.live => mover[c.by].wait /\ c = Sent(c.by)

WireRight == \A c \in wire : CommandRight(c)

\* The container is there, or was taken away.
There(n, b) == box[n][b] # "none" \/ <<n, b>> \in removed

GroundRight ==
    /\ scene \in Scenes
    /\ box \in [Hosts -> [Bots -> {"none", "running", "stopped"}]]
    /\ link \in [Hosts -> BOOLEAN] /\ agentUp \in [Hosts -> BOOLEAN]
    /\ \A n \in Hosts : link[n] => agentUp[n]
    /\ scene.dead \in Hosts => ~agentUp[scene.dead]
    /\ hitches \in 0..MaxFaults

HomesRight ==
    /\ home \in [Bots -> Hosts \cup {None}]
    /\ \A b \in Bots : home[b] # None => There(home[b], b)
    /\ \A p \in Movers : mover[p].pc \in {"rcReassign", "mgReassign"} => There(mover[p].to, mover[p].bot)
    /\ scene.restore # None => home[scene.restore] # None

ItemRows == [bot : Bots, status : Outs \cup {"retried"}, tries : Nat]

ItemsRight ==
    /\ items \in Seq(ItemRows) /\ Len(items) <= MaxItems
    /\ event.status = None => items = << >> /\ \A p \in Rescuers : mover[p].pc = "off"

\* A rescue's entries are items of the bots they are about, and the retry knows
\* every bot that is left on the dead node.
EntryRight(p, m) ==
    /\ m.pc \in {"off", "rcNext"} => m.entry = 0
    /\ IF m.pc = "rcClose" THEN m.item \in 1..Len(items) ELSE m.item = 0
    /\ m.entry \in 0..Len(items)
    /\ \A j \in 1..Len(m.todo) :
         /\ m.todo[j].entry \in 0..Len(items)
         /\ m.todo[j].entry # 0 => p = "retry" /\ items[m.todo[j].entry].bot = m.todo[j].bot
    /\ p = "retry" /\ m.pc # "off" => getTenants \subseteq m.known

EntriesRight == \A p \in Rescuers : EntryRight(p, mover[p])

\* Items that nobody may look at again while their bot waits
Owing == {i \in getWaitingItems : home[items[i].bot] = scene.dead}

\* The rescue under way has the item before it, in hand, or will report it.
Accounted(m, i) == m.waiting > 0 \/ i \in {m.entry, m.item} \/ \E j \in 1..Len(m.todo) : m.todo[j].entry = i

RescueRight ==
    ~mixed =>
      /\ ~(Rescuing("recovery") /\ Rescuing("retry"))
      /\ \A p \in Rescuers : Rescuing(p) => \A i \in Owing : Accounted(mover[p], i)
      /\ event.status = "completed" /\ ~Rescuing("recovery") /\ ~Rescuing("retry") => Owing = {}

PlacementInv == GroundRight /\ RowsRight /\ WireRight /\ HomesRight /\ ItemsRight /\ EntriesRight /\ RescueRight

-----------------------------------------------------------------------------
(* The answers                                                              *)

LEMMA RescueTable ==
    /\ DOMAIN RecoverySends = {"rcDownload", "rcImport", "rcInspect", "rcRemove"}
    /\ \A s \in DOMAIN RecoverySends :
         /\ RecoverySends[s].at = "to" /\ RecoverySends[s].cmd \in Commands
         /\ \A t \in {RecoverySends[s].ok, RecoverySends[s].err} :
              /\ t \in Aiming \cup {"rcItem"}
              /\ t = "rcReassign" => t # RecoverySends[s].err /\ RecoverySends[s].cmd = "inspect"
  BY DEF RecoverySends, Commands, Aiming

LEMMA MigrationTable ==
    /\ DOMAIN MigrationSends = {"mgExport", "mgUpload", "mgDownload", "mgStop", "mgImport", "mgInspect", "mgUndo", "mgRestart"}
    /\ \A s \in DOMAIN MigrationSends :
         /\ MigrationSends[s].at \in {"from", "to"} /\ MigrationSends[s].cmd \in Commands
         /\ \A t \in {MigrationSends[s].ok, MigrationSends[s].err} :
              /\ t \in MigrationPlaces
              /\ t = "mgReassign" =>
                   t # MigrationSends[s].err /\ MigrationSends[s].cmd = "inspect" /\ MigrationSends[s].at = "to"
         /\ s \in {"mgExport", "mgUpload", "mgDownload"} =>
              /\ MigrationSends[s].err = "off"
              /\ MigrationSends[s].ok \in {"mgUpload", "mgDownload"} \/ MigrationSends[s].at = "to"
  BY DEF MigrationSends, Commands, MigrationPlaces

LEMMA OtherTables ==
    /\ DOMAIN RestoreSends = RestorePlaces \ {"off"}
    /\ \A s \in DOMAIN RestoreSends :
         /\ RestoreSends[s].at = "from" /\ RestoreSends[s].cmd \in Commands
         /\ {RestoreSends[s].ok, RestoreSends[s].err} \subseteq RestorePlaces
    /\ DOMAIN CleanerSends = {"clStop"}
    /\ CleanerSends["clStop"].at = "from" /\ CleanerSends["clStop"].cmd \in Commands
    /\ CleanerSends["clStop"].ok = "clNext" /\ CleanerSends["clStop"].err = "clNext"
    /\ DOMAIN ConfigSends = {"cfUpdate"}
    /\ ConfigSends["cfUpdate"].at = "from" /\ ConfigSends["cfUpdate"].cmd \in Commands
    /\ ConfigSends["cfUpdate"].ok = "off" /\ ConfigSends["cfUpdate"].err = "off"
  <1>1. /\ DOMAIN RestoreSends = RestorePlaces \ {"off"}
        /\ \A s \in DOMAIN RestoreSends :
             /\ RestoreSends[s].at = "from" /\ RestoreSends[s].cmd \in Commands
             /\ {RestoreSends[s].ok, RestoreSends[s].err} \subseteq RestorePlaces
    BY DEF RestoreSends, RestorePlaces, Commands
  <1>2. /\ DOMAIN CleanerSends = {"clStop"}
        /\ CleanerSends["clStop"].at = "from" /\ CleanerSends["clStop"].cmd \in Commands
        /\ CleanerSends["clStop"].ok = "clNext" /\ CleanerSends["clStop"].err = "clNext"
    BY DEF CleanerSends, Commands
  <1>3. /\ DOMAIN ConfigSends = {"cfUpdate"}
        /\ ConfigSends["cfUpdate"].at = "from" /\ ConfigSends["cfUpdate"].cmd \in Commands
        /\ ConfigSends["cfUpdate"].ok = "off" /\ ConfigSends["cfUpdate"].err = "off"
    BY DEF ConfigSends, Commands
  <1>. QED
    BY <1>1, <1>2, <1>3

LEMMA SendsOf ==
    /\ \A p \in Rescuers : Sends(p) = RecoverySends /\ PlacesOf(p) = RescuePlaces
    /\ Sends("migration") = MigrationSends /\ PlacesOf("migration") = MigrationPlaces
    /\ Sends("restore") = RestoreSends /\ PlacesOf("restore") = RestorePlaces
    /\ Sends("cleaner") = CleanerSends /\ PlacesOf("cleaner") = CleanerPlaces
    /\ Sends("config") = ConfigSends /\ PlacesOf("config") = ConfigPlaces
    /\ Movers = Rescuers \cup {"migration", "restore", "cleaner", "config"}
  BY DEF Sends, PlacesOf, Rescuers, Movers

LEMMA RestingRight == \A p \in Movers : RowRight(p, Resting)
  <1>1. Resting \in MoverRows /\ Resting.pc = "off" /\ Resting.wait = FALSE
    BY DEF Resting, MoverRows, Works, Outs, Places, RescuePlaces
  <1>2. \A p \in Movers : "off" \in PlacesOf(p)
    BY SendsOf DEF RescuePlaces, MigrationPlaces, RestorePlaces, CleanerPlaces, ConfigPlaces
  <1>3. \A p \in Movers : AimRight(p, Resting)
    BY <1>1 DEF AimRight, Aiming
  <1>. QED
    BY <1>1, <1>2, <1>3 DEF RowRight

\* Where a command goes, and what it is about.
LEMMA SentRight ==
    ASSUME RowsRight, NEW p \in Movers, mover[p].pc \in DOMAIN Sends(p)
    PROVE  /\ Target(p) \in Hosts /\ mover[p].bot \in Bots /\ Sends(p)[mover[p].pc].cmd \in Commands
           /\ mover[p].pc \notin {"off", "rcNext", "rcClose"}
           /\ mover[p].pc \in PlacesOf(p)
  <1>1. RowRight(p, mover[p])
    BY DEF RowsRight
  <1>2. CASE p \in Rescuers
    BY <1>1, <1>2, SendsOf, RescueTable DEF RowRight, AimRight, Target, Aiming
  <1>3. CASE p = "migration"
    BY <1>1, <1>3, SendsOf, MigrationTable DEF RowRight, AimRight, Target
  <1>4. CASE p = "restore"
    <2>1. mover[p].pc \in RestorePlaces \ {"off"}
      BY <1>4, SendsOf, OtherTables
    <2>2. mover[p].pc \notin {"off", "rcNext", "rcClose"}
      BY <2>1 DEF RestorePlaces
    <2>. QED
      BY <1>1, <1>4, <2>2, SendsOf, OtherTables DEF RowRight, AimRight, Target
  <1>5. CASE p = "cleaner"
    BY <1>1, <1>5, SendsOf, OtherTables DEF RowRight, AimRight, Target
  <1>6. CASE p = "config"
    BY <1>1, <1>6, SendsOf, OtherTables DEF RowRight, AimRight, Target
  <1>. QED
    BY <1>2, <1>3, <1>4, <1>5, <1>6, SendsOf

\* An answer moves an orchestrator on along its commands, and leaves what it
\* has in hand.
LEMMA AnsweredRight ==
    ASSUME RowsRight, GroundRight, NEW p \in Movers, mover[p].pc \in DOMAIN Sends(p),
           NEW good \in BOOLEAN, good => Target(p) # scene.dead
    PROVE  LET m == Answered(p, good) IN
           /\ RowRight(p, m) /\ ~m.wait
           /\ m.pc # "off" =>
                m = [mover[p] EXCEPT !.pc = m.pc, !.wait = FALSE, !.flag = m.flag]
           /\ p \in Rescuers => m.pc \notin {"off", "rcNext", "rcClose"}
           /\ m.pc \in {"rcReassign", "mgReassign"} =>
                good /\ Sends(p)[mover[p].pc].cmd = "inspect" /\ Target(p) = mover[p].to
  <1>. DEFINE next == IF good THEN Sends(p)[mover[p].pc].ok ELSE Sends(p)[mover[p].pc].err
              flag == mover[p].flag \/ (good /\ mover[p].pc = "rcImport")
              onward == [mover[p] EXCEPT !.pc = next, !.wait = FALSE, !.flag = flag]
              m == Answered(p, good)
  <1>1. mover[p] \in MoverRows /\ RowRight(p, mover[p])
    BY DEF RowsRight, RowRight
  <1>2. m = IF next = "off" THEN Resting ELSE onward
    <2>1. [GoOn(p, next) EXCEPT !.flag = @ \/ (good /\ mover[p].pc = "rcImport")] = onward
      BY <1>1 DEF GoOn, MoverRows
    <2>2. onward.pc = next
      BY <1>1 DEF MoverRows
    <2>. HIDE DEF next, onward
    <2>. QED
      BY <2>1, <2>2 DEF Answered, Settle, next
  <1>3. next \in PlacesOf(p)
    BY SendsOf, RescueTable, MigrationTable, OtherTables
    DEF RescuePlaces, Aiming, CleanerPlaces, ConfigPlaces
  <1>4. CASE next = "off"
    <2>1. p \notin Rescuers
      BY <1>4, SendsOf, RescueTable DEF Aiming
    <2>2. m = Resting
      BY <1>2, <1>4
    <2>3. Resting.pc = "off" /\ Resting.wait = FALSE
      BY DEF Resting
    <2>4. RowRight(p, Resting)
      BY RestingRight
    <2>. HIDE DEF m
    <2>. QED
      BY <2>1, <2>2, <2>3, <2>4 DEF m
  <1>5. CASE next # "off"
    <2>1. m = onward
      BY <1>2, <1>5
    <2>2. flag \in BOOLEAN
      BY <1>1 DEF MoverRows
    <2>3. next \in Places
      BY <1>3, SendsOf DEF Places
    <2>. HIDE DEF next, flag
    <2>4. /\ onward \in MoverRows /\ onward.pc = next /\ onward.wait = FALSE /\ onward.flag = flag
          /\ onward.bot = mover[p].bot /\ onward.from = mover[p].from /\ onward.to = mover[p].to
          /\ onward.out = mover[p].out
      <3>1. onward \in MoverRows
        BY <1>1, <2>2, <2>3 DEF MoverRows
      <3>2. mover[p] \in MoverRows
        BY <1>1
      <3>3. /\ onward.pc = next /\ onward.wait = FALSE
            /\ onward.bot = mover[p].bot /\ onward.from = mover[p].from /\ onward.to = mover[p].to
            /\ onward.out = mover[p].out
        BY <3>2 DEF MoverRows
      <3>4. onward.flag = flag
        BY <3>2, Zenon DEF MoverRows
      <3>. QED
        BY <3>1, <3>3, <3>4
    <2>5. mover[p].pc \notin {"off", "rcNext", "rcClose"}
      BY SentRight
    <2>6. AimRight(p, onward)
      <3>1. CASE p \in Rescuers
        <4>1. mover[p].pc \in Aiming
          BY <3>1, SendsOf, RescueTable DEF Aiming
        <4>. QED
          BY <1>1, <2>4, <2>5, <3>1, <4>1 DEF RowRight, AimRight, Rescuers
      <3>2. CASE p = "migration"
        <4>1. mover[p].to = scene.dead => next \in {"mgExport", "mgUpload", "mgDownload"}
          <5>. SUFFICES ASSUME mover[p].to = scene.dead PROVE next \in {"mgExport", "mgUpload", "mgDownload"}
            OBVIOUS
          <5>1. mover[p].pc \in {"mgExport", "mgUpload", "mgDownload"}
            BY <1>1, <2>5, <3>2 DEF RowRight, AimRight
          <5>2. good
            BY <1>5, <3>2, <5>1, SendsOf, MigrationTable DEF next
          <5>3. MigrationSends[mover[p].pc].at # "to"
            BY <3>2, <5>2, SendsOf DEF Target
          <5>. QED
            BY <3>2, <5>1, <5>2, <5>3, SendsOf, MigrationTable DEF next
        <4>. QED
          BY <1>1, <2>4, <2>5, <3>2, <4>1 DEF RowRight, AimRight, Rescuers
      <3>3. CASE p = "cleaner"
        <4>1. mover[p].pc # "off" /\ next = "clNext"
          BY <2>5, <3>3, SendsOf, OtherTables DEF next
        <4>. QED
          BY <1>1, <2>4, <3>3, <4>1 DEF RowRight, AimRight, Rescuers
      <3>4. CASE p \in {"restore", "config"}
        BY <1>1, <2>4, <2>5, <3>4 DEF RowRight, AimRight, Rescuers
      <3>. QED
        BY <3>1, <3>2, <3>3, <3>4, SendsOf
    <2>7. p \in Rescuers => next \notin {"off", "rcNext", "rcClose"}
      BY SendsOf, RescueTable DEF next, Aiming
    <2>8. next \in {"rcReassign", "mgReassign"} =>
            good /\ Sends(p)[mover[p].pc].cmd = "inspect" /\ Target(p) = mover[p].to
      <3>1. CASE p \in Rescuers
        BY <3>1, SendsOf, RescueTable DEF next, Target, Aiming
      <3>2. CASE p = "migration"
        BY <3>2, SendsOf, MigrationTable DEF next, Target, MigrationPlaces
      <3>3. CASE p \in {"restore", "cleaner", "config"}
        BY <1>3, <3>3, SendsOf DEF RestorePlaces, CleanerPlaces, ConfigPlaces
      <3>. QED
        BY <3>1, <3>2, <3>3, SendsOf
    <2>. QED
      BY <1>3, <2>1, <2>4, <2>6, <2>7, <2>8 DEF RowRight
  <1>. QED
    BY <1>4, <1>5

-----------------------------------------------------------------------------
(* What a step leaves alone                                                 *)

LEMMA SentKept == \A p \in Movers : scene' = scene /\ mover'[p] = mover[p] => Sent(p)' = Sent(p)
  BY DEF Sent, Target, Key, Image

\* Whoever waits for an answer is not moved by anything else.
LEMMA WireKept ==
    ASSUME WireRight, scene' = scene, wire' \subseteq wire,
           \A p \in Movers : mover[p].wait => mover'[p] = mover[p]
    PROVE  WireRight'
  <1>. SUFFICES ASSUME NEW c \in wire' PROVE CommandRight(c)'
    BY DEF WireRight
  <1>1. CommandRight(c)
    BY DEF WireRight
  <1>. QED
    BY <1>1, SentKept DEF CommandRight

LEMMA RowsKept ==
    ASSUME RowsRight, scene' = scene, NEW p \in Movers, NEW m, m \in MoverRows,
           RowRight(p, m), mover' = [mover EXCEPT ![p] = m]
    PROVE  RowsRight' /\ mover'[p] = m /\ \A q \in Movers \ {p} : mover'[q] = mover[q]
  <1>1. mover' \in [Movers -> MoverRows] /\ mover'[p] = m /\ \A q \in Movers \ {p} : mover'[q] = mover[q]
    BY DEF RowsRight
  <1>2. ASSUME NEW q \in Movers PROVE RowRight(q, mover[q])'
    <2>1. RowRight(q, mover'[q])
      BY <1>1 DEF RowsRight
    <2>. QED
      BY <2>1 DEF RowRight, AimRight
  <1>. QED
    BY <1>1, <1>2 DEF RowsRight

LEMMA RowsStill == RowsRight /\ scene' = scene /\ mover' = mover => RowsRight'
  BY DEF RowsRight, RowRight, AimRight

\* The containers that are gone were taken away.
NothingLost == \A n \in Hosts, b \in Bots : There(n, b) => There(n, b)'

LEMMA HomesKept ==
    ASSUME HomesRight, RowsRight, scene' = scene, home' = home, NothingLost,
           \A p \in Movers : mover'[p].pc \in {"rcReassign", "mgReassign"} =>
              \/ mover'[p].pc = mover[p].pc /\ mover'[p].to = mover[p].to /\ mover'[p].bot = mover[p].bot
              \/ There(mover[p].to, mover[p].bot)'
    PROVE  HomesRight'
  <1>1. \A b \in Bots : home'[b] # None => There(home[b], b)'
    BY DEF HomesRight, NothingLost
  <1>2. ASSUME NEW p \in Movers, mover'[p].pc \in {"rcReassign", "mgReassign"}
        PROVE  There(mover[p].to, mover[p].bot)'
    <2>1. CASE mover'[p].pc = mover[p].pc /\ mover'[p].to = mover[p].to /\ mover'[p].bot = mover[p].bot
      <3>1. mover[p].to \in Hosts /\ mover[p].bot \in Bots
        <4>1. RowRight(p, mover[p])
          BY DEF RowsRight
        <4>2. p \in Rescuers \cup {"migration"}
          BY <1>2, <2>1, <4>1, SendsOf DEF RowRight, RestorePlaces, CleanerPlaces, ConfigPlaces
        <4>3. mover[p].pc = "mgReassign" => p = "migration"
          BY <4>1, <4>2, SendsOf DEF RowRight, RescuePlaces
        <4>. QED
          BY <1>2, <2>1, <4>1, <4>2, <4>3 DEF RowRight, AimRight, Aiming
      <3>2. There(mover[p].to, mover[p].bot)
        BY <1>2, <2>1 DEF HomesRight
      <3>3. There(mover[p].to, mover[p].bot) => (box'[mover[p].to][mover[p].bot] # "none" \/ <<mover[p].to, mover[p].bot>> \in removed')
        BY <3>1 DEF NothingLost, There
      <3>. QED
        BY <2>1, <3>2, <3>3 DEF There
    <2>2. CASE There(mover[p].to, mover[p].bot)'
      BY <2>2 DEF There
    <2>. QED
      BY <1>2, <2>1, <2>2
  <1>. QED
    BY <1>1, <1>2 DEF HomesRight, There

\* A step of one command of a rescue, or of somebody else
StillMover(p) ==
    /\ \/ mover'[p].pc = mover[p].pc
       \/ {mover'[p].pc, mover[p].pc} \cap {"off", "rcNext", "rcClose"} = {}
    /\ mover'[p].todo = mover[p].todo /\ mover'[p].known = mover[p].known
    /\ mover'[p].entry = mover[p].entry /\ mover'[p].item = mover[p].item
    /\ mover'[p].waiting = mover[p].waiting

HomesLeave == \A b \in Bots : home'[b] = scene.dead => home[b] = scene.dead

LEMMA RescuesKept ==
    ASSUME EntriesRight, ItemsRight, RescueRight, UNCHANGED <<scene, items, event, mixed>>, HomesLeave,
           \A p \in Rescuers : StillMover(p)
    PROVE  EntriesRight' /\ ItemsRight' /\ RescueRight'
  <1>1. EntriesRight'
    <2>. SUFFICES ASSUME NEW p \in Rescuers PROVE EntryRight(p, mover[p])'
      BY DEF EntriesRight
    <2>1. EntryRight(p, mover[p]) /\ StillMover(p)
      BY DEF EntriesRight
    <2>2. getTenants' \subseteq getTenants
      BY DEF HomesLeave, getTenants
    <2>. QED
      BY <2>1, <2>2 DEF EntryRight, StillMover
  <1>2. ItemsRight'
    BY DEF ItemsRight, StillMover
  <1>3. \A p \in Rescuers : Rescuing(p)' = Rescuing(p)
    BY DEF StillMover, Rescuing, Rescuers
  <1>4. Owing' \subseteq Owing
    <2>. SUFFICES ASSUME NEW i \in Owing' PROVE i \in Owing
      OBVIOUS
    <2>1. i \in 1..Len(items) /\ items[i].status = "waiting" /\ home'[items[i].bot] = scene.dead
      BY DEF Owing, getWaitingItems
    <2>2. items[i].bot \in Bots
      <3>1. items[i] \in ItemRows
        BY <2>1 DEF ItemsRight
      <3>. QED
        BY <3>1 DEF ItemRows
    <2>. QED
      BY <2>1, <2>2 DEF Owing, getWaitingItems, HomesLeave
  <1>5. \A p \in Rescuers, i \in Owing : Accounted(mover[p], i) => Accounted(mover[p], i)'
    BY DEF StillMover, Accounted
  <1>6. RescueRight'
    BY <1>3, <1>4, <1>5 DEF RescueRight, Rescuers
  <1>. QED
    BY <1>1, <1>2, <1>6

\* Steps of agents and nodes, which no orchestrator sees.
LEMMA GroundSteps ==
    ASSUME PlacementInv, UNCHANGED <<scene, home, wire, mover, items, event, mixed>>, GroundRight', NothingLost
    PROVE  PlacementInv'
  <1>1. RowsRight'
    BY RowsStill DEF PlacementInv
  <1>2. WireRight'
    BY WireKept DEF PlacementInv
  <1>3. HomesRight'
    BY HomesKept DEF PlacementInv
  <1>4. EntriesRight' /\ ItemsRight' /\ RescueRight'
    <2>1. HomesLeave /\ \A p \in Rescuers : StillMover(p)
      BY DEF HomesLeave, StillMover
    <2>. QED
      BY <2>1, RescuesKept DEF PlacementInv
  <1>. QED
    BY <1>1, <1>2, <1>3, <1>4 DEF PlacementInv

-----------------------------------------------------------------------------
(* The steps of agents and nodes                                            *)

LEMMA SceneRight ==
    ASSUME scene \in Scenes
    PROVE  /\ scene.dead \in Hosts \cup {None} /\ scene.comes \in Hosts \cup {None}
           /\ scene.dead # None => scene.comes # scene.dead
           /\ scene.at \in [Bots -> Hosts \cup {None}]
           /\ scene.migrate = << >> \/ scene.migrate \in Bots \X Hosts
           /\ scene.restore # None => scene.restore \in Bots /\ scene.at[scene.restore] # None
           /\ scene.config \in Bots \cup {None} /\ scene.keeper \in {"orchestrator", "manager"}
           /\ None \notin Hosts /\ None \notin Bots /\ MaxFaults \in Nat /\ MaxItems \in Nat
  BY PlacementAssumption

LEMMA LinkSteps ==
    ASSUME PlacementInv, NEW n \in Hosts, SocketClosed(n) \/ Reconnect(n) \/ agentStart(n)
    PROVE  PlacementInv'
  <1>1. GroundRight /\ MaxFaults \in Nat
    BY PlacementAssumption DEF PlacementInv
  <1>2. UNCHANGED <<scene, home, wire, mover, items, event, mixed, box, removed>>
    BY DEF SocketClosed, Reconnect, agentStart, ground, rescue
  <1>3. GroundRight'
    <2>1. CASE SocketClosed(n)
      BY <1>1, <2>1 DEF SocketClosed, GroundRight, ground
    <2>2. CASE Reconnect(n)
      BY <1>1, <2>2 DEF Reconnect, accept, GroundRight, ground
    <2>3. CASE agentStart(n)
      BY <1>1, <2>3 DEF agentStart, accept, GroundRight, ground
    <2>. QED
      BY <2>1, <2>2, <2>3
  <1>4. NothingLost
    BY <1>2 DEF NothingLost, There
  <1>. QED
    BY <1>2, <1>3, <1>4, GroundSteps

LEMMA AgentSteps ==
    ASSUME PlacementInv, NEW n \in Hosts,
           runHotBackup(n) \/ RoomAppears(n) \/ DayPasses \/ \E b \in Bots : attemptRestart(n, b)
    PROVE  PlacementInv'
  <1>1. GroundRight /\ MaxFaults \in Nat
    BY PlacementAssumption DEF PlacementInv
  <1>2. UNCHANGED <<scene, home, wire, mover, items, event, mixed, removed>>
    BY DEF runHotBackup, RoomAppears, DayPasses, attemptRestart, ground, rescue
  <1>3. CASE runHotBackup(n) \/ RoomAppears(n) \/ DayPasses
    <2>1. GroundRight'
      BY <1>1, <1>3 DEF runHotBackup, RoomAppears, DayPasses, GroundRight, ground
    <2>2. NothingLost
      BY <1>2, <1>3 DEF runHotBackup, RoomAppears, DayPasses, ground, NothingLost, There
    <2>. QED
      BY <1>2, <2>1, <2>2, GroundSteps
  <1>4. ASSUME NEW b \in Bots, attemptRestart(n, b) PROVE PlacementInv'
    <2>. DEFINE new == IF box[n][b] = "none" \/ ~agentUp[n] THEN box[n][b] ELSE "running"
    <2>1. box' = [box EXCEPT ![n][b] = new]
      BY <1>4 DEF attemptRestart
    <2>2. new \in {"none", "running", "stopped"} /\ (box[n][b] # "none" => new # "none")
      BY <1>1 DEF GroundRight
    <2>. HIDE DEF new
    <2>3. GroundRight'
      BY <1>1, <1>4, <2>1, <2>2 DEF attemptRestart, GroundRight
    <2>4. NothingLost
      BY <1>1, <1>2, <2>1, <2>2 DEF NothingLost, There, GroundRight
    <2>. QED
      BY <1>2, <2>3, <2>4, GroundSteps
  <1>. QED
    BY <1>3, <1>4

\* A call that is answered or gives up waiting, and what it leaves under way.
AnswerOf(p, m) ==
    /\ m \in MoverRows /\ RowRight(p, m) /\ ~m.wait
    /\ m.pc # "off" => /\ m.bot = mover[p].bot /\ m.to = mover[p].to
                       /\ m.todo = mover[p].todo /\ m.known = mover[p].known
                       /\ m.entry = mover[p].entry /\ m.item = mover[p].item /\ m.waiting = mover[p].waiting
    /\ p \in Rescuers => m.pc \notin {"off", "rcNext", "rcClose"}

LEMMA AnsweredOf ==
    ASSUME RowsRight, GroundRight, NEW p \in Movers, mover[p].pc \in DOMAIN Sends(p),
           NEW good \in BOOLEAN, good => Target(p) # scene.dead
    PROVE  AnswerOf(p, Answered(p, good))
  <1>. DEFINE m == Answered(p, good)
  <1>1. /\ RowRight(p, m) /\ ~m.wait
        /\ m.pc # "off" => m = [mover[p] EXCEPT !.pc = m.pc, !.wait = FALSE, !.flag = m.flag]
        /\ p \in Rescuers => m.pc \notin {"off", "rcNext", "rcClose"}
    BY AnsweredRight
  <1>2. mover[p] \in MoverRows
    BY DEF RowsRight
  <1>. HIDE DEF m
  <1>3. m.pc # "off" => /\ m.bot = mover[p].bot /\ m.to = mover[p].to
                       /\ m.todo = mover[p].todo /\ m.known = mover[p].known
                       /\ m.entry = mover[p].entry /\ m.item = mover[p].item /\ m.waiting = mover[p].waiting
    BY <1>1, <1>2 DEF MoverRows
  <1>4. m \in MoverRows
    BY <1>1 DEF RowRight
  <1>5. AnswerOf(p, m)
    BY <1>1, <1>3, <1>4 DEF AnswerOf
  <1>. QED
    BY <1>5 DEF m

LEMMA AnswerInv ==
    ASSUME PlacementInv, UNCHANGED <<scene, home, items, event, mixed>>, GroundRight', NothingLost,
           NEW p \in Movers, mover[p].pc \in DOMAIN Sends(p), NEW m, AnswerOf(p, m),
           mover' = [mover EXCEPT ![p] = m],
           m.pc \in {"rcReassign", "mgReassign"} => box'[m.to][m.bot] # "none",
           \A c \in wire' : CommandRight(c) /\ (c.live => c.by # p)
    PROVE  PlacementInv'
  <1>1. RowsRight' /\ mover'[p] = m /\ \A q \in Movers \ {p} : mover'[q] = mover[q]
    BY RowsKept DEF PlacementInv, AnswerOf
  <1>2. WireRight'
    <2>. SUFFICES ASSUME NEW c \in wire' PROVE CommandRight(c)'
      BY DEF WireRight
    <2>1. CommandRight(c) /\ (c.live => c.by # p)
      OBVIOUS
    <2>. QED
      BY <1>1, <2>1, SentKept DEF CommandRight
  <1>3. HomesRight'
    <2>1. \A q \in Movers : mover'[q].pc \in {"rcReassign", "mgReassign"} =>
              \/ mover'[q].pc = mover[q].pc /\ mover'[q].to = mover[q].to /\ mover'[q].bot = mover[q].bot
              \/ There(mover[q].to, mover[q].bot)'
      BY <1>1 DEF There
    <2>. QED
      BY <2>1, HomesKept DEF PlacementInv
  <1>4. EntriesRight' /\ ItemsRight' /\ RescueRight'
    <2>1. HomesLeave
      BY DEF HomesLeave
    <2>2. mover[p].pc \notin {"off", "rcNext", "rcClose"}
      BY SentRight DEF PlacementInv
    <2>3. \A q \in Rescuers : StillMover(q)
      BY <1>1, <2>2, SendsOf DEF AnswerOf, StillMover
    <2>. QED
      BY <2>1, <2>3, RescuesKept DEF PlacementInv
  <1>. QED
    BY <1>1, <1>2, <1>3, <1>4 DEF PlacementInv

LEMMA SendInv ==
    ASSUME PlacementInv, NEW p \in Movers, Send(p)
    PROVE  PlacementInv'
  <1>1. mover[p].pc \in DOMAIN Sends(p) /\ ~mover[p].wait /\ RowsRight /\ RowRight(p, mover[p])
    BY DEF Send, PlacementInv, RowsRight
  <1>2. UNCHANGED <<scene, home, box, link, agentUp, items, event, mixed, hitches, removed>>
    BY DEF Send, ground, rescue
  <1>3. NothingLost /\ HomesLeave
    BY <1>2 DEF NothingLost, There, HomesLeave
  <1>4. GroundRight'
    BY <1>2 DEF PlacementInv, GroundRight
  <1>5. Target(p) \in Hosts /\ mover[p].bot \in Bots /\ Sends(p)[mover[p].pc].cmd \in Commands
        /\ mover[p].pc \notin {"off", "rcNext", "rcClose"}
    BY <1>1, SentRight
  <1>6. CASE link[Target(p)]
    <2>. DEFINE m == [mover[p] EXCEPT !.wait = TRUE]
    <2>1. mover' = [mover EXCEPT ![p] = m] /\ wire' = wire \cup {Sent(p)}
      BY <1>6 DEF Send, Sent
    <2>2. m \in MoverRows
      BY <1>1 DEF RowRight, MoverRows
    <2>3. \A q \in Rescuers \cup {"migration", "restore", "config", "cleaner"} : m.pc = mover[p].pc
      BY <1>1 DEF RowRight, MoverRows
    <2>4. /\ m.pc = mover[p].pc /\ m.bot = mover[p].bot /\ m.from = mover[p].from /\ m.to = mover[p].to
          /\ m.out = mover[p].out /\ m.wait = TRUE /\ m.todo = mover[p].todo /\ m.known = mover[p].known
          /\ m.entry = mover[p].entry /\ m.item = mover[p].item /\ m.waiting = mover[p].waiting
      BY <1>1 DEF RowRight, MoverRows
    <2>. HIDE DEF m
    <2>5. RowRight(p, m)
      BY <1>1, <2>2, <2>4 DEF RowRight, AimRight
    <2>6. RowsRight' /\ mover'[p] = m /\ \A q \in Movers \ {p} : mover'[q] = mover[q]
      BY <1>1, <1>2, <2>1, <2>2, <2>5, RowsKept
    <2>7. WireRight'
      <3>. SUFFICES ASSUME NEW c \in wire' PROVE CommandRight(c)'
        BY DEF WireRight
      <3>1. CASE c \in wire
        <4>1. CommandRight(c)
          BY <3>1 DEF PlacementInv, WireRight
        <4>2. c.live => c.by # p
          BY <1>1, <4>1 DEF CommandRight
        <4>. QED
          BY <1>2, <2>6, <4>1, <4>2, SentKept DEF CommandRight
      <3>2. CASE c = Sent(p)
        <4>1. Sent(p)' = Sent(p)
          BY <1>2, <2>4, <2>6 DEF Sent, Target, Key, Image
        <4>2. /\ c.by = p /\ c.node = Target(p) /\ c.bot = mover[p].bot /\ c.cmd = Sends(p)[mover[p].pc].cmd
          BY <3>2 DEF Sent
        <4>. QED
          BY <1>5, <2>4, <2>6, <3>2, <4>1, <4>2 DEF CommandRight
      <3>. QED
        BY <2>1, <3>1, <3>2
    <2>8. \A q \in Rescuers : StillMover(q)
      BY <2>4, <2>6, SendsOf DEF StillMover
    <2>9. HomesRight'
      <3>1. \A q \in Movers : mover'[q].pc = mover[q].pc /\ mover'[q].to = mover[q].to /\ mover'[q].bot = mover[q].bot
        BY <2>4, <2>6
      <3>. QED
        BY <1>1, <1>2, <1>3, <3>1, HomesKept DEF PlacementInv
    <2>. QED
      BY <1>2, <1>3, <1>4, <2>6, <2>7, <2>8, <2>9, RescuesKept DEF PlacementInv
  <1>7. CASE ~link[Target(p)]
    <2>. DEFINE m == Answered(p, FALSE)
    <2>1. mover' = [mover EXCEPT ![p] = m] /\ wire' = wire
      BY <1>7 DEF Send
    <2>2. AnswerOf(p, m)
      BY <1>1, AnsweredOf DEF PlacementInv
    <2>3. m.pc \notin {"rcReassign", "mgReassign"}
      BY <1>1, AnsweredRight DEF PlacementInv
    <2>5. \A c \in wire' : CommandRight(c) /\ (c.live => c.by # p)
      BY <1>1, <2>1 DEF PlacementInv, WireRight, CommandRight
    <2>. HIDE DEF m
    <2>. QED
      BY <1>1, <1>2, <1>3, <1>4, <2>1, <2>2, <2>3, <2>5, AnswerInv
  <1>. QED
    BY <1>6, <1>7

LEMMA TimeoutInv ==
    ASSUME PlacementInv, NEW p \in Movers, Timeout(p)
    PROVE  PlacementInv'
  <1>1. mover[p].wait /\ mover[p].pc \in DOMAIN Sends(p) /\ RowsRight /\ GroundRight
    BY DEF Timeout, PlacementInv, RowsRight, RowRight
  <1>2. UNCHANGED <<scene, home, box, link, agentUp, items, event, mixed, removed>>
    BY DEF Timeout, ground, rescue
  <1>3. NothingLost
    BY <1>2 DEF NothingLost, There
  <1>4. GroundRight'
    <2>1. hitches' \in 0..MaxFaults
      BY <1>1, SceneRight DEF Timeout, GroundRight
    <2>. QED
      BY <1>1, <1>2, <2>1 DEF GroundRight
  <1>. DEFINE m == Answered(p, FALSE)
  <1>5. mover' = [mover EXCEPT ![p] = m]
    BY DEF Timeout
  <1>6. AnswerOf(p, m) /\ m.pc \notin {"rcReassign", "mgReassign"}
    BY <1>1, AnsweredOf, AnsweredRight
  <1>7. ASSUME NEW c \in wire' PROVE CommandRight(c) /\ (c.live => c.by # p)
    <2>1. PICK d \in wire : c = [d EXCEPT !.live = @ /\ d.by # p]
      BY DEF Timeout
    <2>2. CommandRight(d)
      BY DEF PlacementInv, WireRight
    <2>3. CASE d.live /\ d.by # p
      <3>1. d = Sent(d.by)
        BY <2>2, <2>3 DEF CommandRight
      <3>2. c = d
        BY <2>1, <2>3, <3>1 DEF Sent
      <3>. QED
        BY <2>2, <2>3, <3>2
    <2>4. CASE ~(d.live /\ d.by # p)
      <3>1. c = [d EXCEPT !.live = FALSE]
        BY <2>1, <2>4
      <3>2. c.by = d.by /\ c.node = d.node /\ c.bot = d.bot /\ c.cmd = d.cmd /\ ~c.live
        BY <2>2, <3>1 DEF CommandRight
      <3>. QED
        BY <2>2, <3>2 DEF CommandRight
    <2>. QED
      BY <2>3, <2>4
  <1>. HIDE DEF m
  <1>. QED
    BY <1>1, <1>2, <1>3, <1>4, <1>5, <1>6, <1>7, AnswerInv

LEMMA OutcomeParts ==
    \A s : /\ \A good \in BOOLEAN : Outcome(good, s).good = good
          /\ \A good : Outcome(good, s).box = s /\ Outcome(good, s).kill = FALSE
  BY DEF Outcome

LEMMA OutcomeCases ==
    \A s : /\ Outcome(TRUE, s).good = TRUE /\ Outcome(TRUE, s).box = s /\ Outcome(TRUE, s).kill = FALSE
          /\ Outcome(FALSE, s).good = FALSE /\ Outcome(FALSE, s).box = s /\ Outcome(FALSE, s).kill = FALSE
  BY DEF Outcome

\* What the agent makes of a command.
LEMMA OutcomeRight ==
    ASSUME GroundRight, NEW c, c.node \in Hosts, c.bot \in Bots, c.cmd \in Commands, NEW o \in dispatch(c)
    PROVE  /\ o.box \in {"none", "running", "stopped"} /\ o.good \in BOOLEAN /\ o.kill \in BOOLEAN
           /\ c.cmd = "inspect" /\ o.good => Now(c) # "none" /\ o.box = Now(c)
           /\ Unlucky(c, o) => hitches < MaxFaults
  <1>1. Now(c) \in {"none", "running", "stopped"}
    BY DEF GroundRight, Now
  <1>2. CASE c.cmd \in {"stop", "start", "remove"}
    <2>1. o \in stopBot(c) \cup startBot(c) \cup removeBot(c)
      BY <1>2 DEF dispatch
    <2>2. \E s \in {"none", "stopped", Now(c)} : o = Outcome(TRUE, s) \/ o = Outcome(FALSE, s)
      BY <2>1 DEF stopBot, startBot, removeBot
    <2>3. (o.good = TRUE \/ o.good = FALSE) /\ o.kill = FALSE /\ o.box \in {"none", "stopped", Now(c)}
      BY <2>2, OutcomeCases
    <2>. QED
      BY <1>1, <1>2, <2>3 DEF Unlucky
  <1>3. CASE c.cmd = "import"
    <2>1. o \in importBot(c)
      BY <1>3 DEF dispatch
    <2>2. CASE c.bot \notin files[c.node]
      <3>1. o = [Outcome(FALSE, Now(c)) EXCEPT !.kill = TRUE]
        BY <2>1, <2>2 DEF importBot
      <3>2. o.good = FALSE /\ o.box = Now(c) /\ o.kill = TRUE
        BY <3>1 DEF Outcome
      <3>. QED
        BY <1>1, <1>3, <2>2, <3>2 DEF Unlucky
    <2>3. CASE c.bot \in files[c.node] /\ (c.image = "untagged" \/ Now(c) # "none")
      <3>1. o = Outcome(FALSE, Now(c))
        BY <2>1, <2>3 DEF importBot
      <3>. QED
        BY <1>1, <1>3, <2>3, <3>1, OutcomeParts DEF Unlucky
    <2>4. CASE c.bot \in files[c.node] /\ ~(c.image = "untagged" \/ Now(c) # "none")
      <3>1. \/ o = Outcome(TRUE, "running")
            \/ hitches < MaxFaults /\ \E s \in {"stopped", "none"} : o = Outcome(FALSE, s)
        BY <2>1, <2>4 DEF importBot
      <3>2. /\ o.kill = FALSE /\ o.box \in {"running", "stopped", "none"}
            /\ o.good = TRUE \/ (o.good = FALSE /\ hitches < MaxFaults)
        BY <3>1, OutcomeCases
      <3>. QED
        BY <1>1, <1>3, <3>2 DEF Unlucky
    <2>. QED
      BY <2>2, <2>3, <2>4
  <1>4. CASE c.cmd = "update"
    <2>1. o \in updateBot(c)
      BY <1>4 DEF dispatch
    <2>2. \/ Now(c) = "none" /\ o = Outcome(FALSE, "none")
          \/ o = Outcome(TRUE, "running")
          \/ hitches < MaxFaults /\ \E s \in {"running", "none"} : o = Outcome(FALSE, s)
      BY <2>1 DEF updateBot
    <2>3. /\ o.kill = FALSE /\ o.box \in {"running", "none"}
          /\ o.good = TRUE \/ (o.good = FALSE /\ (Now(c) = "none" \/ hitches < MaxFaults))
      BY <2>2, OutcomeCases
    <2>. QED
      BY <1>1, <1>4, <2>3 DEF Unlucky
  <1>5. CASE c.cmd \in {"export", "inspect"}
    <2>1. CASE c.cmd = "inspect"
      <3>1. o = Outcome(Now(c) # "none", Now(c))
        BY <2>1 DEF dispatch, inspectBot
      <3>. QED
        BY <1>1, <2>1, <3>1, OutcomeParts DEF Unlucky
    <2>2. CASE c.cmd = "export"
      <3>1. o = [Outcome(Now(c) # "none", Now(c)) EXCEPT !.file = IF Now(c) # "none" THEN {c.bot} ELSE {}]
        BY <2>2 DEF dispatch, exportBot
      <3>2. o.good = (Now(c) # "none") /\ o.box = Now(c) /\ o.kill = FALSE
        BY <3>1 DEF Outcome
      <3>. QED
        BY <1>1, <2>2, <3>2 DEF Unlucky
    <2>. QED
      BY <1>5, <2>1, <2>2
  <1>6. CASE c.cmd \in {"upload", "download"}
    <2>1. CASE c.cmd = "upload"
      <3>1. o = [Outcome(c.bot \in files[c.node], Now(c)) EXCEPT
                  !.object = IF c.bot \in files[c.node] THEN {RootArchive(c.bot)} ELSE {}]
        BY <2>1 DEF dispatch, upload
      <3>2. (o.good = TRUE \/ o.good = FALSE) /\ o.box = Now(c) /\ o.kill = FALSE
        BY <3>1 DEF Outcome
      <3>. QED
        BY <1>1, <2>1, <3>2 DEF Unlucky
    <2>2. CASE c.cmd = "download"
      <3>. DEFINE found == safePath(c.key) \in bucket
      <3>1. o = [Outcome(found, Now(c)) EXCEPT !.file = IF found THEN {safePath(c.key)[2]} ELSE {}]
        BY <2>2 DEF dispatch, download
      <3>2. (o.good = TRUE \/ o.good = FALSE) /\ o.box = Now(c) /\ o.kill = FALSE
        BY <3>1 DEF Outcome
      <3>. QED
        BY <1>1, <2>2, <3>2 DEF Unlucky
    <2>. QED
      BY <1>6, <2>1, <2>2
  <1>. QED
    BY <1>2, <1>3, <1>4, <1>5, <1>6 DEF Commands

LEMMA ExecuteInv ==
    ASSUME PlacementInv, NEW c \in wire, executeCommand(c)
    PROVE  PlacementInv'
  <1>1. CommandRight(c) /\ GroundRight /\ RowsRight /\ WireRight
    BY DEF PlacementInv, WireRight
  <1>2. c.by \in Movers /\ c.node \in Hosts /\ c.bot \in Bots /\ c.cmd \in Commands
    BY <1>1 DEF CommandRight
  <1>3. PICK o \in dispatch(c) :
          /\ agentUp[c.node]
          /\ box' = [box EXCEPT ![c.node][c.bot] = o.box]
          /\ removed' = IF o.box = "none" /\ Now(c) # "none" THEN removed \cup {<<c.node, c.bot>>} ELSE removed
          /\ hitches' = IF Unlucky(c, o) THEN hitches + 1 ELSE hitches
          /\ agentUp' = [agentUp EXCEPT ![c.node] = ~o.kill]
          /\ link' = [link EXCEPT ![c.node] = @ /\ ~o.kill]
          /\ wire' = IF o.kill THEN {d \in wire : d.node # c.node} ELSE wire \ {c}
          /\ mover' = IF c.live /\ link'[c.node] THEN [mover EXCEPT ![c.by] = Answered(c.by, o.good)] ELSE mover
    BY DEF executeCommand
  <1>4. UNCHANGED <<scene, home, items, event, mixed>>
    BY DEF executeCommand, rescue
  <1>5. /\ o.box \in {"none", "running", "stopped"} /\ o.good \in BOOLEAN /\ o.kill \in BOOLEAN
        /\ c.cmd = "inspect" /\ o.good => Now(c) # "none" /\ o.box = Now(c)
        /\ Unlucky(c, o) => hitches < MaxFaults
    BY <1>1, <1>2, OutcomeRight
  <1>6. GroundRight'
    <2>1. hitches' \in 0..MaxFaults
      BY <1>1, <1>3, <1>5, SceneRight DEF GroundRight
    <2>2. box' \in [Hosts -> [Bots -> {"none", "running", "stopped"}]]
      BY <1>1, <1>3, <1>5 DEF GroundRight
    <2>3. /\ link' \in [Hosts -> BOOLEAN] /\ agentUp' \in [Hosts -> BOOLEAN]
          /\ \A n \in Hosts : link'[n] => agentUp'[n]
          /\ scene.dead \in Hosts => ~agentUp'[scene.dead]
      BY <1>1, <1>2, <1>3, <1>5 DEF GroundRight
    <2>. QED
      BY <1>1, <1>4, <2>1, <2>2, <2>3 DEF GroundRight
  <1>7. NothingLost
    <2>. SUFFICES ASSUME NEW n \in Hosts, NEW b \in Bots, There(n, b) PROVE There(n, b)'
      BY DEF NothingLost
    <2>1. CASE n = c.node /\ b = c.bot
      BY <1>1, <1>2, <1>3, <2>1 DEF There, Now, GroundRight
    <2>2. CASE ~(n = c.node /\ b = c.bot)
      BY <1>1, <1>2, <1>3, <2>2 DEF There, GroundRight
    <2>. QED
      BY <2>1, <2>2
  <1>8. wire' \subseteq wire
    BY <1>3
  <1>9. CASE ~(c.live /\ link'[c.node])
    <2>1. mover' = mover
      BY <1>3, <1>9
    <2>2. HomesLeave /\ \A p \in Rescuers : StillMover(p)
      BY <1>4, <2>1 DEF HomesLeave, StillMover
    <2>3. RowsRight' /\ WireRight' /\ HomesRight'
      BY <1>1, <1>4, <1>7, <1>8, <2>1, RowsStill, WireKept, HomesKept DEF PlacementInv
    <2>4. EntriesRight' /\ ItemsRight' /\ RescueRight'
      BY <1>4, <2>2, RescuesKept DEF PlacementInv
    <2>. QED
      BY <1>6, <2>3, <2>4 DEF PlacementInv
  <1>10. CASE c.live /\ link'[c.node]
    <2>. DEFINE p == c.by
                m == Answered(p, o.good)
    <2>1. mover[p].wait /\ c = Sent(p) /\ mover[p].pc \in DOMAIN Sends(p)
      BY <1>1, <1>2, <1>10 DEF CommandRight, RowsRight, RowRight
    <2>2. Target(p) = c.node /\ c.bot = mover[p].bot /\ c.cmd = Sends(p)[mover[p].pc].cmd
      BY <2>1 DEF Sent
    <2>3. Target(p) # scene.dead
      BY <1>1, <1>2, <1>3, <2>2 DEF GroundRight
    <2>4. AnswerOf(p, m)
      BY <1>1, <1>2, <1>5, <2>1, <2>3, AnsweredOf
    <2>5. m.pc \in {"rcReassign", "mgReassign"} =>
            o.good /\ c.cmd = "inspect" /\ c.node = mover[p].to
      BY <1>1, <1>2, <1>5, <2>1, <2>2, <2>3, AnsweredRight
    <2>6. mover' = [mover EXCEPT ![p] = m]
      BY <1>3, <1>10
    <2>7. ~o.kill
      BY <1>1, <1>2, <1>3, <1>10 DEF GroundRight
    <2>. HIDE DEF m
    <2>8. m.pc \in {"rcReassign", "mgReassign"} => box'[m.to][m.bot] # "none"
      <3>. SUFFICES ASSUME m.pc \in {"rcReassign", "mgReassign"} PROVE box'[m.to][m.bot] # "none"
        OBVIOUS
      <3>1. m.to = c.node /\ m.bot = c.bot
        BY <2>2, <2>4, <2>5 DEF AnswerOf
      <3>2. box'[c.node][c.bot] # "none"
        BY <1>1, <1>2, <1>3, <1>5, <2>5 DEF GroundRight
      <3>. QED
        BY <3>1, <3>2
    <2>9. \A d \in wire' : CommandRight(d) /\ (d.live => d.by # p)
      BY <1>1, <1>3, <2>1, <2>7 DEF WireRight, CommandRight
    <2>. QED
      BY <1>2, <1>4, <1>6, <1>7, <2>1, <2>4, <2>6, <2>8, <2>9, AnswerInv
  <1>. QED
    BY <1>9, <1>10

-----------------------------------------------------------------------------
(* The steps of the orchestrators beside their commands                     *)

\* Nobody waits for an answer where no command is sent.
LEMMA NotWaiting ==
    ASSUME RowsRight, NEW p \in Movers,
           mover[p].pc \in {"off", "rcNext", "rcReassign", "rcFailed", "rcItem", "rcClose", "mgReassign", "clNext"}
    PROVE  ~mover[p].wait
  <1>1. RowRight(p, mover[p])
    BY DEF RowsRight
  <1>2. mover[p].wait => mover[p].pc \notin {"off", "rcNext", "rcClose"}
    BY <1>1, SentRight DEF RowRight
  <1>3. CASE p \in Rescuers
    BY <1>1, <1>2, <1>3, SendsOf, RescueTable DEF RowRight
  <1>4. CASE p = "migration"
    BY <1>1, <1>2, <1>4, SendsOf, MigrationTable DEF RowRight
  <1>5. CASE p \in {"restore", "cleaner", "config"}
    BY <1>1, <1>2, <1>5, SendsOf, OtherTables DEF RowRight, RestorePlaces
  <1>. QED
    BY <1>3, <1>4, <1>5, SendsOf

LEMMA StepInv ==
    ASSUME PlacementInv, UNCHANGED <<scene, box, removed, wire, items, event, mixed>>, GroundRight',
           NEW p \in Movers, ~mover[p].wait, NEW m \in MoverRows, RowRight(p, m), mover' = [mover EXCEPT ![p] = m],
           m.pc \notin {"rcReassign", "mgReassign"}, p \in Rescuers => StillMover(p),
           \/ home' = home
           \/ mover[p].pc \in {"rcReassign", "mgReassign"} /\ home' = [home EXCEPT ![mover[p].bot] = mover[p].to]
    PROVE  PlacementInv'
  <1>1. RowsRight' /\ mover'[p] = m /\ \A q \in Movers \ {p} : mover'[q] = mover[q]
    BY RowsKept DEF PlacementInv
  <1>2. WireRight'
    BY <1>1, WireKept DEF PlacementInv
  <1>3. mover[p].pc \in {"rcReassign", "mgReassign"} =>
          /\ mover[p].bot \in Bots /\ mover[p].to \in Hosts \ {scene.dead} /\ There(mover[p].to, mover[p].bot)
    <2>1. RowRight(p, mover[p])
      BY DEF PlacementInv, RowsRight
    <2>2. CASE p \in Rescuers
      BY <2>1, <2>2, SendsOf DEF RowRight, AimRight, Aiming, RescuePlaces, PlacementInv, HomesRight
    <2>3. CASE p = "migration"
      BY <2>1, <2>3, SendsOf DEF RowRight, AimRight, MigrationPlaces, PlacementInv, HomesRight
    <2>4. CASE p \in {"restore", "cleaner", "config"}
      BY <2>1, <2>4, SendsOf DEF RowRight, RestorePlaces, CleanerPlaces, ConfigPlaces
    <2>. QED
      BY <2>2, <2>3, <2>4, SendsOf
  <1>4. HomesLeave
    BY <1>3 DEF HomesLeave, PlacementInv, HomesRight
  <1>5. HomesRight'
    <2>1. HomesRight /\ scene \in Scenes /\ None \notin Hosts
      BY SceneRight DEF PlacementInv, GroundRight
    <2>2. home' \in [Bots -> Hosts \cup {None}]
      BY <1>3, <2>1 DEF HomesRight
    <2>3. \A b \in Bots : home'[b] # None => box[home'[b]][b] # "none" \/ <<home'[b], b>> \in removed
      BY <1>3, <2>1 DEF HomesRight, There
    <2>4. \A q \in Movers : mover'[q].pc \in {"rcReassign", "mgReassign"} =>
             box[mover'[q].to][mover'[q].bot] # "none" \/ <<mover'[q].to, mover'[q].bot>> \in removed
      BY <1>1, <2>1 DEF HomesRight, There
    <2>5. scene.restore # None => home'[scene.restore] # None
      BY <1>3, <2>1, SceneRight DEF HomesRight
    <2>. QED
      BY <2>2, <2>3, <2>4, <2>5 DEF HomesRight, There
  <1>6. \A q \in Rescuers : StillMover(q)
    BY <1>1, SendsOf DEF StillMover
  <1>. QED
    BY <1>1, <1>2, <1>4, <1>5, <1>6, RescuesKept DEF PlacementInv

LEMMA MigrateInv ==
    ASSUME PlacementInv, migrate
    PROVE  PlacementInv'
  <1>. DEFINE b == scene.migrate[1]
              to == scene.migrate[2]
              m == [Resting EXCEPT !.pc = "mgExport", !.bot = b, !.from = home[b], !.to = to]
  <1>1. /\ scene.migrate # << >> /\ mover["migration"].pc = "off" /\ home[b] # None
        /\ mover' = [mover EXCEPT !["migration"] = m]
    BY DEF migrate
  <1>2. UNCHANGED <<scene, home, box, wire, link, agentUp, items, event, mixed, hitches, removed>>
    BY DEF migrate, ground, rescue
  <1>3. b \in Bots /\ to \in Hosts /\ home[b] \in Hosts
    BY <1>1, SceneRight DEF PlacementInv, GroundRight, HomesRight
  <1>4. m \in MoverRows /\ m.pc = "mgExport" /\ m.wait = FALSE /\ m.bot = b /\ m.from = home[b] /\ m.to = to
    <2>1. Resting \in MoverRows /\ Resting.wait = FALSE
      BY RestingRight DEF RowRight, Resting, Movers
    <2>2. m \in MoverRows
      BY <1>3, <2>1 DEF MoverRows, Places, MigrationPlaces
    <2>. QED
      BY <2>1, <2>2 DEF MoverRows
  <1>5. "migration" \in Movers /\ "migration" \notin Rescuers
    BY SendsOf DEF Rescuers
  <1>. HIDE DEF m
  <1>6. RowRight("migration", m)
    BY <1>3, <1>4, <1>5, SendsOf DEF RowRight, AimRight, MigrationPlaces
  <1>7. GroundRight'
    BY <1>2 DEF PlacementInv, GroundRight
  <1>8. ~mover["migration"].wait
    BY <1>1, <1>5, NotWaiting DEF PlacementInv
  <1>. QED
    BY <1>1, <1>2, <1>4, <1>5, <1>6, <1>7, <1>8, StepInv

LEMMA MigrationReassignsInv ==
    ASSUME PlacementInv, MigrationReassigns
    PROVE  PlacementInv'
  <1>1. mover["migration"].pc = "mgReassign" /\ UNCHANGED <<scene, box, wire, link, agentUp, items, event, mixed, removed>>
    BY DEF MigrationReassigns, ground, rescue
  <1>2. "migration" \in Movers /\ "migration" \notin Rescuers
    BY SendsOf DEF Rescuers
  <1>3. ~mover["migration"].wait
    BY <1>1, <1>2, NotWaiting DEF PlacementInv
  <1>4. CASE home' = [home EXCEPT ![mover["migration"].bot] = mover["migration"].to]
             /\ mover' = [mover EXCEPT !["migration"] = Resting] /\ hitches' = hitches
    <2>1. GroundRight'
      BY <1>1, <1>4 DEF PlacementInv, GroundRight
    <2>2. RowRight("migration", Resting) /\ Resting \in MoverRows /\ Resting.pc = "off"
      BY <1>2, RestingRight DEF RowRight, Resting
    <2>. QED
      BY <1>1, <1>2, <1>3, <1>4, <2>1, <2>2, StepInv
  <1>5. CASE home' = home /\ hitches < MaxFaults /\ hitches' = hitches + 1
             /\ mover' = [mover EXCEPT !["migration"] = GoOn("migration", "mgUndo")]
    <2>. DEFINE m == GoOn("migration", "mgUndo")
    <2>1. GroundRight'
      BY <1>1, <1>5, SceneRight DEF PlacementInv, GroundRight
    <2>2. mover["migration"] \in MoverRows /\ RowRight("migration", mover["migration"])
      BY <1>2 DEF PlacementInv, RowsRight
    <2>3. /\ m \in MoverRows /\ m.pc = "mgUndo" /\ m.wait = FALSE /\ m.bot = mover["migration"].bot
          /\ m.from = mover["migration"].from /\ m.to = mover["migration"].to
      BY <2>2 DEF GoOn, MoverRows, Places, MigrationPlaces
    <2>. HIDE DEF m
    <2>4. RowRight("migration", m)
      BY <1>1, <1>2, <2>2, <2>3, SendsOf DEF RowRight, AimRight, MigrationPlaces
    <2>. QED
      BY <1>1, <1>2, <1>3, <1>5, <2>1, <2>3, <2>4, StepInv DEF m
  <1>. QED
    BY <1>4, <1>5 DEF MigrationReassigns, reassign

LEMMA RestoreInv ==
    ASSUME PlacementInv, restore
    PROVE  PlacementInv'
  <1>. DEFINE m == [Resting EXCEPT !.pc = "rsExport", !.bot = scene.restore, !.from = home[scene.restore]]
  <1>1. scene.restore # None /\ mover["restore"].pc = "off" /\ mover' = [mover EXCEPT !["restore"] = m]
    BY DEF restore
  <1>2. UNCHANGED <<scene, home, box, wire, link, agentUp, items, event, mixed, hitches, removed>>
    BY DEF restore, ground, rescue
  <1>3. scene.restore \in Bots /\ home[scene.restore] \in Hosts
    BY <1>1, SceneRight DEF PlacementInv, GroundRight, HomesRight
  <1>4. m \in MoverRows /\ m.pc = "rsExport" /\ m.wait = FALSE /\ m.bot = scene.restore /\ m.from = home[scene.restore]
    <2>1. Resting \in MoverRows /\ Resting.wait = FALSE
      BY RestingRight DEF RowRight, Resting, Movers
    <2>2. m \in MoverRows
      BY <1>3, <2>1 DEF MoverRows, Places, RestorePlaces
    <2>. QED
      BY <2>1, <2>2 DEF MoverRows
  <1>5. "restore" \in Movers /\ "restore" \notin Rescuers
    BY SendsOf DEF Rescuers
  <1>. HIDE DEF m
  <1>6. RowRight("restore", m)
    BY <1>3, <1>4, <1>5, SendsOf DEF RowRight, AimRight, RestorePlaces
  <1>7. GroundRight'
    BY <1>2 DEF PlacementInv, GroundRight
  <1>8. ~mover["restore"].wait
    BY <1>1, <1>5, NotWaiting DEF PlacementInv
  <1>. QED
    BY <1>1, <1>2, <1>4, <1>5, <1>6, <1>7, <1>8, StepInv

LEMMA DispatchInv ==
    ASSUME PlacementInv, dispatchEnvUpdate
    PROVE  PlacementInv'
  <1>. DEFINE m == [Resting EXCEPT !.pc = "cfUpdate", !.bot = scene.config, !.from = home[scene.config]]
  <1>1. /\ scene.config # None /\ home[scene.config] # None /\ mover["config"].pc = "off"
        /\ mover' = [mover EXCEPT !["config"] = m]
    BY DEF dispatchEnvUpdate
  <1>2. UNCHANGED <<scene, home, box, wire, link, agentUp, items, event, mixed, hitches, removed>>
    BY DEF dispatchEnvUpdate, ground, rescue
  <1>3. scene.config \in Bots /\ home[scene.config] \in Hosts
    BY <1>1, SceneRight DEF PlacementInv, GroundRight, HomesRight
  <1>4. m \in MoverRows /\ m.pc = "cfUpdate" /\ m.wait = FALSE /\ m.bot = scene.config /\ m.from = home[scene.config]
    <2>1. Resting \in MoverRows /\ Resting.wait = FALSE
      BY RestingRight DEF RowRight, Resting, Movers
    <2>2. m \in MoverRows
      BY <1>3, <2>1 DEF MoverRows, Places, ConfigPlaces
    <2>. QED
      BY <2>1, <2>2 DEF MoverRows
  <1>5. "config" \in Movers /\ "config" \notin Rescuers
    BY SendsOf DEF Rescuers
  <1>. HIDE DEF m
  <1>6. RowRight("config", m)
    BY <1>3, <1>4, <1>5, SendsOf DEF RowRight, AimRight, ConfigPlaces
  <1>7. GroundRight'
    BY <1>2 DEF PlacementInv, GroundRight
  <1>8. ~mover["config"].wait
    BY <1>1, <1>5, NotWaiting DEF PlacementInv
  <1>. QED
    BY <1>1, <1>2, <1>4, <1>5, <1>6, <1>7, <1>8, StepInv

\* SetToSeq lists a finite set.
LEMMA ListOf ==
    ASSUME NEW S, IsFiniteSet(S)
    PROVE  /\ Cardinality(S) \in Nat /\ SetToSeq(S) \in [1..Cardinality(S) -> S]
           /\ \A x \in S : \E i \in 1..Cardinality(S) : SetToSeq(S)[i] = x
  <1>. DEFINE n == Cardinality(S)
  <1>1. n \in Nat /\ \E f \in Bijection(1..n, S) : TRUE
    BY FS_CardinalityType DEF ExistsBijection
  <1>2. PICK f \in [1..n -> S] : IsInjective(f)
    BY <1>1 DEF Bijection, Injection
  <1>3. SetToSeq(S) \in [1..n -> S] /\ IsInjective(SetToSeq(S))
    BY <1>2 DEF SetToSeq
  <1>4. SetToSeq(S) \in Injection(1..n, S)
    BY <1>3 DEF Injection
  <1>5. Cardinality(1..n) = Cardinality(S)
    BY <1>1, FS_Interval
  <1>6. SetToSeq(S) \in Surjection(1..n, S)
    BY <1>4, <1>5, FS_Injection
  <1>7. \A x \in S : \E i \in 1..n : SetToSeq(S)[i] = x
    BY <1>6 DEF Surjection
  <1>. QED
    BY <1>1, <1>3, <1>7

\* The work a list of bots makes
LEMMA WorkOf ==
    ASSUME NEW S, S \subseteq Bots, NEW todo,
           todo = [i \in 1..Cardinality(S) |-> [bot |-> SetToSeq(S)[i], entry |-> 0]]
    PROVE  todo \in Seq(Works) /\ \A i \in 1..Len(todo) : todo[i].entry = 0
  <1>1. IsFiniteSet(S)
    BY PlacementAssumption, FS_Subset
  <1>2. Cardinality(S) \in Nat /\ SetToSeq(S) \in [1..Cardinality(S) -> S]
    BY <1>1, ListOf
  <1>3. \A i \in 1..Cardinality(S) : [bot |-> SetToSeq(S)[i], entry |-> 0] \in Works
    BY <1>2 DEF Works
  <1>4. todo \in Seq(Works) /\ Len(todo) = Cardinality(S)
    BY <1>2, <1>3
  <1>. QED
    BY <1>4

LEMMA CleanInv ==
    ASSUME PlacementInv, clean
    PROVE  PlacementInv'
  <1>. DEFINE n == scene.comes
              orphans == {b \in reported(n) : home[b] # n}
              todo == [i \in 1..Cardinality(orphans) |-> [bot |-> SetToSeq(orphans)[i], entry |-> 0]]
              m == [Resting EXCEPT !.pc = "clNext", !.from = n, !.todo = todo]
  <1>1. scene.comes # None /\ mover["cleaner"].pc = "off" /\ mover' = [mover EXCEPT !["cleaner"] = m]
    BY DEF clean
  <1>2. UNCHANGED <<scene, home, box, wire, link, agentUp, items, event, mixed, hitches, removed>>
    BY DEF clean, ground, rescue
  <1>3. n \in Hosts /\ orphans \subseteq Bots
    BY <1>1, SceneRight DEF PlacementInv, GroundRight, reported
  <1>4. todo \in Seq(Works)
    BY <1>3, WorkOf
  <1>5. m \in MoverRows /\ m.pc = "clNext" /\ m.wait = FALSE /\ m.from = n
    <2>. HIDE DEF todo
    <2>1. Resting \in MoverRows /\ Resting.wait = FALSE
      BY RestingRight DEF RowRight, Resting, Movers
    <2>2. m \in MoverRows
      BY <1>3, <1>4, <2>1 DEF MoverRows, Places, CleanerPlaces
    <2>. QED
      BY <2>1, <2>2 DEF MoverRows
  <1>6. "cleaner" \in Movers /\ "cleaner" \notin Rescuers
    BY SendsOf DEF Rescuers
  <1>. HIDE DEF m
  <1>7. RowRight("cleaner", m)
    BY <1>3, <1>5, <1>6, SendsOf DEF RowRight, AimRight, CleanerPlaces
  <1>8. GroundRight'
    BY <1>2 DEF PlacementInv, GroundRight
  <1>9. ~mover["cleaner"].wait
    BY <1>1, <1>6, NotWaiting DEF PlacementInv
  <1>. QED
    BY <1>1, <1>2, <1>5, <1>6, <1>7, <1>8, <1>9, StepInv

LEMMA CleanNextInv ==
    ASSUME PlacementInv, CleanNext
    PROVE  PlacementInv'
  <1>. DEFINE old == mover["cleaner"]
              next == [old EXCEPT !.pc = "clStop", !.bot = Head(old.todo).bot, !.todo = Tail(old.todo)]
              m == IF old.todo = << >> THEN Resting ELSE next
  <1>1. "cleaner" \in Movers /\ "cleaner" \notin Rescuers
    BY SendsOf DEF Rescuers
  <1>2. old \in MoverRows /\ RowRight("cleaner", old)
    BY <1>1 DEF PlacementInv, RowsRight
  <1>3. old.pc = "clNext"
    BY DEF CleanNext
  <1>4. mover' = [mover EXCEPT !["cleaner"] = m]
    BY DEF CleanNext
  <1>5. UNCHANGED <<scene, home, box, wire, link, agentUp, items, event, mixed, hitches, removed>>
    BY DEF CleanNext, ground, rescue
  <1>6. ~old.wait
    BY <1>1, <1>3, NotWaiting DEF PlacementInv
  <1>7. m \in MoverRows /\ RowRight("cleaner", m) /\ m.pc \in CleanerPlaces
    <2>1. CASE old.todo = << >>
      BY <1>1, <2>1, RestingRight, SendsOf DEF RowRight
    <2>2. CASE old.todo # << >>
      <3>1. old.todo \in Seq(Works)
        BY <1>2 DEF MoverRows
      <3>2. Head(old.todo) \in Works /\ Tail(old.todo) \in Seq(Works)
        BY <2>2, <3>1
      <3>3. Head(old.todo).bot \in Bots
        BY <3>2 DEF Works
      <3>4. next \in MoverRows
        BY <1>2, <3>2, <3>3 DEF MoverRows, Places, CleanerPlaces
      <3>5. next.pc = "clStop" /\ next.bot = Head(old.todo).bot /\ next.from = old.from /\ next.wait = old.wait
        BY <1>2 DEF MoverRows
      <3>. HIDE DEF next
      <3>6. RowRight("cleaner", next)
        BY <1>1, <1>2, <1>3, <1>6, <3>3, <3>4, <3>5, SendsOf DEF RowRight, AimRight, CleanerPlaces
      <3>. QED
        BY <2>2, <3>4, <3>5, <3>6 DEF CleanerPlaces
    <2>. QED
      BY <2>1, <2>2
  <1>. HIDE DEF m
  <1>8. GroundRight'
    BY <1>5 DEF PlacementInv, GroundRight
  <1>9. m.pc \notin {"rcReassign", "mgReassign"}
    BY <1>7 DEF CleanerPlaces
  <1>. QED
    BY <1>1, <1>4, <1>5, <1>6, <1>7, <1>8, <1>9, StepInv

LEMMA RecoveryFailedInv ==
    ASSUME PlacementInv, NEW p \in Rescuers, RecoveryFailed(p)
    PROVE  PlacementInv'
  <1>. DEFINE next == IF mover[p].flag /\ scene.keeper = "orchestrator" THEN "rcRemove" ELSE "rcItem"
              m == [mover[p] EXCEPT !.pc = next, !.wait = FALSE, !.out = "failed"]
  <1>1. p \in Movers /\ mover[p] \in MoverRows /\ RowRight(p, mover[p])
    BY SendsOf DEF PlacementInv, RowsRight
  <1>2. mover[p].pc = "rcFailed" /\ mover' = [mover EXCEPT ![p] = [GoOn(p, next) EXCEPT !.out = "failed"]]
    BY DEF RecoveryFailed
  <1>3. [GoOn(p, next) EXCEPT !.out = "failed"] = m
    BY DEF GoOn
  <1>4. UNCHANGED <<scene, home, box, wire, link, agentUp, items, event, mixed, hitches, removed>>
    BY DEF RecoveryFailed, ground, rescue
  <1>5. ~mover[p].wait
    BY <1>1, <1>2, NotWaiting DEF PlacementInv
  <1>6. next \in {"rcRemove", "rcItem"}
    OBVIOUS
  <1>. HIDE DEF next
  <1>7. m \in MoverRows
    BY <1>1, <1>6 DEF MoverRows, Places, RescuePlaces, Outs
  <1>8. /\ m.pc = next /\ m.wait = FALSE /\ m.out = "failed" /\ m.bot = mover[p].bot /\ m.to = mover[p].to
        /\ m.todo = mover[p].todo /\ m.known = mover[p].known
        /\ m.entry = mover[p].entry /\ m.item = mover[p].item /\ m.waiting = mover[p].waiting
    BY <1>1 DEF MoverRows
  <1>. HIDE DEF m
  <1>9. RowRight(p, m)
    <2>1. mover[p].bot \in Bots /\ mover[p].to \in Hosts \ {scene.dead}
      BY <1>1, <1>2 DEF RowRight, AimRight, Aiming
    <2>2. AimRight(p, m)
      BY <1>6, <1>8, <2>1 DEF AimRight, Aiming, Rescuers, None
    <2>3. m.pc \in RescuePlaces /\ PlacesOf(p) = RescuePlaces
      BY <1>6, <1>8, SendsOf DEF RescuePlaces
    <2>. QED
      BY <1>7, <1>8, <2>2, <2>3 DEF RowRight
  <1>10. mover'[p] = m
    BY <1>1, <1>2, <1>3 DEF PlacementInv, RowsRight
  <1>11. StillMover(p)
    BY <1>2, <1>6, <1>8, <1>10 DEF StillMover
  <1>12. GroundRight'
    BY <1>4 DEF PlacementInv, GroundRight
  <1>. QED
    BY <1>1, <1>2, <1>3, <1>4, <1>5, <1>6, <1>7, <1>8, <1>9, <1>11, <1>12, StepInv

LEMMA ReassignTenantInv ==
    ASSUME PlacementInv, NEW p \in Rescuers, ReassignTenant(p)
    PROVE  PlacementInv'
  <1>1. p \in Movers /\ mover[p] \in MoverRows /\ RowRight(p, mover[p])
    BY SendsOf DEF PlacementInv, RowsRight
  <1>2. /\ mover[p].pc = "rcReassign" /\ home' = [home EXCEPT ![mover[p].bot] = mover[p].to]
        /\ \/ mover' = [mover EXCEPT ![p] = GoOn(p, "rcItem")] /\ hitches' = hitches
           \/ mover' = [mover EXCEPT ![p] = GoOn(p, "rcFailed")] /\ hitches < MaxFaults /\ hitches' = hitches + 1
    BY DEF ReassignTenant, reassign
  <1>3. UNCHANGED <<scene, box, wire, link, agentUp, items, event, mixed, removed>>
    BY DEF ReassignTenant, ground, rescue
  <1>4. ~mover[p].wait
    BY <1>1, <1>2, NotWaiting DEF PlacementInv
  <1>5. GroundRight'
    BY <1>2, <1>3, SceneRight DEF PlacementInv, GroundRight
  <1>6. ASSUME NEW next \in {"rcItem", "rcFailed"}, mover' = [mover EXCEPT ![p] = GoOn(p, next)]
        PROVE  PlacementInv'
    <2>. DEFINE m == GoOn(p, next)
    <2>1. m \in MoverRows
      BY <1>1 DEF GoOn, MoverRows, Places, RescuePlaces
    <2>2. /\ m.pc = next /\ m.wait = FALSE /\ m.out = mover[p].out /\ m.bot = mover[p].bot /\ m.to = mover[p].to
          /\ m.todo = mover[p].todo /\ m.known = mover[p].known
          /\ m.entry = mover[p].entry /\ m.item = mover[p].item /\ m.waiting = mover[p].waiting
      BY <1>1 DEF GoOn, MoverRows
    <2>3. mover' = [mover EXCEPT ![p] = m]
      BY <1>6
    <2>. HIDE DEF m
    <2>4. RowRight(p, m)
      BY <1>1, <1>2, <2>1, <2>2, SendsOf DEF RowRight, AimRight, Aiming, RescuePlaces, Rescuers
    <2>5. mover'[p] = m
      BY <1>1, <2>3 DEF PlacementInv, RowsRight
    <2>6. StillMover(p)
      BY <1>2, <2>2, <2>5 DEF StillMover
    <2>. QED
      BY <1>1, <1>2, <1>3, <1>4, <1>5, <2>1, <2>2, <2>3, <2>4, <2>6, StepInv
  <1>. QED
    BY <1>2, <1>6

\* A turn of a rescue between its commands: what it leaves right by itself
LEMMA TurnKept ==
    ASSUME PlacementInv, UNCHANGED <<scene, home, box, removed, wire>>,
           NEW p \in Rescuers, mover[p].pc \in {"off", "rcNext", "rcItem", "rcClose"},
           NEW m, RowRight(p, m), mover' = [mover EXCEPT ![p] = m], m.pc \notin {"rcReassign", "mgReassign"}
    PROVE  /\ RowsRight' /\ WireRight' /\ HomesRight'
           /\ mover'[p] = m /\ \A q \in Movers \ {p} : mover'[q] = mover[q]
  <1>1. p \in Movers /\ m \in MoverRows
    BY SendsOf DEF RowRight
  <1>2. ~mover[p].wait
    BY <1>1, NotWaiting DEF PlacementInv
  <1>3. RowsRight' /\ mover'[p] = m /\ \A q \in Movers \ {p} : mover'[q] = mover[q]
    BY <1>1, RowsKept DEF PlacementInv
  <1>4. WireRight'
    BY <1>2, <1>3, WireKept DEF PlacementInv
  <1>5. HomesRight'
    <2>1. NothingLost
      BY DEF NothingLost, There
    <2>. QED
      BY <1>3, <2>1, HomesKept DEF PlacementInv
  <1>. QED
    BY <1>3, <1>4, <1>5

\* The entries of a rescue that does not move, while items are added or closed
LEMMA EntryKept ==
    ASSUME EntriesRight, ItemsRight, NEW q \in Rescuers, mover'[q] = mover[q], UNCHANGED <<scene, home>>,
           items' \in Seq(ItemRows), Len(items) <= Len(items'),
           \A k \in 1..Len(items) : items'[k].bot = items[k].bot
    PROVE  EntryRight(q, mover[q])'
  <1>1. EntryRight(q, mover[q]) /\ Len(items) \in Nat /\ Len(items') \in Nat
    BY DEF EntriesRight, ItemsRight
  <1>2. getTenants' = getTenants
    BY DEF getTenants
  <1>3. ASSUME NEW j \in 1..Len(mover[q].todo)
        PROVE  /\ mover[q].todo[j].entry \in 0..Len(items')
               /\ mover[q].todo[j].entry # 0 =>
                    q = "retry" /\ items'[mover[q].todo[j].entry].bot = mover[q].todo[j].bot
    <2>1. /\ mover[q].todo[j].entry \in 0..Len(items)
          /\ mover[q].todo[j].entry # 0 =>
               q = "retry" /\ items[mover[q].todo[j].entry].bot = mover[q].todo[j].bot
      BY <1>1 DEF EntryRight
    <2>. QED
      BY <1>1, <2>1
  <1>. QED
    BY <1>1, <1>2, <1>3 DEF EntryRight

\* One rescue at a time, unless they are mixed
LEMMA Alone ==
    ASSUME PlacementInv, NEW p \in Rescuers, mover[p].pc # "off"
    PROVE  /\ event.status # None
           /\ ~mixed => \A q \in Rescuers \ {p} : mover[q].pc = "off"
  BY DEF PlacementInv, ItemsRight, RescueRight, Rescuing, Rescuers

LEMMA NextTenantInv ==
    ASSUME PlacementInv, NEW p \in Rescuers, NextTenant(p)
    PROVE  PlacementInv'
  <1>. DEFINE old == mover[p]
              task == Head(old.todo)
              begun == [old EXCEPT !.bot = task.bot, !.entry = task.entry, !.todo = Tail(old.todo), !.flag = FALSE]
              waits == [begun EXCEPT !.pc = "rcItem", !.out = "waiting", !.to = None]
              starts(n) == [begun EXCEPT !.pc = "rcDownload", !.out = "recovered", !.to = n]
              drops == [old EXCEPT !.failed = old.failed + 1, !.todo = Tail(old.todo)]
  <1>1. p \in Movers /\ old \in MoverRows /\ RowRight(p, old) /\ EntryRight(p, old)
    BY SendsOf DEF PlacementInv, RowsRight, EntriesRight
  <1>2. old.pc = "rcNext" /\ old.todo # << >> /\ old.entry = 0 /\ old.item = 0
    BY <1>1 DEF NextTenant, EntryRight
  <1>3. old.todo \in Seq(Works)
    BY <1>1 DEF MoverRows
  <1>4. /\ Tail(old.todo) \in Seq(Works) /\ Len(Tail(old.todo)) = Len(old.todo) - 1 /\ Len(old.todo) \in Nat \ {0}
        /\ \A j \in 1..Len(Tail(old.todo)) : Tail(old.todo)[j] = old.todo[j + 1]
        /\ task = old.todo[1] /\ task \in Works
    BY <1>2, <1>3
  <1>5. UNCHANGED <<scene, home, box, wire, link, agentUp, items, event, mixed, hitches, removed>>
    BY DEF NextTenant, ground, rescue
  <1>6. task.bot \in Bots /\ task.entry \in Nat
    BY <1>4 DEF Works
  <1>7. ~old.wait
    BY <1>1, <1>2, NotWaiting DEF PlacementInv
  \* A row that goes on with the rest of the list
  <1>8. ASSUME NEW m, RowRight(p, m), mover' = [mover EXCEPT ![p] = m],
               m.pc \in {"rcNext", "rcItem", "rcDownload"},
               m.todo = Tail(old.todo), m.known = old.known, m.item = old.item, m.waiting = old.waiting,
               \/ m.pc # "rcNext" /\ m.entry = task.entry
               \/ m.pc = "rcNext" /\ m.entry = 0 /\ ~Present(p, task)
        PROVE  PlacementInv'
    <2>1. /\ RowsRight' /\ WireRight' /\ HomesRight'
          /\ mover'[p] = m /\ \A q \in Movers \ {p} : mover'[q] = mover[q]
      BY <1>2, <1>5, <1>8, TurnKept
    <2>2. GroundRight'
      BY <1>5 DEF PlacementInv, GroundRight
    <2>3. event.status # None /\ (~mixed => \A q \in Rescuers \ {p} : mover[q].pc = "off")
      BY <1>2, Alone
    <2>4. ItemsRight'
      BY <1>5, <2>3 DEF PlacementInv, ItemsRight
    <2>5. Len(items) \in Nat /\ items \in Seq(ItemRows) /\ Rescuers \subseteq Movers
      BY SendsOf DEF PlacementInv, ItemsRight
    <2>6. EntriesRight'
      <3>1. ASSUME NEW q \in Rescuers \ {p} PROVE EntryRight(q, mover[q])'
        BY <1>5, <2>1, <2>5, EntryKept DEF PlacementInv
      <3>2. EntryRight(p, mover[p])'
        <4>1. task.entry \in 0..Len(items)
          BY <1>1, <1>4 DEF EntryRight
        <4>2. ASSUME NEW j \in 1..Len(m.todo)
              PROVE  /\ m.todo[j].entry \in 0..Len(items)
                     /\ m.todo[j].entry # 0 => p = "retry" /\ items[m.todo[j].entry].bot = m.todo[j].bot
          <5>1. m.todo[j] = old.todo[j + 1] /\ j + 1 \in 1..Len(old.todo)
            BY <1>4, <1>8
          <5>. QED
            BY <1>1, <5>1 DEF EntryRight
        <4>3. p = "retry" => getTenants \subseteq m.known
          BY <1>1, <1>2, <1>8 DEF EntryRight
        <4>4. getTenants' = getTenants
          BY <1>5 DEF getTenants
        <4>. QED
          <5>1. m.pc \notin {"off", "rcClose"} /\ m.item = 0 /\ (m.pc = "rcNext" => m.entry = 0) /\ m.entry \in 0..Len(items)
            BY <1>2, <1>8, <2>5, <4>1
          <5>. QED
            BY <1>5, <2>1, <4>2, <4>3, <4>4, <5>1 DEF EntryRight
      <3>. QED
        BY <3>1, <3>2 DEF EntriesRight
    <2>7. RescueRight'
      <3>. SUFFICES ASSUME ~mixed PROVE RescueRight'
        BY <1>5 DEF RescueRight
      <3>1. Owing' = Owing
        BY <1>5 DEF Owing, getWaitingItems
      <3>2. \A q \in Rescuers : Rescuing(q)' = Rescuing(q)
        BY <1>2, <1>8, <2>1, <2>5 DEF Rescuing, Rescuers
      <3>3. ASSUME NEW i \in Owing PROVE Accounted(m, i)
        <4>1. i \in 1..Len(items) /\ home[items[i].bot] = scene.dead /\ i # 0
          BY <2>5 DEF Owing, getWaitingItems
        <4>2. Accounted(old, i)
          BY <1>2, <3>3 DEF PlacementInv, RescueRight, Rescuing, Rescuers
        <4>3. old.waiting > 0 \/ \E j \in 1..Len(old.todo) : old.todo[j].entry = i
          BY <1>2, <4>1, <4>2 DEF Accounted
        <4>4. ASSUME NEW j \in 1..Len(old.todo), old.todo[j].entry = i PROVE Accounted(m, i)
          <5>1. CASE j = 1
            <6>1. task.entry = i /\ items[i].bot = task.bot /\ p = "retry"
              BY <1>1, <1>4, <4>1, <4>4, <5>1 DEF EntryRight
            <6>2. Present(p, task)
              BY <1>1, <1>2, <1>6, <4>1, <6>1, SceneRight
              DEF Present, listedAtStart, findByTenantAndNode, EntryRight, getTenants, PlacementInv, GroundRight
            <6>. QED
              BY <1>8, <6>1, <6>2 DEF Accounted
          <5>2. CASE j # 1
            <6>1. j - 1 \in 1..Len(m.todo) /\ m.todo[j - 1] = old.todo[j]
              BY <1>4, <1>8, <5>2
            <6>. QED
              BY <4>4, <6>1 DEF Accounted
          <5>. QED
            BY <5>1, <5>2
        <4>. QED
          BY <1>8, <4>3, <4>4 DEF Accounted
      <3>4. ASSUME NEW q \in Rescuers, Rescuing(q)' PROVE q = p
        BY <2>3, <3>2, <3>4 DEF Rescuing
      <3>5. \A i \in Owing' : Accounted(mover[p], i)'
        BY <1>5, <2>1, <3>1, <3>3 DEF Accounted
      <3>6. Rescuing(p)'
        BY <1>8, <2>1 DEF Rescuing, Rescuers
      <3>. QED
        BY <3>4, <3>5, <3>6 DEF RescueRight, Rescuers
    <2>. QED
      BY <2>1, <2>2, <2>4, <2>6, <2>7 DEF PlacementInv
  <1>9. begun \in MoverRows /\ begun.wait = old.wait
    BY <1>1, <1>4, <1>6 DEF MoverRows
  <1>10. CASE Present(p, task) /\ mover' = [mover EXCEPT ![p] = waits]
    <2>1. waits \in MoverRows
      BY <1>9 DEF MoverRows, Places, RescuePlaces, Outs
    <2>2. /\ waits.pc = "rcItem" /\ waits.bot = task.bot /\ waits.wait = FALSE /\ waits.out = "waiting"
          /\ waits.todo = Tail(old.todo) /\ waits.known = old.known /\ waits.item = old.item
          /\ waits.waiting = old.waiting /\ waits.entry = task.entry
      BY <1>1, <1>7 DEF MoverRows
    <2>. HIDE DEF waits
    <2>3. AimRight(p, waits)
      BY <1>6, <2>2 DEF AimRight, Aiming, Rescuers, None
    <2>4. RowRight(p, waits)
      BY <2>1, <2>2, <2>3, SendsOf DEF RowRight, RescuePlaces
    <2>. QED
      BY <1>8, <1>10, <2>2, <2>4
  <1>11. ASSUME Present(p, task), NEW n \in findBestTarget(scene.dead), mover' = [mover EXCEPT ![p] = starts(n)]
         PROVE  PlacementInv'
    <2>. DEFINE m == starts(n)
    <2>1. n \in Hosts \ {scene.dead}
      BY DEF findBestTarget, Serving
    <2>2. m \in MoverRows
      BY <1>9, <2>1 DEF MoverRows, Places, RescuePlaces, Outs
    <2>3. /\ m.pc = "rcDownload" /\ m.bot = task.bot /\ m.wait = FALSE /\ m.out = "recovered" /\ m.to = n
          /\ m.todo = Tail(old.todo) /\ m.known = old.known /\ m.item = old.item
          /\ m.waiting = old.waiting /\ m.entry = task.entry
      BY <1>1, <1>7 DEF MoverRows
    <2>4. mover' = [mover EXCEPT ![p] = m]
      BY <1>11
    <2>. HIDE DEF m
    <2>5. AimRight(p, m)
      BY <1>6, <2>1, <2>3 DEF AimRight, Aiming, Rescuers, None
    <2>6. RowRight(p, m)
      BY <2>2, <2>3, <2>5, SendsOf DEF RowRight, RescuePlaces
    <2>. QED
      BY <1>8, <2>3, <2>4, <2>6
  <1>12. CASE ~Present(p, task) /\ mover' = [mover EXCEPT ![p] = drops]
    <2>1. drops \in MoverRows
      <3>1. old.failed + 1 \in Nat
        BY <1>1 DEF MoverRows
      <3>2. \A f \in Nat, t \in Seq(Works) : [old EXCEPT !.failed = f, !.todo = t] \in MoverRows
        BY <1>1 DEF MoverRows
      <3>. QED
        BY <1>4, <3>1, <3>2
    <2>2. /\ drops.pc = "rcNext" /\ drops.wait = FALSE
          /\ drops.todo = Tail(old.todo) /\ drops.known = old.known /\ drops.item = old.item
          /\ drops.waiting = old.waiting /\ drops.entry = 0
      <3>1. /\ drops.pc = old.pc /\ drops.wait = old.wait /\ drops.todo = Tail(old.todo) /\ drops.known = old.known
            /\ drops.item = old.item /\ drops.waiting = old.waiting /\ drops.entry = old.entry
        BY <1>1 DEF MoverRows
      <3>2. old.wait = FALSE
        BY <1>1, <1>7 DEF MoverRows
      <3>. HIDE DEF drops, old
      <3>. QED
        BY <1>2, <3>1, <3>2
    <2>. HIDE DEF drops
    <2>3. AimRight(p, drops)
      BY <2>2 DEF AimRight, Aiming, Rescuers
    <2>4. RowRight(p, drops)
      BY <2>1, <2>2, <2>3, SendsOf DEF RowRight, RescuePlaces
    <2>. QED
      BY <1>8, <1>12, <2>2, <2>4
  <1>13. \/ Present(p, task) /\ mover' = [mover EXCEPT ![p] = waits]
         \/ Present(p, task) /\ \E n \in findBestTarget(scene.dead) : mover' = [mover EXCEPT ![p] = starts(n)]
         \/ ~Present(p, task) /\ mover' = [mover EXCEPT ![p] = drops]
    BY DEF NextTenant, recoverTenant
  <1>. HIDE DEF waits, starts, drops
  <1>. QED
    BY <1>10, <1>11, <1>12, <1>13

\* Owing after a turn that adds or closes items: what the rescue at work must account for
LEMMA TurnDone ==
    ASSUME PlacementInv, UNCHANGED <<scene, home, box, removed, wire, link, agentUp, hitches, event, mixed>>,
           NEW p \in Rescuers, mover[p].pc \in {"rcNext", "rcItem", "rcClose"},
           NEW m, RowRight(p, m), mover' = [mover EXCEPT ![p] = m], m.pc \in {"rcNext", "rcItem", "rcClose"},
           items' \in Seq(ItemRows), Len(items) <= Len(items'), Len(items') <= MaxItems,
           \A k \in 1..Len(items) : items'[k].bot = items[k].bot,
           m.todo = mover[p].todo, m.known = mover[p].known,
           m.pc = "rcNext" => m.entry = 0,
           IF m.pc = "rcClose" THEN m.item \in 1..Len(items') ELSE m.item = 0,
           m.entry \in 0..Len(items'),
           ~mixed => \A i \in Owing' : Accounted(m, i)
    PROVE  PlacementInv'
  <1>1. /\ RowsRight' /\ WireRight' /\ HomesRight'
        /\ mover'[p] = m /\ \A q \in Movers \ {p} : mover'[q] = mover[q]
    BY TurnKept
  <1>2. GroundRight'
    BY DEF PlacementInv, GroundRight
  <1>3. event.status # None /\ (~mixed => \A q \in Rescuers \ {p} : mover[q].pc = "off")
    BY Alone
  <1>4. ItemsRight'
    BY <1>3 DEF ItemsRight
  <1>5. Len(items) \in Nat /\ Len(items') \in Nat /\ Rescuers \subseteq Movers
    BY SendsOf DEF PlacementInv, ItemsRight
  <1>6. EntriesRight'
    <2>1. ASSUME NEW q \in Rescuers \ {p} PROVE EntryRight(q, mover[q])'
      BY <1>1, <1>5, EntryKept DEF PlacementInv
    <2>2. EntryRight(p, mover[p])'
      <3>1. EntryRight(p, mover[p])
        BY DEF PlacementInv, EntriesRight
      <3>2. ASSUME NEW j \in 1..Len(m.todo)
            PROVE  /\ m.todo[j].entry \in 0..Len(items')
                   /\ m.todo[j].entry # 0 => p = "retry" /\ items'[m.todo[j].entry].bot = m.todo[j].bot
        <4>1. /\ m.todo[j].entry \in 0..Len(items)
              /\ m.todo[j].entry # 0 => p = "retry" /\ items[m.todo[j].entry].bot = m.todo[j].bot
          BY <3>1 DEF EntryRight
        <4>. QED
          BY <1>5, <4>1
      <3>3. p = "retry" => getTenants \subseteq m.known
        BY <3>1 DEF EntryRight
      <3>4. getTenants' = getTenants
        BY DEF getTenants
      <3>. QED
        BY <1>1, <3>2, <3>3, <3>4 DEF EntryRight
    <2>. QED
      BY <2>1, <2>2 DEF EntriesRight
  <1>7. RescueRight'
    <2>. SUFFICES ASSUME ~mixed PROVE RescueRight'
      BY DEF RescueRight
    <2>1. \A q \in Rescuers : Rescuing(q)' = Rescuing(q)
      BY <1>1, <1>5 DEF Rescuing, Rescuers
    <2>2. ASSUME NEW q \in Rescuers, Rescuing(q)' PROVE q = p
      BY <1>3, <2>1, <2>2 DEF Rescuing
    <2>3. \A i \in Owing' : Accounted(mover[p], i)'
      BY <1>1 DEF Accounted
    <2>4. Rescuing(p)'
      BY <1>1 DEF Rescuing, Rescuers
    <2>. QED
      BY <2>2, <2>3, <2>4 DEF RescueRight, Rescuers
  <1>. QED
    BY <1>1, <1>2, <1>4, <1>6, <1>7 DEF PlacementInv

LEMMA CreateItemInv ==
    ASSUME PlacementInv, NEW p \in Rescuers, createItem(p)
    PROVE  PlacementInv'
  <1>. DEFINE old == mover[p]
              row == IF scene.keeper = "manager" THEN recordItem(old) ELSE newItem(old)
              m == [old EXCEPT !.pc = "rcClose", !.item = Len(items) + 1]
  <1>1. p \in Movers /\ old \in MoverRows /\ RowRight(p, old) /\ EntryRight(p, old) /\ ItemsRight
    BY SendsOf DEF PlacementInv, RowsRight, EntriesRight
  <1>2. /\ old.pc = "rcItem" /\ Len(items) < MaxItems /\ items' = Append(items, row)
        /\ mover' = [mover EXCEPT ![p] = m]
    BY DEF createItem
  <1>3. UNCHANGED <<scene, home, box, removed, wire, link, agentUp, hitches, event, mixed>>
    BY DEF createItem, ground
  <1>4. old.bot \in Bots /\ old.out \in Outs /\ old.out # None /\ old.entry \in 0..Len(items)
    BY <1>1, <1>2 DEF RowRight, AimRight, MoverRows, EntryRight
  <1>5. Len(items) \in Nat /\ MaxItems \in Nat /\ items \in Seq(ItemRows)
    BY <1>1, PlacementAssumption DEF ItemsRight
  <1>6. row \in ItemRows /\ row.bot = old.bot
    <2>1. old.entry # 0 => items[old.entry].tries + 1 \in Nat
      <3>. SUFFICES ASSUME old.entry # 0 PROVE items[old.entry].tries + 1 \in Nat
        OBVIOUS
      <3>1. items[old.entry] \in ItemRows
        BY <1>4, <1>5
      <3>. QED
        BY <3>1 DEF ItemRows
    <2>2. recordItem(old) \in ItemRows /\ recordItem(old).bot = old.bot
      BY <1>4, <2>1 DEF recordItem, ItemRows
    <2>3. newItem(old) \in ItemRows /\ newItem(old).bot = old.bot
      BY <1>4 DEF newItem, ItemRows, Outs
    <2>. QED
      BY <2>2, <2>3
  <1>. HIDE DEF row
  <1>7. /\ items' \in Seq(ItemRows) /\ Len(items') = Len(items) + 1
        /\ \A k \in 1..Len(items) : items'[k] = items[k]
    BY <1>2, <1>5, <1>6
  <1>8. m \in MoverRows
    <2>1. Len(items) + 1 \in Nat
      BY <1>5
    <2>2. \A i \in Nat : [old EXCEPT !.pc = "rcClose", !.item = i] \in MoverRows
      BY <1>1 DEF MoverRows, Places, RescuePlaces
    <2>. QED
      BY <2>1, <2>2
  <1>9. /\ m.pc = "rcClose" /\ m.item = Len(items) + 1 /\ m.wait = old.wait /\ m.out = old.out /\ m.bot = old.bot
        /\ m.todo = old.todo /\ m.known = old.known /\ m.entry = old.entry /\ m.waiting = old.waiting
    BY <1>1 DEF MoverRows
  <1>10. ~old.wait
    BY <1>1, <1>2, NotWaiting DEF PlacementInv
  <1>. HIDE DEF m
  <1>11. RowRight(p, m)
    <2>1. AimRight(p, m)
      BY <1>4, <1>9 DEF AimRight, Aiming, Rescuers
    <2>. QED
      BY <1>8, <1>9, <1>10, <2>1, SendsOf DEF RowRight, RescuePlaces
  <1>12. ~mixed => \A i \in Owing' : Accounted(m, i)
    <2>. SUFFICES ASSUME ~mixed, NEW i \in Owing' PROVE Accounted(m, i)
      OBVIOUS
    <2>1. i \in 1..Len(items') /\ items'[i].status = "waiting" /\ home[items'[i].bot] = scene.dead
      BY <1>3 DEF Owing, getWaitingItems
    <2>2. CASE i = Len(items) + 1
      BY <1>9, <2>2 DEF Accounted
    <2>3. CASE i # Len(items) + 1
      <3>1. i \in Owing /\ i # 0
        BY <1>5, <1>7, <2>1, <2>3 DEF Owing, getWaitingItems
      <3>2. Accounted(old, i)
        BY <1>2, <3>1 DEF PlacementInv, RescueRight, Rescuing, Rescuers
      <3>3. old.item = 0
        BY <1>1, <1>2 DEF EntryRight
      <3>. QED
        BY <1>9, <3>1, <3>2, <3>3 DEF Accounted
    <2>. QED
      BY <2>2, <2>3
  <1>13. /\ mover[p].pc \in {"rcNext", "rcItem", "rcClose"} /\ m.pc \in {"rcNext", "rcItem", "rcClose"}
         /\ items' \in Seq(ItemRows) /\ Len(items) <= Len(items') /\ Len(items') <= MaxItems
         /\ \A k \in 1..Len(items) : items'[k].bot = items[k].bot
         /\ m.todo = mover[p].todo /\ m.known = mover[p].known /\ m.entry \in 0..Len(items')
         /\ m.pc = "rcNext" => m.entry = 0
         /\ IF m.pc = "rcClose" THEN m.item \in 1..Len(items') ELSE m.item = 0
    BY <1>2, <1>4, <1>5, <1>7, <1>9
  <1>. QED
    BY <1>2, <1>3, <1>11, <1>12, <1>13, TurnDone

\* A retried item that is closed is the item of the same bot.
LEMMA ClosedItem ==
    ASSUME NEW x \in ItemRows, NEW out \in Outs
    PROVE  /\ closedByOrchestrator(x, out) \in ItemRows /\ closedByOrchestrator(x, out).bot = x.bot
           /\ out # "waiting" => closedByOrchestrator(x, out).status = out
           /\ closedByManager(x, out) \in ItemRows /\ closedByManager(x, out).bot = x.bot
           /\ closedByManager(x, out).status = "retried"
  <1>. DEFINE t == x.tries + 1
              s == IF out = "waiting" THEN x.status ELSE out
  <1>1. t \in Nat /\ s \in Outs \cup {"retried"}
    BY DEF ItemRows
  <1>2. /\ closedByOrchestrator(x, out) = [x EXCEPT !.tries = t, !.status = s]
        /\ closedByManager(x, out) = [x EXCEPT !.tries = t, !.status = "retried"]
    BY DEF closedByOrchestrator, closedByManager, ItemRows
  <1>. HIDE DEF t
  <1>3. \A u \in Outs \cup {"retried"} : LET y == [x EXCEPT !.tries = t, !.status = u] IN
            y \in ItemRows /\ y.bot = x.bot /\ y.status = u
    BY <1>1 DEF ItemRows
  <1>4. out # "waiting" => s = out
    OBVIOUS
  <1>. HIDE DEF s
  <1>5. LET y == [x EXCEPT !.tries = t, !.status = s] IN y \in ItemRows /\ y.bot = x.bot /\ y.status = s
    BY <1>1, <1>3
  <1>6. LET y == [x EXCEPT !.tries = t, !.status = "retried"] IN
          y \in ItemRows /\ y.bot = x.bot /\ y.status = "retried"
    BY <1>3
  <1>. QED
    BY <1>2, <1>4, <1>5, <1>6

LEMMA UpdateItemInv ==
    ASSUME PlacementInv, NEW p \in Rescuers, updateItem(p)
    PROVE  PlacementInv'
  <1>. DEFINE old == mover[p]
              fresh == [items EXCEPT ![old.item].status = old.out]
              m == [Reported(old) EXCEPT !.pc = "rcNext", !.item = 0, !.entry = 0, !.out = None]
  <1>1. p \in Movers /\ old \in MoverRows /\ RowRight(p, old) /\ EntryRight(p, old) /\ ItemsRight
    BY SendsOf DEF PlacementInv, RowsRight, EntriesRight
  <1>2. /\ old.pc = "rcClose"
        /\ \/ old.entry = 0 /\ items' = fresh
           \/ old.entry # 0 /\ items' = [fresh EXCEPT ![old.entry] = closedByOrchestrator(@, old.out)]
           \/ old.entry # 0 /\ items' = [fresh EXCEPT ![old.entry] = closedByManager(@, old.out)]
        /\ mover' = [mover EXCEPT ![p] = m]
    <2>1. /\ old.pc = "rcClose" /\ mover' = [mover EXCEPT ![p] = m]
          /\ items' = CASE old.entry = 0 -> fresh
                        [] old.entry # 0 /\ scene.keeper = "orchestrator" -> [fresh EXCEPT ![old.entry] = closedByOrchestrator(@, old.out)]
                        [] OTHER -> [fresh EXCEPT ![old.entry] = closedByManager(@, old.out)]
      BY DEF updateItem
    <2>. HIDE DEF fresh, m
    <2>2. CASE old.entry = 0
      BY <2>1, <2>2
    <2>3. CASE old.entry # 0 /\ scene.keeper = "orchestrator"
      BY <2>1, <2>3
    <2>4. CASE old.entry # 0 /\ scene.keeper # "orchestrator"
      BY <2>1, <2>4
    <2>. QED
      BY <2>1, <2>2, <2>3, <2>4
  <1>3. UNCHANGED <<scene, home, box, removed, wire, link, agentUp, hitches, event, mixed>>
    BY DEF updateItem, ground
  <1>4. /\ old.bot \in Bots /\ old.out \in {"recovered", "failed", "waiting"}
        /\ old.entry \in 0..Len(items) /\ old.item \in 1..Len(items)
    BY <1>1, <1>2 DEF RowRight, AimRight, MoverRows, EntryRight, Outs
  <1>5. Len(items) \in Nat /\ items \in Seq(ItemRows) /\ Len(items) <= MaxItems
    BY <1>1 DEF ItemsRight
  <1>6. /\ fresh \in Seq(ItemRows) /\ Len(fresh) = Len(items)
        /\ \A k \in 1..Len(items) : /\ fresh[k].bot = items[k].bot /\ fresh[k].tries = items[k].tries
                                    /\ fresh[k].status = IF k = old.item THEN old.out ELSE items[k].status
    <2>1. \A k \in 1..Len(items) : items[k] \in ItemRows
      BY <1>5
    <2>2. [items[old.item] EXCEPT !.status = old.out] \in ItemRows
      BY <1>4, <2>1 DEF ItemRows, Outs
    <2>3. fresh = [items EXCEPT ![old.item] = [items[old.item] EXCEPT !.status = old.out]]
      BY <1>4, <1>5
    <2>4. fresh \in Seq(ItemRows) /\ Len(fresh) = Len(items)
      BY <1>4, <1>5, <2>2, <2>3
    <2>5. ASSUME NEW k \in 1..Len(items)
          PROVE  /\ fresh[k].bot = items[k].bot /\ fresh[k].tries = items[k].tries
                 /\ fresh[k].status = IF k = old.item THEN old.out ELSE items[k].status
      <3>1. fresh[k] = IF k = old.item THEN [items[k] EXCEPT !.status = old.out] ELSE items[k]
        BY <1>4, <1>5, <2>3
      <3>2. items[k] \in ItemRows
        BY <2>1
      <3>. HIDE DEF fresh
      <3>. QED
        BY <3>1, <3>2 DEF ItemRows
    <2>. QED
      BY <2>4, <2>5
  <1>. HIDE DEF fresh
  <1>7. ASSUME old.entry # 0, NEW row \in ItemRows, row.bot = fresh[old.entry].bot,
               items' = [fresh EXCEPT ![old.entry] = row], old.out # "waiting" => row.status # "waiting"
        PROVE  /\ items' \in Seq(ItemRows) /\ Len(items') = Len(items)
               /\ \A k \in 1..Len(items) : /\ items'[k].bot = items[k].bot
                                           /\ old.out # "waiting" /\ items'[k].status = "waiting" =>
                                                k \notin {old.item, old.entry} /\ items[k].status = "waiting"
    <2>1. old.entry \in 1..Len(items)
      BY <1>4, <1>7
    <2>2. /\ items' \in Seq(ItemRows) /\ Len(items') = Len(items)
          /\ \A k \in 1..Len(items) : items'[k] = IF k = old.entry THEN row ELSE fresh[k]
      BY <1>5, <1>6, <1>7, <2>1
    <2>. QED
      BY <1>6, <1>7, <2>1, <2>2
  <1>8. /\ items' \in Seq(ItemRows) /\ Len(items') = Len(items)
        /\ \A k \in 1..Len(items) : /\ items'[k].bot = items[k].bot
                                    /\ old.out # "waiting" /\ items'[k].status = "waiting" =>
                                         k \notin {old.item, old.entry} /\ items[k].status = "waiting"
    <2>1. CASE old.entry = 0 /\ items' = fresh
      BY <1>5, <1>6, <2>1
    <2>2. CASE old.entry # 0 /\ items' = [fresh EXCEPT ![old.entry] = closedByOrchestrator(@, old.out)]
      <3>. DEFINE row == closedByOrchestrator(fresh[old.entry], old.out)
      <3>1. fresh[old.entry] \in ItemRows
        BY <1>4, <1>5, <1>6, <2>2
      <3>2. /\ row \in ItemRows /\ row.bot = fresh[old.entry].bot
            /\ old.out # "waiting" => row.status = old.out
        BY <1>4, <3>1, ClosedItem DEF Outs
      <3>3. items' = [fresh EXCEPT ![old.entry] = row]
        BY <2>2
      <3>. HIDE DEF row
      <3>. QED
        BY <1>7, <2>2, <3>2, <3>3
    <2>3. CASE old.entry # 0 /\ items' = [fresh EXCEPT ![old.entry] = closedByManager(@, old.out)]
      <3>. DEFINE row == closedByManager(fresh[old.entry], old.out)
      <3>1. fresh[old.entry] \in ItemRows
        BY <1>4, <1>5, <1>6, <2>3
      <3>2. row \in ItemRows /\ row.bot = fresh[old.entry].bot /\ row.status = "retried"
        BY <1>4, <3>1, ClosedItem DEF Outs
      <3>3. items' = [fresh EXCEPT ![old.entry] = row]
        BY <2>3
      <3>. HIDE DEF row
      <3>. QED
        BY <1>7, <2>3, <3>2, <3>3
    <2>. QED
      BY <1>2, <2>1, <2>2, <2>3
  <1>9. /\ m \in MoverRows /\ m.pc = "rcNext" /\ m.item = 0 /\ m.entry = 0 /\ m.wait = old.wait
        /\ m.todo = old.todo /\ m.known = old.known
        /\ m.waiting = old.waiting + (IF old.out = "waiting" THEN 1 ELSE 0)
    <2>. DEFINE r == old.recovered + (IF old.out = "recovered" THEN 1 ELSE 0)
                f == old.failed + (IF old.out = "failed" THEN 1 ELSE 0)
                w == old.waiting + (IF old.out = "waiting" THEN 1 ELSE 0)
    <2>1. m = [old EXCEPT !.recovered = r, !.failed = f, !.waiting = w,
                          !.pc = "rcNext", !.item = 0, !.entry = 0, !.out = None]
      BY <1>1 DEF Reported, MoverRows
    <2>2. r \in Nat /\ f \in Nat /\ w \in Nat
      BY <1>1 DEF MoverRows
    <2>. HIDE DEF r, f, m
    <2>3. m \in MoverRows
      <3>. HIDE DEF w
      <3>. QED
        BY <1>1, <2>1, <2>2 DEF MoverRows, Places, RescuePlaces, Outs
    <2>4. /\ m.pc = "rcNext" /\ m.item = 0 /\ m.entry = 0 /\ m.wait = old.wait
          /\ m.todo = old.todo /\ m.known = old.known /\ m.waiting = w
      <3>. HIDE DEF w
      <3>. QED
        BY <1>1, <2>1, <2>2 DEF MoverRows
    <2>. QED
      BY <2>3, <2>4
  <1>10. ~old.wait
    BY <1>1, <1>2, NotWaiting DEF PlacementInv
  <1>. HIDE DEF m
  <1>11. RowRight(p, m)
    <2>1. AimRight(p, m)
      BY <1>9 DEF AimRight, Aiming, Rescuers
    <2>. QED
      BY <1>9, <1>10, <2>1, SendsOf DEF RowRight, RescuePlaces
  <1>12. ~mixed => \A i \in Owing' : Accounted(m, i)
    <2>. SUFFICES ASSUME ~mixed, NEW i \in Owing' PROVE Accounted(m, i)
      OBVIOUS
    <2>1. i \in 1..Len(items) /\ items'[i].status = "waiting" /\ home[items[i].bot] = scene.dead
      BY <1>3, <1>8 DEF Owing, getWaitingItems
    <2>2. old.waiting \in Nat
      BY <1>1 DEF MoverRows
    <2>3. CASE old.out = "waiting"
      BY <1>9, <2>2, <2>3 DEF Accounted
    <2>4. CASE old.out # "waiting"
      <3>1. i \in Owing /\ i \notin {old.item, old.entry}
        BY <1>8, <2>1, <2>4 DEF Owing, getWaitingItems
      <3>2. Accounted(old, i)
        BY <1>2, <3>1 DEF PlacementInv, RescueRight, Rescuing, Rescuers
      <3>. QED
        BY <1>9, <2>2, <2>4, <3>1, <3>2 DEF Accounted
    <2>. QED
      BY <2>3, <2>4
  <1>13. /\ mover[p].pc \in {"rcNext", "rcItem", "rcClose"} /\ m.pc \in {"rcNext", "rcItem", "rcClose"}
         /\ items' \in Seq(ItemRows) /\ Len(items) <= Len(items') /\ Len(items') <= MaxItems
         /\ \A k \in 1..Len(items) : items'[k].bot = items[k].bot
         /\ m.todo = mover[p].todo /\ m.known = mover[p].known /\ m.entry \in 0..Len(items')
         /\ m.pc = "rcNext" => m.entry = 0
         /\ IF m.pc = "rcClose" THEN m.item \in 1..Len(items') ELSE m.item = 0
    BY <1>2, <1>5, <1>8, <1>9
  <1>. QED
    BY <1>2, <1>3, <1>11, <1>12, <1>13, TurnDone

\* A verdict closes the event: completed only when nobody was counted as waiting.
LEMMA VerdictRight ==
    ASSUME NEW p \in Rescuers, mover[p].waiting \in Nat, finishRecovery(p)
    PROVE  event'.status # None /\ (event'.status = "completed" => mover[p].waiting = 0)
  <1>1. CASE p = "retry"
    BY <1>1 DEF finishRecovery, retryVerdict, None
  <1>2. CASE p = "recovery" /\ scene.keeper = "orchestrator"
    BY <1>2 DEF finishRecovery, orchestratorVerdict, None
  <1>3. CASE p = "recovery" /\ scene.keeper # "orchestrator"
    BY <1>3 DEF finishRecovery, managerVerdict, None
  <1>. QED
    BY <1>1, <1>2, <1>3 DEF Rescuers

LEMMA RestingRow ==
    /\ Resting.pc = "off" /\ Resting.wait = FALSE /\ Resting.entry = 0 /\ Resting.item = 0
    /\ Resting.todo = << >> /\ Resting.waiting = 0 /\ Resting \in MoverRows
  <1>1. Resting \in MoverRows
    BY RestingRight DEF RowRight, Movers
  <1>. QED
    BY <1>1 DEF Resting

LEMMA FinishInv ==
    ASSUME PlacementInv, NEW p \in Rescuers, finishRecovery(p)
    PROVE  PlacementInv'
  <1>. DEFINE old == mover[p]
  <1>1. p \in Movers /\ old \in MoverRows /\ EntryRight(p, old) /\ RowRight(p, Resting)
    BY SendsOf, RestingRight DEF PlacementInv, RowsRight, EntriesRight
  <1>2. old.pc = "rcNext" /\ old.todo = << >> /\ mover' = [mover EXCEPT ![p] = Resting]
    BY DEF finishRecovery
  <1>3. UNCHANGED <<scene, home, box, removed, wire, link, agentUp, hitches, items, mixed>>
    BY DEF finishRecovery, ground
  <1>4. old.waiting \in Nat
    BY <1>1 DEF MoverRows
  <1>5. event'.status # None /\ (event'.status = "completed" => old.waiting = 0)
    BY <1>4, VerdictRight
  <1>6. /\ RowsRight' /\ WireRight' /\ HomesRight'
        /\ mover'[p] = Resting /\ \A q \in Movers \ {p} : mover'[q] = mover[q]
    BY <1>1, <1>2, <1>3, RestingRow, TurnKept
  <1>7. GroundRight'
    BY <1>3 DEF PlacementInv, GroundRight
  <1>8. ItemsRight'
    BY <1>3, <1>5 DEF PlacementInv, ItemsRight
  <1>9. EntriesRight'
    <2>1. Len(items) \in Nat /\ items \in Seq(ItemRows) /\ Rescuers \subseteq Movers
      BY SendsOf DEF PlacementInv, ItemsRight
    <2>2. ASSUME NEW q \in Rescuers \ {p} PROVE EntryRight(q, mover[q])'
      BY <1>3, <1>6, <2>1, EntryKept DEF PlacementInv
    <2>3. EntryRight(p, mover[p])'
      BY <1>3, <1>6, <2>1, RestingRow DEF EntryRight
    <2>. QED
      BY <2>2, <2>3 DEF EntriesRight
  <1>10. RescueRight'
    <2>. SUFFICES ASSUME ~mixed PROVE RescueRight'
      BY <1>3 DEF RescueRight
    <2>1. \A q \in Rescuers : ~Rescuing(q)'
      BY <1>2, <1>6, Alone, SendsOf, RestingRow DEF Rescuing, Rescuers
    <2>2. event'.status = "completed" => Owing' = {}
      <3>. SUFFICES ASSUME event'.status = "completed", NEW i \in Owing' PROVE FALSE
        OBVIOUS
      <3>1. i \in Owing /\ i # 0
        BY <1>3 DEF Owing, getWaitingItems
      <3>2. Accounted(old, i)
        BY <1>2, <3>1 DEF PlacementInv, RescueRight, Rescuing, Rescuers
      <3>3. old.entry = 0 /\ old.item = 0
        BY <1>1, <1>2 DEF EntryRight
      <3>. QED
        BY <1>2, <1>5, <3>1, <3>2, <3>3 DEF Accounted
    <2>. QED
      BY <2>1, <2>2 DEF RescueRight, Rescuers
  <1>. QED
    BY <1>6, <1>7, <1>8, <1>9, <1>10 DEF PlacementInv

LEMMA TriggerInv ==
    ASSUME PlacementInv, triggerRecovery
    PROVE  PlacementInv'
  <1>. DEFINE todo == [i \in 1..Cardinality(getTenants) |-> [bot |-> SetToSeq(getTenants)[i], entry |-> 0]]
              m == [Resting EXCEPT !.pc = "rcNext", !.from = scene.dead, !.todo = todo]
  <1>1. /\ scene.dead \in Hosts /\ event.status = None /\ event'.status = "in_progress"
        /\ mover["recovery"].pc = "off" /\ mover' = [mover EXCEPT !["recovery"] = m]
    BY SceneRight DEF triggerRecovery, PlacementInv, GroundRight, NoEvent
  <1>2. UNCHANGED <<scene, home, box, removed, wire, link, agentUp, hitches, items>>
    BY DEF triggerRecovery, ground
  <1>3. items = << >> /\ \A q \in Rescuers : mover[q].pc = "off"
    BY <1>1 DEF PlacementInv, ItemsRight
  <1>4. todo \in Seq(Works) /\ \A i \in 1..Len(todo) : todo[i].entry = 0
    BY WorkOf DEF getTenants
  <1>. HIDE DEF todo
  <1>5. /\ m \in MoverRows /\ m.pc = "rcNext" /\ m.wait = FALSE /\ m.todo = todo
        /\ m.item = 0 /\ m.entry = 0
    <2>1. m \in MoverRows
      <3>1. \A t \in Seq(Works) : [Resting EXCEPT !.pc = "rcNext", !.from = scene.dead, !.todo = t] \in MoverRows
        <4>1. \A f \in Hosts, t \in Seq(Works) : [Resting EXCEPT !.pc = "rcNext", !.from = f, !.todo = t] \in MoverRows
          BY RestingRow DEF MoverRows, Places, RescuePlaces
        <4>. QED
          BY <1>1, <4>1
      <3>. QED
        BY <1>4, <3>1
    <2>. QED
      BY <2>1, RestingRow DEF MoverRows
  <1>. HIDE DEF m
  <1>6. "recovery" \in Rescuers /\ "retry" \in Rescuers /\ Rescuers \subseteq Movers
    BY SendsOf DEF Rescuers
  <1>7. RowRight("recovery", m)
    BY <1>5, <1>6, SendsOf DEF RowRight, AimRight, Aiming, RescuePlaces
  <1>8. /\ RowsRight' /\ WireRight' /\ HomesRight'
        /\ mover'["recovery"] = m /\ \A q \in Movers \ {"recovery"} : mover'[q] = mover[q]
    BY <1>1, <1>2, <1>5, <1>6, <1>7, TurnKept
  <1>9. GroundRight'
    BY <1>2 DEF PlacementInv, GroundRight
  <1>10. ItemsRight'
    BY <1>1, <1>2 DEF PlacementInv, ItemsRight, None
  <1>11. EntriesRight'
    <2>1. Len(items) \in Nat /\ items \in Seq(ItemRows)
      BY DEF PlacementInv, ItemsRight
    <2>2. ASSUME NEW q \in Rescuers \ {"recovery"} PROVE EntryRight(q, mover[q])'
      BY <1>2, <1>6, <1>8, <2>1, EntryKept DEF PlacementInv
    <2>3. EntryRight("recovery", mover["recovery"])'
      BY <1>2, <1>4, <1>5, <1>8, <2>1 DEF EntryRight
    <2>. QED
      BY <2>2, <2>3 DEF EntriesRight
  <1>12. RescueRight'
    <2>1. Owing' = {}
      BY <1>2, <1>3 DEF Owing, getWaitingItems
    <2>2. ~Rescuing("retry")'
      BY <1>3, <1>6, <1>8 DEF Rescuing
    <2>. QED
      BY <2>1, <2>2 DEF RescueRight
  <1>. QED
    BY <1>8, <1>9, <1>10, <1>11, <1>12 DEF PlacementInv

\* The waiting items a retry begins with, some of them given up before
LEMMA RetryInv ==
    ASSUME PlacementInv, UNCHANGED <<scene, home, box, removed, wire>>, GroundRight',
           NEW kept, kept \subseteq getWaitingItems, retryWaiting(kept),
           items' \in Seq(ItemRows), Len(items') = Len(items), event'.status # None,
           \A k \in 1..Len(items) : items'[k].bot = items[k].bot,
           getWaitingItems' \subseteq kept
    PROVE  PlacementInv'
  <1>. DEFINE list == SetToSeq(kept)
              todo == [i \in 1..Cardinality(kept) |-> [bot |-> items[list[i]].bot, entry |-> list[i]]]
              m == [Resting EXCEPT !.pc = "rcNext", !.from = scene.dead, !.known = getTenants, !.todo = todo]
  <1>1. /\ mover["retry"].pc = "off" /\ mover' = [mover EXCEPT !["retry"] = m] /\ mixed' = Overlap("retry")
    BY DEF retryWaiting
  <1>2. Len(items) \in Nat /\ items \in Seq(ItemRows) /\ Len(items) <= MaxItems
    BY DEF PlacementInv, ItemsRight
  <1>3. IsFiniteSet(kept) /\ kept \subseteq 1..Len(items)
    <2>1. kept \subseteq 1..Len(items)
      BY DEF getWaitingItems
    <2>. QED
      <3>1. IsFiniteSet(1..Len(items))
        BY <1>2, FS_Interval
      <3>. QED
        BY <2>1, <3>1, FS_Subset
  <1>4. /\ Cardinality(kept) \in Nat /\ list \in [1..Cardinality(kept) -> kept]
        /\ \A x \in kept : \E i \in 1..Cardinality(kept) : list[i] = x
    BY <1>3, ListOf
  <1>. HIDE DEF list
  <1>5. \A i \in 1..Cardinality(kept) : list[i] \in 1..Len(items) /\ items[list[i]].bot \in Bots
    <2>. SUFFICES ASSUME NEW i \in 1..Cardinality(kept)
                  PROVE  list[i] \in 1..Len(items) /\ items[list[i]].bot \in Bots
      OBVIOUS
    <2>1. list[i] \in 1..Len(items)
      BY <1>3, <1>4
    <2>2. items[list[i]] \in ItemRows
      BY <1>2, <2>1
    <2>. QED
      BY <2>1, <2>2 DEF ItemRows
  <1>6. /\ todo \in Seq(Works) /\ Len(todo) = Cardinality(kept)
        /\ \A i \in 1..Len(todo) : todo[i].entry = list[i] /\ todo[i].bot = items[list[i]].bot
    <2>1. \A i \in 1..Cardinality(kept) : [bot |-> items[list[i]].bot, entry |-> list[i]] \in Works
      BY <1>2, <1>5 DEF Works
    <2>2. todo \in Seq(Works) /\ Len(todo) = Cardinality(kept)
      BY <1>4, <2>1
    <2>. QED
      BY <2>2
  <1>. HIDE DEF todo
  <1>7. /\ m \in MoverRows /\ m.pc = "rcNext" /\ m.wait = FALSE /\ m.todo = todo /\ m.known = getTenants
        /\ m.item = 0 /\ m.entry = 0
    <2>1. scene.dead \in Hosts \cup {None} /\ getTenants \subseteq Bots
      BY SceneRight DEF PlacementInv, GroundRight, getTenants
    <2>. HIDE DEF getTenants
    <2>2. m \in MoverRows
      BY <1>6, <2>1, RestingRow DEF MoverRows, Places, RescuePlaces
    <2>. QED
      BY <2>2, RestingRow DEF MoverRows
  <1>. HIDE DEF m
  <1>8. "recovery" \in Rescuers /\ "retry" \in Rescuers /\ Rescuers \subseteq Movers
    BY SendsOf DEF Rescuers
  <1>9. RowRight("retry", m)
    BY <1>7, <1>8, SendsOf DEF RowRight, AimRight, Aiming, RescuePlaces
  <1>10. /\ RowsRight' /\ WireRight' /\ HomesRight'
         /\ mover'["retry"] = m /\ \A q \in Movers \ {"retry"} : mover'[q] = mover[q]
    BY <1>1, <1>7, <1>8, <1>9, TurnKept
  <1>11. ItemsRight'
    BY <1>2 DEF ItemsRight
  <1>12. EntriesRight'
    <2>1. ASSUME NEW q \in Rescuers \ {"retry"} PROVE EntryRight(q, mover[q])'
      BY <1>2, <1>8, <1>10, EntryKept DEF PlacementInv
    <2>2. EntryRight("retry", mover["retry"])'
      <3>1. ASSUME NEW j \in 1..Len(todo)
            PROVE  /\ todo[j].entry \in 0..Len(items')
                   /\ items'[todo[j].entry].bot = todo[j].bot
        BY <1>2, <1>5, <1>6
      <3>2. getTenants' = getTenants
        BY DEF getTenants
      <3>. QED
        BY <1>2, <1>7, <1>10, <3>1, <3>2 DEF EntryRight
    <2>. QED
      BY <2>1, <2>2 DEF EntriesRight
  <1>13. RescueRight'
    <2>. SUFFICES ASSUME ~mixed' PROVE RescueRight'
      BY DEF RescueRight
    <2>1. ~Rescuing("recovery")
      BY <1>1, <1>8 DEF Overlap, Rescuers
    <2>2. ~Rescuing("recovery")' /\ Rescuing("retry")'
      BY <1>7, <1>8, <1>10, <2>1 DEF Rescuing, Rescuers
    <2>3. ASSUME NEW i \in Owing' PROVE Accounted(mover["retry"], i)'
      <3>1. i \in kept
        BY DEF Owing
      <3>2. PICK j \in 1..Cardinality(kept) : list[j] = i
        BY <1>4, <3>1
      <3>3. j \in 1..Len(m.todo) /\ m.todo[j].entry = i
        BY <1>6, <1>7, <3>2
      <3>. QED
        BY <1>10, <3>3 DEF Accounted
    <2>. QED
      BY <2>2, <2>3 DEF RescueRight, Rescuers
  <1>. QED
    BY <1>10, <1>11, <1>12, <1>13 DEF PlacementInv

LEMMA RegisterInv ==
    ASSUME PlacementInv, register
    PROVE  PlacementInv'
  <1>1. /\ scene.comes # None /\ agentUp' = [agentUp EXCEPT ![scene.comes] = TRUE]
        /\ link' = [link EXCEPT ![scene.comes] = TRUE]
        /\ UNCHANGED <<scene, home, box, wire, items, event, hitches, removed>>
    BY DEF register, accept, ground, rescue, onRetryWaiting
  <1>2. GroundRight'
    BY <1>1, SceneRight DEF PlacementInv, GroundRight
  <1>3. CASE listOpenEvents /\ onRetryWaiting
    <2>1. event.status # None
      BY <1>3 DEF listOpenEvents, None
    <2>2. getWaitingItems' = getWaitingItems
      BY <1>1 DEF getWaitingItems
    <2>3. items' \in Seq(ItemRows)
      BY <1>1 DEF PlacementInv, ItemsRight
    <2>4. retryWaiting(getWaitingItems)
      BY <1>3 DEF onRetryWaiting
    <2>. HIDE DEF getWaitingItems
    <2>. QED
      BY <1>1, <1>2, <2>1, <2>2, <2>3, <2>4, RetryInv
  <1>4. CASE UNCHANGED <<mover, items, event, aged, mixed>>
    <2>1. NothingLost
      BY <1>1 DEF NothingLost, There
    <2>. QED
      BY <1>1, <1>2, <1>4, <2>1, GroundSteps
  <1>. QED
    BY <1>3, <1>4 DEF register, rescue

LEMMA CheckInv ==
    ASSUME PlacementInv, checkAndRetryWaiting
    PROVE  PlacementInv'
  <1>1. UNCHANGED <<scene, home, box, wire, link, agentUp, hitches, removed>>
    BY DEF checkAndRetryWaiting, ground
  <1>2. PICK expired \in SUBSET getWaitingItems :
          /\ IF expired # {} THEN failExpired(expired) ELSE UNCHANGED <<items, event>>
          /\ IF getWaitingItems \ expired # {} THEN retryWaiting(getWaitingItems \ expired) ELSE UNCHANGED <<mover, mixed>>
    BY DEF checkAndRetryWaiting
  <1>3. GroundRight'
    BY <1>1 DEF PlacementInv, GroundRight
  <1>4. event.status # None
    BY DEF checkAndRetryWaiting, listOpenEvents, None
  <1>5. Len(items) \in Nat /\ items \in Seq(ItemRows) /\ Len(items) <= MaxItems /\ DOMAIN items = 1..Len(items)
    BY DEF PlacementInv, ItemsRight
  <1>6. /\ items' \in Seq(ItemRows) /\ Len(items') = Len(items) /\ event'.status # None
        /\ \A k \in 1..Len(items) : items'[k].bot = items[k].bot
        /\ getWaitingItems' \subseteq getWaitingItems \ expired
    <2>1. CASE expired = {}
      BY <1>2, <1>4, <1>5, <2>1 DEF getWaitingItems
    <2>2. CASE expired # {}
      <3>. DEFINE row(i) == IF i \in expired THEN [items[i] EXCEPT !.status = "failed"] ELSE items[i]
      <3>1. items' = [i \in 1..Len(items) |-> row(i)]
        BY <1>2, <2>2 DEF failExpired
      <3>2. ASSUME NEW i \in 1..Len(items)
            PROVE  /\ row(i) \in ItemRows /\ row(i).bot = items[i].bot
                   /\ row(i).status = "waiting" => items[i].status = "waiting" /\ i \notin expired
        <4>1. items[i] \in ItemRows
          BY <1>5
        <4>. QED
          BY <4>1 DEF ItemRows, Outs
      <3>. HIDE DEF row
      <3>3. items' \in Seq(ItemRows) /\ Len(items') = Len(items) /\ \A i \in 1..Len(items) : items'[i] = row(i)
        BY <1>5, <3>1, <3>2
      <3>4. getWaitingItems' \subseteq getWaitingItems \ expired
        BY <3>2, <3>3 DEF getWaitingItems
      <3>5. event'.status # None
        <4>1. failExpired(expired)
          BY <1>2, <2>2
        <4>. DEFINE s == IF getWaitingItems \ expired # {} THEN "partial" ELSE "completed"
        <4>2. event' = [event EXCEPT !.failed = @ + Cardinality(expired),
                                     !.waiting = Cardinality(getWaitingItems \ expired), !.status = s]
          BY <4>1 DEF failExpired
        <4>. QED
          BY <1>4, <4>2 DEF None
      <3>. QED
        BY <3>2, <3>3, <3>4, <3>5
    <2>. QED
      BY <2>1, <2>2
  <1>7. CASE getWaitingItems \ expired # {}
    <2>. DEFINE kept == getWaitingItems \ expired
    <2>1. kept \subseteq getWaitingItems /\ retryWaiting(kept) /\ getWaitingItems' \subseteq kept
      BY <1>2, <1>6, <1>7
    <2>. HIDE DEF kept
    <2>. QED
      BY <1>1, <1>3, <1>6, <2>1, RetryInv
  <1>8. CASE getWaitingItems \ expired = {}
    <2>1. UNCHANGED <<mover, mixed>>
      BY <1>2, <1>8
    <2>2. RowsRight' /\ WireRight' /\ HomesRight'
      <3>1. NothingLost
        BY <1>1 DEF NothingLost, There
      <3>. QED
        BY <1>1, <2>1, <3>1, RowsStill, WireKept, HomesKept DEF PlacementInv
    <2>3. ItemsRight'
      BY <1>5, <1>6 DEF ItemsRight
    <2>4. EntriesRight'
      <3>. SUFFICES ASSUME NEW q \in Rescuers PROVE EntryRight(q, mover[q])'
        BY DEF EntriesRight
      <3>. QED
        BY <1>1, <1>5, <1>6, <2>1, EntryKept DEF PlacementInv
    <2>5. Owing' = {}
      BY <1>6, <1>8 DEF Owing
    <2>6. RescueRight'
      BY <2>1, <2>5 DEF RescueRight, PlacementInv, Rescuing
    <2>. QED
      BY <1>3, <2>2, <2>3, <2>4, <2>6 DEF PlacementInv
  <1>. QED
    BY <1>7, <1>8

LEMMA PlacementInitInv == PlacementInit => PlacementInv
  <1>. SUFFICES ASSUME PlacementInit PROVE PlacementInv
    OBVIOUS
  <1>1. scene \in Scenes /\ home = scene.at /\ home \in [Bots -> Hosts \cup {None}]
    BY SceneRight DEF PlacementInit
  <1>2. mover = [p \in Movers |-> Resting] /\ \A p \in Movers : mover[p] = Resting
    BY DEF PlacementInit
  <1>3. GroundRight
    <2>1. box \in [Hosts -> [Bots -> {"none", "running", "stopped"}]]
      BY DEF PlacementInit
    <2>2. /\ link \in [Hosts -> BOOLEAN] /\ agentUp \in [Hosts -> BOOLEAN] /\ link = agentUp
          /\ scene.dead \in Hosts => ~agentUp[scene.dead]
      BY DEF PlacementInit
    <2>3. hitches \in 0..MaxFaults
      BY PlacementAssumption DEF PlacementInit
    <2>. QED
      BY <1>1, <2>1, <2>2, <2>3 DEF GroundRight
  <1>4. RowsRight
    BY <1>2, RestingRow, RestingRight DEF RowsRight
  <1>5. WireRight
    BY DEF PlacementInit, WireRight
  <1>6. HomesRight
    <2>1. \A b \in Bots : home[b] # None => There(home[b], b)
      BY <1>1 DEF PlacementInit, There
    <2>. QED
      BY <1>1, <1>2, <2>1, SceneRight, RestingRow DEF HomesRight
  <1>7. Rescuers \subseteq Movers
    BY SendsOf
  <1>8. ItemsRight
    BY <1>2, <1>7, RestingRow, PlacementAssumption DEF PlacementInit, ItemsRight
  <1>9. EntriesRight
    BY <1>2, <1>7, RestingRow DEF PlacementInit, EntriesRight, EntryRight
  <1>10. RescueRight
    <2>1. Owing = {}
      BY DEF PlacementInit, Owing, getWaitingItems
    <2>2. \A p \in Rescuers : ~Rescuing(p)
      BY <1>2, <1>7, RestingRow DEF Rescuing
    <2>. QED
      BY <2>1, <2>2 DEF RescueRight, Rescuers
  <1>. QED
    BY <1>3, <1>4, <1>5, <1>6, <1>8, <1>9, <1>10 DEF PlacementInv

LEMMA PlacementNextInv == PlacementInv /\ [PlacementNext]_placementVars => PlacementInv'
  <1>. SUFFICES ASSUME PlacementInv, [PlacementNext]_placementVars PROVE PlacementInv'
    OBVIOUS
  <1>1. CASE UNCHANGED placementVars
    <2>1. GroundRight' /\ NothingLost
      BY <1>1 DEF placementVars, PlacementInv, GroundRight, NothingLost, There
    <2>. QED
      BY <1>1, <2>1, GroundSteps DEF placementVars
  <1>2. ASSUME NEW p \in Movers, Send(p) \/ Timeout(p) PROVE PlacementInv'
    BY <1>2, SendInv, TimeoutInv
  <1>3. ASSUME NEW c \in wire, executeCommand(c) PROVE PlacementInv'
    BY <1>3, ExecuteInv
  <1>4. ASSUME NEW n \in Hosts, \/ SocketClosed(n) \/ Reconnect(n) \/ agentStart(n) \/ runHotBackup(n) \/ RoomAppears(n)
                                \/ \E b \in Bots : attemptRestart(n, b)
        PROVE  PlacementInv'
    BY <1>4, LinkSteps, AgentSteps
  <1>5. ASSUME NEW p \in Rescuers, Rescue(p) PROVE PlacementInv'
    BY <1>5, NextTenantInv, ReassignTenantInv, RecoveryFailedInv, CreateItemInv, UpdateItemInv, FinishInv DEF Rescue
  <1>6. CASE DayPasses
    <2>1. GroundRight' /\ NothingLost
      BY <1>6 DEF DayPasses, ground, PlacementInv, GroundRight, NothingLost, There
    <2>. QED
      BY <1>6, <2>1, GroundSteps DEF DayPasses
  <1>7. CASE triggerRecovery \/ register \/ checkAndRetryWaiting
    BY <1>7, TriggerInv, RegisterInv, CheckInv
  <1>8. CASE migrate \/ MigrationReassigns \/ restore \/ dispatchEnvUpdate \/ clean \/ CleanNext
    BY <1>8, MigrateInv, MigrationReassignsInv, RestoreInv, DispatchInv, CleanInv, CleanNextInv
  <1>. QED
    BY <1>1, <1>2, <1>3, <1>4, <1>5, <1>6, <1>7, <1>8 DEF PlacementNext, Rescuers

\* Where the tables say a bot is, it is, and a completed recovery left nobody
\* of the dead node waiting (recovery-orchestrator.ts, migration-orchestrator.ts,
\* node-command-bus.ts): for any nodes, bots and situations, and any
\* interleaving of commands, timeouts, lost connections and answers.
THEOREM PlacementIsSafe == PlacementSpec => []PlacementSafe
  <1>1. PlacementInv => PlacementTypeOK
    BY DEF PlacementInv, GroundRight, RowsRight, RowRight, HomesRight, ItemsRight, PlacementTypeOK
  <1>2. PlacementInv => AssignedIsThere
    BY DEF PlacementInv, HomesRight, There, AssignedIsThere
  <1>3. PlacementInv => CompletedLeavesNobody
    BY DEF PlacementInv, RescueRight, Owing, CompletedLeavesNobody
  <1>4. PlacementInv => PlacementSafe
    BY <1>1, <1>2, <1>3 DEF PlacementSafe
  <1>. QED
    BY <1>4, PlacementInitInv, PlacementNextInv, PTL DEF PlacementSpec

=============================================================================
