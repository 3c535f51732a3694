---------------------------- MODULE RolloutProofs ---------------------------
(***************************************************************************)
(* Proofs about the containers of the bots and the rollouts of images to   *)
(* them: for every set of bots, callers and calls, every initial state and *)
(* every plan, with API calls and a rollout interleaved in any way.        *)
(***************************************************************************)
EXTENDS Rollouts, FiniteSetTheorems, TLAPS

-----------------------------------------------------------------------------
(* The calls on the bots                                                    *)

SpotsOf(op) ==
    {"idle", "done"}
    \cup (IF op \in Locked THEN {"begin"} ELSE {})
    \cup (IF op \in ApiOps \ Locked THEN {"get", "act"} ELSE {})
    \cup (IF op = "create" THEN {"send", "pull", "network", "box", "undo", "register"} ELSE {})
    \cup (IF op = "update" THEN {"pull", "stop", "remove", "network", "box", "start", "restore"} ELSE {})
    \cup (IF op = "remove" THEN {"send", "kill", "count", "unnet", "delete"} ELSE {})

Spots == {"idle", "done", "begin", "get", "act", "send", "pull", "network", "box", "undo", "register", "stop",
          "remove", "start", "restore", "kill", "count", "unnet", "delete"}
CallerRows == [at : Spots, handle : Nat, was : BOOLEAN, old : Images \cup {NoImage}, ok : BOOLEAN]
BoxRows == [id : Nat \ {0}, image : Images, digest : Nat, up : BOOLEAN] \cup {NoBox}

\* Places that are behind a pull.
Pulled == {"network", "box", "register", "stop", "remove", "start"}

CallTypes ==
    /\ jobs \in [Callers -> JobRows]
    /\ caller \in [Callers -> CallerRows]
    /\ \A c \in Callers : /\ caller[c].at \in SpotsOf(jobs[c].op)
                          /\ caller[c].at \in Pulled => jobs[c].image # Malformed
                          /\ caller[c].at = "act" => caller[c].handle # 0

DiskTypes ==
    /\ profiles \in [Bots -> Images \cup {NoImage}]
    /\ boxes \in [Bots -> BoxRows]
    /\ rows \in [Bots -> {"none", "node", "inactive", "active", "suspended"}]
    /\ routes \subseteq Bots /\ overtaken \subseteq Bots /\ unsettled \subseteq Bots
    /\ made \in Nat /\ pulled \in Nat /\ published \in Nat /\ faults \in Nat
    /\ data \in [Bots -> Nat]

\* A locked call past its beginning.
Past(c) == jobs[c].op \in Locked /\ caller[c].at \notin {"idle", "begin", "done"}
Waits(c) == jobs[c].op \in Locked /\ caller[c].at \notin {"idle", "done"}

\* Who holds the lock of a bot is at the head of its queue, and who waits is in it.
QueueRight ==
    /\ queue \in [Bots -> Seq(Callers)]
    /\ \A c \in Callers : Waits(c) => \E i \in 1..Len(queue[B(c)]) : queue[B(c)][i] = c
    /\ \A c \in Callers : Past(c) => Head(queue[B(c)]) = c

\* Bots that nothing excuses.
Plain(b) == faults = 0 /\ b \notin unsettled \cup world.remote

\* No route and no set-up call is left of the container.
NoTrace(b) ==
    b \in overtaken \/ (b \notin routes /\ \A c \in Callers : B(c) = b => ~At(c, "act", Setups))

Bare(b) == NoTrace(b) /\ (b \in overtaken \/ rows[b] = "none")

\* What a call that holds the lock of its bot has done so far.
Placed(c) ==
    LET b == B(c)
        at == caller[c].at
    IN /\ jobs[c].op = "create" /\ at \in {"pull", "network", "box"} =>
            boxes[b] = NoBox /\ profiles[b] = jobs[c].image /\ Bare(b)
       /\ at = "undo" => boxes[b] = NoBox /\ Bare(b)
       /\ at = "send" => FALSE
       /\ jobs[c].op = "update" /\ at = "pull" => boxes[b].image = profiles[b] /\ profiles[b] # NoImage
       /\ at \in {"stop", "remove"} => profiles[b] = jobs[c].image
       /\ jobs[c].op = "update" /\ at \in {"network", "box"} => boxes[b] = NoBox /\ profiles[b] = jobs[c].image
       /\ at \in {"start", "register"} => boxes[b].image = jobs[c].image /\ profiles[b] = jobs[c].image
       /\ at \in {"count", "unnet", "delete"} => boxes[b] = NoBox /\ NoTrace(b)

Settled(b) == boxes[b].image = profiles[b] /\ (profiles[b] = NoImage => Bare(b))

BotRight(b) ==
    /\ rows[b] = "node" => b \in world.remote
    /\ Plain(b) =>
         /\ \A c \in Callers : Past(c) /\ B(c) = b => Placed(c)
         /\ (\A c \in Callers : B(c) = b => ~Past(c)) => Settled(b)

FleetInv == CallTypes /\ DiskTypes /\ QueueRight /\ \A b \in Bots : BotRight(b)

-----------------------------------------------------------------------------
(* How a call moves                                                         *)

LEMMA JobFacts ==
    ASSUME CallTypes, NEW c \in Callers
    PROVE  /\ jobs[c].op # "none" =>
                jobs[c].op \in ApiOps /\ B(c) \in Bots /\ jobs[c].image \in Images /\ jobs[c].image # NoImage
           /\ caller[c].at # "idle" /\ caller[c].at # "done" => jobs[c].op # "none"
           /\ jobs[c].op \in Locked => jobs[c].op # "none"
  <1>1. jobs[c] \in JobRows /\ caller[c].at \in SpotsOf(jobs[c].op)
    BY DEF CallTypes
  <1>2. jobs[c].op # "none" =>
          jobs[c].op \in ApiOps /\ B(c) \in Bots /\ jobs[c].image \in Images /\ jobs[c].image # NoImage
    BY <1>1 DEF JobRows, NoJob, B, Images, NoImage, Malformed
  <1>3. jobs[c].op = "none" => SpotsOf(jobs[c].op) = {"idle", "done"}
    BY DEF SpotsOf, Locked, ApiOps
  <1>. QED
    BY <1>1, <1>2, <1>3 DEF Locked

\* A call goes to a place and keeps what it knows.
LEMMA Goes ==
    ASSUME CallTypes, NEW c \in Callers, NEW w \in Spots, To(c, w)
    PROVE  /\ caller' \in [Callers -> CallerRows] /\ caller'[c].at = w
           /\ caller'[c].handle = caller[c].handle /\ caller'[c].was = caller[c].was
           /\ caller'[c].old = caller[c].old
           /\ \A d \in Callers : d # c => caller'[d] = caller[d]
  <1>. DEFINE row == [caller[c] EXCEPT !.at = w]
  <1>1. caller' = [caller EXCEPT ![c].at = w] /\ caller \in [Callers -> CallerRows] /\ caller[c] \in CallerRows
    BY DEF To, CallTypes
  <1>2. /\ row \in CallerRows /\ row.at = w /\ row.handle = caller[c].handle /\ row.was = caller[c].was
        /\ row.old = caller[c].old
    BY <1>1 DEF CallerRows
  <1>3. caller' = [caller EXCEPT ![c] = row]
    BY <1>1
  <1>. HIDE DEF row
  <1>. QED
    BY <1>1, <1>2, <1>3

LEMMA Ends ==
    ASSUME CallTypes, NEW c \in Callers, NEW ok \in BOOLEAN, Finish(c, ok)
    PROVE  /\ caller' \in [Callers -> CallerRows] /\ caller'[c].at = "done" /\ caller'[c].ok = ok
           /\ \A d \in Callers : d # c => caller'[d] = caller[d]
  <1>. DEFINE row == [caller[c] EXCEPT !.at = "done", !.ok = ok]
  <1>1. /\ caller' = [caller EXCEPT ![c].at = "done", ![c].ok = ok] /\ caller \in [Callers -> CallerRows]
        /\ caller[c] \in CallerRows
    BY DEF Finish, CallTypes
  <1>2. row \in CallerRows /\ row.at = "done" /\ row.ok = ok
    BY <1>1 DEF CallerRows, Spots
  <1>3. caller' = [caller EXCEPT ![c] = row]
    BY <1>1
  <1>. HIDE DEF row
  <1>. QED
    BY <1>1, <1>2, <1>3

\* A call that has its turn, or is past it.
Turn(c) == Past(c) \/ (Waits(c) /\ Runs(c))

\* Nobody else has the lock of its bot.
LEMMA Alone ==
    ASSUME CallTypes, QueueRight, NEW c \in Callers, Turn(c)
    PROVE  /\ B(c) \in Bots /\ jobs[c].op \in Locked /\ Waits(c) /\ Runs(c) /\ Len(queue[B(c)]) \in Nat \ {0}
           /\ \A d \in Callers : Past(d) /\ B(d) = B(c) => d = c
  <1>1. jobs[c].op \in Locked /\ Waits(c) /\ Runs(c)
    BY DEF Turn, Past, Waits, Runs, QueueRight
  <1>2. B(c) \in Bots
    BY <1>1, JobFacts
  <1>3. Len(queue[B(c)]) \in Nat \ {0}
    <2>1. queue[B(c)] \in Seq(Callers) /\ \E i \in 1..Len(queue[B(c)]) : queue[B(c)][i] = c
      BY <1>1, <1>2 DEF QueueRight
    <2>. QED
      BY <2>1
  <1>4. \A d \in Callers : Past(d) /\ B(d) = B(c) => d = c
    BY <1>1 DEF QueueRight, Runs
  <1>. QED
    BY <1>1, <1>2, <1>3, <1>4

\* A call that has its turn goes on, or ends and passes the lock on.
LEMMA LockKept ==
    ASSUME CallTypes, QueueRight, NEW c \in Callers, Turn(c), UNCHANGED jobs,
           caller' \in [Callers -> CallerRows], \A d \in Callers : d # c => caller'[d] = caller[d],
           caller'[c].at \in SpotsOf(jobs[c].op) \ {"idle"},
           caller'[c].at \in Pulled => jobs[c].image # Malformed,
           IF caller'[c].at = "done" THEN queue' = [queue EXCEPT ![B(c)] = Tail(@)] ELSE queue' = queue
    PROVE  /\ CallTypes' /\ QueueRight'
           /\ \A d \in Callers : d # c => (Past(d)' <=> Past(d))
           /\ \A d \in Callers : Past(d)' /\ B(d) = B(c) => d = c
           /\ Past(c)' <=> caller'[c].at \notin {"begin", "done"}
  <1>1. /\ B(c) \in Bots /\ jobs[c].op \in Locked /\ Waits(c) /\ Runs(c) /\ Len(queue[B(c)]) \in Nat \ {0}
        /\ \A d \in Callers : Past(d) /\ B(d) = B(c) => d = c
    BY Alone
  <1>2. /\ \A d \in Callers : B(d)' = B(d) /\ (d # c => (Past(d)' <=> Past(d)) /\ (Waits(d)' <=> Waits(d)))
        /\ Past(c)' <=> caller'[c].at \notin {"begin", "done"}
        /\ Waits(c)' <=> caller'[c].at # "done"
    BY <1>1 DEF B, Past, Waits
  <1>3. CallTypes'
    <2>1. caller'[c].at # "act"
      BY <1>1 DEF SpotsOf, Locked, ApiOps
    <2>. QED
      BY <2>1 DEF CallTypes
  <1>4. queue' \in [Bots -> Seq(Callers)] /\ queue[B(c)] \in Seq(Callers)
        /\ \A b \in Bots : b # B(c) => queue'[b] = queue[b]
    <2>1. queue \in [Bots -> Seq(Callers)] /\ queue[B(c)] \in Seq(Callers)
      BY <1>1 DEF QueueRight
    <2>2. Tail(queue[B(c)]) \in Seq(Callers)
      BY <1>1, <2>1
    <2>. QED
      BY <2>1, <2>2
  <1>5. QueueRight'
    <2>1. CASE caller'[c].at # "done"
      BY <1>1, <1>2, <1>4, <2>1 DEF QueueRight, Runs
    <2>2. CASE caller'[c].at = "done"
      <3>1. queue'[B(c)] = Tail(queue[B(c)])
        BY <1>1, <2>2 DEF QueueRight
      <3>2. ASSUME NEW d \in Callers, Waits(d)'
            PROVE  \E i \in 1..Len(queue'[B(d)]) : queue'[B(d)][i] = d
        <4>1. d # c /\ Waits(d) /\ B(d) \in Bots
          BY <1>2, <2>2, <3>2, JobFacts DEF Waits
        <4>2. CASE B(d) # B(c)
          BY <1>4, <4>1, <4>2 DEF QueueRight
        <4>3. CASE B(d) = B(c)
          <5>1. PICK i \in 1..Len(queue[B(c)]) : queue[B(c)][i] = d
            BY <4>1, <4>3 DEF QueueRight
          <5>2. i # 1
            BY <1>1, <1>4, <4>1, <5>1 DEF Runs
          <5>3. i - 1 \in 1..Len(Tail(queue[B(c)])) /\ Tail(queue[B(c)])[i - 1] = d
            BY <1>1, <1>4, <5>1, <5>2
          <5>. QED
            BY <3>1, <4>3, <5>3
        <4>. QED
          BY <4>2, <4>3
      <3>3. ASSUME NEW d \in Callers, Past(d)' PROVE Head(queue'[B(d)]) = d
        <4>1. d # c /\ Past(d) /\ B(d) \in Bots /\ B(d) # B(c)
          BY <1>1, <1>2, <2>2, <3>3, JobFacts DEF Past
        <4>. QED
          BY <1>4, <4>1 DEF QueueRight
      <3>. QED
        BY <1>2, <1>4, <3>2, <3>3 DEF QueueRight
    <2>. QED
      BY <2>1, <2>2
  <1>. QED
    BY <1>1, <1>2, <1>3, <1>5

-----------------------------------------------------------------------------
(* What a step leaves to the bots                                           *)

\* Nothing that is said of a bot is disturbed by a call on another one.
LEMMA Elsewhere ==
    ASSUME CallTypes, NEW c \in Callers, NEW b \in Bots, b # B(c), BotRight(b), UNCHANGED <<world, jobs>>,
           \A d \in Callers : d # c => caller'[d] = caller[d],
           boxes'[b] = boxes[b], profiles'[b] = profiles[b], rows'[b] = rows[b], b \in routes' <=> b \in routes,
           b \in overtaken' <=> b \in overtaken, unsettled \subseteq unsettled', faults' = 0 => faults = 0
    PROVE  BotRight(b)'
  <1>1. \A d \in Callers : B(d)' = B(d) /\ (B(d) = b => d # c /\ (Past(d)' <=> Past(d)))
    BY DEF B, Past
  <1>2. NoTrace(b)' <=> NoTrace(b)
    BY <1>1 DEF NoTrace, At
  <1>3. (Bare(b)' <=> Bare(b)) /\ (Settled(b)' <=> Settled(b))
    BY <1>2 DEF Bare, Settled
  <1>4. \A d \in Callers : B(d) = b => (Placed(d)' <=> Placed(d))
    BY <1>1, <1>2, <1>3 DEF Placed
  <1>. QED
    BY <1>1, <1>3, <1>4 DEF BotRight, Plain

\* A call that has its turn answers for its bot alone.
LEMMA Here ==
    ASSUME CallTypes, QueueRight, NEW c \in Callers, Turn(c), UNCHANGED jobs,
           \A d \in Callers : Past(d)' /\ B(d) = B(c) => d = c,
           rows'[B(c)] = "node" => B(c) \in world'.remote,
           Plain(B(c))' => IF Past(c)' THEN Placed(c)' ELSE Settled(B(c))'
    PROVE  BotRight(B(c))'
  <1>1. \A d \in Callers : B(d)' = B(d)
    BY DEF B
  <1>. PICK b : b = B(c)
    OBVIOUS
  <1>2. BotRight(b)'
    BY <1>1 DEF BotRight, B
  <1>. QED
    BY <1>1, <1>2 DEF B

\* A call that has its turn goes on, or ends and passes the lock on.
Moves(c) ==
    /\ caller' \in [Callers -> CallerRows] /\ \A d \in Callers : d # c => caller'[d] = caller[d]
    /\ caller'[c].at \in SpotsOf(jobs[c].op) \ {"idle", "begin"}
    /\ caller'[c].at \in Pulled => jobs[c].image # Malformed
    /\ IF caller'[c].at = "done" THEN queue' = [queue EXCEPT ![B(c)] = Tail(@)] ELSE queue' = queue

LEMMA MovesOn ==
    ASSUME CallTypes, NEW c \in Callers, NEW w, w \in SpotsOf(jobs[c].op) \ {"idle", "begin", "done"},
           w \in Pulled => jobs[c].image # Malformed, To(c, w), queue' = queue
    PROVE  Moves(c) /\ caller'[c].at = w
  <1>1. w \in Spots
    BY DEF SpotsOf, Spots
  <1>. QED
    BY <1>1, Goes DEF Moves

LEMMA MovesOut ==
    ASSUME CallTypes, NEW c \in Callers, jobs[c].op \in Locked, NEW ok \in BOOLEAN, Finish(c, ok)
    PROVE  Moves(c) /\ caller'[c].at = "done"
  <1>1. queue' = [queue EXCEPT ![B(c)] = Tail(@)]
    BY DEF Finish, resolve
  <1>2. /\ caller' \in [Callers -> CallerRows] /\ caller'[c].at = "done"
        /\ \A d \in Callers : d # c => caller'[d] = caller[d]
    BY Ends
  <1>3. "done" \in SpotsOf(jobs[c].op) \ {"idle", "begin"} /\ "done" \notin Pulled
    BY DEF SpotsOf, Pulled
  <1>. QED
    BY <1>1, <1>2, <1>3 DEF Moves

\* A step of a call that has its turn.
LEMMA LockedStep ==
    ASSUME FleetInv, NEW c \in Callers, Turn(c), UNCHANGED <<world, jobs>>, Moves(c),
           \A b \in Bots \ {B(c)} : /\ boxes'[b] = boxes[b] /\ profiles'[b] = profiles[b] /\ rows'[b] = rows[b]
                                    /\ b \in routes' <=> b \in routes
                                    /\ b \in overtaken' <=> b \in overtaken,
           unsettled \subseteq unsettled', faults' = 0 => faults = 0, DiskTypes',
           rows'[B(c)] = "node" => rows[B(c)] = "node",
           Plain(B(c))' => /\ caller'[c].at = "done" => Settled(B(c))'
                           /\ caller'[c].at # "done" => Placed(c)'
    PROVE  FleetInv'
  <1>0. CallTypes /\ QueueRight /\ (\A b \in Bots : BotRight(b)) /\ B(c) \in Bots /\ jobs[c].op \in Locked
    BY Alone DEF FleetInv
  <1>2. /\ CallTypes' /\ QueueRight'
        /\ \A d \in Callers : Past(d)' /\ B(d) = B(c) => d = c
        /\ Past(c)' <=> caller'[c].at \notin {"begin", "done"}
    BY <1>0, LockKept DEF Moves
  <1>3. rows'[B(c)] = "node" => B(c) \in world'.remote
    BY <1>0 DEF BotRight
  <1>4. BotRight(B(c))'
    BY <1>0, <1>2, <1>3, Here DEF Moves
  <1>5. ASSUME NEW b \in Bots, b # B(c) PROVE BotRight(b)'
    BY <1>0, <1>5, Elsewhere DEF Moves
  <1>6. B(c)' = B(c)
    BY DEF B
  <1>. QED
    BY <1>2, <1>4, <1>5, <1>6 DEF FleetInv

\* What holds when the turn comes, and afterwards.
LEMMA Begins ==
    ASSUME FleetInv, NEW c \in Callers, NEW ops \in SUBSET Locked, At(c, "begin", ops), Runs(c)
    PROVE  Turn(c) /\ ~Past(c) /\ (Plain(B(c)) => Settled(B(c)))
  <1>1. Turn(c) /\ ~Past(c)
    BY DEF At, Turn, Waits, Past
  <1>2. B(c) \in Bots /\ \A d \in Callers : Past(d) /\ B(d) = B(c) => d = c
    BY <1>1, Alone DEF FleetInv
  <1>. QED
    BY <1>1, <1>2 DEF FleetInv, BotRight

LEMMA Continues ==
    ASSUME FleetInv, NEW c \in Callers, jobs[c].op \in Locked, caller[c].at \notin {"idle", "begin", "done"}
    PROVE  Turn(c) /\ (Plain(B(c)) => Placed(c))
  <1>1. Past(c) /\ Turn(c)
    BY DEF Turn, Past
  <1>2. B(c) \in Bots
    BY <1>1, Alone DEF FleetInv
  <1>. QED
    BY <1>1, <1>2 DEF FleetInv, BotRight

\* A locked call is no trace of a container.
LEMMA TraceKept ==
    ASSUME NEW c \in Callers, jobs[c].op \in Locked, Moves(c), NEW b, UNCHANGED <<jobs, routes, overtaken>>
    PROVE  NoTrace(b)' <=> NoTrace(b)
  <1>1. jobs[c].op \notin Setups
    BY DEF Locked, Setups
  <1>. QED
    BY <1>1 DEF NoTrace, At, Moves, B

-----------------------------------------------------------------------------
(* FleetManager.create                                                      *)

LEMMA CreateStep ==
    ASSUME FleetInv, NEW c \in Callers, create(c)
    PROVE  FleetInv'
  <1>0. CallTypes /\ DiskTypes /\ jobs[c].op = "create" /\ Turn(c) /\ (Plain(B(c)) => Settled(B(c))) /\ Runs(c)
    <2>1. {"create"} \in SUBSET Locked
      BY DEF Locked
    <2>. QED
      BY <2>1, Begins DEF FleetInv, create, At
  <1>1. B(c) \in Bots /\ jobs[c].image \in Images /\ jobs[c].op \in Locked /\ jobs[c].image # NoImage
    BY <1>0, JobFacts DEF Locked
  <1>2. /\ UNCHANGED <<world, rows, routes, boxes, made, net, data, pulled, onNode, published, jobs, faults,
                       overtaken, unsettled>>
        /\ Plain(B(c))' => Plain(B(c))
    BY DEF create, docker, history, Plain, B
  <1>3. CASE profiles[B(c)] # NoImage
    <2>1. Finish(c, FALSE) /\ profiles' = profiles
      BY <1>3 DEF create
    <2>2. Moves(c) /\ caller'[c].at = "done"
      BY <1>0, <1>1, <2>1, MovesOut
    <2>3. Plain(B(c))' => Settled(B(c))'
      <3>1. NoTrace(B(c))' <=> NoTrace(B(c))
        BY <1>1, <1>2, <2>2, TraceKept DEF B
      <3>. QED
        BY <1>0, <1>2, <1>3, <2>1, <3>1 DEF Settled, B
    <2>. QED
      BY <1>0, <1>1, <1>2, <2>1, <2>2, <2>3, LockedStep DEF DiskTypes
  <1>4. CASE profiles[B(c)] = NoImage
    <2>. PICK w : w = IF resolveNodeId(B(c)) THEN "send" ELSE "pull"
      OBVIOUS
    <2>1. profiles' = [profiles EXCEPT ![B(c)] = jobs[c].image] /\ To(c, w) /\ queue' = queue
      BY <1>4 DEF create
    <2>2. Moves(c) /\ caller'[c].at = w
      <3>1. w \in SpotsOf("create") \ {"idle", "begin", "done"} /\ w \notin Pulled
        BY DEF SpotsOf, Pulled
      <3>. QED
        BY <1>0, <2>1, <3>1, MovesOn
    <2>3. profiles'[B(c)] = jobs[c].image /\ profiles' \in [Bots -> Images \cup {NoImage}]
      BY <1>0, <1>1, <2>1 DEF DiskTypes
    <2>4. Plain(B(c))' => Placed(c)'
      <3>. SUFFICES ASSUME Plain(B(c))'
                    PROVE  Placed(c)'
        OBVIOUS
      <3>1. Settled(B(c)) /\ rows[B(c)] # "node"
        BY <1>0, <1>1, <1>2 DEF Plain, FleetInv, BotRight
      <3>2. w = "pull"
        BY <3>1 DEF resolveNodeId
      <3>3. boxes[B(c)] = NoBox /\ Bare(B(c))
        BY <1>0, <1>1, <1>4, <3>1 DEF Settled, DiskTypes, BoxRows, Images, NoImage, Malformed
      <3>4. NoTrace(B(c))' <=> NoTrace(B(c))
        BY <1>1, <1>2, <2>2, TraceKept DEF B
      <3>5. Bare(B(c))'
        BY <1>2, <3>3, <3>4 DEF Bare, B
      <3>. QED
        BY <1>0, <1>2, <2>2, <2>3, <3>2, <3>3, <3>5 DEF Placed, B
    <2>5. w # "done"
      OBVIOUS
    <2>. QED
      BY <1>0, <1>1, <1>2, <2>1, <2>2, <2>3, <2>4, <2>5, LockedStep DEF DiskTypes
  <1>. QED
    BY <1>3, <1>4

\* A call to a node is no business of a plain bot.
LEMMA SendStep ==
    ASSUME FleetInv, NEW c \in Callers, sendToNode(c)
    PROVE  FleetInv'
  <1>0. /\ CallTypes /\ DiskTypes /\ jobs[c].op \in {"create", "remove"} /\ caller[c].at = "send"
        /\ jobs[c].op \in Locked
    BY DEF FleetInv, sendToNode, At, Locked
  <1>1. Turn(c) /\ B(c) \in Bots /\ ~Plain(B(c))
    BY <1>0, Continues, JobFacts DEF Placed
  <1>2. /\ UNCHANGED <<world, profiles, rows, routes, boxes, made, net, data, pulled, published, jobs, overtaken, unsettled>>
        /\ faults' \in {faults, faults + 1} /\ (faults' = 0 => faults = 0) /\ faults' \in Nat
    <2>1. /\ UNCHANGED <<world, profiles, rows, routes, boxes, made, net, data, pulled, published, jobs, overtaken, unsettled>>
          /\ faults' \in {faults, faults + 1}
      BY DEF sendToNode, disk, history, Refuse
    <2>. QED
      BY <1>0, <2>1 DEF DiskTypes
  <1>3. ~Plain(B(c))'
    BY <1>1, <1>2 DEF Plain, B
  <1>4. Moves(c)
    <2>1. \/ \E w \in {"count", "undo"} : /\ To(c, w) /\ queue' = queue
                                          /\ w = "count" => jobs[c].op = "remove"
                                          /\ w = "undo" => jobs[c].op = "create"
          \/ \E ok \in BOOLEAN : Finish(c, ok)
      BY <1>0 DEF sendToNode
    <2>2. ASSUME NEW w \in {"count", "undo"}, To(c, w), queue' = queue,
                 w = "count" => jobs[c].op = "remove", w = "undo" => jobs[c].op = "create"
          PROVE  Moves(c)
      <3>1. w \in SpotsOf(jobs[c].op) \ {"idle", "begin", "done"} /\ w \notin Pulled
        BY <2>2 DEF SpotsOf, Pulled
      <3>. QED
        BY <1>0, <2>2, <3>1, MovesOn
    <2>. QED
      BY <1>0, <2>1, <2>2, MovesOut
  <1>5. DiskTypes'
    BY <1>0, <1>2 DEF DiskTypes
  <1>. QED
    BY <1>0, <1>1, <1>2, <1>3, <1>4, <1>5, LockedStep

LEMMA NetworkStep ==
    ASSUME FleetInv, NEW c \in Callers, ensureTenantNetwork(c)
    PROVE  FleetInv'
  <1>0. /\ CallTypes /\ DiskTypes /\ jobs[c].op \in {"create", "update"} /\ caller[c].at = "network"
        /\ jobs[c].op \in Locked /\ jobs[c].image # Malformed
    BY DEF FleetInv, ensureTenantNetwork, At, Locked, CallTypes, Pulled
  <1>1. Turn(c) /\ B(c) \in Bots /\ (Plain(B(c)) => Placed(c))
    BY <1>0, Continues, JobFacts
  <1>2. /\ UNCHANGED <<world, profiles, rows, routes, boxes, made, data, pulled, published, queue, jobs, faults,
                       overtaken, unsettled>>
        /\ To(c, "box") /\ (Plain(B(c))' => Plain(B(c)))
    BY DEF ensureTenantNetwork, disk, history, Plain, B
  <1>3. Moves(c) /\ caller'[c].at = "box"
    <2>1. "box" \in SpotsOf(jobs[c].op) \ {"idle", "begin", "done"}
      BY <1>0 DEF SpotsOf
    <2>2. queue' = queue /\ To(c, "box")
      BY <1>2
    <2>. QED
      BY <1>0, <2>1, <2>2, MovesOn
  <1>4. Plain(B(c))' => Placed(c)'
    <2>1. (NoTrace(B(c))' <=> NoTrace(B(c))) /\ (Bare(B(c))' <=> Bare(B(c)))
      BY <1>0, <1>2, <1>3, TraceKept DEF B, Bare
    <2>2. /\ B(c)' = B(c) /\ jobs'[c] = jobs[c] /\ boxes' = boxes /\ profiles' = profiles
          /\ Plain(B(c))' => Placed(c)
      BY <1>1, <1>2 DEF B
    <2>. QED
      BY <1>0, <1>3, <2>1, <2>2 DEF Placed, B
  <1>5. DiskTypes'
    BY <1>0, <1>2 DEF DiskTypes
  <1>. QED
    BY <1>0, <1>1, <1>2, <1>3, <1>4, <1>5, LockedStep

LEMMA PullStep ==
    ASSUME FleetInv, NEW c \in Callers, pullImage(c)
    PROVE  FleetInv'
  <1>0. /\ CallTypes /\ DiskTypes /\ jobs[c].op \in {"create", "update"} /\ caller[c].at = "pull"
        /\ jobs[c].op \in Locked
    BY DEF FleetInv, pullImage, At, Locked
  <1>1. /\ Turn(c) /\ B(c) \in Bots /\ (Plain(B(c)) => Placed(c))
        /\ jobs[c].image \in Images /\ jobs[c].image # NoImage
    BY <1>0, Continues, JobFacts
  <1>2. UNCHANGED <<world, rows, routes, boxes, made, net, data, onNode, published, jobs, overtaken, unsettled>>
    BY DEF pullImage, history
  <1>3. ASSUME Moves(c), Plain(B(c))' PROVE (NoTrace(B(c))' <=> NoTrace(B(c))) /\ (Bare(B(c))' <=> Bare(B(c)))
    BY <1>0, <1>2, <1>3, TraceKept DEF B, Bare
  <1>4. CASE jobs[c].image # Malformed /\ pulled' = (IF jobs[c].image = Tag THEN published ELSE pulled)
             /\ UNCHANGED <<faults, queue>>
             /\ IF jobs[c].op = "update"
                THEN profiles' = [profiles EXCEPT ![B(c)] = jobs[c].image]
                     /\ To(c, IF caller[c].was THEN "stop" ELSE "remove")
                ELSE To(c, "network") /\ UNCHANGED profiles
    <2>. PICK w : w = IF jobs[c].op # "update" THEN "network" ELSE IF caller[c].was THEN "stop" ELSE "remove"
      OBVIOUS
    <2>1. To(c, w) /\ w \in {"network", "stop", "remove"} /\ (w = "network" <=> jobs[c].op = "create")
      BY <1>0, <1>4
    <2>2. Moves(c) /\ caller'[c].at = w
      <3>1. w \in SpotsOf(jobs[c].op) \ {"idle", "begin", "done"}
        BY <1>0, <2>1 DEF SpotsOf
      <3>. QED
        BY <1>0, <1>4, <2>1, <3>1, MovesOn
    <2>3. /\ profiles' \in [Bots -> Images \cup {NoImage}] /\ \A b \in Bots \ {B(c)} : profiles'[b] = profiles[b]
          /\ jobs[c].op = "update" => profiles'[B(c)] = jobs[c].image
          /\ jobs[c].op = "create" => profiles' = profiles
      BY <1>0, <1>1, <1>4 DEF DiskTypes
    <2>4. Plain(B(c))' => Placed(c)'
      <3>. SUFFICES ASSUME Plain(B(c))'
                    PROVE  Placed(c)'
        OBVIOUS
      <3>1. Placed(c) /\ (Bare(B(c))' <=> Bare(B(c)))
        BY <1>1, <1>2, <1>3, <1>4, <2>2 DEF Plain, B
      <3>. QED
        BY <1>0, <1>2, <1>4, <2>1, <2>2, <2>3, <3>1 DEF Placed, B
    <2>5. DiskTypes'
      BY <1>0, <1>2, <1>4, <2>3 DEF DiskTypes
    <2>. QED
      BY <1>0, <1>1, <1>2, <1>4, <2>1, <2>2, <2>3, <2>4, <2>5, LockedStep
  <1>5. CASE (IF jobs[c].image = Malformed THEN UNCHANGED faults ELSE Refuse) /\ UNCHANGED <<pulled, profiles>>
             /\ IF jobs[c].op = "update" THEN Finish(c, FALSE) ELSE To(c, "undo") /\ UNCHANGED queue
    <2>1. /\ faults' \in Nat /\ (faults' = 0 => faults' = faults /\ faults = 0) /\ (Plain(B(c))' => Plain(B(c)))
      <3>1. faults' \in Nat /\ (faults' = 0 => faults' = faults /\ faults = 0)
        BY <1>0, <1>5 DEF Refuse, DiskTypes
      <3>. QED
        BY <1>2, <3>1 DEF Plain, B
    <2>2. DiskTypes'
      BY <1>0, <1>2, <1>5, <2>1 DEF DiskTypes
    <2>3. CASE jobs[c].op = "update"
      <3>1. Moves(c) /\ caller'[c].at = "done"
        BY <1>0, <1>5, <2>3, MovesOut
      <3>2. Plain(B(c))' => Settled(B(c))'
        BY <1>0, <1>1, <1>2, <1>5, <2>1, <2>3 DEF Placed, Settled, B
      <3>. QED
        BY <1>0, <1>1, <1>2, <1>5, <2>1, <2>2, <3>1, <3>2, LockedStep
    <2>4. CASE jobs[c].op = "create"
      <3>1. "undo" \in SpotsOf("create") \ {"idle", "begin", "done"} /\ "undo" \notin Pulled
        BY DEF SpotsOf, Pulled
      <3>2. Moves(c) /\ caller'[c].at = "undo"
        BY <1>0, <1>5, <2>4, <3>1, MovesOn
      <3>3. Plain(B(c))' => Placed(c)'
        BY <1>0, <1>1, <1>2, <1>3, <2>1, <2>4, <3>2 DEF Placed, B
      <3>. QED
        BY <1>0, <1>1, <1>2, <1>5, <2>1, <2>2, <3>2, <3>3, LockedStep
    <2>. QED
      BY <1>0, <2>3, <2>4
  <1>. QED
    BY <1>4, <1>5 DEF pullImage

LEMMA CreateContainerStep ==
    ASSUME FleetInv, NEW c \in Callers, createContainer(c)
    PROVE  FleetInv'
  <1>0. /\ CallTypes /\ DiskTypes /\ jobs[c].op \in {"create", "update"} /\ caller[c].at = "box"
        /\ jobs[c].op \in Locked /\ jobs[c].image # Malformed
    BY DEF FleetInv, createContainer, At, Locked, CallTypes, Pulled
  <1>1. /\ Turn(c) /\ B(c) \in Bots /\ (Plain(B(c)) => Placed(c))
        /\ jobs[c].image \in Images /\ jobs[c].image # NoImage
    BY <1>0, Continues, JobFacts
  <1>2. UNCHANGED <<world, profiles, rows, routes, net, data, pulled, onNode, published, jobs, overtaken, unsettled>>
    BY DEF createContainer, disk, history
  <1>3. CASE /\ boxes[B(c)] = NoBox /\ made' = made + 1 /\ UNCHANGED faults
             /\ boxes' = [boxes EXCEPT ![B(c)] = [id |-> made + 1, image |-> jobs[c].image,
                                                  digest |-> Resolve(jobs[c].image), up |-> FALSE]]
             /\ CASE jobs[c].op = "create" -> To(c, "register") /\ UNCHANGED queue
                  [] jobs[c].op = "update" /\ caller[c].was -> To(c, "start") /\ UNCHANGED queue
                  [] OTHER -> Finish(c, TRUE)
    <2>. PICK box : box = [id |-> made + 1, image |-> jobs[c].image, digest |-> Resolve(jobs[c].image), up |-> FALSE]
      OBVIOUS
    <2>1. boxes' = [boxes EXCEPT ![B(c)] = box] /\ box.image = jobs[c].image /\ box \in BoxRows
      <3>1. Resolve(jobs[c].image) \in Nat /\ made + 1 \in Nat \ {0}
        BY <1>0, <1>1 DEF DiskTypes, Images, Resolve, Malformed
      <3>. QED
        BY <1>1, <1>3, <3>1 DEF BoxRows
    <2>2. /\ boxes' \in [Bots -> BoxRows] /\ boxes'[B(c)].image = jobs[c].image
          /\ \A b \in Bots \ {B(c)} : boxes'[b] = boxes[b]
      BY <1>0, <1>1, <2>1 DEF DiskTypes
    <2>3. DiskTypes'
      BY <1>0, <1>2, <1>3, <2>2 DEF DiskTypes
    <2>4. (Plain(B(c))' => Plain(B(c))) /\ B(c)' = B(c)
      BY <1>2, <1>3 DEF Plain, B
    <2>5. Plain(B(c))' => profiles'[B(c)] = jobs[c].image
      BY <1>0, <1>1, <1>2, <2>4 DEF Placed
    <2>6. CASE jobs[c].op = "update" /\ caller[c].was = FALSE
      <3>1. Moves(c) /\ caller'[c].at = "done"
        BY <1>0, <1>3, <2>6, MovesOut
      <3>2. Plain(B(c))' => Settled(B(c))'
        BY <1>1, <2>2, <2>4, <2>5 DEF Settled
      <3>. QED
        BY <1>0, <1>1, <1>2, <1>3, <2>2, <2>3, <3>1, <3>2, LockedStep
    <2>7. ASSUME NEW w \in {"register", "start"}, To(c, w), queue' = queue,
                 w = "register" <=> jobs[c].op = "create"
          PROVE  FleetInv'
      <3>1. w \in SpotsOf(jobs[c].op) \ {"idle", "begin", "done"}
        BY <1>0, <2>7 DEF SpotsOf
      <3>2. Moves(c) /\ caller'[c].at = w
        BY <1>0, <2>7, <3>1, MovesOn
      <3>3. Plain(B(c))' => Placed(c)'
        BY <1>2, <2>2, <2>4, <2>5, <2>7, <3>2 DEF Placed
      <3>. QED
        BY <1>0, <1>1, <1>2, <1>3, <2>2, <2>3, <2>7, <3>2, <3>3, LockedStep
    <2>8. CASE jobs[c].op = "create"
      <3>1. To(c, "register") /\ queue' = queue
        BY <1>3, <2>8
      <3>. QED
        BY <2>7, <2>8, <3>1
    <2>9. CASE jobs[c].op = "update" /\ caller[c].was # FALSE
      <3>1. To(c, "start") /\ queue' = queue
        <4>1. caller[c].was
          BY <1>0, <2>9 DEF CallTypes, CallerRows
        <4>. QED
          BY <1>3, <2>9, <4>1
      <3>. QED
        BY <2>7, <2>9, <3>1
    <2>. QED
      BY <1>0, <2>6, <2>8, <2>9
  <1>4. CASE /\ IF boxes[B(c)] = NoBox THEN Refuse ELSE UNCHANGED faults
             /\ To(c, IF jobs[c].op = "create" THEN "undo" ELSE "restore")
             /\ UNCHANGED <<boxes, made, queue>>
    <2>. PICK w : w = IF jobs[c].op = "create" THEN "undo" ELSE "restore"
      OBVIOUS
    <2>1. w \in SpotsOf(jobs[c].op) \ {"idle", "begin", "done"} /\ w \notin Pulled
      BY <1>0 DEF SpotsOf, Pulled
    <2>2. Moves(c) /\ caller'[c].at = w
      BY <1>0, <1>4, <2>1, MovesOn
    <2>3. faults' \in Nat /\ (faults' = 0 => faults' = faults /\ faults = 0)
      BY <1>0, <1>4 DEF Refuse, DiskTypes
    <2>4. ~Plain(B(c))'
      <3>1. boxes[B(c)] # NoBox => ~Plain(B(c))
        BY <1>0, <1>1 DEF Placed
      <3>2. boxes[B(c)] = NoBox => faults' # 0
        BY <1>0, <1>4 DEF Refuse, DiskTypes
      <3>. QED
        BY <1>2, <2>3, <3>1, <3>2 DEF Plain, B
    <2>5. DiskTypes'
      BY <1>0, <1>2, <1>4, <2>3 DEF DiskTypes
    <2>. QED
      BY <1>0, <1>1, <1>2, <1>4, <2>2, <2>3, <2>4, <2>5, LockedStep
  <1>. QED
    BY <1>3, <1>4 DEF createContainer

LEMMA UndoStep ==
    ASSUME FleetInv, NEW c \in Callers, undoCreate(c)
    PROVE  FleetInv'
  <1>0. CallTypes /\ DiskTypes /\ jobs[c].op = "create" /\ caller[c].at = "undo" /\ jobs[c].op \in Locked
    BY DEF FleetInv, undoCreate, At, Locked
  <1>1. Turn(c) /\ B(c) \in Bots /\ (Plain(B(c)) => Placed(c))
    BY <1>0, Continues, JobFacts
  <1>2. /\ UNCHANGED <<world, rows, routes, boxes, made, net, data, pulled, onNode, published, jobs, faults,
                       overtaken, unsettled>>
        /\ profiles' = [profiles EXCEPT ![B(c)] = NoImage] /\ Finish(c, FALSE)
    BY DEF undoCreate, docker, history
  <1>3. Moves(c) /\ caller'[c].at = "done"
    BY <1>0, <1>2, MovesOut
  <1>4. /\ profiles' \in [Bots -> Images \cup {NoImage}] /\ profiles'[B(c)] = NoImage
        /\ \A b \in Bots \ {B(c)} : profiles'[b] = profiles[b]
    BY <1>0, <1>1, <1>2 DEF DiskTypes
  <1>5. Plain(B(c))' => Settled(B(c))'
    <2>1. (NoTrace(B(c))' <=> NoTrace(B(c))) /\ (Plain(B(c))' => Plain(B(c))) /\ B(c)' = B(c)
      BY <1>0, <1>2, <1>3, TraceKept DEF B, Plain
    <2>2. Plain(B(c))' => boxes[B(c)] = NoBox /\ Bare(B(c))
      BY <1>0, <1>1, <2>1 DEF Placed
    <2>. QED
      BY <1>2, <1>4, <2>1, <2>2 DEF Settled, Bare, NoBox
  <1>6. DiskTypes'
    BY <1>0, <1>2, <1>4 DEF DiskTypes
  <1>. QED
    BY <1>0, <1>1, <1>2, <1>3, <1>4, <1>5, <1>6, LockedStep

LEMMA RegisterStep ==
    ASSUME FleetInv, NEW c \in Callers, register(c)
    PROVE  FleetInv'
  <1>0. /\ CallTypes /\ DiskTypes /\ jobs[c].op = "create" /\ caller[c].at = "register" /\ jobs[c].op \in Locked
    BY DEF FleetInv, register, At, Locked
  <1>1. /\ Turn(c) /\ B(c) \in Bots /\ (Plain(B(c)) => Placed(c))
        /\ jobs[c].image \in Images /\ jobs[c].image # NoImage
    BY <1>0, Continues, JobFacts
  <1>2. /\ UNCHANGED <<world, profiles, routes, boxes, made, net, data, pulled, onNode, published, jobs,
                       overtaken, unsettled>>
        /\ Finish(c, TRUE)
    BY DEF register, docker, history
  <1>a. faults' \in Nat /\ (faults' = 0 => faults = 0)
    BY <1>0 DEF register, Refuse, DiskTypes
  <1>b. rows' \in {rows, [rows EXCEPT ![B(c)] = IF @ = "none" THEN "inactive" ELSE @]}
    BY DEF register
  <1>3. Moves(c) /\ caller'[c].at = "done"
    BY <1>0, <1>2, MovesOut
  <1>4. /\ rows' \in [Bots -> {"none", "node", "inactive", "active", "suspended"}]
        /\ rows'[B(c)] = "node" => rows[B(c)] = "node"
        /\ \A b \in Bots \ {B(c)} : rows'[b] = rows[b]
    BY <1>0, <1>1, <1>2, <1>a, <1>b DEF DiskTypes
  <1>5. Plain(B(c))' => Settled(B(c))'
    <2>1. (Plain(B(c))' => Plain(B(c))) /\ B(c)' = B(c)
      BY <1>2, <1>a, <1>b DEF B, Plain
    <2>. QED
      BY <1>0, <1>1, <1>2, <2>1 DEF Settled, Placed
  <1>6. DiskTypes'
    BY <1>0, <1>2, <1>a, <1>4 DEF DiskTypes
  <1>. QED
    BY <1>0, <1>1, <1>2, <1>a, <1>3, <1>4, <1>5, <1>6, LockedStep

-----------------------------------------------------------------------------
(* FleetManager.update                                                      *)

LEMMA UpdateStep ==
    ASSUME FleetInv, NEW c \in Callers, update(c)
    PROVE  FleetInv'
  <1>0. /\ CallTypes /\ DiskTypes /\ jobs[c].op \in {"update", "describe"} /\ Turn(c)
        /\ (Plain(B(c)) => Settled(B(c)))
    <2>1. {"update", "describe"} \in SUBSET Locked
      BY DEF Locked
    <2>. QED
      BY <2>1, Begins DEF FleetInv, update, At
  <1>1. B(c) \in Bots /\ jobs[c].image \in Images /\ jobs[c].op \in Locked /\ jobs[c].image # NoImage
    BY <1>0, JobFacts DEF Locked
  <1>2. /\ UNCHANGED <<world, rows, routes, boxes, made, net, data, pulled, onNode, published, jobs, faults,
                       overtaken, unsettled>>
        /\ (Plain(B(c))' => Plain(B(c))) /\ B(c)' = B(c)
    BY DEF update, docker, history, Plain, B
  <1>3. CASE profiles[B(c)] = NoImage \/ jobs[c].op = "describe" \/ boxes[B(c)] = NoBox
    <2>1. PICK ok \in BOOLEAN :
            /\ Finish(c, ok)
            /\ \/ profiles' = profiles
               \/ /\ boxes[B(c)] = NoBox /\ profiles[B(c)] # NoImage
                  /\ profiles' = [profiles EXCEPT ![B(c)] = jobs[c].image]
      <3>1. [profiles EXCEPT ![B(c)] = @] = profiles
        BY <1>0 DEF DiskTypes
      <3>2. CASE profiles[B(c)] = NoImage
        BY <3>2 DEF update
      <3>3. CASE profiles[B(c)] # NoImage /\ jobs[c].op = "describe"
        BY <3>1, <3>3 DEF update
      <3>4. CASE profiles[B(c)] # NoImage /\ jobs[c].op # "describe" /\ boxes[B(c)] = NoBox
        BY <3>4 DEF update
      <3>. QED
        BY <1>3, <3>2, <3>3, <3>4
    <2>2. Moves(c) /\ caller'[c].at = "done"
      BY <1>0, <1>1, <2>1, MovesOut
    <2>3. profiles' \in [Bots -> Images \cup {NoImage}] /\ \A b \in Bots \ {B(c)} : profiles'[b] = profiles[b]
      BY <1>0, <1>1, <2>1 DEF DiskTypes
    <2>4. Plain(B(c))' => Settled(B(c))'
      <3>1. NoTrace(B(c))' <=> NoTrace(B(c))
        BY <1>1, <1>2, <2>2, TraceKept
      <3>2. Plain(B(c))' => profiles' = profiles
        BY <1>0, <1>2, <2>1 DEF Settled, NoBox
      <3>. QED
        BY <1>0, <1>2, <3>1, <3>2 DEF Settled, Bare
    <2>5. DiskTypes'
      BY <1>0, <1>2, <2>3 DEF DiskTypes
    <2>. QED
      BY <1>0, <1>1, <1>2, <2>2, <2>3, <2>4, <2>5, LockedStep
  <1>4. CASE profiles[B(c)] # NoImage /\ jobs[c].op = "update" /\ boxes[B(c)] # NoBox
    <2>. PICK row : row = [at |-> "pull", handle |-> boxes[B(c)].id, was |-> boxes[B(c)].up,
                           old |-> profiles[B(c)], ok |-> FALSE]
      OBVIOUS
    <2>1. caller' = [caller EXCEPT ![c] = row] /\ profiles' = profiles /\ queue' = queue
      <3>1. ~(profiles[B(c)] # NoImage /\ (jobs[c].op = "describe" \/ boxes[B(c)] = NoBox))
        BY <1>4
      <3>. QED
        BY <1>4, <3>1 DEF update
    <2>2. row \in CallerRows /\ row.at = "pull"
      <3>1. boxes[B(c)] \in BoxRows /\ profiles[B(c)] \in Images \cup {NoImage}
        BY <1>0, <1>1 DEF DiskTypes
      <3>. QED
        BY <1>4, <3>1 DEF BoxRows, CallerRows, Spots
    <2>3. Moves(c) /\ caller'[c].at = "pull"
      <3>1. "pull" \in SpotsOf(jobs[c].op) \ {"idle", "begin"} /\ "pull" \notin Pulled
        BY <1>4 DEF SpotsOf, Pulled
      <3>2. /\ caller' \in [Callers -> CallerRows] /\ caller'[c] = row
            /\ \A d \in Callers : d # c => caller'[d] = caller[d]
        BY <1>0, <2>1, <2>2 DEF CallTypes
      <3>. QED
        BY <2>1, <2>2, <3>1, <3>2 DEF Moves
    <2>4. Plain(B(c))' => Placed(c)'
      <3>1. Plain(B(c))' => boxes[B(c)].image = profiles[B(c)]
        BY <1>0, <1>2 DEF Settled
      <3>. QED
        BY <1>2, <1>4, <2>1, <2>3, <3>1 DEF Placed
    <2>5. DiskTypes'
      BY <1>0, <1>2, <2>1 DEF DiskTypes
    <2>. QED
      BY <1>0, <1>1, <1>2, <2>1, <2>3, <2>4, <2>5, LockedStep
  <1>. QED
    BY <1>0, <1>3, <1>4

LEMMA ReplaceStep ==
    ASSUME FleetInv, NEW c \in Callers, replaceContainer(c)
    PROVE  FleetInv'
  <1>0. /\ CallTypes /\ DiskTypes /\ jobs[c].op = "update" /\ caller[c].at \in {"stop", "remove", "start"}
        /\ jobs[c].op \in Locked /\ jobs[c].image # Malformed
    BY DEF FleetInv, replaceContainer, At, Locked, CallTypes, Pulled
  <1>1. /\ Turn(c) /\ B(c) \in Bots /\ (Plain(B(c)) => Placed(c))
        /\ jobs[c].image \in Images /\ jobs[c].image # NoImage
    BY <1>0, Continues, JobFacts
  <1>2. /\ UNCHANGED <<world, profiles, rows, routes, made, net, pulled, onNode, published, jobs, overtaken, unsettled>>
        /\ B(c)' = B(c)
    BY DEF replaceContainer, disk, history, B
  <1>. PICK at : at = caller[c].at
    OBVIOUS
  <1>3. CASE /\ UNCHANGED faults
             /\ boxes' = [boxes EXCEPT ![B(c)] = IF at = "remove" THEN NoBox ELSE [@ EXCEPT !.up = (at = "start")]]
             /\ data' = IF at = "start" THEN Migrated(B(c)) ELSE data
             /\ at \in {"stop", "start"} => boxes[B(c)] # NoBox
             /\ CASE at = "stop" -> To(c, "remove") /\ UNCHANGED queue
                  [] at = "remove" -> To(c, "network") /\ UNCHANGED queue
                  [] OTHER -> Finish(c, TRUE)
    <2>. PICK box : box = IF at = "remove" THEN NoBox ELSE [boxes[B(c)] EXCEPT !.up = (at = "start")]
      OBVIOUS
    <2>1. /\ boxes' = [boxes EXCEPT ![B(c)] = box] /\ boxes[B(c)] \in BoxRows
          /\ at \in {"stop", "start"} => box.image = boxes[B(c)].image /\ box \in BoxRows
          /\ at = "remove" => box = NoBox /\ box \in BoxRows
      <3>1. boxes[B(c)] \in BoxRows
        BY <1>0, <1>1 DEF DiskTypes
      <3>2. at \in {"stop", "start"} => box.image = boxes[B(c)].image /\ box \in BoxRows
        BY <1>3, <3>1 DEF BoxRows
      <3>. QED
        BY <1>3, <3>1, <3>2 DEF BoxRows
    <2>2. boxes' \in [Bots -> BoxRows] /\ boxes'[B(c)] = box /\ \A b \in Bots \ {B(c)} : boxes'[b] = boxes[b]
      BY <1>0, <1>1, <2>1 DEF DiskTypes
    <2>3. DiskTypes'
      <3>1. data' \in [Bots -> Nat]
        <4>1. boxes[B(c)].digest \in Nat
          BY <2>1 DEF BoxRows, NoBox
        <4>. QED
          BY <1>0, <1>1, <1>3, <4>1 DEF DiskTypes, Migrated
      <3>. QED
        BY <1>0, <1>2, <1>3, <2>2, <3>1 DEF DiskTypes
    <2>4. Plain(B(c))' => Placed(c)
      BY <1>1, <1>2, <1>3 DEF Plain
    <2>5. CASE at \in {"stop", "remove"}
      <3>. PICK w : w = IF at = "stop" THEN "remove" ELSE "network"
        OBVIOUS
      <3>1. To(c, w) /\ queue' = queue
        BY <1>3, <2>5
      <3>2. w \in SpotsOf(jobs[c].op) \ {"idle", "begin", "done"}
        BY <1>0 DEF SpotsOf
      <3>3. Moves(c) /\ caller'[c].at = w
        BY <1>0, <3>1, <3>2, MovesOn
      <3>4. Plain(B(c))' => Placed(c)'
        BY <1>0, <1>2, <2>1, <2>2, <2>4, <2>5, <3>3 DEF Placed
      <3>. QED
        BY <1>0, <1>1, <1>2, <1>3, <2>2, <2>3, <2>5, <3>3, <3>4, LockedStep
    <2>6. CASE at = "start"
      <3>1. Finish(c, TRUE)
        BY <1>3, <2>6
      <3>2. Moves(c) /\ caller'[c].at = "done"
        BY <1>0, <3>1, MovesOut
      <3>3. Plain(B(c))' => Settled(B(c))'
        <4>1. Plain(B(c))' => boxes[B(c)].image = jobs[c].image /\ profiles[B(c)] = jobs[c].image
          BY <2>4, <2>6 DEF Placed
        <4>. QED
          BY <1>1, <1>2, <2>1, <2>2, <2>6, <4>1 DEF Settled
      <3>. QED
        BY <1>0, <1>1, <1>2, <1>3, <2>2, <2>3, <3>2, <3>3, LockedStep
    <2>. QED
      BY <1>0, <2>5, <2>6
  <1>4. CASE /\ faults' \in Nat /\ (faults' = 0 => faults = 0)
             /\ To(c, "restore") /\ UNCHANGED <<boxes, data, queue>>
    <2>1. "restore" \in SpotsOf(jobs[c].op) \ {"idle", "begin", "done"} /\ "restore" \notin Pulled
      BY <1>0 DEF SpotsOf, Pulled
    <2>2. Moves(c) /\ caller'[c].at = "restore"
      BY <1>0, <1>4, <2>1, MovesOn
    <2>3. Placed(c)'
      BY <1>0, <1>2, <2>2 DEF Placed
    <2>4. DiskTypes'
      BY <1>0, <1>2, <1>4 DEF DiskTypes
    <2>. QED
      BY <1>0, <1>1, <1>2, <1>4, <2>2, <2>3, <2>4, LockedStep
  <1>. PICK works \in BOOLEAN :
         works = CASE at = "stop" -> boxes[B(c)].id = caller[c].handle /\ boxes[B(c)].up
                   [] at = "remove" -> boxes[B(c)].id = caller[c].handle /\ ~boxes[B(c)].up
                   [] OTHER -> boxes[B(c)] # NoBox /\ ~boxes[B(c)].up /\ (world.isolated => net)
    OBVIOUS
  <1>5. \/ /\ works /\ UNCHANGED faults
           /\ boxes' = [boxes EXCEPT ![B(c)] = IF at = "remove" THEN NoBox ELSE [@ EXCEPT !.up = (at = "start")]]
           /\ data' = IF at = "start" THEN Migrated(B(c)) ELSE data
           /\ CASE at = "stop" -> To(c, "remove") /\ UNCHANGED queue
                [] at = "remove" -> To(c, "network") /\ UNCHANGED queue
                [] OTHER -> Finish(c, TRUE)
        \/ /\ IF works THEN Refuse ELSE UNCHANGED faults
           /\ To(c, "restore")
           /\ UNCHANGED <<boxes, data, queue>>
    BY <1>0 DEF replaceContainer
  <1>6. works => (at \in {"stop", "start"} => boxes[B(c)] # NoBox)
    <2>1. boxes[B(c)] = NoBox => ~boxes[B(c)].up
      BY DEF NoBox
    <2>2. CASE at = "stop"
      BY <2>1, <2>2
    <2>3. CASE at = "start"
      BY <2>3
    <2>. QED
      BY <2>2, <2>3
  <1>7. (IF works THEN Refuse ELSE UNCHANGED faults) => faults' \in Nat /\ (faults' = 0 => faults = 0)
    BY <1>0 DEF Refuse, DiskTypes
  <1>. QED
    BY <1>3, <1>4, <1>5, <1>6, <1>7

LEMMA RestoreStep ==
    ASSUME FleetInv, NEW c \in Callers, restoreProfile(c)
    PROVE  FleetInv'
  <1>0. CallTypes /\ DiskTypes /\ jobs[c].op = "update" /\ caller[c].at = "restore" /\ jobs[c].op \in Locked
    BY DEF FleetInv, restoreProfile, At, Locked
  <1>1. Turn(c) /\ B(c) \in Bots
    BY <1>0, Continues, JobFacts
  <1>2. /\ UNCHANGED <<world, rows, routes, boxes, made, net, data, pulled, onNode, published, jobs, faults, overtaken>>
        /\ profiles' = [profiles EXCEPT ![B(c)] = caller[c].old] /\ Finish(c, FALSE)
        /\ unsettled' = unsettled \cup {B(c)} /\ B(c)' = B(c)
    BY DEF restoreProfile, docker, B
  <1>3. Moves(c) /\ caller'[c].at = "done"
    BY <1>0, <1>2, MovesOut
  <1>4. /\ profiles' \in [Bots -> Images \cup {NoImage}]
        /\ \A b \in Bots \ {B(c)} : profiles'[b] = profiles[b]
    <2>1. caller[c].old \in Images \cup {NoImage}
      BY <1>0 DEF CallTypes, CallerRows
    <2>. QED
      BY <1>0, <1>1, <1>2, <2>1 DEF DiskTypes
  <1>5. ~Plain(B(c))'
    BY <1>2 DEF Plain
  <1>6. DiskTypes'
    BY <1>0, <1>1, <1>2, <1>4 DEF DiskTypes
  <1>. QED
    BY <1>0, <1>1, <1>2, <1>3, <1>4, <1>5, <1>6, LockedStep

-----------------------------------------------------------------------------
(* FleetManager.remove                                                      *)

LEMMA RemoveStep ==
    ASSUME FleetInv, NEW c \in Callers, remove(c)
    PROVE  FleetInv'
  <1>0. /\ CallTypes /\ DiskTypes /\ jobs[c].op = "remove" /\ Turn(c) /\ (Plain(B(c)) => Settled(B(c)))
    <2>1. {"remove"} \in SUBSET Locked
      BY DEF Locked
    <2>. QED
      BY <2>1, Begins DEF FleetInv, remove, At
  <1>1. B(c) \in Bots /\ jobs[c].op \in Locked
    BY <1>0, JobFacts DEF Locked
  <1>2. /\ UNCHANGED <<world, profiles, rows, routes, boxes, made, net, data, pulled, onNode, published, jobs, faults,
                       overtaken, unsettled>>
        /\ (Plain(B(c))' => Plain(B(c))) /\ B(c)' = B(c)
    BY DEF remove, disk, docker, history, Plain, B
  <1>3. DiskTypes'
    BY <1>0, <1>2 DEF DiskTypes
  <1>4. CASE Finish(c, FALSE)
    <2>1. Moves(c) /\ caller'[c].at = "done"
      BY <1>0, <1>1, <1>4, MovesOut
    <2>2. NoTrace(B(c))' <=> NoTrace(B(c))
      BY <1>1, <1>2, <2>1, TraceKept
    <2>3. Plain(B(c))' => Settled(B(c))'
      BY <1>0, <1>2, <2>2 DEF Settled, Bare
    <2>. QED
      BY <1>0, <1>1, <1>2, <1>3, <2>1, <2>3, LockedStep
  <1>5. ASSUME NEW w \in {"send", "count", "kill"}, To(c, w), queue' = queue, profiles[B(c)] # NoImage,
               w = "send" => rows[B(c)] = "node", w = "count" => boxes[B(c)] = NoBox
        PROVE  FleetInv'
    <2>1. w \in SpotsOf(jobs[c].op) \ {"idle", "begin", "done"} /\ w \notin Pulled
      BY <1>0, <1>5 DEF SpotsOf, Pulled
    <2>2. Moves(c) /\ caller'[c].at = w
      BY <1>0, <1>5, <2>1, MovesOn
    <2>3. Plain(B(c))' => w = "kill"
      <3>1. Plain(B(c))' => rows[B(c)] # "node" /\ boxes[B(c)] # NoBox
        BY <1>0, <1>1, <1>2, <1>5 DEF FleetInv, BotRight, Plain, Settled, NoBox
      <3>. QED
        BY <1>5, <3>1
    <2>4. Plain(B(c))' => Placed(c)'
      BY <1>0, <1>2, <2>2, <2>3 DEF Placed
    <2>. QED
      BY <1>0, <1>1, <1>2, <1>3, <2>2, <2>4, <1>5, LockedStep
  <1>6. \/ Finish(c, FALSE)
        \/ \E w \in {"send", "count", "kill"} : /\ To(c, w) /\ queue' = queue /\ profiles[B(c)] # NoImage
                                                /\ w = "send" => rows[B(c)] = "node"
                                                /\ w = "count" => boxes[B(c)] = NoBox
    BY DEF remove, resolveNodeId
  <1>. QED
    BY <1>4, <1>5, <1>6

LEMMA KillStep ==
    ASSUME FleetInv, NEW c \in Callers, removeInstance(c)
    PROVE  FleetInv'
  <1>0. CallTypes /\ DiskTypes /\ jobs[c].op = "remove" /\ caller[c].at = "kill" /\ jobs[c].op \in Locked
    BY DEF FleetInv, removeInstance, At, Locked
  <1>1. Turn(c) /\ B(c) \in Bots
    BY <1>0, Continues, JobFacts
  <1>2. /\ UNCHANGED <<world, profiles, rows, made, net, data, pulled, onNode, published, queue, jobs, unsettled>>
        /\ To(c, "count") /\ B(c)' = B(c)
        /\ overtaken' = IF \E d \in Callers : At(d, "act", Setups) /\ B(d) = B(c)
                        THEN overtaken \cup {B(c)} ELSE overtaken
    BY DEF removeInstance, B
  <1>3. \/ boxes' = [boxes EXCEPT ![B(c)] = NoBox] /\ routes' = routes \ {B(c)} /\ faults' = faults
        \/ Refuse /\ boxes' = [boxes EXCEPT ![B(c)].up = FALSE] /\ routes' = routes
    BY DEF removeInstance
  <1>4. Moves(c) /\ caller'[c].at = "count"
    <2>1. "count" \in SpotsOf(jobs[c].op) \ {"idle", "begin", "done"} /\ "count" \notin Pulled
      BY <1>0 DEF SpotsOf, Pulled
    <2>2. To(c, "count") /\ queue' = queue
      BY <1>2
    <2>. QED
      BY <1>0, <2>1, <2>2, MovesOn
  <1>5. /\ \A b \in Bots \ {B(c)} : /\ boxes'[b] = boxes[b]
                                    /\ b \in routes' <=> b \in routes
                                    /\ b \in overtaken' <=> b \in overtaken
        /\ boxes' \in [Bots -> BoxRows]
        /\ faults' \in Nat /\ (faults' = 0 => faults = 0)
    <2>1. CASE boxes' = [boxes EXCEPT ![B(c)] = NoBox] /\ routes' = routes \ {B(c)} /\ faults' = faults
      BY <1>0, <1>1, <1>2, <2>1 DEF DiskTypes, BoxRows
    <2>2. CASE Refuse /\ boxes' = [boxes EXCEPT ![B(c)].up = FALSE] /\ routes' = routes
      <3>. PICK box : box = [boxes[B(c)] EXCEPT !.up = FALSE]
        OBVIOUS
      <3>1. boxes[B(c)] \in BoxRows
        BY <1>0, <1>1 DEF DiskTypes
      <3>2. box \in BoxRows
        <4>1. CASE boxes[B(c)] = NoBox
          <5>1. NoBox \in [id : Nat, image : {NoImage}, digest : Nat, up : {FALSE}]
            BY DEF NoBox
          <5>2. box = NoBox
            BY <4>1, <5>1
          <5>. QED
            BY <5>2 DEF BoxRows
        <4>2. CASE boxes[B(c)] # NoBox
          BY <3>1, <4>2 DEF BoxRows
        <4>. QED
          BY <4>1, <4>2
      <3>3. boxes' = [boxes EXCEPT ![B(c)] = box]
        BY <2>2
      <3>4. faults' \in Nat /\ (faults' = 0 => faults = 0)
        BY <1>0, <2>2 DEF Refuse, DiskTypes
      <3>. QED
        BY <1>0, <1>1, <1>2, <2>2, <3>2, <3>3, <3>4 DEF DiskTypes
    <2>. QED
      BY <1>3, <2>1, <2>2
  <1>6. DiskTypes'
    <2>1. routes' \subseteq Bots /\ overtaken' \subseteq Bots
      BY <1>0, <1>1, <1>2, <1>3 DEF DiskTypes
    <2>. QED
      BY <1>0, <1>2, <1>5, <2>1 DEF DiskTypes
  <1>7. Plain(B(c))' => Placed(c)'
    <2>. SUFFICES ASSUME faults' = 0
                  PROVE  Placed(c)'
      BY DEF Plain
    <2>1. boxes'[B(c)] = NoBox /\ B(c) \notin routes'
      BY <1>0, <1>1, <1>3 DEF Refuse, DiskTypes
    <2>2. jobs[c].op \notin Setups
      BY <1>0 DEF Setups
    <2>3. \A d \in Callers : B(d)' = B(d) /\ (At(d, "act", Setups)' => At(d, "act", Setups))
      BY <1>2, <1>4, <2>2 DEF At, Moves, B
    <2>4. NoTrace(B(c))'
      BY <1>2, <2>1, <2>3 DEF NoTrace
    <2>. QED
      BY <1>0, <1>2, <1>4, <2>1, <2>4 DEF Placed
  <1>. QED
    BY <1>0, <1>1, <1>2, <1>4, <1>5, <1>6, <1>7, LockedStep

\* The two steps between the container and the rows.
LEMMA NetStep ==
    ASSUME FleetInv, NEW c \in Callers, getContainerCount(c) \/ removeTenantNetwork(c)
    PROVE  FleetInv'
  <1>0. /\ CallTypes /\ DiskTypes /\ jobs[c].op = "remove" /\ caller[c].at \in {"count", "unnet"}
        /\ jobs[c].op \in Locked
    BY DEF FleetInv, getContainerCount, removeTenantNetwork, At, Locked
  <1>1. Turn(c) /\ B(c) \in Bots /\ (Plain(B(c)) => Placed(c))
    BY <1>0, Continues, JobFacts
  <1>2. /\ UNCHANGED <<world, profiles, rows, routes, boxes, made, data, pulled, onNode, published, jobs,
                       overtaken, unsettled>>
        /\ B(c)' = B(c)
    BY DEF getContainerCount, removeTenantNetwork, disk, docker, history, B
  <1>3. faults' \in Nat /\ (faults' = 0 => faults = 0)
    <2>1. faults' = faults \/ Refuse
      BY DEF getContainerCount, removeTenantNetwork
    <2>. QED
      BY <1>0, <2>1 DEF Refuse, DiskTypes
  <1>4. DiskTypes'
    BY <1>0, <1>2, <1>3 DEF DiskTypes
  <1>5. ASSUME NEW w \in {"unnet", "delete"}, To(c, w), queue' = queue
        PROVE  FleetInv'
    <2>1. w \in SpotsOf(jobs[c].op) \ {"idle", "begin", "done"} /\ w \notin Pulled
      BY <1>0, <1>5 DEF SpotsOf, Pulled
    <2>2. Moves(c) /\ caller'[c].at = w
      BY <1>0, <1>5, <2>1, MovesOn
    <2>3. (NoTrace(B(c))' <=> NoTrace(B(c))) /\ (Plain(B(c))' => Plain(B(c)))
      BY <1>0, <1>2, <1>3, <2>2, TraceKept DEF Plain
    <2>4. Plain(B(c))' => boxes[B(c)] = NoBox /\ NoTrace(B(c))
      BY <1>0, <1>1, <2>3 DEF Placed
    <2>5. Plain(B(c))' => Placed(c)'
      BY <1>0, <1>2, <1>5, <2>2, <2>3, <2>4 DEF Placed
    <2>. QED
      BY <1>0, <1>1, <1>2, <1>3, <1>4, <1>5, <2>2, <2>5, LockedStep
  <1>6. CASE Refuse /\ Finish(c, FALSE)
    <2>1. Moves(c) /\ caller'[c].at = "done"
      BY <1>0, <1>6, MovesOut
    <2>2. ~Plain(B(c))'
      BY <1>0, <1>6 DEF Refuse, Plain, DiskTypes
    <2>. QED
      BY <1>0, <1>1, <1>2, <1>3, <1>4, <2>1, <2>2, LockedStep
  <1>7. \/ \E w \in {"unnet", "delete"} : To(c, w) /\ queue' = queue
        \/ Refuse /\ Finish(c, FALSE)
    BY DEF getContainerCount, removeTenantNetwork
  <1>. QED
    BY <1>5, <1>6, <1>7

LEMMA DeleteStep ==
    ASSUME FleetInv, NEW c \in Callers, deleteBot(c)
    PROVE  FleetInv'
  <1>0. CallTypes /\ DiskTypes /\ jobs[c].op = "remove" /\ caller[c].at = "delete" /\ jobs[c].op \in Locked
    BY DEF FleetInv, deleteBot, At, Locked
  <1>1. Turn(c) /\ B(c) \in Bots /\ (Plain(B(c)) => Placed(c))
    BY <1>0, Continues, JobFacts
  <1>2. /\ UNCHANGED <<world, routes, boxes, made, net, data, pulled, onNode, published, jobs, overtaken, unsettled>>
        /\ profiles' = [profiles EXCEPT ![B(c)] = NoImage] /\ Finish(c, TRUE) /\ B(c)' = B(c)
    BY DEF deleteBot, docker, history, B
  <1>3. \/ rows' = [rows EXCEPT ![B(c)] = "none"] /\ faults' = faults
        \/ Refuse /\ rows' = rows
    BY DEF deleteBot
  <1>4. faults' \in Nat /\ (faults' = 0 => faults' = faults)
    BY <1>0, <1>3 DEF Refuse, DiskTypes
  <1>5. Moves(c) /\ caller'[c].at = "done"
    BY <1>0, <1>2, MovesOut
  <1>6. /\ profiles' \in [Bots -> Images \cup {NoImage}] /\ profiles'[B(c)] = NoImage
        /\ \A b \in Bots \ {B(c)} : profiles'[b] = profiles[b]
    BY <1>0, <1>1, <1>2 DEF DiskTypes
  <1>7. /\ rows' \in [Bots -> {"none", "node", "inactive", "active", "suspended"}]
        /\ \A b \in Bots \ {B(c)} : rows'[b] = rows[b]
        /\ rows'[B(c)] \in {"none", rows[B(c)]}
        /\ faults' = 0 => rows'[B(c)] = "none"
    BY <1>0, <1>1, <1>3 DEF DiskTypes, Refuse
  <1>8. Plain(B(c))' => Settled(B(c))'
    <2>1. (NoTrace(B(c))' <=> NoTrace(B(c))) /\ (Plain(B(c))' => Plain(B(c)) /\ faults' = 0)
      BY <1>0, <1>2, <1>4, <1>5, TraceKept DEF Plain
    <2>2. Plain(B(c))' => boxes[B(c)] = NoBox /\ NoTrace(B(c))
      BY <1>0, <1>1, <2>1 DEF Placed
    <2>. QED
      BY <1>2, <1>6, <1>7, <2>1, <2>2 DEF Settled, Bare, NoBox
  <1>9. DiskTypes'
    BY <1>0, <1>2, <1>4, <1>6, <1>7 DEF DiskTypes
  <1>. QED
    BY <1>0, <1>1, <1>2, <1>4, <1>5, <1>6, <1>7, <1>8, <1>9, LockedStep

-----------------------------------------------------------------------------
(* Calls that do not queue                                                  *)

\* A call goes into the queue of its bot, or builds its instance.
LEMMA LockStep ==
    ASSUME FleetInv, NEW c \in Callers, withLock(c)
    PROVE  FleetInv'
  <1>. PICK w : w = IF jobs[c].op \in Locked THEN "begin" ELSE "get"
    OBVIOUS
  <1>0. CallTypes /\ DiskTypes /\ QueueRight /\ jobs[c].op # "none" /\ caller[c].at = "idle"
    BY DEF FleetInv, withLock
  <1>1. B(c) \in Bots /\ jobs[c].op \in ApiOps
    BY <1>0, JobFacts
  <1>2. /\ UNCHANGED <<world, profiles, rows, routes, boxes, made, net, data, pulled, onNode, published, jobs, faults,
                       overtaken, unsettled>>
        /\ To(c, w) /\ w \in {"begin", "get"}
        /\ queue' = IF jobs[c].op \in Locked THEN [queue EXCEPT ![B(c)] = Append(@, c)] ELSE queue
    BY DEF withLock, disk, docker, history
  <1>3. /\ caller' \in [Callers -> CallerRows] /\ caller'[c].at = w
        /\ \A d \in Callers : d # c => caller'[d] = caller[d]
    BY <1>0, <1>2, Goes DEF Spots
  <1>4. CallTypes' /\ DiskTypes'
    <2>1. w \in SpotsOf(jobs[c].op) /\ w \notin Pulled /\ w # "act"
      BY <1>1 DEF SpotsOf, Pulled
    <2>. QED
      BY <1>0, <1>2, <1>3, <2>1 DEF CallTypes, DiskTypes
  <1>5. \A d \in Callers : /\ B(d)' = B(d) /\ (Past(d)' <=> Past(d))
                           /\ At(d, "act", Setups)' <=> At(d, "act", Setups)
                           /\ Waits(d)' <=> (Waits(d) \/ (d = c /\ jobs[c].op \in Locked))
    BY <1>0, <1>2, <1>3 DEF B, Past, Waits, At
  <1>6. QueueRight'
    <2>1. CASE jobs[c].op \notin Locked
      BY <1>0, <1>2, <1>5, <2>1 DEF QueueRight
    <2>2. CASE jobs[c].op \in Locked
      <3>. PICK q : q = queue[B(c)]
        OBVIOUS
      <3>1. /\ q \in Seq(Callers) /\ Append(q, c) \in Seq(Callers) /\ Len(Append(q, c)) = Len(q) + 1 /\ Len(q) \in Nat
            /\ Append(q, c)[Len(q) + 1] = c /\ \A i \in 1..Len(q) : Append(q, c)[i] = q[i]
        BY <1>0, <1>1 DEF QueueRight
      <3>2. queue' \in [Bots -> Seq(Callers)] /\ queue'[B(c)] = Append(q, c) /\ \A b \in Bots \ {B(c)} : queue'[b] = queue[b]
        BY <1>0, <1>1, <1>2, <2>2, <3>1 DEF QueueRight
      <3>3. ASSUME NEW d \in Callers, Waits(d)'
            PROVE  \E i \in 1..Len(queue'[B(d)]) : queue'[B(d)][i] = d
        <4>1. CASE d = c
          BY <3>1, <3>2, <4>1
        <4>2. CASE d # c
          <5>1. Waits(d) /\ B(d) \in Bots
            BY <1>0, <1>5, <3>3, <4>2, JobFacts DEF Waits
          <5>2. PICK i \in 1..Len(queue[B(d)]) : queue[B(d)][i] = d
            BY <1>0, <5>1 DEF QueueRight
          <5>3. CASE B(d) = B(c)
            <6>1. queue'[B(d)] = Append(q, c) /\ i \in 1..Len(q) /\ q[i] = d
              BY <3>2, <5>2, <5>3
            <6>2. i \in 1..Len(Append(q, c)) /\ Append(q, c)[i] = d
              BY <3>1, <6>1
            <6>. QED
              BY <6>1, <6>2
          <5>4. CASE B(d) # B(c)
            BY <3>2, <5>1, <5>2, <5>4
          <5>. QED
            BY <5>3, <5>4
        <4>. QED
          BY <4>1, <4>2
      <3>4. ASSUME NEW d \in Callers, Past(d)' PROVE Head(queue'[B(d)]) = d
        <4>1. Past(d) /\ Waits(d) /\ B(d) \in Bots
          BY <1>0, <1>5, <3>4, JobFacts DEF Waits, Past
        <4>2. Head(queue[B(d)]) = d /\ \E i \in 1..Len(queue[B(d)]) : queue[B(d)][i] = d
          BY <1>0, <4>1 DEF QueueRight
        <4>3. CASE B(d) = B(c)
          <5>1. 1 \in 1..Len(q) /\ Head(q) = d
            BY <3>1, <4>2, <4>3
          <5>2. Head(Append(q, c)) = q[1] /\ Head(q) = q[1]
            BY <3>1, <5>1
          <5>. QED
            BY <3>2, <4>3, <5>1, <5>2
        <4>. QED
          BY <3>2, <4>1, <4>2, <4>3
      <3>. QED
        BY <1>5, <3>2, <3>3, <3>4 DEF QueueRight
    <2>. QED
      BY <2>1, <2>2
  <1>7. ASSUME NEW b \in Bots PROVE BotRight(b)'
    <2>1. NoTrace(b)' <=> NoTrace(b)
      BY <1>2, <1>5 DEF NoTrace
    <2>2. (Bare(b)' <=> Bare(b)) /\ (Settled(b)' <=> Settled(b)) /\ (Plain(b)' <=> Plain(b))
      BY <1>2, <2>1 DEF Bare, Settled, Plain
    <2>3. ASSUME NEW d \in Callers, Past(d), B(d) = b PROVE Placed(d)' <=> Placed(d)
      <3>1. d # c
        BY <1>0, <2>3 DEF Past
      <3>. QED
        BY <1>2, <1>3, <1>5, <2>1, <2>2, <2>3, <3>1 DEF Placed
    <2>. QED
      BY <1>2, <1>5, <2>2, <2>3 DEF BotRight, FleetInv
  <1>. QED
    BY <1>4, <1>6, <1>7 DEF FleetInv

\* A step of a call with an instance: it keeps the containers there are, and
\* leaves no trace on a bot that has none.
LEMMA SideStep ==
    ASSUME FleetInv, NEW c \in Callers, jobs[c].op \in ApiOps \ Locked,
           UNCHANGED <<world, jobs, profiles, made, pulled, published, faults, overtaken, unsettled, queue>>,
           caller' \in [Callers -> CallerRows], \A d \in Callers : d # c => caller'[d] = caller[d],
           caller'[c].at \in {"act", "done"}, caller'[c].at = "act" => caller'[c].handle # 0,
           DiskTypes',
           \A b \in Bots : /\ boxes'[b].image = boxes[b].image
                           /\ boxes'[b] = NoBox <=> boxes[b] = NoBox
                           /\ rows'[b] = "node" => rows[b] = "node",
           \A b \in Bots : (boxes[b] = NoBox \/ profiles[b] = NoImage) =>
                              (NoTrace(b) => NoTrace(b)') /\ (Bare(b) => Bare(b)')
    PROVE  FleetInv'
  <1>0. CallTypes /\ QueueRight
    BY DEF FleetInv
  <1>1. /\ \A d \in Callers : B(d)' = B(d)
        /\ \A d \in Callers : (Past(d)' <=> Past(d)) /\ (Waits(d)' <=> Waits(d))
    BY DEF B, Past, Waits
  <1>2. CallTypes'
    <2>1. caller'[c].at \in SpotsOf(jobs[c].op) /\ caller'[c].at \notin Pulled
      BY DEF SpotsOf, Pulled
    <2>. QED
      BY <1>0, <2>1 DEF CallTypes
  <1>3. QueueRight'
    BY <1>0, <1>1 DEF QueueRight
  <1>4. ASSUME NEW b \in Bots PROVE BotRight(b)'
    <2>1. Plain(b)' <=> Plain(b)
      BY DEF Plain
    <2>2. Settled(b) => Settled(b)'
      BY DEF Settled
    <2>3. ASSUME NEW d \in Callers, Past(d), B(d) = b, Placed(d) PROVE Placed(d)'
      <3>1. caller'[d] = caller[d]
        BY <2>3 DEF Past
      <3>. QED
        BY <1>1, <2>3, <3>1 DEF Placed
    <2>. QED
      BY <1>1, <2>1, <2>2, <2>3 DEF BotRight, FleetInv
  <1>. QED
    BY <1>2, <1>3, <1>4 DEF FleetInv

\* A call without a lock ends.
LEMMA SideOut ==
    ASSUME CallTypes, NEW c \in Callers, NEW ok \in BOOLEAN, Finish(c, ok), jobs[c].op \notin Locked
    PROVE  /\ caller' \in [Callers -> CallerRows] /\ caller'[c].at = "done" /\ queue' = queue
           /\ \A d \in Callers : d # c => caller'[d] = caller[d]
  BY Ends DEF Finish, resolve

LEMMA BuildStep ==
    ASSUME FleetInv, NEW c \in Callers, buildInstance(c)
    PROVE  FleetInv'
  <1>0. CallTypes /\ DiskTypes /\ caller[c].at = "get" /\ jobs[c].op # "none"
    BY JobFacts DEF FleetInv, buildInstance
  <1>1. B(c) \in Bots /\ jobs[c].op \in ApiOps \ Locked
    <2>1. B(c) \in Bots /\ jobs[c].op \in ApiOps
      BY <1>0, JobFacts
    <2>2. jobs[c].op \in Locked => "get" \notin SpotsOf(jobs[c].op)
      BY DEF SpotsOf, Locked
    <2>. QED
      BY <1>0, <2>1, <2>2 DEF CallTypes
  <1>2. /\ UNCHANGED <<world, profiles, rows, routes, boxes, made, net, data, pulled, onNode, published, jobs, faults,
                       overtaken, unsettled>>
        /\ \A d \in Callers : B(d)' = B(d)
    BY DEF buildInstance, disk, docker, history, B
  <1>3. DiskTypes'
    BY <1>0, <1>2 DEF DiskTypes
  <1>4. CASE profiles[B(c)] = NoImage \/ boxes[B(c)] = NoBox
    <2>1. Finish(c, FALSE)
      BY <1>4 DEF buildInstance
    <2>2. /\ caller' \in [Callers -> CallerRows] /\ caller'[c].at = "done" /\ queue' = queue
          /\ \A d \in Callers : d # c => caller'[d] = caller[d]
      BY <1>0, <1>1, <2>1, SideOut
    <2>3. \A b \in Bots : (NoTrace(b) => NoTrace(b)') /\ (Bare(b) => Bare(b)')
      BY <1>2, <2>2 DEF NoTrace, Bare, At
    <2>. QED
      BY <1>0, <1>1, <1>2, <1>3, <2>2, <2>3, SideStep
  <1>5. CASE profiles[B(c)] # NoImage /\ boxes[B(c)] # NoBox
    <2>. PICK row : row = [caller[c] EXCEPT !.at = "act", !.handle = boxes[B(c)].id]
      OBVIOUS
    <2>1. caller' = [caller EXCEPT ![c] = row] /\ queue' = queue
      BY <1>5 DEF buildInstance
    <2>2. row \in CallerRows /\ row.at = "act" /\ row.handle # 0
      <3>1. boxes[B(c)].id \in Nat \ {0}
        BY <1>0, <1>1, <1>5 DEF DiskTypes, BoxRows
      <3>2. caller[c] \in CallerRows
        BY <1>0 DEF CallTypes
      <3>. QED
        BY <3>1, <3>2 DEF CallerRows, Spots
    <2>3. /\ caller' \in [Callers -> CallerRows] /\ caller'[c] = row
          /\ \A d \in Callers : d # c => caller'[d] = caller[d]
      BY <1>0, <2>1, <2>2 DEF CallTypes
    <2>4. ASSUME NEW b \in Bots, boxes[b] = NoBox \/ profiles[b] = NoImage
          PROVE  (NoTrace(b) => NoTrace(b)') /\ (Bare(b) => Bare(b)')
      <3>1. b # B(c)
        BY <1>5, <2>4
      <3>2. \A d \in Callers : B(d) = b => d # c
        BY <3>1
      <3>3. NoTrace(b) => NoTrace(b)'
        BY <1>2, <2>3, <3>2 DEF NoTrace, At
      <3>. QED
        BY <1>2, <3>3 DEF Bare
    <2>. QED
      BY <1>0, <1>1, <1>2, <1>3, <2>1, <2>2, <2>3, <2>4, SideStep
  <1>. QED
    BY <1>4, <1>5

\* What the calls on an instance have in common.
LEMMA ActFacts ==
    ASSUME FleetInv, NEW c \in Callers, caller[c].at = "act"
    PROVE  /\ CallTypes /\ DiskTypes /\ B(c) \in Bots /\ jobs[c].op \in ApiOps \ Locked
           /\ caller[c].handle # 0 /\ boxes[B(c)] \in BoxRows /\ (Held(c) => boxes[B(c)] # NoBox)
           /\ NoTrace(B(c)) /\ jobs[c].op \in Setups => B(c) \in overtaken
  <1>1. CallTypes /\ DiskTypes /\ jobs[c].op # "none" /\ caller[c].handle # 0
    BY JobFacts DEF FleetInv, CallTypes
  <1>2. B(c) \in Bots /\ jobs[c].op \in ApiOps \ Locked
    <2>1. B(c) \in Bots /\ jobs[c].op \in ApiOps
      BY <1>1, JobFacts
    <2>2. jobs[c].op \in Locked => "act" \notin SpotsOf(jobs[c].op)
      BY DEF SpotsOf, Locked
    <2>. QED
      BY <1>1, <2>1, <2>2 DEF CallTypes
  <1>. QED
    BY <1>1, <1>2 DEF DiskTypes, Held, NoBox, NoTrace, At

\* Power on, off, or neither.
LEMMA PowerStep ==
    ASSUME FleetInv, NEW c \in Callers, start(c) \/ stop(c) \/ restart(c)
    PROVE  FleetInv'
  <1>0. caller[c].at = "act"
    BY DEF start, stop, restart, At
  <1>1. /\ CallTypes /\ DiskTypes /\ B(c) \in Bots /\ jobs[c].op \in ApiOps \ Locked
        /\ boxes[B(c)] \in BoxRows /\ (Held(c) => boxes[B(c)] # NoBox)
    BY <1>0, ActFacts
  <1>2. /\ UNCHANGED <<world, profiles, rows, routes, made, net, pulled, onNode, published, jobs, faults,
                       overtaken, unsettled>>
        /\ \A d \in Callers : B(d)' = B(d)
    BY DEF start, stop, restart, disk, history, B
  <1>3. /\ boxes' = boxes \/ \E up \in BOOLEAN : Held(c) /\ boxes' = [boxes EXCEPT ![B(c)].up = up]
        /\ data' = data \/ data' = Migrated(B(c))
        /\ \E ok \in BOOLEAN : Finish(c, ok)
    <2>1. Held(c) \in BOOLEAN
      BY DEF Held
    <2>2. CASE start(c) \/ restart(c)
      BY <2>1, <2>2 DEF start, restart, PowerUp
    <2>3. CASE stop(c)
      BY <2>1, <2>3 DEF stop
    <2>. QED
      BY <2>2, <2>3
  <1>4. /\ boxes' \in [Bots -> BoxRows]
        /\ \A b \in Bots : boxes'[b].image = boxes[b].image /\ (boxes'[b] = NoBox <=> boxes[b] = NoBox)
    <2>1. CASE boxes' = boxes
      BY <1>1, <2>1 DEF DiskTypes
    <2>2. ASSUME NEW up \in BOOLEAN, Held(c), boxes' = [boxes EXCEPT ![B(c)].up = up]
          PROVE  <1>4!:
      <3>. PICK box : box = [boxes[B(c)] EXCEPT !.up = up]
        OBVIOUS
      <3>1. /\ box \in BoxRows /\ box.image = boxes[B(c)].image /\ box # NoBox /\ boxes[B(c)] # NoBox
        <4>1. boxes[B(c)] \in [id : Nat \ {0}, image : Images, digest : Nat, up : BOOLEAN] /\ boxes[B(c)] # NoBox
          BY <1>1, <2>2 DEF BoxRows
        <4>2. box \in [id : Nat \ {0}, image : Images, digest : Nat, up : BOOLEAN] /\ box.image = boxes[B(c)].image
          BY <4>1
        <4>. QED
          BY <4>1, <4>2 DEF BoxRows, NoBox
      <3>2. boxes' = [boxes EXCEPT ![B(c)] = box]
        BY <2>2
      <3>. QED
        BY <1>1, <3>1, <3>2 DEF DiskTypes
    <2>. QED
      BY <1>3, <2>1, <2>2
  <1>5. DiskTypes'
    <2>1. data' \in [Bots -> Nat]
      <3>1. boxes[B(c)].digest \in Nat
        BY <1>1 DEF BoxRows, NoBox
      <3>. QED
        BY <1>1, <1>3, <3>1 DEF DiskTypes, Migrated
    <2>. QED
      BY <1>1, <1>2, <1>4, <2>1 DEF DiskTypes
  <1>6. /\ caller' \in [Callers -> CallerRows] /\ caller'[c].at = "done" /\ queue' = queue
        /\ \A d \in Callers : d # c => caller'[d] = caller[d]
    BY <1>1, <1>3, SideOut
  <1>7. \A b \in Bots : (NoTrace(b) => NoTrace(b)') /\ (Bare(b) => Bare(b)')
    BY <1>2, <1>6 DEF NoTrace, Bare, At
  <1>. QED
    BY <1>1, <1>2, <1>4, <1>5, <1>6, <1>7, SideStep

\* A row or a route that is set up for an instance held.
LEMMA SetupStep ==
    ASSUME FleetInv, NEW c \in Callers, setupBilling(c) \/ startBilling(c) \/ stopBilling(c) \/ setupProxy(c)
    PROVE  FleetInv'
  <1>0. caller[c].at = "act"
    BY DEF setupBilling, startBilling, stopBilling, setupProxy, At
  <1>1. /\ CallTypes /\ DiskTypes /\ B(c) \in Bots /\ jobs[c].op \in ApiOps \ Locked
        /\ NoTrace(B(c)) /\ jobs[c].op \in Setups => B(c) \in overtaken
    BY <1>0, ActFacts
  <1>2. /\ UNCHANGED <<world, profiles, boxes, made, net, data, pulled, onNode, published, jobs, faults,
                       overtaken, unsettled>>
        /\ \A d \in Callers : B(d)' = B(d)
        /\ \E ok \in BOOLEAN : Finish(c, ok)
    BY DEF setupBilling, startBilling, stopBilling, setupProxy, docker, history, B
  <1>3. \/ rows' = rows
        \/ jobs[c].op \in Setups /\ rows' = [rows EXCEPT ![B(c)] = IF @ = "none" THEN "inactive" ELSE @]
        \/ \E r \in {"active", "suspended"} :
             rows' = [rows EXCEPT ![B(c)] = IF @ \in {"none", "node"} THEN @ ELSE r]
    BY DEF setupBilling, startBilling, stopBilling, setupProxy, Setups, At
  <1>4. routes' = routes \/ (jobs[c].op \in Setups /\ routes' = routes \cup {B(c)})
    BY DEF setupBilling, startBilling, stopBilling, setupProxy, Setups, At
  <1>5. /\ rows' \in [Bots -> {"none", "node", "inactive", "active", "suspended"}]
        /\ \A b \in Bots : /\ rows'[b] = "node" => rows[b] = "node"
                           /\ rows[b] = "none" /\ rows'[b] # "none" => b = B(c) /\ jobs[c].op \in Setups
    BY <1>1, <1>3 DEF DiskTypes
  <1>6. DiskTypes'
    BY <1>1, <1>2, <1>4, <1>5 DEF DiskTypes
  <1>7. /\ caller' \in [Callers -> CallerRows] /\ caller'[c].at = "done" /\ queue' = queue
        /\ \A d \in Callers : d # c => caller'[d] = caller[d]
    BY <1>1, <1>2, SideOut
  <1>8. ASSUME NEW b \in Bots PROVE (NoTrace(b) => NoTrace(b)') /\ (Bare(b) => Bare(b)')
    <2>1. NoTrace(b) => NoTrace(b)'
      BY <1>1, <1>2, <1>4, <1>7 DEF NoTrace, At
    <2>2. Bare(b) => b \in overtaken \/ rows'[b] = "none"
      BY <1>1, <1>5 DEF Bare
    <2>. QED
      BY <1>2, <2>1, <2>2 DEF Bare
  <1>. QED
    BY <1>1, <1>2, <1>5, <1>6, <1>7, <1>8, SideStep

-----------------------------------------------------------------------------

LEMMA FleetNextInv ==
    ASSUME FleetInv, FleetNext
    PROVE  FleetInv'
  BY CreateStep, SendStep, NetworkStep, PullStep, CreateContainerStep, UndoStep, RegisterStep, UpdateStep,
     ReplaceStep, RestoreStep, RemoveStep, KillStep, NetStep, DeleteStep, LockStep, BuildStep, PowerStep, SetupStep
     DEF FleetNext

LEMMA FleetInitInv ==
    ASSUME FleetInit
    PROVE  FleetInv
  <1>0. FleetAssumption
    BY FleetAssumption
  <1>1. /\ world \in Worlds /\ jobs \in [Callers -> JobRows] /\ caller = [c \in Callers |-> Idle]
        /\ \A c \in Callers : caller[c] = Idle
    BY <1>0 DEF FleetInit, FleetAssumption
  <1>2. Idle \in CallerRows /\ Idle.at = "idle"
    BY DEF Idle, CallerRows, Spots, NoImage
  <1>3. CallTypes
    BY <1>1, <1>2 DEF CallTypes, SpotsOf, Pulled
  <1>4. DiskTypes
    <2>1. boxes \in [Bots -> BoxRows]
      BY DEF FleetInit, BoxRows, Images, Tag
    <2>2. profiles \in [Bots -> Images \cup {NoImage}]
      BY DEF FleetInit, Images, Tag
    <2>3. rows \in [Bots -> {"none", "node", "inactive", "active", "suspended"}]
      BY DEF FleetInit
    <2>4. data \in [Bots -> Nat]
      BY DEF FleetInit
    <2>5. routes \subseteq Bots
      BY <1>0, <1>1 DEF FleetInit, FleetAssumption
    <2>. QED
      BY <2>1, <2>2, <2>3, <2>4, <2>5 DEF FleetInit, DiskTypes
  <1>5. \A c \in Callers : ~Past(c) /\ ~Waits(c) /\ ~At(c, "act", Setups)
    BY <1>1, <1>2 DEF Past, Waits, At
  <1>6. QueueRight
    BY <1>5 DEF QueueRight, FleetInit
  <1>7. ASSUME NEW b \in Bots PROVE BotRight(b)
    <2>1. rows[b] = "node" => b \in world.remote
      BY DEF FleetInit
    <2>2. b \notin world.remote => Settled(b)
      <3>. SUFFICES ASSUME b \notin world.remote
                    PROVE  Settled(b)
        OBVIOUS
      <3>1. CASE b \in world.has
        BY <3>1 DEF FleetInit, Settled, Tag, NoImage
      <3>2. CASE b \notin world.has
        <4>1. boxes[b] = NoBox /\ profiles[b] = NoImage /\ rows[b] = "none" /\ b \notin routes
          BY <3>2 DEF FleetInit
        <4>. QED
          BY <1>5, <4>1 DEF Settled, Bare, NoTrace, NoBox
      <3>. QED
        BY <3>1, <3>2
    <2>. QED
      BY <1>5, <2>1, <2>2 DEF BotRight, Plain
  <1>. QED
    BY <1>3, <1>4, <1>6, <1>7 DEF FleetInv

\* A bot at rest has nobody in the middle of it.
LEMMA FleetIsConsistent ==
    ASSUME FleetInv
    PROVE  FleetConsistent
  <1>. SUFFICES ASSUME NEW b \in Bots, Quiet(b), Plain(b)
                PROVE  /\ boxes[b].image = profiles[b]
                       /\ profiles[b] = NoImage /\ b \notin overtaken => rows[b] = "none" /\ b \notin routes
    BY DEF FleetConsistent, Plain
  <1>1. \A c \in Callers : B(c) = b => ~Past(c)
    BY DEF Quiet, Past
  <1>. QED
    BY <1>1 DEF FleetInv, BotRight, Settled, Bare, NoTrace

\* Whatever creates, updates, removes, starts and stops overlap, a local bot at
\* rest has a container exactly when it has a profile, and of its image.
THEOREM FleetIsRight == FleetSpec => []FleetConsistent
  <1>1. FleetInv /\ UNCHANGED fleetVars => FleetInv'
    BY DEF FleetInv, fleetVars, disk, docker, history, CallTypes, DiskTypes, QueueRight, BotRight, Past, Waits, B,
           Plain, Placed, Settled, Bare, NoTrace, At
  <1>. QED
    BY <1>1, FleetInitInv, FleetNextInv, FleetIsConsistent, PTL DEF FleetSpec

-----------------------------------------------------------------------------
(* The rollout                                                              *)

\* The phases with a bot in hand; those that have asked for its container.
Working == {"snapshot", "update", "replace", "cleanup", "rollback", "undone", "restore", "failed"}
Asking == {"replace", "undone"}
Chain == {"replace", "rollback", "undone"}
Phases == Working \cup {"rest", "list", "wave", "end"}

PrevRows == [image : Images \cup {NoImage}, digest : Nat, was : BOOLEAN]

\* What the updater asks of the fleet is the update of the bot in hand.
RollTypes ==
    /\ plan \in Plans /\ phase \in Phases
    /\ remaining \in Seq(Bots) /\ batch \in Seq(Bots) /\ retry \in Seq(Bots)
    /\ phase \in Working => batch # <<>>
    /\ phase \in Working \cup {"wave"} => remaining # <<>>
    /\ prev \in PrevRows /\ snap \in Nat
    /\ phase \in Chain => prev.image \in Images
    /\ rolling = (phase # "rest")
    /\ verdict \in [Bots -> [ok : BOOLEAN, image : Images \cup {NoImage}, digest : Nat]]
    /\ phase \notin Asking => jobs[Roller].op = "none" \/ caller[Roller].at = "done"
    /\ phase = "replace" => jobs[Roller] = Job("update", b0, prev.image)
    /\ phase = "undone" => jobs[Roller] = Job("update", b0, rollbackImage)

\* Only the rollout chooses images for the bot, and nothing was refused.
Own(b) == \A c \in Callers \ {Roller} : B(c) = b => jobs[c].op \notin {"create", "update"}
Clean(b) == faults = 0 /\ b \notin unsettled /\ Own(b)

\* A bot whose profile, container and volume agree.
Lives(b) ==
    /\ profiles[b] # Malformed
    /\ data[b] <= pulled /\ boxes[b].digest <= pulled
    /\ profiles[b] # NoImage => data[b] > 0 /\ profiles[b] <= pulled
    /\ profiles[b] = NoImage \/ b \in world.remote => boxes[b] = NoBox

Fits(b) ==
    /\ boxes[b] = NoBox \/ data[b] <= boxes[b].digest
    /\ profiles[b] # NoImage => data[b] <= Resolve(profiles[b]) /\ boxes[b].digest <= Resolve(profiles[b])

\* The snapshot of the bot in hand is of its data, and no newer.
Snapped ==
    /\ snap <= pulled /\ (profiles[b0] # NoImage => snap > 0)
    /\ phase = "update" => snap <= data[b0]

\* The way back: the image that ran takes the snapshot, and what runs now is
\* that or newer, until the rollback has put it back.
Returns ==
    LET b == b0
        at == caller[Roller].at
    IN /\ prev.image # Malformed
       /\ snap <= Resolve(prev.image) /\ prev.digest <= Resolve(prev.image)
       /\ IF prev.digest = 0 THEN boxes[b] = NoBox ELSE snap <= prev.digest
       /\ boxes[b] = NoBox \/ prev.digest <= boxes[b].digest
       /\ \/ profiles[b] \in {NoImage, prev.image}
          \/ phase = "undone" /\ prev.image = Tag /\ prev.digest # 0 /\ profiles[b] = prev.digest
       /\ prev.image # Tag => boxes[b].digest <= prev.image
       /\ phase = "undone" /\ at \in {"network", "box", "start", "done"} /\ profiles[b] # prev.image =>
            boxes[b].digest <= prev.digest
       /\ b \in world.remote => prev.digest = 0
       /\ phase # "rollback" /\ Past(Roller) => prev.digest # 0

\* The volume is about to be put back under what runs.
Restoring ==
    /\ boxes[b0] = NoBox \/ snap <= boxes[b0].digest
    /\ profiles[b0] # NoImage => snap <= Resolve(profiles[b0]) /\ boxes[b0].digest <= Resolve(profiles[b0])

CleanRight(b) ==
    /\ Lives(b)
    /\ Fits(b) \/ (phase \in {"undone", "restore"} /\ b = b0)
    /\ phase \in Chain \cup {"update", "restore"} /\ b = b0 => Snapped
    /\ phase \in Chain /\ b = b0 => Returns
    /\ phase = "restore" /\ b = b0 => Restoring

\* Bots that nobody but the rollout has to do with.
Sole(b) == \A c \in Callers \ {Roller} : B(c) # b

Reached(b) == boxes[b].digest >= verdict[b].digest \/ boxes[b] = NoBox

\* A verdict is given when the update has ended well, and on what it put there.
VerdictRight(b) ==
    /\ phase \in Chain \cup {"restore", "failed"} /\ b = b0 => ~verdict[b].ok
    /\ verdict[b].image = Tag /\ Sole(b) =>
         /\ verdict[b].ok => Reached(b)
         /\ phase = "replace" /\ b = b0 =>
              /\ prev.image = Tag /\ verdict[b].digest <= pulled
              /\ caller[Roller].at = "start" => Reached(b)
              /\ caller[Roller].at = "done" /\ caller[Roller].ok => Reached(b)

Pushed == pulled <= published

RollInv ==
    /\ FleetInv /\ RollTypes /\ Pushed
    /\ \A b \in Bots : (Clean(b) => CleanRight(b)) /\ VerdictRight(b)

-----------------------------------------------------------------------------
(* What a call leaves to the rollout                                        *)

FleetStep(c) ==
    \/ withLock(c) \/ create(c) \/ sendToNode(c) \/ pullImage(c) \/ ensureTenantNetwork(c)
    \/ createContainer(c) \/ undoCreate(c) \/ register(c)
    \/ update(c) \/ replaceContainer(c) \/ restoreProfile(c)
    \/ remove(c) \/ removeInstance(c) \/ getContainerCount(c) \/ removeTenantNetwork(c) \/ deleteBot(c)
    \/ buildInstance(c) \/ start(c) \/ stop(c) \/ restart(c)
    \/ setupBilling(c) \/ startBilling(c) \/ stopBilling(c) \/ setupProxy(c)

\* A call moves itself, and touches its own bot alone.
Touches(c) ==
    /\ UNCHANGED <<world, published, jobs>>
    /\ caller[c].at # "done" /\ jobs[c].op # "none"
    /\ \A d \in Callers : d # c => caller'[d] = caller[d]
    /\ pulled' \in {pulled, published}
    /\ faults' = faults \/ Refuse
    /\ unsettled \subseteq unsettled'
    /\ \A b \in Bots : b # B(c) => boxes'[b] = boxes[b] /\ profiles'[b] = profiles[b] /\ data'[b] = data[b]

LEMMA CallerMoves ==
    ASSUME CallTypes, NEW c \in Callers,
           (\E w : To(c, w)) \/ (\E ok : Finish(c, ok))
           \/ (\E h : caller' = [caller EXCEPT ![c].at = "act", ![c].handle = h])
           \/ (\E row : caller' = [caller EXCEPT ![c] = row])
    PROVE  \A d \in Callers : d # c => caller'[d] = caller[d]
  BY DEF CallTypes, To, Finish

LEMMA CallTouches ==
    ASSUME FleetInv, NEW c \in Callers, FleetStep(c)
    PROVE  Touches(c)
  <1>0. CallTypes /\ DiskTypes
    BY DEF FleetInv
  <1>1. caller[c].at # "done" /\ jobs[c].op # "none"
    <2>1. caller[c].at # "idle" /\ caller[c].at # "done" => jobs[c].op # "none"
      BY <1>0, JobFacts
    <2>2. withLock(c) => caller[c].at # "done" /\ jobs[c].op # "none"
      BY DEF withLock
    <2>3. ~withLock(c) => caller[c].at # "idle" /\ caller[c].at # "done"
      BY DEF FleetStep, create, sendToNode, pullImage, ensureTenantNetwork, createContainer, undoCreate, register,
             update, replaceContainer, restoreProfile, remove, removeInstance, getContainerCount,
             removeTenantNetwork, deleteBot, buildInstance, start, stop, restart, setupBilling, startBilling,
             stopBilling, setupProxy, At
    <2>. QED
      BY <2>1, <2>2, <2>3
  <1>2. UNCHANGED <<world, published, jobs>> /\ unsettled \subseteq unsettled'
    BY DEF FleetStep, withLock, create, sendToNode, pullImage, ensureTenantNetwork, createContainer, undoCreate,
           register, update, replaceContainer, restoreProfile, remove, removeInstance, getContainerCount,
           removeTenantNetwork, deleteBot, buildInstance, start, stop, restart, setupBilling, startBilling,
           stopBilling, setupProxy, history
  <1>3. pulled' \in {pulled, published} /\ (faults' = faults \/ Refuse)
    <2>1. CASE pullImage(c)
      BY <2>1 DEF pullImage
    <2>2. CASE sendToNode(c) \/ createContainer(c) \/ register(c) \/ removeInstance(c) \/ getContainerCount(c)
               \/ removeTenantNetwork(c) \/ deleteBot(c)
      BY <2>2 DEF sendToNode, createContainer, register, removeInstance, getContainerCount, removeTenantNetwork,
                  deleteBot, docker
    <2>3. CASE replaceContainer(c)
      <3>1. pulled' = pulled
        BY <2>3 DEF replaceContainer
      <3>2. faults' = faults \/ Refuse
        BY <2>3 DEF replaceContainer
      <3>. QED
        BY <3>1, <3>2
    <2>4. ~pullImage(c) /\ ~sendToNode(c) /\ ~createContainer(c) /\ ~register(c) /\ ~removeInstance(c)
          /\ ~getContainerCount(c) /\ ~removeTenantNetwork(c) /\ ~deleteBot(c) /\ ~replaceContainer(c)
          => UNCHANGED <<pulled, faults>>
      BY DEF FleetStep, withLock, create, ensureTenantNetwork, undoCreate, update, restoreProfile, remove,
             buildInstance, start, stop, restart, setupBilling, startBilling, stopBilling, setupProxy, docker
    <2>. QED
      BY <2>1, <2>2, <2>3, <2>4
  <1>4. \A d \in Callers : d # c => caller'[d] = caller[d]
    <2>1. CASE update(c)
      <3>1. CASE profiles[B(c)] = NoImage \/ jobs[c].op = "describe" \/ boxes[B(c)] = NoBox
        BY <1>0, <2>1, <3>1, CallerMoves DEF update
      <3>2. CASE ~(profiles[B(c)] = NoImage \/ jobs[c].op = "describe" \/ boxes[B(c)] = NoBox)
        BY <1>0, <2>1, <3>2, CallerMoves DEF update
      <3>. QED
        BY <3>1, <3>2
    <2>2. CASE buildInstance(c)
      BY <1>0, <2>2, CallerMoves DEF buildInstance
    <2>3. CASE withLock(c) \/ create(c) \/ ensureTenantNetwork(c) \/ undoCreate(c) \/ register(c)
               \/ restoreProfile(c) \/ removeInstance(c) \/ removeTenantNetwork(c) \/ deleteBot(c)
      <3>1. (\E w : To(c, w)) \/ (\E ok : Finish(c, ok))
        BY <2>3 DEF withLock, create, ensureTenantNetwork, undoCreate, register, restoreProfile, removeInstance,
                    removeTenantNetwork, deleteBot
      <3>. QED
        BY <1>0, <3>1, CallerMoves
    <2>4. CASE sendToNode(c) \/ pullImage(c) \/ getContainerCount(c)
      <3>1. (\E w : To(c, w)) \/ (\E ok : Finish(c, ok))
        BY <2>4 DEF sendToNode, pullImage, getContainerCount
      <3>. QED
        BY <1>0, <3>1, CallerMoves
    <2>5. CASE createContainer(c) \/ replaceContainer(c) \/ remove(c)
      <3>1. (\E w : To(c, w)) \/ (\E ok : Finish(c, ok))
        BY <2>5 DEF createContainer, replaceContainer, remove
      <3>. QED
        BY <1>0, <3>1, CallerMoves
    <2>6. CASE start(c) \/ stop(c) \/ restart(c) \/ setupBilling(c) \/ startBilling(c) \/ stopBilling(c) \/ setupProxy(c)
      <3>1. \E ok : Finish(c, ok)
        BY <2>6 DEF start, stop, restart, setupBilling, startBilling, stopBilling, setupProxy
      <3>. QED
        BY <1>0, <3>1, CallerMoves
    <2>. QED
      BY <2>1, <2>2, <2>3, <2>4, <2>5, <2>6 DEF FleetStep
  <1>5. \A b \in Bots : b # B(c) => boxes'[b] = boxes[b] /\ profiles'[b] = profiles[b] /\ data'[b] = data[b]
    <2>1. boxes' = boxes \/ \E x : boxes' = [boxes EXCEPT ![B(c)] = x]
      <3>1. CASE createContainer(c) \/ removeInstance(c)
        BY <3>1 DEF createContainer, removeInstance
      <3>2. CASE replaceContainer(c)
        BY <3>2 DEF replaceContainer
      <3>3. CASE start(c) \/ stop(c) \/ restart(c)
        BY <3>3 DEF start, stop, restart, PowerUp
      <3>4. ~createContainer(c) /\ ~removeInstance(c) /\ ~replaceContainer(c) /\ ~start(c) /\ ~stop(c) /\ ~restart(c)
            => boxes' = boxes
        BY DEF FleetStep, withLock, create, sendToNode, pullImage, ensureTenantNetwork, undoCreate, register, update,
               restoreProfile, remove, getContainerCount, removeTenantNetwork, deleteBot, buildInstance, setupBilling,
               startBilling, stopBilling, setupProxy, docker
      <3>. QED
        BY <3>1, <3>2, <3>3, <3>4
    <2>2. profiles' = profiles \/ \E x : profiles' = [profiles EXCEPT ![B(c)] = x]
      <3>1. CASE create(c) \/ pullImage(c) \/ undoCreate(c) \/ restoreProfile(c) \/ deleteBot(c)
        BY <3>1 DEF create, pullImage, undoCreate, restoreProfile, deleteBot
      <3>2. CASE update(c)
        BY <3>2 DEF update
      <3>3. ~create(c) /\ ~pullImage(c) /\ ~undoCreate(c) /\ ~restoreProfile(c) /\ ~deleteBot(c) /\ ~update(c)
            => profiles' = profiles
        BY DEF FleetStep, withLock, sendToNode, ensureTenantNetwork, createContainer, register, replaceContainer,
               remove, removeInstance, getContainerCount, removeTenantNetwork, buildInstance, start, stop, restart,
               setupBilling, startBilling, stopBilling, setupProxy, disk
      <3>. QED
        BY <3>1, <3>2, <3>3
    <2>3. data' = data \/ data' = Migrated(B(c))
      <3>1. CASE start(c) \/ restart(c)
        BY <3>1 DEF start, restart, PowerUp
      <3>2. CASE replaceContainer(c)
        BY <3>2 DEF replaceContainer
      <3>3. ~start(c) /\ ~restart(c) /\ ~replaceContainer(c) => data' = data
        BY DEF FleetStep, withLock, create, sendToNode, pullImage, ensureTenantNetwork, createContainer, undoCreate,
               register, update, restoreProfile, remove, removeInstance, getContainerCount, removeTenantNetwork,
               deleteBot, buildInstance, stop, setupBilling, startBilling, stopBilling, setupProxy, docker
      <3>. QED
        BY <3>1, <3>2, <3>3
    <2>. QED
      BY <1>0, <2>1, <2>2, <2>3 DEF DiskTypes, Migrated
  <1>. QED
    BY <1>1, <1>2, <1>3, <1>4, <1>5 DEF Touches

\* What a call does to a bot it chooses no image for: the container stays or
\* goes, the profile goes after it, and the volume catches up with it.
Wears(b) ==
    /\ \/ boxes'[b] = NoBox
       \/ boxes[b] # NoBox /\ boxes'[b] # NoBox /\ boxes'[b].digest = boxes[b].digest
    /\ profiles'[b] = profiles[b] \/ (profiles'[b] = NoImage /\ boxes'[b] = NoBox)
    /\ \/ data'[b] = data[b]
       \/ boxes[b] # NoBox /\ data'[b] = (IF data[b] < boxes[b].digest THEN boxes[b].digest ELSE data[b])

LEMMA StaysPut ==
    ASSUME NEW b, boxes'[b] = boxes[b], profiles'[b] = profiles[b], data'[b] = data[b]
    PROVE  Wears(b)
  BY DEF Wears

\* The calls that choose no image, on a bot that is clean.
LEMMA CallWears ==
    ASSUME FleetInv, NEW c \in Callers, FleetStep(c), jobs[c].op \notin {"create", "update"}, B(c) \in Bots,
           faults' = 0, B(c) \notin unsettled, B(c) \in world.remote => boxes[B(c)] = NoBox
    PROVE  Wears(B(c))
  <1>0. /\ CallTypes /\ DiskTypes /\ boxes[B(c)] \in BoxRows
        /\ faults' = faults /\ (B(c) \notin world.remote => Plain(B(c)))
    <2>1. Touches(c) /\ CallTypes /\ DiskTypes
      BY CallTouches DEF FleetInv
    <2>2. faults' = faults
      BY <2>1 DEF Touches, Refuse, DiskTypes
    <2>. QED
      BY <2>1, <2>2 DEF DiskTypes, Plain
  <1>. PICK b : b = B(c)
    OBVIOUS
  <1>1. CASE removeInstance(c)
    <2>1. boxes' = [boxes EXCEPT ![b] = NoBox] /\ UNCHANGED <<profiles, data>>
      BY <1>0, <1>1 DEF removeInstance, Refuse, DiskTypes
    <2>. QED
      BY <1>0, <2>1 DEF Wears, DiskTypes
  <1>2. CASE deleteBot(c)
    <2>1. profiles' = [profiles EXCEPT ![b] = NoImage] /\ UNCHANGED <<boxes, data>>
      BY <1>2 DEF deleteBot, docker
    <2>2. boxes[b] = NoBox
      <3>1. jobs[c].op \in Locked /\ caller[c].at = "delete"
        BY <1>2 DEF deleteBot, At, Locked
      <3>2. Plain(b) => Placed(c)
        BY <3>1, Continues
      <3>. QED
        BY <1>0, <3>1, <3>2 DEF Placed
    <2>. QED
      BY <1>0, <2>1, <2>2 DEF Wears, DiskTypes
  <1>3. CASE start(c) \/ restart(c) \/ stop(c)
    <2>1. caller[c].at = "act" /\ profiles' = profiles
      BY <1>3 DEF start, restart, stop, At, disk
    <2>2. Held(c) => boxes[b] # NoBox
      BY <2>1, ActFacts
    <2>3. \/ UNCHANGED <<boxes, data>>
          \/ /\ Held(c) /\ \E up \in BOOLEAN : boxes' = [boxes EXCEPT ![b].up = up]
             /\ data' = data \/ data' = Migrated(b)
      <3>1. CASE start(c) \/ restart(c)
        BY <3>1 DEF start, restart, PowerUp
      <3>2. CASE stop(c)
        BY <3>2 DEF stop
      <3>. QED
        BY <1>3, <3>1, <3>2
    <2>4. CASE UNCHANGED <<boxes, data>>
      BY <2>1, <2>4, StaysPut
    <2>5. ASSUME NEW up \in BOOLEAN, Held(c), boxes' = [boxes EXCEPT ![b].up = up],
                 data' = data \/ data' = Migrated(b)
          PROVE  Wears(b)
      <3>1. boxes[b] # NoBox /\ boxes[b] \in [id : Nat \ {0}, image : Images, digest : Nat, up : BOOLEAN]
        BY <1>0, <2>2, <2>5 DEF BoxRows
      <3>. PICK box : box = [boxes[b] EXCEPT !.up = up]
        OBVIOUS
      <3>2. box.digest = boxes[b].digest /\ box.id # 0
        BY <3>1
      <3>3. boxes'[b] = box
        BY <1>0, <2>5 DEF DiskTypes
      <3>4. data'[b] = data[b] \/ data'[b] = IF data[b] < boxes[b].digest THEN boxes[b].digest ELSE data[b]
        BY <1>0, <2>5 DEF DiskTypes, Migrated
      <3>. QED
        BY <2>1, <3>1, <3>2, <3>3, <3>4 DEF Wears, NoBox
    <2>. QED
      BY <2>3, <2>4, <2>5
  <1>4. ~removeInstance(c) /\ ~deleteBot(c) /\ ~start(c) /\ ~restart(c) /\ ~stop(c) =>
          UNCHANGED <<boxes, data>> /\ profiles'[b] = profiles[b]
    <2>1. update(c) => UNCHANGED <<boxes, data>> /\ profiles'[b] = profiles[b]
      <3>1. update(c) => UNCHANGED <<boxes, data>>
        BY DEF update, docker
      <3>2. update(c) => jobs[c].op = "describe"
        BY DEF update, At
      <3>. QED
        BY <1>0, <3>1, <3>2 DEF update, DiskTypes
    <2>2. ~create(c) /\ ~pullImage(c) /\ ~ensureTenantNetwork(c) /\ ~createContainer(c) /\ ~undoCreate(c)
          /\ ~register(c) /\ ~replaceContainer(c) /\ ~restoreProfile(c)
      BY DEF create, pullImage, ensureTenantNetwork, createContainer, undoCreate, register, replaceContainer,
             restoreProfile, At
    <2>3. withLock(c) \/ sendToNode(c) \/ remove(c) \/ getContainerCount(c) \/ removeTenantNetwork(c)
          \/ buildInstance(c) \/ setupBilling(c) \/ startBilling(c) \/ stopBilling(c) \/ setupProxy(c) =>
            UNCHANGED <<boxes, data, profiles>>
      BY DEF withLock, sendToNode, remove, getContainerCount, removeTenantNetwork, buildInstance, setupBilling,
             startBilling, stopBilling, setupProxy, disk, docker
    <2>. QED
      BY <2>1, <2>2, <2>3 DEF FleetStep
  <1>. QED
    BY <1>1, <1>2, <1>3, <1>4, StaysPut

-----------------------------------------------------------------------------
(* Where the rollout stands while the calls move                            *)

\* A call that is not the updater's, or that finds it at rest.
LEMMA RollTypesKept ==
    ASSUME RollTypes, FleetInv, NEW c \in Callers, FleetStep(c), UNCHANGED rolloutVars
    PROVE  /\ RollTypes' /\ b0' = b0 /\ rollbackImage' = rollbackImage
           /\ c = Roller => phase \in Asking /\ B(c) = b0 /\ jobs[c].op = "update" /\ batch # <<>>
  <1>1. Touches(c)
    BY CallTouches
  <1>2. b0' = b0 /\ rollbackImage' = rollbackImage
    BY DEF rolloutVars, progress, b0, rollbackImage
  <1>3. c = Roller => phase \in Asking
    BY <1>1 DEF Touches, RollTypes
  <1>4. c = Roller => B(c) = b0 /\ jobs[c].op = "update" /\ batch # <<>>
    BY <1>3 DEF RollTypes, Asking, Working, Job, B
  <1>5. RollTypes'
    <2>1. phase \notin Asking => jobs'[Roller].op = "none" \/ caller'[Roller].at = "done"
      <3>1. Roller \in Callers
        BY RolloutsAssumption
      <3>. QED
        BY <1>1, <1>3, <3>1 DEF Touches, RollTypes
    <2>. QED
      BY <1>1, <1>2, <2>1 DEF Touches, RollTypes, rolloutVars, progress
  <1>. QED
    BY <1>2, <1>3, <1>4, <1>5

\* What the rollout does itself leaves the calls and the bots where they are.
LEMMA FleetKept ==
    ASSUME FleetInv, UNCHANGED <<world, profiles, boxes, rows, routes, made, queue, overtaken, unsettled>>,
           pulled' \in Nat, published' \in Nat, faults' \in Nat, faults' = 0 => faults = 0, data' \in [Bots -> Nat],
           \/ UNCHANGED <<jobs, caller>>
           \/ /\ caller[Roller].at \in {"idle", "done"}
              /\ \E b \in Bots, image \in Images : jobs' = [jobs EXCEPT ![Roller] = Job("update", b, image)]
              /\ caller' = [caller EXCEPT ![Roller] = Idle]
    PROVE  FleetInv'
  <1>0. CallTypes /\ DiskTypes /\ QueueRight /\ Roller \in Callers
    BY RolloutsAssumption DEF FleetInv
  <1>1. DiskTypes'
    BY <1>0 DEF DiskTypes
  <1>2. CASE UNCHANGED <<jobs, caller>>
    <2>1. CallTypes' /\ QueueRight'
      BY <1>0, <1>2 DEF CallTypes, QueueRight, Past, Waits, B
    <2>2. ASSUME NEW b \in Bots PROVE BotRight(b)'
      <3>1. NoTrace(b)' <=> NoTrace(b)
        BY <1>2 DEF NoTrace, At, B
      <3>2. (Bare(b)' <=> Bare(b)) /\ (Settled(b)' <=> Settled(b)) /\ (Plain(b)' => Plain(b))
        BY <3>1 DEF Bare, Settled, Plain
      <3>3. \A d \in Callers : B(d) = b => (Placed(d)' <=> Placed(d)) /\ (Past(d)' <=> Past(d)) /\ B(d)' = B(d)
        BY <1>2, <3>1, <3>2 DEF Placed, Past, B
      <3>4. \A d \in Callers : B(d)' = B(d)
        BY <1>2 DEF B
      <3>. QED
        BY <3>2, <3>3, <3>4 DEF BotRight, FleetInv
    <2>. QED
      BY <1>1, <2>1, <2>2 DEF FleetInv
  <1>3. ASSUME NEW o \in Bots, NEW image \in Images, jobs' = [jobs EXCEPT ![Roller] = Job("update", o, image)],
               caller' = [caller EXCEPT ![Roller] = Idle], caller[Roller].at \in {"idle", "done"}
        PROVE  FleetInv'
    <2>. PICK job : job = Job("update", o, image)
      OBVIOUS
    <2>1. /\ jobs' \in [Callers -> JobRows] /\ jobs'[Roller] = job /\ job.op = "update"
          /\ \A d \in Callers \ {Roller} : jobs'[d] = jobs[d]
      <3>1. job \in JobRows /\ job.op = "update"
        BY DEF Job, JobRows, ApiOps
      <3>. QED
        BY <1>0, <1>3, <3>1 DEF CallTypes
    <2>2. /\ caller' \in [Callers -> CallerRows] /\ caller'[Roller].at = "idle"
          /\ \A d \in Callers \ {Roller} : caller'[d] = caller[d]
      <3>1. Idle \in CallerRows /\ Idle.at = "idle"
        BY DEF Idle, CallerRows, Spots, NoImage
      <3>. QED
        BY <1>0, <1>3, <3>1 DEF CallTypes
    <2>3. CallTypes'
      <3>1. "idle" \in SpotsOf(job.op) /\ "idle" \notin Pulled
        BY DEF SpotsOf, Pulled
      <3>. QED
        BY <1>0, <2>1, <2>2, <3>1 DEF CallTypes
    <2>4. /\ ~Past(Roller) /\ ~Waits(Roller) /\ ~Past(Roller)' /\ ~Waits(Roller)'
          /\ ~At(Roller, "act", Setups) /\ ~At(Roller, "act", Setups)'
      BY <1>3, <2>2 DEF Past, Waits, At
    <2>5. \A d \in Callers \ {Roller} : /\ B(d)' = B(d) /\ (Past(d)' <=> Past(d)) /\ (Waits(d)' <=> Waits(d))
                                        /\ At(d, "act", Setups)' <=> At(d, "act", Setups)
      BY <2>1, <2>2 DEF B, Past, Waits, At
    <2>6. QueueRight'
      BY <1>0, <2>4, <2>5 DEF QueueRight
    <2>7. ASSUME NEW b \in Bots PROVE BotRight(b)'
      <3>1. NoTrace(b)' <=> NoTrace(b)
        BY <2>4, <2>5 DEF NoTrace
      <3>2. (Bare(b)' <=> Bare(b)) /\ (Settled(b)' <=> Settled(b)) /\ (Plain(b)' => Plain(b))
        BY <3>1 DEF Bare, Settled, Plain
      <3>3. \A d \in Callers \ {Roller} : B(d) = b => (Placed(d)' <=> Placed(d))
        BY <2>1, <2>2, <2>5, <3>1, <3>2 DEF Placed
      <3>. QED
        BY <2>4, <2>5, <3>2, <3>3 DEF BotRight, FleetInv
    <2>. QED
      BY <1>1, <2>3, <2>6, <2>7 DEF FleetInv
  <1>. QED
    BY <1>2, <1>3

-----------------------------------------------------------------------------
(* Bots that only the rollout chooses images for                            *)

\* What a tag means only gets newer.
LEMMA ResolvesUp ==
    ASSUME pulled \in Nat, pulled' \in Nat, pulled <= pulled', NEW x \in Nat
    PROVE  Resolve(x) \in Nat /\ Resolve(x)' \in Nat /\ Resolve(x) <= Resolve(x)'
  BY DEF Resolve, Tag

\* The numbers of a bot.
LEMMA BotFacts ==
    ASSUME DiskTypes, NEW b \in Bots
    PROVE  /\ boxes[b] \in BoxRows /\ boxes[b].digest \in Nat /\ data[b] \in Nat /\ pulled \in Nat
           /\ profiles[b] # NoImage /\ profiles[b] # Malformed => profiles[b] \in Nat
           /\ NoBox.digest = 0
  BY DEF DiskTypes, BoxRows, NoBox, Images

LEMMA WearsKeeps ==
    ASSUME DiskTypes, DiskTypes', RollTypes, NEW b \in Bots, CleanRight(b), Wears(b), UNCHANGED <<world, phase, snap, prev>>,
           b0' = b0, pulled <= pulled',
           b = b0 /\ phase \in Chain =>
              /\ caller'[Roller].at \in {"network", "box", "start", "done"} =>
                   \/ caller[Roller].at \in {"network", "box", "start", "done"}
                   \/ boxes'[b] = NoBox \/ profiles'[b] \in {NoImage, prev.image}
              /\ Past(Roller)' => Past(Roller) \/ prev.digest # 0
    PROVE  CleanRight(b)'
  <1>0. /\ boxes[b].digest \in Nat /\ data[b] \in Nat /\ pulled \in Nat
        /\ boxes'[b].digest \in Nat /\ data'[b] \in Nat /\ pulled' \in Nat
        /\ NoBox.digest = 0
        /\ profiles[b] # NoImage /\ profiles[b] # Malformed => profiles[b] \in Nat
        /\ NoImage # Malformed
    BY BotFacts DEF NoImage, Malformed, DiskTypes, BoxRows, NoBox
  <1>1. \A x \in Nat : Resolve(x) \in Nat /\ Resolve(x)' \in Nat /\ Resolve(x) <= Resolve(x)'
    BY <1>0, ResolvesUp
  <1>2. /\ boxes'[b] # NoBox => boxes[b] # NoBox /\ boxes'[b].digest = boxes[b].digest
        /\ boxes'[b].digest <= boxes[b].digest
        /\ profiles'[b] # NoImage => profiles'[b] = profiles[b]
        /\ profiles'[b] = NoImage => profiles[b] = NoImage \/ boxes'[b] = NoBox
        /\ data'[b] # data[b] => boxes[b] # NoBox /\ data'[b] = boxes[b].digest
        /\ data[b] <= data'[b]
    <2>1. boxes'[b] = NoBox => boxes'[b].digest = 0
      BY <1>0
    <2>. QED
      BY <1>0, <2>1 DEF Wears
  <1>. HIDE DEF NoBox
  <1>3. Lives(b)'
    <2>1. profiles'[b] # Malformed
      BY <1>0, <1>2 DEF CleanRight, Lives
    <2>2. data'[b] <= pulled' /\ boxes'[b].digest <= pulled'
      BY <1>0, <1>2 DEF CleanRight, Lives
    <2>3. profiles'[b] # NoImage => data'[b] > 0 /\ profiles'[b] <= pulled'
      BY <1>0, <1>2 DEF CleanRight, Lives
    <2>4. profiles'[b] = NoImage \/ b \in world.remote => boxes'[b] = NoBox
      BY <1>2 DEF CleanRight, Lives
    <2>. QED
      BY <2>1, <2>2, <2>3, <2>4 DEF Lives
  <1>4. profiles'[b] # NoImage =>
          /\ profiles[b] = profiles'[b] /\ Resolve(profiles[b]) \in Nat /\ Resolve(profiles[b])' \in Nat
          /\ Resolve(profiles[b]) <= Resolve(profiles[b])'
    BY <1>0, <1>1, <1>2 DEF CleanRight, Lives, Resolve
  <1>5. Fits(b)' \/ (phase \in {"undone", "restore"} /\ b = b0)
    <2>1. ASSUME Fits(b) PROVE Fits(b)'
      <3>1. boxes'[b] = NoBox \/ data'[b] <= boxes'[b].digest
        BY <1>0, <1>2, <2>1 DEF Fits
      <3>2. profiles'[b] # NoImage => data'[b] <= Resolve(profiles[b])' /\ boxes'[b].digest <= Resolve(profiles[b])'
        BY <1>0, <1>2, <1>4, <2>1 DEF Fits
      <3>. QED
        BY <3>1, <3>2 DEF Fits
    <2>. QED
      BY <2>1 DEF CleanRight
  <1>6. ASSUME phase \in Chain \cup {"update", "restore"}, b = b0 PROVE Snapped'
    <2>1. Snapped /\ snap \in Nat
      BY <1>6 DEF CleanRight, RollTypes
    <2>. QED
      BY <1>0, <1>2, <1>6, <2>1 DEF Snapped
  <1>7. ASSUME phase \in Chain, b = b0 PROVE Returns'
    <2>1. Returns /\ prev.image \in Nat /\ prev.digest \in Nat /\ snap \in Nat
      <3>1. Returns /\ prev.image # Malformed
        BY <1>7 DEF CleanRight, Returns
      <3>. QED
        BY <1>7, <3>1 DEF RollTypes, PrevRows, Images
    <2>2. snap <= Resolve(prev.image)' /\ prev.digest <= Resolve(prev.image)' /\ prev.image # Malformed
      BY <1>0, <1>1, <2>1 DEF Returns
    <2>3. IF prev.digest = 0 THEN boxes'[b] = NoBox ELSE snap <= prev.digest
      BY <1>2, <1>7, <2>1 DEF Returns
    <2>4. boxes'[b] = NoBox \/ prev.digest <= boxes'[b].digest
      BY <1>2, <1>7, <2>1 DEF Returns
    <2>5. \/ profiles'[b] \in {NoImage, prev.image}
          \/ phase = "undone" /\ prev.image = Tag /\ prev.digest # 0 /\ profiles'[b] = prev.digest
      BY <1>2, <1>7, <2>1 DEF Returns
    <2>6. prev.image # Tag => boxes'[b].digest <= prev.image
      BY <1>0, <1>2, <1>7, <2>1 DEF Returns
    <2>7. phase = "undone" /\ caller'[Roller].at \in {"network", "box", "start", "done"} /\ profiles'[b] # prev.image =>
            boxes'[b].digest <= prev.digest
      <3>1. CASE profiles'[b] \in {NoImage, prev.image} \/ boxes'[b] = NoBox
        BY <1>0, <1>3, <2>1, <3>1 DEF Lives
      <3>2. CASE profiles'[b] \notin {NoImage, prev.image} /\ boxes'[b] # NoBox
        BY <1>0, <1>2, <1>7, <2>1, <3>2 DEF Returns
      <3>. QED
        BY <3>1, <3>2
    <2>8. /\ phase # "rollback" /\ Past(Roller)' => prev.digest # 0
          /\ b \in world.remote => prev.digest = 0
      BY <1>7, <2>1 DEF Returns
    <2>9. b0' = b
      BY <1>7
    <2>. QED
      BY <2>2, <2>3, <2>4, <2>5, <2>6, <2>7, <2>8, <2>9 DEF Returns
  <1>8. ASSUME phase = "restore", b = b0 PROVE Restoring'
    <2>1. Restoring /\ snap \in Nat
      BY <1>8 DEF CleanRight, RollTypes
    <2>. QED
      BY <1>0, <1>2, <1>4, <1>8, <2>1 DEF Restoring
  <1>. QED
    BY <1>3, <1>5, <1>6, <1>7, <1>8 DEF CleanRight

\* The updater's call on the bot in hand.
Hand(b) ==
    /\ b \in Bots /\ b = b0 /\ Clean(b) /\ CleanRight(b) /\ faults' = 0 /\ b \notin unsettled'
    /\ FleetStep(Roller) /\ UNCHANGED rolloutVars

LEMMA HandFacts ==
    ASSUME RollInv, NEW b, Hand(b)
    PROVE  /\ b \in Bots /\ CallTypes /\ DiskTypes /\ DiskTypes' /\ RollTypes /\ FleetInv
           /\ Roller \in Callers /\ B(Roller) = b /\ jobs[Roller].op = "update" /\ jobs[Roller].op \in Locked
           /\ phase \in Asking /\ phase \in Chain /\ CleanRight(b) /\ Returns /\ Snapped /\ Lives(b)
           /\ phase = "replace" => jobs[Roller].image = prev.image /\ Fits(b)
           /\ phase = "undone" => jobs[Roller].image = rollbackImage
           /\ faults = 0 /\ faults' = faults /\ b \notin unsettled /\ (b \notin world.remote => Plain(b))
           /\ UNCHANGED <<world, phase, snap, prev, jobs>> /\ b0' = b0
           /\ pulled <= pulled'
           /\ prev.image \in Nat /\ prev.digest \in Nat /\ snap \in Nat
           /\ jobs[Roller].image \in Images
  <1>1. Roller \in Callers /\ FleetInv /\ RollTypes /\ CallTypes /\ DiskTypes
    BY RolloutsAssumption DEF RollInv, FleetInv
  <1>2. FleetNext /\ Touches(Roller)
    BY <1>1, CallTouches DEF Hand, FleetNext, FleetStep
  <1>3. DiskTypes'
    BY <1>1, <1>2, FleetNextInv DEF FleetInv
  <1>4. b0' = b0 /\ phase \in Asking /\ B(Roller) = b /\ jobs[Roller].op = "update"
    BY <1>1, RollTypesKept DEF Hand
  <1>5. /\ phase = "replace" => jobs[Roller].image = prev.image
        /\ phase = "undone" => jobs[Roller].image = rollbackImage
    BY <1>1 DEF RollTypes, Job
  <1>6. phase \in Chain /\ phase \in {"replace", "undone"}
    BY <1>4 DEF Chain, Asking
  <1>7. CleanRight(b) /\ Returns /\ Snapped /\ Lives(b) /\ (phase = "replace" => Fits(b))
    BY <1>4, <1>6 DEF Hand, CleanRight
  <1>8. faults = 0 /\ faults' = faults /\ b \notin unsettled /\ b \in Bots /\ (b \notin world.remote => Plain(b))
    BY <1>2 DEF Hand, Clean, Touches, Plain
  <1>9. UNCHANGED <<world, phase, snap, prev, jobs>>
    BY <1>2 DEF Hand, rolloutVars, Touches
  <1>10. pulled <= pulled'
    <2>1. pulled \in Nat /\ published \in Nat /\ pulled <= published /\ pulled' \in {pulled, published}
      BY <1>1, <1>2 DEF RollInv, Pushed, DiskTypes, Touches
    <2>. QED
      BY <2>1
  <1>11. prev.image \in Nat /\ prev.digest \in Nat /\ snap \in Nat
    <2>1. prev.image # Malformed
      BY <1>7 DEF Returns
    <2>. QED
      BY <1>1, <1>6, <2>1 DEF RollTypes, PrevRows, Images
  <1>12. jobs[Roller].image \in Images
    BY <1>1, <1>4, JobFacts
  <1>13. jobs[Roller].op \in Locked
    BY <1>4 DEF Locked
  <1>. QED
    BY <1>1, <1>3, <1>4, <1>5, <1>6, <1>7, <1>8, <1>9, <1>10, <1>11, <1>12, <1>13

\* What the rollback asks for.
LEMMA RollbackImageIs ==
    ASSUME prev.digest \in Nat
    PROVE  /\ prev.digest = 0 => rollbackImage = prev.image
           /\ prev.digest # 0 /\ prev.image = Tag => rollbackImage = prev.digest
           /\ prev.digest # 0 /\ prev.image # Tag => rollbackImage = Malformed
  BY DEF rollbackImage

LEMMA HandWaits ==
    ASSUME RollInv, NEW b, Hand(b), withLock(Roller) \/ ensureTenantNetwork(Roller)
    PROVE  CleanRight(b)'
  <1>1. /\ b \in Bots /\ DiskTypes /\ DiskTypes' /\ RollTypes /\ CleanRight(b) /\ b0' = b0 /\ pulled <= pulled'
        /\ UNCHANGED <<world, phase, snap, prev, jobs>> /\ CallTypes /\ Roller \in Callers
        /\ jobs[Roller].op \in Locked
    BY HandFacts
  <1>2. Wears(b)
    <2>1. UNCHANGED <<boxes, profiles, data>>
      BY DEF withLock, ensureTenantNetwork, disk, docker
    <2>. QED
      BY <2>1, StaysPut
  <1>3. CASE withLock(Roller)
    <2>1. To(Roller, "begin")
      BY <1>1, <1>3 DEF withLock
    <2>2. caller'[Roller].at = "begin"
      BY <1>1, <2>1, Goes DEF Spots
    <2>. QED
      BY <1>1, <1>2, <2>2, WearsKeeps DEF Past
  <1>4. CASE ensureTenantNetwork(Roller)
    <2>1. To(Roller, "box") /\ caller[Roller].at = "network"
      BY <1>4 DEF ensureTenantNetwork, At
    <2>2. caller'[Roller].at = "box" /\ Past(Roller)
      BY <1>1, <2>1, Goes DEF Spots, Past
    <2>. QED
      BY <1>1, <1>2, <2>1, <2>2, WearsKeeps
  <1>. QED
    BY <1>3, <1>4

\* A bot with a profile has its container when the turn comes, unless it is remote.
LEMMA HandUpdates ==
    ASSUME RollInv, NEW b, Hand(b), update(Roller)
    PROVE  CleanRight(b)'
  <1>1. /\ b \in Bots /\ DiskTypes /\ DiskTypes' /\ RollTypes /\ CleanRight(b) /\ b0' = b0 /\ pulled <= pulled'
        /\ UNCHANGED <<world, phase, snap, prev, jobs>> /\ CallTypes /\ Roller \in Callers /\ FleetInv
        /\ jobs[Roller].op = "update" /\ jobs[Roller].op \in Locked /\ B(Roller) = b
        /\ phase \in {"replace", "undone"} /\ Returns /\ Lives(b) /\ (b \notin world.remote => Plain(b)) /\ b = b0
        /\ phase = "replace" => jobs[Roller].image = prev.image
        /\ phase = "undone" => jobs[Roller].image = rollbackImage
        /\ prev.digest \in Nat
    BY HandFacts DEF Asking, Hand
  <1>2. UNCHANGED <<boxes, data>>
    BY DEF update, docker
  <1>3. Plain(b) => Settled(b)
    <2>1. {"update", "describe"} \in SUBSET Locked /\ At(Roller, "begin", {"update", "describe"}) /\ Runs(Roller)
      BY DEF Locked, update
    <2>. QED
      BY <1>1, <2>1, Begins
  <1>4. CASE profiles[b] = NoImage
    <2>1. Finish(Roller, FALSE) /\ profiles' = profiles
      BY <1>1, <1>4 DEF update
    <2>2. caller'[Roller].at = "done"
      BY <1>1, <2>1, Ends
    <2>3. Wears(b)
      BY <1>2, <2>1, StaysPut
    <2>. QED
      BY <1>1, <1>4, <2>1, <2>2, <2>3, WearsKeeps DEF Past
  <1>5. CASE profiles[b] # NoImage /\ boxes[b] = NoBox
    <2>1. Finish(Roller, TRUE) /\ profiles' = [profiles EXCEPT ![b] = jobs[Roller].image]
      BY <1>1, <1>5 DEF update
    <2>2. b \in world.remote /\ prev.digest = 0
      BY <1>1, <1>3, <1>5 DEF Settled, NoBox, Returns
    <2>3. jobs[Roller].image = prev.image /\ profiles[b] = prev.image
      BY <1>1, <1>5, <2>2, RollbackImageIs DEF Returns
    <2>4. profiles' = profiles
      BY <1>1, <2>1, <2>3 DEF DiskTypes
    <2>5. caller'[Roller].at = "done"
      BY <1>1, <2>1, Ends
    <2>6. Wears(b)
      BY <1>2, <2>4, StaysPut
    <2>. QED
      BY <1>1, <2>3, <2>4, <2>5, <2>6, WearsKeeps DEF Past
  <1>6. CASE profiles[b] # NoImage /\ boxes[b] # NoBox
    <2>. PICK row : row = [at |-> "pull", handle |-> boxes[b].id, was |-> boxes[b].up, old |-> profiles[b], ok |-> FALSE]
      OBVIOUS
    <2>1. caller' = [caller EXCEPT ![Roller] = row] /\ profiles' = profiles
      <3>1. ~(profiles[b] # NoImage /\ (jobs[Roller].op = "describe" \/ boxes[b] = NoBox))
        BY <1>1, <1>6
      <3>. QED
        BY <1>1, <1>6, <3>1 DEF update
    <2>2. caller'[Roller].at = "pull"
      BY <1>1, <2>1 DEF CallTypes
    <2>3. Wears(b)
      BY <1>2, <2>1, StaysPut
    <2>4. prev.digest # 0
      BY <1>1, <1>6 DEF Returns
    <2>. QED
      BY <1>1, <2>2, <2>3, <2>4, WearsKeeps
  <1>. QED
    BY <1>4, <1>5, <1>6

\* The call is past its turn on a local bot that ran something.
LEMMA HandPast ==
    ASSUME RollInv, NEW b, Hand(b), caller[Roller].at \notin {"idle", "begin", "done"}
    PROVE  Past(Roller) /\ prev.digest # 0 /\ Plain(b) /\ Placed(Roller) /\ b \notin world.remote
  <1>1. /\ jobs[Roller].op \in Locked /\ Returns /\ phase \in Asking /\ FleetInv /\ Roller \in Callers
        /\ B(Roller) = b /\ (b \notin world.remote => Plain(b)) /\ b = b0
    BY HandFacts DEF Hand
  <1>2. Past(Roller)
    BY <1>1 DEF Past
  <1>3. prev.digest # 0 /\ b \notin world.remote
    BY <1>1, <1>2 DEF Returns, Asking
  <1>. QED
    BY <1>1, <1>2, <1>3, Continues

LEMMA HandPulls ==
    ASSUME RollInv, NEW b, Hand(b), pullImage(Roller)
    PROVE  CleanRight(b)'
  <1>1. /\ b \in Bots /\ DiskTypes /\ DiskTypes' /\ RollTypes /\ CleanRight(b) /\ b0' = b0 /\ pulled <= pulled'
        /\ UNCHANGED <<world, phase, snap, prev, jobs>> /\ CallTypes /\ Roller \in Callers
        /\ jobs[Roller].op = "update" /\ jobs[Roller].op \in Locked /\ B(Roller) = b
        /\ phase \in {"replace", "undone"} /\ Returns /\ Snapped /\ Lives(b) /\ b = b0
        /\ phase = "replace" => jobs[Roller].image = prev.image /\ Fits(b)
        /\ phase = "undone" => jobs[Roller].image = rollbackImage
        /\ prev.digest \in Nat /\ prev.image \in Nat /\ snap \in Nat /\ faults' = faults /\ faults = 0
    BY HandFacts DEF Asking, Hand
  <1>2. caller[Roller].at = "pull" /\ UNCHANGED <<boxes, data>> /\ ~Refuse
    BY <1>1 DEF pullImage, At, Refuse
  <1>3. /\ Past(Roller) /\ prev.digest # 0 /\ b \notin world.remote
        /\ boxes[b].image = profiles[b] /\ profiles[b] # NoImage
    BY <1>1, <1>2, HandPast DEF Placed
  <1>4. boxes[b] # NoBox
    BY <1>3 DEF NoBox
  <1>5. profiles[b] = prev.image \/ (phase = "undone" /\ prev.image = Tag /\ profiles[b] = prev.digest)
    BY <1>1, <1>3 DEF Returns
  <1>6. CASE jobs[Roller].image = Malformed
    <2>1. Finish(Roller, FALSE) /\ profiles' = profiles
      BY <1>1, <1>2, <1>6 DEF pullImage
    <2>2. caller'[Roller].at = "done"
      BY <1>1, <2>1, Ends
    <2>3. prev.image # Tag
      <3>1. prev.image # Malformed /\ prev.digest # Malformed
        BY <1>1 DEF Malformed
      <3>. QED
        BY <1>1, <1>3, <1>6, <3>1, RollbackImageIs
    <2>4. profiles'[b] = prev.image
      BY <1>5, <2>1, <2>3
    <2>5. Wears(b)
      BY <1>2, <2>1, StaysPut
    <2>. QED
      BY <1>1, <2>2, <2>4, <2>5, WearsKeeps DEF Past
  <1>7. CASE jobs[Roller].image # Malformed
    <2>. PICK w : w = IF caller[Roller].was THEN "stop" ELSE "remove"
      OBVIOUS
    <2>1. profiles' = [profiles EXCEPT ![b] = jobs[Roller].image] /\ To(Roller, w) /\ w \in {"stop", "remove"}
      BY <1>1, <1>2, <1>7 DEF pullImage
    <2>2. caller'[Roller].at = w
      BY <1>1, <2>1, Goes DEF Spots
    <2>3. profiles'[b] = jobs[Roller].image
      BY <1>1, <2>1 DEF DiskTypes
    <2>4. CASE jobs[Roller].image = profiles[b]
      <3>1. Wears(b)
        BY <1>2, <2>3, <2>4, StaysPut
      <3>. QED
        BY <1>1, <1>3, <2>1, <2>2, <3>1, WearsKeeps
    <2>5. CASE jobs[Roller].image # profiles[b]
      <3>1. phase = "undone" /\ prev.image = Tag /\ jobs[Roller].image = prev.digest /\ profiles'[b] = prev.digest
        BY <1>1, <1>3, <1>5, <1>7, <2>3, <2>5, RollbackImageIs
      <3>2. /\ boxes[b].digest \in Nat /\ data[b] \in Nat /\ pulled \in Nat /\ pulled' \in Nat
            /\ prev.digest <= boxes[b].digest /\ boxes[b].digest <= pulled /\ data[b] <= pulled /\ data[b] > 0
            /\ snap <= prev.digest /\ snap <= pulled /\ snap > 0
        BY <1>1, <1>3, <1>4, BotFacts DEF Returns, Lives, Snapped, DiskTypes
      <3>3. /\ Resolve(prev.image) = pulled /\ Resolve(prev.image)' = pulled'
            /\ prev.digest # NoImage /\ prev.digest # Malformed
        BY <1>1, <3>1 DEF Resolve, NoImage, Malformed
      <3>4. Lives(b)'
        BY <1>1, <1>2, <1>3, <3>1, <3>2, <3>3 DEF Lives
      <3>5. Snapped'
        BY <1>1, <3>2 DEF Snapped
      <3>6. Returns'
        BY <1>1, <1>2, <1>3, <2>1, <2>2, <3>1, <3>2, <3>3 DEF Returns
      <3>. QED
        BY <1>1, <3>1, <3>4, <3>5, <3>6 DEF CleanRight
    <2>. QED
      BY <2>4, <2>5
  <1>. QED
    BY <1>6, <1>7

\* The new container is of the image asked for, and no volume is newer.
LEMMA HandCreates ==
    ASSUME RollInv, NEW b, Hand(b), createContainer(Roller)
    PROVE  CleanRight(b)'
  <1>1. /\ b \in Bots /\ DiskTypes /\ DiskTypes' /\ RollTypes /\ CleanRight(b) /\ b0' = b0
        /\ UNCHANGED <<world, phase, snap, prev, jobs>> /\ CallTypes /\ Roller \in Callers
        /\ jobs[Roller].op = "update" /\ jobs[Roller].op \in Locked /\ B(Roller) = b
        /\ phase \in {"replace", "undone"} /\ Returns /\ Snapped /\ Lives(b) /\ b = b0
        /\ phase = "replace" => jobs[Roller].image = prev.image /\ Fits(b)
        /\ phase = "undone" => jobs[Roller].image = rollbackImage
        /\ prev.digest \in Nat /\ prev.image \in Nat /\ snap \in Nat /\ faults' = faults /\ faults = 0
    BY HandFacts DEF Asking, Hand
  <1>2. caller[Roller].at = "box" /\ UNCHANGED <<profiles, data, pulled>> /\ ~Refuse
    BY <1>1 DEF createContainer, At, Refuse, disk
  <1>3. /\ Past(Roller) /\ prev.digest # 0 /\ b \notin world.remote
        /\ boxes[b] = NoBox /\ profiles[b] = jobs[Roller].image /\ jobs[Roller].image # Malformed
    <2>1. jobs[Roller].image # Malformed
      BY <1>1, <1>2 DEF CallTypes, Pulled
    <2>. QED
      BY <1>1, <1>2, <2>1, HandPast DEF Placed
  <1>. PICK w : w = IF caller[Roller].was THEN "start" ELSE "done"
    OBVIOUS
  <1>. PICK box : box = [id |-> made + 1, image |-> jobs[Roller].image, digest |-> Resolve(jobs[Roller].image), up |-> FALSE]
    OBVIOUS
  <1>4. /\ boxes' = [boxes EXCEPT ![b] = box]
        /\ caller[Roller].was => To(Roller, "start")
        /\ ~caller[Roller].was => Finish(Roller, TRUE)
    <2>1. caller[Roller].was \in BOOLEAN
      BY <1>1 DEF CallTypes, CallerRows
    <2>. QED
      BY <1>1, <1>2, <1>3, <2>1 DEF createContainer
  <1>5. caller'[Roller].at \in {"start", "done"} /\ (Past(Roller)' => Past(Roller))
    <2>1. caller[Roller].was => caller'[Roller].at = "start"
      BY <1>1, <1>4, Goes DEF Spots
    <2>2. ~caller[Roller].was => caller'[Roller].at = "done"
      BY <1>1, <1>4, Ends
    <2>. QED
      BY <1>3, <2>1, <2>2
  <1>6. boxes'[b] = box /\ box.digest = Resolve(jobs[Roller].image)
    BY <1>1, <1>4 DEF DiskTypes
  <1>7. /\ data[b] \in Nat /\ pulled \in Nat /\ data[b] <= pulled
        /\ profiles[b] # NoImage => data[b] > 0 /\ profiles[b] <= pulled
    BY <1>1, BotFacts DEF Lives
  <1>8. Resolve(prev.image) \in Nat /\ \A x : Resolve(x)' = IF x = Tag THEN pulled ELSE x
    BY <1>1, <1>2, <1>7 DEF Resolve
  <1>9. CASE jobs[Roller].image = prev.image
    <2>1. box.digest = Resolve(prev.image) /\ profiles[b] = prev.image /\ profiles[b] # NoImage
      BY <1>1, <1>3, <1>6, <1>9 DEF NoImage
    <2>2. box.digest <= pulled /\ prev.digest <= box.digest /\ snap <= prev.digest
      BY <1>1, <1>3, <1>7, <2>1 DEF Resolve, Returns
    <2>3. Lives(b)'
      BY <1>1, <1>2, <1>3, <1>6, <1>7, <2>1, <2>2 DEF Lives
    <2>4. Snapped'
      BY <1>1, <1>2 DEF Snapped
    <2>5. Returns'
      <3>1. Resolve(prev.image)' = Resolve(prev.image) /\ (prev.image # Tag => box.digest = prev.image)
        BY <1>1, <1>2, <2>1 DEF Resolve
      <3>. QED
        BY <1>1, <1>2, <1>3, <1>5, <1>6, <2>1, <2>2, <3>1 DEF Returns
    <2>6. phase = "replace" => Fits(b)'
      <3>1. Resolve(profiles[b])' = Resolve(prev.image)
        BY <1>1, <1>2, <2>1 DEF Resolve
      <3>2. phase = "replace" => data[b] <= Resolve(prev.image)
        BY <1>1, <2>1 DEF Fits
      <3>. QED
        BY <1>2, <1>6, <1>8, <2>1, <3>1, <3>2 DEF Fits
    <2>. QED
      BY <1>1, <2>3, <2>4, <2>5, <2>6 DEF CleanRight
  <1>10. CASE jobs[Roller].image # prev.image
    <2>1. phase = "undone" /\ prev.image = Tag /\ jobs[Roller].image = prev.digest
      BY <1>1, <1>3, <1>10, RollbackImageIs
    <2>2. box.digest = prev.digest /\ profiles[b] = prev.digest /\ prev.digest # NoImage /\ prev.digest <= pulled
      BY <1>1, <1>3, <1>6, <1>7, <2>1 DEF Resolve, Tag, NoImage
    <2>3. Lives(b)'
      BY <1>1, <1>2, <1>3, <1>6, <1>7, <2>2 DEF Lives
    <2>4. Snapped'
      BY <1>1, <1>2 DEF Snapped
    <2>5. Returns'
      <3>1. Resolve(prev.image)' = Resolve(prev.image) /\ snap <= prev.digest
        BY <1>1, <1>2, <1>3 DEF Resolve, Returns
      <3>. QED
        BY <1>1, <1>2, <1>3, <1>5, <1>6, <2>1, <2>2, <3>1 DEF Returns
    <2>. QED
      BY <1>1, <2>1, <2>3, <2>4, <2>5 DEF CleanRight
  <1>. QED
    BY <1>9, <1>10

LEMMA HandReplaces ==
    ASSUME RollInv, NEW b, Hand(b), replaceContainer(Roller)
    PROVE  CleanRight(b)'
  <1>1. /\ b \in Bots /\ DiskTypes /\ DiskTypes' /\ RollTypes /\ CleanRight(b) /\ b0' = b0 /\ pulled <= pulled'
        /\ UNCHANGED <<world, phase, snap, prev, jobs>> /\ CallTypes /\ Roller \in Callers
        /\ jobs[Roller].op = "update" /\ jobs[Roller].op \in Locked /\ B(Roller) = b
        /\ faults' = faults /\ faults = 0 /\ boxes[b] \in BoxRows
    BY HandFacts, BotFacts DEF Asking, Hand
  <1>2. caller[Roller].at \in {"stop", "remove", "start"} /\ profiles' = profiles /\ ~Refuse
    BY <1>1 DEF replaceContainer, At, Refuse, disk
  <1>3. Past(Roller)
    BY <1>1, <1>2 DEF Past
  <1>4. CASE To(Roller, "restore") /\ UNCHANGED <<boxes, data>>
    <2>1. caller'[Roller].at = "restore"
      BY <1>1, <1>4, Goes DEF Spots
    <2>2. Wears(b)
      BY <1>2, <1>4, StaysPut
    <2>. QED
      BY <1>1, <1>3, <2>1, <2>2, WearsKeeps
  <1>5. CASE /\ caller[Roller].at = "remove"
             /\ boxes' = [boxes EXCEPT ![b] = NoBox] /\ data' = data /\ To(Roller, "network")
    <2>1. caller'[Roller].at = "network" /\ boxes'[b] = NoBox
      BY <1>1, <1>5, Goes DEF Spots, DiskTypes
    <2>2. Wears(b)
      BY <1>2, <1>5, <2>1 DEF Wears
    <2>. QED
      BY <1>1, <1>3, <2>1, <2>2, WearsKeeps
  <1>6. CASE /\ caller[Roller].at = "stop" /\ boxes[b] # NoBox
             /\ boxes' = [boxes EXCEPT ![b].up = FALSE] /\ data' = data /\ To(Roller, "remove")
    <2>1. caller'[Roller].at = "remove"
      BY <1>1, <1>6, Goes DEF Spots
    <2>2. boxes'[b] # NoBox /\ boxes'[b].digest = boxes[b].digest
      <3>. PICK box : box = [boxes[b] EXCEPT !.up = FALSE]
        OBVIOUS
      <3>1. boxes'[b] = box /\ box.digest = boxes[b].digest /\ box.id # 0
        BY <1>1, <1>6 DEF DiskTypes, BoxRows
      <3>. QED
        BY <3>1 DEF NoBox
    <2>3. Wears(b)
      BY <1>2, <1>6, <2>2 DEF Wears
    <2>. QED
      BY <1>1, <1>3, <2>1, <2>3, WearsKeeps
  <1>7. CASE /\ caller[Roller].at = "start" /\ boxes[b] # NoBox
             /\ boxes' = [boxes EXCEPT ![b].up = TRUE] /\ data' = Migrated(b) /\ Finish(Roller, TRUE)
    <2>1. caller'[Roller].at = "done"
      BY <1>1, <1>7, Ends
    <2>2. boxes'[b] # NoBox /\ boxes'[b].digest = boxes[b].digest
      <3>. PICK box : box = [boxes[b] EXCEPT !.up = TRUE]
        OBVIOUS
      <3>1. boxes'[b] = box /\ box.digest = boxes[b].digest /\ box.id # 0
        BY <1>1, <1>7 DEF DiskTypes, BoxRows
      <3>. QED
        BY <3>1 DEF NoBox
    <2>3. data'[b] = IF data[b] < boxes[b].digest THEN boxes[b].digest ELSE data[b]
      BY <1>1, <1>7 DEF DiskTypes, Migrated
    <2>4. Wears(b)
      BY <1>2, <1>7, <2>2, <2>3 DEF Wears
    <2>. QED
      BY <1>1, <1>3, <1>7, <2>1, <2>4, WearsKeeps
  <1>8. \/ To(Roller, "restore") /\ UNCHANGED <<boxes, data>>
        \/ /\ caller[Roller].at = "remove"
           /\ boxes' = [boxes EXCEPT ![b] = NoBox] /\ data' = data /\ To(Roller, "network")
        \/ /\ caller[Roller].at = "stop" /\ boxes[b].up
           /\ boxes' = [boxes EXCEPT ![b].up = FALSE] /\ data' = data /\ To(Roller, "remove")
        \/ /\ caller[Roller].at = "start" /\ boxes[b] # NoBox
           /\ boxes' = [boxes EXCEPT ![b].up = TRUE] /\ data' = Migrated(b) /\ Finish(Roller, TRUE)
    <2>1. CASE caller[Roller].at = "stop"
      BY <1>1, <2>1 DEF replaceContainer
    <2>2. CASE caller[Roller].at = "remove"
      BY <1>1, <2>2 DEF replaceContainer
    <2>3. CASE caller[Roller].at = "start"
      BY <1>1, <2>3 DEF replaceContainer
    <2>. QED
      BY <1>2, <2>1, <2>2, <2>3
  <1>9. boxes[b].up => boxes[b] # NoBox
    BY DEF NoBox
  <1>. QED
    BY <1>4, <1>5, <1>6, <1>7, <1>8, <1>9

LEMMA HandStep ==
    ASSUME RollInv, NEW b, Hand(b)
    PROVE  CleanRight(b)'
  <1>1. jobs[Roller].op = "update" /\ B(Roller) = b /\ CallTypes /\ Roller \in Callers /\ b \notin unsettled'
    BY HandFacts DEF Hand
  <1>2. ~restoreProfile(Roller)
    BY <1>1 DEF restoreProfile
  <1>3. /\ ~create(Roller) /\ ~sendToNode(Roller) /\ ~undoCreate(Roller) /\ ~register(Roller) /\ ~remove(Roller)
        /\ ~removeInstance(Roller) /\ ~getContainerCount(Roller) /\ ~removeTenantNetwork(Roller) /\ ~deleteBot(Roller)
        /\ ~start(Roller) /\ ~stop(Roller) /\ ~restart(Roller) /\ ~setupBilling(Roller) /\ ~startBilling(Roller)
        /\ ~stopBilling(Roller) /\ ~setupProxy(Roller)
    BY <1>1 DEF create, sendToNode, undoCreate, register, remove, removeInstance, getContainerCount,
                removeTenantNetwork, deleteBot, start, stop, restart, setupBilling, startBilling, stopBilling,
                setupProxy, At
  <1>4. ~buildInstance(Roller)
    <2>1. "get" \notin SpotsOf("update")
      BY DEF SpotsOf, Locked
    <2>. QED
      BY <1>1, <2>1 DEF buildInstance, CallTypes
  <1>. QED
    BY <1>2, <1>3, <1>4, HandWaits, HandUpdates, HandPulls, HandCreates, HandReplaces DEF Hand, FleetStep

\* Whoever moves, a clean bot stays right.
LEMMA CleanKept ==
    ASSUME RollInv, NEW c \in Callers, FleetStep(c), UNCHANGED rolloutVars, NEW b \in Bots, Clean(b)'
    PROVE  CleanRight(b)'
  <1>0. /\ FleetInv /\ RollTypes /\ DiskTypes /\ Touches(c)
        /\ c = Roller => phase \in Asking /\ B(c) = b0 /\ b0' = b0
        /\ b0' = b0 /\ UNCHANGED <<phase, snap, prev>>
    BY CallTouches, RollTypesKept DEF RollInv, FleetInv, rolloutVars
  <1>1. Clean(b) /\ faults' = 0 /\ b \notin unsettled /\ b \notin unsettled'
    <2>1. faults = 0 /\ faults' = 0 /\ b \notin unsettled /\ b \notin unsettled'
      BY <1>0 DEF Clean, Touches, Refuse, DiskTypes
    <2>2. Own(b)
      BY <1>0 DEF Clean, Own, Touches, B
    <2>. QED
      BY <2>1, <2>2 DEF Clean
  <1>2. CleanRight(b)
    BY <1>1 DEF RollInv
  <1>3. CASE c = Roller /\ b = b0
    <2>1. Hand(b)
      BY <1>1, <1>2, <1>3 DEF Hand
    <2>. QED
      BY <2>1, HandStep
  <1>4. CASE ~(c = Roller /\ b = b0)
    <2>1. Wears(b)
      <3>1. CASE B(c) # b
        BY <1>0, <3>1, StaysPut DEF Touches
      <3>2. CASE B(c) = b
        <4>1. c # Roller /\ jobs[c].op \notin {"create", "update"}
          BY <1>0, <1>1, <1>4, <3>2 DEF Clean, Own
        <4>2. b \in world.remote => boxes[b] = NoBox
          BY <1>2 DEF CleanRight, Lives
        <4>. QED
          BY <1>0, <1>1, <3>2, <4>1, <4>2, CallWears
      <3>. QED
        BY <3>1, <3>2
    <2>2. DiskTypes'
      <3>1. FleetNext
        BY DEF FleetNext, FleetStep
      <3>. QED
        BY <1>0, <3>1, FleetNextInv DEF FleetInv
    <2>3. pulled <= pulled' /\ world' = world
      <3>1. pulled \in Nat /\ published \in Nat /\ pulled <= published /\ pulled' \in {pulled, published}
        BY <1>0 DEF RollInv, Pushed, DiskTypes, Touches
      <3>. QED
        BY <1>0, <3>1 DEF Touches
    <2>4. b = b0 => caller'[Roller] = caller[Roller] /\ (Past(Roller)' <=> Past(Roller))
      <3>1. Roller \in Callers
        BY RolloutsAssumption
      <3>. QED
        BY <1>0, <1>4, <3>1 DEF Touches, Past
    <2>. QED
      BY <1>0, <1>2, <2>1, <2>2, <2>3, <2>4, WearsKeeps
  <1>. QED
    BY <1>3, <1>4

\* An update that ends well has left what the tag meant, or no container.
LEMMA UpdateReaches ==
    ASSUME FleetInv, FleetStep(Roller), NEW b \in Bots, B(Roller) = b, NEW n \in Nat, n <= pulled,
           jobs[Roller].op = "update", jobs[Roller].image = Tag,
           caller[Roller].at = "start" => boxes[b].digest >= n \/ boxes[b] = NoBox,
           caller'[Roller].at = "start" \/ (caller'[Roller].at = "done" /\ caller'[Roller].ok)
    PROVE  boxes'[b].digest >= n \/ boxes'[b] = NoBox
  <1>1. CallTypes /\ DiskTypes /\ Roller \in Callers
    BY RolloutsAssumption DEF FleetInv
  <1>2. /\ ~create(Roller) /\ ~sendToNode(Roller) /\ ~undoCreate(Roller) /\ ~register(Roller) /\ ~remove(Roller)
        /\ ~removeInstance(Roller) /\ ~getContainerCount(Roller) /\ ~removeTenantNetwork(Roller) /\ ~deleteBot(Roller)
        /\ ~start(Roller) /\ ~stop(Roller) /\ ~restart(Roller) /\ ~setupBilling(Roller) /\ ~startBilling(Roller)
        /\ ~stopBilling(Roller) /\ ~setupProxy(Roller)
    BY DEF create, sendToNode, undoCreate, register, remove, removeInstance, getContainerCount,
           removeTenantNetwork, deleteBot, start, stop, restart, setupBilling, startBilling, stopBilling,
           setupProxy, At
  <1>3. ~buildInstance(Roller)
    <2>1. "get" \notin SpotsOf("update")
      BY DEF SpotsOf, Locked
    <2>. QED
      BY <1>1, <2>1 DEF buildInstance, CallTypes
  <1>4. ~withLock(Roller) /\ ~ensureTenantNetwork(Roller)
    <2>1. ASSUME NEW w \in {"begin", "get", "box"}, To(Roller, w) PROVE FALSE
      BY <1>1, <2>1, Goes DEF Spots
    <2>. QED
      BY <2>1 DEF withLock, ensureTenantNetwork
  <1>5. ~Finish(Roller, FALSE)
    BY <1>1, Ends
  <1>6. ~pullImage(Roller) /\ ~restoreProfile(Roller)
    <2>1. ASSUME NEW w \in {"stop", "remove"}, To(Roller, w) PROVE FALSE
      BY <1>1, <2>1, Goes DEF Spots
    <2>. QED
      BY <1>5, <2>1 DEF pullImage, restoreProfile
  <1>7. CASE update(Roller)
    <2>1. boxes' = boxes
      BY <1>7 DEF update, docker
    <2>2. CASE profiles[b] # NoImage /\ boxes[b] # NoBox
      <3>. PICK row : row = [at |-> "pull", handle |-> boxes[b].id, was |-> boxes[b].up, old |-> profiles[b], ok |-> FALSE]
        OBVIOUS
      <3>1. ~(profiles[b] # NoImage /\ (jobs[Roller].op = "describe" \/ boxes[b] = NoBox))
        BY <2>2
      <3>2. caller' = [caller EXCEPT ![Roller] = row]
        BY <1>7, <2>2, <3>1 DEF update
      <3>3. caller'[Roller].at = "pull"
        BY <1>1, <3>2 DEF CallTypes
      <3>. QED
        BY <3>3
    <2>3. CASE profiles[b] = NoImage
      BY <1>5, <1>7, <2>3 DEF update
    <2>. QED
      BY <2>1, <2>2, <2>3
  <1>8. CASE createContainer(Roller)
    <2>1. ~To(Roller, "restore")
      BY <1>1, Goes DEF Spots
    <2>2. boxes[b] = NoBox /\ boxes' = [boxes EXCEPT ![b] = [id |-> made + 1, image |-> jobs[Roller].image,
                                                             digest |-> Resolve(jobs[Roller].image), up |-> FALSE]]
      BY <1>8, <2>1 DEF createContainer
    <2>3. boxes'[b].digest = pulled
      BY <1>1, <2>2 DEF DiskTypes, Resolve
    <2>. QED
      BY <1>1, <2>3 DEF DiskTypes
  <1>9. CASE replaceContainer(Roller)
    <2>1. ~To(Roller, "restore") /\ ~To(Roller, "remove") /\ ~To(Roller, "network")
      BY <1>1, Goes DEF Spots
    <2>2. /\ caller[Roller].at = "start" /\ boxes[b] # NoBox
          /\ boxes' = [boxes EXCEPT ![b] = [@ EXCEPT !.up = TRUE]]
      <3>1. CASE caller[Roller].at = "stop"
        BY <1>9, <2>1, <3>1 DEF replaceContainer
      <3>2. CASE caller[Roller].at = "remove"
        BY <1>9, <2>1, <3>2 DEF replaceContainer
      <3>3. CASE caller[Roller].at = "start"
        BY <1>9, <2>1, <3>3 DEF replaceContainer
      <3>. QED
        BY <1>9, <3>1, <3>2, <3>3 DEF replaceContainer
    <2>. PICK box : box = [boxes[b] EXCEPT !.up = TRUE]
      OBVIOUS
    <2>3. boxes[b] \in BoxRows /\ boxes'[b] = box
      BY <1>1, <2>2 DEF DiskTypes
    <2>4. box.digest = boxes[b].digest
      BY <2>3 DEF BoxRows, NoBox
    <2>. QED
      BY <2>2, <2>3, <2>4
  <1>. QED
    BY <1>2, <1>3, <1>4, <1>6, <1>7, <1>8, <1>9 DEF FleetStep

LEMMA VerdictKept ==
    ASSUME RollInv, NEW c \in Callers, FleetStep(c), UNCHANGED rolloutVars, NEW b \in Bots
    PROVE  VerdictRight(b)'
  <1>0. /\ FleetInv /\ RollTypes /\ DiskTypes /\ Touches(c) /\ VerdictRight(b) /\ Roller \in Callers
        /\ c = Roller => phase \in Asking /\ B(c) = b0 /\ jobs[c].op = "update"
        /\ b0' = b0 /\ UNCHANGED <<phase, prev, verdict>>
    BY CallTouches, RollTypesKept, RolloutsAssumption DEF RollInv, FleetInv, rolloutVars
  <1>1. (Sole(b)' <=> Sole(b)) /\ \A d \in Callers : B(d)' = B(d)
    BY <1>0 DEF Sole, Touches, B
  <1>2. pulled <= pulled' /\ pulled \in Nat /\ pulled' \in Nat /\ verdict[b].digest \in Nat
    <2>1. pulled \in Nat /\ published \in Nat /\ pulled <= published /\ pulled' \in {pulled, published}
      BY <1>0 DEF RollInv, Pushed, DiskTypes, Touches
    <2>. QED
      BY <1>0, <2>1 DEF RollTypes
  <1>3. B(c) # b => (Reached(b)' <=> Reached(b))
    BY <1>0 DEF Touches, Reached
  <1>4. c # Roller => caller'[Roller] = caller[Roller]
    BY <1>0 DEF Touches
  <1>. SUFFICES ASSUME verdict[b].image = Tag, Sole(b)
                PROVE  /\ verdict[b].ok => Reached(b)'
                       /\ phase = "replace" /\ b = b0 =>
                            /\ prev.image = Tag /\ verdict[b].digest <= pulled'
                            /\ caller'[Roller].at = "start" => Reached(b)'
                            /\ caller'[Roller].at = "done" /\ caller'[Roller].ok => Reached(b)'
    BY <1>0, <1>1 DEF VerdictRight
  <1>5. CASE c # Roller
    <2>1. B(c) # b
      BY <1>5 DEF Sole
    <2>. QED
      BY <1>0, <1>2, <1>3, <1>4, <1>5, <2>1 DEF VerdictRight
  <1>6. CASE c = Roller /\ b # b0
    BY <1>0, <1>3, <1>6 DEF VerdictRight
  <1>7. CASE c = Roller /\ b = b0
    <2>1. ~verdict[b].ok
      BY <1>0, <1>7 DEF VerdictRight, Asking, Chain
    <2>2. phase = "replace" => /\ prev.image = Tag /\ verdict[b].digest <= pulled
                               /\ jobs[Roller].image = Tag
                               /\ caller[Roller].at = "start" => Reached(b)
      BY <1>0, <1>7 DEF VerdictRight, RollTypes, Job
    <2>3. FleetStep(Roller) /\ B(Roller) = b /\ jobs[Roller].op = "update"
      BY <1>0, <1>7
    <2>4. ASSUME phase = "replace", caller'[Roller].at = "start" \/ (caller'[Roller].at = "done" /\ caller'[Roller].ok)
          PROVE  Reached(b)'
      <3>. PICK n \in Nat : n = verdict[b].digest
        BY <1>2
      <3>1. caller[Roller].at = "start" => boxes[b].digest >= n \/ boxes[b] = NoBox
        BY <2>2, <2>4 DEF Reached
      <3>2. boxes'[b].digest >= n \/ boxes'[b] = NoBox
        BY <1>0, <2>2, <2>3, <2>4, <3>1, UpdateReaches
      <3>3. verdict' = verdict
        BY <1>0
      <3>. QED
        BY <3>2, <3>3 DEF Reached
    <2>. QED
      BY <1>2, <2>1, <2>2, <2>4
  <1>. QED
    BY <1>5, <1>6, <1>7

\* A call leaves the rollout in order.
LEMMA CallsKeepRoll ==
    ASSUME RollInv, FleetNext, UNCHANGED rolloutVars
    PROVE  RollInv'
  <1>. PICK c \in Callers : FleetStep(c)
    BY DEF FleetNext, FleetStep
  <1>1. FleetInv' /\ FleetInv /\ RollTypes /\ Touches(c)
    BY FleetNextInv, CallTouches DEF RollInv
  <1>2. RollTypes'
    BY <1>1, RollTypesKept
  <1>3. Pushed'
    BY <1>1 DEF RollInv, Pushed, Touches, FleetInv, DiskTypes
  <1>. QED
    BY <1>1, <1>2, <1>3, CleanKept, VerdictKept DEF RollInv

-----------------------------------------------------------------------------
(* What the rollout does itself                                             *)

\* No container is asked for or made, so a bot stays what it was.
LEMMA Frame ==
    ASSUME RollInv, FleetInv', UNCHANGED <<world, profiles, boxes, unsettled>>, faults' = 0 => faults = 0,
           pulled <= pulled', \A d \in Callers \ {Roller} : jobs'[d] = jobs[d], NEW b \in Bots
    PROVE  /\ Clean(b)' => Clean(b) /\ CleanRight(b)
           /\ Sole(b)' <=> Sole(b)
           /\ data'[b] = data[b] => (Lives(b) => Lives(b)') /\ (Lives(b) /\ Fits(b) => Fits(b)')
           /\ verdict'[b] = verdict[b] => (Reached(b)' <=> Reached(b))
  <1>1. DiskTypes /\ DiskTypes'
    BY DEF RollInv, FleetInv
  <1>2. \A d \in Callers \ {Roller} : B(d)' = B(d)
    BY DEF B
  <1>3. (Sole(b)' <=> Sole(b)) /\ (Clean(b)' => Clean(b))
    BY <1>2 DEF Sole, Clean, Own
  <1>4. /\ boxes[b].digest \in Nat /\ data[b] \in Nat /\ data'[b] \in Nat /\ pulled \in Nat /\ pulled' \in Nat
        /\ profiles[b] # NoImage /\ profiles[b] # Malformed => profiles[b] \in Nat
    BY <1>1, BotFacts DEF DiskTypes
  <1>5. Lives(b) /\ data'[b] = data[b] => Lives(b)'
    BY <1>4 DEF Lives
  <1>6. ASSUME Lives(b), Fits(b), data'[b] = data[b] PROVE Fits(b)'
    <2>1. profiles[b] # NoImage =>
            Resolve(profiles[b]) \in Nat /\ Resolve(profiles[b])' \in Nat /\ Resolve(profiles[b]) <= Resolve(profiles[b])'
      BY <1>4, <1>6, ResolvesUp DEF Lives
    <2>. QED
      BY <1>4, <1>6, <2>1 DEF Fits
  <1>. QED
    BY <1>3, <1>5, <1>6 DEF RollInv, Reached

\* Where nothing is claimed of the bot in hand but that it is right.
LEMMA Eases ==
    ASSUME RollInv, FleetInv', UNCHANGED <<world, profiles, boxes, data, unsettled, jobs>>, faults' = 0 => faults = 0,
           pulled <= pulled', phase' \notin Chain \cup {"update", "restore"}, phase \notin {"undone", "restore"}, NEW b \in Bots
    PROVE  Clean(b)' => CleanRight(b)'
  <1>1. Clean(b)' => Lives(b) /\ Fits(b)
    BY Frame DEF CleanRight
  <1>2. Clean(b)' => Lives(b)' /\ Fits(b)'
    BY <1>1, Frame
  <1>. QED
    BY <1>2 DEF CleanRight

LEMMA VerdictEases ==
    ASSUME RollInv, FleetInv', UNCHANGED <<world, profiles, boxes, unsettled, jobs, verdict>>, faults' = 0 => faults = 0,
           pulled <= pulled', phase' \notin Chain \cup {"restore", "failed"}, NEW b \in Bots
    PROVE  VerdictRight(b)'
  <1>1. (Sole(b)' <=> Sole(b)) /\ (Reached(b)' <=> Reached(b)) /\ VerdictRight(b)
    BY Frame DEF RollInv
  <1>. QED
    BY <1>1 DEF VerdictRight, Chain

\* The calls and the containers are left alone.
LEMMA FleetStays ==
    ASSUME RollInv, UNCHANGED fleetVars
    PROVE  /\ FleetInv' /\ Pushed' /\ faults' = faults /\ pulled <= pulled'
           /\ UNCHANGED <<world, profiles, boxes, data, unsettled, jobs, caller>>
  <1>1. FleetInv /\ Pushed /\ DiskTypes
    BY DEF RollInv, FleetInv
  <1>2. UNCHANGED <<world, profiles, boxes, rows, routes, made, net, data, pulled, published, queue, jobs, caller, faults,
                    overtaken, unsettled>>
    BY DEF fleetVars, disk, docker, history
  <1>3. FleetInv'
    BY <1>1, <1>2, FleetKept DEF DiskTypes
  <1>. QED
    BY <1>1, <1>2, <1>3 DEF Pushed, DiskTypes

LEMMA PublishStep ==
    ASSUME RollInv, Publish
    PROVE  RollInv'
  <1>1. FleetInv /\ DiskTypes /\ RollTypes /\ Pushed
    BY DEF RollInv, FleetInv
  <1>2. /\ UNCHANGED <<world, profiles, boxes, rows, routes, made, data, pulled, queue, jobs, caller, faults, overtaken,
                       unsettled>>
        /\ UNCHANGED rolloutVars /\ published' = published + 1
    BY DEF Publish, disk, docker, history
  <1>3. FleetInv'
    BY <1>1, <1>2, FleetKept DEF DiskTypes
  <1>4. b0' = b0 /\ rollbackImage' = rollbackImage
    BY <1>2 DEF rolloutVars, progress, b0, rollbackImage
  <1>5. RollTypes'
    BY <1>1, <1>2, <1>4 DEF RollTypes, rolloutVars, progress
  <1>6. Pushed'
    BY <1>1, <1>2 DEF Pushed, DiskTypes
  <1>7. ASSUME NEW b \in Bots PROVE (Clean(b) => CleanRight(b))' /\ VerdictRight(b)'
    <2>1. (Clean(b) => CleanRight(b)) /\ VerdictRight(b)
      BY DEF RollInv
    <2>2. \A x : Resolve(x)' = Resolve(x)
      BY <1>2 DEF Resolve
    <2>3. (Snapped' <=> Snapped) /\ (Returns' <=> Returns) /\ (Restoring' <=> Restoring) /\ (Lives(b)' <=> Lives(b))
          /\ (Fits(b)' <=> Fits(b))
      <3>1. Snapped' <=> Snapped
        BY <1>2, <1>4 DEF Snapped, rolloutVars
      <3>2. Returns' <=> Returns
        BY <1>2, <1>4, <2>2 DEF Returns, rolloutVars, Past
      <3>3. Restoring' <=> Restoring
        BY <1>2, <1>4, <2>2 DEF Restoring, rolloutVars
      <3>4. (Lives(b)' <=> Lives(b)) /\ (Fits(b)' <=> Fits(b))
        BY <1>2, <2>2 DEF Lives, Fits
      <3>. QED
        BY <3>1, <3>2, <3>3, <3>4
    <2>4. (Clean(b)' <=> Clean(b)) /\ (CleanRight(b)' <=> CleanRight(b))
      BY <1>2, <1>4, <2>3 DEF Clean, Own, B, CleanRight, rolloutVars
    <2>5. VerdictRight(b)' <=> VerdictRight(b)
      BY <1>2, <1>4 DEF VerdictRight, Sole, Reached, B, rolloutVars
    <2>. QED
      BY <2>1, <2>4, <2>5
  <1>. QED
    BY <1>3, <1>5, <1>6, <1>7 DEF RollInv

LEMMA StartStep ==
    ASSUME RollInv, StartRollout
    PROVE  RollInv'
  <1>1. RollTypes /\ phase = "rest" /\ phase' = "list" /\ UNCHANGED verdict
    BY DEF RollInv, RollTypes, StartRollout
  <1>2. /\ FleetInv' /\ Pushed' /\ faults' = faults /\ pulled <= pulled'
        /\ UNCHANGED <<world, profiles, boxes, data, unsettled, jobs, caller>>
    BY FleetStays DEF StartRollout
  <1>3. RollTypes'
    BY <1>1, <1>2 DEF RollTypes, StartRollout, progress, Working, Asking, Chain, Phases
  <1>4. \A b \in Bots : (Clean(b)' => CleanRight(b)') /\ VerdictRight(b)'
    BY <1>1, <1>2, Eases, VerdictEases DEF Chain
  <1>. QED
    BY <1>2, <1>3, <1>4 DEF RollInv

\* The start and the rest of a list.
LEMMA Cuts ==
    ASSUME NEW S, NEW s \in Seq(S), NEW n \in 1..Len(s)
    PROVE  /\ SubSeq(s, 1, n) \in Seq(S) /\ Len(SubSeq(s, 1, n)) = n
           /\ SubSeq(s, n + 1, Len(s)) \in Seq(S)
  OBVIOUS

\* What is taken of a list is some of it.
LEMMA Batches ==
    ASSUME plan \in Plans, NEW left \in Seq(Bots), left # <<>>
    PROVE  /\ nextBatch(left) \in Seq(Bots) /\ nextBatch(left) # <<>>
           /\ SubSeq(left, Len(nextBatch(left)) + 1, Len(left)) \in Seq(Bots)
  <1>1. Len(left) \in Nat \ {0} /\ plan.percent \in Nat
    BY RolloutsAssumption
  <1>2. nextBatch(left) = left \/ \E n \in 1..Len(left) : nextBatch(left) = SubSeq(left, 1, n)
    <2>1. Ceil(Len(left), plan.percent) < 1 \/ Ceil(Len(left), plan.percent) \in 1..Len(left)
          \/ ~(Ceil(Len(left), plan.percent) < 1 \/ Ceil(Len(left), plan.percent) \in 1..Len(left))
      OBVIOUS
    <2>. HIDE DEF Ceil
    <2>2. \E n \in 1..Len(left) : RollingWaveBatch(left) = SubSeq(left, 1, n)
      <3>1. CASE Ceil(Len(left), plan.percent) < 1
        <4>1. RollingWaveBatch(left) = SubSeq(left, 1, 1)
          BY <3>1 DEF RollingWaveBatch
        <4>. QED
          BY <1>1, <4>1
      <3>2. CASE ~(Ceil(Len(left), plan.percent) < 1) /\ Ceil(Len(left), plan.percent) \in 1..Len(left)
        <4>1. RollingWaveBatch(left) = SubSeq(left, 1, Ceil(Len(left), plan.percent))
          BY <3>2 DEF RollingWaveBatch
        <4>. QED
          BY <3>2, <4>1
      <3>3. CASE ~(Ceil(Len(left), plan.percent) < 1) /\ Ceil(Len(left), plan.percent) \notin 1..Len(left)
        <4>1. RollingWaveBatch(left) = SubSeq(left, 1, Len(left))
          BY <3>3 DEF RollingWaveBatch
        <4>. QED
          BY <1>1, <4>1
      <3>. QED
        BY <3>1, <3>2, <3>3
    <2>3. SingleBotBatch(left) = SubSeq(left, 1, 1) /\ 1 \in 1..Len(left)
      BY <1>1 DEF SingleBotBatch
    <2>. QED
      BY <2>2, <2>3 DEF nextBatch
  <1>3. CASE nextBatch(left) = left
    <2>1. Len(left) \in 1..Len(left)
      BY <1>1
    <2>. QED
      BY <1>3, <2>1, Cuts
  <1>4. ASSUME NEW n \in 1..Len(left), nextBatch(left) = SubSeq(left, 1, n)
        PROVE  nextBatch(left) \in Seq(Bots) /\ Len(nextBatch(left)) = n
    BY <1>4, Cuts
  <1>5. ASSUME NEW n \in 1..Len(left), nextBatch(left) = SubSeq(left, 1, n)
        PROVE  nextBatch(left) # <<>> /\ SubSeq(left, Len(nextBatch(left)) + 1, Len(left)) \in Seq(Bots)
    BY <1>4, <1>5, Cuts
  <1>. QED
    BY <1>2, <1>3, <1>4, <1>5

\* The list a set is put into.
LEMMA ListOf ==
    ASSUME NEW S, IsFiniteSet(S)
    PROVE  SetToSeq(S) \in Seq(S)
  <1>. PICK n \in Nat : n = Cardinality(S)
    BY FS_CardinalityType
  <1>1. \E f \in Bijection(1..n, S) : TRUE
    BY FS_CardinalityType DEF ExistsBijection
  <1>2. PICK f \in [1..n -> S] : IsInjective(f)
    BY <1>1 DEF Bijection, Injection
  <1>3. SetToSeq(S) \in [1..n -> S]
    BY <1>2 DEF SetToSeq
  <1>. QED
    BY <1>3

LEMMA ListStep ==
    ASSUME RollInv, getUpdatableProfiles
    PROVE  RollInv'
  <1>1. /\ RollTypes /\ phase = "list" /\ phase' \in {"wave", "end"}
        /\ UNCHANGED <<verdict, plan, rolling, batch, retry, prev, snap>>
    BY DEF RollInv, getUpdatableProfiles
  <1>2. /\ FleetInv' /\ Pushed' /\ faults' = faults /\ pulled <= pulled'
        /\ UNCHANGED <<world, profiles, boxes, data, unsettled, jobs, caller>>
    BY FleetStays DEF getUpdatableProfiles
  <1>3. remaining' \in Seq(Bots) /\ (phase' = "wave" => remaining' # <<>>)
    <2>. PICK S \in SUBSET Bots :
            S = {b \in Bots : profiles[b] # NoImage /\ b \notin plan.manual \cup plan.configManual}
      OBVIOUS
    <2>1. IsFiniteSet(S)
      BY FleetAssumption, FS_Subset
    <2>2. SetToSeq(S) \in Seq(S)
      BY <2>1, ListOf
    <2>3. remaining' = SetToSeq(S) /\ phase' = IF SetToSeq(S) = <<>> THEN "end" ELSE "wave"
      BY DEF getUpdatableProfiles
    <2>. QED
      BY <2>2, <2>3
  <1>4. RollTypes'
    BY <1>1, <1>2, <1>3 DEF RollTypes, Working, Asking, Chain, Phases
  <1>5. \A b \in Bots : (Clean(b)' => CleanRight(b)') /\ VerdictRight(b)'
    BY <1>1, <1>2, Eases, VerdictEases DEF Chain
  <1>. QED
    BY <1>2, <1>4, <1>5 DEF RollInv

LEMMA WaveStep ==
    ASSUME RollInv, rollout
    PROVE  RollInv'
  <1>1. /\ RollTypes /\ phase = "wave" /\ phase' = "snapshot" /\ batch' = nextBatch(remaining) /\ retry' = <<>>
        /\ UNCHANGED <<verdict, plan, rolling, remaining, prev, snap>>
    BY DEF RollInv, rollout
  <1>2. /\ FleetInv' /\ Pushed' /\ faults' = faults /\ pulled <= pulled'
        /\ UNCHANGED <<world, profiles, boxes, data, unsettled, jobs, caller>>
    BY FleetStays DEF rollout
  <1>3. batch' \in Seq(Bots) /\ batch' # <<>>
    BY <1>1, Batches DEF RollTypes, Working
  <1>4. RollTypes'
    BY <1>1, <1>2, <1>3 DEF RollTypes, Working, Asking, Chain, Phases
  <1>5. \A b \in Bots : (Clean(b)' => CleanRight(b)') /\ VerdictRight(b)'
    BY <1>1, <1>2, Eases, VerdictEases DEF Chain
  <1>. QED
    BY <1>2, <1>4, <1>5 DEF RollInv

LEMMA RestStep ==
    ASSUME RollInv, onRolloutComplete
    PROVE  RollInv'
  <1>1. /\ RollTypes /\ phase = "end" /\ phase' = "rest" /\ rolling' = FALSE
        /\ UNCHANGED <<verdict, plan, remaining, batch, retry, prev, snap>>
    BY DEF RollInv, onRolloutComplete, progress
  <1>2. /\ FleetInv' /\ Pushed' /\ faults' = faults /\ pulled <= pulled'
        /\ UNCHANGED <<world, profiles, boxes, data, unsettled, jobs, caller>>
    BY FleetStays DEF onRolloutComplete
  <1>3. RollTypes'
    BY <1>1, <1>2 DEF RollTypes, Working, Asking, Chain, Phases
  <1>4. \A b \in Bots : (Clean(b)' => CleanRight(b)') /\ VerdictRight(b)'
    BY <1>1, <1>2, Eases, VerdictEases DEF Chain
  <1>. QED
    BY <1>2, <1>3, <1>4 DEF RollInv

\* The bot in hand is one.
LEMMA InHand ==
    ASSUME RollTypes, phase \in Working
    PROVE  b0 \in Bots /\ batch # <<>> /\ remaining # <<>>
  BY DEF RollTypes, b0

LEMMA SnapshotStep ==
    ASSUME RollInv, snapshot
    PROVE  RollInv'
  <1>1. /\ FleetInv /\ DiskTypes /\ RollTypes /\ Pushed /\ phase = "snapshot" /\ phase' = "update"
        /\ UNCHANGED <<world, profiles, boxes, rows, routes, made, data, pulled, published, queue, jobs, caller, overtaken,
                       unsettled>>
        /\ UNCHANGED <<plan, rolling, remaining, batch, retry, prev, verdict>>
    BY DEF RollInv, FleetInv, snapshot, disk, docker, history, progress
  <1>2. \/ snap' = data[b0] /\ faults' = faults
        \/ faults' # 0 /\ faults' \in Nat /\ snap' = 0
    BY <1>1 DEF snapshot, Refuse, DiskTypes
  <1>3. b0 \in Bots /\ b0' = b0
    BY <1>1, InHand DEF Working, b0
  <1>4. snap' \in Nat /\ data[b0] \in Nat /\ pulled \in Nat
    BY <1>1, <1>2, <1>3 DEF DiskTypes
  <1>5. FleetInv'
    BY <1>1, <1>2, FleetKept DEF DiskTypes
  <1>6. Pushed' /\ pulled <= pulled' /\ (faults' = 0 => faults = 0)
    BY <1>1, <1>2, <1>4 DEF Pushed
  <1>7. RollTypes'
    BY <1>1, <1>3, <1>4 DEF RollTypes, Working, Asking, Chain, Phases
  <1>8. ASSUME NEW b \in Bots PROVE (Clean(b) => CleanRight(b))' /\ VerdictRight(b)'
    <2>1. VerdictRight(b)'
      BY <1>1, <1>5, <1>6, VerdictEases DEF Chain
    <2>2. ASSUME Clean(b)' PROVE CleanRight(b)'
      <3>1. Clean(b) /\ CleanRight(b) /\ faults' = 0
        BY <1>1, <1>5, <1>6, <2>2, Frame DEF Clean
      <3>2. Lives(b) /\ Fits(b)
        BY <1>1, <3>1 DEF CleanRight
      <3>3. Lives(b)' /\ Fits(b)'
        BY <1>1, <1>5, <1>6, <3>2, Frame
      <3>4. ASSUME b = b0 PROVE Snapped'
        <4>1. snap' = data[b]
          BY <1>2, <3>1, <3>4
        <4>. QED
          BY <1>1, <1>3, <1>4, <3>2, <3>4, <4>1 DEF Snapped, Lives
      <3>. QED
        BY <1>1, <1>3, <3>3, <3>4 DEF CleanRight, Chain
    <2>. QED
      BY <2>1, <2>2
  <1>. QED
    BY <1>5, <1>6, <1>7, <1>8 DEF RollInv

LEMMA JudgeStep ==
    ASSUME RollInv, waitForHealthy
    PROVE  RollInv'
  <1>1. /\ FleetInv /\ RollTypes /\ phase = "replace" /\ phase' \in {"cleanup", "rollback"} /\ caller[Roller].at = "done"
        /\ UNCHANGED <<plan, rolling, remaining, batch, retry, prev, snap>>
    BY DEF RollInv, waitForHealthy, progress
  <1>2. /\ FleetInv' /\ Pushed' /\ faults' = faults /\ pulled <= pulled'
        /\ UNCHANGED <<world, profiles, boxes, data, unsettled, jobs, caller>>
    BY FleetStays DEF waitForHealthy
  <1>3. b0 \in Bots /\ b0' = b0
    BY <1>1, InHand DEF Working, b0
  <1>4. \/ phase' = "cleanup" /\ caller[Roller].ok /\ verdict' = [verdict EXCEPT ![b0].ok = TRUE]
        \/ phase' = "rollback" /\ verdict' = verdict
    BY DEF waitForHealthy, Reported
  <1>5. /\ verdict' \in [Bots -> [ok : BOOLEAN, image : Images \cup {NoImage}, digest : Nat]]
        /\ verdict'[b0].image = verdict[b0].image /\ verdict'[b0].digest = verdict[b0].digest
        /\ \A b \in Bots : b # b0 => verdict'[b] = verdict[b]
    <2>. PICK row : row = [verdict[b0] EXCEPT !.ok = TRUE]
      OBVIOUS
    <2>1. verdict[b0] \in [ok : BOOLEAN, image : Images \cup {NoImage}, digest : Nat]
      BY <1>1, <1>3 DEF RollTypes
    <2>2. row \in [ok : BOOLEAN, image : Images \cup {NoImage}, digest : Nat] /\ row.image = verdict[b0].image
          /\ row.digest = verdict[b0].digest
      BY <2>1
    <2>3. verdict' = [verdict EXCEPT ![b0] = row] \/ verdict' = verdict
      BY <1>4
    <2>. QED
      BY <1>1, <1>3, <2>2, <2>3 DEF RollTypes
  <1>6. RollTypes'
    BY <1>1, <1>2, <1>5 DEF RollTypes, Working, Asking, Chain, Phases
  <1>7. ASSUME NEW b \in Bots PROVE (Clean(b) => CleanRight(b))' /\ VerdictRight(b)'
    <2>1. VerdictRight(b) /\ (Sole(b)' <=> Sole(b)) /\ (Clean(b)' => Clean(b) /\ CleanRight(b))
      BY <1>2, Frame DEF RollInv
    <2>2. Reached(b)' <=> Reached(b)
      BY <1>2, <1>5 DEF Reached
    <2>3. VerdictRight(b)'
      <3>1. CASE b # b0
        BY <1>1, <1>3, <1>5, <2>1, <2>2, <3>1 DEF VerdictRight
      <3>2. CASE b = b0 /\ phase' = "cleanup"
        <4>1. caller[Roller].ok
          BY <1>4, <3>2
        <4>. QED
          BY <1>1, <1>3, <1>5, <2>1, <2>2, <3>2, <4>1 DEF VerdictRight, Chain
      <3>3. CASE b = b0 /\ phase' = "rollback"
        <4>1. verdict' = verdict
          BY <1>4, <3>3
        <4>. QED
          BY <1>1, <1>3, <2>1, <2>2, <3>3, <4>1 DEF VerdictRight, Chain
      <3>. QED
        BY <1>1, <3>1, <3>2, <3>3
    <2>4. CASE phase' = "cleanup"
      BY <1>1, <1>2, <2>3, <2>4, Eases DEF Chain
    <2>5. CASE phase' = "rollback"
      <3>1. ASSUME Clean(b)' PROVE CleanRight(b)'
        <4>1. Lives(b) /\ Fits(b)
          BY <1>1, <2>1, <3>1 DEF CleanRight
        <4>2. Lives(b)' /\ Fits(b)'
          BY <1>2, <4>1, Frame
        <4>3. ASSUME b = b0 PROVE Snapped' /\ Returns'
          <5>1. Snapped /\ Returns
            BY <1>1, <2>1, <3>1, <4>3 DEF CleanRight, Chain
          <5>2. Snapped'
            <6>1. pulled \in Nat /\ pulled' \in Nat /\ snap \in Nat
              BY <1>1, <1>2 DEF RollTypes, FleetInv, DiskTypes
            <6>. QED
              BY <1>1, <1>2, <1>3, <2>5, <5>1, <6>1 DEF Snapped
          <5>3. Returns'
            <6>1. \A x : Resolve(x)' = Resolve(x)
              BY DEF Resolve, waitForHealthy, fleetVars, docker
            <6>. QED
              BY <1>1, <1>2, <1>3, <2>5, <5>1, <6>1 DEF Returns
          <5>. QED
            BY <5>2, <5>3
        <4>. QED
          BY <1>3, <2>5, <4>2, <4>3 DEF CleanRight, Chain
      <3>. QED
        BY <2>3, <3>1
    <2>. QED
      BY <1>1, <2>4, <2>5
  <1>. QED
    BY <1>2, <1>6, <1>7 DEF RollInv

\* The updater's caller is free when it has nothing to wait for.
LEMMA Free ==
    ASSUME RollInv, phase \notin Asking
    PROVE  caller[Roller].at \in {"idle", "done"}
  <1>1. CallTypes /\ Roller \in Callers /\ (jobs[Roller].op = "none" \/ caller[Roller].at = "done")
    BY RolloutsAssumption DEF RollInv, RollTypes, FleetInv
  <1>. QED
    BY <1>1, JobFacts

\* What is asked of the fleet.
LEMMA Asked ==
    ASSUME RollInv, b0 \in Bots, NEW image \in Images, AskFleet(image)
    PROVE  /\ \E b \in Bots, i \in Images : jobs' = [jobs EXCEPT ![Roller] = Job("update", b, i)]
           /\ caller' = [caller EXCEPT ![Roller] = Idle]
           /\ jobs'[Roller] = Job("update", b0, image) /\ caller'[Roller].at = "idle" /\ ~Past(Roller)'
           /\ \A d \in Callers \ {Roller} : jobs'[d] = jobs[d]
  <1>1. CallTypes /\ Roller \in Callers
    BY RolloutsAssumption DEF RollInv, FleetInv
  <1>2. jobs' = [jobs EXCEPT ![Roller] = Job("update", b0, image)] /\ caller' = [caller EXCEPT ![Roller] = Idle]
    BY DEF AskFleet
  <1>3. Idle.at = "idle"
    BY DEF Idle
  <1>4. caller'[Roller].at = "idle" /\ jobs'[Roller] = Job("update", b0, image)
        /\ \A d \in Callers \ {Roller} : jobs'[d] = jobs[d]
    BY <1>1, <1>2, <1>3 DEF CallTypes
  <1>5. ~Past(Roller)'
    BY <1>4 DEF Past
  <1>. QED
    BY <1>2, <1>4, <1>5

LEMMA RollbackStep ==
    ASSUME RollInv, rollback
    PROVE  RollInv'
  <1>1. /\ FleetInv /\ DiskTypes /\ RollTypes /\ Pushed /\ phase = "rollback" /\ phase' = "undone" /\ AskFleet(rollbackImage)
        /\ UNCHANGED <<world, profiles, boxes, rows, routes, made, data, pulled, published, queue, faults, overtaken,
                       unsettled>>
        /\ UNCHANGED <<plan, rolling, remaining, batch, retry, prev, snap, verdict>>
    BY DEF RollInv, FleetInv, rollback, disk, docker, history, progress
  <1>2. b0 \in Bots /\ b0' = b0 /\ rollbackImage' = rollbackImage
    BY <1>1, InHand DEF Working, b0, rollbackImage
  <1>3. rollbackImage \in Images
    <2>1. prev.image \in Images /\ prev.digest \in Nat
      BY <1>1 DEF RollTypes, PrevRows, Chain
    <2>. QED
      BY <2>1, RollbackImageIs DEF Images
  <1>4. /\ \E b \in Bots, i \in Images : jobs' = [jobs EXCEPT ![Roller] = Job("update", b, i)]
        /\ caller' = [caller EXCEPT ![Roller] = Idle]
        /\ jobs'[Roller] = Job("update", b0, rollbackImage) /\ caller'[Roller].at = "idle" /\ ~Past(Roller)'
        /\ \A d \in Callers \ {Roller} : jobs'[d] = jobs[d]
    BY <1>1, <1>2, <1>3, Asked
  <1>5. FleetInv' /\ Pushed' /\ pulled <= pulled'
    <2>1. caller[Roller].at \in {"idle", "done"}
      BY <1>1, Free DEF Asking
    <2>2. FleetInv'
      BY <1>1, <1>4, <2>1, FleetKept DEF DiskTypes
    <2>. QED
      BY <1>1, <2>2 DEF Pushed, DiskTypes
  <1>6. RollTypes'
    BY <1>1, <1>2, <1>4 DEF RollTypes, Working, Asking, Chain, Phases
  <1>7. ASSUME NEW b \in Bots PROVE (Clean(b) => CleanRight(b))' /\ VerdictRight(b)'
    <2>1. VerdictRight(b) /\ (Sole(b)' <=> Sole(b)) /\ (Clean(b)' => Clean(b) /\ CleanRight(b)) /\ (Reached(b)' <=> Reached(b))
      BY <1>1, <1>4, <1>5, Frame DEF RollInv
    <2>2. VerdictRight(b)'
      BY <1>1, <1>2, <2>1 DEF VerdictRight, Chain
    <2>3. ASSUME Clean(b)' PROVE CleanRight(b)'
      <3>1. Lives(b) /\ Fits(b)
        BY <1>1, <2>1, <2>3 DEF CleanRight
      <3>2. Lives(b)' /\ Fits(b)'
        BY <1>1, <1>4, <1>5, <3>1, Frame
      <3>3. ASSUME b = b0 PROVE Snapped' /\ Returns'
        <4>1. Snapped /\ Returns
          BY <1>1, <2>1, <2>3, <3>3 DEF CleanRight, Chain
        <4>2. Snapped'
          BY <1>1, <1>2, <4>1 DEF Snapped
        <4>3. \A x : Resolve(x)' = Resolve(x)
          BY <1>1 DEF Resolve
        <4>4. Returns'
          BY <1>1, <1>2, <1>4, <4>1, <4>3 DEF Returns
        <4>. QED
          BY <4>2, <4>4
      <3>. QED
        BY <1>1, <1>2, <3>2, <3>3 DEF CleanRight, Chain
    <2>. QED
      BY <2>2, <2>3
  <1>. QED
    BY <1>5, <1>6, <1>7 DEF RollInv

LEMMA RolledBackStep ==
    ASSUME RollInv, rolledBack
    PROVE  RollInv'
  <1>1. /\ FleetInv /\ DiskTypes /\ RollTypes /\ phase = "undone" /\ phase' = "restore" /\ caller[Roller].at = "done"
        /\ UNCHANGED <<plan, rolling, remaining, batch, retry, prev, snap, verdict>>
    BY DEF RollInv, FleetInv, rolledBack, progress
  <1>2. /\ FleetInv' /\ Pushed' /\ faults' = faults /\ pulled <= pulled' /\ pulled' = pulled
        /\ UNCHANGED <<world, profiles, boxes, data, unsettled, jobs, caller>>
    BY FleetStays DEF rolledBack, fleetVars, docker
  <1>3. b0 \in Bots /\ b0' = b0
    BY <1>1, InHand DEF Working, b0
  <1>4. RollTypes'
    BY <1>1, <1>2, <1>3 DEF RollTypes, Working, Asking, Chain, Phases
  <1>5. ASSUME NEW b \in Bots PROVE (Clean(b) => CleanRight(b))' /\ VerdictRight(b)'
    <2>1. VerdictRight(b) /\ (Sole(b)' <=> Sole(b)) /\ (Clean(b)' => Clean(b) /\ CleanRight(b)) /\ (Reached(b)' <=> Reached(b))
      BY <1>1, <1>2, Frame DEF RollInv
    <2>2. VerdictRight(b)'
      BY <1>1, <1>3, <2>1 DEF VerdictRight, Chain
    <2>3. ASSUME Clean(b)' PROVE CleanRight(b)'
      <3>1. Lives(b) /\ (Fits(b) \/ b = b0)
        BY <1>1, <2>1, <2>3 DEF CleanRight
      <3>2. Lives(b)' /\ (Fits(b)' \/ b = b0)
        BY <1>2, <3>1, Frame
      <3>3. ASSUME b = b0 PROVE Snapped' /\ Restoring'
        <4>1. Snapped /\ Returns
          BY <1>1, <2>1, <2>3, <3>3 DEF CleanRight, Chain
        <4>2. Snapped'
          BY <1>1, <1>2, <1>3, <4>1 DEF Snapped
        <4>3. /\ prev.image \in Nat /\ prev.digest \in Nat /\ snap \in Nat /\ boxes[b].digest \in Nat /\ pulled \in Nat
              /\ NoBox.digest = 0
          <5>1. prev.image # Malformed
            BY <4>1 DEF Returns
          <5>. QED
            BY <1>1, <5>1, BotFacts DEF RollTypes, PrevRows, Chain, Images
        <4>4. boxes[b] = NoBox \/ snap <= boxes[b].digest
          BY <3>3, <4>1, <4>3 DEF Returns
        <4>5. CASE profiles[b] = prev.image
          <5>1. snap <= Resolve(prev.image) /\ boxes[b].digest <= Resolve(prev.image)
            BY <3>1, <3>3, <4>1, <4>3, <4>5 DEF Returns, Lives, Resolve
          <5>. QED
            BY <1>2, <1>1, <1>3, <3>3, <4>2, <4>4, <4>5, <5>1 DEF Restoring, Resolve
        <4>6. CASE profiles[b] = NoImage
          BY <1>1, <1>2, <1>3, <3>3, <4>2, <4>4, <4>6 DEF Restoring
        <4>7. CASE profiles[b] \notin {NoImage, prev.image}
          <5>1. prev.image = Tag /\ prev.digest # 0 /\ profiles[b] = prev.digest /\ boxes[b].digest <= prev.digest
            BY <1>1, <3>3, <4>1, <4>7 DEF Returns
          <5>2. snap <= prev.digest
            BY <4>1, <5>1 DEF Returns
          <5>3. Resolve(prev.digest)' = prev.digest
            BY <1>1, <5>1 DEF Resolve, Tag
          <5>. QED
            BY <1>1, <1>2, <1>3, <3>3, <4>2, <4>4, <5>1, <5>2, <5>3 DEF Restoring
        <4>. QED
          BY <4>5, <4>6, <4>7
      <3>. QED
        BY <1>1, <1>3, <3>2, <3>3 DEF CleanRight, Chain
    <2>. QED
      BY <2>2, <2>3
  <1>. QED
    BY <1>2, <1>4, <1>5 DEF RollInv

LEMMA VolumeStep ==
    ASSUME RollInv, restoreVolumes
    PROVE  RollInv'
  <1>1. /\ FleetInv /\ DiskTypes /\ RollTypes /\ Pushed /\ phase = "restore" /\ phase' = "failed"
        /\ UNCHANGED <<world, profiles, boxes, rows, routes, made, pulled, published, queue, jobs, caller, overtaken,
                       unsettled>>
        /\ UNCHANGED <<plan, rolling, remaining, batch, retry, prev, snap, verdict>>
    BY DEF RollInv, FleetInv, restoreVolumes, disk, history, progress
  <1>2. b0 \in Bots /\ b0' = b0 /\ snap \in Nat
    BY <1>1, InHand DEF Working, b0, RollTypes
  <1>3. \/ data' = [data EXCEPT ![b0] = IF snap = 0 THEN @ ELSE snap] /\ faults' = faults
        \/ faults' # 0 /\ faults' \in Nat /\ data' = data
    BY <1>1 DEF restoreVolumes, Refuse, DiskTypes
  <1>4. /\ data' \in [Bots -> Nat] /\ \A b \in Bots : b # b0 => data'[b] = data[b]
        /\ faults' = 0 => faults = 0 /\ data'[b0] = IF snap = 0 THEN data[b0] ELSE snap
    BY <1>1, <1>2, <1>3 DEF DiskTypes
  <1>5. FleetInv' /\ Pushed' /\ pulled <= pulled'
    <2>1. FleetInv'
      BY <1>1, <1>3, <1>4, FleetKept DEF DiskTypes
    <2>. QED
      BY <1>1, <2>1 DEF Pushed, DiskTypes
  <1>6. RollTypes'
    BY <1>1, <1>2 DEF RollTypes, Working, Asking, Chain, Phases
  <1>7. ASSUME NEW b \in Bots PROVE (Clean(b) => CleanRight(b))' /\ VerdictRight(b)'
    <2>1. VerdictRight(b) /\ (Sole(b)' <=> Sole(b)) /\ (Clean(b)' => Clean(b) /\ CleanRight(b)) /\ (Reached(b)' <=> Reached(b))
      BY <1>1, <1>4, <1>5, Frame DEF RollInv
    <2>2. VerdictRight(b)'
      BY <1>1, <1>2, <2>1 DEF VerdictRight, Chain
    <2>3. ASSUME Clean(b)' PROVE CleanRight(b)'
      <3>1. Lives(b) /\ (b # b0 => Fits(b)) /\ faults' = 0
        BY <1>1, <2>1, <2>3 DEF CleanRight, Clean
      <3>2. CASE b # b0
        BY <1>1, <1>2, <1>4, <1>5, <3>1, <3>2, Frame DEF CleanRight, Chain
      <3>3. CASE b = b0
        <4>1. Snapped /\ Restoring
          BY <1>1, <2>1, <2>3, <3>3 DEF CleanRight, Chain
        <4>2. boxes[b].digest \in Nat /\ data[b] \in Nat /\ pulled \in Nat /\ NoBox.digest = 0
          BY <1>1, BotFacts
        <4>3. data'[b] = IF snap = 0 THEN data[b] ELSE snap
          BY <1>4, <3>1, <3>3
        <4>4. Lives(b)'
          BY <1>1, <1>2, <3>1, <3>3, <4>1, <4>2, <4>3 DEF Snapped, Lives
        <4>5. Fits(b)'
          <5>1. snap = 0 => profiles[b] = NoImage /\ boxes[b] = NoBox
            BY <1>2, <3>1, <3>3, <4>1 DEF Snapped, Lives
          <5>2. snap # 0 => data'[b] = snap
            BY <4>3
          <5>3. \A x : Resolve(x)' = Resolve(x)
            BY <1>1 DEF Resolve
          <5>. QED
            BY <1>1, <3>3, <4>1, <5>1, <5>2, <5>3 DEF Restoring, Fits
        <4>. QED
          BY <1>1, <4>4, <4>5 DEF CleanRight, Chain
      <3>. QED
        BY <3>2, <3>3
    <2>. QED
      BY <2>2, <2>3
  <1>. QED
    BY <1>5, <1>6, <1>7 DEF RollInv

LEMMA UpdateBotStep ==
    ASSUME RollInv, doUpdateBot
    PROVE  RollInv'
  <1>1. /\ FleetInv /\ DiskTypes /\ RollTypes /\ Pushed /\ phase = "update"
        /\ UNCHANGED <<world, profiles, boxes, rows, routes, made, data, published, queue, overtaken, unsettled>>
        /\ UNCHANGED <<plan, rolling, remaining, batch, retry, snap>>
    BY DEF RollInv, FleetInv, doUpdateBot, disk, history, progress
  <1>2. b0 \in Bots /\ b0' = b0 /\ snap \in Nat /\ caller[Roller].at \in {"idle", "done"}
    BY <1>1, InHand, Free DEF Working, b0, RollTypes, Asking
  <1>. PICK here \in Bots : here = b0
    BY <1>2
  <1>3. /\ boxes[here].digest \in Nat /\ data[here] \in Nat /\ pulled \in Nat /\ NoBox.digest = 0
        /\ profiles[here] \in Images \cup {NoImage} /\ published \in Nat /\ pulled <= published /\ faults \in Nat
    BY <1>1, BotFacts DEF DiskTypes, Pushed
  <1>4. boxes[here].up \in BOOLEAN
    <2>1. boxes[here] \in BoxRows
      BY <1>1, BotFacts
    <2>2. CASE boxes[here] = NoBox
      BY <2>2 DEF NoBox
    <2>3. CASE boxes[here] # NoBox
      BY <2>1, <2>3 DEF BoxRows
    <2>. QED
      BY <2>2, <2>3
  \* Its verdict is put back, and what ran is noted.
  <1>. PICK row : row = [ok |-> FALSE, image |-> profiles[here], digest |-> published]
    OBVIOUS
  <1>. PICK was : was = [image |-> profiles[here], digest |-> boxes[here].digest, was |-> boxes[here].up]
    OBVIOUS
  <1>5. verdict' = [verdict EXCEPT ![here] = row]
    BY DEF doUpdateBot
  <1>6. /\ verdict' \in [Bots -> [ok : BOOLEAN, image : Images \cup {NoImage}, digest : Nat]] /\ verdict'[here] = row
        /\ \A b \in Bots : b # here => verdict'[b] = verdict[b]
    <2>1. row \in [ok : BOOLEAN, image : Images \cup {NoImage}, digest : Nat]
      BY <1>3
    <2>. QED
      BY <1>1, <1>5, <2>1 DEF RollTypes
  \* The three ways out.
  <1>7. \/ /\ profiles[here] = NoImage /\ phase' = "restore" /\ UNCHANGED <<prev, pulled, faults, jobs, caller>>
        \/ /\ profiles[here] \notin {NoImage, Malformed} /\ phase' = "replace" /\ prev' = was /\ faults' = faults
           /\ pulled' = (IF profiles[here] = Tag THEN published ELSE pulled) /\ AskFleet(profiles[here])
        \/ /\ profiles[here] # NoImage /\ phase' = "rollback" /\ prev' = was /\ UNCHANGED <<pulled, jobs, caller>>
           /\ faults' \in Nat /\ (profiles[here] # Malformed => faults' # 0) /\ (faults' = 0 => faults = 0)
    <2>1. CASE profiles[here] = NoImage
      BY <2>1 DEF doUpdateBot
    <2>2. CASE profiles[here] # NoImage
      <3>1. (IF profiles[here] = Malformed THEN UNCHANGED faults ELSE Refuse) =>
              faults' \in Nat /\ (profiles[here] # Malformed => faults' # 0) /\ (faults' = 0 => faults = 0)
        BY <1>3 DEF Refuse
      <3>. QED
        BY <2>2, <3>1 DEF doUpdateBot
    <2>. QED
      BY <2>1, <2>2
  <1>8. /\ pulled' \in Nat /\ pulled <= pulled' /\ pulled' <= published /\ faults' \in Nat /\ (faults' = 0 => faults = 0)
        /\ (profiles[here] = Tag /\ phase' = "replace" => pulled' = published)
    BY <1>3, <1>7
  <1>9. /\ FleetInv' /\ \A d \in Callers \ {Roller} : jobs'[d] = jobs[d]
        /\ phase' = "replace" => /\ jobs'[Roller] = Job("update", b0, profiles[here]) /\ caller'[Roller].at = "idle"
                                 /\ ~Past(Roller)'
        /\ phase' # "replace" => UNCHANGED <<jobs, caller>>
    <2>1. CASE UNCHANGED <<jobs, caller>> /\ phase' # "replace"
      BY <1>1, <1>2, <1>8, <2>1, FleetKept DEF DiskTypes
    <2>2. CASE profiles[here] \notin {NoImage, Malformed} /\ phase' = "replace" /\ AskFleet(profiles[here])
      <3>1. /\ \E b \in Bots, i \in Images : jobs' = [jobs EXCEPT ![Roller] = Job("update", b, i)]
            /\ caller' = [caller EXCEPT ![Roller] = Idle]
            /\ jobs'[Roller] = Job("update", b0, profiles[here]) /\ caller'[Roller].at = "idle" /\ ~Past(Roller)'
            /\ \A d \in Callers \ {Roller} : jobs'[d] = jobs[d]
        BY <1>2, <1>3, <2>2, Asked
      <3>2. FleetInv'
        BY <1>1, <1>2, <1>8, <3>1, FleetKept DEF DiskTypes
      <3>. QED
        BY <2>2, <3>1, <3>2
    <2>. QED
      BY <1>7, <2>1, <2>2
  <1>10. Pushed'
    BY <1>1, <1>8 DEF Pushed
  <1>11. RollTypes'
    <2>1. was \in PrevRows /\ was.image = profiles[here]
      BY <1>3, <1>4 DEF PrevRows
    <2>2. prev' \in PrevRows /\ (phase' \in Chain => prev'.image \in Images /\ prev'.image = profiles[here])
      BY <1>1, <1>3, <1>7, <2>1 DEF RollTypes, Chain
    <2>3. phase' \in {"restore", "replace", "rollback"}
      BY <1>7
    <2>4. /\ phase' \notin Asking => jobs'[Roller].op = "none" \/ caller'[Roller].at = "done"
          /\ phase' = "replace" => jobs'[Roller] = Job("update", b0', prev'.image)
      BY <1>1, <1>2, <1>9, <2>2 DEF RollTypes, Asking, Chain
    <2>5. plan \in Plans /\ remaining \in Seq(Bots) /\ batch \in Seq(Bots) /\ retry \in Seq(Bots) /\ batch # <<>>
          /\ remaining # <<>> /\ rolling = TRUE
      BY <1>1 DEF RollTypes, Working
    <2>. QED
      BY <1>1, <1>2, <1>6, <2>2, <2>3, <2>4, <2>5 DEF RollTypes, Working, Asking, Phases
  <1>12. ASSUME NEW b \in Bots PROVE VerdictRight(b)'
    <2>1. VerdictRight(b) /\ (Sole(b)' <=> Sole(b)) /\ (verdict'[b] = verdict[b] => (Reached(b)' <=> Reached(b)))
      BY <1>1, <1>8, <1>9, Frame DEF RollInv
    <2>2. CASE b # here
      BY <1>2, <1>6, <2>1, <2>2 DEF VerdictRight
    <2>3. CASE b = here
      <3>1. verdict'[b].ok = FALSE /\ verdict'[b].image = profiles[here] /\ verdict'[b].digest = published
        BY <1>6, <2>3
      <3>2. phase' = "replace" => prev'.image = profiles[here] /\ caller'[Roller].at = "idle"
        BY <1>7, <1>9
      <3>. QED
        BY <1>3, <1>8, <3>1, <3>2 DEF VerdictRight
    <2>. QED
      BY <2>2, <2>3
  <1>13. ASSUME NEW b \in Bots, Clean(b)' PROVE CleanRight(b)'
    <2>1. Clean(b) /\ CleanRight(b) /\ faults' = 0
      BY <1>1, <1>8, <1>9, <1>13, Frame DEF Clean
    <2>2. Lives(b) /\ Fits(b)
      BY <1>1, <2>1 DEF CleanRight
    <2>3. Lives(b)' /\ Fits(b)'
      BY <1>1, <1>8, <1>9, <2>2, Frame
    <2>4. CASE b # here
      BY <1>2, <2>3, <2>4 DEF CleanRight
    <2>5. CASE b = here
      <3>1. Snapped
        BY <1>1, <2>1, <2>5 DEF CleanRight
      <3>2. Snapped'
        BY <1>1, <1>2, <1>3, <1>7, <1>8, <3>1 DEF Snapped
      <3>3. CASE profiles[here] = NoImage
        <4>1. phase' = "restore" /\ boxes[here] = NoBox
          BY <1>7, <2>2, <2>5, <3>3 DEF Lives
        <4>2. Restoring'
          BY <1>1, <1>2, <3>3, <4>1 DEF Restoring
        <4>. QED
          BY <1>2, <2>3, <2>5, <3>2, <4>1, <4>2 DEF CleanRight, Chain
      <3>4. CASE profiles[here] # NoImage
        <4>1. profiles[here] \in Nat /\ profiles[here] # Malformed /\ data[here] > 0
          BY <1>3, <2>2, <2>5, <3>4 DEF Lives, Images
        <4>2. phase' = "replace" /\ prev' = was
          BY <1>7, <2>1, <3>4, <4>1
        <4>3. prev'.image = profiles[here] /\ prev'.digest = boxes[here].digest
          BY <4>2
        <4>4. snap <= data[here]
          BY <1>1, <2>5, <3>1 DEF Snapped
        <4>5. /\ Resolve(profiles[here])' \in Nat /\ Resolve(profiles[here]) \in Nat
              /\ Resolve(profiles[here]) <= Resolve(profiles[here])'
          BY <1>1, <1>3, <1>8, <4>1, ResolvesUp
        <4>6. /\ data[here] <= Resolve(profiles[here])' /\ boxes[here].digest <= Resolve(profiles[here])'
              /\ boxes[here] = NoBox \/ data[here] <= boxes[here].digest
              /\ profiles[here] # Tag => boxes[here].digest <= profiles[here]
          BY <1>3, <2>2, <2>5, <3>4, <4>1, <4>5 DEF Fits, Resolve
        <4>7. Resolve(profiles[here])' = Resolve(prev.image)'
          BY <1>1, <4>3 DEF Resolve
        <4>8. IF boxes[here].digest = 0 THEN boxes[here] = NoBox ELSE snap <= boxes[here].digest
          BY <1>2, <1>3, <4>1, <4>4, <4>6
        <4>9. here \in world.remote => boxes[here].digest = 0
          BY <1>3, <2>2, <2>5 DEF Lives
        <4>10. snap <= Resolve(prev.image)' /\ boxes[here].digest <= Resolve(prev.image)'
          BY <1>2, <1>3, <4>4, <4>5, <4>6, <4>7
        <4>11. Returns'
          BY <1>1, <1>2, <1>3, <1>9, <4>1, <4>2, <4>3, <4>6, <4>8, <4>9, <4>10 DEF Returns
        <4>. QED
          BY <1>2, <2>3, <2>5, <3>2, <4>2, <4>11 DEF CleanRight, Chain
      <3>. QED
        BY <3>3, <3>4
    <2>. QED
      BY <2>4, <2>5
  <1>. QED
    BY <1>9, <1>10, <1>11, <1>12, <1>13 DEF RollInv

LEMMA Advances ==
    ASSUME RollTypes, phase \in Working, NEW retried \in Seq(Bots), NEW halted \in BOOLEAN, Advance(retried, halted)
    PROVE  /\ remaining' \in Seq(Bots) /\ batch' \in Seq(Bots) /\ retry' \in Seq(Bots)
           /\ \/ phase' = "snapshot" /\ batch' # <<>> /\ remaining' # <<>>
              \/ phase' = "wave" /\ remaining' # <<>>
              \/ phase' = "end"
  <1>1. /\ batch \in Seq(Bots) /\ batch # <<>> /\ remaining \in Seq(Bots) /\ remaining # <<>> /\ plan \in Plans
    BY InHand DEF RollTypes
  <1>2. CASE Len(batch) > 1 /\ ~halted
    <2>1. batch' = Tail(batch) /\ retry' = retried /\ phase' = "snapshot" /\ remaining' = remaining
      BY <1>2 DEF Advance
    <2>. QED
      BY <1>1, <1>2, <2>1
  <1>3. CASE ~(Len(batch) > 1 /\ ~halted)
    <2>. PICK left : left = SubSeq(remaining, Len(nextBatch(remaining)) + 1, Len(remaining)) \o retried
      OBVIOUS
    <2>1. /\ remaining' = left /\ batch' = <<>> /\ retry' = <<>>
          /\ phase' = IF left = <<>> \/ halted THEN "end" ELSE "wave"
      BY <1>3 DEF Advance
    <2>2. left \in Seq(Bots)
      <3>1. SubSeq(remaining, Len(nextBatch(remaining)) + 1, Len(remaining)) \in Seq(Bots)
        BY <1>1, Batches
      <3>. QED
        BY <3>1
    <2>. QED
      BY <2>1, <2>2
  <1>. QED
    BY <1>2, <1>3

LEMMA CleanupStep ==
    ASSUME RollInv, cleanupSnapshots
    PROVE  RollInv'
  <1>1. /\ RollTypes /\ phase = "cleanup" /\ snap' = 0 /\ Advance(retry, FALSE)
        /\ UNCHANGED <<verdict, plan, rolling, prev>>
    BY DEF RollInv, cleanupSnapshots
  <1>2. /\ FleetInv' /\ Pushed' /\ faults' = faults /\ pulled <= pulled'
        /\ UNCHANGED <<world, profiles, boxes, data, unsettled, jobs, caller>>
    BY FleetStays DEF cleanupSnapshots
  <1>3. /\ remaining' \in Seq(Bots) /\ batch' \in Seq(Bots) /\ retry' \in Seq(Bots)
        /\ \/ phase' = "snapshot" /\ batch' # <<>> /\ remaining' # <<>>
           \/ phase' = "wave" /\ remaining' # <<>>
           \/ phase' = "end"
    BY <1>1, Advances DEF RollTypes, Working
  <1>4. RollTypes'
    BY <1>1, <1>2, <1>3 DEF RollTypes, Working, Asking, Chain, Phases
  <1>5. \A b \in Bots : (Clean(b)' => CleanRight(b)') /\ VerdictRight(b)'
    BY <1>1, <1>2, <1>3, Eases, VerdictEases DEF Chain
  <1>. QED
    BY <1>2, <1>4, <1>5 DEF RollInv

LEMMA FailureStep ==
    ASSUME RollInv, handleFailure
    PROVE  RollInv'
  <1>. PICK answer : answer = onBotFailure(attempts[b0].failed + 1)
    OBVIOUS
  <1>1. /\ RollTypes /\ phase = "failed" /\ snap' = 0 /\ UNCHANGED <<verdict, plan, rolling, prev>>
        /\ Advance(IF answer[1] = "retry" THEN Append(retry, b0) ELSE retry, answer[1] = "abort")
    BY DEF RollInv, handleFailure
  <1>2. /\ FleetInv' /\ Pushed' /\ faults' = faults /\ pulled <= pulled'
        /\ UNCHANGED <<world, profiles, boxes, data, unsettled, jobs, caller>>
    BY FleetStays DEF handleFailure
  <1>3. /\ remaining' \in Seq(Bots) /\ batch' \in Seq(Bots) /\ retry' \in Seq(Bots)
        /\ \/ phase' = "snapshot" /\ batch' # <<>> /\ remaining' # <<>>
           \/ phase' = "wave" /\ remaining' # <<>>
           \/ phase' = "end"
    <2>1. b0 \in Bots /\ retry \in Seq(Bots)
      BY <1>1, InHand DEF Working, RollTypes
    <2>2. (IF answer[1] = "retry" THEN Append(retry, b0) ELSE retry) \in Seq(Bots)
      BY <2>1
    <2>. QED
      BY <1>1, <2>2, Advances DEF Working
  <1>4. RollTypes'
    BY <1>1, <1>2, <1>3 DEF RollTypes, Working, Asking, Chain, Phases
  <1>5. \A b \in Bots : (Clean(b)' => CleanRight(b)') /\ VerdictRight(b)'
    BY <1>1, <1>2, <1>3, Eases, VerdictEases DEF Chain
  <1>. QED
    BY <1>2, <1>4, <1>5 DEF RollInv

LEMMA RollNextInv ==
    ASSUME RollInv, RolloutsNext
    PROVE  RollInv'
  <1>1. CASE FleetNext /\ UNCHANGED rolloutVars
    BY <1>1, CallsKeepRoll
  <1>2. CASE Publish
    BY <1>2, PublishStep
  <1>3. CASE forceRollout \/ \E b \in Bots : checkBot(b)
    <2>1. StartRollout
      BY <1>3 DEF forceRollout, checkBot
    <2>. QED
      BY <2>1, StartStep
  <1>4. CASE getUpdatableProfiles
    BY <1>4, ListStep
  <1>5. CASE rollout
    BY <1>5, WaveStep
  <1>6. CASE snapshot
    BY <1>6, SnapshotStep
  <1>7. CASE doUpdateBot
    BY <1>7, UpdateBotStep
  <1>8. CASE waitForHealthy
    BY <1>8, JudgeStep
  <1>9. CASE rollback
    BY <1>9, RollbackStep
  <1>10. CASE rolledBack
    BY <1>10, RolledBackStep
  <1>11. CASE restoreVolumes
    BY <1>11, VolumeStep
  <1>12. CASE cleanupSnapshots
    BY <1>12, CleanupStep
  <1>13. CASE handleFailure
    BY <1>13, FailureStep
  <1>14. CASE onRolloutComplete
    BY <1>14, RestStep
  <1>. QED
    BY <1>1, <1>2, <1>3, <1>4, <1>5, <1>6, <1>7, <1>8, <1>9, <1>10, <1>11, <1>12, <1>13, <1>14
       DEF RolloutsNext, RolloutStep

LEMMA RollInitInv == RolloutsInit => RollInv
  <1>. SUFFICES ASSUME RolloutsInit PROVE RollInv
    OBVIOUS
  <1>1. /\ FleetInv /\ plan \in Plans /\ phase = "rest" /\ rolling = FALSE /\ remaining = <<>> /\ batch = <<>>
        /\ retry = <<>> /\ prev = NoPrev /\ snap = 0 /\ FleetInit
        /\ verdict = [b \in Bots |-> [ok |-> FALSE, image |-> NoImage, digest |-> 0]]
    BY FleetInitInv DEF RolloutsInit
  <1>2. jobs[Roller] = NoJob
    BY <1>1, RolloutsAssumption DEF FleetInit
  <1>3. prev \in PrevRows
    BY <1>1 DEF NoPrev, PrevRows
  <1>4. RollTypes
    <2>1. jobs[Roller].op = "none"
      BY <1>2 DEF NoJob
    <2>2. verdict \in [Bots -> [ok : BOOLEAN, image : Images \cup {NoImage}, digest : Nat]]
      BY <1>1
    <2>3. rolling = (phase # "rest")
      BY <1>1, Zenon
    <2>4. <<>> \in Seq(Bots)
      OBVIOUS
    <2>. QED
      BY <1>1, <1>3, <2>1, <2>2, <2>3, <2>4 DEF RollTypes, Working, Asking, Chain, Phases
  <1>5. Pushed
    BY <1>1 DEF FleetInit, Pushed
  <1>6. ASSUME NEW b \in Bots PROVE CleanRight(b) /\ VerdictRight(b)
    <2>1. verdict[b].ok = FALSE
      BY <1>1
    <2>2. VerdictRight(b)
      BY <1>1, <2>1 DEF VerdictRight, Chain
    <2>3. /\ profiles[b] = IF b \in world.has THEN Tag ELSE NoImage
          /\ boxes[b] = IF b \in world.has \ world.remote
                        THEN [id |-> 1, image |-> Tag, digest |-> 1, up |-> b \in world.up] ELSE NoBox
          /\ data[b] = (IF b \in world.has THEN 1 ELSE 0) /\ pulled = 1
      BY <1>1 DEF FleetInit
    <2>4. NoBox.digest = 0 /\ Tag # NoImage /\ Tag # Malformed /\ NoImage # Malformed /\ Tag = 0 /\ Resolve(Tag) = pulled
      BY DEF NoBox, Tag, NoImage, Malformed, Resolve
    <2>5. boxes[b].digest = 1 \/ (boxes[b] = NoBox /\ boxes[b].digest = 0)
      BY <2>3, <2>4
    <2>6. Lives(b) /\ Fits(b)
      BY <2>3, <2>4, <2>5 DEF Lives, Fits
    <2>. QED
      BY <1>1, <2>2, <2>6 DEF CleanRight, Chain
  <1>. QED
    BY <1>1, <1>4, <1>5, <1>6 DEF RollInv

LEMMA RollIsSafe == RollInv => RolloutsSafe /\ FleetConsistent
  <1>. SUFFICES ASSUME RollInv PROVE RolloutsSafe /\ FleetConsistent
    OBVIOUS
  <1>1. FleetConsistent
    BY FleetIsConsistent DEF RollInv
  <1>2. phase \in Phases
    BY DEF RollInv, RollTypes
  <1>3. DataFitsImage
    <2>. SUFFICES ASSUME NEW b \in Bots, faults = 0, boxes[b].up, ~InRollout(b), b \notin unsettled, Own(b)
                  PROVE  data[b] <= boxes[b].digest
      BY DEF DataFitsImage, Own
    <2>1. CleanRight(b)
      BY DEF RollInv, Clean
    <2>2. Fits(b)
      BY <2>1 DEF CleanRight, InRollout
    <2>3. boxes[b] # NoBox
      BY DEF NoBox
    <2>. QED
      BY <2>2, <2>3 DEF Fits
  <1>4. SuccessRunsPulled
    BY DEF RollInv, VerdictRight, SuccessRunsPulled, Sole, Reached
  <1>. QED
    BY <1>1, <1>3, <1>4 DEF RolloutsSafe

\* While bots are created, updated, started and removed by API calls, a rollout
\* whose calls are not refused leaves a bot that nobody else chooses an image for
\* on one that fits its data, and reports what runs (ContainerUpdater,
\* RolloutOrchestrator); and what FleetIsRight says of the calls holds with a
\* rollout beside them too.
THEOREM RolloutsAreSafe == RolloutsSpec => [](RolloutsSafe /\ FleetConsistent)
  <1>1. RollInv /\ UNCHANGED <<fleetVars, rolloutVars>> => RollInv'
    <2>. SUFFICES ASSUME RollInv, UNCHANGED <<fleetVars, rolloutVars>> PROVE RollInv'
      OBVIOUS
    <2>1. FleetInv' /\ Pushed'
      BY FleetStays
    <2>2. /\ UNCHANGED <<world, profiles, boxes, data, pulled, jobs, caller, faults, unsettled>>
          /\ UNCHANGED <<plan, rolling, phase, remaining, batch, retry, prev, snap, verdict>>
      BY DEF fleetVars, rolloutVars, disk, docker, history, progress
    <2>3. RollTypes'
      BY <2>2 DEF RollInv, RollTypes, b0, rollbackImage
    <2>4. ASSUME NEW b \in Bots PROVE (Clean(b) => CleanRight(b))' /\ VerdictRight(b)'
      <3>1. (Clean(b) => CleanRight(b)) /\ VerdictRight(b)
        BY DEF RollInv
      <3>2. (Snapped' <=> Snapped) /\ (Returns' <=> Returns) /\ (Restoring' <=> Restoring)
        BY <2>2 DEF Snapped, Returns, Restoring, b0, Resolve, Past
      <3>3. (Lives(b)' <=> Lives(b)) /\ (Fits(b)' <=> Fits(b)) /\ (b = b0' <=> b = b0) /\ (Clean(b)' <=> Clean(b))
        BY <2>2 DEF Lives, Fits, Resolve, b0, Clean, Own, B
      <3>4. VerdictRight(b)' <=> VerdictRight(b)
        BY <2>2 DEF VerdictRight, Sole, Reached, B, b0
      <3>5. CleanRight(b)' <=> CleanRight(b)
        BY <2>2, <3>2, <3>3 DEF CleanRight
      <3>. QED
        BY <3>1, <3>3, <3>4, <3>5
    <2>. QED
      BY <2>1, <2>3, <2>4 DEF RollInv
  <1>. QED
    BY <1>1, RollInitInv, RollNextInv, RollIsSafe, PTL DEF RolloutsSpec
=============================================================================
