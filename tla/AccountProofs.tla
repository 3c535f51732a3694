---------------------------- MODULE AccountProofs ----------------------------
(***************************************************************************)
(* What holds of accounts in every behaviour: the first hour of a newcomer *)
(* (Onboarding), what is provisioned for it (Provisioning), the owner of   *)
(* its organization (Orgs), its scheduled top-ups (ScheduleTopup), who may *)
(* act for it (Access), and the keys it brings (Vault).                    *)
(***************************************************************************)
EXTENDS Orgs, Onboarding, Provisioning, ScheduleTopup, Access, Vault, FiniteSetTheorems, TLAPS

-----------------------------------------------------------------------------
(* A newcomer's first hour                                                  *)

Hosting == {"idle", "create", "handoff", "transfer", "upgrade", "budget", "reply", "graduate"}
HostRows == [at : Hosting, id : Talks \cup {"none"}, path : {"none", "byok", "hosted"},
             tier : {"none", "free", "anonymous"}]

Cap(s) == BUDGET_CAPS[IF talks[s].user THEN "free" ELSE "anonymous"]

\* The calls whose answer from the session is not metered yet.
Replying(s) == {c \in Hosts : host[c].at = "reply" /\ host[c].id = s}

\* A call knows its session, and the tier it read is not above the session's.
CallsKnow ==
    \A c \in Hosts :
        /\ host[c].at \in {"handoff", "transfer", "budget", "reply", "graduate"} => host[c].id \in Talks
        /\ host[c].at \in {"budget", "reply"} =>
             \/ host[c].tier = "anonymous"
             \/ host[c].tier = "free" /\ talks[host[c].id].user

\* What was metered and what is about to be leave room for one call less than
\* there are.
RoomLeft == \A s \in Talks : talks[s].spent + Cardinality(Replying(s)) < Cap(s) + Cardinality(Hosts)

\* The process the manager holds runs, and it is ready only while it holds one.
HeldRuns ==
    /\ daemon.process # 0 => daemon.process \in daemon.live
    /\ daemon.ready => daemon.process # 0

DaemonShaped ==
    /\ daemon = [process |-> daemon.process, ready |-> daemon.ready, waiting |-> daemon.waiting,
                 live |-> daemon.live, spawned |-> daemon.spawned]
    /\ daemon.spawned \in Nat

OnboardingInv ==
    /\ talks \in [Talks -> TalkRows]
    /\ host \in [Hosts -> HostRows]
    /\ DaemonShaped
    /\ CallsKnow /\ RoomLeft /\ HeldRuns

\* The tab before the first greeting is a talk with nothing spent.
LEMMA NoTalkType == NoTalk \in TalkRows /\ NoTalk.spent = 0
  BY DEF NoTalk, TalkRows

\* The hosts being replied to are counted.
LEMMA ReplyingFinite ==
    ASSUME NEW s
    PROVE  IsFiniteSet(Replying(s)) /\ Cardinality(Replying(s)) \in Nat /\ Cardinality(Replying(s)) <= Cardinality(Hosts)
                                    /\ Cardinality(Hosts) \in Nat
  <1>1. IsFiniteSet(Hosts) /\ Replying(s) \in SUBSET Hosts
    BY OnboardingAssumption DEF Replying
  <1>. QED
    BY <1>1, FS_Subset, FS_CardinalityType

\* The invariant holds before anyone has come.
LEMMA OnboardingInitInv == OnboardingInit => OnboardingInv
  <1>. SUFFICES ASSUME OnboardingInit PROVE OnboardingInv
    OBVIOUS
  <1>1. \A s \in Talks : talks[s] \in TalkRows /\ talks[s].spent = 0
    <2>1. tour.talk \in TalkRows /\ tour.talk.spent = 0
      BY OnboardingAssumption DEF OnboardingInit
    <2>. QED
      BY <2>1, NoTalkType DEF OnboardingInit
  <1>2. talks \in [Talks -> TalkRows]
    BY <1>1 DEF OnboardingInit
  <1>3. host \in [Hosts -> HostRows]
    BY DEF OnboardingInit, AtRest, HostRows, Hosting
  <1>4. DaemonShaped /\ HeldRuns
    <2>1. tour.ready \in BOOLEAN
      BY OnboardingAssumption DEF OnboardingInit
    <2>2. CASE tour.ready = TRUE
      <3>1. daemon = [process |-> 1, ready |-> TRUE, waiting |-> 0, live |-> {1}, spawned |-> 1]
        BY <2>2 DEF OnboardingInit
      <3>. QED
        BY <3>1 DEF DaemonShaped, HeldRuns
    <2>3. CASE tour.ready = FALSE
      <3>1. daemon = [process |-> 0, ready |-> FALSE, waiting |-> 0, live |-> {}, spawned |-> 0]
        BY <2>3 DEF OnboardingInit
      <3>. QED
        BY <3>1 DEF DaemonShaped, HeldRuns
    <2>. QED
      BY <2>1, <2>2, <2>3
  <1>5. CallsKnow
    BY DEF OnboardingInit, CallsKnow, AtRest
  <1>6. RoomLeft
    <2>1. \A s \in Talks : Replying(s) = {}
      BY DEF OnboardingInit, Replying, AtRest
    <2>2. Cardinality(Hosts) \in Nat /\ Cardinality(Hosts) # 0
      BY OnboardingAssumption, FS_CardinalityType, FS_EmptySet
    <2>3. \A s \in Talks : Cap(s) \in Nat
      BY OnboardingAssumption DEF Cap
    <2>. QED
      BY <1>1, <2>1, <2>2, <2>3, FS_EmptySet DEF RoomLeft
  <1>. QED
    BY <1>2, <1>3, <1>4, <1>5, <1>6 DEF OnboardingInv

\* Steps of the setups and of the passing of time leave the conversations' money
\* and the daemon alone.
LEMMA SettingUpKeeps ==
    ASSUME OnboardingInv, UNCHANGED <<talks, host, daemon>>
    PROVE  OnboardingInv'
  <1>1. UNCHANGED <<talks, host, daemon>>
    OBVIOUS
  <1>2. \A s : Replying(s)' = Replying(s) /\ Cap(s)' = Cap(s)
    BY DEF Replying, Cap
  <1>. QED
    BY <1>2 DEF OnboardingInv, CallsKnow, RoomLeft, HeldRuns, DaemonShaped

\* A step of the conversations that meters nothing, sends nothing to the daemon
\* and takes no session's owner away keeps the budget.
LEMMA QuietTalk ==
    ASSUME OnboardingInv, UNCHANGED daemon,
           talks' \in [Talks -> TalkRows], host' \in [Hosts -> HostRows], CallsKnow',
           \A s \in Talks : talks'[s].spent = talks[s].spent /\ (talks[s].user => talks'[s].user),
           \A c \in Hosts : host'[c].at = "reply" => host'[c] = host[c]
    PROVE  OnboardingInv'
  <1>1. HeldRuns'
    BY DEF OnboardingInv, HeldRuns
  <1>2. ASSUME NEW s \in Talks
        PROVE  talks'[s].spent + Cardinality(Replying(s)') < Cap(s)' + Cardinality(Hosts)
    <2>1. Replying(s)' \in SUBSET Replying(s)
      BY DEF Replying
    <2>2. IsFiniteSet(Replying(s)) /\ Cardinality(Replying(s)) \in Nat /\ Cardinality(Hosts) \in Nat
      BY ReplyingFinite
    <2>3. Cardinality(Replying(s)') <= Cardinality(Replying(s)) /\ Cardinality(Replying(s)') \in Nat
      BY <2>1, <2>2, FS_Subset, FS_CardinalityType
    <2>4. Cap(s) <= Cap(s)' /\ Cap(s) \in Nat /\ Cap(s)' \in Nat
      BY OnboardingAssumption DEF Cap
    <2>5. talks[s].spent \in Nat /\ talks'[s].spent = talks[s].spent
      BY DEF OnboardingInv, TalkRows
    <2>6. talks[s].spent + Cardinality(Replying(s)) < Cap(s) + Cardinality(Hosts)
      BY DEF OnboardingInv, RoomLeft
    <2>. HIDE DEF Replying, Cap
    <2>. QED
      BY <2>2, <2>3, <2>4, <2>5, <2>6
  <1>3. RoomLeft'
    BY <1>2 DEF RoomLeft
  <1>. QED
    BY <1>1, <1>3 DEF OnboardingInv, DaemonShaped

\* One call moves on, its session and tier kept or set.
LEMMA HostMoves ==
    ASSUME OnboardingInv, UNCHANGED <<talks, daemon>>, NEW c \in Hosts, NEW h \in HostRows,
           host' = [host EXCEPT ![c] = h], h.at # "reply",
           h.at \in {"handoff", "transfer", "budget", "graduate"} => h.id \in Talks,
           h.at = "budget" => h.tier = "anonymous" \/ (h.tier = "free" /\ talks[h.id].user)
    PROVE  OnboardingInv'
  <1>1. host' \in [Hosts -> HostRows]
    BY DEF OnboardingInv
  <1>2. \A d \in Hosts : host'[d] = IF d = c THEN h ELSE host[d]
    BY DEF OnboardingInv
  <1>3. CallsKnow'
    BY <1>2 DEF OnboardingInv, CallsKnow
  <1>4. \A d \in Hosts : host'[d].at = "reply" => host'[d] = host[d]
    BY <1>2
  <1>5. talks' \in [Talks -> TalkRows]
    BY DEF OnboardingInv
  <1>6. \A s \in Talks : talks'[s].spent = talks[s].spent /\ (talks[s].user => talks'[s].user)
    OBVIOUS
  <1>. QED
    BY <1>1, <1>3, <1>4, <1>5, <1>6, QuietTalk

\* Where a call rests it holds nothing.
LEMMA LeaveKeeps ==
    ASSUME OnboardingInv, UNCHANGED <<talks, daemon>>, NEW c \in Hosts, Leave(c)
    PROVE  OnboardingInv'
  <1>1. AtRest \in HostRows /\ AtRest.at = "idle"
    BY DEF AtRest, HostRows, Hosting
  <1>2. host' = [host EXCEPT ![c] = AtRest]
    BY DEF Leave
  <1>. QED
    BY <1>1, <1>2, HostMoves

\* A call begins.
LEMMA BeginningKeeps ==
    ASSUME OnboardingInv, NEW c \in Hosts, NEW s \in Talks,
           \/ \E user \in BOOLEAN : createSession(c, user)
           \/ handoff(c, s) \/ inject(c, s) \/ \E path \in {"byok", "hosted"} : graduate(c, s, path)
    PROVE  OnboardingInv'
  <1>1. ASSUME NEW user \in BOOLEAN, createSession(c, user) PROVE OnboardingInv'
    <2>1. PICK t \in {"free", "anonymous"} : host' = [host EXCEPT ![c] = [AtRest EXCEPT !.at = "create", !.tier = t]]
      BY <1>1 DEF createSession
    <2>. DEFINE h == [AtRest EXCEPT !.at = "create", !.tier = t]
    <2>2. h \in HostRows /\ h.at = "create"
      BY DEF AtRest, HostRows, Hosting
    <2>. HIDE DEF h
    <2>. QED
      BY <1>1, <2>1, <2>2, HostMoves DEF createSession, h
  <1>2. ASSUME handoff(c, s) PROVE OnboardingInv'
    <2>. DEFINE h == [host[c] EXCEPT !.at = "handoff", !.id = s]
    <2>1. h \in HostRows /\ h.at = "handoff" /\ h.id = s
      BY DEF OnboardingInv, HostRows, Hosting
    <2>2. host' = [host EXCEPT ![c] = h]
      BY <1>2 DEF handoff, To, OnboardingInv, HostRows
    <2>. HIDE DEF h
    <2>. QED
      BY <1>2, <2>1, <2>2, HostMoves DEF handoff
  <1>3. ASSUME inject(c, s) PROVE OnboardingInv'
    <2>. DEFINE t == IF talks[s].user THEN "free" ELSE "anonymous"
                h == [AtRest EXCEPT !.at = "budget", !.id = s, !.tier = t]
    <2>1. t \in {"free", "anonymous"} /\ (t = "free" => talks[s].user)
      OBVIOUS
    <2>2. host' = [host EXCEPT ![c] = h]
      BY <1>3 DEF inject
    <2>. HIDE DEF t
    <2>3. h \in HostRows /\ h.at = "budget" /\ h.id = s /\ h.tier = t
      BY <2>1 DEF AtRest, HostRows, Hosting
    <2>. HIDE DEF h
    <2>4. h.tier = "anonymous" \/ (h.tier = "free" /\ talks[h.id].user)
      BY <2>1, <2>3
    <2>. QED
      BY <1>3, <2>2, <2>3, <2>4, HostMoves DEF inject
  <1>4. ASSUME NEW path \in {"byok", "hosted"}, graduate(c, s, path) PROVE OnboardingInv'
    <2>. DEFINE h == [AtRest EXCEPT !.at = "graduate", !.id = s, !.path = path]
    <2>1. h \in HostRows /\ h.at = "graduate" /\ h.id = s
      BY DEF AtRest, HostRows, Hosting
    <2>2. host' = [host EXCEPT ![c] = h]
      BY <1>4 DEF graduate
    <2>. HIDE DEF h
    <2>. QED
      BY <1>4, <2>1, <2>2, HostMoves DEF graduate
  <1>. QED
    BY <1>1, <1>2, <1>3, <1>4

\* A row of a session is written: nobody is answered, nothing is metered, and a
\* user's session stays one.
LEMMA RowKeeps ==
    ASSUME OnboardingInv, UNCHANGED daemon, NEW c \in Hosts, Leave(c),
           talks' \in [Talks -> TalkRows],
           \A s \in Talks : talks'[s].spent = talks[s].spent /\ (talks[s].user => talks'[s].user)
    PROVE  OnboardingInv'
  <1>1. \A d \in Hosts : host'[d] = IF d = c THEN AtRest ELSE host[d]
    BY DEF Leave, OnboardingInv
  <1>2. host' \in [Hosts -> HostRows]
    BY DEF Leave, OnboardingInv, AtRest, HostRows, Hosting
  <1>3. CallsKnow'
    BY <1>1 DEF OnboardingInv, CallsKnow, AtRest
  <1>4. \A d \in Hosts : host'[d].at = "reply" => host'[d] = host[d]
    BY <1>1 DEF AtRest
  <1>. QED
    BY <1>2, <1>3, <1>4, QuietTalk

\* A session is made, handed over or graduates.
LEMMA SessionsKeep ==
    ASSUME OnboardingInv, NEW c \in Hosts, createRow(c) \/ handedOff(c) \/ graduated(c)
    PROVE  OnboardingInv'
  <1>1. ASSUME createRow(c) PROVE OnboardingInv'
    <2>1. CASE UNCHANGED talks
      BY <1>1, <2>1, LeaveKeeps DEF createRow
    <2>2. ASSUME NEW s \in Talks, talks[s] = NoTalk,
                 talks' = [talks EXCEPT ![s] = [NoTalk EXCEPT !.status = "active", !.user = host[c].tier = "free",
                                                              !.anon = host[c].tier = "anonymous"]]
          PROVE  OnboardingInv'
      <3>. DEFINE user == host[c].tier = "free"
                  anon == host[c].tier = "anonymous"
                  t == [NoTalk EXCEPT !.status = "active", !.user = user, !.anon = anon]
      <3>1. user \in BOOLEAN /\ anon \in BOOLEAN
        OBVIOUS
      <3>2. talks' = [talks EXCEPT ![s] = t]
        BY <2>2
      <3>. HIDE DEF user, anon
      <3>3. t \in TalkRows /\ t.spent = 0
        BY <3>1 DEF NoTalk, TalkRows
      <3>. HIDE DEF t
      <3>4. talks' \in [Talks -> TalkRows] /\ \A x \in Talks : talks'[x] = IF x = s THEN t ELSE talks[x]
        BY <3>2, <3>3 DEF OnboardingInv
      <3>5. ~talks[s].user /\ talks[s].spent = 0
        BY <2>2 DEF NoTalk
      <3>. QED
        BY <1>1, <3>3, <3>4, <3>5, RowKeeps DEF createRow
    <2>. QED
      BY <1>1, <2>1, <2>2 DEF createRow
  <1>2. ASSUME handedOff(c), host[c].at = "transfer", setStatus(host[c].id, "transferred") PROVE OnboardingInv'
    <2>1. host[c].id \in Talks
      BY <1>2 DEF OnboardingInv, CallsKnow
    <2>2. talks' \in [Talks -> TalkRows] /\ \A x \in Talks : talks'[x].spent = talks[x].spent /\ talks'[x].user = talks[x].user
      BY <1>2, <2>1 DEF OnboardingInv, setStatus, TalkRows
    <2>. QED
      BY <1>2, <2>2, RowKeeps DEF handedOff
  <1>3. ASSUME handedOff(c), upgradeAnonymousToUser PROVE OnboardingInv'
    <2>1. ASSUME NEW x \in Talks
          PROVE  talks'[x] \in TalkRows /\ talks'[x].spent = talks[x].spent /\ (talks[x].user => talks'[x].user)
      <3>. DEFINE user == talks[x].user \/ talks[x].anon
      <3>1. talks[x] \in TalkRows /\ user \in BOOLEAN /\ (talks[x].user => user)
        BY DEF OnboardingInv
      <3>2. talks'[x] = [talks[x] EXCEPT !.user = user]
        BY <1>3 DEF upgradeAnonymousToUser
      <3>. HIDE DEF user
      <3>. QED
        BY <3>1, <3>2 DEF TalkRows
    <2>2. talks' = [x \in Talks |-> talks'[x]]
      BY <1>3 DEF upgradeAnonymousToUser
    <2>3. talks' \in [Talks -> TalkRows]
      BY <2>1, <2>2
    <2>. QED
      BY <1>3, <2>1, <2>3, RowKeeps DEF handedOff
  <1>4. ASSUME graduated(c) PROVE OnboardingInv'
    <2>1. host[c].id \in Talks /\ host[c].path \in {"none", "byok", "hosted"}
      BY <1>4 DEF graduated, OnboardingInv, CallsKnow, HostRows
    <2>2. talks' \in [Talks -> TalkRows] /\ \A x \in Talks : talks'[x].spent = talks[x].spent /\ talks'[x].user = talks[x].user
      <3>1. CASE UNCHANGED talks
        BY <3>1 DEF OnboardingInv
      <3>2. CASE talks' = [talks EXCEPT ![host[c].id] = Graduated(c)]
        <4>1. /\ talks[host[c].id] \in TalkRows /\ Graduated(c) \in TalkRows
              /\ Graduated(c).spent = talks[host[c].id].spent /\ Graduated(c).user = talks[host[c].id].user
          <5>. DEFINE t == talks[host[c].id]
                      to == host[c].path
          <5>1. t \in TalkRows /\ to \in {"none", "byok", "hosted"}
            BY <2>1 DEF OnboardingInv
          <5>2. Graduated(c) = [t EXCEPT !.path = to, !.status = "graduated"]
            BY DEF Graduated
          <5>. HIDE DEF t, to
          <5>3. Graduated(c) \in TalkRows /\ Graduated(c).spent = t.spent /\ Graduated(c).user = t.user
            BY <5>1, <5>2 DEF TalkRows
          <5>. QED
            BY <5>1, <5>3 DEF t
        <4>. QED
          BY <2>1, <3>2, <4>1 DEF OnboardingInv
      <3>. QED
        BY <1>4, <3>1, <3>2 DEF graduated, graduateRow
    <2>. QED
      BY <1>4, <2>2, RowKeeps DEF graduated
  <1>. QED
    BY <1>1, <1>2, <1>3, <1>4 DEF handedOff

\* A message is sent to the daemon: the session had room for it.
LEMMA SendingKeeps ==
    ASSUME OnboardingInv, NEW c \in Hosts, injectSent(c)
    PROVE  OnboardingInv'
  <1>1. CASE Leave(c)
    BY <1>1, LeaveKeeps DEF injectSent
  <1>2. CASE checkSessionBudget(host[c].tier, talks[host[c].id].spent) /\ To(c, "reply", host[c].id)
    <2>. DEFINE s == host[c].id
                h == [host[c] EXCEPT !.at = "reply"]
    <2>1. s \in Talks /\ host[c].at = "budget" /\ UNCHANGED <<talks, daemon>>
      BY <1>2 DEF injectSent, OnboardingInv, CallsKnow
    <2>2. h \in HostRows /\ h.at = "reply" /\ h.id = s /\ h.tier = host[c].tier
      BY DEF OnboardingInv, HostRows, Hosting
    <2>3. host' = [host EXCEPT ![c] = h]
      BY <1>2 DEF To, OnboardingInv, HostRows
    <2>. HIDE DEF h
    <2>4. host' \in [Hosts -> HostRows] /\ \A d \in Hosts : host'[d] = IF d = c THEN h ELSE host[d]
      BY <2>2, <2>3 DEF OnboardingInv
    <2>5. CallsKnow'
      BY <2>1, <2>2, <2>4 DEF OnboardingInv, CallsKnow
    <2>6. talks[s].spent < Cap(s) /\ talks[s].spent \in Nat /\ Cap(s) \in Nat
      <3>1. talks[s].spent \in Nat
        BY <2>1 DEF OnboardingInv, TalkRows
      <3>2. BUDGET_CAPS[host[c].tier] - talks[s].spent > 0
        BY <1>2 DEF checkSessionBudget
      <3>3. host[c].tier = "anonymous" \/ (host[c].tier = "free" /\ talks[s].user)
        BY <2>1 DEF OnboardingInv, CallsKnow
      <3>. QED
        BY <3>1, <3>2, <3>3, OnboardingAssumption DEF Cap
    <2>7. ASSUME NEW x \in Talks
          PROVE  talks[x].spent + Cardinality(Replying(x)') < Cap(x) + Cardinality(Hosts)
      <3>1. CASE x = s
        <4>1. Replying(x)' \in SUBSET Hosts /\ c \in Replying(x)'
          BY <2>2, <2>4, <3>1 DEF Replying
        <4>2. IsFiniteSet(Hosts) /\ Cardinality(Hosts) \in Nat
          BY OnboardingAssumption, FS_CardinalityType
        <4>3. Cardinality(Replying(x)') <= Cardinality(Hosts) /\ Cardinality(Replying(x)') \in Nat
          BY <4>1, <4>2, FS_Subset, FS_CardinalityType
        <4>. DEFINE n == Cardinality(Replying(x)')
        <4>4. n \in Nat /\ n <= Cardinality(Hosts)
          BY <4>3
        <4>. HIDE DEF s, Cap, n
        <4>5. talks[s].spent + n < Cap(s) + Cardinality(Hosts)
          BY <2>6, <4>2, <4>4
        <4>. QED
          BY <3>1, <4>5 DEF n
      <3>2. CASE x # s
        <4>1. Replying(x)' = Replying(x)
          BY <2>1, <2>2, <2>4, <3>2 DEF Replying
        <4>. QED
          BY <4>1 DEF OnboardingInv, RoomLeft
      <3>. QED
        BY <3>1, <3>2
    <2>8. RoomLeft' /\ HeldRuns'
      BY <2>1, <2>7 DEF RoomLeft, Cap, HeldRuns, OnboardingInv
    <2>. QED
      BY <2>1, <2>4, <2>5, <2>8 DEF OnboardingInv, DaemonShaped
  <1>. QED
    BY <1>1, <1>2 DEF injectSent

\* The answer is metered: what was on its way is now spent.
LEMMA MeteringKeeps ==
    ASSUME OnboardingInv, NEW c \in Hosts, injectMetered(c)
    PROVE  OnboardingInv'
  <1>1. CASE UNCHANGED talks
    BY <1>1, LeaveKeeps DEF injectMetered
  <1>2. CASE talks' = [talks EXCEPT ![host[c].id].spent = talks[host[c].id].spent + 1]
    <2>. DEFINE s == host[c].id
                t == [talks[s] EXCEPT !.spent = talks[s].spent + 1]
    <2>1. s \in Talks /\ host[c].at = "reply" /\ Leave(c) /\ UNCHANGED daemon
      BY <1>2 DEF injectMetered, OnboardingInv, CallsKnow
    <2>2. t \in TalkRows /\ t.spent = talks[s].spent + 1 /\ t.user = talks[s].user
      <3>. DEFINE old == talks[s]
      <3>1. old \in TalkRows
        BY <2>1 DEF OnboardingInv
      <3>. HIDE DEF old
      <3>. QED
        BY <3>1 DEF TalkRows, old
    <2>3. talks' = [talks EXCEPT ![s] = t]
      BY <1>2
    <2>. HIDE DEF t
    <2>4. talks' \in [Talks -> TalkRows] /\ \A x \in Talks : talks'[x] = IF x = s THEN t ELSE talks[x]
      BY <2>1, <2>2, <2>3 DEF OnboardingInv
    <2>5. host' \in [Hosts -> HostRows] /\ \A d \in Hosts : host'[d] = IF d = c THEN AtRest ELSE host[d]
      BY <2>1 DEF Leave, OnboardingInv, AtRest, HostRows, Hosting
    <2>6. \A x \in Talks : talks'[x].user = talks[x].user
      BY <2>2, <2>4
    <2>7. CallsKnow'
      BY <2>5, <2>6 DEF OnboardingInv, CallsKnow, AtRest
    <2>8. ASSUME NEW x \in Talks
          PROVE  talks'[x].spent + Cardinality(Replying(x)') < Cap(x) + Cardinality(Hosts)
      <3>1. CASE x = s
        <4>1. Replying(x)' = Replying(x) \ {c} /\ c \in Replying(x)
          BY <2>1, <2>5, <3>1 DEF Replying, AtRest
        <4>2. Cardinality(Replying(x)') = Cardinality(Replying(x)) - 1 /\ Cardinality(Replying(x)) \in Nat
          BY <4>1, ReplyingFinite, FS_RemoveElement
        <4>3. talks[s].spent + Cardinality(Replying(x)) < Cap(s) + Cardinality(Hosts)
          BY <2>1, <3>1 DEF OnboardingInv, RoomLeft
        <4>4. talks[s].spent \in Nat
          BY <2>1 DEF OnboardingInv, TalkRows
        <4>. DEFINE n == Cardinality(Replying(x)')
                    m == Cardinality(Replying(x))
        <4>5. n = m - 1 /\ m \in Nat /\ talks[s].spent + m < Cap(s) + Cardinality(Hosts)
          BY <4>2, <4>3
        <4>. HIDE DEF s, Cap, n, m
        <4>6. talks'[s].spent + n = talks[s].spent + m
          BY <2>1, <2>2, <2>4, <4>4, <4>5
        <4>. QED
          BY <3>1, <4>5, <4>6 DEF n
      <3>2. CASE x # s
        <4>1. Replying(x)' = Replying(x)
          BY <2>1, <2>5, <3>2 DEF Replying, AtRest
        <4>. QED
          BY <2>4, <3>2, <4>1 DEF OnboardingInv, RoomLeft
      <3>. QED
        BY <3>1, <3>2
    <2>9. RoomLeft' /\ HeldRuns'
      BY <2>1, <2>6, <2>8 DEF RoomLeft, Cap, HeldRuns, OnboardingInv
    <2>. QED
      BY <2>1, <2>4, <2>5, <2>7, <2>9 DEF OnboardingInv, DaemonShaped
  <1>. QED
    BY <1>1, <1>2 DEF injectMetered

\* The daemon's process starts, comes up, is stopped and exits, in any order.
LEMMA DaemonKeeps ==
    ASSUME OnboardingInv, start \/ waitForReady \/ stop \/ \E p \in daemon.live : onExit(p)
    PROVE  OnboardingInv'
  <1>. SUFFICES DaemonShaped' /\ HeldRuns'
    <2>1. UNCHANGED <<talks, host>>
      BY DEF start, waitForReady, stop, onExit, talking
    <2>2. \A s : Replying(s)' = Replying(s) /\ Cap(s)' = Cap(s)
      BY <2>1 DEF Replying, Cap
    <2>. QED
      BY <2>1, <2>2 DEF OnboardingInv, CallsKnow, RoomLeft
  <1>1. DaemonShaped /\ HeldRuns
    BY DEF OnboardingInv
  <1>2. ASSUME start PROVE DaemonShaped' /\ HeldRuns'
    <2>. DEFINE n == daemon.spawned + 1
    <2>1. n \in Nat /\ n # 0
      BY <1>1 DEF DaemonShaped
    <2>2. daemon' = [daemon EXCEPT !.spawned = n, !.process = n, !.waiting = daemon.waiting + 1, !.live = daemon.live \cup {n}]
      BY <1>2 DEF start
    <2>. HIDE DEF n
    <2>3. DaemonShaped'
      BY <1>1, <2>1, <2>2 DEF DaemonShaped
    <2>4. daemon'.process = n /\ daemon'.live = daemon.live \cup {n}
      BY <1>1, <2>2 DEF DaemonShaped
    <2>. QED
      BY <2>1, <2>3, <2>4 DEF HeldRuns
  <1>3. ASSUME waitForReady PROVE DaemonShaped' /\ HeldRuns'
    <2>. DEFINE r == stillAlive \/ daemon.ready
    <2>1. r \in BOOLEAN /\ (r => daemon.process # 0)
      BY <1>1 DEF stillAlive, HeldRuns
    <2>2. \/ daemon' = [daemon EXCEPT !.waiting = daemon.waiting - 1, !.ready = r]
          \/ daemon' = [daemon EXCEPT !.waiting = daemon.waiting - 1]
      BY <1>3 DEF waitForReady
    <2>. HIDE DEF r
    <2>3. CASE daemon' = [daemon EXCEPT !.waiting = daemon.waiting - 1, !.ready = r]
      <3>1. DaemonShaped'
        BY <1>1, <2>1, <2>3 DEF DaemonShaped
      <3>2. daemon'.process = daemon.process /\ daemon'.live = daemon.live /\ daemon'.ready = r
        BY <1>1, <2>3 DEF DaemonShaped
      <3>. QED
        BY <1>1, <2>1, <3>1, <3>2 DEF HeldRuns
    <2>4. CASE daemon' = [daemon EXCEPT !.waiting = daemon.waiting - 1]
      BY <1>1, <2>4 DEF DaemonShaped, HeldRuns
    <2>. QED
      BY <2>2, <2>3, <2>4
  <1>4. ASSUME stop PROVE DaemonShaped' /\ HeldRuns'
    BY <1>1, <1>4 DEF stop, DaemonShaped, HeldRuns
  <1>5. ASSUME NEW p \in daemon.live, onExit(p) PROVE DaemonShaped' /\ HeldRuns'
    BY <1>1, <1>5 DEF onExit, DaemonShaped, HeldRuns
  <1>. QED
    BY <1>2, <1>3, <1>4, <1>5

\* Every step keeps the budget and the daemon in order.
LEMMA OnboardingStepInv == OnboardingInv /\ [OnboardingNext]_onboardingVars => OnboardingInv'
  <1>. SUFFICES ASSUME OnboardingInv, [OnboardingNext]_onboardingVars PROVE OnboardingInv'
    OBVIOUS
  <1>1. CASE UNCHANGED onboardingVars
    BY <1>1, SettingUpKeeps DEF onboardingVars
  <1>2. ASSUME NEW c \in Hosts, TalkStep(c) PROVE OnboardingInv'
    <2>1. ASSUME NEW user \in BOOLEAN, createSession(c, user) PROVE OnboardingInv'
      <3>1. PICK s \in Talks : TRUE
        BY <2>1 DEF createSession
      <3>. QED
        BY <2>1, <3>1, BeginningKeeps
    <2>2. ASSUME NEW s \in Talks, handoff(c, s) \/ inject(c, s) \/ \E path \in {"byok", "hosted"} : graduate(c, s, path)
          PROVE  OnboardingInv'
      BY <2>2, BeginningKeeps
    <2>3. ASSUME handoffTo(c) PROVE OnboardingInv'
      <3>1. PICK at \in {"transfer", "upgrade"} : To(c, at, host[c].id)
        BY <2>3 DEF handoffTo
      <3>. DEFINE h == [host[c] EXCEPT !.at = at]
      <3>2. host[c] \in HostRows /\ host[c].id \in Talks /\ UNCHANGED <<talks, daemon>>
        BY <2>3 DEF handoffTo, OnboardingInv, CallsKnow
      <3>3. host' = [host EXCEPT ![c] = h]
        BY <3>1, <3>2 DEF To, OnboardingInv, HostRows
      <3>4. h \in HostRows /\ h.at = at /\ h.id = host[c].id
        BY <3>2 DEF HostRows, Hosting
      <3>. HIDE DEF h
      <3>. QED
        BY <3>2, <3>3, <3>4, HostMoves
    <2>. QED
      BY <1>2, <2>1, <2>2, <2>3, SessionsKeep, SendingKeeps, MeteringKeeps DEF TalkStep
  <1>3. ASSUME NEW s \in Talks, Age(s) PROVE OnboardingInv'
    <2>. DEFINE t == [talks[s] EXCEPT !.old = TRUE]
    <2>1. t \in TalkRows /\ t.spent = talks[s].spent /\ t.user = talks[s].user
      <3>. DEFINE was == talks[s]
      <3>1. was \in TalkRows
        BY DEF OnboardingInv
      <3>. HIDE DEF was
      <3>. QED
        BY <3>1 DEF TalkRows, was
    <2>2. talks' = [talks EXCEPT ![s] = t]
      BY <1>3 DEF Age, OnboardingInv, TalkRows
    <2>. HIDE DEF t
    <2>3. talks' \in [Talks -> TalkRows] /\ \A x \in Talks : talks'[x] = IF x = s THEN t ELSE talks[x]
      BY <2>1, <2>2 DEF OnboardingInv
    <2>4. \A x \in Talks : talks'[x].spent = talks[x].spent /\ talks'[x].user = talks[x].user
      BY <2>1, <2>3
    <2>5. UNCHANGED <<host, daemon>>
      BY <1>3 DEF Age
    <2>6. host' \in [Hosts -> HostRows] /\ CallsKnow' /\ \A c \in Hosts : host'[c] = host[c]
      BY <2>4, <2>5 DEF OnboardingInv, CallsKnow
    <2>. QED
      BY <2>3, <2>4, <2>5, <2>6, QuietTalk
  <1>4. ASSUME NEW c \in Hosts, SetupStep(c) PROVE UNCHANGED <<talks, host, daemon>>
    BY <1>4 DEF SetupStep, recordError, cleanupStaleSessions, findById, clearCollected, deleteBySetupSession,
                markRolledBack, talking
  <1>5. ASSUME NEW x \in Setups, insertSetup(x) \/ saveConfig(x) \/ markComplete(x) \/ Stale(x)
        PROVE  UNCHANGED <<talks, host, daemon>>
    BY <1>5 DEF insertSetup, saveConfig, markComplete, Stale, talking
  <1>. QED
    BY <1>1, <1>2, <1>3, <1>4, <1>5, SettingUpKeeps, DaemonKeeps DEF OnboardingNext

\* A session costs its tier's cap and one message for every other call, and the
\* daemon that is called ready is the process that is held and runs
\* (onboarding-service.ts, daemon-manager.ts): for every number of sessions and
\* of calls that overlap, every cap and every order in which processes exit.
THEOREM NewcomersAreSafe == OnboardingSpec => []OnboardingSafe
  <1>1. OnboardingInv => OnboardingSafe
    <2>. SUFFICES ASSUME OnboardingInv PROVE OnboardingSafe
      OBVIOUS
    <2>1. ASSUME NEW s \in Talks PROVE talks[s].spent < Cap(s) + Cardinality(Hosts)
      <3>1. talks[s].spent + Cardinality(Replying(s)) < Cap(s) + Cardinality(Hosts)
        BY DEF OnboardingInv, RoomLeft
      <3>2. talks[s].spent \in Nat /\ Cap(s) \in Nat
        BY OnboardingAssumption DEF OnboardingInv, TalkRows, Cap
      <3>3. Cardinality(Replying(s)) \in Nat /\ Cardinality(Hosts) \in Nat
        BY ReplyingFinite
      <3>. QED
        BY <3>1, <3>2, <3>3
    <2>. QED
      BY <2>1 DEF OnboardingSafe, BudgetHolds, ReadyIsAlive, OnboardingInv, HeldRuns, Cap
  <1>. QED
    BY <1>1, OnboardingInitInv, OnboardingStepInv, PTL DEF OnboardingSpec

\* A session graduates once (graduation-service.ts, WHERE graduated_at IS NULL):
\* of any number of calls that passed the checks, every one but the first leaves
\* the path as it is.
THEOREM GraduationIsOnce == OnboardingSpec => GraduatedOnce
  <1>1. OnboardingInv /\ [OnboardingNext]_onboardingVars
          => [\A s \in Talks : talks[s].path # "none" => talks'[s].path = talks[s].path]_onboardingVars
    <2>. SUFFICES ASSUME OnboardingInv, OnboardingNext, NEW s \in Talks, talks[s].path # "none"
                  PROVE  talks'[s].path = talks[s].path
      OBVIOUS
    <2>1. CASE UNCHANGED talks
      BY <2>1
    <2>2. ASSUME NEW c \in Hosts, createRow(c) PROVE talks'[s].path = talks[s].path
      BY <2>2 DEF createRow, NoTalk, OnboardingInv
    <2>3. ASSUME NEW c \in Hosts, handedOff(c) PROVE talks'[s].path = talks[s].path
      BY <2>3 DEF handedOff, setStatus, upgradeAnonymousToUser, OnboardingInv, TalkRows
    <2>4. ASSUME NEW c \in Hosts, injectMetered(c) PROVE talks'[s].path = talks[s].path
      BY <2>4 DEF injectMetered, OnboardingInv, TalkRows
    <2>5. ASSUME NEW c \in Hosts, graduated(c) PROVE talks'[s].path = talks[s].path
      BY <2>5 DEF graduated, graduateRow, OnboardingInv
    <2>6. ASSUME NEW x \in Talks, Age(x) PROVE talks'[s].path = talks[s].path
      BY <2>6 DEF Age, OnboardingInv, TalkRows
    <2>7. ASSUME NEW c \in Hosts, TalkStep(c), ~createRow(c), ~handedOff(c), ~injectMetered(c), ~graduated(c)
          PROVE  UNCHANGED talks
      BY <2>7 DEF TalkStep, createSession, handoffTo, injectSent, handoff, inject, graduate
    <2>8. ASSUME NEW c \in Hosts, SetupStep(c) PROVE UNCHANGED talks
      BY <2>8 DEF SetupStep, recordError, cleanupStaleSessions, findById, clearCollected, deleteBySetupSession,
                  markRolledBack, talking
    <2>9. ASSUME \/ start \/ waitForReady \/ stop \/ (\E p \in daemon.live : onExit(p))
                 \/ \E x \in Setups : insertSetup(x) \/ saveConfig(x) \/ markComplete(x) \/ Stale(x)
          PROVE  UNCHANGED talks
      BY <2>9 DEF start, waitForReady, stop, onExit, insertSetup, saveConfig, markComplete, Stale, talking
    <2>. QED
      BY <2>1, <2>2, <2>3, <2>4, <2>5, <2>6, <2>7, <2>8, <2>9 DEF OnboardingNext
  <1>. QED
    BY <1>1, OnboardingInitInv, OnboardingStepInv, PTL DEF OnboardingSpec, GraduatedOnce

-----------------------------------------------------------------------------
(* What is provisioned                                                      *)

Busy == {"container", "route", "key", "claimSave", "remove", "unroute"}
Stations == Busy \cup {"idle", "limit", "save"}
Operations == {"none", "create", "claim", "destroy"}

DeskRows == [at : Stations, op : Operations, tenant : Landlords \cup {"none"},
             sub : Subdomains \cup {"none"}, id : Nat]
ProfileRows == [id : Nat, tenant : Landlords \cup {"none"}, sub : Subdomains \cup {"none"}, made : Operations]
BoxRows == [prefix : {site.prefix, "wopr"}, sub : Subdomains \cup {"none"}, id : Nat]
RouteRows == [id : Nat, sub : Subdomains \cup {"none"}, prefix : {site.prefix}, healthy : BOOLEAN]

ProvisioningTypes ==
    /\ site \in Sites /\ made \in Nat
    /\ profiles \subseteq ProfileRows /\ IsFiniteSet(profiles)
    /\ boxes \subseteq BoxRows /\ routes \subseteq RouteRows
    /\ desk \in [Desks -> DeskRows]

\* An id is given out once, and whoever is at work with it works alone.
IdsOnce ==
    /\ \A p \in profiles : p.id \in 1..made
    /\ \A b \in boxes : b.id \in 1..made
    /\ \A r \in routes : r.id \in 1..made
    /\ \A d \in Desks :
         /\ desk[d].at \in Busy => desk[d].id \in 1..made
         /\ desk[d].at \notin Busy => desk[d].id = 0
    /\ \A c, d \in Desks : desk[c].id = desk[d].id /\ desk[c].id # 0 => c = d

\* An instance has one name, and a container's is its own.
NamesAgree ==
    /\ \A p, q \in profiles : p.id = q.id => p.sub = q.sub
    /\ \A p \in profiles, b \in boxes : p.id = b.id => p.sub = b.sub
    /\ \A p \in profiles, d \in Desks : p.id = desk[d].id => p.sub = desk[d].sub
    /\ \A b \in boxes, d \in Desks : b.id = desk[d].id => b.sub = desk[d].sub
    /\ \A a, b \in boxes : a.prefix = b.prefix /\ a.sub = b.sub => a = b

\* Who makes a container or adds its route has the profile, there is no route
\* before, and a route has a profile or is about to go.
RoutesFollow ==
    /\ \A d \in Desks : desk[d].at \in {"container", "route"} => \E p \in profiles : p.id = desk[d].id
    /\ \A d \in Desks, r \in routes : desk[d].at \in {"container", "key", "claimSave"} => r.id # desk[d].id
    /\ RoutedIsKept

\* The instances a tenant has made by create, and the calls that passed the
\* limit and will save another one.
Created(t) == {p \in profiles : p.tenant = t /\ p.made = "create"}
Saving(t) == {d \in Desks : desk[d].at = "save" /\ desk[d].tenant = t}

LimitLeft ==
    /\ \A d \in Desks : desk[d].at \in {"limit", "save"} => desk[d].op = "create"
    /\ \A t \in Landlords : Cardinality(Created(t)) + Cardinality(Saving(t)) < MaxInstancesPerTenant + Cardinality(Desks)

\* A token that made a node, or is about to, is used and makes no other.
TokensSpent ==
    /\ \A n \in selfNodes : regTokens[n.by] = "used" /\ n.by \in RegTokens
    /\ \A a \in Agents : agent[a].at # "idle" => agent[a].token \in RegTokens
    /\ \A a \in Agents : agent[a].at = "insert" =>
         /\ regTokens[agent[a].token] = "used"
         /\ \A n \in selfNodes : n.by # agent[a].token
         /\ \A b \in Agents \ {a} : ~(agent[b].at = "insert" /\ agent[b].token = agent[a].token)
    /\ OneNodePerToken

NodeTypes ==
    /\ regTokens \in [RegTokens -> {"none", "fresh", "expired", "purged", "used"}]
    /\ agent \in [Agents -> [at : {"idle", "consume", "insert"}, token : RegTokens \cup {"none"}]]
    /\ selfNodes \subseteq [by : RegTokens, nth : Nat, host : Agents] /\ IsFiniteSet(selfNodes)

NodesInv == NodeTypes /\ TokensSpent
InstancesInv == ProvisioningTypes /\ IdsOnce /\ NamesAgree /\ RoutesFollow /\ LimitLeft

\* No desk has begun.
LEMMA NodesInitInv == ProvisioningInit => NodesInv
  BY FS_EmptySet DEF ProvisioningInit, NodesInv, NodeTypes, TokensSpent, OneNodePerToken, NoCall

\* Every step of the nodes' side keeps the tokens spent once.
LEMMA NodesStepInv ==
    ASSUME NodesInv, NodeSide \/ (\E a \in Agents : agentFails(a)) \/ UNCHANGED nodeState
    PROVE  NodesInv'
  <1>1. CASE UNCHANGED nodeState
    BY <1>1 DEF nodeState, NodesInv, NodeTypes, TokensSpent, OneNodePerToken
  <1>2. ASSUME NEW k \in RegTokens, createToken(k) \/ expireToken(k) PROVE NodesInv'
    BY <1>2 DEF createToken, expireToken, NodesInv, NodeTypes, TokensSpent, OneNodePerToken
  <1>3. CASE purgeExpired
    BY <1>3 DEF purgeExpired, NodesInv, NodeTypes, TokensSpent, OneNodePerToken
  <1>4. ASSUME NEW a \in Agents, NEW k \in RegTokens, registerNode(a, k) PROVE NodesInv'
    BY <1>4 DEF registerNode, NodesInv, NodeTypes, TokensSpent, OneNodePerToken
  <1>5. ASSUME NEW a \in Agents, consume(a) PROVE NodesInv'
    BY SMTT(30), <1>5 DEF consume, NodesInv, NodeTypes, TokensSpent, OneNodePerToken, NoCall
  <1>6. ASSUME NEW a \in Agents, registerSelfHosted(a) PROVE NodesInv'
    <2>. DEFINE n == [by |-> agent[a].token, nth |-> Cardinality(selfNodes), host |-> a]
    <2>1. n \in [by : RegTokens, nth : Nat, host : Agents] /\ n.by = agent[a].token
      BY <1>6, FS_CardinalityType DEF registerSelfHosted, NodesInv, NodeTypes, TokensSpent
    <2>2. selfNodes' = selfNodes \cup {n} /\ agent' = [agent EXCEPT ![a] = NoCall] /\ regTokens' = regTokens
          /\ agent[a].at = "insert"
      BY <1>6 DEF registerSelfHosted
    <2>. HIDE DEF n
    <2>3. NodeTypes'
      BY <2>1, <2>2, FS_AddElement DEF NodesInv, NodeTypes, NoCall
    <2>4. TokensSpent'
      BY <2>1, <2>2 DEF NodesInv, NodeTypes, TokensSpent, OneNodePerToken, NoCall
    <2>. QED
      BY <2>3, <2>4 DEF NodesInv
  <1>7. ASSUME NEW a \in Agents, NEW n \in selfNodes, getBySecret(n, a) PROVE NodesInv'
    <2>. DEFINE m == [n EXCEPT !.host = a]
    <2>1. m \in [by : RegTokens, nth : Nat, host : Agents] /\ m.by = n.by
      BY DEF NodesInv, NodeTypes
    <2>2. selfNodes' = (selfNodes \ {n}) \cup {m} /\ UNCHANGED <<regTokens, agent>>
      BY <1>7 DEF getBySecret
    <2>. HIDE DEF m
    <2>3. IsFiniteSet(selfNodes')
      BY <2>2, FS_RemoveElement, FS_AddElement DEF NodesInv, NodeTypes
    <2>4. NodeTypes'
      BY <2>1, <2>2, <2>3 DEF NodesInv, NodeTypes
    <2>5. TokensSpent'
      BY <2>1, <2>2 DEF NodesInv, NodeTypes, TokensSpent, OneNodePerToken
    <2>. QED
      BY <2>4, <2>5 DEF NodesInv
  <1>8. ASSUME NEW a \in Agents, agentFails(a) PROVE NodesInv'
    BY <1>8 DEF agentFails, NodesInv, NodeTypes, TokensSpent, OneNodePerToken, NoCall
  <1>. QED
    BY <1>1, <1>2, <1>3, <1>4, <1>5, <1>6, <1>7, <1>8 DEF NodeSide

\* Nothing is made at the start.
LEMMA InstancesInitInv == ProvisioningInit => InstancesInv
  <1>. SUFFICES ASSUME ProvisioningInit PROVE InstancesInv
    OBVIOUS
  <1>1. FreeDesk \in DeskRows /\ FreeDesk.at = "idle" /\ FreeDesk.id = 0
    BY DEF FreeDesk, DeskRows, Stations, Operations
  <1>2. desk = [d \in Desks |-> FreeDesk] /\ profiles = {} /\ boxes = {} /\ routes = {} /\ made = 0 /\ site \in Sites
    BY DEF ProvisioningInit
  <1>. HIDE DEF FreeDesk
  <1>3. ProvisioningTypes /\ IdsOnce /\ NamesAgree /\ RoutesFollow
    BY <1>1, <1>2, FS_EmptySet DEF ProvisioningTypes, IdsOnce, NamesAgree, RoutesFollow, RoutedIsKept, Busy
  <1>4. \A t : Created(t) = {} /\ Saving(t) = {}
    BY <1>1, <1>2 DEF Created, Saving
  <1>5. Cardinality(Desks) \in Nat /\ Cardinality(Desks) # 0 /\ MaxInstancesPerTenant \in Nat
    BY ProvisioningAssumption, FS_EmptySet, FS_CardinalityType
  <1>6. LimitLeft
    <2>1. \A t : Cardinality(Created(t)) = 0 /\ Cardinality(Saving(t)) = 0
      BY <1>4, FS_EmptySet
    <2>2. \A t \in Landlords : Cardinality(Created(t)) + Cardinality(Saving(t)) < MaxInstancesPerTenant + Cardinality(Desks)
      BY <2>1, <1>5
    <2>. QED
      BY <1>1, <1>2, <2>2 DEF LimitLeft
  <1>. QED
    BY <1>3, <1>6 DEF InstancesInv

\* A step after which a tenant has no more instances and no more calls about
\* to save one keeps the limit.
LEMMA LimitKept ==
    ASSUME InstancesInv, ProvisioningTypes',
           \A d \in Desks : desk'[d].at \in {"limit", "save"} => desk'[d].op = "create",
           \A t \in Landlords : Created(t)' \subseteq Created(t) /\ Saving(t)' \subseteq Saving(t)
    PROVE  LimitLeft'
  <1>1. ASSUME NEW t \in Landlords
        PROVE  /\ IsFiniteSet(Created(t)) /\ IsFiniteSet(Saving(t))
               /\ Cardinality(Created(t)') <= Cardinality(Created(t)) /\ Cardinality(Saving(t)') <= Cardinality(Saving(t))
               /\ Cardinality(Created(t)') \in Nat /\ Cardinality(Saving(t)') \in Nat
               /\ Cardinality(Created(t)) \in Nat /\ Cardinality(Saving(t)) \in Nat
    <2>1. IsFiniteSet(Created(t)) /\ IsFiniteSet(Saving(t))
      <3>1. Created(t) \subseteq profiles /\ IsFiniteSet(profiles) /\ Saving(t) \subseteq Desks
        BY DEF Created, Saving, InstancesInv, ProvisioningTypes
      <3>. QED
        BY <3>1, FS_Subset, ProvisioningAssumption
    <2>2. Created(t)' \subseteq Created(t) /\ Saving(t)' \subseteq Saving(t)
      OBVIOUS
    <2>3. IsFiniteSet(Created(t)') /\ IsFiniteSet(Saving(t)')
      BY <2>1, <2>2, FS_Subset
    <2>. QED
      BY <2>1, <2>2, <2>3, FS_Subset, FS_CardinalityType
  <1>2. Cardinality(Desks) \in Nat /\ MaxInstancesPerTenant \in Nat
    BY ProvisioningAssumption, FS_CardinalityType
  <1>3. ASSUME NEW t \in Landlords
        PROVE  Cardinality(Created(t)') + Cardinality(Saving(t)') < MaxInstancesPerTenant + Cardinality(Desks)
    <2>1. Cardinality(Created(t)) + Cardinality(Saving(t)) < MaxInstancesPerTenant + Cardinality(Desks)
      BY DEF InstancesInv, LimitLeft
    <2>. QED
      BY <2>1, <1>1, <1>2
  <1>. QED
    BY <1>3 DEF LimitLeft

\* The webhook takes a call.
LEMMA TakesCreate ==
    ASSUME InstancesInv, site' = site, NEW d \in Desks, NEW t \in site.tenants, NEW s \in site.subs,
           provisionCreate(d, t, s)
    PROVE  InstancesInv'
  <1>. DEFINE place == [at |-> "limit", op |-> "create", tenant |-> t, sub |-> s, id |-> 0]
  <1>1. place \in DeskRows /\ place.at = "limit" /\ place.id = 0 /\ place.op = "create"
    BY ProvisioningAssumption DEF DeskRows, Stations, Operations, InstancesInv, ProvisioningTypes
  <1>2. /\ desk' = [desk EXCEPT ![d] = place] /\ desk[d].at = "idle"
        /\ UNCHANGED <<profiles, boxes, routes, made>>
    BY DEF provisionCreate
  <1>. HIDE DEF place
  <1>3. ProvisioningTypes'
    BY <1>1, <1>2 DEF InstancesInv, ProvisioningTypes, BoxRows, RouteRows
  <1>4. IdsOnce' /\ NamesAgree' /\ RoutesFollow'
    <2>1. desk[d].id = 0
      BY <1>2 DEF InstancesInv, IdsOnce, Busy
    <2>2. \A c \in Desks : c # d => desk'[c] = desk[c]
      BY <1>2 DEF InstancesInv, ProvisioningTypes
    <2>3. desk'[d] = place
      BY <1>2 DEF InstancesInv, ProvisioningTypes
    <2>. QED
      BY <1>1, <1>2, <2>1, <2>2, <2>3 DEF InstancesInv, ProvisioningTypes, IdsOnce, NamesAgree, RoutesFollow, RoutedIsKept, Busy
  <1>5. \A q : Created(q)' \subseteq Created(q) /\ Saving(q)' \subseteq Saving(q)
    BY <1>1, <1>2 DEF Created, Saving, InstancesInv, ProvisioningTypes
  <1>6. LimitLeft'
    BY <1>1, <1>2, <1>3, <1>5, LimitKept DEF InstancesInv, LimitLeft, ProvisioningTypes
  <1>. QED
    BY <1>3, <1>4, <1>6 DEF InstancesInv

\* A desk that is done is free.
LEMMA FreeDeskRow == FreeDesk \in DeskRows /\ FreeDesk.at = "idle" /\ FreeDesk.id = 0 /\ FreeDesk.op = "none"
  BY DEF FreeDesk, DeskRows, Stations, Operations

\* What a step on one desk leaves of the others, for any new row.
LEMMA OneDesk ==
    ASSUME desk \in [Desks -> DeskRows], NEW d \in Desks, NEW place \in DeskRows, desk' = [desk EXCEPT ![d] = place]
    PROVE  /\ desk' \in [Desks -> DeskRows] /\ desk'[d] = place
           /\ \A c \in Desks \ {d} : desk'[c] = desk[c]
  OBVIOUS

\* The count is taken: a call goes on only below the limit.
LEMMA TakesLimit ==
    ASSUME InstancesInv, site' = site, NEW d \in Desks, limitGate(d)
    PROVE  InstancesInv'
  <1>. DEFINE old == desk[d]
  <1>. DEFINE place == IF LimitReached(desk[d].tenant) THEN FreeDesk ELSE [old EXCEPT !.at = "save"]
  <1>1. old \in DeskRows /\ old.at = "limit" /\ old.id = 0 /\ old.op = "create" /\ old = desk[d]
    BY DEF limitGate, InstancesInv, ProvisioningTypes, IdsOnce, LimitLeft, Busy
  <1>2. /\ desk' = [desk EXCEPT ![d] = place]
        /\ UNCHANGED <<profiles, boxes, routes, made>>
    BY DEF limitGate, DeskEnds, DeskGoes
  <1>. HIDE DEF old
  <1>3. /\ place \in DeskRows /\ place.id = 0
        /\ place.at = "idle" \/ (place.at = "save" /\ place.op = "create" /\ place.tenant = old.tenant /\ ~LimitReached(old.tenant))
    BY <1>1, FreeDeskRow DEF DeskRows, Stations
  <1>. HIDE DEF place
  <1>4. desk' \in [Desks -> DeskRows] /\ desk'[d] = place /\ \A c \in Desks \ {d} : desk'[c] = desk[c]
    BY <1>2, <1>3, OneDesk DEF InstancesInv, ProvisioningTypes
  <1>5. ProvisioningTypes'
    BY <1>2, <1>4 DEF InstancesInv, ProvisioningTypes, BoxRows, RouteRows
  <1>6. IdsOnce' /\ NamesAgree' /\ RoutesFollow'
    BY <1>1, <1>2, <1>3, <1>4 DEF InstancesInv, ProvisioningTypes, IdsOnce, NamesAgree, RoutesFollow, RoutedIsKept, Busy
  <1>7. \A c \in Desks : desk'[c].at \in {"limit", "save"} => desk'[c].op = "create"
    BY <1>1, <1>3, <1>4 DEF InstancesInv, LimitLeft
  <1>8. ASSUME NEW t \in Landlords
        PROVE  Cardinality(Created(t)') + Cardinality(Saving(t)') < MaxInstancesPerTenant + Cardinality(Desks)
    <2>1. Created(t)' = Created(t)
      BY <1>2 DEF Created
    <2>2. CASE place.at = "save" /\ place.tenant = t
      <3>1. Cardinality(Created(t)) <= Cardinality({p \in profiles : p.tenant = t})
            /\ Cardinality(Created(t)) \in Nat /\ Cardinality({p \in profiles : p.tenant = t}) \in Nat
        <4>1. IsFiniteSet({p \in profiles : p.tenant = t}) /\ Created(t) \subseteq {p \in profiles : p.tenant = t}
          BY FS_Subset DEF Created, InstancesInv, ProvisioningTypes
        <4>2. IsFiniteSet(Created(t))
          BY <4>1, FS_Subset
        <4>. QED
          BY <4>1, <4>2, FS_Subset, FS_CardinalityType
      <3>2. ~(Cardinality({p \in profiles : p.tenant = t}) >= MaxInstancesPerTenant)
        BY <1>3, <2>2 DEF LimitReached
      <3>3. Saving(t)' \subseteq Desks
        BY DEF Saving
      <3>4. Cardinality(Saving(t)') <= Cardinality(Desks) /\ Cardinality(Saving(t)') \in Nat /\ Cardinality(Desks) \in Nat
        BY <3>3, FS_Subset, FS_CardinalityType, ProvisioningAssumption
      <3>. QED
        BY <3>1, <3>2, <3>4, <2>1, ProvisioningAssumption
    <2>3. CASE ~(place.at = "save" /\ place.tenant = t)
      <3>1. Saving(t)' \subseteq Saving(t)
        BY <2>3, <1>4 DEF Saving
      <3>2. IsFiniteSet(Saving(t)) /\ IsFiniteSet(Created(t))
        <4>1. Created(t) \subseteq profiles /\ IsFiniteSet(profiles) /\ Saving(t) \subseteq Desks
          BY DEF Created, Saving, InstancesInv, ProvisioningTypes
        <4>. QED
          BY <4>1, FS_Subset, ProvisioningAssumption
      <3>3. /\ Cardinality(Saving(t)') <= Cardinality(Saving(t)) /\ Cardinality(Saving(t)') \in Nat
            /\ Cardinality(Saving(t)) \in Nat /\ Cardinality(Created(t)) \in Nat /\ Cardinality(Desks) \in Nat
        BY <3>1, <3>2, FS_Subset, FS_CardinalityType, ProvisioningAssumption
      <3>4. Cardinality(Created(t)) + Cardinality(Saving(t)) < MaxInstancesPerTenant + Cardinality(Desks)
        BY DEF InstancesInv, LimitLeft
      <3>. QED
        BY <3>3, <3>4, <2>1, ProvisioningAssumption
    <2>. QED
      BY <2>2, <2>3
  <1>9. LimitLeft'
    BY <1>7, <1>8 DEF LimitLeft
  <1>. QED
    BY <1>5, <1>6, <1>9 DEF InstancesInv

\* The profile is saved: one instance more, and one call fewer about to save.
LEMMA TakesSave ==
    ASSUME InstancesInv, site' = site, NEW d \in Desks, saveProfile(d)
    PROVE  InstancesInv'
  <1>. DEFINE old == desk[d]
  <1>. DEFINE place == [old EXCEPT !.at = "container", !.id = made + 1]
  <1>. DEFINE new == [id |-> made + 1, tenant |-> old.tenant, sub |-> old.sub, made |-> old.op]
  <1>1. old \in DeskRows /\ old.at = "save" /\ old.op = "create" /\ old = desk[d] /\ made \in Nat
    BY DEF saveProfile, InstancesInv, ProvisioningTypes, LimitLeft
  <1>2. /\ desk' = [desk EXCEPT ![d] = place] /\ profiles' = profiles \cup {new} /\ made' = made + 1
        /\ UNCHANGED <<boxes, routes>>
    BY DEF saveProfile
  <1>. HIDE DEF old
  <1>3. /\ place \in DeskRows /\ place.id = made + 1 /\ place.at = "container" /\ place.sub = old.sub
        /\ new \in ProfileRows /\ new.id = made + 1 /\ new.tenant = old.tenant /\ new.sub = old.sub /\ new.made = "create"
    <2>1. place \in DeskRows /\ place.id = made + 1 /\ place.at = "container" /\ place.sub = old.sub
      <3>. DEFINE next == made + 1
      <3>1. next \in Nat /\ "container" \in Stations /\ place = [old EXCEPT !.at = "container", !.id = next]
        BY <1>1 DEF Stations, Busy
      <3>. HIDE DEF next, place
      <3>2. place \in DeskRows /\ place.id = next /\ place.at = "container" /\ place.sub = old.sub
        BY <1>1, <3>1 DEF DeskRows
      <3>. QED
        BY <3>2 DEF next
    <2>2. old.tenant \in Landlords \cup {"none"} /\ old.sub \in Subdomains \cup {"none"} /\ old.op \in Operations
      BY <1>1 DEF DeskRows
    <2>3. new \in ProfileRows
      BY <1>1, <2>2 DEF ProfileRows
    <2>. QED
      BY <1>1, <2>1, <2>3
  <1>. HIDE DEF place, new
  <1>4. desk' \in [Desks -> DeskRows] /\ desk'[d] = place /\ \A c \in Desks \ {d} : desk'[c] = desk[c]
    BY <1>2, <1>3, OneDesk DEF InstancesInv, ProvisioningTypes
  <1>5. ProvisioningTypes'
    BY <1>1, <1>2, <1>3, <1>4, FS_AddElement DEF InstancesInv, ProvisioningTypes, BoxRows, RouteRows
  <1>6. IdsOnce'
    BY <1>1, <1>2, <1>3, <1>4 DEF InstancesInv, ProvisioningTypes, IdsOnce, Busy
  <1>7. NamesAgree'
    <2>1. \A p \in profiles : p.id # made + 1
      BY <1>1 DEF InstancesInv, IdsOnce
    <2>2. \A b \in boxes : b.id # made + 1
      BY <1>1 DEF InstancesInv, IdsOnce
    <2>3. \A c \in Desks : desk[c].id # made + 1
      BY <1>1 DEF InstancesInv, IdsOnce
    <2>. QED
      BY <1>2, <1>3, <1>4, <2>1, <2>2, <2>3 DEF InstancesInv, NamesAgree
  <1>8. RoutesFollow'
    <2>1. \A r \in routes : r.id # made + 1
      BY <1>1 DEF InstancesInv, IdsOnce
    <2>2. desk[d].id = 0 /\ \A r \in routes : r.id # 0
      BY <1>1 DEF InstancesInv, IdsOnce, Busy
    <2>. QED
      BY <1>2, <1>3, <1>4, <2>1, <2>2 DEF InstancesInv, RoutesFollow, RoutedIsKept
  <1>9. \A c \in Desks : desk'[c].at \in {"limit", "save"} => desk'[c].op = "create"
    BY <1>3, <1>4 DEF InstancesInv, LimitLeft
  <1>10. ASSUME NEW t \in Landlords
         PROVE  Cardinality(Created(t)') + Cardinality(Saving(t)') < MaxInstancesPerTenant + Cardinality(Desks)
    <2>1. /\ IsFiniteSet(Created(t)) /\ IsFiniteSet(Saving(t))
          /\ Cardinality(Created(t)) \in Nat /\ Cardinality(Saving(t)) \in Nat /\ Cardinality(Desks) \in Nat
      <3>1. Created(t) \subseteq profiles /\ IsFiniteSet(profiles) /\ Saving(t) \subseteq Desks
        BY DEF Created, Saving, InstancesInv, ProvisioningTypes
      <3>. QED
        BY <3>1, FS_Subset, FS_CardinalityType, ProvisioningAssumption
    <2>2. CASE old.tenant = t
      <3>1. Saving(t)' = Saving(t) \ {d} /\ d \in Saving(t)
        BY <1>1, <1>3, <1>4, <2>2 DEF Saving
      <3>2. Created(t)' = Created(t) \cup {new}
        BY <1>2, <1>3, <2>2 DEF Created
      <3>3. Cardinality(Saving(t)') = Cardinality(Saving(t)) - 1
        BY <3>1, <2>1, FS_RemoveElement
      <3>4. Cardinality(Created(t)') <= Cardinality(Created(t)) + 1 /\ Cardinality(Created(t)') \in Nat
        <4>1. IsFiniteSet(Created(t)') /\ Cardinality(Created(t)') = IF new \in Created(t) THEN Cardinality(Created(t)) ELSE Cardinality(Created(t)) + 1
          BY <3>2, <2>1, FS_AddElement
        <4>. QED
          BY <4>1, <2>1
      <3>5. Cardinality(Created(t)) + Cardinality(Saving(t)) < MaxInstancesPerTenant + Cardinality(Desks)
        BY DEF InstancesInv, LimitLeft
      <3>. QED
        BY <3>3, <3>4, <3>5, <2>1, ProvisioningAssumption
    <2>3. CASE old.tenant # t
      <3>1. Saving(t)' = Saving(t)
        BY <1>1, <1>3, <1>4, <2>3 DEF Saving
      <3>2. Created(t)' = Created(t)
        BY <1>2, <1>3, <2>3 DEF Created
      <3>. QED
        BY <3>1, <3>2 DEF InstancesInv, LimitLeft
    <2>. QED
      BY <2>2, <2>3
  <1>11. LimitLeft'
    BY <1>9, <1>10 DEF LimitLeft
  <1>. QED
    BY <1>5, <1>6, <1>7, <1>8, <1>11 DEF InstancesInv

\* What a call that waits at its next await keeps.
LEMMA GoingDesk ==
    ASSUME desk \in [Desks -> DeskRows], NEW d \in Desks, NEW from, NEW to \in Stations, DeskGoes(d, from, to)
    PROVE  /\ desk' \in [Desks -> DeskRows] /\ desk[d].at = from /\ desk'[d].at = to
           /\ desk'[d].op = desk[d].op /\ desk'[d].tenant = desk[d].tenant
           /\ desk'[d].sub = desk[d].sub /\ desk'[d].id = desk[d].id
           /\ \A c \in Desks \ {d} : desk'[c] = desk[c]
  <1>. DEFINE old == desk[d]
  <1>. DEFINE place == [old EXCEPT !.at = to]
  <1>1. old \in DeskRows /\ old = desk[d] /\ desk' = [desk EXCEPT ![d] = place] /\ old.at = from
    BY DEF DeskGoes
  <1>. HIDE DEF old
  <1>2. /\ place \in DeskRows /\ place.at = to /\ place.op = old.op /\ place.tenant = old.tenant
        /\ place.sub = old.sub /\ place.id = old.id
    BY <1>1 DEF DeskRows
  <1>. HIDE DEF place
  <1>. QED
    BY <1>1, <1>2, OneDesk

\* What a call that ends leaves.
LEMMA EndingDesk ==
    ASSUME desk \in [Desks -> DeskRows], NEW d \in Desks, DeskEnds(d)
    PROVE  /\ desk' \in [Desks -> DeskRows] /\ desk'[d].at = "idle" /\ desk'[d].id = 0 /\ desk'[d].op = "none"
           /\ \A c \in Desks \ {d} : desk'[c] = desk[c]
  BY FreeDeskRow, OneDesk DEF DeskEnds

\* The container is made, or its name is taken and the profile goes.
LEMMA TakesContainer ==
    ASSUME InstancesInv, site' = site, NEW d \in Desks, createContainer(d)
    PROVE  InstancesInv'
  <1>0. desk \in [Desks -> DeskRows] /\ desk[d].at = "container" /\ UNCHANGED <<routes, made>>
        /\ IsFiniteSet(profiles)
    BY DEF createContainer, InstancesInv, ProvisioningTypes
  <1>1. CASE Named("wopr", desk[d].sub) = {}
    <2>. DEFINE new == [prefix |-> "wopr", sub |-> desk[d].sub, id |-> desk[d].id]
    <2>1. DeskGoes(d, "container", "route") /\ UNCHANGED profiles /\ boxes' = boxes \cup {new}
      BY <1>1, <1>0 DEF createContainer, DeskGoes
    <2>2. new \in BoxRows /\ new.prefix = "wopr" /\ new.sub = desk[d].sub /\ new.id = desk[d].id
      BY <1>0 DEF BoxRows, DeskRows
    <2>. HIDE DEF new
    <2>3. "route" \in Stations
      BY DEF Stations, Busy
    <2>4. /\ desk' \in [Desks -> DeskRows] /\ desk'[d].at = "route"
          /\ desk'[d].op = desk[d].op /\ desk'[d].tenant = desk[d].tenant
          /\ desk'[d].sub = desk[d].sub /\ desk'[d].id = desk[d].id
          /\ \A c \in Desks \ {d} : desk'[c] = desk[c]
      BY <1>0, <2>1, <2>3, GoingDesk
    <2>5. ProvisioningTypes'
      BY <1>0, <2>1, <2>2, <2>4 DEF InstancesInv, ProvisioningTypes, BoxRows, RouteRows
    <2>6. IdsOnce'
      BY <1>0, <2>1, <2>2, <2>4 DEF InstancesInv, IdsOnce, Busy
    <2>7. NamesAgree'
      <3>1. \A c \in Desks : desk[c].id = desk[d].id => c = d
        BY <1>0 DEF InstancesInv, IdsOnce, Busy
      <3>2. \A b \in boxes : ~(b.prefix = "wopr" /\ b.sub = desk[d].sub)
        BY <1>1 DEF Named
      <3>. QED
        BY <2>1, <2>2, <2>4, <3>1, <3>2 DEF InstancesInv, NamesAgree
    <2>8. RoutesFollow'
      BY <1>0, <2>1, <2>4 DEF InstancesInv, RoutesFollow, RoutedIsKept
    <2>9. \A c \in Desks : desk'[c].at \in {"limit", "save"} => desk'[c].op = "create"
      BY <2>4 DEF InstancesInv, LimitLeft
    <2>10. \A t : Created(t)' \subseteq Created(t) /\ Saving(t)' \subseteq Saving(t)
      BY <2>1, <2>4 DEF Created, Saving
    <2>. QED
      BY <2>5, <2>6, <2>7, <2>8, <2>9, <2>10, LimitKept DEF InstancesInv
  <1>2. CASE Named("wopr", desk[d].sub) # {}
    <2>1. DeskEnds(d) /\ UNCHANGED boxes /\ profiles' = {p \in profiles : p.id # desk[d].id}
      BY <1>2 DEF createContainer
    <2>2. /\ desk' \in [Desks -> DeskRows] /\ desk'[d].at = "idle" /\ desk'[d].id = 0 /\ desk'[d].op = "none"
          /\ \A c \in Desks \ {d} : desk'[c] = desk[c]
      BY <1>0, <2>1, EndingDesk
    <2>3. profiles' \subseteq profiles /\ IsFiniteSet(profiles')
      BY <1>0, <2>1, FS_Subset
    <2>5. ProvisioningTypes'
      BY <1>0, <2>1, <2>2, <2>3 DEF InstancesInv, ProvisioningTypes, BoxRows, RouteRows
    <2>6. IdsOnce'
      BY <1>0, <2>1, <2>2, <2>3 DEF InstancesInv, IdsOnce, Busy
    <2>7. NamesAgree'
      <3>1. (\A p \in profiles : p.id # 0) /\ (\A b \in boxes : b.id # 0)
        BY DEF InstancesInv, ProvisioningTypes, IdsOnce
      <3>. QED
        BY <2>1, <2>2, <2>3, <3>1 DEF InstancesInv, NamesAgree
    <2>8. RoutesFollow'
      <3>1. \A c \in Desks : desk[c].id = desk[d].id => c = d
        BY <1>0 DEF InstancesInv, IdsOnce, Busy
      <3>2. \A r \in routes : r.id # desk[d].id
        BY <1>0 DEF InstancesInv, RoutesFollow
      <3>. QED
        BY <1>0, <2>1, <2>2, <3>1, <3>2 DEF InstancesInv, RoutesFollow, RoutedIsKept
    <2>9. \A c \in Desks : desk'[c].at \in {"limit", "save"} => desk'[c].op = "create"
      BY <2>2 DEF InstancesInv, LimitLeft
    <2>10. \A t : Created(t)' \subseteq Created(t) /\ Saving(t)' \subseteq Saving(t)
      BY <2>2, <2>3 DEF Created, Saving
    <2>. QED
      BY <2>5, <2>6, <2>7, <2>8, <2>9, <2>10, LimitKept DEF InstancesInv
  <1>. QED
    BY <1>1, <1>2

\* The route is added, or the host is refused.
LEMMA TakesRoute ==
    ASSUME InstancesInv, site' = site, NEW d \in Desks, addRoute(d)
    PROVE  InstancesInv'
  <1>. DEFINE new == [id |-> desk[d].id, sub |-> desk[d].sub, prefix |-> site.prefix, healthy |-> TRUE]
  <1>0. desk \in [Desks -> DeskRows] /\ desk[d].at = "route" /\ UNCHANGED <<profiles, boxes, made>> /\ DeskEnds(d)
        /\ routes' \subseteq routes \cup {new}
    BY DEF addRoute, InstancesInv, ProvisioningTypes
  <1>1. new \in RouteRows /\ new.id = desk[d].id
    BY <1>0 DEF RouteRows, DeskRows
  <1>. HIDE DEF new
  <1>2. /\ desk' \in [Desks -> DeskRows] /\ desk'[d].at = "idle" /\ desk'[d].id = 0 /\ desk'[d].op = "none"
        /\ \A c \in Desks \ {d} : desk'[c] = desk[c]
    BY <1>0, EndingDesk
  <1>3. ProvisioningTypes'
    BY <1>0, <1>1, <1>2 DEF InstancesInv, ProvisioningTypes, BoxRows, RouteRows
  <1>4. IdsOnce'
    BY <1>0, <1>1, <1>2 DEF InstancesInv, IdsOnce, Busy
  <1>5. NamesAgree'
    <2>1. (\A p \in profiles : p.id # 0) /\ (\A b \in boxes : b.id # 0)
      BY DEF InstancesInv, ProvisioningTypes, IdsOnce
    <2>. QED
      BY <1>0, <1>2, <2>1 DEF InstancesInv, NamesAgree
  <1>6. RoutesFollow'
    <2>1. \A c \in Desks : desk[c].id = desk[d].id => c = d
      BY <1>0 DEF InstancesInv, IdsOnce, Busy
    <2>2. \E p \in profiles : p.id = desk[d].id
      BY <1>0 DEF InstancesInv, RoutesFollow
    <2>. QED
      BY <1>0, <1>1, <1>2, <2>1, <2>2 DEF InstancesInv, RoutesFollow, RoutedIsKept
  <1>7. \A c \in Desks : desk'[c].at \in {"limit", "save"} => desk'[c].op = "create"
    BY <1>2 DEF InstancesInv, LimitLeft
  <1>8. \A t : Created(t)' \subseteq Created(t) /\ Saving(t)' \subseteq Saving(t)
    BY <1>0, <1>2 DEF Created, Saving
  <1>. QED
    BY <1>3, <1>4, <1>5, <1>6, <1>7, <1>8, LimitKept DEF InstancesInv

\* A pool container is renamed to the subdomain.
LEMMA TakesClaim ==
    ASSUME InstancesInv, site' = site, NEW d \in Desks, NEW t \in site.tenants, NEW s \in site.subs,
           claimPoolInstance(d, t, s)
    PROVE  InstancesInv'
  <1>. DEFINE place == [at |-> "key", op |-> "claim", tenant |-> t, sub |-> s, id |-> made + 1]
  <1>. DEFINE new == [prefix |-> site.prefix, sub |-> s, id |-> made + 1]
  <1>0. desk \in [Desks -> DeskRows] /\ desk[d].at = "idle" /\ UNCHANGED <<profiles, routes>> /\ made' = made + 1
        /\ made \in Nat /\ Named(site.prefix, s) = {} /\ t \in Landlords /\ s \in Subdomains
        /\ desk' = [desk EXCEPT ![d] = place] /\ boxes' = boxes \cup {new}
    BY ProvisioningAssumption DEF claimPoolInstance, InstancesInv, ProvisioningTypes
  <1>1. /\ place \in DeskRows /\ place.at = "key" /\ place.sub = s /\ place.id = made + 1
        /\ new \in BoxRows /\ new.sub = s /\ new.id = made + 1 /\ new.prefix = site.prefix
    BY <1>0 DEF BoxRows, DeskRows, Stations, Busy, Operations
  <1>. HIDE DEF new, place
  <1>2. /\ desk' \in [Desks -> DeskRows] /\ desk'[d] = place
        /\ \A c \in Desks \ {d} : desk'[c] = desk[c]
    BY <1>0, <1>1, OneDesk
  <1>3. ProvisioningTypes'
    BY <1>0, <1>1, <1>2 DEF InstancesInv, ProvisioningTypes, BoxRows, RouteRows, ProfileRows
  <1>4. IdsOnce'
    BY <1>0, <1>1, <1>2 DEF InstancesInv, IdsOnce, Busy
  <1>5. NamesAgree'
    <2>1. \A p \in profiles : p.id # made + 1
      BY <1>0 DEF InstancesInv, IdsOnce
    <2>2. \A b \in boxes : b.id # made + 1
      BY <1>0 DEF InstancesInv, IdsOnce
    <2>3. \A c \in Desks : desk[c].id # made + 1
      BY <1>0 DEF InstancesInv, IdsOnce
    <2>4. \A b \in boxes : ~(b.prefix = site.prefix /\ b.sub = s)
      BY <1>0 DEF Named
    <2>. QED
      BY <1>0, <1>1, <1>2, <2>1, <2>2, <2>3, <2>4 DEF InstancesInv, NamesAgree
  <1>6. RoutesFollow'
    <2>1. \A r \in routes : r.id # made + 1 /\ r.id # 0
      BY <1>0 DEF InstancesInv, IdsOnce
    <2>2. desk[d].id = 0
      BY <1>0 DEF InstancesInv, IdsOnce, Busy
    <2>. QED
      BY <1>0, <1>1, <1>2, <2>1, <2>2 DEF InstancesInv, RoutesFollow, RoutedIsKept
  <1>7. \A c \in Desks : desk'[c].at \in {"limit", "save"} => desk'[c].op = "create"
    BY <1>1, <1>2 DEF InstancesInv, LimitLeft
  <1>8. \A q : Created(q)' \subseteq Created(q) /\ Saving(q)' \subseteq Saving(q)
    BY <1>0, <1>1, <1>2 DEF Created, Saving
  <1>. QED
    BY <1>3, <1>4, <1>5, <1>6, <1>7, <1>8, LimitKept DEF InstancesInv

\* The claimed container's key is made.
LEMMA TakesKey ==
    ASSUME InstancesInv, site' = site, NEW d \in Desks, generate(d)
    PROVE  InstancesInv'
  <1>0. desk \in [Desks -> DeskRows] /\ DeskGoes(d, "key", "claimSave") /\ UNCHANGED <<profiles, boxes, routes, made>>
    BY DEF generate, InstancesInv, ProvisioningTypes
  <1>1. "claimSave" \in Stations
    BY DEF Stations, Busy
  <1>2. /\ desk' \in [Desks -> DeskRows] /\ desk[d].at = "key" /\ desk'[d].at = "claimSave"
        /\ desk'[d].op = desk[d].op /\ desk'[d].tenant = desk[d].tenant
        /\ desk'[d].sub = desk[d].sub /\ desk'[d].id = desk[d].id
        /\ \A c \in Desks \ {d} : desk'[c] = desk[c]
    BY <1>0, <1>1, GoingDesk
  <1>3. ProvisioningTypes'
    BY <1>0, <1>2 DEF InstancesInv, ProvisioningTypes, BoxRows, RouteRows
  <1>4. IdsOnce' /\ NamesAgree'
    BY <1>0, <1>2 DEF InstancesInv, IdsOnce, NamesAgree, Busy
  <1>5. RoutesFollow'
    BY <1>0, <1>2 DEF InstancesInv, RoutesFollow, RoutedIsKept
  <1>6. \A c \in Desks : desk'[c].at \in {"limit", "save"} => desk'[c].op = "create"
    BY <1>2 DEF InstancesInv, LimitLeft
  <1>7. \A q : Created(q)' \subseteq Created(q) /\ Saving(q)' \subseteq Saving(q)
    BY <1>0, <1>2 DEF Created, Saving
  <1>. QED
    BY <1>3, <1>4, <1>5, <1>6, <1>7, LimitKept DEF InstancesInv

\* The claimed container's profile is saved; a claim is not counted.
LEMMA TakesClaimProfile ==
    ASSUME InstancesInv, site' = site, NEW d \in Desks, claimProfile(d)
    PROVE  InstancesInv'
  <1>. DEFINE new == [id |-> desk[d].id, tenant |-> desk[d].tenant, sub |-> desk[d].sub, made |-> "claim"]
  <1>0. desk \in [Desks -> DeskRows] /\ DeskGoes(d, "claimSave", "route") /\ UNCHANGED <<boxes, routes, made>>
        /\ profiles' = profiles \cup {new}
    BY DEF claimProfile, InstancesInv, ProvisioningTypes
  <1>1. new \in ProfileRows /\ new.id = desk[d].id /\ new.sub = desk[d].sub /\ new.made = "claim"
    BY <1>0 DEF DeskRows, ProfileRows, Operations
  <1>. HIDE DEF new
  <1>10. "route" \in Stations
    BY DEF Stations, Busy
  <1>2. /\ desk' \in [Desks -> DeskRows] /\ desk[d].at = "claimSave" /\ desk'[d].at = "route"
        /\ desk'[d].op = desk[d].op /\ desk'[d].tenant = desk[d].tenant
        /\ desk'[d].sub = desk[d].sub /\ desk'[d].id = desk[d].id
        /\ \A c \in Desks \ {d} : desk'[c] = desk[c]
    BY <1>0, <1>10, GoingDesk
  <1>3. ProvisioningTypes'
    BY <1>0, <1>1, <1>2, FS_AddElement DEF InstancesInv, ProvisioningTypes, BoxRows, RouteRows
  <1>4. IdsOnce'
    BY <1>0, <1>1, <1>2 DEF InstancesInv, IdsOnce, Busy
  <1>5. NamesAgree'
    <2>1. \A c \in Desks : desk[c].id = desk[d].id => c = d
      BY <1>2 DEF InstancesInv, IdsOnce, Busy
    <2>. QED
      BY <1>0, <1>1, <1>2, <2>1 DEF InstancesInv, NamesAgree
  <1>6. RoutesFollow'
    BY <1>0, <1>1, <1>2 DEF InstancesInv, RoutesFollow, RoutedIsKept
  <1>7. \A c \in Desks : desk'[c].at \in {"limit", "save"} => desk'[c].op = "create"
    BY <1>2 DEF InstancesInv, LimitLeft
  <1>8. \A q : Created(q)' \subseteq Created(q) /\ Saving(q)' \subseteq Saving(q)
    BY <1>0, <1>1, <1>2 DEF Created, Saving
  <1>. QED
    BY <1>3, <1>4, <1>5, <1>6, <1>7, <1>8, LimitKept DEF InstancesInv

\* A destroy begins; nobody else is at work with the instance.
LEMMA TakesRevoke ==
    ASSUME InstancesInv, site' = site, NEW d \in Desks, NEW p \in profiles, revokeByInstance(d, p)
    PROVE  InstancesInv'
  <1>. DEFINE place == [at |-> "remove", op |-> "destroy", tenant |-> p.tenant, sub |-> p.sub, id |-> p.id]
  <1>0. desk \in [Desks -> DeskRows] /\ desk[d].at = "idle" /\ UNCHANGED <<profiles, boxes, routes, made>>
        /\ desk' = [desk EXCEPT ![d] = place] /\ p \in ProfileRows /\ \A o \in Desks : desk[o].id # p.id
    BY DEF revokeByInstance, InstancesInv, ProvisioningTypes
  <1>1. place \in DeskRows /\ place.at = "remove" /\ place.sub = p.sub /\ place.id = p.id
    BY <1>0 DEF DeskRows, ProfileRows, Stations, Busy, Operations
  <1>. HIDE DEF place
  <1>2. /\ desk' \in [Desks -> DeskRows] /\ desk'[d] = place
        /\ \A c \in Desks \ {d} : desk'[c] = desk[c]
    BY <1>0, <1>1, OneDesk
  <1>3. ProvisioningTypes'
    BY <1>0, <1>2 DEF InstancesInv, ProvisioningTypes, BoxRows, RouteRows
  <1>4. IdsOnce'
    BY <1>0, <1>1, <1>2 DEF InstancesInv, IdsOnce, Busy
  <1>5. NamesAgree'
    <2>1. \A q \in profiles : q.id = p.id => q.sub = p.sub
      BY <1>0 DEF InstancesInv, NamesAgree
    <2>. QED
      BY <1>0, <1>1, <1>2, <2>1 DEF InstancesInv, NamesAgree
  <1>6. RoutesFollow'
    <2>1. desk[d].id = 0 /\ \A r \in routes : r.id # 0
      BY <1>0 DEF InstancesInv, IdsOnce, Busy
    <2>. QED
      BY <1>0, <1>1, <1>2, <2>1 DEF InstancesInv, RoutesFollow, RoutedIsKept
  <1>7. \A c \in Desks : desk'[c].at \in {"limit", "save"} => desk'[c].op = "create"
    BY <1>1, <1>2 DEF InstancesInv, LimitLeft
  <1>8. \A q : Created(q)' \subseteq Created(q) /\ Saving(q)' \subseteq Saving(q)
    BY <1>0, <1>1, <1>2 DEF Created, Saving
  <1>. QED
    BY <1>3, <1>4, <1>5, <1>6, <1>7, <1>8, LimitKept DEF InstancesInv

\* The instance's profile goes, with its container or without.
LEMMA TakesRemove ==
    ASSUME InstancesInv, site' = site, NEW d \in Desks, fleetRemove(d)
    PROVE  InstancesInv'
  <1>0. desk \in [Desks -> DeskRows] /\ DeskGoes(d, "remove", "unroute") /\ UNCHANGED <<routes, made>>
        /\ profiles' = {p \in profiles : p.id # desk[d].id} /\ boxes' \subseteq boxes
        /\ IsFiniteSet(profiles)
    BY DEF fleetRemove, InstancesInv, ProvisioningTypes
  <1>1. "unroute" \in Stations
    BY DEF Stations, Busy
  <1>2. /\ desk' \in [Desks -> DeskRows] /\ desk[d].at = "remove" /\ desk'[d].at = "unroute"
        /\ desk'[d].op = desk[d].op /\ desk'[d].tenant = desk[d].tenant
        /\ desk'[d].sub = desk[d].sub /\ desk'[d].id = desk[d].id
        /\ \A c \in Desks \ {d} : desk'[c] = desk[c]
    BY <1>0, <1>1, GoingDesk
  <1>3. profiles' \subseteq profiles /\ IsFiniteSet(profiles')
    BY <1>0, FS_Subset
  <1>4. ProvisioningTypes'
    BY <1>0, <1>2, <1>3 DEF InstancesInv, ProvisioningTypes, BoxRows, RouteRows
  <1>5. IdsOnce' /\ NamesAgree'
    BY <1>0, <1>2, <1>3 DEF InstancesInv, IdsOnce, NamesAgree, Busy
  <1>6. RoutesFollow'
    <2>1. \A c \in Desks : desk[c].id = desk[d].id => c = d
      BY <1>2 DEF InstancesInv, IdsOnce, Busy
    <2>. QED
      BY <1>0, <1>2, <2>1 DEF InstancesInv, RoutesFollow, RoutedIsKept
  <1>7. \A c \in Desks : desk'[c].at \in {"limit", "save"} => desk'[c].op = "create"
    BY <1>2 DEF InstancesInv, LimitLeft
  <1>8. \A q : Created(q)' \subseteq Created(q) /\ Saving(q)' \subseteq Saving(q)
    BY <1>2, <1>3 DEF Created, Saving
  <1>. QED
    BY <1>4, <1>5, <1>6, <1>7, <1>8, LimitKept DEF InstancesInv

\* The destroyed instance's route goes.
LEMMA TakesUnroute ==
    ASSUME InstancesInv, site' = site, NEW d \in Desks, removeRoute(d)
    PROVE  InstancesInv'
  <1>0. desk \in [Desks -> DeskRows] /\ desk[d].at = "unroute" /\ DeskEnds(d) /\ UNCHANGED <<profiles, boxes, made>>
        /\ routes' = {r \in routes : r.id # desk[d].id}
    BY DEF removeRoute, InstancesInv, ProvisioningTypes
  <1>1. /\ desk' \in [Desks -> DeskRows] /\ desk'[d].at = "idle" /\ desk'[d].id = 0 /\ desk'[d].op = "none"
        /\ \A c \in Desks \ {d} : desk'[c] = desk[c]
    BY <1>0, EndingDesk
  <1>2. ProvisioningTypes'
    BY <1>0, <1>1 DEF InstancesInv, ProvisioningTypes, BoxRows, RouteRows
  <1>3. IdsOnce'
    BY <1>0, <1>1 DEF InstancesInv, IdsOnce, Busy
  <1>4. NamesAgree'
    <2>1. (\A p \in profiles : p.id # 0) /\ (\A b \in boxes : b.id # 0)
      BY DEF InstancesInv, ProvisioningTypes, IdsOnce
    <2>. QED
      BY <1>0, <1>1, <2>1 DEF InstancesInv, NamesAgree
  <1>5. RoutesFollow'
    BY <1>0, <1>1 DEF InstancesInv, RoutesFollow, RoutedIsKept
  <1>6. \A c \in Desks : desk'[c].at \in {"limit", "save"} => desk'[c].op = "create"
    BY <1>1 DEF InstancesInv, LimitLeft
  <1>7. \A q : Created(q)' \subseteq Created(q) /\ Saving(q)' \subseteq Saving(q)
    BY <1>0, <1>1 DEF Created, Saving
  <1>. QED
    BY <1>2, <1>3, <1>4, <1>5, <1>6, <1>7, LimitKept DEF InstancesInv

\* A statement fails: the call ends, and a container not made takes its
\* profile with it.
LEMMA TakesFailure ==
    ASSUME InstancesInv, site' = site, NEW d \in Desks, deskFails(d)
    PROVE  InstancesInv'
  <1>0. desk \in [Desks -> DeskRows] /\ DeskEnds(d) /\ UNCHANGED <<boxes, routes, made>>
        /\ desk[d].at \in {"limit", "save", "container", "route", "key", "claimSave"}
        /\ IsFiniteSet(profiles)
        /\ profiles' = IF desk[d].at = "container" THEN {p \in profiles : p.id # desk[d].id} ELSE profiles
    BY DEF deskFails, InstancesInv, ProvisioningTypes
  <1>1. /\ desk' \in [Desks -> DeskRows] /\ desk'[d].at = "idle" /\ desk'[d].id = 0 /\ desk'[d].op = "none"
        /\ \A c \in Desks \ {d} : desk'[c] = desk[c]
    BY <1>0, EndingDesk
  <1>2. profiles' \subseteq profiles /\ IsFiniteSet(profiles')
    BY <1>0, FS_Subset
  <1>3. ProvisioningTypes'
    BY <1>0, <1>1, <1>2 DEF InstancesInv, ProvisioningTypes, BoxRows, RouteRows
  <1>4. IdsOnce'
    BY <1>0, <1>1, <1>2 DEF InstancesInv, IdsOnce, Busy
  <1>5. (\A p \in profiles : p.id # 0) /\ (\A b \in boxes : b.id # 0) /\ (\A r \in routes : r.id # 0)
    BY DEF InstancesInv, ProvisioningTypes, IdsOnce
  <1>6. NamesAgree'
    BY <1>0, <1>1, <1>2, <1>5 DEF InstancesInv, NamesAgree
  <1>7. RoutesFollow'
    <2>1. desk[d].at = "container" => \A c \in Desks : desk[c].id = desk[d].id => c = d
      BY <1>0 DEF InstancesInv, IdsOnce, Busy
    <2>2. desk[d].at # "route" => \A r \in routes : r.id # desk[d].id
      BY <1>0, <1>5 DEF InstancesInv, IdsOnce, RoutesFollow, Busy
    <2>3. desk[d].at = "route" => \E p \in profiles : p.id = desk[d].id
      BY <1>0 DEF InstancesInv, RoutesFollow
    <2>4. RoutedIsKept'
      BY <1>0, <1>1, <1>2, <2>2, <2>3 DEF InstancesInv, RoutesFollow, RoutedIsKept
    <2>. QED
      BY <1>0, <1>1, <1>2, <2>1, <2>4 DEF InstancesInv, RoutesFollow
  <1>8. \A c \in Desks : desk'[c].at \in {"limit", "save"} => desk'[c].op = "create"
    BY <1>1 DEF InstancesInv, LimitLeft
  <1>9. \A q : Created(q)' \subseteq Created(q) /\ Saving(q)' \subseteq Saving(q)
    BY <1>1, <1>2 DEF Created, Saving
  <1>. QED
    BY <1>3, <1>4, <1>6, <1>7, <1>8, <1>9, LimitKept DEF InstancesInv

\* A restart: the table and the calls are gone.
LEMMA TakesRestart ==
    ASSUME InstancesInv, site' = site, restart
    PROVE  InstancesInv'
  <1>0. desk' = [d \in Desks |-> FreeDesk] /\ routes' = {} /\ UNCHANGED <<profiles, boxes, made>>
    BY DEF restart
  <1>1. desk' \in [Desks -> DeskRows] /\ \A d \in Desks : desk'[d].at = "idle" /\ desk'[d].id = 0
    BY <1>0, FreeDeskRow
  <1>2. ProvisioningTypes'
    BY <1>0, <1>1 DEF InstancesInv, ProvisioningTypes, BoxRows, RouteRows
  <1>3. IdsOnce'
    BY <1>0, <1>1 DEF InstancesInv, IdsOnce, Busy
  <1>4. NamesAgree'
    <2>1. (\A p \in profiles : p.id # 0) /\ (\A b \in boxes : b.id # 0)
      BY DEF InstancesInv, ProvisioningTypes, IdsOnce
    <2>. QED
      BY <1>0, <1>1, <2>1 DEF InstancesInv, NamesAgree
  <1>5. RoutesFollow'
    BY <1>0, <1>1 DEF RoutesFollow, RoutedIsKept
  <1>6. \A q : Created(q)' \subseteq Created(q) /\ Saving(q)' \subseteq Saving(q)
    BY <1>0, <1>1 DEF Created, Saving
  <1>. QED
    BY <1>1, <1>2, <1>3, <1>4, <1>5, <1>6, LimitKept DEF InstancesInv

\* Nothing but Caddy's copy changes.
LEMMA InstancesStutter ==
    ASSUME InstancesInv, UNCHANGED <<site, profiles, boxes, routes, desk, made>>
    PROVE  InstancesInv'
  BY DEF InstancesInv, ProvisioningTypes, BoxRows, RouteRows, IdsOnce, NamesAgree, RoutesFollow, RoutedIsKept,
         LimitLeft, Created, Saving

\* Every step of the fleet's side keeps the instances sound.
LEMMA InstancesStepInv ==
    ASSUME InstancesInv, [ProvisioningNext]_provisioningVars
    PROVE  InstancesInv'
  <1>1. CASE site' = site /\ FleetSide
    <2>1. ASSUME NEW d \in Desks, NEW t \in site.tenants, NEW s \in site.subs,
                 provisionCreate(d, t, s) \/ claimPoolInstance(d, t, s)
          PROVE  InstancesInv'
      BY <1>1, <2>1, TakesCreate, TakesClaim
    <2>2. ASSUME NEW d \in Desks, NEW p \in profiles, revokeByInstance(d, p) PROVE InstancesInv'
      BY <1>1, <2>2, TakesRevoke
    <2>3. ASSUME NEW d \in Desks,
                 \/ limitGate(d) \/ saveProfile(d) \/ createContainer(d) \/ addRoute(d)
                 \/ generate(d) \/ claimProfile(d) \/ removeRoute(d)
          PROVE  InstancesInv'
      BY <1>1, <2>3, TakesLimit, TakesSave, TakesContainer, TakesRoute, TakesKey, TakesClaimProfile, TakesUnroute
    <2>4. CASE proxyStart
      BY <1>1, <2>4, InstancesStutter DEF proxyStart
    <2>. QED
      BY <1>1, <2>1, <2>2, <2>3, <2>4 DEF FleetSide
  <1>2. CASE site' = site /\ \E d \in Desks : fleetRemove(d)
    BY <1>2, TakesRemove
  <1>3. CASE site' = site /\ SiteFault
    <2>1. ASSUME NEW d \in Desks, deskFails(d) PROVE InstancesInv'
      BY <1>3, <2>1, TakesFailure
    <2>2. CASE restart
      BY <1>3, <2>2, TakesRestart
    <2>3. CASE UNCHANGED fleetState
      BY <1>3, <2>3, InstancesStutter DEF fleetState
    <2>. QED
      BY <1>3, <2>1, <2>2, <2>3 DEF SiteFault
  <1>4. CASE UNCHANGED <<site, fleetState>>
    BY <1>4, InstancesStutter DEF fleetState
  <1>. QED
    BY <1>1, <1>2, <1>3, <1>4 DEF ProvisioningNext, provisioningVars

\* What the invariant says of the limit and of the names.
LEMMA ProvisionedIsSafe ==
    ASSUME InstancesInv, NodesInv
    PROVE  ProvisioningSafe
  <1>1. LimitBounded
    <2>1. ASSUME NEW t \in Landlords
          PROVE  Cardinality(Created(t)) <= MaxInstancesPerTenant + Cardinality(Desks) - 1
      <3>1. Created(t) \subseteq profiles /\ IsFiniteSet(profiles) /\ Saving(t) \subseteq Desks
        BY DEF Created, Saving, InstancesInv, ProvisioningTypes
      <3>2. Cardinality(Created(t)) \in Nat /\ Cardinality(Saving(t)) \in Nat /\ Cardinality(Desks) \in Nat
        BY <3>1, FS_Subset, FS_CardinalityType, ProvisioningAssumption
      <3>3. Cardinality(Created(t)) + Cardinality(Saving(t)) < MaxInstancesPerTenant + Cardinality(Desks)
        BY DEF InstancesInv, LimitLeft
      <3>. QED
        BY <3>2, <3>3, ProvisioningAssumption
    <2>. QED
      BY <2>1 DEF LimitBounded, Created
  <1>2. RoutingSurvivesRestart
    <2>. SUFFICES ASSUME NEW p \in profiles, NEW b \in boxes, site.prefix = "wopr", b.id = p.id
                  PROVE  tenantProxy(p.sub) = {b}
      BY DEF RoutingSurvivesRestart
    <2>1. p.sub = b.sub /\ \A c \in boxes : c.prefix = "wopr" /\ (c.sub = b.sub => c = b)
      BY DEF InstancesInv, NamesAgree, ProvisioningTypes, BoxRows
    <2>2. resolveContainerUrl(p.sub) = {[prefix |-> "wopr", sub |-> p.sub]}
      BY DEF resolveContainerUrl, InstancesInv, ProvisioningTypes, RouteRows
    <2>. QED
      BY <2>1, <2>2 DEF tenantProxy
  <1>. QED
    BY <1>1, <1>2 DEF ProvisioningSafe, InstancesInv, RoutesFollow, NodesInv, TokensSpent

\* A tenant's instances stay within the limit and the creations that ran
\* together, an instance is found by its name through restarts, no route
\* outlives its instance, and a token makes one node
\* (provision-webhook.ts, tenant-proxy.ts, internal-nodes.ts).
THEOREM ProvisioningIsSafe == ProvisioningSpec => []ProvisioningSafe
  <1>1. InstancesInv /\ NodesInv /\ [ProvisioningNext]_provisioningVars => NodesInv'
    <2>. SUFFICES ASSUME NodesInv, [ProvisioningNext]_provisioningVars PROVE NodesInv'
      OBVIOUS
    <2>1. NodeSide \/ (\E a \in Agents : agentFails(a)) \/ UNCHANGED nodeState
      BY DEF ProvisioningNext, provisioningVars, SiteFault, nodeState
    <2>. QED
      BY <2>1, NodesStepInv
  <1>2. InstancesInv /\ [ProvisioningNext]_provisioningVars => InstancesInv'
    BY InstancesStepInv
  <1>3. InstancesInv /\ NodesInv => ProvisioningSafe
    BY ProvisionedIsSafe
  <1>. QED
    BY <1>1, <1>2, <1>3, InstancesInitInv, NodesInitInv, PTL DEF ProvisioningSpec

-----------------------------------------------------------------------------
(* The owner of an organization                                             *)

TenantRows == [owner : Users \cup {Nobody}, slug : {0, 1, 2}]
InviteRows == [org : OrgIds \cup {Nobody}, role : OrgRoles, state : {"none", "open", "accepted"}]
Granted == {"admin", "member"}

\* What each kind of call has left to write: the calls that move the ownership,
\* and the others.
PersonalCall(k) ==
    /\ k.op = "personal" /\ k.org \in Users
    /\ k.todo \in {<<Write("tenant", k.org, 0), Write("add", k.org, "owner")>>, <<Write("add", k.org, "owner")>>}
CreateCall(k) ==
    /\ k.op = "create" /\ k.org \in OrgIds
    /\ \E u \in Users, s \in {1, 2} :
         k.todo \in {<<Write("insert", u, s), Write("first", u, "owner")>>, <<Write("first", u, "owner")>>}
TransferCall(k) ==
    /\ k.op = "transfer" /\ k.org \in OrgIds
    /\ \E u, t \in Users :
         k.todo \in {<<Write("role", t, "owner"), Write("role", u, "admin"), Write("owner", t, Nobody)>>,
                     <<Write("role", u, "admin"), Write("owner", t, Nobody)>>,
                     <<Write("owner", t, Nobody)>>}
DeleteCall(k) == k.op = "delete" /\ k.org \in OrgIds /\ \E u \in Users : k.todo = <<Write("delete", u, Nobody)>>

JoinCall(k) ==
    \E u \in Users, i \in Invites, r \in Granted :
        k.todo \in {<<Write("add", u, r), Write("accepted", i, Nobody)>>, <<Write("accepted", i, Nobody)>>}
TameWrites ==
    {Write("slug", u, s) : u \in Users, s \in {1, 2}} \cup {Write("invite", i, r) : i \in Invites, r \in Granted}
    \cup {Write("revoke", i, Nobody) : i \in Invites} \cup {Write("role", u, r) : u \in Users, r \in Granted}
    \cup {Write("remove", u, Nobody) : u \in Users} \cup {Write("detach", u, Nobody) : u \in Users}
TameCall(k) ==
    /\ k.op \in {"update", "invite", "member", "card"} /\ k.org \in OrgIds
    /\ JoinCall(k) \/ \E w \in TameWrites : k.todo = <<w>>

Lawful(k) ==
    /\ k = [org |-> k.org, op |-> k.op, todo |-> k.todo]
    /\ \/ k = Rest
       \/ PersonalCall(k) \/ CreateCall(k) \/ TransferCall(k) \/ DeleteCall(k) \/ TameCall(k)

RowTypes ==
    /\ tenant \in [OrgIds -> TenantRows] /\ role \in [OrgIds -> [Users -> OrgRoles]]
    /\ invite \in [Invites -> InviteRows]
    /\ \A o \in OrgIds : Exists(o) => tenant[o].owner \in Users
    /\ \A i \in Invites : invite[i].state = "open" => invite[i].org \in OrgIds /\ invite[i].role \in Granted

OrgTypes ==
    /\ RowTypes
    /\ orgCall = [c \in OrgCallers |-> orgCall[c]] /\ \A c \in OrgCallers : Lawful(orgCall[c])

\* An organization whose owner has the owner's membership; and one nobody has
\* anything in.
Owned(o) ==
    /\ Exists(o) /\ role[o][tenant[o].owner] = "owner"
    /\ o \in Teams => \A u \in Users : role[o][u] = "owner" => u = tenant[o].owner
Vacant(o) == (\A u \in Users : role[o][u] = "none") /\ (\A i \in Invites : invite[i].org # o)
Quiet(o) == Owned(o) \/ (~Exists(o) /\ Vacant(o))

\* What a call may find, that nothing collided with.
PersonalFits(k) ==
    \/ Owned(k.org)
    \/ /\ Vacant(k.org)
       /\ IF Exists(k.org) THEN tenant[k.org].owner = k.org ELSE Len(k.todo) = 2
CreateFits(k) ==
    /\ Vacant(k.org)
    /\ Len(k.todo) = 2 => ~Exists(k.org)
    /\ Len(k.todo) = 1 => Exists(k.org) /\ tenant[k.org].owner = k.todo[1].user
TransferFits(k) ==
    /\ Exists(k.org)
    /\ Len(k.todo) = 3 => Owned(k.org) /\ tenant[k.org].owner = k.todo[2].user /\ role[k.org][k.todo[1].user] # "none"
    /\ Len(k.todo) = 2 =>
         /\ tenant[k.org].owner = k.todo[1].user /\ role[k.org][k.todo[2].user] = "owner"
         /\ k.org \in Teams => \A u \in Users : role[k.org][u] = "owner" => u \in {k.todo[1].user, k.todo[2].user}
    /\ Len(k.todo) = 1 /\ tenant[k.org].owner # k.todo[1].user =>
         /\ role[k.org][k.todo[1].user] = "owner"
         /\ k.org \in Teams => \A u \in Users : role[k.org][u] = "owner" => u = k.todo[1].user
TameFits(k) == Owned(k.org) /\ (k.todo[1].do \in {"role", "remove"} => k.todo[1].user # tenant[k.org].owner)

Fits(k) ==
    /\ k.op = "personal" => PersonalFits(k)
    /\ k.op = "create" => CreateFits(k)
    /\ k.op = "transfer" => TransferFits(k)
    /\ k.op \in {"update", "invite", "member", "card"} => TameFits(k)

Mover(k) == MovesOwner(k.op)

\* An organization where nothing collided: a call that moves its ownership is
\* alone, every call finds what it relies on, and it is quiet with no mover.
Sheltered(o) ==
    /\ \A c, d \in OrgCallers : Mover(orgCall[c]) /\ orgCall[c].org = o /\ orgCall[d].org = o => c = d
    /\ \A c \in OrgCallers : orgCall[c].org = o => Fits(orgCall[c])
    /\ (\A c \in OrgCallers : orgCall[c].org = o => ~Mover(orgCall[c])) => Quiet(o)

OrgInv == OrgTypes /\ \A o \in OrgIds \ loose : Sheltered(o)

\* What a call has left after a write.
LEMMA Lists ==
    /\ \A a : Head(<<a>>) = a /\ Tail(<<a>>) = << >> /\ Len(<<a>>) = 1 /\ <<a>> # << >>
    /\ \A a, b : Head(<<a, b>>) = a /\ Tail(<<a, b>>) = <<b>> /\ Len(<<a, b>>) = 2 /\ <<a, b>> # << >>
    /\ \A a, b, c : Head(<<a, b, c>>) = a /\ Tail(<<a, b, c>>) = <<b, c>> /\ Len(<<a, b, c>>) = 3
                    /\ <<a, b, c>> # << >>
  OBVIOUS

\* A caller at rest is at no organization.
LEMMA RestIsNowhere == Rest.org \notin OrgIds /\ Rest.op = "none" /\ ~Mover(Rest) /\ Lawful(Rest)
  BY OrgsAssumption DEF Rest, OrgIds, Mover, MovesOwner, Lawful

\* The invariant holds at the start.
LEMMA OrgInitInv == OrgInit => OrgInv
  <1>. SUFFICES ASSUME OrgInit PROVE OrgInv
    OBVIOUS
  <1>1. \A c \in OrgCallers : orgCall[c] = Rest
    BY DEF OrgInit
  <1>2. OrgTypes
    <2>1. tenant \in [OrgIds -> TenantRows]
      BY OrgsAssumption DEF OrgInit, TenantRows, NoTenant
    <2>2. role \in [OrgIds -> [Users -> OrgRoles]]
      BY OrgsAssumption DEF OrgInit, OrgRoles
    <2>3. invite \in [Invites -> InviteRows] /\ \A i \in Invites : invite[i].state = "none"
      BY DEF OrgInit, InviteRows, NoInvite, OrgRoles
    <2>4. \A o \in OrgIds : Exists(o) => tenant[o].owner \in Users
      BY OrgsAssumption DEF OrgInit, Exists
    <2>. QED
      BY <1>1, <2>1, <2>2, <2>3, <2>4, RestIsNowhere DEF OrgTypes, RowTypes, OrgInit
  <1>3. ASSUME NEW o \in OrgIds PROVE Sheltered(o)
    <2>1. Quiet(o)
      <3>1. CASE o \in Teams /\ company.owner # Nobody
        BY <3>1, OrgsAssumption DEF OrgInit, Quiet, Owned, Exists, NoTenant
      <3>2. CASE ~(o \in Teams /\ company.owner # Nobody)
        BY <3>2, OrgsAssumption DEF OrgInit, Quiet, Vacant, Exists, NoInvite, OrgIds
      <3>. QED
        BY <3>1, <3>2
    <2>. QED
      BY <1>1, <2>1, RestIsNowhere DEF Sheltered
  <1>. QED
    BY <1>2, <1>3 DEF OrgInv

\* What a call relies on, and that an organization is quiet, rests on the
\* organization's own rows.
LEMMA RowsKept ==
    ASSUME NEW o \in OrgIds, tenant'[o] = tenant[o], role'[o] = role[o],
           \A i \in Invites : invite'[i].org = o => invite[i].org = o
    PROVE  /\ Quiet(o) => Quiet(o)'
           /\ \A k : k.org = o /\ Fits(k) => Fits(k)'
  <1>1. (Owned(o)' <=> Owned(o)) /\ (Exists(o)' <=> Exists(o)) /\ (Vacant(o) => Vacant(o)')
    BY DEF Owned, Exists, Vacant
  <1>2. ASSUME NEW k, k.org = o, Fits(k) PROVE Fits(k)'
    <2>1. /\ k.op = "personal" => PersonalFits(k) /\ PersonalFits(k)'
          /\ k.op = "create" => CreateFits(k) /\ CreateFits(k)'
      BY <1>1, <1>2 DEF Fits, PersonalFits, CreateFits
    <2>2. k.op = "transfer" => TransferFits(k)'
      BY <1>1, <1>2 DEF Fits, TransferFits
    <2>3. k.op \in {"update", "invite", "member", "card"} => TameFits(k)'
      BY <1>1, <1>2 DEF Fits, TameFits
    <2>. QED
      BY <2>1, <2>2, <2>3 DEF Fits
  <1>. QED
    BY <1>1, <1>2 DEF Quiet

\* A call's step leaves every other organization as it was.
LEMMA OrgFrame ==
    ASSUME OrgInv, NEW o \in OrgIds, NEW c \in OrgCallers, OrgTypes',
           \A p \in OrgIds \ {o} :
              /\ tenant'[p] = tenant[p] /\ role'[p] = role[p]
              /\ \A i \in Invites : invite'[i].org = p => invite[i].org = p,
           loose \subseteq loose',
           orgCall[c] = Rest \/ orgCall[c].org = o, orgCall'[c] = Rest \/ orgCall'[c].org = o,
           \A d \in OrgCallers \ {c} : orgCall'[d] = orgCall[d],
           o \notin loose' => Sheltered(o)'
    PROVE  OrgInv'
  <1>. SUFFICES ASSUME NEW p \in OrgIds \ loose', p # o PROVE Sheltered(p)'
    BY DEF OrgInv
  <1>1. Sheltered(p) /\ p \in OrgIds
    BY DEF OrgInv
  <1>2. \A d \in OrgCallers : (orgCall'[d].org = p <=> orgCall[d].org = p) /\ (orgCall'[d].org = p => orgCall'[d] = orgCall[d])
    BY RestIsNowhere
  <1>3. /\ Quiet(p) => Quiet(p)'
        /\ \A k : k.org = p /\ Fits(k) => Fits(k)'
    <2>1. tenant'[p] = tenant[p] /\ role'[p] = role[p] /\ \A i \in Invites : invite'[i].org = p => invite[i].org = p
      OBVIOUS
    <2>. QED
      BY <2>1, RowsKept
  <1>4. \A d \in OrgCallers : orgCall'[d].org = p => Fits(orgCall[d])'
    <2>. SUFFICES ASSUME NEW d \in OrgCallers, orgCall'[d].org = p PROVE Fits(orgCall[d])'
      OBVIOUS
    <2>. DEFINE k == orgCall[d]
    <2>1. k.org = p /\ Fits(k) /\ orgCall'[d] = k
      BY <1>1, <1>2 DEF Sheltered
    <2>2. PICK j : j = orgCall[d]
      OBVIOUS
    <2>3. Fits(j)' /\ j = orgCall'[d]
      BY <2>1, <2>2, <1>3
    <2>. QED
      BY <2>3 DEF Fits, PersonalFits, CreateFits, TransferFits, TameFits
  <1>. QED
    BY <1>1, <1>2, <1>3, <1>4 DEF Sheltered, Mover

\* A call begins where nothing it could collide with is under way, or the
\* organization is loose from then on.
LEMMA OrgBegins ==
    ASSUME OrgInv, NEW c \in OrgCallers, NEW o \in OrgIds, NEW op, NEW writes, Begin(c, op, o, writes),
           Lawful([org |-> o, op |-> op, todo |-> writes]),
           (/\ o \notin loose /\ Quiet(o)
            /\ \A d \in OrgCallers : orgCall[d].org = o => ~Mover(orgCall[d]) /\ ~MovesOwner(op))
              => Fits([org |-> o, op |-> op, todo |-> writes])
    PROVE  OrgInv'
  <1>. PICK k : k = [org |-> o, op |-> op, todo |-> writes]
    OBVIOUS
  <1>1. /\ orgCall[c] = Rest /\ orgCall' = [orgCall EXCEPT ![c] = k] /\ k.org = o /\ k.op = op /\ k # Rest
        /\ UNCHANGED <<tenant, role, invite>> /\ Lawful(k)
        /\ loose' = IF \E d \in OrgCallers : orgCall[d].org = o /\ (MovesOwner(orgCall[d].op) \/ MovesOwner(op))
                    THEN loose \cup {o} ELSE loose
    BY RestIsNowhere DEF Begin, orgRows
  <1>2. orgCall'[c] = k /\ \A d \in OrgCallers \ {c} : orgCall'[d] = orgCall[d]
    BY <1>1 DEF OrgInv, OrgTypes
  <1>3. OrgTypes'
    <2>1. orgCall' = [d \in OrgCallers |-> orgCall'[d]]
      BY <1>1 DEF OrgInv, OrgTypes
    <2>2. ASSUME NEW d \in OrgCallers PROVE Lawful(orgCall'[d])
      BY <1>1, <1>2 DEF OrgInv, OrgTypes
    <2>3. ASSUME NEW d \in OrgCallers PROVE Lawful(orgCall[d])'
      BY <2>2 DEF Lawful, PersonalCall, CreateCall, TransferCall, DeleteCall, TameCall, JoinCall
    <2>. QED
      BY <1>1, <2>1, <2>3 DEF OrgInv, OrgTypes, RowTypes, Exists
  <1>4. ASSUME o \notin loose' PROVE Sheltered(o)'
    <2>1. o \notin loose /\ \A d \in OrgCallers : orgCall[d].org = o => ~Mover(orgCall[d]) /\ ~MovesOwner(op)
      BY <1>1, <1>4 DEF Mover
    <2>2. Sheltered(o)
      BY <2>1 DEF OrgInv
    <2>3. Quiet(o)
      BY <2>1, <2>2 DEF Sheltered
    <2>4. Fits(k)
      BY <2>1, <2>3
    <2>5. Quiet(o)' /\ \A j : j.org = o /\ Fits(j) => Fits(j)'
      BY <1>1, <2>3, RowsKept
    <2>6. ASSUME NEW d \in OrgCallers, orgCall'[d].org = o PROVE Fits(orgCall[d])'
      <3>1. PICK j : j = orgCall'[d]
        OBVIOUS
      <3>2. Fits(j) /\ j.org = o
        BY <1>1, <1>2, <2>2, <2>4, <2>6, <3>1 DEF Sheltered
      <3>3. Fits(j)' /\ j = orgCall'[d]
        BY <2>5, <3>1, <3>2
      <3>. QED
        BY <3>3 DEF Fits, PersonalFits, CreateFits, TransferFits, TameFits
    <2>7. \A a, b \in OrgCallers : Mover(orgCall'[a]) /\ orgCall'[a].org = o /\ orgCall'[b].org = o => a = b
      BY <1>1, <1>2, <2>1, <2>2 DEF Sheltered, Mover
    <2>. QED
      BY <2>5, <2>6, <2>7 DEF Sheltered, Mover
  <1>. QED
    BY <1>1, <1>2, <1>3, <1>4, OrgFrame

\* A call of OrgService finds what it will rely on when it begins.
LEMMA OrgCallsBegin ==
    ASSUME OrgInv, NEW c \in OrgCallers,
           \/ \E u \in Users : getOrCreatePersonalOrg(c, u)
           \/ \E u \in Users, o \in Teams, s \in {1, 2} : createOrg(c, u, o, s)
           \/ \E u \in Users, o \in OrgIds : deleteOrg(c, o, u)
           \/ \E u, t \in Users, o \in OrgIds : transferOwnership(c, o, u, t)
    PROVE  OrgInv'
  <1>1. ASSUME NEW u \in Users, getOrCreatePersonalOrg(c, u) PROVE OrgInv'
    <2>. DEFINE k == [org |-> u, op |-> "personal", todo |-> <<Write("tenant", u, 0), Write("add", u, "owner")>>]
    <2>1. u \in OrgIds /\ Lawful(k)
      BY DEF OrgIds, Lawful, PersonalCall
    <2>2. Quiet(u) => Fits(k)
      <3>1. k.org = u /\ Len(k.todo) = 2 /\ k.op = "personal"
        BY Lists
      <3>. HIDE DEF k
      <3>. QED
        BY <3>1 DEF Fits, PersonalFits, Quiet
    <2>. QED
      BY <1>1, <2>1, <2>2, OrgBegins DEF getOrCreatePersonalOrg
  <1>2. ASSUME NEW u \in Users, NEW o \in Teams, NEW s \in {1, 2}, createOrg(c, u, o, s) PROVE OrgInv'
    <2>. DEFINE k == [org |-> o, op |-> "create", todo |-> <<Write("insert", u, s), Write("first", u, "owner")>>]
    <2>1. o \in OrgIds /\ Lawful(k)
      BY DEF OrgIds, Lawful, CreateCall
    <2>2. Quiet(o) => Fits(k)
      BY <1>2 DEF Fits, CreateFits, Quiet, Owned, createOrg
    <2>. QED
      BY <1>2, <2>1, <2>2, OrgBegins DEF createOrg
  <1>3. ASSUME NEW u \in Users, NEW o \in OrgIds, deleteOrg(c, o, u) PROVE OrgInv'
    <2>. DEFINE k == [org |-> o, op |-> "delete", todo |-> <<Write("delete", u, Nobody)>>]
    <2>1. Lawful(k) /\ Fits(k)
      BY DEF Lawful, DeleteCall, Fits
    <2>. QED
      BY <1>3, <2>1, OrgBegins DEF deleteOrg
  <1>4. ASSUME NEW u \in Users, NEW t \in Users, NEW o \in OrgIds, transferOwnership(c, o, u, t) PROVE OrgInv'
    <2>. DEFINE k == [org |-> o, op |-> "transfer",
                      todo |-> <<Write("role", t, "owner"), Write("role", u, "admin"), Write("owner", t, Nobody)>>]
    <2>1. Lawful(k)
      BY DEF Lawful, TransferCall
    <2>2. Quiet(o) => Fits(k)
      BY <1>4, Lists DEF Fits, TransferFits, Quiet, transferOwnership, findMember, Write
    <2>. QED
      BY <1>4, <2>1, <2>2, OrgBegins DEF transferOwnership
  <1>. QED
    BY <1>1, <1>2, <1>3, <1>4

\* A call that leaves the ownership alone begins with one who has a role there,
\* or with an invite of it.
LEMMA TameCallsBegin ==
    ASSUME OrgInv, NEW c \in OrgCallers,
           \/ \E u \in Users, o \in OrgIds, s \in {1, 2} : updateOrg(c, o, u, s)
           \/ \E u, t \in Users, o \in OrgIds : removeMember(c, o, u, t)
           \/ \E u, t \in Users, o \in OrgIds, r \in {"admin", "member"} : changeRole(c, o, u, t, r)
           \/ \E u \in Users, i \in Invites, o \in OrgIds : revokeInvite(c, o, u, i)
           \/ \E u \in Users, i \in Invites, o \in OrgIds, r \in {"admin", "member"} : inviteMember(c, o, u, i, r)
           \/ \E u \in Users, i \in Invites : acceptInvite(c, u, i)
           \/ \E u \in Users, o \in OrgIds : orgRemovePaymentMethod(c, o, u)
    PROVE  OrgInv'
  <1>0. ASSUME NEW o \in OrgIds, NEW op \in {"update", "invite", "member", "card"}, NEW w \in TameWrites,
               Begin(c, op, o, <<w>>), w.do \in {"role", "remove"} => tenant[o].owner # w.user,
               Quiet(o) => Owned(o)
        PROVE  OrgInv'
    <2>. DEFINE k == [org |-> o, op |-> op, todo |-> <<w>>]
    <2>1. Lawful(k)
      BY DEF Lawful, TameCall
    <2>2. Quiet(o) => Fits(k)
      BY <1>0 DEF Fits, TameFits
    <2>. QED
      BY <1>0, <2>1, <2>2, OrgBegins
  <1>1. \A o \in OrgIds, u \in Users : Quiet(o) /\ (requireAdminOrOwner(o, u) \/ Exists(o)) => Owned(o)
    BY DEF Quiet, Vacant, requireAdminOrOwner
  <1>2. ASSUME NEW u \in Users, NEW o \in OrgIds, NEW s \in {1, 2}, updateOrg(c, o, u, s) PROVE OrgInv'
    <2>1. Write("slug", u, s) \in TameWrites /\ Write("slug", u, s).do = "slug"
      BY DEF TameWrites, Write
    <2>. QED
      BY <1>0, <1>1, <1>2, <2>1 DEF updateOrg
  <1>3. ASSUME NEW u \in Users, NEW t \in Users, NEW o \in OrgIds, removeMember(c, o, u, t) PROVE OrgInv'
    <2>1. Write("remove", t, Nobody) \in TameWrites /\ Write("remove", t, Nobody).user = t
      BY DEF TameWrites, Write
    <2>. QED
      BY <1>0, <1>1, <1>3, <2>1 DEF removeMember
  <1>4. ASSUME NEW u \in Users, NEW t \in Users, NEW o \in OrgIds, NEW r \in Granted, changeRole(c, o, u, t, r)
        PROVE  OrgInv'
    <2>1. Write("role", t, r) \in TameWrites /\ Write("role", t, r).user = t
      BY DEF TameWrites, Write
    <2>. QED
      BY <1>0, <1>1, <1>4, <2>1 DEF changeRole
  <1>5. ASSUME NEW u \in Users, NEW i \in Invites, NEW o \in OrgIds, revokeInvite(c, o, u, i) PROVE OrgInv'
    <2>1. Write("revoke", i, Nobody) \in TameWrites /\ Write("revoke", i, Nobody).do = "revoke"
      BY DEF TameWrites, Write
    <2>. QED
      BY <1>0, <1>1, <1>5, <2>1 DEF revokeInvite
  <1>6. ASSUME NEW u \in Users, NEW i \in Invites, NEW o \in OrgIds, NEW r \in Granted, inviteMember(c, o, u, i, r)
        PROVE  OrgInv'
    <2>1. Write("invite", i, r) \in TameWrites /\ Write("invite", i, r).do = "invite"
      BY DEF TameWrites, Write
    <2>. QED
      BY <1>0, <1>1, <1>6, <2>1 DEF inviteMember
  <1>7. ASSUME NEW u \in Users, NEW i \in Invites, acceptInvite(c, u, i) PROVE OrgInv'
    <2>. DEFINE o == invite[i].org
    <2>. DEFINE r == invite[i].role
    <2>1. o \in OrgIds /\ r \in Granted
      BY <1>7 DEF acceptInvite, OrgInv, OrgTypes, RowTypes
    <2>. DEFINE writes == <<Write("add", u, r), Write("accepted", i, Nobody)>>
    <2>. DEFINE k == [org |-> o, op |-> "invite", todo |-> writes]
    <2>2. Begin(c, "invite", o, writes)
      BY <1>7 DEF acceptInvite
    <2>3. Lawful(k)
      BY <2>1 DEF Lawful, TameCall, JoinCall
    <2>4. Quiet(o) => Fits(k)
      <3>1. Quiet(o) => Owned(o)
        BY DEF Quiet, Vacant
      <3>2. k.todo[1].do = "add" /\ k.org = o /\ k.op = "invite"
        BY Lists DEF Write
      <3>. QED
        BY <3>1, <3>2 DEF Fits, TameFits
    <2>. HIDE DEF o, r, writes
    <2>. QED
      BY <2>1, <2>2, <2>3, <2>4, OrgBegins
  <1>8. ASSUME NEW u \in Users, NEW o \in OrgIds, orgRemovePaymentMethod(c, o, u) PROVE OrgInv'
    <2>1. Write("detach", u, Nobody) \in TameWrites /\ Write("detach", u, Nobody).do = "detach"
      BY DEF TameWrites, Write
    <2>. QED
      BY <1>0, <1>1, <1>8, <2>1 DEF orgRemovePaymentMethod
  <1>. QED
    BY <1>2, <1>3, <1>4, <1>5, <1>6, <1>7, <1>8 DEF Granted

\* What settling a write leaves of the call.
LEMMA SettledCall ==
    ASSUME OrgInv, NEW c \in OrgCallers, NEW rest, Settled(c, rest), orgCall[c] # Rest
    PROVE  /\ orgCall' = [d \in OrgCallers |-> orgCall'[d]]
           /\ \A d \in OrgCallers \ {c} : orgCall'[d] = orgCall[d]
           /\ orgCall'[c] = IF rest = << >> THEN Rest ELSE [org |-> orgCall[c].org, op |-> orgCall[c].op, todo |-> rest]
           /\ loose' = IF orgCall[c].op = "transfer" /\ rest = << >>
                          /\ tenant[orgCall[c].org].owner = Head(orgCall[c].todo).user
                       THEN loose \cup {orgCall[c].org} ELSE loose
  <1>. DEFINE old == orgCall[c]
  <1>. DEFINE new == IF rest = << >> THEN Rest ELSE [old EXCEPT !.todo = rest]
  <1>1. old = [org |-> old.org, op |-> old.op, todo |-> old.todo] /\ orgCall = [d \in OrgCallers |-> orgCall[d]]
    BY DEF OrgInv, OrgTypes, Lawful
  <1>2. orgCall' = [orgCall EXCEPT ![c] = new]
    BY DEF Settled
  <1>. HIDE DEF new
  <1>3. orgCall'[c] = new /\ (\A d \in OrgCallers \ {c} : orgCall'[d] = orgCall[d]) /\ orgCall' = [d \in OrgCallers |-> orgCall'[d]]
    BY <1>1, <1>2
  <1>4. new = IF rest = << >> THEN Rest ELSE [org |-> old.org, op |-> old.op, todo |-> rest]
    BY <1>1 DEF new
  <1>. QED
    BY <1>3, <1>4 DEF Settled

\* Once a write is settled the organization is sheltered, if the call that
\* moves the ownership leaves what its next write relies on, or any other call
\* leaves the owner alone.
LEMMA OrgMoves ==
    ASSUME OrgInv, NEW c \in OrgCallers, NEW o \in OrgIds, NEW op, NEW rest,
           orgCall[c].org = o, orgCall[c].op = op, orgCall[c] # Rest, Settled(c, rest), RowTypes',
           rest = << >> \/ Lawful([org |-> o, op |-> op, todo |-> rest]),
           \A p \in OrgIds \ {o} :
              /\ tenant'[p] = tenant[p] /\ role'[p] = role[p]
              /\ \A i \in Invites : invite'[i].org = p => invite[i].org = p,
           o \notin loose' =>
              /\ MovesOwner(op) /\ rest = << >> => Quiet(o)'
              /\ ~MovesOwner(op) => Owned(o)' /\ tenant'[o].owner = tenant[o].owner
              /\ rest # << >> => Fits([org |-> o, op |-> op, todo |-> rest])'
    PROVE  OrgInv'
  <1>. DEFINE new == [org |-> o, op |-> op, todo |-> rest]
  <1>1. /\ orgCall' = [d \in OrgCallers |-> orgCall'[d]]
        /\ \A d \in OrgCallers \ {c} : orgCall'[d] = orgCall[d]
        /\ orgCall'[c] = IF rest = << >> THEN Rest ELSE new
        /\ loose \subseteq loose'
    BY SettledCall
  <1>2. OrgTypes'
    <2>1. ASSUME NEW d \in OrgCallers PROVE Lawful(orgCall'[d])
      BY <1>1, RestIsNowhere DEF OrgInv, OrgTypes
    <2>2. ASSUME NEW d \in OrgCallers PROVE Lawful(orgCall[d])'
      BY <2>1 DEF Lawful, PersonalCall, CreateCall, TransferCall, DeleteCall, TameCall, JoinCall
    <2>. QED
      BY <1>1, <2>2 DEF OrgTypes
  <1>3. ASSUME o \notin loose' PROVE Sheltered(o)'
    <2>1. Sheltered(o)
      BY <1>1, <1>3 DEF OrgInv
    <2>2. orgCall'[c].org = o => rest # << >> /\ orgCall'[c] = new
      BY <1>1, RestIsNowhere
    <2>3. \A a, b \in OrgCallers : Mover(orgCall'[a]) /\ orgCall'[a].org = o /\ orgCall'[b].org = o => a = b
      BY <1>1, <2>1, <2>2 DEF Sheltered, Mover
    <2>4. ASSUME NEW d \in OrgCallers, orgCall'[d].org = o PROVE Fits(orgCall[d])'
      <3>1. PICK j : j = orgCall'[d]
        OBVIOUS
      <3>2. Fits(j)'
        <4>1. CASE d = c
          <5>1. j = new /\ rest # << >>
            BY <2>2, <2>4, <3>1, <4>1
          <5>. QED
            BY <1>3, <5>1
        <4>2. CASE d # c
          <5>1. ~MovesOwner(op) /\ j = orgCall[d] /\ Fits(j) /\ ~Mover(j) /\ j.org = o
            BY <1>1, <2>1, <2>4, <3>1, <4>2 DEF Sheltered, Mover
          <5>2. Owned(o)' /\ tenant'[o].owner = tenant[o].owner
            BY <1>3, <5>1
          <5>. QED
            BY <5>1, <5>2 DEF Fits, TameFits, Mover, MovesOwner
        <4>. QED
          BY <4>1, <4>2
      <3>. QED
        BY <3>1, <3>2 DEF Fits, PersonalFits, CreateFits, TransferFits, TameFits
    <2>5. ASSUME \A d \in OrgCallers : orgCall'[d].org = o => ~Mover(orgCall'[d]) PROVE Quiet(o)'
      <3>1. CASE MovesOwner(op)
        <4>1. rest = << >>
          BY <1>1, <2>5, <3>1 DEF Mover
        <4>. QED
          BY <1>3, <3>1, <4>1
      <3>2. CASE ~MovesOwner(op)
        BY <1>3, <3>2 DEF Quiet
      <3>. QED
        BY <3>1, <3>2
    <2>. QED
      BY <2>3, <2>4, <2>5 DEF Sheltered, Mover
  <1>. QED
    BY <1>1, <1>2, <1>3, OrgFrame

\* The statement a call executes, by what the next write does.
LEMMA StatementOf ==
    ASSUME NEW c \in OrgCallers, NEW o, NEW w, NEW rest, Step(c),
           orgCall[c].org = o, Head(orgCall[c].todo) = w, Tail(orgCall[c].todo) = rest
    PROVE  /\ w.do # "insert" => Settled(c, rest)
           /\ w.do = "tenant" => insertTenant(o, w.user, w.to) /\ UNCHANGED <<role, invite>>
           /\ w.do = "insert" =>
                /\ UNCHANGED <<role, invite>>
                /\ IF getBySlug(w.to) = {} THEN insertTenant(o, w.user, w.to) /\ Settled(c, rest)
                                           ELSE UNCHANGED tenant /\ Settled(c, << >>)
           /\ w.do = "slug" => (setSlug(o, w.to) \/ UNCHANGED tenant) /\ UNCHANGED <<role, invite>>
           /\ w.do = "owner" => updateOwner(o, w.user) /\ UNCHANGED <<role, invite>>
           /\ w.do \in {"add", "first"} => addMember(o, w.user, w.to) /\ UNCHANGED <<tenant, invite>>
           /\ w.do = "role" => updateMemberRole(o, w.user, w.to) /\ UNCHANGED <<tenant, invite>>
           /\ w.do = "remove" => deleteMember(o, w.user) /\ UNCHANGED <<tenant, invite>>
           /\ w.do = "delete" => deleteRows(o)
           /\ w.do = "invite" => createInvite(w.user, o, w.to) /\ UNCHANGED <<tenant, role>>
           /\ w.do = "revoke" => deleteInvite(w.user) /\ UNCHANGED <<tenant, role>>
           /\ w.do = "accepted" => markInviteAccepted(w.user) /\ UNCHANGED <<tenant, role>>
           /\ w.do = "detach" => UNCHANGED <<tenant, role, invite>>
  <1>1. orgCall[c].org = o /\ Head(orgCall[c].todo) = w /\ Tail(orgCall[c].todo) = rest
    OBVIOUS
  <1>2. CASE w.do \in {"tenant", "insert", "slug", "owner"}
    BY <1>1, <1>2 DEF Step
  <1>3. CASE w.do \in {"add", "first", "role", "remove", "delete"}
    BY <1>1, <1>3 DEF Step
  <1>4. CASE w.do \in {"invite", "revoke", "accepted", "detach"}
    BY <1>1, <1>4 DEF Step
  <1>. QED
    BY <1>1, <1>2, <1>3, <1>4 DEF Step

\* Where a statement leaves other organizations.
OthersKept(o) ==
    \A p \in OrgIds \ {o} :
        /\ tenant'[p] = tenant[p] /\ role'[p] = role[p]
        /\ \A i \in Invites : invite'[i].org = p => invite[i].org = p

\* A statement on one member's row.
LEMMA MemberStatement ==
    ASSUME RowTypes, NEW o \in OrgIds, NEW u \in Users, NEW r \in OrgRoles,
           addMember(o, u, r) \/ updateMemberRole(o, u, r) \/ deleteMember(o, u), UNCHANGED <<tenant, invite>>
    PROVE  /\ RowTypes' /\ OthersKept(o) /\ \A v \in Users \ {u} : role'[o][v] = role[o][v]
           /\ addMember(o, u, r) => role'[o][u] = IF role[o][u] = "none" THEN r ELSE role[o][u]
           /\ updateMemberRole(o, u, r) => role'[o][u] = IF role[o][u] = "none" THEN "none" ELSE r
           /\ deleteMember(o, u) => role'[o][u] = "none"
  <1>1. ASSUME NEW q \in OrgRoles, role' = [role EXCEPT ![o][u] = q]
        PROVE  /\ role' \in [OrgIds -> [Users -> OrgRoles]] /\ role'[o][u] = q
               /\ \A v \in Users \ {u} : role'[o][v] = role[o][v]
               /\ \A p \in OrgIds \ {o} : role'[p] = role[p]
    BY <1>1 DEF RowTypes
  <1>2. role[o][u] \in OrgRoles /\ "none" \in OrgRoles
    BY DEF RowTypes, OrgRoles
  <1>3. CASE addMember(o, u, r)
    <2>. DEFINE q == IF role[o][u] = "none" THEN r ELSE role[o][u]
    <2>1. q \in OrgRoles /\ role' = [role EXCEPT ![o][u] = q]
      BY <1>2, <1>3 DEF addMember
    <2>. HIDE DEF q
    <2>2. /\ role' \in [OrgIds -> [Users -> OrgRoles]] /\ role'[o][u] = q
          /\ \A v \in Users \ {u} : role'[o][v] = role[o][v]
          /\ \A p \in OrgIds \ {o} : role'[p] = role[p]
      BY <1>1, <2>1
    <2>. QED
      BY <2>2 DEF q, RowTypes, Exists, OthersKept, addMember, updateMemberRole, deleteMember
  <1>4. CASE updateMemberRole(o, u, r)
    <2>. DEFINE q == IF role[o][u] = "none" THEN "none" ELSE r
    <2>1. q \in OrgRoles /\ role' = [role EXCEPT ![o][u] = q]
      BY <1>2, <1>4 DEF updateMemberRole
    <2>. HIDE DEF q
    <2>2. /\ role' \in [OrgIds -> [Users -> OrgRoles]] /\ role'[o][u] = q
          /\ \A v \in Users \ {u} : role'[o][v] = role[o][v]
          /\ \A p \in OrgIds \ {o} : role'[p] = role[p]
      BY <1>1, <2>1
    <2>. QED
      BY <2>2 DEF q, RowTypes, Exists, OthersKept, addMember, updateMemberRole, deleteMember
  <1>5. CASE deleteMember(o, u)
    <2>. DEFINE q == "none"
    <2>1. q \in OrgRoles /\ role' = [role EXCEPT ![o][u] = q]
      BY <1>2, <1>5 DEF deleteMember
    <2>. HIDE DEF q
    <2>2. /\ role' \in [OrgIds -> [Users -> OrgRoles]] /\ role'[o][u] = q
          /\ \A v \in Users \ {u} : role'[o][v] = role[o][v]
          /\ \A p \in OrgIds \ {o} : role'[p] = role[p]
      BY <1>1, <2>1
    <2>. QED
      BY <2>2 DEF q, RowTypes, Exists, OthersKept, addMember, updateMemberRole, deleteMember
  <1>. QED
    BY <1>3, <1>4, <1>5

\* A statement writes one organization's row.
LEMMA TenantWrite ==
    ASSUME RowTypes, NEW o \in OrgIds, NEW q \in TenantRows, tenant' = [tenant EXCEPT ![o] = q],
           q # NoTenant => q.owner \in Users, UNCHANGED <<role, invite>>
    PROVE  RowTypes' /\ OthersKept(o) /\ tenant'[o] = q
  BY DEF RowTypes, OthersKept, Exists

\* A row is inserted where there is none.
LEMMA InsertStatement ==
    ASSUME RowTypes, NEW o \in OrgIds, NEW u \in Users, NEW s \in {0, 1, 2}, insertTenant(o, u, s),
           UNCHANGED <<role, invite>>
    PROVE  RowTypes' /\ OthersKept(o) /\ tenant'[o] = IF Exists(o) THEN tenant[o] ELSE [owner |-> u, slug |-> s]
  <1>. DEFINE q == IF Exists(o) THEN tenant[o] ELSE [owner |-> u, slug |-> s]
  <1>1. q \in TenantRows /\ tenant' = [tenant EXCEPT ![o] = q] /\ (q # NoTenant => q.owner \in Users)
    BY DEF insertTenant, TenantRows, Exists, RowTypes
  <1>. HIDE DEF q
  <1>2. RowTypes' /\ OthersKept(o) /\ tenant'[o] = q
    BY <1>1, TenantWrite
  <1>. QED
    BY <1>2 DEF q

\* The slug of a row changes.
LEMMA SlugStatement ==
    ASSUME RowTypes, NEW o \in OrgIds, NEW s \in {0, 1, 2}, setSlug(o, s), UNCHANGED <<role, invite>>
    PROVE  RowTypes' /\ OthersKept(o) /\ tenant'[o].owner = tenant[o].owner /\ (Exists(o) => Exists(o)')
  <1>. DEFINE old == tenant[o]
  <1>. DEFINE q == [old EXCEPT !.slug = IF Exists(o) THEN s ELSE old.slug]
  <1>1. old \in TenantRows /\ old = tenant[o] /\ tenant' = [tenant EXCEPT ![o] = q]
    BY DEF setSlug, RowTypes
  <1>2. Exists(o) => old.owner \in Users /\ old.owner # Nobody
    BY OrgsAssumption DEF RowTypes
  <1>3. ~Exists(o) => old = NoTenant
    BY DEF Exists
  <1>. HIDE DEF old
  <1>4. /\ q \in TenantRows /\ (Exists(o) => q.owner \in Users /\ q # NoTenant /\ q.slug = s)
        /\ (~Exists(o) => q = NoTenant) /\ q.owner = old.owner
    BY <1>1, <1>2, <1>3, OrgsAssumption DEF TenantRows, NoTenant
  <1>. HIDE DEF q
  <1>5. RowTypes' /\ OthersKept(o) /\ tenant'[o] = q
    BY <1>1, <1>4, TenantWrite
  <1>. QED
    BY <1>1, <1>2, <1>3, <1>4, <1>5 DEF Exists, NoTenant

\* The owner of a row changes.
LEMMA OwnerStatement ==
    ASSUME RowTypes, NEW o \in OrgIds, NEW u \in Users, updateOwner(o, u), UNCHANGED <<role, invite>>
    PROVE  RowTypes' /\ OthersKept(o) /\ (Exists(o) => Exists(o)' /\ tenant'[o].owner = u)
  <1>. DEFINE old == tenant[o]
  <1>. DEFINE q == [old EXCEPT !.owner = IF Exists(o) THEN u ELSE old.owner]
  <1>1. old \in TenantRows /\ old = tenant[o] /\ tenant' = [tenant EXCEPT ![o] = q]
    BY DEF updateOwner, RowTypes
  <1>2. Exists(o) => old.owner \in Users /\ old.owner # Nobody
    BY OrgsAssumption DEF RowTypes
  <1>3. ~Exists(o) => old = NoTenant
    BY DEF Exists
  <1>. HIDE DEF old
  <1>4. /\ q \in TenantRows /\ (Exists(o) => q.owner \in Users /\ q # NoTenant /\ q.owner = u)
        /\ (~Exists(o) => q = NoTenant) /\ q.slug = old.slug
    BY <1>1, <1>2, <1>3, OrgsAssumption DEF TenantRows, NoTenant
  <1>. HIDE DEF q
  <1>5. RowTypes' /\ OthersKept(o) /\ tenant'[o] = q
    BY <1>1, <1>4, TenantWrite
  <1>. QED
    BY <1>1, <1>2, <1>3, <1>4, <1>5 DEF Exists, NoTenant

\* A statement on an invite.
LEMMA InviteStatement ==
    ASSUME RowTypes, NEW o \in OrgIds, NEW i \in Invites, NEW r \in Granted,
           createInvite(i, o, r) \/ deleteInvite(i) \/ markInviteAccepted(i), UNCHANGED <<tenant, role>>
    PROVE  RowTypes' /\ OthersKept(o)
  <1>0. invite[i] \in InviteRows /\ (invite[i].state = "open" => invite[i].org \in OrgIds /\ invite[i].role \in Granted)
    BY DEF RowTypes
  <1>1. ASSUME NEW q \in InviteRows, invite' = [invite EXCEPT ![i] = q], q.org \in {o, Nobody, invite[i].org},
               q.state = "open" => q.org \in OrgIds /\ q.role \in Granted
        PROVE  RowTypes' /\ OthersKept(o)
    BY <1>1, OrgsAssumption DEF RowTypes, OthersKept, Exists, OrgIds
  <1>2. CASE createInvite(i, o, r)
    <2>. DEFINE q == [org |-> o, role |-> r, state |-> "open"]
    <2>1. q \in InviteRows /\ invite' = [invite EXCEPT ![i] = q] /\ q.org = o /\ q.role \in Granted
      BY <1>2 DEF createInvite, InviteRows, Granted, OrgRoles
    <2>. HIDE DEF q
    <2>. QED
      BY <1>1, <2>1
  <1>3. CASE deleteInvite(i)
    <2>1. NoInvite \in InviteRows /\ invite' = [invite EXCEPT ![i] = NoInvite] /\ NoInvite.org = Nobody /\ NoInvite.state = "none"
      BY <1>3 DEF deleteInvite, InviteRows, NoInvite, OrgRoles
    <2>. QED
      BY <1>1, <2>1
  <1>4. CASE markInviteAccepted(i)
    <2>. DEFINE old == invite[i]
    <2>. DEFINE q == [old EXCEPT !.state = IF old.state = "none" THEN "none" ELSE "accepted"]
    <2>1. old \in InviteRows /\ old = invite[i] /\ invite' = [invite EXCEPT ![i] = q]
      BY <1>0, <1>4 DEF markInviteAccepted, RowTypes
    <2>. HIDE DEF old
    <2>2. q \in InviteRows /\ q.org = old.org /\ q.state # "open"
      BY <2>1 DEF InviteRows
    <2>. HIDE DEF q
    <2>. QED
      BY <1>1, <2>1, <2>2
  <1>. QED
    BY <1>2, <1>3, <1>4

\* A call under way at an organization where nothing collided finds what it
\* relies on.
LEMMA OrgRelies ==
    ASSUME OrgInv, NEW c \in OrgCallers, orgCall[c].org \in OrgIds \ loose
    PROVE  Fits(orgCall[c])
  BY DEF OrgInv, Sheltered

\* The personal organization is made, or was there.
LEMMA PersonalSteps ==
    ASSUME OrgInv, NEW c \in OrgCallers, Step(c), PersonalCall(orgCall[c])
    PROVE  OrgInv'
  <1>. PICK o : o = orgCall[c].org
    OBVIOUS
  <1>. DEFINE add == Write("add", o, "owner")
  <1>0. /\ o \in OrgIds /\ o \in Users /\ orgCall[c].op = "personal" /\ orgCall[c] # Rest /\ RowTypes
        /\ MovesOwner("personal") /\ o \notin Teams
    BY RestIsNowhere, OrgsAssumption DEF PersonalCall, OrgIds, OrgInv, OrgTypes, MovesOwner, Step
  <1>1. CASE orgCall[c].todo = <<Write("tenant", o, 0), add>>
    <2>. DEFINE w == Write("tenant", o, 0)
    <2>1. Head(orgCall[c].todo) = w /\ Tail(orgCall[c].todo) = <<add>> /\ w.do = "tenant" /\ w.user = o /\ w.to = 0
      BY <1>1, Lists DEF Write
    <2>2. Settled(c, <<add>>) /\ insertTenant(o, o, 0) /\ UNCHANGED <<role, invite>>
      BY <2>1, StatementOf
    <2>3. RowTypes' /\ OthersKept(o) /\ tenant'[o] = IF Exists(o) THEN tenant[o] ELSE [owner |-> o, slug |-> 0]
      BY <1>0, <2>2, InsertStatement
    <2>. PICK k : k = [org |-> o, op |-> "personal", todo |-> <<add>>]
      OBVIOUS
    <2>4. Lawful(k) /\ k.org = o /\ k.op = "personal" /\ Len(k.todo) = 1
      BY <1>0, Lists DEF Lawful, PersonalCall
    <2>5. ASSUME o \notin loose PROVE Fits(k)'
      <3>1. PersonalFits(orgCall[c])
        BY <1>0, <2>5, OrgRelies DEF Fits
      <3>2. Exists(o)'
        BY <1>0, <2>3, OrgsAssumption DEF Exists, NoTenant
      <3>3. CASE Owned(o)
        <4>1. Owned(o)'
          BY <2>2, <2>3, <3>3 DEF Owned, Exists
        <4>. QED
          BY <2>4, <4>1 DEF Fits, PersonalFits
      <3>4. CASE ~Owned(o)
        <4>1. Vacant(o) /\ (Exists(o) => tenant[o].owner = o)
          BY <3>1, <3>4 DEF PersonalFits
        <4>2. Vacant(o)' /\ tenant'[o].owner = o
          BY <2>2, <2>3, <4>1 DEF Vacant
        <4>. QED
          BY <2>4, <3>2, <4>2 DEF Fits, PersonalFits
      <3>. QED
        BY <3>3, <3>4
    <2>6. loose \subseteq loose' /\ <<add>> # << >>
      BY <1>0, <2>2, SettledCall, Lists
    <2>. HIDE DEF add
    <2>. QED
      BY <1>0, <2>2, <2>3, <2>4, <2>5, <2>6, OrgMoves DEF OthersKept
  <1>2. CASE orgCall[c].todo = <<add>>
    <2>1. Head(orgCall[c].todo) = add /\ Tail(orgCall[c].todo) = << >> /\ add.do = "add" /\ add.user = o /\ add.to = "owner"
          /\ Len(orgCall[c].todo) = 1
      BY <1>2, Lists DEF Write
    <2>2. Settled(c, << >>) /\ addMember(o, o, "owner") /\ UNCHANGED <<tenant, invite>>
      BY <2>1, StatementOf
    <2>3. /\ RowTypes' /\ OthersKept(o) /\ \A v \in Users \ {o} : role'[o][v] = role[o][v]
          /\ role'[o][o] = IF role[o][o] = "none" THEN "owner" ELSE role[o][o]
      BY <1>0, <2>2, MemberStatement DEF OrgRoles
    <2>4. ASSUME o \notin loose PROVE Quiet(o)'
      <3>1. PersonalFits(orgCall[c])
        BY <1>0, <2>4, OrgRelies DEF Fits
      <3>2. Exists(o) => tenant[o].owner \in Users
        BY <1>0 DEF RowTypes
      <3>3. CASE Owned(o)
        BY <1>0, <2>2, <2>3, <3>2, <3>3 DEF Quiet, Owned, Exists
      <3>4. CASE ~Owned(o)
        <4>1. Vacant(o) /\ Exists(o) /\ tenant[o].owner = o
          BY <2>1, <3>1, <3>4 DEF PersonalFits
        <4>. QED
          BY <1>0, <2>2, <2>3, <4>1 DEF Quiet, Owned, Exists, Vacant
      <3>. QED
        BY <3>3, <3>4
    <2>5. loose \subseteq loose'
      BY <1>0, <2>2, SettledCall
    <2>. HIDE DEF add
    <2>. QED
      BY <1>0, <2>2, <2>3, <2>4, <2>5, OrgMoves DEF OthersKept
  <1>. QED
    BY <1>1, <1>2 DEF PersonalCall

\* An organization is created, unless its slug was taken meanwhile.
LEMMA CreateSteps ==
    ASSUME OrgInv, NEW c \in OrgCallers, Step(c), CreateCall(orgCall[c])
    PROVE  OrgInv'
  <1>. PICK o : o = orgCall[c].org
    OBVIOUS
  <1>. PICK u \in Users, s \in {1, 2} :
         orgCall[c].todo \in {<<Write("insert", u, s), Write("first", u, "owner")>>, <<Write("first", u, "owner")>>}
    BY DEF CreateCall
  <1>. DEFINE first == Write("first", u, "owner")
  <1>0. /\ o \in OrgIds /\ orgCall[c].op = "create" /\ orgCall[c] # Rest /\ RowTypes
        /\ MovesOwner("create") /\ u # Nobody
    BY RestIsNowhere, OrgsAssumption DEF CreateCall, OrgInv, OrgTypes, MovesOwner, Step
  <1>1. CASE orgCall[c].todo = <<Write("insert", u, s), first>>
    <2>. DEFINE w == Write("insert", u, s)
    <2>1. Head(orgCall[c].todo) = w /\ Tail(orgCall[c].todo) = <<first>> /\ w.do = "insert" /\ w.user = u /\ w.to = s
          /\ Len(orgCall[c].todo) = 2
      BY <1>1, Lists DEF Write
    <2>2. /\ UNCHANGED <<role, invite>>
          /\ \/ insertTenant(o, u, s) /\ Settled(c, <<first>>)
             \/ UNCHANGED tenant /\ Settled(c, << >>)
      BY <2>1, StatementOf
    <2>. PICK k : k = [org |-> o, op |-> "create", todo |-> <<first>>]
      OBVIOUS
    <2>3. Lawful(k) /\ k.org = o /\ k.op = "create" /\ Len(k.todo) = 1 /\ k.todo[1].user = u
      BY <1>0, Lists DEF Lawful, CreateCall, Write
    <2>4. o \notin loose => Vacant(o) /\ ~Exists(o)
      BY <1>0, <2>1, OrgRelies DEF Fits, CreateFits
    <2>5. o \notin loose => Vacant(o)'
      BY <2>2, <2>4 DEF Vacant
    <2>6. CASE insertTenant(o, u, s) /\ Settled(c, <<first>>)
      <3>1. RowTypes' /\ OthersKept(o) /\ tenant'[o] = IF Exists(o) THEN tenant[o] ELSE [owner |-> u, slug |-> s]
        BY <1>0, <2>2, <2>6, InsertStatement, ZenonT(60)
      <3>2. loose \subseteq loose' /\ <<first>> # << >>
        BY <1>0, <2>6, SettledCall, Lists
      <3>3. o \notin loose => Fits(k)'
        BY <1>0, <2>3, <2>4, <2>5, <3>1 DEF Fits, CreateFits, Exists, NoTenant
      <3>. HIDE DEF first
      <3>. QED
        BY <1>0, <2>3, <2>6, <3>1, <3>2, <3>3, OrgMoves DEF OthersKept
    <2>7. CASE UNCHANGED tenant /\ Settled(c, << >>)
      <3>1. RowTypes' /\ OthersKept(o) /\ (o \notin loose => Quiet(o)')
        BY <1>0, <2>2, <2>4, <2>5, <2>7 DEF RowTypes, OthersKept, Exists, Quiet
      <3>2. loose \subseteq loose'
        BY <1>0, <2>7, SettledCall
      <3>. HIDE DEF first
      <3>. QED
        BY <1>0, <2>7, <3>1, <3>2, OrgMoves DEF OthersKept
    <2>. QED
      BY <2>2, <2>6, <2>7
  <1>2. CASE orgCall[c].todo = <<first>>
    <2>1. Head(orgCall[c].todo) = first /\ Tail(orgCall[c].todo) = << >> /\ first.do = "first" /\ first.user = u
          /\ first.to = "owner" /\ Len(orgCall[c].todo) = 1 /\ orgCall[c].todo[1].user = u
      BY <1>2, Lists DEF Write
    <2>2. Settled(c, << >>) /\ addMember(o, u, "owner") /\ UNCHANGED <<tenant, invite>>
      BY <2>1, StatementOf
    <2>3. /\ RowTypes' /\ OthersKept(o) /\ \A v \in Users \ {u} : role'[o][v] = role[o][v]
          /\ role'[o][u] = IF role[o][u] = "none" THEN "owner" ELSE role[o][u]
      BY <1>0, <2>2, MemberStatement DEF OrgRoles
    <2>4. ASSUME o \notin loose PROVE Quiet(o)'
      <3>1. Vacant(o) /\ Exists(o) /\ tenant[o].owner = u
        BY <1>0, <2>1, <2>4, OrgRelies DEF Fits, CreateFits
      <3>. QED
        BY <1>0, <2>2, <2>3, <3>1 DEF Quiet, Owned, Exists, Vacant
    <2>5. loose \subseteq loose'
      BY <1>0, <2>2, SettledCall
    <2>. HIDE DEF first
    <2>. QED
      BY <1>0, <2>2, <2>3, <2>4, <2>5, OrgMoves DEF OthersKept
  <1>. QED
    BY <1>1, <1>2

\* An organization is deleted with all it has.
LEMMA DeleteSteps ==
    ASSUME OrgInv, NEW c \in OrgCallers, Step(c), DeleteCall(orgCall[c])
    PROVE  OrgInv'
  <1>. PICK o : o = orgCall[c].org
    OBVIOUS
  <1>. PICK u \in Users : orgCall[c].todo = <<Write("delete", u, Nobody)>>
    BY DEF DeleteCall
  <1>0. /\ o \in OrgIds /\ orgCall[c].op = "delete" /\ orgCall[c] # Rest /\ RowTypes /\ MovesOwner("delete")
    BY RestIsNowhere DEF DeleteCall, OrgInv, OrgTypes, MovesOwner, Step
  <1>1. Head(orgCall[c].todo).do = "delete" /\ Tail(orgCall[c].todo) = << >>
    BY Lists DEF Write
  <1>2. Settled(c, << >>) /\ deleteRows(o)
    BY <1>1, StatementOf
  <1>3. /\ tenant' = [tenant EXCEPT ![o] = NoTenant] /\ role' = [role EXCEPT ![o] = [v \in Users |-> "none"]]
        /\ invite' = [i \in Invites |-> IF invite[i].org = o THEN NoInvite ELSE invite[i]]
    BY <1>2 DEF deleteRows
  <1>4. NoTenant \in TenantRows /\ NoInvite \in InviteRows /\ NoInvite.org = Nobody /\ NoInvite.state = "none" /\ "none" \in OrgRoles
    BY DEF NoTenant, TenantRows, NoInvite, InviteRows, OrgRoles
  <1>5. RowTypes'
    BY <1>0, <1>3, <1>4 DEF RowTypes, Exists
  <1>6. OthersKept(o)
    BY <1>0, <1>3, <1>4, OrgsAssumption DEF RowTypes, OthersKept, OrgIds
  <1>7. Quiet(o)'
    BY <1>0, <1>3, <1>4, OrgsAssumption DEF RowTypes, Quiet, Vacant, Exists, OrgIds
  <1>8. loose \subseteq loose'
    BY <1>0, <1>2, SettledCall
  <1>. QED
    BY <1>0, <1>2, <1>5, <1>6, <1>7, <1>8, OrgMoves DEF OthersKept

\* The ownership moves: first both have the owner's membership, then the new
\* owner alone, and then the row follows.
LEMMA TransferSteps ==
    ASSUME OrgInv, NEW c \in OrgCallers, Step(c), TransferCall(orgCall[c])
    PROVE  OrgInv'
  <1>. PICK o : o = orgCall[c].org
    OBVIOUS
  <1>. PICK u \in Users, t \in Users :
         orgCall[c].todo \in {<<Write("role", t, "owner"), Write("role", u, "admin"), Write("owner", t, Nobody)>>,
                              <<Write("role", u, "admin"), Write("owner", t, Nobody)>>,
                              <<Write("owner", t, Nobody)>>}
    BY DEF TransferCall
  <1>. DEFINE raise == Write("role", t, "owner")
  <1>. DEFINE demote == Write("role", u, "admin")
  <1>. DEFINE move == Write("owner", t, Nobody)
  <1>0. /\ o \in OrgIds /\ orgCall[c].op = "transfer" /\ orgCall[c] # Rest /\ RowTypes /\ MovesOwner("transfer")
    BY RestIsNowhere DEF TransferCall, OrgInv, OrgTypes, MovesOwner, Step
  <1>00. /\ raise.do = "role" /\ raise.user = t /\ raise.to = "owner"
         /\ demote.do = "role" /\ demote.user = u /\ demote.to = "admin"
         /\ move.do = "owner" /\ move.user = t
    BY DEF Write
  <1>1. CASE orgCall[c].todo = <<raise, demote, move>>
    <2>. PICK k : k = [org |-> o, op |-> "transfer", todo |-> <<demote, move>>]
      OBVIOUS
    <2>1. Lawful(k) /\ k.org = o /\ k.op = "transfer" /\ Len(k.todo) = 2 /\ k.todo[1].user = u /\ k.todo[2].user = t
      BY <1>0, <1>00, Lists DEF Lawful, TransferCall
    <2>. HIDE DEF raise, demote, move
    <2>2. /\ Head(orgCall[c].todo) = raise /\ Tail(orgCall[c].todo) = <<demote, move>> /\ <<demote, move>> # << >>
          /\ Len(orgCall[c].todo) = 3 /\ orgCall[c].todo[1] = raise /\ orgCall[c].todo[2] = demote
      BY <1>1, Lists
    <2>3. Settled(c, <<demote, move>>) /\ updateMemberRole(o, t, "owner") /\ UNCHANGED <<tenant, invite>>
      BY <1>00, <2>2, StatementOf
    <2>4. /\ RowTypes' /\ OthersKept(o) /\ \A v \in Users \ {t} : role'[o][v] = role[o][v]
          /\ role'[o][t] = IF role[o][t] = "none" THEN "none" ELSE "owner"
      BY <1>0, <2>3, MemberStatement DEF OrgRoles
    <2>5. ASSUME o \notin loose PROVE Fits(k)'
      <3>1. Owned(o) /\ Exists(o) /\ tenant[o].owner = u /\ role[o][t] # "none"
        BY <1>0, <1>00, <2>2, <2>5, OrgRelies DEF Fits, TransferFits
      <3>. QED
        BY <1>0, <2>1, <2>3, <2>4, <3>1 DEF Fits, TransferFits, Owned, Exists
    <2>6. loose \subseteq loose'
      BY <1>0, <2>3, SettledCall
    <2>7. \A p \in OrgIds \ {o} :
            /\ tenant'[p] = tenant[p] /\ role'[p] = role[p]
            /\ \A i \in Invites : invite'[i].org = p => invite[i].org = p
      BY <2>4 DEF OthersKept
    <2>8. Lawful([org |-> o, op |-> "transfer", todo |-> <<demote, move>>])
      BY <2>1
    <2>9. ASSUME o \notin loose' PROVE Fits([org |-> o, op |-> "transfer", todo |-> <<demote, move>>])'
      <3>1. o \notin loose
        BY <2>6, <2>9
      <3>. QED
        BY <2>5, <3>1
    <2>. QED
      BY <1>0, <2>2, <2>3, <2>4, <2>7, <2>8, <2>9, OrgMoves
  <1>2. CASE orgCall[c].todo = <<demote, move>>
    <2>. PICK k : k = [org |-> o, op |-> "transfer", todo |-> <<move>>]
      OBVIOUS
    <2>1. Lawful(k) /\ k.org = o /\ k.op = "transfer" /\ Len(k.todo) = 1 /\ k.todo[1].user = t
      BY <1>0, <1>00, Lists DEF Lawful, TransferCall
    <2>. HIDE DEF raise, demote, move
    <2>2. /\ Head(orgCall[c].todo) = demote /\ Tail(orgCall[c].todo) = <<move>> /\ <<move>> # << >>
          /\ Len(orgCall[c].todo) = 2 /\ orgCall[c].todo[1] = demote /\ orgCall[c].todo[2] = move
      BY <1>2, Lists
    <2>3. Settled(c, <<move>>) /\ updateMemberRole(o, u, "admin") /\ UNCHANGED <<tenant, invite>>
      BY <1>00, <2>2, StatementOf
    <2>4. /\ RowTypes' /\ OthersKept(o) /\ \A v \in Users \ {u} : role'[o][v] = role[o][v]
          /\ role'[o][u] = IF role[o][u] = "none" THEN "none" ELSE "admin"
      BY <1>0, <2>3, MemberStatement DEF OrgRoles
    <2>5. ASSUME o \notin loose PROVE Fits(k)'
      <3>1. /\ Exists(o) /\ tenant[o].owner = u /\ role[o][t] = "owner"
            /\ o \in Teams => \A v \in Users : role[o][v] = "owner" => v \in {u, t}
        BY <1>0, <1>00, <2>2, <2>5, OrgRelies DEF Fits, TransferFits
      <3>. QED
        BY <1>0, <2>1, <2>3, <2>4, <3>1 DEF Fits, TransferFits, Exists
    <2>6. loose \subseteq loose'
      BY <1>0, <2>3, SettledCall
    <2>. QED
      BY <1>0, <2>1, <2>2, <2>3, <2>4, <2>5, <2>6, OrgMoves DEF OthersKept
  <1>3. CASE orgCall[c].todo = <<move>>
    <2>. HIDE DEF raise, demote, move
    <2>2. /\ Head(orgCall[c].todo) = move /\ Tail(orgCall[c].todo) = << >>
          /\ Len(orgCall[c].todo) = 1 /\ orgCall[c].todo[1] = move
      BY <1>3, Lists
    <2>3. Settled(c, << >>) /\ updateOwner(o, t) /\ UNCHANGED <<role, invite>>
      BY <1>00, <2>2, StatementOf
    <2>4. RowTypes' /\ OthersKept(o) /\ (Exists(o) => Exists(o)' /\ tenant'[o].owner = t)
      BY <1>0, <2>3, OwnerStatement
    <2>5. loose \subseteq loose' /\ (o \notin loose' => tenant[o].owner # t)
      BY <1>0, <1>00, <2>2, <2>3, SettledCall
    <2>6. ASSUME o \notin loose' PROVE Quiet(o)'
      <3>1. /\ Exists(o) /\ role[o][t] = "owner"
            /\ o \in Teams => \A v \in Users : role[o][v] = "owner" => v = t
        <4>1. TransferFits(orgCall[c])
          BY <1>0, <2>5, <2>6, OrgRelies DEF Fits
        <4>. QED
          BY <1>0, <1>00, <2>2, <2>5, <2>6, <4>1 DEF TransferFits
      <3>. QED
        BY <2>3, <2>4, <3>1 DEF Quiet, Owned
    <2>. QED
      BY <1>0, <2>3, <2>4, <2>5, <2>6, OrgMoves DEF OthersKept
  <1>. QED
    BY <1>1, <1>2, <1>3

\* Whoever leaves the ownership alone leaves the owner its membership.
LEMMA TameSteps ==
    ASSUME OrgInv, NEW c \in OrgCallers, Step(c), TameCall(orgCall[c])
    PROVE  OrgInv'
  <1>. PICK o : o = orgCall[c].org
    OBVIOUS
  <1>. PICK op : op = orgCall[c].op
    OBVIOUS
  <1>0. /\ o \in OrgIds /\ op \in {"update", "invite", "member", "card"} /\ orgCall[c] # Rest /\ RowTypes
        /\ ~MovesOwner(op)
    BY RestIsNowhere DEF TameCall, OrgInv, OrgTypes, MovesOwner, Step
  <1>1. o \notin loose => TameFits(orgCall[c])
    BY <1>0, OrgRelies DEF Fits
  <1>2. ASSUME Settled(c, << >>), RowTypes', OthersKept(o),
               Owned(o) => Owned(o)' /\ tenant'[o].owner = tenant[o].owner
        PROVE  OrgInv'
    <2>1. loose \subseteq loose'
      BY <1>0, <1>2, SettledCall
    <2>2. o \notin loose' => Owned(o)' /\ tenant'[o].owner = tenant[o].owner
      BY <1>1, <1>2, <2>1 DEF TameFits
    <2>. QED
      BY <1>0, <1>2, <2>2, OrgMoves DEF OthersKept
  <1>3. Exists(o) => tenant[o].owner \in Users
    BY <1>0 DEF RowTypes
  <1>4. ASSUME UNCHANGED <<tenant, role>>
        PROVE  Owned(o) => Owned(o)' /\ tenant'[o].owner = tenant[o].owner
    BY <1>4 DEF Owned, Exists
  <1>5. ASSUME NEW w, orgCall[c].todo = <<w>>
        PROVE  Head(orgCall[c].todo) = w /\ Tail(orgCall[c].todo) = << >> /\ orgCall[c].todo[1] = w
    BY <1>5, Lists
  <1>6. ASSUME NEW u \in Users, NEW s \in {1, 2}, orgCall[c].todo = <<Write("slug", u, s)>> PROVE OrgInv'
    <2>. DEFINE w == Write("slug", u, s)
    <2>1. w.do = "slug" /\ w.to = s
      BY DEF Write
    <2>2. Settled(c, << >>) /\ (setSlug(o, s) \/ UNCHANGED tenant) /\ UNCHANGED <<role, invite>>
      BY <1>5, <1>6, <2>1, StatementOf, ZenonT(60)
    <2>3. CASE setSlug(o, s)
      <3>1. RowTypes' /\ OthersKept(o) /\ tenant'[o].owner = tenant[o].owner /\ (Exists(o) => Exists(o)')
        BY <1>0, <2>2, <2>3, SlugStatement
      <3>2. Owned(o) => Owned(o)'
        BY <2>2, <3>1 DEF Owned
      <3>. QED
        BY <1>2, <2>2, <3>1, <3>2
    <2>4. CASE UNCHANGED tenant
      <3>1. RowTypes' /\ OthersKept(o)
        BY <1>0, <2>2, <2>4 DEF RowTypes, OthersKept, Exists
      <3>. QED
        BY <1>2, <1>4, <2>2, <2>4, <3>1
    <2>. QED
      BY <2>2, <2>3, <2>4
  <1>7. ASSUME NEW i \in Invites, NEW r \in Granted, NEW w, orgCall[c].todo = <<w>>,
               w \in {Write("invite", i, r), Write("revoke", i, Nobody), Write("accepted", i, Nobody)}
        PROVE  OrgInv'
    <2>1. w.do \in {"invite", "revoke", "accepted"} /\ w.user = i /\ (w.do = "invite" => w.to = r)
      BY <1>7 DEF Write
    <2>2. /\ Settled(c, << >>) /\ UNCHANGED <<tenant, role>>
          /\ createInvite(i, o, r) \/ deleteInvite(i) \/ markInviteAccepted(i)
      BY <1>5, <1>7, <2>1, StatementOf
    <2>3. RowTypes' /\ OthersKept(o)
      BY <1>0, <2>2, InviteStatement
    <2>. QED
      BY <1>2, <1>4, <2>2, <2>3
  <1>8. ASSUME NEW u \in Users, NEW w, orgCall[c].todo = <<w>>, NEW r \in Granted,
               w = Write("role", u, r) \/ w = Write("remove", u, Nobody)
        PROVE  OrgInv'
    <2>1. w.do \in {"role", "remove"} /\ w.user = u /\ (w.do = "role" => w.to = r)
      BY <1>8 DEF Write
    <2>2. /\ Settled(c, << >>) /\ UNCHANGED <<tenant, invite>>
          /\ updateMemberRole(o, u, r) \/ deleteMember(o, u)
      BY <1>5, <1>8, <2>1, StatementOf
    <2>3. /\ RowTypes' /\ OthersKept(o) /\ \A v \in Users \ {u} : role'[o][v] = role[o][v]
          /\ role'[o][u] # "owner"
      BY <1>0, <2>2, MemberStatement DEF OrgRoles, Granted
    <2>4. loose \subseteq loose'
      BY <1>0, <2>2, SettledCall
    <2>5. ASSUME o \notin loose' PROVE Owned(o)' /\ tenant'[o].owner = tenant[o].owner
      <3>1. Owned(o) /\ tenant[o].owner # u
        BY <1>1, <1>5, <1>8, <2>1, <2>4, <2>5 DEF TameFits
      <3>. QED
        BY <1>3, <2>2, <2>3, <3>1 DEF Owned, Exists
    <2>. QED
      BY <1>0, <2>2, <2>3, <2>5, OrgMoves DEF OthersKept
  <1>9. ASSUME NEW u \in Users, orgCall[c].todo = <<Write("detach", u, Nobody)>> PROVE OrgInv'
    <2>. DEFINE w == Write("detach", u, Nobody)
    <2>1. w.do = "detach"
      BY DEF Write
    <2>2. Settled(c, << >>) /\ UNCHANGED <<tenant, role, invite>>
      BY <1>5, <1>9, <2>1, StatementOf
    <2>3. RowTypes' /\ OthersKept(o)
      BY <1>0, <2>2 DEF RowTypes, OthersKept, Exists
    <2>. QED
      BY <1>2, <1>4, <2>2, <2>3
  <1>10. ASSUME NEW u \in Users, NEW i \in Invites, NEW r \in Granted,
                orgCall[c].todo = <<Write("add", u, r), Write("accepted", i, Nobody)>>
         PROVE  OrgInv'
    <2>. DEFINE w == Write("add", u, r)
    <2>. DEFINE accepted == Write("accepted", i, Nobody)
    <2>. PICK k : k = [org |-> o, op |-> op, todo |-> <<accepted>>]
      OBVIOUS
    <2>1. /\ w.do = "add" /\ w.user = u /\ w.to = r /\ accepted.do = "accepted"
          /\ Head(orgCall[c].todo) = w /\ Tail(orgCall[c].todo) = <<accepted>> /\ <<accepted>> # << >>
      BY <1>10, Lists DEF Write
    <2>2. Lawful(k) /\ k.org = o /\ k.op = op /\ k.todo[1].do = "accepted"
      BY <1>0, <2>1 DEF Lawful, TameCall, JoinCall
    <2>3. Settled(c, <<accepted>>) /\ addMember(o, u, r) /\ UNCHANGED <<tenant, invite>>
      BY <2>1, StatementOf
    <2>4. /\ RowTypes' /\ OthersKept(o) /\ \A v \in Users \ {u} : role'[o][v] = role[o][v]
          /\ role'[o][u] = IF role[o][u] = "none" THEN r ELSE role[o][u]
      BY <1>0, <2>3, MemberStatement DEF OrgRoles, Granted
    <2>5. loose \subseteq loose'
      BY <1>0, <2>3, SettledCall
    <2>6. ASSUME o \notin loose' PROVE Owned(o)' /\ tenant'[o].owner = tenant[o].owner /\ Fits(k)'
      <3>1. Owned(o)
        BY <1>1, <2>5, <2>6 DEF TameFits
      <3>2. Owned(o)' /\ tenant'[o].owner = tenant[o].owner
        BY <1>3, <2>3, <2>4, <3>1 DEF Owned, Exists, Granted
      <3>. QED
        BY <1>0, <2>2, <3>2 DEF Fits, TameFits
    <2>. HIDE DEF w, accepted
    <2>. QED
      BY <1>0, <2>1, <2>2, <2>3, <2>4, <2>6, OrgMoves DEF OthersKept
  <1>11. CASE JoinCall(orgCall[c])
    BY <1>7, <1>10, <1>11 DEF JoinCall
  <1>12. ASSUME NEW w \in TameWrites, orgCall[c].todo = <<w>> PROVE OrgInv'
    BY <1>6, <1>7, <1>8, <1>9, <1>12 DEF TameWrites, Granted
  <1>. QED
    BY <1>11, <1>12 DEF TameCall

\* A write fails: the call is gone, and whoever moved the ownership leaves the
\* organization loose, unless its creation is taken back.
LEMMA FailedSteps ==
    ASSUME OrgInv, NEW c \in OrgCallers, StepFails(c)
    PROVE  OrgInv'
  <1>. PICK o : o = orgCall[c].org
    OBVIOUS
  <1>. PICK k : k = orgCall[c]
    OBVIOUS
  <1>0. /\ k # Rest /\ Lawful(k) /\ RowTypes /\ k.org = o /\ o \in OrgIds
        /\ orgCall' = [orgCall EXCEPT ![c] = Rest] /\ UNCHANGED <<role, invite>>
        /\ \/ Head(k.todo).do = "first" /\ tenant' = [tenant EXCEPT ![o] = NoTenant] /\ loose' = loose
           \/ UNCHANGED tenant /\ loose' = IF MovesOwner(k.op) THEN loose \cup {o} ELSE loose
    BY DEF StepFails, OrgInv, OrgTypes, Lawful, PersonalCall, CreateCall, TransferCall, DeleteCall, TameCall, OrgIds
  <1>1. orgCall'[c] = Rest /\ (\A d \in OrgCallers \ {c} : orgCall'[d] = orgCall[d])
        /\ orgCall' = [d \in OrgCallers |-> orgCall'[d]]
    BY <1>0 DEF OrgInv, OrgTypes
  <1>2. OrgTypes'
    <2>1. ASSUME NEW d \in OrgCallers PROVE Lawful(orgCall'[d])
      BY <1>1, RestIsNowhere DEF OrgInv, OrgTypes
    <2>2. ASSUME NEW d \in OrgCallers PROVE Lawful(orgCall[d])'
      BY <2>1 DEF Lawful, PersonalCall, CreateCall, TransferCall, DeleteCall, TameCall, JoinCall
    <2>3. NoTenant \in TenantRows
      BY DEF NoTenant, TenantRows
    <2>4. RowTypes'
      BY <1>0, <2>3 DEF RowTypes, Exists
    <2>. QED
      BY <1>1, <2>2, <2>4 DEF OrgTypes
  <1>3. \A p \in OrgIds \ {o} : tenant'[p] = tenant[p] /\ role'[p] = role[p]
    BY <1>0 DEF RowTypes
  <1>4. ASSUME o \notin loose' PROVE Sheltered(o)'
    <2>1. Sheltered(o)
      BY <1>0, <1>4 DEF OrgInv
    <2>2. \A d \in OrgCallers : orgCall'[d].org = o => d # c /\ orgCall'[d] = orgCall[d] /\ orgCall[d].org = o
      BY <1>0, <1>1, RestIsNowhere
    <2>3. CASE Mover(k)
      <3>1. \A d \in OrgCallers : orgCall'[d].org # o
        BY <1>0, <2>1, <2>2, <2>3 DEF Sheltered
      <3>2. Head(k.todo).do = "first" /\ tenant' = [tenant EXCEPT ![o] = NoTenant]
        BY <1>0, <1>4, <2>3 DEF Mover
      <3>3. CreateCall(k)
        <4>1. PersonalCall(k) \/ CreateCall(k) \/ TransferCall(k) \/ DeleteCall(k)
          BY <1>0, <2>3 DEF Lawful, TameCall, Mover, MovesOwner
        <4>2. ~PersonalCall(k)
          BY <3>2, Lists DEF PersonalCall, Write
        <4>3. ~TransferCall(k)
          BY <3>2, Lists DEF TransferCall, Write
        <4>4. ~DeleteCall(k)
          <5>1. \A u : Head(<<Write("delete", u, Nobody)>>).do = "delete"
            BY Lists DEF Write
          <5>. QED
            BY <3>2, <5>1 DEF DeleteCall
        <4>. QED
          BY <4>1, <4>2, <4>3, <4>4
      <3>4. Vacant(o)
        BY <1>0, <1>4, <3>3, OrgRelies DEF CreateCall, Fits, CreateFits
      <3>5. Quiet(o)'
        BY <1>0, <3>2, <3>4 DEF Quiet, Vacant, Exists, RowTypes
      <3>. QED
        BY <3>1, <3>5 DEF Sheltered
    <2>4. CASE ~Mover(k)
      <3>1. Head(k.todo).do # "first"
        BY <1>0, <2>4, Lists DEF Lawful, PersonalCall, CreateCall, TransferCall, DeleteCall, TameCall, JoinCall, TameWrites,
              Write, Mover, MovesOwner, Rest
      <3>2. UNCHANGED <<tenant, role, invite>>
        BY <1>0, <3>1
      <3>3. /\ Quiet(o) => Quiet(o)'
            /\ \A j : j.org = o /\ Fits(j) => Fits(j)'
        BY <1>0, <3>2, RowsKept
      <3>4. Quiet(o)
        <4>1. TameFits(k)
          BY <1>0, <1>4, <2>4, OrgRelies DEF Lawful, PersonalCall, CreateCall, TransferCall, DeleteCall, TameCall,
                Mover, MovesOwner, Fits
        <4>. QED
          BY <1>0, <4>1 DEF TameFits, Quiet
      <3>5. ASSUME NEW d \in OrgCallers, orgCall'[d].org = o PROVE Fits(orgCall[d])'
        <4>1. PICK j : j = orgCall'[d]
          OBVIOUS
        <4>2. Fits(j)' /\ j = orgCall'[d]
          BY <2>1, <2>2, <3>3, <3>5, <4>1 DEF Sheltered
        <4>. QED
          BY <4>2 DEF Fits, PersonalFits, CreateFits, TransferFits, TameFits
      <3>6. \A a, b \in OrgCallers : Mover(orgCall'[a]) /\ orgCall'[a].org = o /\ orgCall'[b].org = o => a = b
        BY <2>1, <2>2 DEF Sheltered
      <3>. QED
        BY <3>3, <3>4, <3>5, <3>6 DEF Sheltered, Mover
    <2>. QED
      BY <2>3, <2>4
  <1>. QED
    BY <1>0, <1>1, <1>2, <1>3, <1>4, OrgFrame

\* Every step keeps what is sheltered.
LEMMA OrgStepInv ==
    ASSUME OrgInv, [OrgNext]_orgVars
    PROVE  OrgInv'
  <1>1. CASE UNCHANGED <<orgRows, orgCall, loose>>
    <2>1. OrgTypes'
      BY <1>1 DEF OrgInv, OrgTypes, RowTypes, Exists, orgRows, Lawful, PersonalCall, CreateCall, TransferCall, DeleteCall,
            TameCall, JoinCall
    <2>2. ASSUME NEW o \in OrgIds, Sheltered(o) PROVE Sheltered(o)'
      <3>1. (Quiet(o) => Quiet(o)') /\ \A k : k.org = o /\ Fits(k) => Fits(k)'
        BY <1>1, RowsKept DEF orgRows
      <3>2. ASSUME NEW c \in OrgCallers, orgCall'[c].org = o PROVE Fits(orgCall[c])'
        <4>1. PICK j : j = orgCall'[c]
          OBVIOUS
        <4>2. Fits(j)' /\ j = orgCall'[c]
          BY <1>1, <2>2, <3>1, <3>2, <4>1 DEF Sheltered
        <4>. QED
          BY <4>2 DEF Fits, PersonalFits, CreateFits, TransferFits, TameFits
      <3>. QED
        BY <1>1, <2>2, <3>1, <3>2 DEF Sheltered, Mover
    <2>. QED
      BY <1>1, <2>1, <2>2 DEF OrgInv
  <1>2. ASSUME NEW c \in OrgCallers, Step(c) PROVE OrgInv'
    <2>1. Lawful(orgCall[c]) /\ orgCall[c] # Rest
      BY <1>2 DEF OrgInv, OrgTypes, Step
    <2>. QED
      BY <1>2, <2>1, PersonalSteps, CreateSteps, TransferSteps, DeleteSteps, TameSteps DEF Lawful
  <1>3. ASSUME NEW c \in OrgCallers, StepFails(c) PROVE OrgInv'
    BY <1>3, FailedSteps
  <1>4. ASSUME NEW u \in Users,
               requestDeletion(u) \/ cancel(u) \/ erase(u) \/ deleteAuthUser(u) \/ eraseFails(u) \/ markCompleted(u)
        PROVE  OrgInv'
    BY <1>1, <1>4 DEF requestDeletion, cancel, erase, deleteAuthUser, eraseFails, markCompleted, AccountStep
  <1>5. CASE insertExport \/ markProcessing \/ markExported \/ markExportFailed
    BY <1>1, <1>5 DEF insertExport, markProcessing, markExported, markExportFailed, exportTo, AccountStep
  <1>6. CASE UNCHANGED orgVars
    BY <1>1, <1>6 DEF orgVars, orgRows
  <1>. QED
    BY <1>2, <1>3, <1>4, <1>5, <1>6, OrgCallsBegin, TameCallsBegin DEF OrgNext

\* In a settled organization the owner has the owner's membership, in a team
\* nobody else has (org-service.ts).
THEOREM OwnersAreMembers == OrgSpec => []OwnerIsMember
  <1>1. OrgInv => OwnerIsMember
    <2>. SUFFICES ASSUME OrgInv, NEW o \in OrgIds \ loose, Exists(o),
                         \A c \in OrgCallers : ~(orgCall[c].org = o /\ MovesOwner(orgCall[c].op))
                  PROVE  Owned(o)
      BY DEF OwnerIsMember, Owned
    <2>. QED
      BY DEF OrgInv, Sheltered, Mover, Quiet
  <1>. QED
    BY <1>1, OrgInitInv, OrgStepInv, PTL DEF OrgSpec

-----------------------------------------------------------------------------
(* The scheduled top-up                                                     *)

\* The cron starts a run when the one before has ended.
OneRun == \A r, s \in Runs : r = s

Charging == {"status", "charge", "skip", "skipWrite", "advance", "advanceWrite"}
Catching == {"caught", "caughtWrite"}
Counting == {"record", "recount", "disable", "caughtFail", "caughtCount", "caughtDisable"}
DueRows == [tenant : Tenants, period : Nat]

ScheduleTypes ==
    /\ clock \in Nat /\ nextAt \in [Tenants -> Nat]
    /\ pc \in [Runs -> {"idle"} \cup Charging \cup Catching \cup Counting]
    /\ due \in [Runs -> Seq(DueRows)] /\ read \in [Runs -> Nat]
    /\ charged \in [Tenants -> [Periods -> Nat]]
    /\ attempted \in [Tenants -> SUBSET Nat] /\ cut \in [Tenants -> SUBSET Nat]
    /\ faults \in Nat

\* A run has its tenants once each, and their schedules stand where it read
\* them until it advances them.
RunRight(r) ==
    /\ pc[r] = "idle" <=> due[r] = << >>
    /\ \A i, j \in 1..Len(due[r]) : due[r][i].tenant = due[r][j].tenant => i = j
    /\ \A i \in 1..Len(due[r]) : i > 1 => nextAt[due[r][i].tenant] = due[r][i].period
    /\ pc[r] \in Charging => nextAt[Tenant(r)] = Head(due[r]).period
    /\ pc[r] \in Catching => nextAt[Tenant(r)] >= Head(due[r]).period
    /\ pc[r] \in Counting => nextAt[Tenant(r)] > Head(due[r]).period
    /\ pc[r] \in {"skipWrite", "advanceWrite", "caughtWrite"} => read[r] = nextAt[Tenant(r)]

\* Between the charge and the advance of the schedule.
Pending(r, t, p) ==
    /\ pc[r] \in {"advance", "advanceWrite", "caught", "caughtWrite"}
    /\ Tenant(r) = t /\ Head(due[r]).period = p

\* A period that was charged has been passed, or is about to be.
ChargesRight ==
    \A t \in Tenants : \A p \in Periods \ cut[t] :
        /\ charged[t][p] <= 1
        /\ charged[t][p] # 0 => p < nextAt[t] \/ \E r \in Runs : Pending(r, t, p)

\* While nothing throws, the schedule stands at a period and all before were
\* processed.
PeriodsRight ==
    faults = 0 =>
        /\ \A r \in Runs : pc[r] \notin Catching \cup {"caughtFail", "caughtCount", "caughtDisable"}
        /\ \A r \in Runs : pc[r] \in Charging \ {"status"} => Head(due[r]).period \in attempted[Tenant(r)]
        /\ \A t \in Tenants : \E k \in Nat : nextAt[t] = k * Interval
        /\ \A t \in Tenants, k \in Nat : k * Interval < nextAt[t] => k * Interval \in attempted[t]

ScheduleInv == ScheduleTypes /\ (\A r \in Runs : RunRight(r)) /\ ChargesRight /\ PeriodsRight

\* Nothing is due twice in the list a run starts with.
LEMMA DueOrder ==
    ASSUME NEW S, IsFiniteSet(S), S # {}, NEW order \in SetToSeqs(S)
    PROVE  /\ order \in Seq(S) /\ Len(order) > 0 /\ DOMAIN order = 1..Len(order)
           /\ \A i, j \in 1..Len(order) : order[i] = order[j] => i = j
  <1>1. Cardinality(S) \in Nat /\ Cardinality(S) # 0
    BY FS_CardinalityType, FS_EmptySet
  <1>2. order \in [1..Cardinality(S) -> S] /\ \A i, j \in 1..Cardinality(S) : i # j => order[i] # order[j]
    BY DEF SetToSeqs
  <1>3. order \in Seq(S) /\ Len(order) = Cardinality(S)
    BY <1>1, <1>2
  <1>. QED
    BY <1>1, <1>2, <1>3

\* Nothing was charged at the start.
LEMMA ScheduleInitInv == ScheduleInit => ScheduleInv
  <1>. SUFFICES ASSUME ScheduleInit PROVE ScheduleInv
    OBVIOUS
  <1>1. ScheduleTypes
    BY DEF ScheduleInit, ScheduleTypes
  <1>2. \A r \in Runs : RunRight(r)
    BY DEF ScheduleInit, RunRight, Charging, Catching, Counting
  <1>3. ChargesRight
    BY DEF ScheduleInit, ChargesRight
  <1>4. PeriodsRight
    <2>1. Interval \in Nat
      BY ScheduleTopupAssumption
    <2>2. 0 = 0 * Interval /\ \A k \in Nat : ~(k * Interval < 0)
      BY <2>1
    <2>. QED
      BY <2>2 DEF ScheduleInit, PeriodsRight, Charging, Catching
  <1>. QED
    BY <1>1, <1>2, <1>3, <1>4 DEF ScheduleInv

\* A run starts.
LEMMA RunStarts ==
    ASSUME OneRun, ScheduleInv, NEW r \in Runs, Start(r)
    PROVE  ScheduleInv'
  <1>. DEFINE S == {t \in Tenants : IsDue(t)}
  <1>1. S # {} /\ IsFiniteSet(S)
    BY ScheduleTopupAssumption, FS_Subset DEF Start
  <1>2. PICK order \in SetToSeqs(S) :
          due' = [due EXCEPT ![r] = [i \in DOMAIN order |-> [tenant |-> order[i], period |-> nextAt[order[i]]]]]
    BY DEF Start
  <1>. DEFINE list == [i \in DOMAIN order |-> [tenant |-> order[i], period |-> nextAt[order[i]]]]
  <1>3. /\ order \in Seq(S) /\ Len(order) > 0 /\ DOMAIN order = 1..Len(order)
        /\ \A i, j \in 1..Len(order) : order[i] = order[j] => i = j
    BY <1>1, DueOrder
  <1>4. \A i \in 1..Len(order) : order[i] \in Tenants
    BY <1>3
  <1>5. /\ list \in Seq(DueRows) /\ Len(list) = Len(order) /\ list # << >>
        /\ \A i \in 1..Len(order) : list[i].tenant = order[i] /\ list[i].period = nextAt[order[i]]
    <2>1. ASSUME NEW i \in 1..Len(order) PROVE [tenant |-> order[i], period |-> nextAt[order[i]]] \in DueRows
      BY <1>4 DEF DueRows, ScheduleInv, ScheduleTypes
    <2>2. list \in [1..Len(order) -> DueRows] /\ Len(order) \in Nat
      BY <1>3, <2>1
    <2>3. list \in Seq(DueRows) /\ Len(list) = Len(order)
      BY <2>2
    <2>. QED
      BY <1>3, <2>2, <2>3
  <1>6. due' = [due EXCEPT ![r] = list] /\ Head(list) = list[1] /\ 1 \in 1..Len(order)
    BY <1>2, <1>3, <1>5
  <1>. HIDE DEF list
  <1>7. /\ pc[r] = "idle" /\ pc' = [pc EXCEPT ![r] = "status"]
        /\ UNCHANGED <<clock, nextAt, read, charged, attempted, cut, faults>>
    BY DEF Start, Goto, row, ghosts, bounds
  <1>8. due'[r] = list /\ pc'[r] = "status" /\ \A s \in Runs : s = r
    BY <1>6, <1>7 DEF ScheduleInv, ScheduleTypes, OneRun
  <1>9. ScheduleTypes'
    BY <1>5, <1>6, <1>7 DEF ScheduleInv, ScheduleTypes, Charging
  <1>10. RunRight(r)'
    BY <1>3, <1>5, <1>6, <1>7, <1>8 DEF RunRight, Tenant, Charging, Catching, Counting
  <1>11. ChargesRight'
    BY <1>7, <1>8 DEF ScheduleInv, ChargesRight, Pending
  <1>12. PeriodsRight'
    BY <1>7, <1>8 DEF ScheduleInv, PeriodsRight, Charging, Catching
  <1>. QED
    BY <1>8, <1>9, <1>10, <1>11, <1>12 DEF ScheduleInv

\* The tenant a run is at.
LEMMA RunAt ==
    ASSUME ScheduleInv, NEW r \in Runs, pc[r] # "idle"
    PROVE  /\ due[r] \in Seq(DueRows) /\ Len(due[r]) \in Nat /\ Len(due[r]) > 0 /\ due[r] # << >>
           /\ Head(due[r]) = due[r][1] /\ Tenant(r) = due[r][1].tenant
           /\ Tenant(r) \in Tenants /\ Head(due[r]).period \in Nat
  <1>1. due[r] \in Seq(DueRows) /\ due[r] # << >>
    BY DEF ScheduleInv, ScheduleTypes, RunRight
  <1>2. Len(due[r]) \in Nat /\ Len(due[r]) > 0 /\ due[r][1] \in DueRows /\ Head(due[r]) = due[r][1]
    BY <1>1
  <1>. QED
    BY <1>1, <1>2 DEF DueRows, Tenant

\* The loop goes on with the next tenant, whose schedule nobody has touched.
LEMMA RunGoesOn ==
    ASSUME OneRun, ScheduleInv, NEW r \in Runs, pc[r] # "idle", NextTenant(r),
           \A t \in Tenants \ {Tenant(r)} : nextAt'[t] = nextAt[t]
    PROVE  /\ pc' \in [Runs -> {"idle"} \cup Charging \cup Catching \cup Counting]
           /\ due' \in [Runs -> Seq(DueRows)]
           /\ pc'[r] \in {"idle", "status"} /\ RunRight(r)' /\ \A s \in Runs : s = r
  <1>. DEFINE list == due[r]
  <1>. DEFINE rest == Tail(list)
  <1>1. /\ list \in Seq(DueRows) /\ Len(list) \in Nat /\ Len(list) > 0 /\ list = due[r] /\ list # << >>
        /\ Tenant(r) = list[1].tenant
    BY RunAt
  <1>2. \A s \in Runs : s = r
    BY DEF OneRun
  <1>3. due' = [due EXCEPT ![r] = rest] /\ pc' = [pc EXCEPT ![r] = IF Len(list) > 1 THEN "status" ELSE "idle"]
    BY DEF NextTenant
  <1>4. /\ \A i, j \in 1..Len(list) : list[i].tenant = list[j].tenant => i = j
        /\ \A i \in 1..Len(list) : i > 1 => nextAt[list[i].tenant] = list[i].period
    BY DEF ScheduleInv, RunRight
  <1>. HIDE DEF list
  <1>5. /\ rest \in Seq(DueRows) /\ Len(rest) = Len(list) - 1
        /\ \A i \in 1..Len(rest) : rest[i] = list[i + 1]
    BY <1>1
  <1>6. rest = << >> <=> Len(list) = 1
    <2>1. \A q \in Seq(DueRows) : q = << >> <=> Len(q) = 0
      OBVIOUS
    <2>2. rest = << >> <=> Len(rest) = 0
      BY <1>5, <2>1
    <2>3. \A n \in Nat : n - 1 = 0 <=> n = 1
      OBVIOUS
    <2>4. Len(list) - 1 = 0 <=> Len(list) = 1
      BY <1>1, <2>3
    <2>. QED
      BY <1>5, <2>2, <2>4
  <1>7. Len(rest) > 0 => Head(rest) = rest[1]
    BY <1>1, <1>5
  <1>. HIDE DEF rest
  <1>8. due'[r] = rest /\ pc'[r] = IF Len(list) > 1 THEN "status" ELSE "idle"
    BY <1>3 DEF ScheduleInv, ScheduleTypes
  <1>9. /\ pc' \in [Runs -> {"idle"} \cup Charging \cup Catching \cup Counting]
        /\ due' \in [Runs -> Seq(DueRows)]
    BY <1>3, <1>5 DEF ScheduleInv, ScheduleTypes, Charging
  <1>10. \A i, j \in 1..Len(rest) : rest[i].tenant = rest[j].tenant => i = j
    <2>. SUFFICES ASSUME NEW i \in 1..Len(rest), NEW j \in 1..Len(rest), rest[i].tenant = rest[j].tenant PROVE i = j
      OBVIOUS
    <2>1. i + 1 \in 1..Len(list) /\ j + 1 \in 1..Len(list) /\ rest[i] = list[i + 1] /\ rest[j] = list[j + 1]
      BY <1>1, <1>5
    <2>2. i + 1 = j + 1
      BY <1>4, <2>1
    <2>. QED
      BY <2>2
  <1>11. \A i \in 1..Len(rest) : nextAt'[rest[i].tenant] = rest[i].period
    <2>. SUFFICES ASSUME NEW i \in 1..Len(rest) PROVE nextAt'[rest[i].tenant] = rest[i].period
      OBVIOUS
    <2>1. i + 1 \in 1..Len(list) /\ 1 \in 1..Len(list) /\ i + 1 > 1 /\ i + 1 # 1 /\ rest[i] = list[i + 1]
      BY <1>1, <1>5
    <2>2. list[i + 1].tenant # list[1].tenant /\ nextAt[list[i + 1].tenant] = list[i + 1].period
      BY <1>4, <2>1
    <2>3. list[i + 1].tenant \in Tenants
      <3>1. list[i + 1] \in DueRows
        BY <1>1, <2>1
      <3>. QED
        BY <3>1 DEF DueRows
    <2>. QED
      BY <1>1, <2>1, <2>2, <2>3
  <1>12. Len(list) > 1 => /\ 1 \in 1..Len(rest) /\ Head(rest) = rest[1]
    BY <1>1, <1>5, <1>7
  <1>13. RunRight(r)'
    <2>1. CASE Len(list) > 1
      <3>1. pc'[r] = "status" /\ rest # << >> /\ Head(rest) = rest[1] /\ nextAt'[rest[1].tenant] = rest[1].period
        BY <1>6, <1>8, <1>11, <1>12, <2>1
      <3>. QED
        BY <1>8, <1>10, <1>11, <3>1 DEF RunRight, Tenant, Charging, Catching, Counting
    <2>2. CASE ~(Len(list) > 1)
      <3>1. pc'[r] = "idle" /\ rest = << >>
        <4>1. \A n \in Nat : n > 0 /\ ~(n > 1) => n = 1
          OBVIOUS
        <4>2. Len(list) = 1
          BY <1>1, <2>2, <4>1
        <4>. QED
          BY <1>6, <1>8, <4>2, <2>2
      <3>. QED
        BY <1>8, <1>10, <1>11, <3>1 DEF RunRight, Charging, Catching, Counting
    <2>. QED
      BY <2>1, <2>2
  <1>. QED
    BY <1>2, <1>8, <1>9, <1>13

\* A run goes from one statement of a tenant to the next.
LEMMA RunMoves ==
    ASSUME OneRun, ScheduleInv, NEW r \in Runs, NEW from, NEW to \in Charging \cup Catching \cup Counting,
           Goto(r, from, to), from # "idle", UNCHANGED due
    PROVE  /\ pc' \in [Runs -> {"idle"} \cup Charging \cup Catching \cup Counting]
           /\ pc[r] = from /\ pc'[r] = to /\ due' = due /\ due[r] # << >> /\ \A s \in Runs : s = r
  BY RunAt DEF Goto, ScheduleInv, ScheduleTypes, OneRun

\* The tenant's status is looked at, and the charge made.
LEMMA RunCharges ==
    ASSUME OneRun, ScheduleInv, NEW r \in Runs, CheckStatus(r) \/ Charge(r)
    PROVE  ScheduleInv'
  <1>1. CASE CheckStatus(r)
    <2>1. PICK to \in {"charge", "skip"} : Goto(r, "status", to)
      BY <1>1 DEF CheckStatus
    <2>2. UNCHANGED <<clock, nextAt, due, read, charged, cut, faults>>
      BY <1>1 DEF CheckStatus, row, bounds
    <2>3. /\ pc' \in [Runs -> {"idle"} \cup Charging \cup Catching \cup Counting]
          /\ pc[r] = "status" /\ pc'[r] = to /\ due' = due /\ due[r] # << >> /\ \A s \in Runs : s = r
      BY <2>1, <2>2, RunMoves DEF Charging
    <2>. DEFINE t == Tenant(r)
    <2>. DEFINE p == Head(due[r]).period
    <2>4. t \in Tenants /\ p \in Nat
      BY <2>3, RunAt
    <2>5. attempted' = [attempted EXCEPT ![t] = @ \cup {p}]
      BY <1>1 DEF CheckStatus
    <2>6. /\ attempted' \in [Tenants -> SUBSET Nat] /\ p \in attempted'[t]
          /\ \A q \in Tenants : attempted[q] \subseteq attempted'[q]
      BY <2>4, <2>5 DEF ScheduleInv, ScheduleTypes
    <2>7. ScheduleTypes'
      BY <2>2, <2>3, <2>6 DEF ScheduleInv, ScheduleTypes
    <2>8. RunRight(r)'
      BY <2>2, <2>3 DEF ScheduleInv, RunRight, Tenant, Charging, Catching, Counting
    <2>9. ChargesRight'
      BY <2>2, <2>3 DEF ScheduleInv, ChargesRight, Pending
    <2>10. PeriodsRight'
      <3>1. ASSUME faults = 0 PROVE \A q \in Tenants, k \in Nat : k * Interval < nextAt[q] => k * Interval \in attempted'[q]
        BY <2>6, <3>1 DEF ScheduleInv, PeriodsRight
      <3>2. p = Head(due'[r]).period /\ t = due'[r][1].tenant /\ p \in attempted'[t] /\ t = Tenant(r)
        BY <2>2, <2>3, <2>6, RunAt
      <3>3. Tenant(r)' = Tenant(r)
        BY <2>2 DEF Tenant
      <3>. QED
        BY <2>2, <2>3, <3>1, <3>2, <3>3 DEF ScheduleInv, PeriodsRight, Charging, Catching
    <2>. QED
      BY <2>3, <2>7, <2>8, <2>9, <2>10 DEF ScheduleInv
  <1>2. CASE Charge(r)
    <2>. PICK t : t = Tenant(r)
      OBVIOUS
    <2>. PICK p : p = Head(due[r]).period
      OBVIOUS
    <2>1. PICK result \in {"success", "failure", "throw"}, card \in BOOLEAN :
            /\ faults' = IF result = "throw" \/ (card /\ result = "failure") THEN faults + 1 ELSE faults
            /\ charged' = [charged EXCEPT ![t][p] = @ + (IF card THEN 1 ELSE 0)]
            /\ pc' = [pc EXCEPT ![r] = IF result = "throw" THEN "caught" ELSE "advance"]
      BY <1>2 DEF Charge
    <2>2. UNCHANGED <<clock, nextAt, due, read, attempted, cut>> /\ pc[r] = "charge"
      BY <1>2 DEF Charge, row
    <2>3. /\ t \in Tenants /\ p \in Nat /\ due[r] # << >> /\ nextAt[t] = p /\ \A s \in Runs : s = r
          /\ t = Tenant(r)' /\ p = Head(due[r])'.period
      <3>1. pc[r] # "idle" /\ pc[r] \in Charging
        BY <2>2 DEF Charging
      <3>. QED
        BY <2>2, <3>1, RunAt DEF Tenant, OneRun, ScheduleInv, RunRight
    <2>4. /\ pc' \in [Runs -> {"idle"} \cup Charging \cup Catching \cup Counting]
          /\ pc'[r] = IF result = "throw" THEN "caught" ELSE "advance"
      BY <2>1 DEF ScheduleInv, ScheduleTypes, Charging, Catching
    <2>5. faults \in Nat /\ faults' \in Nat /\ (faults' = 0 => faults = 0 /\ result # "throw")
      BY <2>1 DEF ScheduleInv, ScheduleTypes
    <2>. DEFINE one == IF card THEN 1 ELSE 0
    <2>6. one \in {0, 1} /\ charged' = [charged EXCEPT ![t][p] = charged[t][p] + one]
      BY <2>1
    <2>. HIDE DEF one
    <2>7. /\ charged' \in [Tenants -> [Periods -> Nat]]
          /\ \A q \in Tenants, n \in Periods : ~(q = t /\ n = p) => charged'[q][n] = charged[q][n]
          /\ p \in Periods => charged'[t][p] = charged[t][p] + one
      <3>1. charged \in [Tenants -> [Periods -> Nat]]
        BY DEF ScheduleInv, ScheduleTypes
      <3>2. PICK inner : inner = [charged[t] EXCEPT ![p] = charged[t][p] + one]
        OBVIOUS
      <3>3. charged' = [charged EXCEPT ![t] = inner]
        BY <2>6, <3>2
      <3>4. charged[t] \in [Periods -> Nat]
        BY <2>3, <3>1
      <3>5. /\ inner \in [Periods -> Nat] /\ \A n \in Periods : n # p => inner[n] = charged[t][n]
            /\ p \in Periods => inner[p] = charged[t][p] + one
        <4>1. CASE p \in Periods
          <5>1. charged[t][p] + one \in Nat
            BY <2>6, <3>4, <4>1
          <5>. QED
            BY <3>2, <3>4, <4>1, <5>1
        <4>2. CASE p \notin Periods
          BY <3>2, <3>4, <4>2
        <4>. QED
          BY <4>1, <4>2
      <3>. QED
        BY <2>3, <3>1, <3>3, <3>5
    <2>8. ScheduleTypes'
      BY <2>2, <2>4, <2>5, <2>7 DEF ScheduleInv, ScheduleTypes
    <2>9. RunRight(r)'
      BY <2>2, <2>3, <2>4 DEF ScheduleInv, ScheduleTypes, RunRight, Charging, Catching, Counting
    <2>10. ChargesRight'
      <3>1. \A q \in Tenants : \A n \in Periods \ cut[q] : charged[q][n] <= 1 /\ (charged[q][n] # 0 => n < nextAt[q])
        BY <2>2, <2>3 DEF ScheduleInv, ChargesRight, Pending
      <3>2. Pending(r, t, p)'
        BY <2>3, <2>4 DEF Pending
      <3>3. ASSUME NEW q \in Tenants, NEW n \in Periods \ cut[q]
            PROVE  charged'[q][n] <= 1 /\ (charged'[q][n] # 0 => n < nextAt[q] \/ (q = t /\ n = p))
        <4>1. CASE q = t /\ n = p
          <5>1. charged[t][p] = 0 /\ charged'[t][p] = charged[t][p] + one
            BY <2>3, <2>7, <3>1, <4>1
          <5>. QED
            BY <2>6, <4>1, <5>1
        <4>2. CASE ~(q = t /\ n = p)
          BY <2>7, <3>1, <4>2
        <4>. QED
          BY <4>1, <4>2
      <3>. QED
        BY <2>2, <3>2, <3>3 DEF ChargesRight
    <2>11. PeriodsRight'
      <3>1. Tenant(r)' = Tenant(r) /\ due' = due
        BY <2>2 DEF Tenant
      <3>. QED
        BY <2>2, <2>3, <2>4, <2>5, <3>1 DEF ScheduleInv, PeriodsRight, Charging, Catching
    <2>. QED
      BY <2>3, <2>8, <2>9, <2>10, <2>11 DEF ScheduleInv
  <1>. QED
    BY <1>1, <1>2

\* The schedule is read.
LEMMA RunReads ==
    ASSUME OneRun, ScheduleInv, NEW r \in Runs, AdvanceRead(r)
    PROVE  ScheduleInv'
  <1>1. PICK from \in {"advance", "skip", "caught"}, to \in {"advanceWrite", "skipWrite", "caughtWrite"} :
          /\ Goto(r, from, to)
          /\ from = "advance" <=> to = "advanceWrite"
          /\ from = "skip" <=> to = "skipWrite"
          /\ from = "caught" <=> to = "caughtWrite"
    BY DEF AdvanceRead
  <1>2. /\ UNCHANGED <<clock, nextAt, due, charged, attempted, cut, faults>>
        /\ read' = [read EXCEPT ![r] = nextAt[Tenant(r)]]
    BY DEF AdvanceRead, row, ghosts, bounds
  <1>3. /\ pc' \in [Runs -> {"idle"} \cup Charging \cup Catching \cup Counting]
        /\ pc[r] = from /\ pc'[r] = to /\ due' = due /\ due[r] # << >> /\ \A s \in Runs : s = r
    BY <1>1, <1>2, RunMoves DEF Charging, Catching
  <1>4. Tenant(r) \in Tenants /\ Tenant(r)' = Tenant(r)
    BY <1>2, <1>3, RunAt DEF Tenant
  <1>5. read' \in [Runs -> Nat] /\ read'[r] = nextAt[Tenant(r)]
    BY <1>2, <1>4 DEF ScheduleInv, ScheduleTypes
  <1>6. ScheduleTypes'
    BY <1>2, <1>3, <1>5 DEF ScheduleInv, ScheduleTypes
  <1>7. RunRight(r)'
    BY <1>1, <1>2, <1>3, <1>4, <1>5 DEF ScheduleInv, RunRight, Charging, Catching, Counting
  <1>8. ChargesRight'
    BY <1>1, <1>2, <1>3, <1>4 DEF ScheduleInv, ChargesRight, Pending
  <1>9. PeriodsRight'
    BY <1>1, <1>2, <1>3, <1>4 DEF ScheduleInv, PeriodsRight, Charging, Catching
  <1>. QED
    BY <1>3, <1>6, <1>7, <1>8, <1>9 DEF ScheduleInv

\* The multiples of the interval, in order.
LEMMA Multiples ==
    ASSUME NEW d \in Nat \ {0}, NEW k \in Nat, NEW m \in Nat
    PROVE  /\ k * d \in Nat /\ (k + 1) * d = k * d + d
           /\ m * d < (k + 1) * d => m * d < k * d \/ m = k
  <1>1. k * d \in Nat /\ m * d \in Nat /\ (k + 1) * d = k * d + d
    OBVIOUS
  <1>2. ASSUME m > k PROVE m * d >= (k + 1) * d
    <2>1. PICK e \in Nat : m = (k + 1) + e
      <3>1. m - (k + 1) \in Nat /\ m = (k + 1) + (m - (k + 1))
        BY <1>2
      <3>. QED
        BY <3>1
    <2>2. m * d = (k + 1) * d + e * d /\ e * d \in Nat
      BY <2>1
    <2>. QED
      BY <1>1, <2>2
  <1>3. ASSUME m < k PROVE m * d < k * d
    <2>1. PICK e \in Nat : k = (m + 1) + e
      <3>1. k - (m + 1) \in Nat /\ k = (m + 1) + (k - (m + 1))
        BY <1>3
      <3>. QED
        BY <3>1
    <2>2. k * d = m * d + d + e * d /\ e * d \in Nat
      BY <2>1
    <2>. QED
      BY <1>1, <2>2
  <1>. QED
    BY <1>1, <1>2, <1>3

\* The schedule is advanced from where the run read it.
LEMMA RunAdvances ==
    ASSUME OneRun, ScheduleInv, NEW r \in Runs, AdvanceWrite(r)
    PROVE  ScheduleInv'
  <1>. PICK t : t = Tenant(r)
    OBVIOUS
  <1>. PICK p : p = Head(due[r]).period
    OBVIOUS
  <1>1. /\ pc[r] \in {"advanceWrite", "skipWrite", "caughtWrite"}
        /\ nextAt' = [nextAt EXCEPT ![t] = Advanced(r)]
        /\ \/ Goto(r, "advanceWrite", "record") /\ UNCHANGED due
           \/ pc[r] = "skipWrite" /\ NextTenant(r)
           \/ Goto(r, "caughtWrite", "caughtFail") /\ UNCHANGED due
    BY DEF AdvanceWrite
  <1>2. UNCHANGED <<clock, read, charged, attempted, cut, faults>>
    BY DEF AdvanceWrite, ghosts, bounds
  <1>3. /\ pc[r] # "idle" /\ t \in Tenants /\ p \in Nat /\ due[r] # << >> /\ 1 \in 1..Len(due[r])
        /\ t = due[r][1].tenant
    BY <1>1, RunAt
  <1>4. nextAt[t] \in Nat /\ read[r] = nextAt[t] /\ p <= nextAt[t] /\ (pc[r] # "caughtWrite" => p = nextAt[t])
    <2>1. nextAt[t] \in Nat
      BY <1>3 DEF ScheduleInv, ScheduleTypes
    <2>2. /\ pc[r] \in Charging => nextAt[t] = p
          /\ pc[r] \in Catching => nextAt[t] >= p
          /\ read[r] = nextAt[t]
      BY <1>1 DEF ScheduleInv, RunRight
    <2>. QED
      BY <1>1, <1>3, <2>1, <2>2 DEF Charging, Catching
  <1>5. /\ nextAt' \in [Tenants -> Nat] /\ nextAt'[t] = nextAt[t] + Interval /\ nextAt'[t] > nextAt[t]
        /\ \A q \in Tenants \ {t} : nextAt'[q] = nextAt[q]
    <2>1. Interval \in Nat \ {0}
      BY ScheduleTopupAssumption
    <2>2. Advanced(r) = nextAt[t] + Interval /\ Advanced(r) \in Nat /\ Advanced(r) > nextAt[t]
      BY <1>4, <2>1 DEF Advanced
    <2>. QED
      BY <1>1, <1>3, <2>2 DEF ScheduleInv, ScheduleTypes
  <1>6. /\ pc' \in [Runs -> {"idle"} \cup Charging \cup Catching \cup Counting]
        /\ due' \in [Runs -> Seq(DueRows)] /\ RunRight(r)' /\ \A s \in Runs : s = r
        /\ pc'[r] \in {"idle", "status", "record", "caughtFail"}
        /\ pc[r] # "caughtWrite" => pc'[r] # "caughtFail"
    <2>1. CASE pc[r] = "skipWrite" /\ NextTenant(r)
      BY <1>3, <1>5, <2>1, RunGoesOn
    <2>2. ASSUME NEW from \in {"advanceWrite", "caughtWrite"}, NEW to \in {"record", "caughtFail"},
                 from # "caughtWrite" => to # "caughtFail", Goto(r, from, to), UNCHANGED due
          PROVE  <1>6!1 /\ <1>6!2 /\ <1>6!3 /\ <1>6!4
      <3>1. /\ pc' \in [Runs -> {"idle"} \cup Charging \cup Catching \cup Counting]
            /\ pc[r] = from /\ pc'[r] = to /\ due' = due /\ due[r] # << >> /\ \A s \in Runs : s = r
        BY <2>2, RunMoves DEF Counting
      <3>2. \A i \in 1..Len(due[r]) : i > 1 => due[r][i].tenant # t
        BY <1>3 DEF ScheduleInv, RunRight
      <3>3. \A i \in 1..Len(due[r]) : due[r][i].tenant \in Tenants
        <4>1. due[r] \in Seq(DueRows)
          BY DEF ScheduleInv, ScheduleTypes
        <4>2. \A i \in 1..Len(due[r]) : due[r][i] \in DueRows
          BY <4>1
        <4>. QED
          BY <4>2 DEF DueRows
      <3>4. \A i \in 1..Len(due[r]) : i > 1 => nextAt'[due[r][i].tenant] = due[r][i].period
        BY <1>5, <3>2, <3>3 DEF ScheduleInv, RunRight
      <3>5. Tenant(r)' = t /\ nextAt'[t] > p
        BY <1>3, <1>4, <1>5, <3>1 DEF Tenant
      <3>. QED
        BY <2>2, <3>1, <3>4, <3>5 DEF ScheduleInv, ScheduleTypes, RunRight, Charging, Catching, Counting
    <2>. QED
      BY <1>1, <2>1, <2>2 DEF Goto
  <1>7. ScheduleTypes'
    BY <1>2, <1>5, <1>6 DEF ScheduleInv, ScheduleTypes
  <1>8. ChargesRight'
    <2>. SUFFICES ASSUME NEW q \in Tenants, NEW n \in Periods \ cut[q]
                  PROVE  charged[q][n] <= 1 /\ (charged[q][n] # 0 => n < nextAt'[q])
      BY <1>2 DEF ChargesRight
    <2>1. charged[q][n] <= 1 /\ (charged[q][n] # 0 => n < nextAt[q] \/ (q = t /\ n = p))
      BY <1>6 DEF ScheduleInv, ChargesRight, Pending
    <2>2. n \in Int
      BY ScheduleTopupAssumption DEF Periods
    <2>3. nextAt[q] \in Nat /\ nextAt'[q] \in Nat /\ nextAt'[q] >= nextAt[q]
      <3>1. nextAt[q] \in Nat /\ nextAt'[q] \in Nat
        BY <1>5 DEF ScheduleInv, ScheduleTypes
      <3>. QED
        BY <1>4, <1>5, <3>1
    <2>. QED
      BY <1>3, <1>4, <1>5, <2>1, <2>2, <2>3
  <1>9. PeriodsRight'
    <2>. SUFFICES ASSUME faults = 0
                  PROVE  /\ \A q \in Tenants : \E k \in Nat : nextAt'[q] = k * Interval
                         /\ \A q \in Tenants, k \in Nat : k * Interval < nextAt'[q] => k * Interval \in attempted[q]
      BY <1>2, <1>6 DEF ScheduleInv, PeriodsRight, Charging, Catching
    <2>1. pc[r] \in {"advanceWrite", "skipWrite"} /\ p = nextAt[t] /\ p \in attempted[t]
      BY <1>1, <1>4 DEF ScheduleInv, PeriodsRight, Charging, Catching
    <2>2. PICK k0 \in Nat : nextAt[t] = k0 * Interval
      BY <1>3 DEF ScheduleInv, PeriodsRight
    <2>3. Interval \in Nat \ {0}
      BY ScheduleTopupAssumption
    <2>4. nextAt'[t] = (k0 + 1) * Interval /\ k0 + 1 \in Nat
      <3>1. (k0 + 1) * Interval = k0 * Interval + Interval /\ k0 + 1 \in Nat
        BY <2>3, Multiples
      <3>. QED
        BY <1>5, <2>2, <3>1
    <2>5. ASSUME NEW k \in Nat, k * Interval < nextAt'[t] PROVE k * Interval \in attempted[t]
      <3>1. k * Interval < nextAt[t] \/ k = k0
        <4>1. k * Interval < (k0 + 1) * Interval
          BY <2>4, <2>5
        <4>2. k * Interval < k0 * Interval \/ k = k0
          BY <2>3, <4>1, Multiples
        <4>. QED
          BY <2>2, <4>2
      <3>. QED
        BY <1>3, <2>1, <2>2, <3>1 DEF ScheduleInv, PeriodsRight
    <2>. QED
      BY <1>5, <2>4, <2>5 DEF ScheduleInv, PeriodsRight
  <1>. QED
    BY <1>6, <1>7, <1>8, <1>9 DEF ScheduleInv

\* The result is counted and the schedule switched off at the limit.
LEMMA RunRecords ==
    ASSUME OneRun, ScheduleInv, NEW r \in Runs,
           RecordSuccess(r) \/ RecordFailure(r) \/ Recount(r) \/ DisableSchedule(r)
    PROVE  ScheduleInv'
  <1>. DEFINE tried == {"record", "recount", "disable"}
  <1>1. UNCHANGED <<clock, nextAt, read, charged, attempted, cut, faults>> /\ pc[r] \in Counting
    BY DEF RecordSuccess, RecordFailure, Recount, DisableSchedule, Goto, row, ghosts, bounds, Counting
  <1>2. \/ NextTenant(r)
        \/ \E from, to \in Counting : Goto(r, from, to) /\ UNCHANGED due /\ (from \in tried => to \in tried)
    BY DEF RecordSuccess, RecordFailure, Recount, DisableSchedule, Counting
  <1>3. /\ pc' \in [Runs -> {"idle"} \cup Charging \cup Catching \cup Counting]
        /\ due' \in [Runs -> Seq(DueRows)] /\ RunRight(r)' /\ \A s \in Runs : s = r
        /\ pc'[r] \in {"idle", "status"} \cup Counting
        /\ pc[r] \in tried => pc'[r] \in {"idle", "status"} \cup tried
    <2>1. CASE NextTenant(r)
      BY <1>1, <2>1, RunGoesOn DEF Counting
    <2>2. ASSUME NEW from \in Counting, NEW to \in Counting, Goto(r, from, to), UNCHANGED due,
                 from \in tried => to \in tried
          PROVE  <1>3!1 /\ <1>3!2 /\ <1>3!3 /\ <1>3!4
      <3>1. /\ pc' \in [Runs -> {"idle"} \cup Charging \cup Catching \cup Counting]
            /\ pc[r] = from /\ pc'[r] = to /\ due' = due /\ due[r] # << >> /\ \A s \in Runs : s = r
        BY <2>2, RunMoves DEF Counting
      <3>. QED
        BY <1>1, <2>2, <3>1 DEF ScheduleInv, ScheduleTypes, RunRight, Tenant, Charging, Catching, Counting
    <2>. QED
      BY <1>2, <2>1, <2>2
  <1>4. ScheduleTypes'
    BY <1>1, <1>3 DEF ScheduleInv, ScheduleTypes
  <1>5. ChargesRight'
    BY <1>1, <1>3 DEF ScheduleInv, ChargesRight, Pending, Counting
  <1>6. PeriodsRight'
    BY <1>1, <1>3 DEF ScheduleInv, PeriodsRight, Charging, Catching, Counting
  <1>. QED
    BY <1>3, <1>4, <1>5, <1>6 DEF ScheduleInv

\* A run that ends before the schedule is advanced leaves its period cut.
LEMMA RunsEnd ==
    ASSUME ScheduleInv, NEW ended \in SUBSET Runs, EndRuns(ended), faults' \in Nat, faults' = 0 => faults = 0,
           UNCHANGED <<clock, nextAt, read, charged, attempted>>
    PROVE  ScheduleInv'
  <1>1. /\ pc' = [r \in Runs |-> IF r \in ended THEN "idle" ELSE pc[r]]
        /\ due' = [r \in Runs |-> IF r \in ended THEN << >> ELSE due[r]]
        /\ cut' = [t \in Tenants |->
                      cut[t] \cup {Head(due[r]).period : r \in {s \in ended : CutOff(s) /\ Tenant(s) = t}}]
    BY DEF EndRuns
  <1>2. \A s \in ended : CutOff(s) => Head(due[s]).period \in Nat /\ Tenant(s) \in Tenants
    BY RunAt DEF CutOff
  <1>3. cut' \in [Tenants -> SUBSET Nat] /\ \A t \in Tenants : cut[t] \subseteq cut'[t]
    BY <1>1, <1>2 DEF ScheduleInv, ScheduleTypes
  <1>4. /\ pc' \in [Runs -> {"idle"} \cup Charging \cup Catching \cup Counting]
        /\ due' \in [Runs -> Seq(DueRows)]
    BY <1>1 DEF ScheduleInv, ScheduleTypes
  <1>5. \A r \in Runs : IF r \in ended THEN pc'[r] = "idle" /\ due'[r] = << >> ELSE pc'[r] = pc[r] /\ due'[r] = due[r]
    BY <1>1
  <1>6. ScheduleTypes'
    BY <1>3, <1>4 DEF ScheduleInv, ScheduleTypes
  <1>7. ASSUME NEW r \in Runs PROVE RunRight(r)'
    <2>1. CASE r \in ended
      BY <1>5, <2>1 DEF RunRight, Charging, Catching, Counting
    <2>2. CASE r \notin ended
      BY <1>5, <2>2 DEF ScheduleInv, RunRight, Tenant
    <2>. QED
      BY <2>1, <2>2
  <1>8. ChargesRight'
    <2>. SUFFICES ASSUME NEW q \in Tenants, NEW n \in Periods \ cut'[q]
                  PROVE  /\ charged[q][n] <= 1
                         /\ charged[q][n] # 0 => n < nextAt[q] \/ \E r \in Runs : Pending(r, q, n)'
      BY DEF ChargesRight
    <2>1. /\ charged[q][n] <= 1
          /\ charged[q][n] # 0 => n < nextAt[q] \/ \E r \in Runs : Pending(r, q, n)
      BY <1>3 DEF ScheduleInv, ChargesRight
    <2>2. ASSUME NEW r \in Runs, Pending(r, q, n), ~(n < nextAt[q]) PROVE r \notin ended
      <3>1. nextAt[q] \in Nat /\ n \in Int
        BY ScheduleTopupAssumption DEF ScheduleInv, ScheduleTypes, Periods
      <3>2. CutOff(r) /\ Tenant(r) = q /\ Head(due[r]).period = n
        BY <2>2, <3>1 DEF CutOff, Pending
      <3>. QED
        BY <1>1, <3>2
    <2>3. ASSUME NEW r \in Runs, Pending(r, q, n), ~(n < nextAt[q]) PROVE Pending(r, q, n)'
      BY <1>5, <2>2, <2>3 DEF Pending, Tenant
    <2>. QED
      BY <2>1, <2>3
  <1>9. PeriodsRight'
    <2>. SUFFICES ASSUME faults = 0 PROVE PeriodsRight'
      BY DEF PeriodsRight
    <2>1. \A r \in Runs : pc'[r] \notin Catching \cup {"caughtFail", "caughtCount", "caughtDisable"}
      BY <1>5 DEF ScheduleInv, PeriodsRight, Catching
    <2>2. ASSUME NEW r \in Runs, pc'[r] \in Charging \ {"status"} PROVE Head(due'[r]).period \in attempted[Tenant(r)']
      BY <1>5, <2>2 DEF ScheduleInv, PeriodsRight, Charging, Tenant
    <2>. QED
      BY <2>1, <2>2 DEF ScheduleInv, PeriodsRight, Catching
  <1>. QED
    BY <1>6, <1>7, <1>8, <1>9 DEF ScheduleInv

\* A statement throws.
LEMMA RunThrows ==
    ASSUME OneRun, ScheduleInv, NEW r \in Runs, Throws(r)
    PROVE  ScheduleInv'
  <1>1. faults' = faults + 1 /\ UNCHANGED <<clock, nextAt, read, charged, attempted>>
    BY DEF Throws, row
  <1>2. faults' \in Nat /\ faults' # 0
    BY <1>1 DEF ScheduleInv, ScheduleTypes
  <1>3. CASE EndRuns({r})
    BY <1>1, <1>2, <1>3, RunsEnd
  <1>4. CASE /\ pc[r] \in {"advance", "advanceWrite", "record", "recount", "disable"}
             /\ pc' = [pc EXCEPT ![r] = "caught"] /\ UNCHANGED <<due, cut>>
    <2>1. /\ pc' \in [Runs -> {"idle"} \cup Charging \cup Catching \cup Counting] /\ pc'[r] = "caught"
          /\ due[r] # << >> /\ \A s \in Runs : s = r
      BY <1>4, RunAt DEF ScheduleInv, ScheduleTypes, OneRun, Catching
    <2>2. Tenant(r)' = Tenant(r) /\ Tenant(r) \in Tenants /\ Head(due[r]).period \in Nat
      BY <1>4, RunAt DEF Tenant
    <2>3. ScheduleTypes'
      BY <1>1, <1>2, <1>4, <2>1 DEF ScheduleInv, ScheduleTypes
    <2>4. RunRight(r)'
      BY <1>1, <1>4, <2>1, <2>2 DEF ScheduleInv, ScheduleTypes, RunRight, Charging, Catching, Counting
    <2>5. ChargesRight'
      BY <1>1, <1>4, <2>1, <2>2 DEF ScheduleInv, ChargesRight, Pending
    <2>6. PeriodsRight'
      BY <1>2 DEF PeriodsRight
    <2>. QED
      BY <2>1, <2>3, <2>4, <2>5, <2>6 DEF ScheduleInv
  <1>. QED
    BY <1>3, <1>4 DEF Throws

\* Every step keeps the schedule right.
LEMMA ScheduleStepInv ==
    ASSUME OneRun, ScheduleInv, [ScheduleNext]_scheduleVars
    PROVE  ScheduleInv'
  <1>1. CASE Tick \/ UNCHANGED scheduleVars
    <2>1. UNCHANGED <<nextAt, pc, due, read, charged, attempted, cut, faults>> /\ clock' \in Nat
      BY <1>1 DEF Tick, scheduleVars, row, runState, ghosts, bounds, ScheduleInv, ScheduleTypes
    <2>2. ScheduleTypes'
      BY <2>1 DEF ScheduleInv, ScheduleTypes
    <2>3. \A r \in Runs : RunRight(r)'
      BY <2>1 DEF ScheduleInv, RunRight, Tenant
    <2>4. ChargesRight'
      BY <2>1 DEF ScheduleInv, ChargesRight, Pending, Tenant
    <2>5. PeriodsRight'
      BY <2>1 DEF ScheduleInv, PeriodsRight, Tenant
    <2>. QED
      BY <2>2, <2>3, <2>4, <2>5 DEF ScheduleInv
  <1>2. CASE Crash
    BY <1>2, RunsEnd DEF Crash, row, ScheduleInv, ScheduleTypes
  <1>3. ASSUME NEW r \in Runs, Start(r) PROVE ScheduleInv'
    BY <1>3, RunStarts
  <1>4. ASSUME NEW r \in Runs, RunStep(r) PROVE ScheduleInv'
    BY <1>4, RunCharges, RunReads, RunAdvances, RunRecords DEF RunStep
  <1>5. ASSUME NEW r \in Runs, Throws(r) PROVE ScheduleInv'
    BY <1>5, RunThrows
  <1>. QED
    BY <1>1, <1>2, <1>3, <1>4, <1>5 DEF ScheduleNext

\* A period is charged once unless its run was cut off between the charge and
\* the advance, and none is skipped while nothing throws
\* (auto-topup-schedule.ts), when the runs do not overlap.
THEOREM ScheduleIsSafe == OneRun => (ScheduleSpec => []ScheduleSafe)
  <1>. SUFFICES ASSUME OneRun PROVE ScheduleSpec => []ScheduleSafe
    OBVIOUS
  <1>1. ScheduleInv => ScheduleSafe
    <2>. SUFFICES ASSUME ScheduleInv PROVE ScheduleSafe
      OBVIOUS
    <2>1. ChargedOncePerPeriod
      BY DEF ScheduleInv, ChargesRight, ChargedOncePerPeriod
    <2>2. ASSUME faults = 0, NEW t \in Tenants, NEW p \in Periods, p < nextAt[t], p % Interval = 0
          PROVE  p \in attempted[t]
      <3>1. Interval \in Nat \ {0} /\ p \in Nat
        BY ScheduleTopupAssumption DEF Periods
      <3>2. p = (p \div Interval) * Interval /\ p \div Interval \in Nat
        BY <2>2, <3>1
      <3>. QED
        BY <2>2, <3>2 DEF ScheduleInv, PeriodsRight
    <2>. QED
      BY <2>1, <2>2 DEF ScheduleSafe, NoPeriodSkipped
  <1>. QED
    BY <1>1, ScheduleInitInv, ScheduleStepInv, PTL DEF ScheduleSpec

-----------------------------------------------------------------------------
(* Sign-up, administrators and requests                                     *)

RoleNames == {"none", "user", "tenant_admin", "platform_admin"}
HookPlaces == {"none", "creator", "create", "promote", "verify", "done"}
ClerkRows == [do : {"none", "set", "remove", "dismiss"}, p : Persons \cup {"none"}, realm : Realms, to : RoleNames]

Admins == {p \in Persons : isPlatformAdmin(p)}

AccessTypes ==
    /\ door \in Doors
    /\ creator \in {"unset", "admin", "plain"}
    /\ signup \in [Persons -> HookPlaces]
    /\ grants \in [Persons -> [Realms -> RoleNames]]
    /\ clerk \in [Clerks -> ClerkRows]

\* Who has the creator that promotes is alone, and counted right unless outrun.
HookAlone ==
    /\ ~outrun => /\ promoted = {}
                  /\ Bootstrapping => Admins = {}
    /\ \A p \in Persons : signup[p] = "promote" =>
         /\ creator = "plain"
         /\ \A q \in Persons : signup[q] = "promote" => q = p

\* Clerk c is about to take the platform away from somebody.
Removes(c) == clerk[c].do # "none" /\ clerk[c].realm = "*" /\ clerk[c].to # "platform_admin"

ClerksWork ==
    \A c \in Clerks :
        /\ clerk[c] # NoClerk => clerk[c].do # "none" /\ clerk[c].p \in Persons
        /\ clerk[c].do \in {"remove", "dismiss"} => clerk[c].to = "none"

\* The one removal under way leaves somebody else.
OneRemains ==
    ~lapse =>
        /\ had => Admins # {}
        /\ \A c \in Clerks : Removes(c) =>
             /\ clerk[c].do = "dismiss" /\ had /\ \E q \in Admins : q # clerk[c].p
             /\ \A d \in Clerks : Removes(d) => d = c

\* A request that will act was allowed to.
RequestsChecked ==
    /\ member \subseteq door.members
    /\ asking \in [Asking -> [pc : {"none", "check", "act", "refused", "done"}, ask : Asks \cup {NoAsk}]]
    /\ \A q \in Asking :
         /\ asking[q].pc \in {"check", "act"} => asking[q].ask \in Asks /\ authenticate(asking[q].ask)
         /\ asking[q].pc = "act" => InOwnTenant(<<asking[q].ask.by, asking[q].ask.who, Subject(asking[q].ask)>>)
    /\ ActsInOwnTenant

AccessInv == AccessTypes /\ HookAlone /\ ClerksWork /\ OneRemains /\ RequestsChecked

\* The count of the administrators tells whether there is one, and whether
\* there is another.
LEMMA AdminsCounted ==
    /\ countPlatformAdmins \in Nat
    /\ countPlatformAdmins = 0 <=> Admins = {}
    /\ \A p \in Persons : countPlatformAdmins > 1 => \E q \in Admins : q # p
  <1>1. IsFiniteSet(Admins) /\ Cardinality(Admins) \in Nat /\ countPlatformAdmins = Cardinality(Admins)
    <2>1. Admins \subseteq Persons
      BY DEF Admins
    <2>2. countPlatformAdmins = Cardinality(Admins)
      BY DEF Admins, countPlatformAdmins
    <2>. QED
      BY <2>1, <2>2, AccessAssumption, FS_Subset, FS_CardinalityType
  <1>2. ASSUME NEW p \in Persons, Cardinality(Admins) > 1 PROVE \E q \in Admins : q # p
    <2>. SUFFICES ASSUME \A q \in Admins : q = p PROVE FALSE
      OBVIOUS
    <2>1. Admins \subseteq {p}
      OBVIOUS
    <2>2. Cardinality({p}) = 1 /\ IsFiniteSet({p})
      BY FS_Singleton
    <2>. QED
      BY <1>1, <1>2, <2>1, <2>2, FS_Subset
  <1>. QED
    BY <1>1, <1>2, FS_EmptySet

LEMMA AccessInitInv == AccessInit => AccessInv
  <1>. SUFFICES ASSUME AccessInit PROVE AccessInv
    OBVIOUS
  <1>1. AccessTypes
    BY DEF AccessInit, AccessTypes, HookPlaces, RoleNames, ClerkRows, NoClerk, Realms
  <1>2. Admins = door.admins
    BY AccessAssumption DEF AccessInit, Admins, isPlatformAdmin, Realms
  <1>3. HookAlone
    BY DEF AccessInit, HookAlone, Bootstrapping
  <1>4. ClerksWork /\ OneRemains
    BY <1>2 DEF AccessInit, ClerksWork, OneRemains, Removes, NoClerk
  <1>5. RequestsChecked
    BY DEF AccessInit, RequestsChecked, ActsInOwnTenant
  <1>. QED
    BY <1>1, <1>3, <1>4, <1>5 DEF AccessInv

\* Steps of requests do not touch the roles, and steps about roles no request.
LEMMA RolesKept ==
    ASSUME AccessInv, UNCHANGED <<door, grants, creator, signup, promoted, had, outrun, lapse, clerk>>
    PROVE  (AccessTypes /\ HookAlone /\ ClerksWork /\ OneRemains)'
  BY DEF AccessInv, AccessTypes, HookAlone, Bootstrapping, ClerksWork, OneRemains, Removes, Admins, isPlatformAdmin

LEMMA RequestsKept ==
    ASSUME AccessInv, UNCHANGED <<door, requests>>
    PROVE  RequestsChecked'
  BY DEF AccessInv, RequestsChecked, requests, ActsInOwnTenant, InOwnTenant

LEMMA ClerksKept ==
    ASSUME AccessInv, UNCHANGED <<clerk, lapse, grants, had>>
    PROVE  (ClerksWork /\ OneRemains)'
  BY DEF AccessInv, ClerksWork, OneRemains, Removes, Admins, isPlatformAdmin

\* A role that is written changes the administrators by one at most.
LEMMA RoleWritten ==
    ASSUME AccessTypes, NEW p \in Persons, NEW realm \in Realms, NEW r \in RoleNames,
           grants' = [grants EXCEPT ![p][realm] = r]
    PROVE  /\ grants' \in [Persons -> [Realms -> RoleNames]]
           /\ Admins' = IF realm # "*" THEN Admins ELSE IF r = "platform_admin" THEN Admins \cup {p} ELSE Admins \ {p}
  <1>1. grants' \in [Persons -> [Realms -> RoleNames]]
    BY DEF AccessTypes
  <1>2. \A q \in Persons : grants'[q]["*"] = IF q = p /\ realm = "*" THEN r ELSE grants[q]["*"]
    BY DEF AccessTypes, Realms
  <1>. QED
    BY <1>1, <1>2 DEF Admins, isPlatformAdmin

-----------------------------------------------------------------------------

LEMMA SignUpInv ==
    ASSUME AccessInv, NEW p \in Persons, NEW via, SignUp(p, via)
    PROVE  AccessInv'
  <1>. USE DEF SignUp, desks
  <1>1. AccessTypes'
    BY DEF AccessInv, AccessTypes, HookPlaces
  <1>2. HookAlone'
    BY DEF AccessInv, HookAlone, Bootstrapping, AccessTypes, Admins, isPlatformAdmin
  <1>. QED
    BY <1>1, <1>2, RequestsKept, ClerksKept DEF AccessInv

LEMMA GetUserCreatorInv ==
    ASSUME AccessInv, NEW p \in Persons, getUserCreator(p)
    PROVE  AccessInv'
  <1>. USE DEF getUserCreator, desks
  <1>1. AccessTypes'
    BY DEF AccessInv, AccessTypes, HookPlaces
  <1>2. creator' = "admin" => creator = "admin" \/ Admins = {}
    BY AdminsCounted
  <1>3. \A q \in Persons : signup'[q] = "promote" => signup[q] = "promote"
    BY DEF AccessInv, AccessTypes
  <1>4. creator' # creator => creator = "unset"
    OBVIOUS
  <1>5. Admins' = Admins
    BY DEF Admins, isPlatformAdmin
  <1>6. HookAlone'
    BY <1>2, <1>3, <1>4, <1>5 DEF AccessInv, HookAlone, Bootstrapping
  <1>. QED
    BY <1>1, <1>6, RequestsKept, ClerksKept DEF AccessInv

LEMMA CreateUserInv ==
    ASSUME AccessInv, NEW p \in Persons, createUser(p)
    PROVE  AccessInv'
  <1>. USE DEF createUser, desks
  <1>1. AccessTypes'
    BY DEF AccessInv, AccessTypes, HookPlaces
  <1>2. Admins' = Admins
    BY DEF Admins, isPlatformAdmin
  <1>3. HookAlone'
    <2>1. CASE creator = "admin"
      <3>1. \A q \in Persons : signup'[q] = "promote" <=> q = p
        BY <2>1 DEF AccessInv, AccessTypes, HookAlone
      <3>. QED
        BY <2>1, <3>1, <1>2 DEF AccessInv, HookAlone, Bootstrapping
    <2>2. CASE creator # "admin"
      <3>1. \A q \in Persons : signup'[q] = "promote" => signup[q] = "promote"
        BY <2>2 DEF AccessInv, AccessTypes
      <3>. QED
        BY <2>2, <3>1, <1>2 DEF AccessInv, HookAlone, Bootstrapping
    <2>. QED
      BY <2>1, <2>2
  <1>. QED
    BY <1>1, <1>3, RequestsKept, ClerksKept DEF AccessInv

LEMMA PromoteInv ==
    ASSUME AccessInv, NEW p \in Persons, promote(p)
    PROVE  AccessInv'
  <1>. USE DEF promote, desks
  <1>1. ~outrun => Admins = {} /\ countPlatformAdmins = 0
    BY AdminsCounted DEF AccessInv, HookAlone, Bootstrapping
  <1>2. \A q \in Persons : signup'[q] # "promote"
    BY DEF AccessInv, AccessTypes, HookAlone
  <1>3. CASE grants' = [grants EXCEPT ![p]["*"] = "platform_admin"] /\ creator' = "plain" /\ had' = TRUE
             /\ promoted' = IF countPlatformAdmins > 0 THEN promoted \cup {p} ELSE promoted
    <2>1. grants' \in [Persons -> [Realms -> RoleNames]] /\ Admins' = Admins \cup {p}
      BY <1>3, RoleWritten DEF AccessInv, RoleNames, Realms
    <2>2. AccessTypes'
      BY <2>1, <1>3 DEF AccessInv, AccessTypes, HookPlaces
    <2>3. HookAlone'
      BY <1>1, <1>2, <1>3 DEF AccessInv, HookAlone, Bootstrapping
    <2>4. ClerksWork' /\ OneRemains'
      BY <2>1, <1>3 DEF AccessInv, ClerksWork, OneRemains, Removes
    <2>. QED
      BY <2>2, <2>3, <2>4, RequestsKept DEF AccessInv
  <1>4. CASE creator' = "admin" /\ UNCHANGED <<grants, had, promoted>>
    <2>1. AccessTypes'
      BY <1>4 DEF AccessInv, AccessTypes, HookPlaces
    <2>2. Admins' = Admins
      BY <1>4 DEF Admins, isPlatformAdmin
    <2>3. HookAlone'
      BY <1>1, <1>2, <1>4, <2>2 DEF AccessInv, HookAlone, Bootstrapping
    <2>. QED
      BY <1>4, <2>1, <2>3, RequestsKept, ClerksKept DEF AccessInv
  <1>. QED
    BY <1>3, <1>4 DEF setRole

\* The other steps of a newcomer leave the promotions alone.
LEMMA NewcomerInv ==
    ASSUME AccessInv, UNCHANGED <<door, grants, creator, promoted, had, desks, requests>>,
           signup' \in [Persons -> HookPlaces],
           \A q \in Persons : signup'[q] = "promote" => signup[q] = "promote"
    PROVE  AccessInv'
  <1>. USE DEF desks
  <1>1. AccessTypes' /\ Admins' = Admins
    BY DEF AccessInv, AccessTypes, Admins, isPlatformAdmin
  <1>2. HookAlone'
    BY <1>1 DEF AccessInv, HookAlone, Bootstrapping
  <1>. QED
    BY <1>1, <1>2, RequestsKept, ClerksKept DEF AccessInv

LEMMA RebootInv ==
    ASSUME AccessInv, Reboot
    PROVE  AccessInv'
  <1>. USE DEF Reboot, desks
  <1>1. AccessTypes' /\ Admins' = Admins
    BY DEF AccessInv, AccessTypes, HookPlaces, Admins, isPlatformAdmin
  <1>2. \A q \in Persons : signup'[q] # "promote"
    OBVIOUS
  <1>3. HookAlone'
    BY <1>1, <1>2 DEF AccessInv, HookAlone, Bootstrapping
  <1>. QED
    BY <1>1, <1>3, RequestsKept, ClerksKept DEF AccessInv

-----------------------------------------------------------------------------

LEMMA IntendInv ==
    ASSUME AccessInv, NEW c \in Clerks, NEW do \in {"set", "remove", "dismiss"}, NEW p \in Persons,
           NEW realm \in Realms, NEW to \in RoleNames, Intend(c, do, p, realm, to),
           do # "set" => to = "none",
           do = "dismiss" => ~(countPlatformAdmins <= 1 /\ isPlatformAdmin(p))
    PROVE  AccessInv'
  <1>. USE DEF Intend, signups
  <1>. DEFINE next == [do |-> do, p |-> p, realm |-> realm, to |-> to]
  <1>1. next \in ClerkRows /\ next # NoClerk
    BY DEF ClerkRows, NoClerk
  <1>2. clerk' \in [Clerks -> ClerkRows] /\ \A d \in Clerks : clerk'[d] = IF d = c THEN next ELSE clerk[d]
    BY <1>1 DEF AccessInv, AccessTypes
  <1>3. AccessTypes' /\ Admins' = Admins
    BY <1>2 DEF AccessInv, AccessTypes, Admins, isPlatformAdmin
  <1>4. HookAlone'
    BY <1>3 DEF AccessInv, HookAlone, Bootstrapping
  <1>5. ClerksWork'
    BY <1>2 DEF AccessInv, ClerksWork
  <1>6. OneRemains'
    <2>. SUFFICES ASSUME ~lapse' PROVE OneRemains'
      BY DEF OneRemains
    <2>1. ~lapse
      OBVIOUS
    <2>2. CASE realm = "*" /\ to # "platform_admin"
      <3>1. do = "dismiss" /\ had /\ \A d \in Clerks : clerk[d] = NoClerk
        BY <2>2
      <3>2. \A d \in Clerks : Removes(d)' => d = c
        BY <1>2, <3>1 DEF Removes, NoClerk
      <3>3. Admins # {}
        BY <2>1, <3>1 DEF AccessInv, OneRemains
      <3>4. \E q \in Admins : q # p
        <4>1. CASE p \in Admins
          BY <3>1, <4>1, AdminsCounted DEF Admins
        <4>. QED
          BY <4>1, <3>3
      <3>. QED
        BY <1>2, <1>3, <3>1, <3>2, <3>3, <3>4 DEF OneRemains
    <2>3. CASE ~(realm = "*" /\ to # "platform_admin")
      <3>1. \A d \in Clerks : Removes(d)' => Removes(d) /\ clerk'[d] = clerk[d]
        BY <1>2, <2>3 DEF Removes
      <3>. QED
        BY <1>3, <2>1, <3>1 DEF AccessInv, OneRemains
    <2>. QED
      BY <2>2, <2>3
  <1>. QED
    BY <1>3, <1>4, <1>5, <1>6, RequestsKept DEF AccessInv

LEMMA WriteRoleInv ==
    ASSUME AccessInv, NEW c \in Clerks, writeRole(c)
    PROVE  AccessInv'
  <1>. USE DEF writeRole, signups
  <1>. DEFINE k == clerk[c]
  <1>1. k \in ClerkRows /\ k # NoClerk /\ k.do \in {"set", "remove", "dismiss"} /\ k.p \in Persons
        /\ k.realm \in Realms /\ k.to \in RoleNames /\ (k.do # "set" => k.to = "none")
    BY DEF AccessInv, AccessTypes, ClerksWork, ClerkRows
  <1>2. grants' = [grants EXCEPT ![k.p][k.realm] = k.to]
    BY <1>1 DEF setRole, removeRole
  <1>3. /\ grants' \in [Persons -> [Realms -> RoleNames]]
        /\ Admins' = IF k.realm # "*" THEN Admins ELSE IF k.to = "platform_admin" THEN Admins \cup {k.p} ELSE Admins \ {k.p}
    BY <1>1, <1>2, RoleWritten DEF AccessInv
  <1>4. had' <=> had \/ (k.realm = "*" /\ k.to = "platform_admin")
    BY <1>1 DEF setRole, removeRole
  <1>5. clerk' \in [Clerks -> ClerkRows] /\ \A d \in Clerks : clerk'[d] = IF d = c THEN NoClerk ELSE clerk[d]
    BY DEF AccessInv, AccessTypes, ClerkRows, NoClerk, RoleNames, Realms
  <1>6. AccessTypes'
    BY <1>3, <1>5 DEF AccessInv, AccessTypes
  <1>7. HookAlone'
    <2>1. ASSUME ~outrun', Bootstrapping PROVE Admins' = {}
      <3>1. k.to # "platform_admin" /\ ~outrun
        BY <2>1
      <3>. QED
        BY <1>3, <2>1, <3>1 DEF AccessInv, HookAlone
    <2>. QED
      BY <2>1 DEF AccessInv, HookAlone, Bootstrapping
  <1>8. ClerksWork'
    BY <1>5 DEF AccessInv, ClerksWork, NoClerk
  <1>9. OneRemains'
    <2>. SUFFICES ASSUME ~lapse PROVE OneRemains'
      BY DEF OneRemains
    <2>1. \A d \in Clerks : Removes(d)' => d # c /\ Removes(d) /\ clerk'[d] = clerk[d]
      BY <1>5 DEF Removes, NoClerk
    <2>2. CASE Removes(c)
      <3>1. \A d \in Clerks : ~Removes(d)'
        BY <2>1, <2>2 DEF AccessInv, OneRemains
      <3>2. Admins' # {}
        BY <1>3, <2>2 DEF AccessInv, OneRemains, Removes
      <3>. QED
        BY <3>1, <3>2 DEF OneRemains
    <2>3. CASE ~Removes(c)
      <3>1. Admins \subseteq Admins' /\ (k.realm = "*" /\ k.to = "platform_admin" => k.p \in Admins')
        BY <1>1, <1>3, <2>3 DEF Removes
      <3>2. had' => Admins' # {}
        BY <1>4, <3>1 DEF AccessInv, OneRemains
      <3>. QED
        BY <1>4, <2>1, <3>1, <3>2 DEF AccessInv, OneRemains
    <2>. QED
      BY <2>2, <2>3
  <1>. QED
    BY <1>6, <1>7, <1>8, <1>9, RequestsKept DEF AccessInv

-----------------------------------------------------------------------------

\* Whoever is authenticated and authorized acts where he may.
LEMMA AllowedIsOwn ==
    ASSUME NEW a \in Asks, authenticate(a), authorize(a), member \subseteq door.members
    PROVE  InOwnTenant(<<a.by, a.who, Subject(a)>>)
  <1>1. ASSUME NEW u, NEW t, findMembership(u, t) # {} PROVE \E m \in door.members : m[1] = u /\ m[2] = t
    BY <1>1 DEF findMembership
  <1>2. ASSUME isAuthed(a) PROVE InOwnTenant(<<a.by, a.who, tenantOf(a)>>)
    BY <1>1, <1>2 DEF isAuthed, validateTenantAccess, InOwnTenant
  <1>3. CASE a.door \in {"protected", "tenant", "admin"}
    BY <1>2, <1>3 DEF authorize, isAuthedWithTenant, Subject
  <1>4. CASE a.door \in {"orgMember", "orgAdmin"}
    BY <1>1, <1>4 DEF authorize, isOrgMember, Subject, InOwnTenant
  <1>5. CASE a.door = "owned"
    BY <1>5 DEF authorize, validateTenantOwnership, isOperatorToken, tokenTenantId, Subject, InOwnTenant
  <1>6. CASE a.door \in {"sessionOrToken", "dual"}
    BY <1>6 DEF Subject, InOwnTenant
  <1>. QED
    BY <1>3, <1>4, <1>5, <1>6 DEF authenticate

LEMMA RequestStepInv ==
    ASSUME AccessInv, NEW q \in Asking, checkRequest(q) \/ act(q) \/ \E a \in Asks : arrive(q, a)
    PROVE  AccessInv'
  <1>. USE DEF signups, desks
  <1>1. UNCHANGED <<door, grants, creator, signup, promoted, had, outrun, lapse, clerk, member>>
    BY DEF checkRequest, act, arrive
  <1>2. \A x : InOwnTenant(x)' = InOwnTenant(x)
    BY <1>1 DEF InOwnTenant
  <1>. DEFINE AskRows == [pc : {"none", "check", "act", "refused", "done"}, ask : Asks \cup {NoAsk}]
              Own(a) == InOwnTenant(<<a.by, a.who, Subject(a)>>)
  <1>3. asking \in [Asking -> AskRows]
    BY DEF AccessInv, RequestsChecked
  <1>4. ASSUME NEW next \in AskRows, asking' = [asking EXCEPT ![q] = next],
               next.ask \in Asks, authenticate(next.ask), next.pc = "act" => Own(next.ask),
               \/ touched' = touched
               \/ Own(next.ask) /\ touched' = touched \cup {<<next.ask.by, next.ask.who, Subject(next.ask)>>}
        PROVE  RequestsChecked'
    <2>1. asking' \in [Asking -> AskRows] /\ \A r \in Asking : asking'[r] = IF r = q THEN next ELSE asking[r]
      BY <1>3, <1>4
    <2>2. \A r \in Asking :
            /\ asking'[r].pc \in {"check", "act"} => asking'[r].ask \in Asks /\ authenticate(asking'[r].ask)
            /\ asking'[r].pc = "act" => Own(asking'[r].ask)
      BY <1>4, <2>1 DEF AccessInv, RequestsChecked
    <2>3. ActsInOwnTenant'
      BY <1>2, <1>4 DEF AccessInv, RequestsChecked, ActsInOwnTenant
    <2>4. member' \subseteq door'.members
      BY <1>1 DEF AccessInv, RequestsChecked
    <2>. QED
      BY <1>2, <2>1, <2>2, <2>3, <2>4 DEF RequestsChecked
  <1>. HIDE DEF Own
  <1>5. ASSUME checkRequest(q) PROVE RequestsChecked'
    <2>. DEFINE next == [asking[q] EXCEPT !.pc = IF authorize(asking[q].ask) THEN "act" ELSE "refused"]
    <2>1. asking[q] \in AskRows /\ asking[q].ask \in Asks /\ authenticate(asking[q].ask)
      BY <1>3, <1>5 DEF checkRequest, AccessInv, RequestsChecked
    <2>2. next \in AskRows /\ next.ask = asking[q].ask /\ (next.pc = "act" => authorize(next.ask))
      BY <2>1
    <2>3. next.pc = "act" => Own(next.ask)
      BY <2>1, <2>2, AllowedIsOwn DEF AccessInv, RequestsChecked, Own
    <2>4. asking' = [asking EXCEPT ![q] = next] /\ touched' = touched
      BY <1>3, <1>5 DEF checkRequest
    <2>. HIDE DEF next
    <2>. QED
      BY <1>4, <2>1, <2>2, <2>3, <2>4
  <1>7. ASSUME act(q) PROVE RequestsChecked'
    <2>. DEFINE next == [asking[q] EXCEPT !.pc = "done"]
    <2>1. asking[q] \in AskRows /\ asking[q].ask \in Asks /\ authenticate(asking[q].ask) /\ Own(asking[q].ask)
      BY <1>3, <1>7 DEF act, AccessInv, RequestsChecked, Own
    <2>2. next \in AskRows /\ next.ask = asking[q].ask /\ next.pc = "done"
      BY <2>1
    <2>3. asking' = [asking EXCEPT ![q] = next]
      BY <1>3, <1>7 DEF act
    <2>4. touched' = touched \cup {<<next.ask.by, next.ask.who, Subject(next.ask)>>}
      BY <1>7, <2>2 DEF act
    <2>. HIDE DEF next
    <2>. QED
      BY <1>4, <2>1, <2>2, <2>3, <2>4
  <1>8. ASSUME NEW a \in Asks, arrive(q, a) PROVE RequestsChecked'
    <2>. DEFINE next == [pc |-> "check", ask |-> a]
    <2>1. next \in AskRows /\ next.ask = a /\ next.pc = "check" /\ authenticate(a)
      BY <1>8 DEF arrive
    <2>2. asking' = [asking EXCEPT ![q] = next] /\ touched' = touched
      BY <1>8 DEF arrive
    <2>. HIDE DEF next
    <2>. QED
      BY <1>4, <2>1, <2>2
  <1>6. RequestsChecked'
    BY <1>5, <1>7, <1>8
  <1>. QED
    BY <1>1, <1>6, RolesKept DEF AccessInv

LEMMA LeaveInv ==
    ASSUME AccessInv, NEW m, leave(m)
    PROVE  AccessInv'
  <1>1. UNCHANGED <<door, grants, creator, signup, promoted, had, outrun, lapse, clerk, asking, touched>>
    BY DEF leave, signups, desks
  <1>2. \A x : InOwnTenant(x)' = InOwnTenant(x)
    BY <1>1 DEF InOwnTenant
  <1>3. RequestsChecked'
    BY <1>1, <1>2 DEF leave, AccessInv, RequestsChecked, ActsInOwnTenant
  <1>. QED
    BY <1>1, <1>3, RolesKept DEF AccessInv

LEMMA AccessNextInv == AccessInv /\ [AccessNext]_accessVars => AccessInv'
  <1>. SUFFICES ASSUME AccessInv, [AccessNext]_accessVars PROVE AccessInv'
    OBVIOUS
  <1>1. ASSUME NEW p \in Persons, \/ sendVerification(p) \/ tokenExpires(p) \/ verifyToken(p) \/ grantSignupCredits(p)
        PROVE  AccessInv'
    <2>1. UNCHANGED <<door, grants, creator, promoted, had, desks, requests>>
      BY <1>1 DEF sendVerification, tokenExpires, verifyToken, grantSignupCredits
    <2>2. /\ signup' \in [Persons -> HookPlaces]
          /\ \A q \in Persons : signup'[q] = "promote" => signup[q] = "promote"
      BY <1>1 DEF sendVerification, tokenExpires, verifyToken, grantSignupCredits, AccessInv, AccessTypes, HookPlaces
    <2>. QED
      BY <2>1, <2>2, NewcomerInv
  <1>2. ASSUME NEW c \in Clerks, NEW u, NEW p \in Persons,
               \/ addPlatformAdmin(c, u, p) \/ removePlatformAdmin(c, u, p)
               \/ \E r \in Realms : \/ removeTenantRole(c, u, r, p)
                                    \/ \E to \in {"tenant_admin", "user"} : setTenantRole(c, u, r, p, to)
        PROVE  AccessInv'
    <2>1. {"none", "user", "tenant_admin", "platform_admin"} = RoleNames /\ "*" \in Realms
      BY DEF RoleNames, Realms
    <2>2. CASE addPlatformAdmin(c, u, p)
      BY <2>1, <2>2, IntendInv DEF addPlatformAdmin
    <2>3. CASE removePlatformAdmin(c, u, p)
      BY <2>1, <2>3, IntendInv DEF removePlatformAdmin
    <2>4. ASSUME NEW r \in Realms, removeTenantRole(c, u, r, p) PROVE AccessInv'
      BY <2>1, <2>4, IntendInv DEF removeTenantRole
    <2>5. ASSUME NEW r \in Realms, NEW to \in {"tenant_admin", "user"}, setTenantRole(c, u, r, p, to) PROVE AccessInv'
      BY <2>1, <2>5, IntendInv DEF setTenantRole
    <2>. QED
      BY <1>2, <2>2, <2>3, <2>4, <2>5
  <1>3. CASE UNCHANGED accessVars
    BY <1>3, RolesKept, RequestsKept DEF accessVars, AccessInv, requests
  <1>4. CASE AccessNext
    BY <1>1, <1>2, <1>4, SignUpInv, GetUserCreatorInv, CreateUserInv, PromoteInv, RebootInv, WriteRoleInv,
       RequestStepInv, LeaveInv DEF AccessNext
  <1>. QED
    BY <1>3, <1>4

\* Access: the hook of a sign-up promotes nobody while there is an
\* administrator (unless the admin routes appointed one after it had counted),
\* an administrator remains, and every request acts where its sender may.
THEOREM AccessIsSafe == AccessSpec => []AccessSafe
  <1>1. AccessInv => AccessSafe
    BY AdminsCounted DEF AccessInv, AccessSafe, BootstrapOnce, AdminRemains, HookAlone, OneRemains, RequestsChecked
  <1>. QED
    BY <1>1, AccessInitInv, AccessNextInv, PTL DEF AccessSpec

-----------------------------------------------------------------------------
(* The vault                                                                *)

Ciphers == [by : {"absent", "plain", "old", "new"}, of : Rows \cup {"none", "credential-vault"}, val : Nat]
ListedRows == [row : Rows, held : Ciphers]
Passes == [kind : {"none", "rotation", "migration"}, todo : Seq(ListedRows), listed : SUBSET Rows,
           failed : SUBSET Rows, begun : BOOLEAN]

VaultTypes ==
    /\ sealed \in [Rows -> Ciphers]
    /\ newest \in [Rows -> Nat]
    /\ secret \in {"old", "new"}
    /\ pass \in Passes
    /\ keyWrites \in Nat
    /\ \A c \in KeyCallers : pen[c] # NoPen => pen[c].t \in KeyTenants

\* A row nobody exposed holds what was written last, or nothing.
RowRight(r) ==
    IF newest[r] = 0 THEN sealed[r] = Absent
    ELSE \/ sealed[r] = Plaintext(newest[r])
         \/ \E s \in {"old", "new"} : sealed[r] = encrypt(newest[r], Lock(s, r))

RowsRight == \A r \in Rows \ exposed : RowRight(r)

\* Nothing is under the new secret before a rotation has begun, and what is not
\* exposed is under it when the server runs on it.
SecretFits ==
    /\ ~pass.begun => \A r \in Rows : sealed[r].by # "new"
    /\ secret = "new" => pass.begun /\ pass.kind = "none" /\ \A r \in Rows \ exposed : sealed[r].by # "old"
    /\ tidy => \A r \in Rows : sealed[r].by # "plain"

InTodo(r) == \E i \in 1..Len(pass.todo) : pass.todo[i].row = r

\* What is still to be done was listed, once, and holds what the row holds.
TodoFits ==
    /\ pass.kind = "none" => pass.todo = << >> /\ pass.listed = {}
    /\ pass.kind # "none" => pass.listed \in {Creds, Rows}
    /\ pass.kind = "rotation" => pass.begun
    /\ \A i \in 1..Len(pass.todo) :
         /\ pass.todo[i].row \in pass.listed
         /\ pass.todo[i].row \notin exposed => pass.todo[i].held = sealed[pass.todo[i].row]
         /\ sealed[pass.todo[i].row].by = "plain" => pass.todo[i].held.by = "plain"
         /\ \A j \in 1..Len(pass.todo) : pass.todo[j].row = pass.todo[i].row => i = j

\* A pass has dealt with what it listed and has not before it any more.
PassDone ==
    /\ pass.kind = "rotation" =>
         \A r \in pass.listed \ exposed : sealed[r].by = "old" => r \in pass.failed \/ InTodo(r)
    /\ pass.kind = "migration" =>
         \A r \in pass.listed : sealed[r].by = "plain" => r \in pass.failed \/ InTodo(r)

VaultInv == VaultTypes /\ RowsRight /\ SecretFits /\ TodoFits /\ PassDone

LEMMA LockTypes ==
    ASSUME NEW r \in Rows, NEW s \in {"old", "new"}, NEW v \in Nat
    PROVE  /\ encrypt(v, Lock(s, r)) \in Ciphers /\ encrypt(v, Lock(s, r)).by = s /\ encrypt(v, Lock(s, r)).val = v
           /\ encrypt(v, Lock(s, r)).of = Lock(s, r).of
           /\ Plaintext(v) \in Ciphers /\ Plaintext(v).by = "plain"
           /\ Absent \in Ciphers /\ Absent.by = "absent" /\ Absent.val = 0
  BY DEF encrypt, Lock, Plaintext, Absent, Ciphers

\* What tells the rows apart that are not exposed.
LEMMA RowTold ==
    ASSUME NEW r \in Rows, VaultTypes, RowRight(r)
    PROVE  /\ Stored(r) <=> newest[r] # 0
           /\ Stored(r) => sealed[r].val = newest[r] /\ sealed[r].by \in {"plain", "old", "new"}
           /\ \A s \in {"old", "new"} : Stored(r) /\ sealed[r].by = s => opens(sealed[r], Lock(s, r))
           /\ \A s \in {"old", "new"} : opens(sealed[r], Lock(s, r)) => sealed[r].by = s
  <1>1. newest[r] \in Nat
    BY DEF VaultTypes
  <1>2. CASE newest[r] = 0
    BY <1>2 DEF RowRight, Stored, opens, Lock, Absent
  <1>3. CASE sealed[r] = Plaintext(newest[r]) /\ newest[r] # 0
    BY <1>3 DEF Stored, opens, Lock, Absent, Plaintext
  <1>4. ASSUME NEW s \in {"old", "new"}, sealed[r] = encrypt(newest[r], Lock(s, r)), newest[r] # 0
        PROVE  /\ Stored(r) /\ sealed[r].val = newest[r] /\ sealed[r].by = s /\ opens(sealed[r], Lock(s, r))
               /\ \A x \in {"old", "new"} : opens(sealed[r], Lock(x, r)) => x = s
    BY <1>1, <1>4 DEF Stored, opens, Lock, Absent, encrypt
  <1>. QED
    BY <1>2, <1>3, <1>4 DEF RowRight

\* No key opens a row that is not there.
LEMMA AbsentShut ==
    ASSUME NEW r \in Rows, VaultTypes, ~Stored(r)
    PROVE  ~opens(sealed[r], Lock(secret, r))
  <1>1. sealed[r].by = "absent" /\ secret # "absent"
    BY DEF Stored, Absent, VaultTypes
  <1>. QED
    BY <1>1 DEF opens, Lock

\* SetToSeq lists a finite set, each member once.
LEMMA ListsOnce ==
    ASSUME NEW S, IsFiniteSet(S)
    PROVE  /\ SetToSeq(S) \in Seq(S)
           /\ \A x \in S : \E i \in 1..Len(SetToSeq(S)) : SetToSeq(S)[i] = x
           /\ \A i, j \in 1..Len(SetToSeq(S)) : SetToSeq(S)[i] = SetToSeq(S)[j] => i = j
  <1>. DEFINE n == Cardinality(S)
  <1>1. n \in Nat /\ \E f \in Bijection(1..n, S) : TRUE
    BY FS_CardinalityType DEF ExistsBijection
  <1>2. PICK f \in [1..n -> S] : IsInjective(f)
    BY <1>1 DEF Bijection, Injection
  <1>3. SetToSeq(S) \in [1..n -> S] /\ IsInjective(SetToSeq(S))
    BY <1>2 DEF SetToSeq
  <1>4. SetToSeq(S) \in Injection(1..n, S)
    BY <1>3 DEF Injection
  <1>5. Cardinality(1..n) = Cardinality(S)
    BY <1>1, FS_Interval
  <1>6. SetToSeq(S) \in Surjection(1..n, S)
    BY <1>4, <1>5, FS_Injection
  <1>7. \A x \in S : \E i \in 1..n : SetToSeq(S)[i] = x
    BY <1>6 DEF Surjection
  <1>8. SetToSeq(S) \in Seq(S) /\ Len(SetToSeq(S)) = n
    BY <1>1, <1>3
  <1>9. \A i, j \in 1..n : SetToSeq(S)[i] = SetToSeq(S)[j] => i = j
    BY <1>3 DEF IsInjective
  <1>. QED
    BY <1>7, <1>8, <1>9

\* The list of rows of a pass.
LEMMA RowsListed ==
    ASSUME VaultTypes, NEW rows \in SUBSET Rows, IsFiniteSet(rows)
    PROVE  /\ List(rows) \in Seq(ListedRows)
           /\ \A i \in 1..Len(List(rows)) :
                /\ List(rows)[i].row \in rows /\ List(rows)[i].held = sealed[List(rows)[i].row]
                /\ \A j \in 1..Len(List(rows)) : List(rows)[j].row = List(rows)[i].row => i = j
           /\ \A r \in rows : sealed[r].by # "absent" => \E i \in 1..Len(List(rows)) : List(rows)[i].row = r
  <1>. DEFINE stored == {q \in rows : Stored(q)}
              item == [r \in stored |-> [row |-> r, held |-> sealed[r]]]
              S == {[row |-> r, held |-> sealed[r]] : r \in stored}
  <1>1. List(rows) = SetToSeq(S)
    BY DEF List
  <1>2. IsFiniteSet(stored)
    BY FS_Subset
  <1>3. IsFiniteSet(S)
    <2>1. item \in Surjection(stored, S)
      BY DEF Surjection
    <2>. QED
      BY <1>2, <2>1, FS_Surjection
  <1>4. \A x \in S : x \in ListedRows /\ x.row \in rows /\ x.held = sealed[x.row] /\ x = [row |-> x.row, held |-> sealed[x.row]]
    BY DEF VaultTypes, ListedRows
  <1>5. /\ SetToSeq(S) \in Seq(S)
        /\ \A x \in S : \E i \in 1..Len(SetToSeq(S)) : SetToSeq(S)[i] = x
        /\ \A i, j \in 1..Len(SetToSeq(S)) : SetToSeq(S)[i] = SetToSeq(S)[j] => i = j
    BY <1>3, ListsOnce
  <1>. HIDE DEF S
  <1>6. \A i \in 1..Len(SetToSeq(S)) : SetToSeq(S)[i] \in S
    BY <1>5
  <1>7. SetToSeq(S) \in Seq(ListedRows)
    BY <1>4, <1>5
  <1>8. ASSUME NEW r \in rows, sealed[r].by # "absent" PROVE \E i \in 1..Len(SetToSeq(S)) : SetToSeq(S)[i].row = r
    <2>1. [row |-> r, held |-> sealed[r]] \in S
      BY <1>8 DEF S, Stored, Absent
    <2>. QED
      BY <1>5, <2>1
  <1>9. ASSUME NEW i \in 1..Len(SetToSeq(S)), NEW j \in 1..Len(SetToSeq(S)), SetToSeq(S)[j].row = SetToSeq(S)[i].row
        PROVE  i = j
    <2>1. SetToSeq(S)[j] = SetToSeq(S)[i]
      BY <1>4, <1>6, <1>9
    <2>. QED
      BY <1>5, <2>1
  <1>. QED
    BY <1>1, <1>4, <1>6, <1>7, <1>8, <1>9

LEMMA VaultInitInv == VaultInit => VaultInv
  <1>. SUFFICES ASSUME VaultInit PROVE VaultInv
    OBVIOUS
  <1>1. ASSUME NEW r \in Rows
        PROVE  sealed[r] \in Ciphers /\ newest[r] \in Nat /\ RowRight(r) /\ sealed[r].by # "new"
    <2>1. Plaintext(1) \in Ciphers /\ encrypt(1, Lock("old", r)) \in Ciphers /\ Absent \in Ciphers
          /\ Plaintext(1).by # "new" /\ encrypt(1, Lock("old", r)).by # "new" /\ Absent.by # "new"
      BY LockTypes
    <2>2. CASE r \in safe.plain
      BY <2>1, <2>2 DEF VaultInit, RowRight
    <2>3. CASE r \notin safe.plain /\ r \in safe.sealed
      BY <2>1, <2>3 DEF VaultInit, RowRight
    <2>4. CASE r \notin safe.plain /\ r \notin safe.sealed
      BY <2>1, <2>4 DEF VaultInit, RowRight
    <2>. QED
      BY <2>2, <2>3, <2>4
  <1>2. pass \in Passes /\ pass.kind = "none" /\ pass.todo = << >> /\ pass.listed = {} /\ ~pass.begun
    BY DEF VaultInit, Still, Passes
  <1>3. VaultTypes
    BY <1>1, <1>2 DEF VaultInit, VaultTypes
  <1>. QED
    BY <1>1, <1>2, <1>3 DEF VaultInit, VaultInv, RowsRight, SecretFits, TodoFits, PassDone

-----------------------------------------------------------------------------

\* A row that is written by the server is right, or exposed.
LEMMA PutInv ==
    ASSUME VaultInv, NEW r \in Rows, NEW x, NEW v \in Nat, Put(r, x, v),
           \/ x = Absent /\ v = 0
           \/ x = encrypt(v, Lock(secret, r)) /\ v # 0,
           \A c \in KeyCallers : pen'[c] # NoPen => pen'[c].t \in KeyTenants
    PROVE  VaultInv'
  <1>. USE DEF Put
  <1>1. x \in Ciphers /\ x.by \in {"absent", secret}
    BY LockTypes DEF VaultInv, VaultTypes
  <1>2. \A q \in Rows : sealed'[q] = (IF q = r THEN x ELSE sealed[q]) /\ newest'[q] = (IF q = r THEN v ELSE newest[q])
    BY DEF VaultInv, VaultTypes
  <1>3. VaultTypes'
    BY <1>1 DEF VaultInv, VaultTypes
  <1>4. exposed \subseteq exposed' /\ (Behind(r) => r \in exposed') /\ pass' = pass /\ secret' = secret
    OBVIOUS
  <1>5. RowsRight'
    <2>1. ASSUME NEW q \in Rows \ exposed' PROVE RowRight(q)'
      <3>1. CASE q = r
        BY <1>2, <3>1 DEF RowRight, VaultInv, VaultTypes
      <3>2. CASE q # r
        BY <1>2, <1>4, <3>2 DEF RowRight, VaultInv, RowsRight
      <3>. QED
        BY <3>1, <3>2
    <2>. QED
      BY <2>1 DEF RowsRight
  <1>6. SecretFits'
    BY <1>1, <1>2, <1>4 DEF VaultInv, VaultTypes, SecretFits
  <1>7. TodoFits'
    <2>1. \A i \in 1..Len(pass.todo) : pass.todo[i].row \in Rows
      <3>1. pass.todo \in Seq(ListedRows)
        BY DEF VaultInv, VaultTypes, Passes
      <3>2. \A i \in 1..Len(pass.todo) : pass.todo[i] \in ListedRows
        BY <3>1
      <3>. QED
        BY <3>2 DEF ListedRows
    <2>2. \A i \in 1..Len(pass.todo) : pass.todo[i].row = r => r \in exposed'
      BY <1>4 DEF VaultInv, TodoFits, Behind
    <2>. QED
      BY <1>1, <1>2, <1>4, <2>1, <2>2 DEF VaultInv, VaultTypes, TodoFits
  <1>8. PassDone'
    <2>1. pass.listed \subseteq Rows
      BY DEF VaultInv, VaultTypes, Passes
    <2>2. r \in pass.listed => r \in exposed'
      BY <1>4 DEF Behind
    <2>. QED
      BY <1>1, <1>2, <1>4, <2>1, <2>2 DEF VaultInv, VaultTypes, PassDone, InTodo
  <1>. QED
    BY <1>3, <1>5, <1>6, <1>7, <1>8 DEF VaultInv

\* A step that leaves rows, pass and secret alone.
LEMMA VaultKept ==
    ASSUME VaultInv, UNCHANGED <<sealed, secret, pass, newest, exposed, tidy, keyWrites>>,
           \A c \in KeyCallers : pen'[c] # NoPen => pen'[c].t \in KeyTenants
    PROVE  VaultInv'
  BY DEF VaultInv, VaultTypes, RowsRight, RowRight, SecretFits, TodoFits, PassDone, InTodo, Stored

LEMMA CredentialInv ==
    ASSUME VaultInv, NEW r \in Creds, create(r) \/ rotate(r) \/ deleteCredential(r)
    PROVE  VaultInv'
  <1>1. r \in Rows /\ keyWrites + 2 \in Nat /\ keyWrites + 2 # 0
    BY DEF Rows, VaultInv, VaultTypes
  <1>2. \A c \in KeyCallers : pen'[c] # NoPen => pen'[c].t \in KeyTenants
    BY DEF create, rotate, deleteCredential, VaultInv, VaultTypes
  <1>. QED
    BY <1>1, <1>2, PutInv DEF create, rotate, deleteCredential

LEMMA TenantKeyInv ==
    ASSUME VaultInv, NEW t \in KeyTenants, deleteKey(t) \/ \E c \in KeyCallers : upsert(c, t)
    PROVE  VaultInv'
  <1>1. CASE deleteKey(t)
    BY <1>1, PutInv DEF deleteKey, Rows, VaultInv, VaultTypes
  <1>2. ASSUME NEW c \in KeyCallers, upsert(c, t) PROVE VaultInv'
    <2>1. \A d \in KeyCallers : pen'[d] # NoPen => pen'[d].t \in KeyTenants
      BY <1>2 DEF upsert, VaultInv, VaultTypes
    <2>. QED
      BY <1>2, <2>1, VaultKept DEF upsert
  <1>. QED
    BY <1>1, <1>2

LEMMA UpsertWriteInv ==
    ASSUME VaultInv, NEW c \in KeyCallers, upsertWrite(c)
    PROVE  VaultInv'
  <1>. DEFINE t == pen[c].t
  <1>1. t \in Rows /\ keyWrites + 2 \in Nat /\ keyWrites + 2 # 0
    BY DEF upsertWrite, Rows, VaultInv, VaultTypes
  <1>2. \A d \in KeyCallers : pen'[d] # NoPen => pen'[d].t \in KeyTenants
    BY DEF upsertWrite, VaultInv, VaultTypes
  <1>3. \/ Put(t, encrypt(keyWrites + 2, Lock(secret, t)), keyWrites + 2)
        \/ UNCHANGED <<sealed, secret, pass, newest, exposed, tidy, keyWrites>>
    BY DEF upsertWrite
  <1>. HIDE DEF t
  <1>. QED
    BY <1>1, <1>2, <1>3, PutInv, VaultKept

-----------------------------------------------------------------------------

LEMMA BeginPassInv ==
    ASSUME VaultInv, NEW kind \in {"rotation", "migration"}, beginPass(kind)
    PROVE  VaultInv'
  <1>. USE DEF beginPass
  <1>1. Creds \in SUBSET Rows /\ IsFiniteSet(Creds)
    BY VaultAssumption DEF Rows
  <1>2. /\ List(Creds) \in Seq(ListedRows)
        /\ \A i \in 1..Len(List(Creds)) :
                /\ List(Creds)[i].row \in Creds /\ List(Creds)[i].held = sealed[List(Creds)[i].row]
                /\ \A j \in 1..Len(List(Creds)) : List(Creds)[j].row = List(Creds)[i].row => i = j
        /\ \A r \in Creds : sealed[r].by # "absent" => \E i \in 1..Len(List(Creds)) : List(Creds)[i].row = r
    BY <1>1, RowsListed DEF VaultInv
  <1>3. /\ pass'.kind = kind /\ pass'.todo = List(Creds) /\ pass'.listed = Creds /\ pass'.failed = {}
        /\ pass'.begun = (pass.begun \/ kind = "rotation") /\ pass.begun \in BOOLEAN
    BY DEF VaultInv, VaultTypes, Passes
  <1>4. pass' \in Passes
    BY <1>1, <1>2, <1>3 DEF Passes
  <1>5. VaultTypes'
    BY <1>4 DEF VaultInv, VaultTypes
  <1>6. RowsRight' /\ SecretFits'
    BY <1>3 DEF VaultInv, RowsRight, RowRight, SecretFits
  <1>7. TodoFits'
    BY <1>2, <1>3 DEF TodoFits
  <1>8. PassDone'
    BY <1>2, <1>3 DEF PassDone, InTodo
  <1>. QED
    BY <1>5, <1>6, <1>7, <1>8 DEF VaultInv

LEMMA ListTenantKeysInv ==
    ASSUME VaultInv, listTenantKeys
    PROVE  VaultInv'
  <1>. USE DEF listTenantKeys
  <1>1. KeyTenants \in SUBSET Rows /\ IsFiniteSet(KeyTenants) /\ Rows = Creds \cup KeyTenants
    BY VaultAssumption DEF Rows
  <1>. DEFINE L == List(KeyTenants)
  <1>2. /\ L \in Seq(ListedRows)
        /\ \A i \in 1..Len(L) : /\ L[i].row \in KeyTenants /\ L[i].held = sealed[L[i].row]
                                /\ \A j \in 1..Len(L) : L[j].row = L[i].row => i = j
        /\ \A r \in KeyTenants : sealed[r].by # "absent" => \E i \in 1..Len(L) : L[i].row = r
    BY <1>1, RowsListed DEF VaultInv
  <1>. HIDE DEF L
  <1>3. /\ pass'.kind = pass.kind /\ pass'.todo = L /\ pass'.listed = Rows /\ pass'.failed = pass.failed
        /\ pass'.begun = pass.begun
    BY DEF VaultInv, VaultTypes, Passes, L
  <1>4. pass' \in Passes
    BY <1>2 DEF VaultInv, VaultTypes, Passes, L
  <1>5. VaultTypes'
    BY <1>4 DEF VaultInv, VaultTypes
  <1>6. RowsRight' /\ SecretFits'
    BY <1>3 DEF VaultInv, RowsRight, RowRight, SecretFits
  <1>7. TodoFits'
    BY <1>1, <1>2, <1>3 DEF VaultInv, TodoFits
  <1>8. PassDone'
    <2>1. \A r : ~InTodo(r)
      BY DEF InTodo
    <2>2. \A r \in KeyTenants : sealed[r].by # "absent" => InTodo(r)'
      BY <1>2, <1>3 DEF InTodo
    <2>. QED
      BY <1>1, <1>3, <2>1, <2>2 DEF VaultInv, PassDone
  <1>. QED
    BY <1>5, <1>6, <1>7, <1>8 DEF VaultInv

\* The head of the list is taken off it.
LEMMA HeadTaken ==
    ASSUME NEW s \in Seq(ListedRows), s # << >>
    PROVE  /\ Head(s) = s[1] /\ 1 \in 1..Len(s) /\ Tail(s) \in Seq(ListedRows)
           /\ \A i \in 1..Len(Tail(s)) : i + 1 \in 1..Len(s) /\ Tail(s)[i] = s[i + 1] /\ i + 1 # 1
           /\ \A i \in 1..Len(s) : i # 1 => i - 1 \in 1..Len(Tail(s)) /\ Tail(s)[i - 1] = s[i]
  OBVIOUS

LEMMA NextRowInv ==
    ASSUME VaultInv, nextRow
    PROVE  VaultInv'
  <1>0. PICK r, held, kind : r = Head(pass.todo).row /\ held = Head(pass.todo).held /\ kind = pass.kind
    OBVIOUS
  <1>. DEFINE new == IF kind = "rotation" THEN reEncrypted(r, held) ELSE encrypt(held.val, Lock(secret, r))
  <1>1. /\ pass \in Passes /\ pass.todo \in Seq(ListedRows) /\ pass.todo # << >> /\ kind \in {"rotation", "migration"}
        /\ secret = "old" /\ pass.listed \subseteq Rows /\ pass.failed \subseteq Rows
    BY <1>0 DEF nextRow, VaultInv, VaultTypes, TodoFits, SecretFits, Passes
  <1>2. /\ r \in Rows /\ held \in Ciphers /\ r \in pass.listed
        /\ r \notin exposed => held = sealed[r]
        /\ sealed[r].by = "plain" => held.by = "plain"
        /\ \A j \in 1..Len(pass.todo) : pass.todo[j].row = r => j = 1
    <2>1. pass.todo[1] \in ListedRows /\ Head(pass.todo) = pass.todo[1] /\ 1 \in 1..Len(pass.todo)
      BY <1>0, <1>1, HeadTaken
    <2>. QED
      BY <1>0, <2>1 DEF VaultInv, TodoFits, ListedRows
  <1>3. /\ pass'.kind = kind /\ pass'.todo = Tail(pass.todo) /\ pass'.listed = pass.listed /\ pass'.begun = pass.begun
        /\ \/ pass'.failed = pass.failed /\ sealed' = sealed /\ ~Concerns(kind, r, held)
           \/ pass'.failed = pass.failed /\ Concerns(kind, r, held)
                /\ sealed' = IF ~Stored(r) THEN sealed ELSE [sealed EXCEPT ![r] = new]
           \/ pass'.failed = pass.failed \cup {r} /\ sealed' = sealed
    BY <1>0, <1>1 DEF nextRow, Passes, KeyWorks, KeyFails
  <1>4. UNCHANGED <<secret, newest, exposed, tidy, keyWrites, pen>>
    BY DEF nextRow, calm
  <1>5. /\ new \in Ciphers /\ new.by \in {"old", "new"} /\ (kind = "migration" => new.by = "old")
        /\ (kind = "rotation" => new.by = "new")
        /\ \E s \in {"old", "new"} : new = encrypt(held.val, Lock(s, r))
    <2>1. held.val \in Nat
      BY <1>0, <1>2 DEF Ciphers
    <2>2. kind = "rotation" => new = encrypt(held.val, Lock("new", r))
      BY DEF reEncrypted
    <2>3. kind # "rotation" => new = encrypt(held.val, Lock("old", r))
      BY <1>0, <1>1
    <2>. HIDE DEF new
    <2>4. CASE kind = "rotation"
      BY <1>0, <1>2, <2>1, <2>2, <2>4, LockTypes
    <2>5. CASE kind = "migration"
      BY <1>0, <1>2, <2>1, <2>3, <2>5, LockTypes
    <2>. QED
      BY <1>0, <1>1, <2>4, <2>5
  <1>6. \A i \in 1..Len(pass'.todo) :
          i + 1 \in 1..Len(pass.todo) /\ pass'.todo[i] = pass.todo[i + 1] /\ pass.todo[i + 1].row # r
    BY <1>0, <1>1, <1>2, <1>3, HeadTaken
  <1>7. \A q : InTodo(q) => q = r \/ InTodo(q)'
    <2>1. ASSUME NEW q, InTodo(q), q # r PROVE InTodo(q)'
      <3>1. PICK i \in 1..Len(pass.todo) : pass.todo[i].row = q
        BY <2>1 DEF InTodo
      <3>2. i # 1
        BY <1>0, <1>1, <2>1, <3>1, HeadTaken
      <3>3. i - 1 \in 1..Len(pass'.todo) /\ pass'.todo[i - 1] = pass.todo[i]
        BY <1>1, <1>3, <3>2, HeadTaken
      <3>. QED
        BY <3>1, <3>3 DEF InTodo
    <2>. QED
      BY <2>1
  <1>8. pass' \in Passes
    <2>1. Tail(pass.todo) \in Seq(ListedRows)
      BY <1>0, <1>1, HeadTaken
    <2>2. \/ pass' = [pass EXCEPT !.todo = Tail(pass.todo)]
          \/ pass' = [pass EXCEPT !.todo = Tail(pass.todo), !.failed = pass.failed \cup {r}]
      BY <1>0, <1>1 DEF nextRow, Passes
    <2>3. r \in Rows
      BY <1>0, <1>2
    <2>. DEFINE tail == Tail(pass.todo)
    <2>. HIDE DEF tail
    <2>4. CASE pass' = [pass EXCEPT !.todo = Tail(pass.todo)]
      <3>1. pass' = [pass EXCEPT !.todo = tail] /\ tail \in Seq(ListedRows)
        BY <2>1, <2>4 DEF tail
      <3>. QED
        BY <1>0, <1>1, <3>1 DEF Passes
    <2>5. CASE pass' = [pass EXCEPT !.todo = Tail(pass.todo), !.failed = pass.failed \cup {r}]
      <3>1. pass' = [pass EXCEPT !.todo = tail, !.failed = pass.failed \cup {r}] /\ tail \in Seq(ListedRows)
            /\ pass.failed \cup {r} \in SUBSET Rows
        BY <1>0, <1>1, <2>1, <2>3, <2>5 DEF tail
      <3>. QED
        BY <1>0, <1>1, <3>1 DEF Passes
    <2>. QED
      BY <2>2, <2>4, <2>5
  <1>. HIDE DEF new
  <1>9. \A q \in Rows : q # r => sealed'[q] = sealed[q]
    BY <1>0, <1>3 DEF VaultInv, VaultTypes
  <1>10. \/ sealed'[r] = sealed[r]
         \/ sealed'[r] = new /\ Stored(r) /\ Concerns(kind, r, held)
    BY <1>0, <1>2, <1>3 DEF VaultInv, VaultTypes
  <1>11. VaultTypes'
    BY <1>0, <1>3, <1>4, <1>5, <1>8 DEF VaultInv, VaultTypes
  <1>12. RowsRight'
    <2>1. ASSUME r \notin exposed PROVE RowRight(r)'
      <3>1. RowRight(r) /\ held = sealed[r]
        BY <1>0, <1>2, <2>1 DEF VaultInv, RowsRight
      <3>2. Stored(r) => held.val = newest[r] /\ newest[r] # 0
        BY <1>0, <1>2, <3>1, RowTold DEF VaultInv
      <3>. QED
        <4>1. CASE sealed'[r] = sealed[r]
          BY <1>0, <1>4, <3>1, <4>1 DEF RowRight
        <4>2. CASE sealed'[r] = new /\ Stored(r)
          <5>1. \E s \in {"old", "new"} : sealed'[r] = encrypt(newest[r], Lock(s, r))
            BY <1>0, <1>5, <3>2, <4>2
          <5>. QED
            BY <1>4, <3>2, <4>2, <5>1 DEF RowRight
        <4>. QED
          BY <1>0, <1>10, <4>1, <4>2
    <2>2. ASSUME NEW q \in Rows \ exposed, q # r PROVE RowRight(q)'
      BY <1>0, <1>4, <1>9, <2>2 DEF VaultInv, RowsRight, RowRight
    <2>3. \A q \in Rows \ exposed : RowRight(q)'
      BY <2>1, <2>2
    <2>. QED
      BY <1>0, <1>4, <2>3 DEF RowsRight
  <1>13. SecretFits'
    <2>1. pass'.begun = pass.begun /\ (kind = "rotation" => pass.begun)
      BY <1>0, <1>3 DEF VaultInv, TodoFits
    <2>. QED
      BY <1>0, <1>1, <1>2, <1>4, <1>5, <1>9, <1>10, <2>1 DEF VaultInv, SecretFits
  <1>14. TodoFits'
    <2>1. \A i \in 1..Len(pass'.todo) : pass.todo[i + 1].row \in Rows
      BY <1>0, <1>1, <1>6 DEF VaultInv, TodoFits
    <2>2. ASSUME NEW i \in 1..Len(pass'.todo)
          PROVE  /\ pass'.todo[i].row \in pass'.listed
                 /\ pass'.todo[i].row \notin exposed' => pass'.todo[i].held = sealed'[pass'.todo[i].row]
                 /\ sealed'[pass'.todo[i].row].by = "plain" => pass'.todo[i].held.by = "plain"
      BY <1>0, <1>3, <1>4, <1>6, <1>9, <2>1 DEF VaultInv, TodoFits
    <2>3. ASSUME NEW i \in 1..Len(pass'.todo), NEW j \in 1..Len(pass'.todo), pass'.todo[j].row = pass'.todo[i].row
          PROVE  i = j
      <3>1. /\ i + 1 \in 1..Len(pass.todo) /\ j + 1 \in 1..Len(pass.todo)
            /\ pass.todo[j + 1].row = pass.todo[i + 1].row
        BY <1>0, <1>6, <2>3
      <3>2. i + 1 = j + 1
        BY <3>1 DEF VaultInv, TodoFits
      <3>. QED
        BY <3>2
    <2>. QED
      BY <1>0, <1>1, <1>3, <2>2, <2>3 DEF VaultInv, TodoFits
  <1>15. PassDone'
    <2>1. \A q : (q \in pass.failed \/ InTodo(q)) /\ q # r => q \in pass'.failed \/ InTodo(q)'
      BY <1>0, <1>3, <1>7
    <2>2. kind = "rotation" /\ r \notin exposed /\ sealed'[r].by = "old" => r \in pass'.failed
      <3>. SUFFICES ASSUME kind = "rotation", r \notin exposed, sealed'[r].by = "old", r \notin pass'.failed PROVE FALSE
        OBVIOUS
      <3>1. RowRight(r) /\ held = sealed[r] /\ sealed'[r] = sealed[r] /\ sealed'[r] # new
        BY <1>0, <1>2, <1>5, <1>10 DEF VaultInv, RowsRight
      <3>2. Stored(r)
        BY <3>1 DEF Stored, Absent
      <3>3. opens(held, Lock("old", r))
        BY <1>0, <1>2, <3>1, <3>2, RowTold DEF VaultInv
      <3>. QED
        BY <1>0, <1>2, <1>3, <3>1, <3>2, <3>3 DEF Concerns, VaultInv, VaultTypes
    <2>3. kind = "migration" /\ sealed'[r].by = "plain" => r \in pass'.failed
      <3>. SUFFICES ASSUME kind = "migration", sealed'[r].by = "plain", r \notin pass'.failed PROVE FALSE
        OBVIOUS
      <3>1. sealed'[r] = sealed[r] /\ sealed'[r] # new /\ Stored(r)
        BY <1>0, <1>5, <1>10 DEF Stored, Absent
      <3>2. held.by = "plain"
        BY <1>0, <1>2, <3>1
      <3>. QED
        BY <1>0, <1>2, <1>3, <3>1, <3>2 DEF Concerns, VaultInv, VaultTypes
    <2>4. ASSUME kind = "rotation", NEW q \in pass.listed \ exposed, sealed'[q].by = "old"
          PROVE  q \in pass'.failed \/ InTodo(q)'
      <3>1. CASE q = r
        BY <2>2, <2>4, <3>1
      <3>2. CASE q # r
        BY <1>0, <1>1, <1>9, <2>1, <2>4, <3>2 DEF VaultInv, PassDone
      <3>. QED
        BY <3>1, <3>2
    <2>5. ASSUME kind = "migration", NEW q \in pass.listed, sealed'[q].by = "plain"
          PROVE  q \in pass'.failed \/ InTodo(q)'
      <3>1. CASE q = r
        BY <2>3, <2>5, <3>1
      <3>2. CASE q # r
        BY <1>0, <1>1, <1>9, <2>1, <2>5, <3>2 DEF VaultInv, PassDone
      <3>. QED
        BY <3>1, <3>2
    <2>. QED
      BY <1>0, <1>3, <1>4, <2>4, <2>5 DEF PassDone
  <1>. QED
    BY <1>0, <1>11, <1>12, <1>13, <1>14, <1>15 DEF VaultInv

\* A pass ends, well or not.
LEMMA PassOverInv ==
    ASSUME VaultInv, endPass \/ passDies
    PROVE  VaultInv'
  <1>1. /\ pass'.kind = "none" /\ pass'.todo = << >> /\ pass'.listed = {} /\ pass'.begun = pass.begun
        /\ pass' \in Passes
    <2>1. PICK b \in BOOLEAN : b = pass.begun
      BY DEF VaultInv, VaultTypes, Passes
    <2>2. pass' = [kind |-> "none", todo |-> << >>, listed |-> {}, failed |-> {}, begun |-> b]
      BY <2>1 DEF endPass, passDies, Still
    <2>3. [kind |-> "none", todo |-> << >>, listed |-> {}, failed |-> {}, begun |-> b] \in Passes
      BY DEF Passes
    <2>. QED
      BY <2>1, <2>2, <2>3
  <1>2. UNCHANGED <<sealed, pen, newest, exposed, keyWrites>>
    BY DEF endPass, passDies
  <1>3. secret = "old" /\ pass.kind # "none"
    BY DEF endPass, passDies, VaultInv, VaultTypes, SecretFits
  <1>4. secret' \in {"old", "new"}
        /\ (secret' = "new" => endPass /\ pass.kind = "rotation" /\ pass.failed = {})
        /\ (tidy' => tidy \/ (endPass /\ pass.kind = "migration" /\ pass.failed = {}))
    <2>1. CASE endPass
      <3>1. /\ secret' \in {"old", "new"}
            /\ (secret' = "new" => pass.kind = "rotation" /\ pass.failed = {})
        BY <1>3, <2>1 DEF endPass
      <3>2. tidy' = (tidy \/ (pass.kind = "migration" /\ pass.failed = {}))
        BY <2>1 DEF endPass
      <3>. QED
        BY <2>1, <3>1, <3>2
    <2>2. CASE passDies
      BY <1>3, <2>2 DEF passDies
    <2>. QED
      BY <2>1, <2>2
  <1>5. endPass => pass.listed = Rows /\ \A r : ~InTodo(r)
    BY DEF endPass, InTodo
  <1>6. VaultTypes' /\ RowsRight'
    BY <1>1, <1>2, <1>4 DEF VaultInv, VaultTypes, RowsRight, RowRight
  <1>7. SecretFits'
    <2>1. ~pass'.begun => \A r \in Rows : sealed'[r].by # "new"
      BY <1>1, <1>2 DEF VaultInv, SecretFits
    <2>2. secret' = "new" => pass'.begun /\ \A r \in Rows \ exposed' : sealed'[r].by # "old"
      BY <1>1, <1>2, <1>4, <1>5 DEF VaultInv, PassDone, TodoFits
    <2>3. tidy' => \A r \in Rows : sealed'[r].by # "plain"
      BY <1>2, <1>4, <1>5 DEF VaultInv, PassDone, SecretFits
    <2>. QED
      BY <1>1, <2>1, <2>2, <2>3 DEF SecretFits
  <1>8. TodoFits' /\ PassDone'
    BY <1>1 DEF TodoFits, PassDone
  <1>. QED
    BY <1>6, <1>7, <1>8 DEF VaultInv

LEMMA VaultNextInv == VaultInv /\ [VaultNext]_vaultVars => VaultInv'
  <1>. SUFFICES ASSUME VaultInv, [VaultNext]_vaultVars PROVE VaultInv'
    OBVIOUS
  <1>1. ASSUME \/ \E r \in Creds, on \in BOOLEAN : setActive(r, on)
               \/ writeEncryptedSeed
               \/ UNCHANGED vaultVars
        PROVE  VaultInv'
    <2>1. UNCHANGED <<sealed, secret, pass, pen, newest, exposed, tidy, keyWrites>>
      BY <1>1 DEF setActive, writeEncryptedSeed, vaultVars
    <2>. QED
      BY <2>1, VaultKept DEF VaultInv, VaultTypes
  <1>. QED
    BY <1>1, CredentialInv, TenantKeyInv, UpsertWriteInv, BeginPassInv, ListTenantKeysInv, NextRowInv, PassOverInv
       DEF VaultNext

-----------------------------------------------------------------------------

\* A row nobody exposed opens and tells what was written last.
LEMMA Readable ==
    ASSUME VaultInv, NEW r \in Rows \ exposed, secret = "new" \/ ~pass.begun,
           r \notin auditCredentialEncryption
    PROVE  /\ Stored(r) <=> newest[r] # 0
           /\ Stored(r) => opens(sealed[r], Lock(secret, r)) /\ sealed[r].val = newest[r]
           /\ lookupKey(r) = IF newest[r] = 0 THEN << >> ELSE <<newest[r]>>
  <1>1. RowRight(r) /\ r \in Rows
    BY DEF VaultInv, RowsRight
  <1>2. sealed[r].by # "plain"
    BY DEF auditCredentialEncryption
  <1>3. Stored(r) => sealed[r].by = secret
    <2>1. Stored(r) => sealed[r].by \in {"old", "new"}
      BY <1>1, <1>2, RowTold DEF VaultInv
    <2>2. secret \in {"old", "new"}
      BY DEF VaultInv, VaultTypes
    <2>3. CASE secret = "new"
      BY <2>1, <2>3 DEF VaultInv, SecretFits
    <2>4. CASE secret = "old"
      BY <2>1, <2>4 DEF VaultInv, SecretFits
    <2>. QED
      BY <2>2, <2>3, <2>4
  <1>4. /\ Stored(r) <=> newest[r] # 0
        /\ Stored(r) => opens(sealed[r], Lock(secret, r)) /\ sealed[r].val = newest[r]
    BY <1>1, <1>3, RowTold DEF VaultInv, VaultTypes
  <1>5. lookupKey(r) = IF newest[r] = 0 THEN << >> ELSE <<newest[r]>>
    <2>1. CASE ~Stored(r)
      <3>1. ~opens(sealed[r], Lock(secret, r))
        BY <1>1, <2>1, AbsentShut DEF VaultInv
      <3>. QED
        BY <1>4, <2>1, <3>1 DEF lookupKey
    <2>2. CASE Stored(r)
      BY <1>4, <2>2 DEF lookupKey
    <2>. QED
      BY <2>1, <2>2
  <1>. QED
    BY <1>4, <1>5

LEMMA KeysRead == VaultInv => KeysReadable
  <1>. SUFFICES ASSUME VaultInv, pass.kind = "none", secret = "new" \/ ~pass.begun, exposed = {}
                PROVE  /\ tidy => auditCredentialEncryption = {}
                       /\ \A t \in KeyTenants :
                            LET owners == {o \in {t, KeyOrg[t]} : newest[o] # 0}
                                o == IF t \in owners THEN t ELSE KeyOrg[t]
                            IN owners \cap auditCredentialEncryption = {} =>
                                 resolveApiKeyWithOrgFallback(t) =
                                   IF owners = {} THEN [source |-> IF safe.pooled THEN "pooled" ELSE "none", key |-> << >>]
                                   ELSE [source |-> IF o = t THEN "tenant" ELSE "org", key |-> <<newest[o]>>]
                       /\ Creds \cap auditCredentialEncryption = {} =>
                            getActiveForProvider = {newest[r] : r \in {q \in Creds : newest[q] # 0 /\ q \notin inactive}}
    BY DEF KeysReadable
  <1>1. tidy => auditCredentialEncryption = {}
    BY DEF VaultInv, SecretFits, auditCredentialEncryption
  <1>2. ASSUME NEW r \in Rows, newest[r] = 0 PROVE r \notin auditCredentialEncryption /\ lookupKey(r) = << >>
    <2>1. sealed[r] = Absent
      BY <1>2 DEF VaultInv, RowsRight, RowRight
    <2>. QED
      <3>1. ~Stored(r) /\ ~opens(sealed[r], Lock(secret, r))
        BY <2>1, AbsentShut DEF Stored, VaultInv
      <3>2. r \notin auditCredentialEncryption
        BY <2>1 DEF auditCredentialEncryption, Absent
      <3>. QED
        BY <3>1, <3>2 DEF lookupKey
  <1>3. ASSUME NEW t \in KeyTenants
        PROVE  LET owners == {o \in {t, KeyOrg[t]} : newest[o] # 0}
                   o == IF t \in owners THEN t ELSE KeyOrg[t]
               IN owners \cap auditCredentialEncryption = {} =>
                    resolveApiKeyWithOrgFallback(t) =
                      IF owners = {} THEN [source |-> IF safe.pooled THEN "pooled" ELSE "none", key |-> << >>]
                      ELSE [source |-> IF o = t THEN "tenant" ELSE "org", key |-> <<newest[o]>>]
    <2>. DEFINE g == KeyOrg[t]
                owners == {o \in {t, g} : newest[o] # 0}
    <2>. SUFFICES ASSUME owners \cap auditCredentialEncryption = {}
                  PROVE  resolveApiKeyWithOrgFallback(t) =
                           IF owners = {} THEN [source |-> IF safe.pooled THEN "pooled" ELSE "none", key |-> << >>]
                           ELSE LET o == IF t \in owners THEN t ELSE g
                                IN [source |-> IF o = t THEN "tenant" ELSE "org", key |-> <<newest[o]>>]
      OBVIOUS
    <2>1. t \in Rows /\ g \in Rows
      BY VaultAssumption DEF Rows
    <2>2. \A o \in {t, g} : o \notin auditCredentialEncryption
      BY <1>2, <2>1
    <2>3. \A o \in {t, g} : lookupKey(o) = IF newest[o] = 0 THEN << >> ELSE <<newest[o]>>
      BY <2>1, <2>2, Readable
    <2>4. \A n : <<n>> # << >>
      OBVIOUS
    <2>. HIDE DEF g
    <2>5. CASE newest[t] # 0
      <3>1. resolveApiKeyWithOrgFallback(t) = [source |-> "tenant", key |-> <<newest[t]>>]
        BY <2>3, <2>4, <2>5 DEF resolveApiKeyWithOrgFallback
      <3>. QED
        BY <2>5, <3>1
    <2>6. CASE newest[t] = 0 /\ newest[g] # 0
      <3>1. lookupKey(t) = << >> /\ lookupKey(g) = <<newest[g]>> /\ g # t /\ lookupKey(g) # << >>
        BY <2>3, <2>4, <2>6
      <3>2. resolveApiKeyWithOrgFallback(t) = [source |-> "org", key |-> <<newest[g]>>]
        BY <3>1 DEF resolveApiKeyWithOrgFallback, g
      <3>. QED
        BY <2>6, <3>1, <3>2
    <2>7. CASE newest[t] = 0 /\ newest[g] = 0
      <3>1. lookupKey(t) = << >> /\ lookupKey(g) = << >>
        BY <2>3, <2>7
      <3>2. resolveApiKeyWithOrgFallback(t) = [source |-> IF safe.pooled THEN "pooled" ELSE "none", key |-> << >>]
        BY <3>1 DEF resolveApiKeyWithOrgFallback, g
      <3>. QED
        BY <2>7, <3>2
    <2>. QED
      BY <2>5, <2>6, <2>7
  <1>4. ASSUME Creds \cap auditCredentialEncryption = {}
        PROVE  getActiveForProvider = {newest[r] : r \in {q \in Creds : newest[q] # 0 /\ q \notin inactive}}
    <2>. DEFINE rows == {r \in Creds : Stored(r) /\ r \notin inactive}
    <2>1. \A r \in Creds : /\ Stored(r) <=> newest[r] # 0
                           /\ Stored(r) => opens(sealed[r], Lock(secret, r)) /\ sealed[r].val = newest[r]
      BY <1>4, Readable DEF Rows
    <2>2. \A r \in rows : opens(sealed[r], Lock(secret, r))
      BY <2>1
    <2>3. getActiveForProvider = {sealed[r].val : r \in rows}
      BY <2>2 DEF getActiveForProvider
    <2>. QED
      BY <2>1, <2>3
  <1>. QED
    BY <1>1, <1>3, <1>4

\* Vault: whatever passes ran, failed or died, a row that no write exposed behind
\* one holds what was written last, opens under the secret of the server, and is
\* what its tenant, its members and the platform get.
THEOREM KeysAreReadable == VaultSpec => []KeysReadable
  BY VaultInitInv, VaultNextInv, KeysRead, PTL DEF VaultSpec
=============================================================================
