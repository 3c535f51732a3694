----------------------------- MODULE Onboarding -----------------------------
(***************************************************************************)
(* A newcomer's first hour: the onboarding conversation (OnboardingService,*)
(* GraduationService), the daemon that answers it (DaemonManager), and the *)
(* plugin setups that the conversation runs (SetupService).                *)
(*                                                                         *)
(* The routes that call these services are in the products that use the    *)
(* platform: any call may come at any time, and calls overlap at every     *)
(* await.  Money counts in units of one message's cost.  The ledger is not *)
(* debited here: getOnboardingService passes none.                         *)
(***************************************************************************)
EXTENDS Integers, Sequences, FiniteSets, SequencesExt

CONSTANTS
    Talks,          \* rows of onboarding_sessions
    Hosts,          \* calls of the services that may overlap
    Setups,         \* rows of setup_sessions, all of one chat
    Tours,          \* situations to start from, NoTour among them
    BUDGET_CAPS,    \* [anonymous, free]: units
    Threshold,      \* AUTO_ROLLBACK_THRESHOLD
    MaxErrors, MaxSpawns, MaxMessages, MaxTourFaults    \* bounds

NoTalk == [user |-> FALSE, anon |-> FALSE, status |-> "none", path |-> "none", spent |-> 0, old |-> FALSE]
NoSetup == [status |-> "none", collected |-> FALSE, errors |-> 0, old |-> FALSE]
NoTour == [acts |-> {}, talk |-> NoTalk, bots |-> FALSE, ready |-> FALSE]

\* onboarding_sessions with the sum of its session_usage.
TalkRows == [user : BOOLEAN, anon : BOOLEAN, status : {"none", "active", "transferred", "graduated"},
             path : {"none", "byok", "hosted"}, spent : Nat, old : BOOLEAN]

ASSUME OnboardingAssumption ==
    /\ IsFiniteSet(Hosts) /\ Hosts # {}
    /\ NoTour \in Tours
    /\ \A x \in Tours : x.talk \in TalkRows /\ x.talk.status \in {"none", "active"} /\ x.talk.spent = 0 /\ x.ready \in BOOLEAN
    /\ BUDGET_CAPS.anonymous \in Nat /\ BUDGET_CAPS.free \in Nat /\ BUDGET_CAPS.anonymous <= BUDGET_CAPS.free
    /\ {Threshold, MaxErrors, MaxSpawns, MaxMessages, MaxTourFaults} \subseteq Nat /\ MaxSpawns >= 1

VARIABLES
    tour,
    talks,          \* onboarding_sessions with the sum of session_usage; one guest, one user
    host,           \* each call: where it waits and what it has read
    daemon,         \* DaemonManager: process, ready, and the starts that wait; live processes
    setups,         \* setup_sessions
    plugin,         \* the plugin_configs row: the setup that wrote it last
    undo,           \* each call: rollback under way, setups still to roll back
    messages, tourFaults

onboardingVars == <<tour, talks, host, daemon, setups, plugin, undo, messages, tourFaults>>
talking == <<talks, host, messages>>
settingUp == <<setups, plugin, undo>>

AtRest == [at |-> "idle", id |-> "none", path |-> "none", tier |-> "none"]
NoUndo == [at |-> "idle", todo |-> << >>]
Offers(act) == act \in tour.acts

OnboardingInit ==
    /\ tour \in Tours
    /\ talks = [s \in Talks |-> IF s = (CHOOSE x \in Talks : TRUE) THEN tour.talk ELSE NoTalk]
    /\ host = [c \in Hosts |-> AtRest]
    /\ daemon = [process |-> IF tour.ready THEN 1 ELSE 0, ready |-> tour.ready, waiting |-> 0,
                 live |-> IF tour.ready THEN {1} ELSE {}, spawned |-> IF tour.ready THEN 1 ELSE 0]
    /\ setups = [x \in Setups |-> NoSetup] /\ plugin = "none"
    /\ undo = [c \in Hosts |-> NoUndo]
    /\ messages = 0 /\ tourFaults = 0

TourFails == tourFaults < MaxTourFaults /\ tourFaults' = tourFaults + 1
TourWorks == UNCHANGED tourFaults

-----------------------------------------------------------------------------
\* OnboardingService

\* getByUserId and getByAnonymousId: rows[0] of the rows found, in no order
ByUser == {s \in Talks : talks[s].user}
ByAnonymous == {s \in Talks : talks[s].anon}
isReady == daemon.ready

To(c, at, id) == host' = [host EXCEPT ![c].at = at, ![c].id = id]
Leave(c) == host' = [host EXCEPT ![c] = AtRest]
FirstIsActive(rows) == \E s \in rows : talks[s].status = "active"
FirstIsNot(rows) == rows = {} \/ \E s \in rows : talks[s].status # "active"

\* An active session that comes first is returned.
createSession(c, user) ==
    /\ Offers("create") /\ host[c].at = "idle" /\ \E s \in Talks : talks[s] = NoTalk
    /\ FirstIsNot(IF user THEN ByUser ELSE ByAnonymous)
    /\ host' = [host EXCEPT ![c] = [AtRest EXCEPT !.at = "create", !.tier = IF user THEN "free" ELSE "anonymous"]]
    /\ UNCHANGED <<tour, talks, daemon, settingUp, messages, tourFaults>>

\* A ready daemon is told first; when it refuses, no row is written.
createRow(c) ==
    /\ host[c].at = "create" /\ Leave(c)
    /\ \/ /\ TourWorks
          /\ \E s \in {x \in Talks : talks[x] = NoTalk} :
               talks' = [talks EXCEPT ![s] = [NoTalk EXCEPT !.status = "active", !.user = host[c].tier = "free",
                                                            !.anon = host[c].tier = "anonymous"]]
       \/ isReady /\ TourFails /\ UNCHANGED talks
       \/ (\A x \in Talks : talks[x] # NoTalk) /\ TourWorks /\ UNCHANGED talks
    /\ UNCHANGED <<tour, daemon, settingUp, messages>>

\* handoff, its three statements
handoff(c, s) ==
    /\ Offers("handoff") /\ host[c].at = "idle"
    /\ talks[s].anon /\ talks[s].status = "active" /\ ~talks[s].old
    /\ To(c, "handoff", s)
    /\ UNCHANGED <<tour, talks, daemon, settingUp, messages, tourFaults>>

handoffTo(c) ==
    /\ host[c].at = "handoff"
    /\ \/ FirstIsActive(ByUser) /\ To(c, "transfer", host[c].id)
       \/ FirstIsNot(ByUser) /\ To(c, "upgrade", host[c].id)
    /\ UNCHANGED <<tour, talks, daemon, settingUp, messages, tourFaults>>

setStatus(s, status) == talks' = [talks EXCEPT ![s].status = status]
\* every row of the guest, whatever its status
upgradeAnonymousToUser == talks' = [s \in Talks |-> [talks[s] EXCEPT !.user = @ \/ talks[s].anon]]

handedOff(c) ==
    /\ \/ host[c].at = "transfer" /\ setStatus(host[c].id, "transferred")
       \/ host[c].at = "upgrade" /\ upgradeAnonymousToUser
    /\ Leave(c)
    /\ UNCHANGED <<tour, daemon, settingUp, messages, tourFaults>>

\* A session is a day old.
Age(s) ==
    /\ Offers("handoff") /\ talks[s].status # "none" /\ ~talks[s].old
    /\ talks' = [talks EXCEPT ![s].old = TRUE]
    /\ UNCHANGED <<tour, host, daemon, settingUp, messages, tourFaults>>

-----------------------------------------------------------------------------
\* inject: the row, the budget, the daemon's answer, the usage that is
\* recorded after it

checkSessionBudget(tier, spent) == BUDGET_CAPS[tier] - spent > 0

inject(c, s) ==
    /\ Offers("inject") /\ host[c].at = "idle" /\ messages < MaxMessages
    /\ talks[s].status = "active"
    /\ messages' = messages + 1
    /\ host' = [host EXCEPT ![c] = [AtRest EXCEPT !.at = "budget", !.id = s,
                                                  !.tier = IF talks[s].user THEN "free" ELSE "anonymous"]]
    /\ UNCHANGED <<tour, talks, daemon, settingUp, tourFaults>>

injectSent(c) ==
    /\ host[c].at = "budget"
    /\ IF checkSessionBudget(host[c].tier, talks[host[c].id].spent) /\ isReady
       THEN To(c, "reply", host[c].id) ELSE Leave(c)
    /\ UNCHANGED <<tour, talks, daemon, settingUp, messages, tourFaults>>

\* The answer is metered, unless the daemon or the insert fails.
injectMetered(c) ==
    /\ host[c].at = "reply" /\ Leave(c)
    /\ \/ TourWorks /\ talks' = [talks EXCEPT ![host[c].id].spent = @ + 1]
       \/ TourFails /\ UNCHANGED talks
    /\ UNCHANGED <<tour, daemon, settingUp, messages>>

-----------------------------------------------------------------------------
\* GraduationService.graduate: the checks, then one guarded update

graduate(c, s, path) ==
    /\ Offers("graduate") /\ host[c].at = "idle"
    /\ talks[s].status # "none" /\ talks[s].user /\ tour.bots
    /\ host' = [host EXCEPT ![c] = [AtRest EXCEPT !.at = "graduate", !.id = s, !.path = path]]
    /\ UNCHANGED <<tour, talks, daemon, settingUp, messages, tourFaults>>

Graduated(c) == [talks[host[c].id] EXCEPT !.path = host[c].path, !.status = "graduated"]

\* Mutation: the update finds the row by its id alone.
graduateRowAgain(c) == talks' = [talks EXCEPT ![host[c].id] = Graduated(c)]

\* WHERE graduated_at IS NULL
graduateRow(c) ==
    talks' = IF talks[host[c].id].path = "none" THEN [talks EXCEPT ![host[c].id] = Graduated(c)] ELSE talks

graduated(c) ==
    /\ host[c].at = "graduate"
    /\ graduateRow(c) /\ Leave(c)
    /\ UNCHANGED <<tour, daemon, settingUp, messages, tourFaults>>

-----------------------------------------------------------------------------
\* DaemonManager.  The exit of any process it ever spawned clears what it
\* holds; a stop that times out leaves the exit to come later.

start ==
    /\ Offers("daemon") /\ daemon.process = 0 /\ daemon.spawned < MaxSpawns
    /\ daemon' = [daemon EXCEPT !.spawned = @ + 1, !.process = daemon.spawned + 1, !.waiting = @ + 1,
                                !.live = @ \cup {daemon.spawned + 1}]
    /\ UNCHANGED <<tour, talking, settingUp, tourFaults>>

\* Mutation: the flag is set without another look at the process.
ReadyAnyway == TRUE

stillAlive == daemon.process # 0

\* waitForReady ends with a healthy daemon, or throws.
waitForReady ==
    /\ daemon.waiting > 0
    /\ \/ TourWorks /\ daemon' = [daemon EXCEPT !.waiting = @ - 1, !.ready = stillAlive \/ @]
       \/ TourFails /\ daemon' = [daemon EXCEPT !.waiting = @ - 1]
    /\ UNCHANGED <<tour, talking, settingUp>>

onExit(p) ==
    /\ Offers("daemon")
    /\ daemon' = [daemon EXCEPT !.live = @ \ {p}, !.process = 0, !.ready = FALSE]
    /\ UNCHANGED <<tour, talking, settingUp, tourFaults>>

stop ==
    /\ Offers("daemon") /\ daemon.process # 0
    /\ \E late \in BOOLEAN :
         daemon' = [daemon EXCEPT !.live = IF late THEN @ ELSE @ \ {daemon.process}, !.process = 0, !.ready = FALSE]
    /\ UNCHANGED <<tour, talking, settingUp, tourFaults>>

-----------------------------------------------------------------------------
\* The setup repositories.  (session_id, status) is unique: a chat has one
\* setup in each status, and the statement that makes a second one throws.

Taken(status, x) == \E y \in Setups \ {x} : setups[y].status = status

insertSetup(x) ==
    /\ Offers("setup") /\ setups[x] = NoSetup /\ ~Taken("in_progress", x)
    /\ setups' = [setups EXCEPT ![x].status = "in_progress"]
    /\ UNCHANGED <<tour, talking, daemon, plugin, undo, tourFaults>>

\* The conversation saves a setting: update(collected), upsert, recordSuccess.
saveConfig(x) ==
    /\ setups[x].status = "in_progress"
    /\ setups' = [setups EXCEPT ![x].collected = TRUE, ![x].errors = 0]
    /\ plugin' = x
    /\ UNCHANGED <<tour, talking, daemon, undo, tourFaults>>

markComplete(x) ==
    /\ setups[x].status = "in_progress" /\ ~Taken("complete", x)
    /\ setups' = [setups EXCEPT ![x].status = "complete"]
    /\ UNCHANGED <<tour, talking, daemon, plugin, undo, tourFaults>>

Stale(x) ==
    /\ setups[x].status = "in_progress" /\ ~setups[x].old
    /\ setups' = [setups EXCEPT ![x].old = TRUE]
    /\ UNCHANGED <<tour, talking, daemon, plugin, undo, tourFaults>>

-----------------------------------------------------------------------------
\* SetupService

Rollback(c, todo) == undo' = [undo EXCEPT ![c] = [at |-> IF todo = << >> THEN "idle" ELSE "find", todo |-> todo]]
Now(c) == Head(undo[c].todo)
Further(c, at) == undo' = [undo EXCEPT ![c].at = at]

recordError(c, x) ==
    /\ undo[c].at = "idle" /\ setups[x].status = "in_progress" /\ setups[x].errors < MaxErrors
    /\ setups' = [setups EXCEPT ![x].errors = @ + 1]
    /\ Rollback(c, IF setups[x].errors + 1 >= Threshold THEN <<x>> ELSE << >>)
    /\ UNCHANGED <<tour, talking, daemon, plugin, tourFaults>>

cleanupStaleSessions(c) ==
    /\ undo[c].at = "idle"
    /\ \E x \in Setups : setups[x].status = "in_progress" /\ setups[x].old
    /\ Rollback(c, SetToSeq({x \in Setups : setups[x].status = "in_progress" /\ setups[x].old}))
    /\ UNCHANGED <<tour, talking, daemon, setups, plugin, tourFaults>>

\* A session that is rolled back already is left as it is.
findById(c) ==
    /\ undo[c].at = "find"
    /\ IF setups[Now(c)].status = "rolled_back" THEN Rollback(c, Tail(undo[c].todo)) ELSE Further(c, "clear")
    /\ UNCHANGED <<tour, talking, daemon, setups, plugin, tourFaults>>

clearCollected(c) ==
    /\ undo[c].at = "clear" /\ Further(c, "delete")
    /\ setups' = [setups EXCEPT ![Now(c)].collected = FALSE]
    /\ UNCHANGED <<tour, talking, daemon, plugin, tourFaults>>

deleteBySetupSession(c) ==
    /\ undo[c].at = "delete" /\ Further(c, "mark")
    /\ plugin' = IF plugin = Now(c) THEN "none" ELSE plugin
    /\ UNCHANGED <<tour, talking, daemon, setups, tourFaults>>

\* A throw ends the cleanup, and the sessions behind this one wait for the next.
markRolledBack(c) ==
    /\ undo[c].at = "mark"
    /\ IF Taken("rolled_back", Now(c)) THEN Rollback(c, << >>) /\ UNCHANGED setups
       ELSE setups' = [setups EXCEPT ![Now(c)].status = "rolled_back"] /\ Rollback(c, Tail(undo[c].todo))
    /\ UNCHANGED <<tour, talking, daemon, plugin, tourFaults>>

-----------------------------------------------------------------------------
TalkStep(c) ==
    \/ \E user \in BOOLEAN : createSession(c, user)
    \/ createRow(c) \/ handoffTo(c) \/ handedOff(c) \/ injectSent(c) \/ injectMetered(c) \/ graduated(c)
    \/ \E s \in Talks : handoff(c, s) \/ inject(c, s) \/ \E path \in {"byok", "hosted"} : graduate(c, s, path)

SetupStep(c) ==
    \/ \E x \in Setups : recordError(c, x)
    \/ cleanupStaleSessions(c) \/ findById(c) \/ clearCollected(c) \/ deleteBySetupSession(c) \/ markRolledBack(c)

OnboardingNext ==
    \/ \E c \in Hosts : TalkStep(c) \/ SetupStep(c)
    \/ \E s \in Talks : Age(s)
    \/ start \/ waitForReady \/ stop \/ \E p \in daemon.live : onExit(p)
    \/ \E x \in Setups : insertSetup(x) \/ saveConfig(x) \/ markComplete(x) \/ Stale(x)

OnboardingSpec == OnboardingInit /\ [][OnboardingNext]_onboardingVars

-----------------------------------------------------------------------------
\* A session graduates once: of two calls that both passed the checks the
\* second leaves the path of the first.
GraduatedOnce ==
    [][\A s \in Talks : talks[s].path # "none" => talks'[s].path = talks[s].path]_onboardingVars

\* What a session costs the platform stays under its tier's cap, but for the
\* messages that were under way when it was reached: one for every other call.
BudgetHolds ==
    \A s \in Talks : talks[s].spent < BUDGET_CAPS[IF talks[s].user THEN "free" ELSE "anonymous"] + Cardinality(Hosts)

\* The daemon that the manager calls ready is the process that it holds, and
\* that process runs, although the exit of an earlier one may come late.
ReadyIsAlive == daemon.ready => daemon.process \in daemon.live

\* A guest spends no more than the budget, and is told of a daemon that lives.
OnboardingSafe == BudgetHolds /\ ReadyIsAlive
=============================================================================
