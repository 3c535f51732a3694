---------------------------- MODULE Notifications ----------------------------
(***************************************************************************)
(* The notification queue and its worker, the tenant's preferences, the    *)
(* templates in the database, the billing mails that go out once a day,    *)
(* and the summary of a fleet update.                                      *)
(*                                                                         *)
(* NotificationWorker issues markSent and markFailed without awaiting      *)
(* them: an update is in flight until it is applied or lost, in any order. *)
(* It reads the preferences without awaiting them either, so that every    *)
(* key of what it holds is missing, and a missing key means enabled.       *)
(***************************************************************************)
EXTENDS Integers, FiniteSets, FiniteSetsExt, MailTemplates

CONSTANTS
    MailIds,        \* rows of notification_queue
    MailWorkers,    \* batches that may overlap
    Senders,        \* calls of the billing mails and of update(preferences)
    Inboxes,        \* situations to start from, NoInbox among them
    MaxAttempts,    \* markFailed's maxAttempts
    BatchSize,
    MaxUpdates,     \* bound on bot events
    MaxMailFaults       \* bound on failing calls and process deaths

NoInbox == [acts |-> {}, mails |-> {}, rows |-> 0, env |-> {}]

ASSUME NotificationsAssumption ==
    /\ NoInbox \in Inboxes /\ IsFiniteSet(MailIds)
    /\ \A x \in Inboxes : x.rows \in Nat /\ x.rows <= Cardinality(MailIds)
    /\ {MaxAttempts, BatchSize, MaxUpdates, MaxMailFaults} \subseteq Nat

VARIABLES
    inbox,
    mail,           \* notification_queue
    mailBatch,      \* each worker's rows, with the attempts it read
    flight,         \* updates of rows that nobody waits for
    mailed,         \* rows whose mail a transport accepted
    blanks,         \* <<template, source, field>> printed without a value
    seeded,         \* notification_templates: the names that are active, the inactive ones
    prefRow,        \* the tenant's row of notification_preferences: its FALSE keys
    saver,          \* calls of update
    warned,         \* email_notifications of today, and mails sent today
    sender,         \* calls of BillingEmailService and checkSpendAlert
    rollup,         \* initFleetNotificationListener: pending, and the flush under way
    updates,        \* bot events emitted, those in a notification and those dropped
    mailFaults

notifyVars == <<inbox, mail, mailBatch, flight, mailed, blanks, seeded, prefRow, saver, warned, sender, rollup, updates, mailFaults>>
queueing == <<mail, mailBatch, flight, mailed, blanks>>
settings == <<seeded, prefRow, saver>>
billingMail == <<warned, sender>>
summary == <<rollup, updates>>

NoMail == [template |-> "none", status |-> "none", attempts |-> 0, later |-> FALSE, address |-> FALSE]
\* The daily mails of BillingEmailService are one kind here, and those around
\* signing up another.
Notices == {"receipt", "warning", "alert", "signup"}
MailsOf(kind) ==
    CASE kind = "receipt" -> {"credit-purchase"}
      [] kind = "warning" -> {"low-balance-warning"} \cup DOMAIN SuspensionTexts
      [] kind = "signup" -> DOMAIN SignupTexts
      [] OTHER -> {}
NoRollup == [on |-> FALSE, succeeded |-> 0, failed |-> 0]
Prefers(a) == a \in inbox.acts

NotifyInit ==
    /\ inbox \in Inboxes
    /\ mail = [i \in MailIds |-> NoMail] /\ mailBatch = [w \in MailWorkers |-> {}]
    /\ flight = {} /\ mailed = {} /\ blanks = {}
    /\ seeded = [on |-> {}, off |-> {}]
    /\ prefRow = [exists |-> FALSE, off |-> {"agent_status_changes"}] /\ saver = [s \in Senders |-> [at |-> "idle", key |-> "none"]]
    /\ warned = [rows |-> {}, sent |-> [k \in Notices |-> 0]] /\ sender = [s \in Senders |-> [at |-> "idle", kind |-> "none"]]
    /\ rollup = [pending |-> NoRollup, flushing |-> NoRollup, step |-> "idle", on |-> TRUE]
    /\ updates = [emitted |-> 0, told |-> 0, dropped |-> 0]
    /\ mailFaults = 0

Faulty == mailFaults < MaxMailFaults /\ mailFaults' = mailFaults + 1
Sound == UNCHANGED mailFaults

-----------------------------------------------------------------------------
\* DrizzleNotificationQueueStore

Fresh == CHOOSE i \in MailIds : mail[i] = NoMail

\* NotificationService.enqueue does not wait for the insert.
enqueueMail(m, address) ==
    /\ m \in inbox.mails /\ Cardinality({i \in MailIds : mail[i] # NoMail}) < inbox.rows
    /\ \/ Sound /\ mail' = [mail EXCEPT ![Fresh] = [NoMail EXCEPT !.template = m, !.status = "pending", !.address = address]]
       \/ Faulty /\ UNCHANGED mail
    /\ UNCHANGED <<inbox, mailBatch, flight, mailed, blanks, settings, billingMail, summary>>

Due == {i \in MailIds : mail[i].status = "pending" /\ ~mail[i].later}

fetchPending(w) ==
    /\ mailBatch[w] = {} /\ Due # {}
    /\ \E ids \in {X \in SUBSET Due : Cardinality(X) = IF Cardinality(Due) < BatchSize THEN Cardinality(Due) ELSE BatchSize} :
         mailBatch' = [mailBatch EXCEPT ![w] = {<<i, mail[i].attempts>> : i \in ids}]
    /\ UNCHANGED <<inbox, mail, flight, mailed, blanks, settings, billingMail, summary, mailFaults>>

Backoff(i) ==
    /\ mail[i].later
    /\ mail' = [mail EXCEPT ![i].later = FALSE]
    /\ UNCHANGED <<inbox, mailBatch, flight, mailed, blanks, settings, billingMail, summary, mailFaults>>

markSent(i) == mail' = [mail EXCEPT ![i].status = "sent"]

markFailed(i, attempts) ==
    mail' = [mail EXCEPT ![i] = [@ EXCEPT !.status = IF attempts >= MaxAttempts THEN "failed" ELSE "pending",
                                          !.attempts = attempts, !.later = attempts < MaxAttempts]]

\* An update in flight is applied, or fails and is gone.
Arrive(u) ==
    /\ flight' = flight \ {u}
    /\ \/ Sound /\ IF u.sent THEN markSent(u.id) ELSE markFailed(u.id, u.attempts)
       \/ Faulty /\ UNCHANGED mail
    /\ UNCHANGED <<inbox, mailBatch, mailed, blanks, settings, billingMail, summary>>

-----------------------------------------------------------------------------
\* NotificationWorker.processBatch, one row

\* The worker's prefs is a promise: no key of it is FALSE.
promise == [off |-> {}]
isEnabledByPreferences(m, prefs) ==
    \A key \in DOMAIN PREF_MAP : m \in PREF_MAP[key] => key \notin prefs.off

\* The templates of the database come first.
renders(m) == m \in seeded.on \/ m \in TextTemplates
Source(m) == IF m \in seeded.on THEN "seeded" ELSE "code"
printed(m) == IF m \in seeded.on THEN renderSeeded(m) ELSE renderNotificationTemplate(m)

Mark(i, done, attempts) == [id |-> i, sent |-> done, attempts |-> IF done THEN 0 ELSE attempts]

\* EmailClient.send
sends == "sent" \in getEmailClient(inbox.env)
throws ==
    \/ "throws" \in getEmailClient(inbox.env) /\ Faulty
    \/ getEmailClient(inbox.env) = {} /\ Sound

send(i, attempts) ==
    \/ /\ sends /\ Sound
       /\ mailed' = mailed \cup {i}
       /\ blanks' = blanks \cup {<<mail[i].template, Source(mail[i].template), f>> :
                                    f \in printed(mail[i].template) \ notify(mail[i].template)}
       /\ flight' = flight \cup {Mark(i, TRUE, attempts)}
    \/ /\ throws
       /\ flight' = flight \cup {Mark(i, FALSE, attempts)}
       /\ UNCHANGED <<mailed, blanks>>

\* A row without an address, or of a template that nothing renders, is marked
\* as failed; one that the preferences switch off as sent.
processRow(w, b) ==
    /\ b \in mailBatch[w]
    /\ mailBatch' = [mailBatch EXCEPT ![w] = @ \ {b}]
    /\ LET i == b[1]
           m == mail[i].template
           enabled == m \in CRITICAL_TEMPLATES \/ isEnabledByPreferences(m, promise)
       IN IF mail[i].address /\ enabled /\ renders(m)
          THEN send(i, b[2] + 1)
          ELSE /\ flight' = flight \cup {Mark(i, mail[i].address /\ ~enabled, b[2] + 1)}
               /\ Sound /\ UNCHANGED <<mailed, blanks>>
    /\ UNCHANGED <<inbox, mail, settings, billingMail, summary>>

-----------------------------------------------------------------------------
\* DrizzleNotificationTemplateRepository and its router.  seed leaves a name
\* that is there as it is; updateTemplate switches one off or on.

seedDefaults ==
    /\ Prefers("templates")
    /\ seeded' = [seeded EXCEPT !.on = @ \cup ((DEFAULT_TEMPLATES \cap inbox.mails) \ seeded.off)]
    /\ seeded' # seeded
    /\ UNCHANGED <<inbox, queueing, prefRow, saver, billingMail, summary, mailFaults>>

updateTemplate(m) ==
    /\ m \in seeded.on \cup seeded.off
    /\ seeded' = [on |-> (seeded.on \cup {m}) \ (seeded.on \cap {m}), off |-> (seeded.off \cup {m}) \ (seeded.off \cap {m})]
    /\ UNCHANGED <<inbox, queueing, prefRow, saver, billingMail, summary, mailFaults>>

\* DrizzleNotificationPreferencesStore.update: the row is looked for, then
\* updated or inserted; the insert of a row that came in between throws.
updatePreferences(s, key) ==
    /\ Prefers("preferences") /\ saver[s].at = "idle" /\ key \notin prefRow.off
    /\ saver' = [saver EXCEPT ![s] = [at |-> IF prefRow.exists THEN "set" ELSE "insert", key |-> key]]
    /\ UNCHANGED <<inbox, queueing, seeded, prefRow, billingMail, summary, mailFaults>>

writePreferences(s) ==
    /\ saver[s].at # "idle"
    /\ prefRow' = IF saver[s].at = "insert" /\ prefRow.exists THEN prefRow
                  ELSE [exists |-> TRUE, off |-> prefRow.off \cup {saver[s].key}]
    /\ saver' = [saver EXCEPT ![s] = [at |-> "idle", key |-> "none"]]
    /\ UNCHANGED <<inbox, queueing, seeded, billingMail, summary, mailFaults>>

\* get: the keys that are on, all of them when there is no row
getPreferences == DOMAIN PREF_MAP \ prefRow.off

-----------------------------------------------------------------------------
\* BillingEmailService: once a day, recorded after the mail; a receipt always
\* goes out.  checkSpendAlert records before it notifies.

\* Mutation: the alert is recorded after it went out, as the other mails are.
RecordLast(kind) == "send"

firstStep(kind) == IF kind = "alert" THEN "record" ELSE "send"

shouldSendEmail(s, kind) ==
    /\ Prefers("billing") /\ sender[s].at = "idle"
    /\ kind \in {"receipt", "signup"} \/ kind \notin warned.rows
    /\ warned.sent[kind] < Cardinality(Senders)
    /\ sender' = [sender EXCEPT ![s] = [at |-> firstStep(kind), kind |-> kind]]
    /\ UNCHANGED <<inbox, queueing, settings, warned, summary, mailFaults>>

DoneWith(s) == sender' = [sender EXCEPT ![s] = [at |-> "idle", kind |-> "none"]]
OtherStep(s, at) == IF at # firstStep(sender[s].kind) THEN sender' = [sender EXCEPT ![s].at = at] ELSE DoneWith(s)

sendNotice(s) ==
    /\ sender[s].at = "send"
    /\ LET kind == sender[s].kind IN
       \/ /\ sends /\ Sound
          /\ warned' = [warned EXCEPT !.sent[kind] = @ + 1]
          /\ blanks' = blanks \cup UNION {{<<m, "code", f>> : f \in renderDirect(m) \ DirectMails[m]} : m \in MailsOf(kind)}
          /\ IF kind = "signup" THEN DoneWith(s) ELSE OtherStep(s, "record")
       \/ throws /\ DoneWith(s) /\ UNCHANGED <<warned, blanks>>
    /\ UNCHANGED <<inbox, mail, mailBatch, flight, mailed, settings, summary>>

\* email_notifications has one row a day for a kind of mail.
recordSent(s) ==
    /\ sender[s].at = "record"
    /\ LET kind == sender[s].kind IN
       \/ kind \notin warned.rows /\ Sound /\ warned' = [warned EXCEPT !.rows = @ \cup {kind}] /\ OtherStep(s, "send")
       \/ (IF kind \in warned.rows THEN Sound ELSE Faulty) /\ DoneWith(s) /\ UNCHANGED warned
    /\ UNCHANGED <<inbox, queueing, settings, summary>>

-----------------------------------------------------------------------------
\* initFleetNotificationListener: events are counted until none came for the
\* debounce time; flush takes the count out of the map before it waits.

emit(good) ==
    /\ Prefers("fleet") /\ rollup.on /\ updates.emitted < MaxUpdates
    /\ updates' = [updates EXCEPT !.emitted = @ + 1]
    /\ rollup' = [rollup EXCEPT !.pending = [on |-> TRUE, succeeded |-> @.succeeded + (IF good THEN 1 ELSE 0),
                                             failed |-> @.failed + (IF good THEN 0 ELSE 1)]]
    /\ UNCHANGED <<inbox, queueing, settings, billingMail, mailFaults>>

take(stopping) ==
    rollup' = [rollup EXCEPT !.flushing = rollup.pending, !.pending = NoRollup, !.step = "prefs", !.on = ~stopping]

flush ==
    /\ rollup.pending.on /\ rollup.step = "idle"
    /\ take(FALSE)
    /\ UNCHANGED <<inbox, queueing, settings, billingMail, updates, mailFaults>>

Counted == rollup.flushing.succeeded + rollup.flushing.failed
EndFlush == rollup' = [rollup EXCEPT !.flushing = NoRollup, !.step = "idle"]

\* Preferences that switch it off, no address or an error drop the count.
tell ==
    /\ rollup.step = "prefs" /\ EndFlush
    /\ \/ "fleet_updates" \in getPreferences /\ updates' = [updates EXCEPT !.told = @ + Counted] /\ Sound
       \/ /\ updates' = [updates EXCEPT !.dropped = @ + Counted]
          /\ IF "fleet_updates" \in getPreferences THEN Faulty ELSE Sound
    /\ UNCHANGED <<inbox, queueing, settings, billingMail>>

\* The returned function: unsubscribe, flush what is pending, clear the map.
unsubscribe ==
    /\ Prefers("fleet") /\ rollup.on /\ rollup.step = "idle"
    /\ IF rollup.pending.on THEN take(TRUE) ELSE rollup' = [rollup EXCEPT !.on = FALSE]
    /\ UNCHANGED <<inbox, queueing, settings, billingMail, updates, mailFaults>>

-----------------------------------------------------------------------------
\* The process dies: batches, updates in flight and the pending counts go.
Restart ==
    /\ inbox # NoInbox /\ Faulty
    /\ mailBatch' = [w \in MailWorkers |-> {}] /\ flight' = {}
    /\ saver' = [s \in Senders |-> [at |-> "idle", key |-> "none"]]
    /\ sender' = [s \in Senders |-> [at |-> "idle", kind |-> "none"]]
    /\ rollup' = [pending |-> NoRollup, flushing |-> NoRollup, step |-> "idle", on |-> TRUE]
    /\ updates' = [updates EXCEPT !.dropped = updates.emitted - updates.told]
    /\ UNCHANGED <<inbox, mail, mailed, blanks, seeded, prefRow, warned>>

NotifyNext ==
    \/ \E m \in inbox.mails, address \in BOOLEAN : enqueueMail(m, address)
    \/ \E w \in MailWorkers : fetchPending(w) \/ \E b \in mailBatch[w] : processRow(w, b)
    \/ \E i \in MailIds : Backoff(i)
    \/ \E u \in flight : Arrive(u)
    \/ seedDefaults \/ \E m \in inbox.mails : updateTemplate(m)
    \/ \E s \in Senders : \/ \E key \in {"fleet_updates", "billing_receipts"} : updatePreferences(s, key)
                          \/ \E kind \in Notices : shouldSendEmail(s, kind)
                          \/ writePreferences(s) \/ sendNotice(s) \/ recordSent(s)
    \/ \E good \in BOOLEAN : emit(good)
    \/ flush \/ tell \/ unsubscribe \/ Restart

NotifySpec == NotifyInit /\ [][NotifyNext]_notifyVars

-----------------------------------------------------------------------------
\* A row that reads sent was taken by the transport, although the updates of
\* overlapping batches arrive in any order, and a row that was given up was
\* tried MaxAttempts times.
SentWasMailed ==
    \A i \in MailIds : /\ mail[i].status = "sent" => i \in mailed
                       /\ mail[i].status = "failed" => mail[i].attempts >= MaxAttempts

\* The templates in code print no field that NotificationService, or whoever
\* sends the mail at once, does not supply.
NothingBlank == \A b \in blanks : b[2] # "code"

\* A spend alert goes out once a day, however many checks cross the threshold
\* together: the row is written first and is unique.
AlertedOnce == warned.sent["alert"] <= 1

\* Every bot event is told to its tenant once, or is dropped with the summary
\* it belongs to: none is counted twice, none is lost between two flushes.
UpdateToldOnce ==
    updates.told + updates.dropped + rollup.pending.succeeded + rollup.pending.failed + Counted = updates.emitted

\* What the tables say of mails and alerts is what went out, once and legible.
MailSafe == SentWasMailed /\ NothingBlank /\ AlertedOnce /\ UpdateToldOnce
=============================================================================
