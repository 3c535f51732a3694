------------------------------- MODULE Gateway ------------------------------
(***************************************************************************)
(* The handlers of the API gateway and how they are billed: the proxy      *)
(* handlers (src/src/gateway/proxy.ts), the OpenAI and Anthropic handlers  *)
(* (gateway/protocol), the stream proxy (streaming.ts) and the credit gate *)
(* (credit-gate.ts), for one tenant.                                       *)
(*                                                                         *)
(* A request is refused or admitted on a balance it reads, waits for the   *)
(* upstream provider, and is then metered and debited.  The debit is a     *)
(* promise nobody awaits; a request slot is free again when it has         *)
(* settled.  The ledger transaction is one step here (module Ledger shows  *)
(* that debits are serialisable), and so is handing an event to the meter  *)
(* (module MeterEmitter).  Costs are charges with the margin applied, in a *)
(* unit of which a cent has Cent.                                          *)
(***************************************************************************)
EXTENDS Integers, FiniteSets

CONSTANTS
    Requests,       \* requests that may be in flight together
    Numbers,        \* sids of phone numbers Twilio can sell, each one once
    Cent,
    Grace,          \* graceBufferCents
    MaxCharge,      \* the largest charge of one request
    InitBalance,
    Topup,          \* credit a purchase adds
    MaxBalance,     \* bound on credit
    MaxPasses,      \* bound on requests the gate does not check
    MaxFaults,      \* bound on failed database writes and lost answers
    MaxCrashes      \* bound on process deaths

ASSUME GatewayAssumption ==
    /\ IsFiniteSet(Requests)
    /\ {Cent, InitBalance, Topup} \subseteq Nat \ {0}
    /\ {Grace, MaxCharge, MaxBalance, MaxPasses, MaxFaults, MaxCrashes} \subseteq Nat

VARIABLES
    balance,        \* the tenant's credit in the ledger
    req,            \* each request: where its handler, then its debit, waits; its locals
    unsettled,      \* ghost, each slot: metered charges minus debits since the process started
    ungated,        \* ghost: debits of requests no balance check admitted
    owned,          \* sids at Twilio
    sold,           \* sids ever bought
    tracked,        \* provisioned_phone_numbers
    tracking,       \* sids with a trackPhoneNumber promise not yet settled
    removing,       \* sids with a removePhoneNumber promise not yet settled
    announced,      \* ghost: onBalanceExhausted fired since the balance was last positive
    raced,          \* ghost: a balance was written under a debit's second read
    passes, faults, crashes

books == <<balance, unsettled, ungated>>
phone == <<owned, sold, tracked, tracking, removing>>
hook == <<announced, raced>>
bounds == <<passes, faults, crashes>>
vars == <<req, books, phone, hook, bounds>>

Charges == 0..MaxCharge
PositiveCharges == 1..MaxCharge

Waits == {"idle", "budget", "credit", "call", "direct", "stream", "purchase",
          "release", "debit", "reread"}

\* A free slot.  A request's locals: estimatedCostCents of its gate, whether a
\* balance check admitted it, what it is debited, the sid it releases.
Idle == [at |-> "idle", estimate |-> 0, gated |-> FALSE, charge |-> 0, number |-> "none"]

RequestState == [at : Waits, estimate : {0, Cent}, gated : BOOLEAN,
                 charge : Charges, number : Numbers \cup {"none"}]

Init ==
    /\ balance = InitBalance
    /\ req = [r \in Requests |-> Idle]
    /\ unsettled = [r \in Requests |-> 0]
    /\ ungated = 0
    /\ owned = {} /\ sold = {} /\ tracked = {} /\ tracking = {} /\ removing = {}
    /\ announced = FALSE /\ raced = FALSE
    /\ passes = 0 /\ faults = 0 /\ crashes = 0

\* A handler goes on from one wait to the next.
Goto(r, from, to) ==
    /\ req[r].at = from
    /\ req' = [req EXCEPT ![r].at = to]

\* A handler returns without billing: an error answer, or nothing to bill.
Return(r) ==
    /\ req' = [req EXCEPT ![r] = Idle]
    /\ UNCHANGED <<books, phone, hook, bounds>>

Pass ==
    /\ passes < MaxPasses
    /\ passes' = passes + 1

Fault ==
    /\ faults < MaxFaults
    /\ faults' = faults + 1

-----------------------------------------------------------------------------
(* The gates                                                                *)

\* A request reaches its handler: the proxy handlers estimate one cent, the
\* protocol handlers nothing.
Arrive(r) ==
    /\ req[r].at = "idle"
    /\ \E e \in {0, Cent} : req' = [req EXCEPT ![r] = [Idle EXCEPT !.at = "budget", !.estimate = e]]
    /\ UNCHANGED <<books, phone, hook, bounds>>

\* The spend limits of the plan (their cached sums are not modelled): either
\* answer.
budgetCheck(r) ==
    \/ /\ Goto(r, "budget", "credit")
       /\ UNCHANGED <<books, phone, hook, bounds>>
    \/ req[r].at = "budget" /\ Return(r)

\* Mutation: the hard stop starts one below the buffer.
RefusesLate(b, required) == b < -Grace \/ (b >= 0 /\ b < required)

\* The hard stop at the end of the grace buffer, the soft check above zero.
Refuses(b, required) ==
    \/ b <= -Grace
    \/ b >= 0 /\ b < required

\* Platform services and metered tenants pass without a check.
creditBalanceCheck(r) ==
    /\ req[r].at = "credit"
    /\ \/ /\ Pass
          /\ req' = [req EXCEPT ![r] = [Idle EXCEPT !.at = "call"]]
          /\ UNCHANGED <<books, phone, hook, faults, crashes>>
       \/ Refuses(balance, req[r].estimate) /\ Return(r)
       \/ /\ ~Refuses(balance, req[r].estimate)
          /\ req' = [req EXCEPT ![r] = [Idle EXCEPT !.at = "call", !.gated = TRUE]]
          /\ UNCHANGED <<books, phone, hook, bounds>>

-----------------------------------------------------------------------------
(* Metering and debiting                                                    *)

\* emitMeterEvent: the event is handed to the meter; its write can fail, which
\* nobody notices.
emitMeterEvent(r, c) ==
    \/ unsettled' = [unsettled EXCEPT ![r] = @ + c] /\ UNCHANGED faults
    \/ UNCHANGED unsettled /\ Fault

\* debitCredits up to the ledger call; a zero charge is not debited.
debitCredits(r, c) ==
    req' = [req EXCEPT ![r] = IF c = 0 THEN Idle
                              ELSE [Idle EXCEPT !.at = "debit", !.gated = req[r].gated, !.charge = c]]

\* The end of a handler that was answered: meter, debit, answer.
Bill(r, cs) ==
    \E c \in cs :
        /\ emitMeterEvent(r, c) /\ debitCredits(r, c)
        /\ UNCHANGED <<balance, ungated, phone, hook, passes, crashes>>

\* The balance is written while the other requests in qs have debited and
\* not read the balance again.
Disturb(qs) == raced' = (raced \/ \E q \in qs : req[q].at = "reread")

\* creditLedger.debit with allowNegative, committed or failed.
Debit(r) ==
    /\ req[r].at = "debit"
    /\ \/ /\ balance' = balance - req[r].charge
          /\ unsettled' = [unsettled EXCEPT ![r] = @ - req[r].charge]
          /\ ungated' = IF req[r].gated THEN ungated ELSE ungated + req[r].charge
          /\ Disturb(Requests \ {r})
          /\ req' = [req EXCEPT ![r] = [Idle EXCEPT !.at = "reread", !.charge = req[r].charge]]
          /\ UNCHANGED faults
       \/ /\ Fault
          /\ req' = [req EXCEPT ![r] = Idle]
          /\ UNCHANGED <<books, raced>>
    /\ UNCHANGED <<phone, announced, passes, crashes>>

\* Mutation: reaching zero exactly is not a crossing.
CrossedBelow(b, c) == b + c > 0 /\ b < 0

\* balanceBefore was positive and the balance read now is not.
Crossed(b, c) == b + c > 0 /\ b <= 0

\* The balance is read again: onBalanceExhausted at a crossing.  (The two
\* other callbacks start a top-up, module UsageTopup, and an alert email.)
Reread(r) ==
    /\ req[r].at = "reread"
    /\ req' = [req EXCEPT ![r] = Idle]
    /\ \/ announced' = (announced \/ Crossed(balance, req[r].charge)) /\ UNCHANGED faults
       \/ UNCHANGED announced /\ Fault
    /\ UNCHANGED <<books, phone, raced, passes, crashes>>

\* A purchase, grant or top-up adds credit.
Credit ==
    /\ balance + Topup <= MaxBalance
    /\ balance' = balance + Topup
    /\ announced' = (announced /\ balance' <= 0)
    /\ raced' = ((raced /\ balance' <= 0) \/ \E q \in Requests : req[q].at = "reread")
    /\ UNCHANGED <<req, unsettled, ungated, phone, bounds>>

-----------------------------------------------------------------------------
(* The proxy handlers, past the gates                                       *)

\* One upstream call; billed if it is answered, passed on or mapped to an
\* error answer if not.
Proxied(r, at, cs) ==
    /\ req[r].at = at
    /\ Bill(r, cs) \/ Return(r)

\* Non-streaming requests through the arbitrage router; no provider: the direct call.
chatArbitrage(r) ==
    \/ Proxied(r, "call", Charges)
    \/ /\ Goto(r, "call", "direct")
       /\ UNCHANGED <<books, phone, hook, bounds>>

\* The direct call: answered at once, or as a stream.
chatCompletions(r) ==
    \/ Proxied(r, "direct", Charges)
    \/ /\ Goto(r, "direct", "stream")
       /\ UNCHANGED <<books, phone, hook, bounds>>

\* Mutation: the flush debits without metering.
proxySSEStreamUnmetered(r) ==
    /\ req[r].at = "stream"
    /\ \E c \in Charges : debitCredits(r, c)
    /\ UNCHANGED <<books, phone, hook, bounds>>

\* The stream is billed when it is flushed; one that is cut off never is.
proxySSEStream(r) == Proxied(r, "stream", Charges)

textCompletions(r) == Proxied(r, "call", Charges)
embeddings(r) == Proxied(r, "call", Charges)
audioTranscriptions(r) == Proxied(r, "call", Charges)
audioSpeechArbitrage(r) == Proxied(r, "call", Charges)
audioSpeech(r) == Proxied(r, "call", Charges)
imageGenerations(r) == Proxied(r, "call", Charges)
videoGenerations(r) == Proxied(r, "call", Charges)

\* One minute is billed, or nothing when Twilio will report the duration to
\* phoneOutboundStatus.
phoneOutbound(r) == Proxied(r, "call", PositiveCharges)
smsOutbound(r) == Proxied(r, "call", PositiveCharges)

\* Twilio's webhooks have no gate, and nothing tells a second delivery from
\* the first.
Webhook(r, cs) ==
    /\ req[r].at = "idle" /\ Pass
    /\ \E c \in cs : emitMeterEvent(r, c) /\ debitCredits(r, c)
    /\ UNCHANGED <<balance, ungated, phone, hook, crashes>>

phoneInbound(r) == Webhook(r, Charges)
phoneOutboundStatus(r) == Webhook(r, PositiveCharges)
smsInbound(r) == Webhook(r, PositiveCharges)

\* The protocol handlers.  A stream is billed at its start and only if the
\* provider's cost header says so.
chatCompletionsHandler(r) == Proxied(r, "call", Charges)
embeddingsHandler(r) == Proxied(r, "call", Charges)
messagesHandler(r) == Proxied(r, "call", Charges)

-----------------------------------------------------------------------------
(* Phone numbers                                                            *)

\* The search for a number to buy.
phoneNumberProvision(r) ==
    \/ /\ Goto(r, "call", "purchase") /\ sold # Numbers
       /\ UNCHANGED <<books, phone, hook, bounds>>
    \/ req[r].at = "call" /\ Return(r)

\* The purchase, then the first month's bill and the tracking promise.
purchaseNumber(r) ==
    /\ req[r].at = "purchase"
    /\ \/ Return(r)
       \/ \E n \in Numbers \ sold, c \in PositiveCharges :
            /\ owned' = owned \cup {n} /\ sold' = sold \cup {n}
            /\ emitMeterEvent(r, c) /\ debitCredits(r, c)
            /\ tracking' = tracking \cup {n}
            /\ UNCHANGED <<balance, ungated, tracked, removing, hook, passes, crashes>>

\* Mutation: the number is taken off the monthly bill before Twilio is asked.
phoneNumberReleaseUntracks(r) ==
    /\ req[r].at = "idle"
    /\ \E n \in owned : /\ req' = [req EXCEPT ![r] = [Idle EXCEPT !.at = "release", !.number = n]]
                        /\ removing' = removing \cup {n}
    /\ UNCHANGED <<books, owned, sold, tracked, tracking, hook, bounds>>

\* The ownership check of a release.
phoneNumberRelease(r) ==
    /\ req[r].at = "idle"
    /\ \E n \in owned : req' = [req EXCEPT ![r] = [Idle EXCEPT !.at = "release", !.number = n]]
    /\ UNCHANGED <<books, phone, hook, bounds>>

\* The deletion at Twilio, then the promise that ends the tracking.
releaseNumber(r) ==
    /\ req[r].at = "release"
    /\ \/ Return(r)
       \/ /\ req[r].number \in owned
          /\ owned' = owned \ {req[r].number}
          /\ removing' = removing \cup {req[r].number}
          /\ req' = [req EXCEPT ![r] = Idle]
          /\ UNCHANGED <<books, sold, tracked, tracking, hook, bounds>>

\* A purchase or deletion is carried out and its answer lost: to the handler
\* it failed.
AnswerLost(r) ==
    /\ Fault
    /\ \/ /\ req[r].at = "purchase"
          /\ \E n \in Numbers \ sold : owned' = owned \cup {n} /\ sold' = sold \cup {n}
       \/ /\ req[r].at = "release"
          /\ owned' = owned \ {req[r].number} /\ UNCHANGED sold
    /\ req' = [req EXCEPT ![r] = Idle]
    /\ UNCHANGED <<books, tracked, tracking, removing, hook, passes, crashes>>

\* Promises of the phone repository settle, in any order, or fail.
trackPhoneNumber(n) ==
    /\ n \in tracking
    /\ tracking' = tracking \ {n}
    /\ tracked' = tracked \cup {n}
    /\ UNCHANGED <<req, books, owned, sold, removing, hook, bounds>>

removePhoneNumber(n) ==
    /\ n \in removing
    /\ removing' = removing \ {n}
    /\ tracked' = tracked \ {n}
    /\ UNCHANGED <<req, books, owned, sold, tracking, hook, bounds>>

PromiseFails(n) ==
    /\ Fault
    /\ \/ n \in tracking /\ tracking' = tracking \ {n} /\ UNCHANGED removing
       \/ n \in removing /\ removing' = removing \ {n} /\ UNCHANGED tracking
    /\ UNCHANGED <<req, books, owned, sold, tracked, hook, passes, crashes>>

-----------------------------------------------------------------------------

\* The process dies with its requests, debits and promises.
Crash ==
    /\ crashes < MaxCrashes
    /\ crashes' = crashes + 1
    /\ req' = [r \in Requests |-> Idle]
    /\ unsettled' = [r \in Requests |-> 0]
    /\ tracking' = {} /\ removing' = {}
    /\ UNCHANGED <<balance, ungated, owned, sold, tracked, hook, passes, faults>>

Handler(r) ==
    \/ chatArbitrage(r) \/ chatCompletions(r) \/ proxySSEStream(r)
    \/ textCompletions(r) \/ embeddings(r) \/ audioTranscriptions(r)
    \/ audioSpeechArbitrage(r) \/ audioSpeech(r)
    \/ imageGenerations(r) \/ videoGenerations(r)
    \/ phoneOutbound(r) \/ smsOutbound(r)
    \/ chatCompletionsHandler(r) \/ embeddingsHandler(r) \/ messagesHandler(r)
    \/ phoneNumberProvision(r) \/ purchaseNumber(r)

Next ==
    \/ \E r \in Requests :
         \/ Arrive(r) \/ budgetCheck(r) \/ creditBalanceCheck(r)
         \/ Handler(r) \/ Debit(r) \/ Reread(r)
         \/ phoneInbound(r) \/ phoneOutboundStatus(r) \/ smsInbound(r)
         \/ phoneNumberRelease(r) \/ releaseNumber(r) \/ AnswerLost(r)
    \/ \E n \in Numbers : trackPhoneNumber(n) \/ removePhoneNumber(n) \/ PromiseFails(n)
    \/ Credit \/ Crash

Spec == Init /\ [][Next]_vars

-----------------------------------------------------------------------------
(* Properties                                                               *)

\* Every variable keeps its type.
TypeOK ==
    /\ balance \in Int /\ ungated \in Nat
    /\ req \in [Requests -> RequestState]
    /\ unsettled \in [Requests -> Int]
    /\ owned \subseteq sold /\ sold \subseteq Numbers /\ tracked \subseteq sold
    /\ tracking \subseteq sold /\ removing \subseteq sold
    /\ announced \in BOOLEAN /\ raced \in BOOLEAN
    /\ passes \in 0..MaxPasses /\ faults \in 0..MaxFaults /\ crashes \in 0..MaxCrashes

\* A balance check admitted the request and its debit is still to come.
Pending(q) == q.gated /\ q.at \in {"call", "direct", "stream", "purchase", "debit"}

Admitted == {r \in Requests : Pending(req[r])}

\* The check is not atomic with the debit, so admitted requests overdraw the
\* grace buffer together; but what is overdrawn so far, apart from the debits
\* nobody checked, is at most one charge for every request not admitted now.
OverdraftCovered ==
    balance + ungated >= 1 - Grace - MaxCharge * Cardinality(Requests \ Admitted)

\* The grace buffer is the "maximum negative balance allowed before hard-stop"
\* up to one charge for each request that can be in flight.
OverdraftBounded ==
    balance + ungated >= 1 - Grace - MaxCharge * Cardinality(Requests)

\* While no write fails, the meter and the ledger differ by exactly the debits
\* still on their way: no handler bills in one place only.
MeterMatchesLedger ==
    faults = 0 =>
        \A r \in Requests : unsettled[r] = IF req[r].at = "debit" THEN req[r].charge ELSE 0

\* "Only fire on first zero-crossing": with the balance used up and every debit
\* checked, onBalanceExhausted has fired, unless another write came between a
\* debit and its second read (then both debits may miss the crossing).
MissedOnlyByRace ==
    balance <= 0 /\ (\A r \in Requests : req[r].at # "reread") /\ faults = 0 /\ crashes = 0
        => announced \/ raced

\* "Track for monthly recurring billing": a number the tenant owns is tracked,
\* or is about to be, whatever overtakes what, while no write fails and no
\* answer is lost.  (The converse does not hold: a
\* release can overtake the tracking of its own number, which then stays.)
OwnedIsTracked ==
    faults = 0 /\ crashes = 0 => owned \subseteq tracked \cup tracking

=============================================================================
