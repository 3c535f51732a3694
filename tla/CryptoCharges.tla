--------------------------- MODULE CryptoCharges ----------------------------
(***************************************************************************)
(* Credit purchases paid in crypto (src/src/billing/crypto): the checkouts *)
(* that claim an HD derivation index and store a charge, the settlers that *)
(* a chain watcher calls for every transfer to a deposit address, and the  *)
(* webhook of the key server for the charges it hosts.                     *)
(*                                                                         *)
(* A call is a slot that waits at one await of its function.  The ledger   *)
(* is the set of reference ids it has posted; posting one again throws.    *)
(* A transfer is under the charge, short of it by the oracle's drift (the  *)
(* two percent the volatile assets tolerate), or covers it.                *)
(***************************************************************************)
EXTENDS Integers, FiniteSets, FiniteSetsExt

CONSTANTS
    ChargeCalls,    \* calls of checkouts, settlers and the webhook in flight together
    Transfers,      \* transfers customers may send
    Hosted,         \* ids of charges on the key server
    Scenarios,      \* what may happen in a behaviour: [charges, transfers, hosted]
    MaxCharges,     \* bound on the charges the checkouts create
    MaxRetries,     \* maxRetries of the checkouts
    MaxDeaths       \* bound on throwing statements and process deaths

ASSUME CryptoAssumption ==
    /\ {MaxCharges, MaxRetries, MaxDeaths} \subseteq Nat
    /\ Hosted \cap Nat = {} /\ IsFiniteSet(ChargeCalls)
    /\ Scenarios \subseteq [charges : 0..MaxCharges, transfers : SUBSET Transfers, hosted : SUBSET Hosted]

VARIABLES
    scenario,       \* the bound of this behaviour
    charge,         \* crypto_charges: id -> row; on-chain ids are derivation indexes
    cryptoRefs,     \* reference ids in the ledger
    hookSeen,       \* dedupe keys of the replay guard: <<id, status>>
    sent,           \* transfers on the chain: [to, size] or NotSent
    answered,       \* transfers whose settler has returned to its watcher
    ccall,          \* each call: where it waits and its locals
    credits,        \* ghost: how often each charge was credited
    exposed,        \* ghost: charges where a call died between credit and mark, or two overlapped
    deaths

cryptoVars == <<scenario, charge, cryptoRefs, hookSeen, sent, answered, ccall, credits, exposed, deaths>>

Indexes == 0..MaxCharges - 1
ChargeIds == Indexes \cup Hosted
Sizes == {"under", "drift", "full"}
Stored == DOMAIN charge

NotSent == [to |-> -1, size |-> "none"]
NoCall == [at |-> "idle", kind |-> "none", id |-> 0, transfer |-> "none",
           credited |-> FALSE, enough |-> FALSE, status |-> "none", attempt |-> 0]

CryptoInit ==
    /\ scenario \in Scenarios
    /\ charge = [i \in {} |-> {}]
    /\ cryptoRefs = {} /\ hookSeen = {} /\ answered = {} /\ exposed = {}
    /\ sent = [x \in Transfers |-> NotSent]
    /\ ccall = [c \in ChargeCalls |-> NoCall]
    /\ credits = [i \in ChargeIds |-> 0]
    /\ deaths = 0

ChargeCallStates == {"idle", "derive", "insert", "status", "reference", "post", "mark",
                     "progress", "legacy", "seen"}

CryptoTypeOK ==
    /\ Stored \subseteq ChargeIds
    /\ \A i \in Stored : charge[i] \in [kind : {"evm", "eth", "btc", "hosted"},
                                        status : {"New", "Processing", "Settled"}, credited : BOOLEAN]
    /\ \A c \in ChargeCalls : ccall[c].at \in ChargeCallStates /\ ccall[c].attempt \in 0..MaxRetries
    /\ credits \in [ChargeIds -> Nat] /\ exposed \subseteq ChargeIds
    /\ answered \subseteq Transfers /\ deaths \in 0..MaxDeaths

-----------------------------------------------------------------------------
(* Checkouts                                                                *)

CheckingOut == {c \in ChargeCalls : ccall[c].at \in {"derive", "insert"}}

BeginCheckout(c, kind) ==
    /\ ccall[c].at = "idle"
    /\ Cardinality(Stored \cap Nat) + Cardinality(CheckingOut) < scenario.charges
    /\ ccall' = [ccall EXCEPT ![c] = [NoCall EXCEPT !.at = "derive", !.kind = kind]]
    /\ UNCHANGED <<scenario, charge, cryptoRefs, hookSeen, sent, answered, credits, exposed, deaths>>

\* An amount below the minimum throws before anything is read.
createStablecoinCheckout(c) == BeginCheckout(c, "evm")
createEthCheckout(c) == BeginCheckout(c, "eth")
createBtcCheckout(c) == BeginCheckout(c, "btc")

\* The highest index in the table plus one, or 0.
NextIndex == Max({-1} \cup (Stored \cap Nat)) + 1

getNextDerivationIndex(c) ==
    /\ ccall[c].at = "derive"
    /\ ccall' = [ccall EXCEPT ![c].at = "insert", ![c].id = NextIndex]
    /\ UNCHANGED <<scenario, charge, cryptoRefs, hookSeen, sent, answered, credits, exposed, deaths>>

\* The insert of a claimed index; the loser of the index derives again, or
\* throws after the last attempt.
createStablecoinCharge(c) ==
    LET i == ccall[c].id IN
    /\ ccall[c].at = "insert"
    /\ \/ /\ i \notin Stored
          /\ charge' = [j \in Stored \cup {i} |->
                          IF j = i THEN [kind |-> ccall[c].kind, status |-> "New", credited |-> FALSE]
                          ELSE charge[j]]
          /\ ccall' = [ccall EXCEPT ![c] = NoCall]
       \/ /\ i \in Stored
          /\ ccall' = [ccall EXCEPT ![c] = IF @.attempt = MaxRetries THEN NoCall
                                           ELSE [@ EXCEPT !.at = "derive", !.attempt = ccall[c].attempt + 1]]
          /\ UNCHANGED charge
    /\ UNCHANGED <<scenario, cryptoRefs, hookSeen, sent, answered, credits, exposed, deaths>>

\* create: the row of a charge the key server hosts.
createHosted(i) ==
    /\ i \in scenario.hosted \ Stored
    /\ charge' = [j \in Stored \cup {i} |->
                    IF j = i THEN [kind |-> "hosted", status |-> "New", credited |-> FALSE] ELSE charge[j]]
    /\ UNCHANGED <<scenario, cryptoRefs, hookSeen, sent, answered, ccall, credits, exposed, deaths>>

\* A customer sends a transfer to a deposit address (external).
Send(x) ==
    /\ sent[x] = NotSent /\ x \in scenario.transfers
    /\ \E i \in Stored \cap Nat, s \in Sizes : sent' = [sent EXCEPT ![x] = [to |-> i, size |-> s]]
    /\ UNCHANGED <<scenario, charge, cryptoRefs, hookSeen, answered, ccall, credits, exposed, deaths>>

-----------------------------------------------------------------------------
(* Settlers                                                                 *)

\* Mutation: the charge-level idempotency check is left out.
NeverCredited(i) == FALSE

\* creditedAt of the row a settler read before its first write.
CreditedAtRead(i) == charge[i].credited

\* Another settlement of the charge is between its lookup and its mark.
Overlaps(i) ==
    \E d \in ChargeCalls : ccall[d].id = i /\ ccall[d].at \in {"status", "reference", "post", "mark"}

\* A settler looks the charge up by its deposit address.
BeginSettle(c, x, kind, sizes) ==
    LET i == sent[x].to IN
    /\ ccall[c].at = "idle" /\ sent[x] # NotSent /\ x \notin answered
    /\ charge[i].kind = kind
    /\ ccall' = [ccall EXCEPT ![c] = [NoCall EXCEPT !.at = "status", !.kind = kind, !.id = i, !.transfer = x,
                                      !.credited = CreditedAtRead(i), !.enough = sent[x].size \in sizes]]
    /\ exposed' = exposed \cup (IF Overlaps(i) THEN {i} ELSE {})
    /\ UNCHANGED <<scenario, charge, cryptoRefs, hookSeen, sent, answered, credits, deaths>>

\* A stablecoin transfer must cover the charge; ETH and BTC tolerate the drift.
settleEvmPayment(c, x) == BeginSettle(c, x, "evm", {"full"})

settleEthPayment(c, x) == BeginSettle(c, x, "eth", {"drift", "full"})
settleBtcPayment(c, x) == BeginSettle(c, x, "btc", {"drift", "full"})

\* The settler returns; its watcher is answered.
Answer(c) ==
    /\ ccall' = [ccall EXCEPT ![c] = NoCall]
    /\ answered' = answered \cup {ccall[c].transfer}

\* updateStatus "Settled", then the check of the row read before.
settleStatus(c) ==
    /\ ccall[c].at = "status"
    /\ charge' = [charge EXCEPT ![ccall[c].id].status = "Settled"]
    /\ \/ ccall[c].credited /\ Answer(c)
       \/ /\ ~ccall[c].credited
          /\ ccall' = [ccall EXCEPT ![c].at = "reference"]
          /\ UNCHANGED answered
    /\ UNCHANGED <<scenario, cryptoRefs, hookSeen, sent, credits, exposed, deaths>>

\* A settler's reference is its transfer's, the webhook's is its charge's.
Reference(c) == IF ccall[c].kind = "hosted" THEN ccall[c].id ELSE ccall[c].transfer

\* hasReferenceId, then the underpayment check.
settleReference(c) ==
    /\ ccall[c].at = "reference" /\ ccall[c].kind # "hosted"
    /\ \/ (Reference(c) \in cryptoRefs \/ ~ccall[c].enough) /\ Answer(c)
       \/ /\ Reference(c) \notin cryptoRefs /\ ccall[c].enough
          /\ ccall' = [ccall EXCEPT ![c].at = "post"]
          /\ UNCHANGED answered
    /\ UNCHANGED <<scenario, charge, cryptoRefs, hookSeen, sent, credits, exposed, deaths>>

\* ledger.credit: the reference is posted once, posting it again throws.
creditCharge(c) ==
    LET i == ccall[c].id IN
    /\ ccall[c].at = "post"
    /\ \/ /\ Reference(c) \notin cryptoRefs
          /\ cryptoRefs' = cryptoRefs \cup {Reference(c)}
          /\ credits' = [credits EXCEPT ![i] = @ + 1]
          /\ ccall' = [ccall EXCEPT ![c].at = "mark"]
       \/ /\ Reference(c) \in cryptoRefs
          /\ ccall' = [ccall EXCEPT ![c] = NoCall]
          /\ UNCHANGED <<cryptoRefs, credits>>
    /\ UNCHANGED <<scenario, charge, hookSeen, sent, answered, exposed, deaths>>

\* markCredited; onCreditsPurchased, where one is given, changes nothing here.
markCredited(c) ==
    /\ ccall[c].at = "mark"
    /\ charge' = [charge EXCEPT ![ccall[c].id].credited = TRUE]
    /\ \/ ccall[c].kind # "hosted" /\ Answer(c)
       \/ /\ ccall[c].kind = "hosted"
          /\ ccall' = [ccall EXCEPT ![c].at = "seen"]
          /\ UNCHANGED answered
    /\ UNCHANGED <<scenario, cryptoRefs, hookSeen, sent, credits, exposed, deaths>>

-----------------------------------------------------------------------------
(* The key server's webhook                                                 *)

\* normalizeStatus: what the payload's status means, in the table's words.
normalizeStatus(raw) ==
    CASE raw \in {"confirmed", "InvoiceSettled"} -> "Settled"
      [] raw \in {"partial", "InvoiceProcessing"} -> "Processing"
      [] OTHER -> "New"

RawStatuses == {"confirmed", "partial", "InvoiceCreated"}

\* A payload arrives: a duplicate and an unknown charge return at once.
handleKeyServerWebhook(c, i, raw) ==
    LET s == normalizeStatus(raw) IN
    /\ ccall[c].at = "idle" /\ <<i, s>> \notin hookSeen /\ i \in Stored
    /\ ccall' = [ccall EXCEPT ![c] = [NoCall EXCEPT !.at = "progress", !.kind = "hosted",
                                      !.id = i, !.status = s]]
    /\ UNCHANGED <<scenario, charge, cryptoRefs, hookSeen, sent, answered, credits, exposed, deaths>>

\* updateProgress, then the deprecated updateStatus: both write the status.
writeProgress(c) ==
    /\ ccall[c].at \in {"progress", "legacy"}
    /\ charge' = [charge EXCEPT ![ccall[c].id].status = ccall[c].status]
    /\ ccall' = [ccall EXCEPT ![c].at = CASE @ = "progress" -> "legacy"
                                          [] @ = "legacy" /\ ccall[c].status = "Settled" -> "reference"
                                          [] OTHER -> "seen"]
    /\ UNCHANGED <<scenario, cryptoRefs, hookSeen, sent, answered, credits, exposed, deaths>>

\* A confirmed charge whose reference is posted is done; else it is credited.
hookReference(c) ==
    /\ ccall[c].at = "reference" /\ ccall[c].kind = "hosted"
    /\ ccall' = [ccall EXCEPT ![c].at = IF Reference(c) \in cryptoRefs THEN "seen" ELSE "post"]
    /\ UNCHANGED <<scenario, charge, cryptoRefs, hookSeen, sent, answered, credits, exposed, deaths>>

markHookSeen(c) ==
    /\ ccall[c].at = "seen"
    /\ hookSeen' = hookSeen \cup {<<ccall[c].id, ccall[c].status>>}
    /\ ccall' = [ccall EXCEPT ![c] = NoCall]
    /\ UNCHANGED <<scenario, charge, cryptoRefs, sent, answered, credits, exposed, deaths>>

-----------------------------------------------------------------------------
\* A statement throws or the process dies: the call is gone, its watcher or
\* the key server will call again.
Die(c) ==
    /\ ccall[c].at # "idle" /\ deaths < MaxDeaths
    /\ deaths' = deaths + 1
    /\ exposed' = exposed \cup (IF ccall[c].at = "mark" THEN {ccall[c].id} ELSE {})
    /\ ccall' = [ccall EXCEPT ![c] = NoCall]
    /\ UNCHANGED <<scenario, charge, cryptoRefs, hookSeen, sent, answered, credits>>

settlePayment(c, x) == settleEvmPayment(c, x) \/ settleEthPayment(c, x) \/ settleBtcPayment(c, x)

CallStep(c) ==
    \/ getNextDerivationIndex(c) \/ createStablecoinCharge(c)
    \/ settleStatus(c) \/ settleReference(c) \/ creditCharge(c) \/ markCredited(c)
    \/ writeProgress(c) \/ hookReference(c) \/ markHookSeen(c)

CryptoNext ==
    \/ \E c \in ChargeCalls :
          \/ createStablecoinCheckout(c) \/ createEthCheckout(c) \/ createBtcCheckout(c)
          \/ CallStep(c) \/ Die(c)
          \/ \E x \in Transfers : settlePayment(c, x)
          \/ \E i \in Hosted, raw \in RawStatuses : handleKeyServerWebhook(c, i, raw)
    \/ \E i \in Hosted : createHosted(i)
    \/ \E x \in Transfers : Send(x)

CryptoSpec == CryptoInit /\ [][CryptoNext]_cryptoVars

\* A call that was started goes on, and the watcher repeats a transfer until
\* its settler returns.
CryptoFairness ==
    /\ \A c \in ChargeCalls : WF_cryptoVars(CallStep(c))
    /\ \A x \in Transfers : SF_cryptoVars(\E c \in ChargeCalls : settlePayment(c, x))

-----------------------------------------------------------------------------
(* Properties                                                               *)

\* A charge is credited once, whatever the number of transfers to its address
\* and of repeated deliveries, unless a settlement died between the ledger
\* entry and markCredited or two settlements of the charge overlapped: the
\* reference id is the transfer's, so the row's creditedAt is all that stops
\* the second transfer.
ChargeCreditedOnce == \A i \in ChargeIds : credits[i] > 1 => i \in exposed

\* What get() shows of a charge: mapStatus.
Shown(i) == IF charge[i].credited THEN "Settled" ELSE charge[i].status

\* A charge the ledger has credited is shown as confirmed once no call has its
\* mark ahead of it, however the progress updates of the key server are
\* reordered, unless a call died before the mark.
CreditedIsShown ==
    \A i \in Stored :
        (credits[i] > 0 /\ i \notin exposed /\ \A c \in ChargeCalls : ccall[c].id = i => ccall[c].at # "mark")
            => Shown(i) = "Settled"

\* A charge is credited once and shown as what it is.
ChargesSafe == CryptoTypeOK /\ ChargeCreditedOnce /\ CreditedIsShown

Covers(x) ==
    /\ sent[x] # NotSent
    /\ sent[x].size = "full" \/ (sent[x].size = "drift" /\ charge[sent[x].to].kind # "evm")

\* A transfer that covers its charge, within the tolerance of its asset, leads
\* to a credit of the charge, through deaths and repeated deliveries.
TransferCredits ==
    \A x \in Transfers : Covers(x) ~> (sent[x] # NotSent /\ credits[sent[x].to] > 0)
=============================================================================
