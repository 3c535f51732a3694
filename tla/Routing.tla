------------------------------- MODULE Routing ------------------------------
(***************************************************************************)
(* How a capability request finds a provider and what is metered for it:   *)
(* AdapterSocket (monetization/socket), ArbitrageRouter and                *)
(* ProviderRegistry (monetization/arbitrage) and the provider adapters     *)
(* (monetization/adapters), all under src/src.  An adapter is what it does *)
(* with the reply of its provider: an answer with a cost and a charge, or  *)
(* an error that carries an HTTP status or carries none.  The health       *)
(* overrides are rows that unawaited promises write.                       *)
(***************************************************************************)
EXTENDS Integers, FiniteSets, Sequences, SequencesExt

CONSTANTS
    Executions,     \* requests in flight together
    Setups,         \* what may be configured, see Setup
    Rate,           \* each adapter: configured cost of a unit
    Price,          \* each adapter: its row of provider_costs
    MaxUnits,       \* bound on the units of a reply
    MaxEmitFaults,  \* bound on meter writes that throw
    MaxToggles      \* bound on changes of provider_costs

Providers == {"deepseek", "gemini", "kimi", "minimax", "openrouter", "replicate", "nano-banana",
              "elevenlabs", "chatterbox-tts", "deepgram", "ollama-embeddings"}

ASSUME RoutingAssumption ==
    /\ {MaxUnits, MaxEmitFaults, MaxToggles} \subseteq Nat
    /\ \A a \in Providers : Rate[a] \in Nat
    /\ \A s \in Setups : IsFiniteSet(s.rows)

VARIABLES
    setup,          \* the configuration of this behaviour
    listed,         \* adapters with an active row in provider_costs
    cached,         \* the registry's copy
    cacheOld,       \* the copy is older than cacheTtlMs
    health,         \* provider_health_overrides: none, unhealthy, or unhealthy past its TTL
    marks,          \* health promises that have not settled
    run,            \* each request
    events,         \* each request: the meter events emitted for it
    emitFaults, toggles

registry == <<listed, cached, cacheOld, health, marks>>
routingVars == <<setup, registry, run, events, emitFaults, toggles>>

-----------------------------------------------------------------------------
(* Costs                                                                    *)

\* Credit.multiply by a percentage: Math.round.
multiply(cost, percent) == (cost * percent * 2 + 100) \div 200

\* A value from 3 to 100 is a markup in percent, another one a multiplier (here
\* in hundredths).
withMargin(cost, margin) ==
    multiply(cost, IF margin >= 300 /\ margin <= 10000 THEN 100 + margin \div 100 ELSE margin)

Answer(cost, charge) == [ok |-> TRUE, status |-> 0, cost |-> cost, charge |-> charge]

\* An error with a status, or (0) a plain Error.
Error(status) == [ok |-> FALSE, status |-> status, cost |-> 0, charge |-> 0]
Plain == Error(0)

\* What a provider replies: an HTTP status (0: the request throws or times
\* out), units used, cached units among them, whether the content is missing or
\* the job did not succeed.
Replies == {r \in [code : {0, 200, 429, 500}, units : 0..MaxUnits, hits : 0..MaxUnits, bad : BOOLEAN] :
               r.hits <= r.units}

-----------------------------------------------------------------------------
(* The adapters                                                             *)

\* The text generators turn a 429 into an error that carries it.
Generated(reply, cost, margin) ==
    CASE reply.code = 429 -> Error(429)
      [] reply.code \notin {200, 429} -> Plain
      [] OTHER -> Answer(cost, withMargin(cost, margin))

\* Cached input tokens cost a tenth.
deepseek(reply) ==
    Generated(reply, ((reply.units - reply.hits) * 10 + reply.hits) * Rate["deepseek"], 130)

gemini(reply) == Generated(reply, reply.units * Rate["gemini"], 130)

kimi(reply) == Generated(reply, reply.units * Rate["kimi"], 130)

\* A request with neither messages nor prompt is not sent.
minimax(reply) ==
    IF reply.bad THEN Plain ELSE Generated(reply, reply.units * Rate["minimax"], 130)

\* The cost of the header, or of the tokens: both are the reply's units here.
openrouterText(reply) == Generated(reply, reply.units * Rate["openrouter"], 130)
openrouterEmbed(reply) == Generated(reply, reply.units * Rate["openrouter"], 130)

\* A reply without an image is an error, though the provider was paid.
nanoBanana(reply) ==
    IF reply.code = 200 /\ (reply.bad \/ reply.units = 0) THEN Plain
    ELSE Generated(reply, reply.units * Rate["nano-banana"], 130)

\* The others throw a plain Error for every status.
Unmapped(reply, cost, margin) ==
    IF reply.code = 200 THEN Answer(cost, withMargin(cost, margin)) ELSE Plain

elevenlabs(reply) == Unmapped(reply, reply.units * Rate["elevenlabs"], 150)
chatterbox(reply) == Unmapped(reply, reply.units * Rate["chatterbox-tts"], 120)
deepgram(reply) == IF reply.bad THEN Plain ELSE Unmapped(reply, reply.units * Rate["deepgram"], 130)
ollama(reply) == Unmapped(reply, reply.units * Rate["ollama-embeddings"], 120)

\* A prediction that fails, is cancelled or is not done when the polls are used up.
waitForPrediction(reply) == IF reply.bad THEN [reply EXCEPT !.code = 0] ELSE reply

replicateTranscribe(reply) == Unmapped(waitForPrediction(reply), reply.units * Rate["replicate"], 130)
replicateImage(reply) == Unmapped(waitForPrediction(reply), reply.units * Rate["replicate"], 130)
replicateText(reply) == Unmapped(waitForPrediction(reply), reply.units * Rate["replicate"], 130)

\* An adapter a product registers: it may carry any status and compute no charge.
custom(reply) ==
    IF reply.code = 200 THEN Answer(reply.units, -1) ELSE Error(reply.code)

\* The method of an adapter for a capability.
Method(a, capability, reply) ==
    CASE a = "deepseek" -> deepseek(reply)
      [] a = "gemini" -> gemini(reply)
      [] a = "kimi" -> kimi(reply)
      [] a = "minimax" -> minimax(reply)
      [] a = "openrouter" -> IF capability = "embeddings" THEN openrouterEmbed(reply) ELSE openrouterText(reply)
      [] a = "nano-banana" -> nanoBanana(reply)
      [] a = "elevenlabs" -> elevenlabs(reply)
      [] a = "chatterbox-tts" -> chatterbox(reply)
      [] a = "deepgram" -> deepgram(reply)
      [] a = "ollama-embeddings" -> ollama(reply)
      [] a = "replicate" -> CASE capability = "transcription" -> replicateTranscribe(reply)
                              [] capability = "image-generation" -> replicateImage(reply)
                              [] OTHER -> replicateText(reply)
      [] OTHER -> custom(reply)

-----------------------------------------------------------------------------
(* What is configured                                                       *)

\* The factories build the adapters whose key is set, in this order.
createTextGenAdapters(keys) == SelectSeq(<<"deepseek", "gemini", "minimax", "kimi", "openrouter">>, LAMBDA a : a \in keys)
createTTSAdapters(keys) == SelectSeq(<<"chatterbox-tts", "elevenlabs">>, LAMBDA a : a \in keys)
createTranscriptionAdapters(keys) == SelectSeq(<<"deepgram">>, LAMBDA a : a \in keys)
createEmbeddingsAdapters(keys) == SelectSeq(<<"ollama-embeddings", "openrouter">>, LAMBDA a : a \in keys)
createImageGenAdapters(keys) == SelectSeq(<<"replicate", "nano-banana">>, LAMBDA a : a \in keys)

\* The order of the socket's map: a name that comes again keeps its place.
bootstrapAdapters(keys) ==
    createTextGenAdapters(keys) \o createTTSAdapters(keys) \o createTranscriptionAdapters(keys)
      \o createEmbeddingsAdapters(keys) \o createImageGenAdapters(keys)

capabilities(a) ==
    CASE a \in {"deepseek", "gemini", "kimi", "minimax"} -> {"text-generation"}
      [] a = "openrouter" -> {"text-generation", "embeddings"}
      [] a = "replicate" -> {"transcription", "image-generation", "text-generation"}
      [] a = "nano-banana" -> {"image-generation"}
      [] a \in {"elevenlabs", "chatterbox-tts"} -> {"tts"}
      [] a = "deepgram" -> {"transcription"}
      [] a = "ollama-embeddings" -> {"embeddings"}
      [] OTHER -> {"text-generation", "tts"}

selfHosted(a) == a \in {"chatterbox-tts", "ollama-embeddings"}

\* mapRow: the tier of a row goes by the adapter's name.
tier(a) == IF a \in {"chatterbox-tts", "self-hosted-llm"} THEN "gpu" ELSE "hosted"

\* keys: adapters with a key; extra: adapters the product registers at the
\* socket; unregistered: adapters only the router knows; rows: adapters with a
\* row in provider_costs for the capability.
Registered == bootstrapAdapters(setup.keys) \o setup.extra
RouterKnows == ToSet(Registered) \cup setup.unregistered
Known(a) == a \in RouterKnows /\ setup.capability \in capabilities(a)

Waiting == [at |-> "idle", byok |-> FALSE, direct |-> FALSE, read |-> {}, chain |-> <<>>,
            failed |-> {}, answer |-> Plain, by |-> "none"]

NoSetup == [keys |-> {}, extra |-> <<>>, unregistered |-> {}, rows |-> {}, capability |-> "none",
            router |-> FALSE, tierWanted |-> "none", lowLatency |-> FALSE]

RoutingInit ==
    /\ setup \in Setups
    /\ listed = setup.rows
    /\ cached = {} /\ cacheOld = TRUE
    /\ health = [a \in setup.rows |-> "none"]
    /\ marks = {}
    /\ run = [x \in Executions |-> Waiting]
    /\ events = [x \in Executions |-> <<>>]
    /\ emitFaults = 0 /\ toggles = 0

-----------------------------------------------------------------------------
(* AdapterSocket.execute                                                    *)

Over(x, result) == run' = [run EXCEPT ![x].at = result]

\* Legacy routing: the tier asked for, then any adapter with the capability.
resolveAdapter ==
    LET able == SelectSeq(Registered, LAMBDA a : setup.capability \in capabilities(a))
        wanted == SelectSeq(able, LAMBDA a : selfHosted(a) = (setup.tierWanted = "standard"))
    IN  IF setup.tierWanted # "none" /\ wanted # <<>> THEN wanted[1]
        ELSE IF able # <<>> THEN able[1] ELSE "unknown"

\* The budget check (not for a tenant with its own key) may throw; then an
\* explicit adapter, the router, or legacy routing.
execute(x) ==
    /\ run[x].at = "idle"
    /\ \E byok \in BOOLEAN, explicit \in BOOLEAN :
          \/ \E a \in ToSet(Registered) :
                /\ explicit \/ ~setup.router
                /\ explicit \/ a = resolveAdapter
                /\ run' = [run EXCEPT ![x] = [Waiting EXCEPT !.at = "direct", !.byok = byok, !.direct = TRUE, !.chain = <<a>>]]
          \/ /\ setup.router /\ ~explicit
             /\ run' = [run EXCEPT ![x] = [Waiting EXCEPT !.at = "providers", !.byok = byok]]
          \/ ~byok /\ Over(x, "refused")
    /\ UNCHANGED <<setup, registry, events, emitFaults, toggles>>

\* A named adapter; an adapter without the capability is refused.
executeWithAdapter(x) ==
    /\ run[x].at = "direct"
    /\ LET a == run[x].chain[1]
       IN  IF setup.capability \notin capabilities(a) THEN Over(x, "thrown")
           ELSE \E reply \in Replies :
                  LET o == Method(a, setup.capability, reply)
                  IN  IF o.ok THEN run' = [run EXCEPT ![x].at = "emit", ![x].answer = o, ![x].by = a]
                             ELSE Over(x, "thrown")
    /\ UNCHANGED <<setup, registry, events, emitFaults, toggles>>

\* The adapter's charge, or the default margin on its cost.
chargeOf(o) == IF o.charge >= 0 THEN o.charge ELSE withMargin(o.cost, 130)

\* One event for the provider that answered; nothing is charged for a tenant's
\* own key.  A provider the socket does not know ends the request.
emit(x) ==
    /\ run[x].at = "emit"
    /\ LET free == run[x].byok
           o == run[x].answer
           event == [provider |-> run[x].by, cost |-> IF free THEN 0 ELSE o.cost,
                     charge |-> IF free THEN 0 ELSE chargeOf(o),
                     tier |-> CASE free -> "byok" [] ~free /\ selfHosted(run[x].by) -> "wopr" [] OTHER -> "branded"]
       IN  \/ /\ run[x].by \in ToSet(Registered)
              /\ events' = [events EXCEPT ![x] = Append(@, event)]
              /\ Over(x, "done")
              /\ UNCHANGED emitFaults
           \/ /\ run[x].by \notin ToSet(Registered)
              /\ Over(x, "unregistered")
              /\ UNCHANGED <<events, emitFaults>>
           \/ /\ run[x].by \in ToSet(Registered) /\ emitFaults < MaxEmitFaults
              /\ emitFaults' = emitFaults + 1
              /\ Over(x, "unmetered")
              /\ UNCHANGED events
    /\ UNCHANGED <<setup, registry, toggles>>

-----------------------------------------------------------------------------
(* The registry                                                             *)

refresh(x) ==
    /\ run[x].at = "providers" /\ cacheOld
    /\ cached' = listed /\ cacheOld' = FALSE
    /\ UNCHANGED <<setup, listed, health, marks, run, events, emitFaults, toggles>>

\* The rows with their overrides; an override past its time counts as none and
\* is cleared by a promise.
getProviders(x) ==
    /\ run[x].at = "providers" /\ ~cacheOld
    /\ run' = [run EXCEPT ![x].at = "select", ![x].read = {a \in cached : health[a] # "unhealthy"}]
    /\ marks' = marks \cup {<<a, "none">> : a \in {b \in cached : health[b] = "expired"}}
    /\ UNCHANGED <<setup, listed, cached, cacheOld, health, events, emitFaults, toggles>>

markHealthy(a) == marks' = marks \cup {<<a, "none">>}
markUnhealthy(a) == marks' = marks \cup {<<a, "unhealthy">>}

\* A health promise settles: the row is written, or the write fails and is
\* logged.
Settle(mark) ==
    /\ marks' = marks \ {mark}
    /\ \/ health' = [health EXCEPT ![mark[1]] = mark[2]]
       \/ UNCHANGED health
    /\ UNCHANGED <<setup, listed, cached, cacheOld, run, events, emitFaults, toggles>>

\* Time passes: an override is older than unhealthyTtlMs, the copy than cacheTtlMs.
Expire ==
    /\ \/ \E a \in setup.rows : health[a] = "unhealthy" /\ health' = [health EXCEPT ![a] = "expired"] /\ UNCHANGED cacheOld
       \/ ~cacheOld /\ cacheOld' = TRUE /\ UNCHANGED health
    /\ UNCHANGED <<setup, listed, cached, marks, run, events, emitFaults, toggles>>

purgeExpired ==
    /\ \E a \in setup.rows : health[a] = "expired"
    /\ health' = [a \in setup.rows |-> IF health[a] = "expired" THEN "none" ELSE health[a]]
    /\ UNCHANGED <<setup, listed, cached, cacheOld, marks, run, events, emitFaults, toggles>>

\* An admin switches a row of provider_costs.
Toggle(a) ==
    /\ toggles < MaxToggles
    /\ toggles' = toggles + 1
    /\ listed' = IF a \in listed THEN listed \ {a} ELSE listed \cup {a}
    /\ UNCHANGED <<setup, cached, cacheOld, health, marks, run, events, emitFaults>>

-----------------------------------------------------------------------------
(* ArbitrageRouter.route                                                    *)

CheaperThan(a, b) ==
    \/ Price[a].cost < Price[b].cost
    \/ Price[a].cost = Price[b].cost /\ Price[a].priority < Price[b].priority

PreferredTo(a, b) ==
    \/ setup.lowLatency /\ Price[a].latency < Price[b].latency
    \/ (~setup.lowLatency \/ Price[a].latency = Price[b].latency) /\ CheaperThan(a, b)

Tier(S, t) == {a \in S : tier(a) = t}

\* The GPU tier first, then the hosted one; any of those that compare equal.
preferred(S) ==
    LET pool == IF Tier(S, "gpu") # {} THEN Tier(S, "gpu") ELSE S
    IN  {a \in pool : \A b \in pool : ~PreferredTo(b, a)}

\* The orders in which a sort by cost, then priority, may leave S: the names, by
\* which the code lists those that compare equal, have no order here.
Sorted(S) == {c \in SetToSeqs(S) : \A i, j \in DOMAIN c : i < j => ~CheaperThan(c[j], c[i])}

\* Mutation: the chain ends with the tier of the first choice.
SameTierChain(first, S) ==
    {<<first>> \o rest : rest \in Sorted(Tier(S \ {first}, tier(first)))}

buildFailoverChain(first, S) ==
    LET rest(t) == Sorted(Tier(S \ {first}, t))
    IN  {<<first>> \o r[1] \o r[2] : r \in rest("gpu") \X rest("hosted")}

selectProvider(x) ==
    /\ run[x].at = "select"
    /\ \/ run[x].read = {} /\ Over(x, "none_available")
       \/ \E first \in preferred(run[x].read) :
             \E chain \in buildFailoverChain(first, run[x].read) :
                run' = [run EXCEPT ![x].at = "try", ![x].chain = chain]
    /\ UNCHANGED <<setup, registry, events, emitFaults, toggles>>

\* A 5xx in the error sends the request to the next provider, every other
\* error to the caller; an adapter the router has not is skipped.
route(x) ==
    /\ run[x].at = "try"
    /\ \/ run[x].chain = <<>> /\ Over(x, "none_available") /\ UNCHANGED marks
       \/ /\ run[x].chain # <<>> /\ ~Known(Head(run[x].chain))
          /\ run' = [run EXCEPT ![x].chain = Tail(@)]
          /\ UNCHANGED marks
       \/ /\ run[x].chain # <<>> /\ Known(Head(run[x].chain))
          /\ LET a == Head(run[x].chain)
                 next == [run EXCEPT ![x].chain = Tail(@), ![x].failed = @ \cup {a}]
             IN  \E reply \in Replies :
                    LET o == Method(a, setup.capability, reply)
                    IN  CASE o.ok -> run' = [run EXCEPT ![x].at = "emit", ![x].answer = o, ![x].by = a] /\ markHealthy(a)
                          [] ~o.ok /\ o.status \in 500..599 -> run' = next /\ markUnhealthy(a)
                          [] OTHER -> Over(x, "thrown") /\ UNCHANGED marks
    /\ UNCHANGED <<setup, listed, cached, cacheOld, health, events, emitFaults, toggles>>

RoutingNext ==
    \/ \E x \in Executions : execute(x) \/ executeWithAdapter(x) \/ emit(x) \/ refresh(x) \/ getProviders(x)
                               \/ selectProvider(x) \/ route(x)
    \/ \E mark \in marks : Settle(mark)
    \/ Expire \/ purgeExpired
    \/ \E a \in setup.rows : Toggle(a)

RoutingSpec == RoutingInit /\ [][RoutingNext]_routingVars

-----------------------------------------------------------------------------
(* Properties                                                               *)

\* What a request returned is metered once, for the provider that answered and
\* at its cost, and charged at no less than that unless the tenant used its own
\* key; a request that was not answered is not metered (socket.ts).
AnsweredIsMetered ==
    \A x \in Executions :
        IF run[x].at = "done"
          THEN /\ Len(events[x]) = 1 /\ events[x][1].provider = run[x].by
               /\ events[x][1].cost = (IF run[x].byok THEN 0 ELSE run[x].answer.cost)
               /\ IF run[x].byok THEN events[x][1].charge = 0 ELSE events[x][1].charge >= events[x][1].cost
          ELSE events[x] = <<>>

\* NoProviderAvailableError means that every provider the request had read as
\* listed and healthy, and the router has an adapter for, was tried and failed
\* with a 5xx (router.ts).
NoneLeftMeansAllTried ==
    \A x \in Executions : run[x].at = "none_available" => \A a \in run[x].read : Known(a) => a \in run[x].failed

\* An answer is paid for, and no answer means that nobody was left to ask.
RoutingSafe == AnsweredIsMetered /\ NoneLeftMeansAllTried
=============================================================================
