------------------------------ MODULE MCTraffic -----------------------------
(* The admission of gateway requests, the routing of capability requests, and *)
(* snapshots and backups: a behaviour is about one of them.                   *)
EXTENDS Admission, Routing, Backups

Setup(ks, rs, capability) ==
    [NoSetup EXCEPT !.keys = ks, !.rows = rs, !.capability = capability, !.router = TRUE]

MCRate == [a \in Providers |-> 3]

MCPrice == [a \in Providers \cup {"custom", "self-hosted-llm"} |->
              CASE a = "custom" -> [cost |-> 1, priority |-> 1, latency |-> 2]
                [] a = "self-hosted-llm" -> [cost |-> 1, priority |-> 2, latency |-> 1]
                [] OTHER -> [cost |-> 2, priority |-> 1, latency |-> 1]]

\* The hosted providers; a GPU provider with product adapters behind it; a row
\* whose adapter is missing and one only the router knows; legacy routing.
MCSetups == {
    NoSetup,
    Setup({"deepseek", "replicate"}, {"deepseek"}, "text-generation"),
    Setup({"gemini"}, {"gemini"}, "text-generation"),
    Setup({"kimi"}, {"kimi"}, "text-generation"),
    Setup({"minimax"}, {"minimax"}, "text-generation"),
    Setup({"openrouter", "ollama-embeddings"}, {"ollama-embeddings"}, "embeddings"),
    Setup({"openrouter"}, {"openrouter"}, "text-generation"),
    Setup({"replicate"}, {"replicate"}, "transcription"),
    Setup({"replicate", "nano-banana"}, {"nano-banana", "replicate"}, "image-generation"),
    Setup({"deepgram"}, {"deepgram"}, "transcription"),
    [Setup({"elevenlabs", "chatterbox-tts"}, {"elevenlabs", "chatterbox-tts", "custom"}, "tts")
       EXCEPT !.extra = <<"custom">>],
    [Setup({}, {"custom", "self-hosted-llm", "gemini"}, "tts")
       EXCEPT !.extra = <<"custom">>, !.unregistered = {"self-hosted-llm"}, !.lowLatency = TRUE],
    [Setup({"elevenlabs", "chatterbox-tts"}, {}, "tts") EXCEPT !.router = FALSE, !.tierWanted = "standard"],
    [Setup({"openrouter", "deepgram"}, {}, "embeddings") EXCEPT !.router = FALSE, !.tierWanted = "standard"]}

Archive(acts, have, copies, max) ==
    [NoArchive EXCEPT !.acts = acts, !.have = have, !.copies = copies, !.max = max]

\* Snapshots at their limit; restores while snapshots expire; nightly archives
\* across the end of a year, with two sizes of the retention.
MCArchives == {NoArchive,
    Archive({"make", "tenant", "retention"}, {1}, {1}, 1),
    Archive({"make", "expiry", "retention"}, {1}, {}, 2),
    Archive({"restore", "expiry"}, {1, 2}, {2}, 1),
    [Archive({"nightly"}, {}, {}, 0) EXCEPT !.daily = 2, !.weekly = 2],
    [Archive({"nightly"}, {}, {}, 0) EXCEPT !.daily = 1, !.weekly = 3, !.encrypted = TRUE]}

Interchangeable == Permutations(Callers) \cup Permutations(Executions)

Init ==
    /\ AdmissionInit /\ RoutingInit /\ BackupInit
    /\ Cardinality({i \in 1..3 : <<mount # "none", setup # NoSetup, archive # NoArchive>>[i]}) = 1

Next ==
    \/ mount # "none" /\ AdmissionNext /\ UNCHANGED <<routingVars, backupVars>>
    \/ setup # NoSetup /\ RoutingNext /\ UNCHANGED <<admissionVars, backupVars>>
    \/ archive # NoArchive /\ BackupNext /\ UNCHANGED <<admissionVars, routingVars>>

Spec == Init /\ [][Next]_<<admissionVars, routingVars, backupVars>>
=============================================================================
