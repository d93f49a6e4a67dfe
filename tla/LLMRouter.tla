----------------------------- MODULE LLMRouter -----------------------------
(***************************************************************************)
(* services/llm_router.py: which of three Ollama models answers a prompt,  *)
(* the hourly budget of the reasoning model, the swap of the 7B models and *)
(* the fall-back when a call fails.                                        *)
(*                                                                         *)
(* The callers are the decision agent, for HIGH and CRITICAL detections,   *)
(* and the fall-back agent; both run inside the one consumer task, so that *)
(* one infer is under way at a time.  What is sent and answered is left    *)
(* out; Ollama is the set of 7B models it holds in memory.  An effect of a *)
(* failed call has happened by the time the call fails, or never does.     *)
(***************************************************************************)
EXTENDS Integers

CONSTANTS
  MaxCalls,    \* settings.MAX_DEEPSEEK_CALLS_PER_HOUR
  MaxAttempts, \* requests that an unload is worth: range(3)
  MaxRestarts  \* bound on restarts of the process

ASSUME RouterBoundsOK ==
  MaxCalls \in Nat /\ MaxAttempts \in Nat \ {0} /\ MaxRestarts \in Nat

SevenB == {"qwen", "deepseek"}
Model == SevenB \cup {"llama"}

----------------------------------------------------------------------------
VARIABLES
  pc,       \* where the process is: start-up, between calls, or in infer
  model,    \* the model infer has selected
  attempt,  \* the number of the unload request under way
  loaded,   \* _currently_loaded
  calls,    \* _deepseek_calls of the current hour; no other is ever read
  resident, \* external: the 7B models Ollama holds in memory
  lost,     \* history: resident models no longer tracked, after a failure
  swaps,    \* history: swaps since the hour or the process began
  restarts  \* restarts so far

vars == <<pc, model, attempt, loaded, calls, resident, lost, swaps, restarts>>

TypeOK ==
  /\ pc \in {"prewarm", "idle", "unload", "chat", "fallback"}
  /\ model \in Model
  /\ attempt \in 1..MaxAttempts
  /\ loaded \in Model \cup {"none"}
  /\ calls \in Nat
  /\ resident \subseteq SevenB
  /\ lost \subseteq resident
  /\ swaps \in Nat
  /\ restarts \in 0..MaxRestarts

----------------------------------------------------------------------------
(* infer: select and swap.  The operators named X_... are slips of X.      *)

\* DetectionResult.needs_deep_reasoning, or FallbackAgent's error_state.
Request == {"urgent", "error"}

\* Slip: the check admits one call too many.
SelectModel_OffByOne(request) ==
  CASE request = "error" -> "llama"
    [] request = "urgent" /\ calls <= MaxCalls -> "deepseek"
    [] OTHER -> "qwen"

SelectModel(request) ==
  CASE request = "error" -> "llama"
    [] request = "urgent" /\ calls < MaxCalls -> "deepseek"
    [] OTHER -> "qwen"

\* Slip: the permanent 3B model takes part in the swap.
NoSwapFor_AnyModel(m) == loaded = m

NoSwapFor(m) == m = "llama" \/ loaded = m

MustUnload == loaded \in SevenB

\* The router now takes m as the one 7B model loaded.
SwapTo(m, astray) ==
  /\ loaded' = m
  /\ lost' = astray \ {m}
  /\ swaps' = swaps + 1
  /\ pc' = "chat"

\* select_model and _ensure_model_loaded run to the first await of infer.
Infer(request) ==
  /\ pc = "idle"
  /\ model' = SelectModel(request)
  /\ \/ /\ NoSwapFor(model')
        /\ pc' = "chat"
        /\ UNCHANGED <<attempt, loaded, lost, swaps>>
     \/ /\ ~NoSwapFor(model') /\ MustUnload
        /\ pc' = "unload"
        /\ attempt' = 1
        /\ UNCHANGED <<loaded, lost, swaps>>
     \/ /\ ~NoSwapFor(model') /\ ~MustUnload
        /\ SwapTo(model', lost)
        /\ UNCHANGED attempt
  /\ UNCHANGED <<calls, resident, restarts>>

\* Ollama answers 200 and has released the model.
Unloaded ==
  /\ pc = "unload"
  /\ resident' = resident \ {loaded}
  /\ SwapTo(model, lost \ {loaded})
  /\ UNCHANGED <<model, attempt, calls, restarts>>

\* An unload request that fails, its answer lost or bad, may have released
\* the model or not.
Released(memory) == memory \in {resident, resident \ {loaded}}

\* Slip: nothing ends the attempts.
UnloadFails_NoLimit ==
  /\ pc = "unload"
  /\ attempt' = attempt + 1
  /\ Released(resident')
  /\ lost' = lost \cap resident'
  /\ UNCHANGED <<pc, model, loaded, calls, swaps, restarts>>

UnloadFails ==
  /\ pc = "unload" /\ attempt < MaxAttempts
  /\ attempt' = attempt + 1
  /\ Released(resident')
  /\ lost' = lost \cap resident'
  /\ UNCHANGED <<pc, model, loaded, calls, swaps, restarts>>

\* The last attempt fails as well, and the swap goes on.
UnloadGivesUp ==
  /\ pc = "unload" /\ attempt = MaxAttempts
  /\ Released(resident')
  /\ SwapTo(model, (lost \cup {loaded}) \cap resident')
  /\ UNCHANGED <<model, attempt, calls, restarts>>

----------------------------------------------------------------------------
(* infer: the call and its fall-back.                                      *)

\* The answer is counted in the hour in which it arrives.
Answered ==
  /\ pc = "chat"
  /\ pc' = "idle"
  /\ calls' = IF model = "deepseek" THEN calls + 1 ELSE calls
  /\ resident' = resident \cup ({model} \cap SevenB)
  /\ UNCHANGED <<model, attempt, loaded, lost, swaps, restarts>>

\* Slip: the failed call leaves the router without a loaded model.
CallFails_Forgets ==
  /\ pc = "chat"
  /\ pc' = "fallback"
  /\ resident' \in {resident, resident \cup ({model} \cap SevenB)}
  /\ loaded' = "none"
  /\ UNCHANGED <<model, attempt, calls, lost, swaps, restarts>>

\* A time-out, an error status or no connection: the prompt goes to llama.
\* Nothing is counted, whether or not Ollama has worked on it.
CallFails ==
  /\ pc = "chat"
  /\ pc' = "fallback"
  /\ resident' \in {resident, resident \cup ({model} \cap SevenB)}
  /\ UNCHANGED <<model, attempt, loaded, calls, lost, swaps, restarts>>

\* Slip: a fall-back that fails tries the selected model again.
FallBack_Retries ==
  /\ pc = "fallback"
  /\ pc' \in {"idle", "chat"}
  /\ UNCHANGED <<model, attempt, loaded, calls, resident, lost, swaps, restarts>>

\* _fallback_infer answers in any case, with llama's text or with a remark.
FallBack ==
  /\ pc = "fallback"
  /\ pc' = "idle"
  /\ UNCHANGED <<model, attempt, loaded, calls, resident, lost, swaps, restarts>>

----------------------------------------------------------------------------
(* Start-up, Ollama, time.                                                 *)

\* prewarm_models: any answer, an error status too, counts as loaded.
Prewarmed ==
  /\ pc = "prewarm"
  /\ pc' = "idle"
  /\ loaded' = "qwen"
  /\ resident' \in {resident, resident \cup {"qwen"}}
  /\ lost' = lost \ {"qwen"}
  /\ UNCHANGED <<model, attempt, calls, swaps, restarts>>

\* No answer within 120 s; Ollama may have loaded the model nevertheless.
PrewarmFails ==
  /\ pc = "prewarm"
  /\ pc' = "idle"
  /\ resident' \in {resident, resident \cup {"qwen"}}
  /\ lost' = lost \cup (resident' \ resident)
  /\ UNCHANGED <<model, attempt, loaded, calls, swaps, restarts>>

\* External: Ollama drops a model that has been idle, or stops.
Evict(m) ==
  /\ m \in resident
  /\ resident' = resident \ {m}
  /\ lost' = lost \ {m}
  /\ UNCHANGED <<pc, model, attempt, loaded, calls, swaps, restarts>>

\* _current_hour_key changes.
NewHour ==
  /\ calls' = 0
  /\ swaps' = 0
  /\ UNCHANGED <<pc, model, attempt, loaded, resident, lost, restarts>>

\* The process is replaced at any point; Ollama runs on with its models.
Restart ==
  /\ restarts < MaxRestarts
  /\ restarts' = restarts + 1
  /\ pc' = "prewarm" /\ loaded' = "none" /\ calls' = 0
  /\ model' = "llama" /\ attempt' = 1 /\ swaps' = 0
  /\ lost' = resident
  /\ UNCHANGED resident

----------------------------------------------------------------------------
Init ==
  /\ pc = "prewarm" /\ loaded = "none" /\ calls = 0
  /\ model = "llama" /\ attempt = 1 /\ swaps = 0
  /\ resident = {} /\ lost = {} /\ restarts = 0

\* What the code does by itself once a call has begun.
RouterStep ==
  \/ Unloaded \/ UnloadFails \/ UnloadGivesUp
  \/ Answered \/ CallFails \/ FallBack
  \/ Prewarmed \/ PrewarmFails

Next ==
  \/ RouterStep
  \/ \E request \in Request : Infer(request)
  \/ \E m \in SevenB : Evict(m)
  \/ NewHour \/ Restart

Spec == Init /\ [][Next]_vars

\* Every request has a time-out, so that each step ends in one way or another.
FairSpec == Spec /\ WF_vars(RouterStep)

----------------------------------------------------------------------------
(* Properties.                                                             *)

\* The reasoning model answers at most MaxCalls times within an hour,
\* although the budget is read before the call and charged after it, in an
\* hour that may be the next.
CallsWithinBudget == calls <= MaxCalls

\* Every 7B model in Ollama's memory is the one the router takes as loaded,
\* unless an unload or the prewarm has failed, or the process was replaced,
\* since it was loaded: only then are two of them in memory, against "never
\* load two 7B models simultaneously".
MemoryIsTracked == resident \subseteq {loaded} \cup lost

\* A swap reads gigabytes, and the budget does not make the router swing to
\* and fro: within one hour of one process there are at most three swaps, a
\* late one to qwen, one to deepseek, and one back when the budget is spent.
SwapsAreRare == swaps <= 3

\* A prompt is always answered, and the start-up does not hang, whatever
\* fails: infer returns.
InferReturns == (pc # "idle") ~> (pc = "idle")
=============================================================================
