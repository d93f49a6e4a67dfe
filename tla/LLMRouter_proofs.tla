-------------------------- MODULE LLMRouter_proofs --------------------------
(***************************************************************************)
(* The safety properties of LLMRouter, for every budget, every number of   *)
(* unload attempts and any number of restarts; and that infer returns, for *)
(* the attempts the code makes.                                            *)
(***************************************************************************)
EXTENDS LLMRouter, TLAPS

\* What infer relies on while a call is under way: the budget it read still
\* holds, and the model it waits for is the one the router takes as loaded.
CallInv ==
  /\ loaded # "llama"
  /\ pc = "prewarm" => loaded = "none"
  /\ pc = "unload" => loaded \in SevenB /\ model \in SevenB \ {loaded}
  /\ pc = "chat" => model = "llama" \/ model = loaded
  /\ pc \in {"unload", "chat"} /\ model = "deepseek" => calls < MaxCalls

\* How many swaps the hour has seen, by what it may still see: with deepseek
\* loaded one more, with qwen loaded two more while the budget lasts and none
\* after that.
SwapInv ==
  /\ loaded = "none" => swaps = 0
  /\ loaded = "qwen" => swaps <= 3 /\ (calls < MaxCalls => swaps <= 1)
  /\ loaded = "deepseek" => swaps <= 2
  /\ pc = "unload" /\ loaded = "deepseek" /\ calls < MaxCalls => swaps = 0

IInv == TypeOK /\ CallInv /\ CallsWithinBudget /\ MemoryIsTracked /\ SwapInv

LEMMA IInvInit == Init => IInv
  BY RouterBoundsOK DEF Init, IInv, TypeOK, Model, SevenB, CallInv,
     CallsWithinBudget, MemoryIsTracked, SwapInv

\* A swap is made to another 7B model, while the budget it was chosen under
\* lasts; one case per kind of swap.
LEMMA IInvStep == IInv /\ [Next]_vars => IInv'
<1> SUFFICES ASSUME IInv, [Next]_vars PROVE IInv'
  OBVIOUS
<1> USE RouterBoundsOK
    DEF IInv, TypeOK, Model, SevenB, CallInv, CallsWithinBudget,
        MemoryIsTracked, SwapInv
<1>1. CASE Unloaded
  BY <1>1 DEF Unloaded, SwapTo
<1>2. CASE UnloadFails
  BY <1>2 DEF UnloadFails, Released
<1>3. CASE UnloadGivesUp
  BY <1>3 DEF UnloadGivesUp, SwapTo, Released
<1>4. CASE Answered
  BY <1>4 DEF Answered
<1>5. CASE CallFails
  BY <1>5 DEF CallFails
<1>6. CASE FallBack
  BY <1>6 DEF FallBack
<1>7. CASE Prewarmed
  BY <1>7 DEF Prewarmed
<1>8. CASE PrewarmFails
  BY <1>8 DEF PrewarmFails
<1>9. ASSUME NEW request \in Request, Infer(request) PROVE IInv'
  <2>1. CASE NoSwapFor(model')
    BY <1>9, <2>1 DEF Infer, NoSwapFor, MustUnload, SelectModel, Request
  <2>2. CASE ~NoSwapFor(model') /\ MustUnload
    BY <1>9, <2>2 DEF Infer, NoSwapFor, MustUnload, SelectModel, Request
  <2>3. CASE ~NoSwapFor(model') /\ ~MustUnload
    BY <1>9, <2>3 DEF Infer, NoSwapFor, MustUnload, SelectModel, Request, SwapTo
  <2> QED
    BY <2>1, <2>2, <2>3
<1>10. ASSUME NEW m \in SevenB, Evict(m) PROVE IInv'
  BY <1>10 DEF Evict
<1>11. CASE NewHour
  BY <1>11 DEF NewHour
<1>12. CASE Restart
  BY <1>12 DEF Restart
<1>13. CASE UNCHANGED vars
  BY <1>13 DEF vars
<1> QED
  BY <1>1, <1>2, <1>3, <1>4, <1>5, <1>6, <1>7, <1>8, <1>9, <1>10, <1>11, <1>12, <1>13 DEF Next, RouterStep

LEMMA IInvAlways == Spec => []IInv
  BY IInvInit, IInvStep, PTL DEF Spec

\* The variables keep their types; in particular no unload is tried more than
\* MaxAttempts times.
THEOREM RouterTypeCorrect == Spec => []TypeOK
<1>1. IInv => TypeOK
  BY DEF IInv
<1> QED
  BY <1>1, IInvAlways, PTL

\* The hourly budget holds for every size of it, however calls straddle hours.
THEOREM BudgetHolds == Spec => []CallsWithinBudget
<1>1. IInv => CallsWithinBudget
  BY DEF IInv
<1> QED
  BY <1>1, IInvAlways, PTL

\* Without a failed unload or prewarm and without a restart the router knows
\* every 7B model in memory.
THEOREM RouterKnowsMemory == Spec => []MemoryIsTracked
<1>1. IInv => MemoryIsTracked
  BY DEF IInv
<1> QED
  BY <1>1, IInvAlways, PTL

\* Three swaps an hour suffice, whatever the budget and the calls.
THEOREM SwapsStayRare == Spec => []SwapsAreRare
<1>1. IInv => SwapsAreRare
  BY DEF IInv, SwapInv, SwapsAreRare, TypeOK, CallInv, Model, SevenB
<1> QED
  BY <1>1, IInvAlways, PTL
----------------------------------------------------------------------------
(* infer returns.                                                          *)

\* A call under way, or the start-up, always has a next step.
NeverStuck == pc # "idle" => ENABLED <<RouterStep>>_vars

\* The router's own steps go forward: an unload to its next attempt or to the
\* call, the call to its answer or to the fall-back, and that to the answer.
LEMMA RouterAdvances ==
  ASSUME IInv, RouterStep
  PROVE  /\ pc = "unload" => pc' = "chat" \/ (pc' = "unload" /\ attempt' = attempt + 1)
         /\ pc = "chat" => pc' \in {"fallback", "idle"}
         /\ pc \in {"fallback", "prewarm"} => pc' = "idle"
  BY DEF RouterStep, Unloaded, UnloadFails, UnloadGivesUp, SwapTo, Answered, CallFails,
         FallBack, Prewarmed, PrewarmFails

\* Neither time nor Ollama moves a call; only a restart takes it back, to the
\* start-up.
LEMMA OthersLeaveCall ==
  ASSUME pc # "idle", [Next]_vars, ~RouterStep
  PROVE  pc' = "prewarm" \/ (pc' = pc /\ attempt' = attempt)
  BY DEF Next, vars, Infer, Evict, NewHour, Restart

\* Whatever fails, with any number of restarts, infer comes to its end within
\* the three attempts of _ensure_model_loaded, and so does the start-up.
THEOREM EveryPromptIsAnswered ==
  ASSUME MaxAttempts <= 3
  PROVE  FairSpec /\ []NeverStuck => InferReturns
<1> DEFINE U1 == pc = "unload" /\ attempt = 1
           U2 == pc = "unload" /\ attempt = 2
           U3 == pc = "unload" /\ attempt = 3
           C == pc = "chat"
           F == pc = "fallback"
           W == pc = "prewarm"
           I == pc = "idle"
           E == ENABLED <<RouterStep>>_vars
<1>1. /\ IInv /\ U1 /\ RouterStep => U2' \/ C'
      /\ IInv /\ U2 /\ RouterStep => U3' \/ C'
      /\ IInv /\ C /\ RouterStep => F' \/ I'
      /\ IInv /\ F /\ RouterStep => I'
      /\ IInv /\ W /\ RouterStep => I'
  BY RouterAdvances
<1>2. IInv /\ U3 /\ RouterStep => C'
  BY RouterBoundsOK DEF IInv, TypeOK, RouterStep, Unloaded, UnloadFails, UnloadGivesUp, SwapTo,
     Answered, CallFails, FallBack, Prewarmed, PrewarmFails
<1>3. /\ U1 /\ [Next]_vars /\ ~RouterStep => U1' \/ W'
      /\ U2 /\ [Next]_vars /\ ~RouterStep => U2' \/ W'
      /\ U3 /\ [Next]_vars /\ ~RouterStep => U3' \/ W'
      /\ C /\ [Next]_vars /\ ~RouterStep => C' \/ W'
      /\ F /\ [Next]_vars /\ ~RouterStep => F' \/ W'
      /\ W /\ [Next]_vars /\ ~RouterStep => W'
  BY OthersLeaveCall
<1>4. IInv => U1 \/ U2 \/ U3 \/ C \/ F \/ W \/ I
  BY RouterBoundsOK DEF IInv, TypeOK
<1>5. NeverStuck => E \/ I
  BY DEF NeverStuck
<1>6. (pc # "idle" <=> ~I) /\ ~(U1 /\ I) /\ ~(U2 /\ I) /\ ~(U3 /\ I) /\ ~(C /\ I) /\ ~(F /\ I) /\ ~(W /\ I)
  OBVIOUS
<1> HIDE DEF U1, U2, U3, C, F, W, I
<1>7. Spec /\ WF_vars(RouterStep) /\ []NeverStuck => [](~I => <>I)
  BY <1>1, <1>2, <1>3, <1>4, <1>5, <1>6, IInvAlways, PTL DEF Spec
<1> QED
  BY <1>6, <1>7, PTL DEF FairSpec, InferReturns, I
=============================================================================
