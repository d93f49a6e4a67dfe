------------------------ MODULE DashboardPage_proofs ------------------------
(***************************************************************************)
(* The safety properties of DashboardPage, for any contents and any number *)
(* of changes, errors and refetches; and where page and panel end up.      *)
(***************************************************************************)
EXTENDS DashboardPage, TLAPS

\* An entry under the panel's URL that came by an answer: its tag is its body's.
Genuine(e) == e \in Entry /\ e.etag \in Body /\ e.data = e.etag

\* The panel's entry, and the entry each call began with, are genuine; a call
\* that is under way knows the present contents among those since it began, and
\* its answer is one of them, by its body or by the entry it confirms.
Sound ==
  /\ cache["relative"] # None => Genuine(cache["relative"])
  /\ \A k \in Caller : asked[k] # None => Genuine(asked[k])
  /\ \A k \in InFlight : content \in window[k]
  /\ \A k \in Caller : phase[k] \in {"served", "reading"} =>
       \/ answer[k].status = 500 /\ phase[k] = "served"
       \/ answer[k].status = 200 /\ answer[k].body \in window[k]
       \/ /\ answer[k].status = 304 /\ phase[k] = "served"
          /\ asked[k] # None /\ asked[k].etag \in window[k]

Inv == TypeOK /\ Sound

\* Nothing is asked or cached at the start.
LEMMA InvInit == Init => Inv
<1> SUFFICES ASSUME Init
             PROVE  Inv
  OBVIOUS
<1>1. /\ cache \in [Key -> Entry \cup {None}] /\ cache["relative"] = None
      /\ asked \in [Caller -> Entry \cup {None}] /\ \A k \in Caller : asked[k] = None
      /\ answer \in [Caller -> Response] /\ window \in [Caller -> SUBSET Body]
      /\ phase \in [Caller -> {"idle", "sent", "served", "reading", "done"}]
      /\ \A k \in Caller : phase[k] = "idle"
  BY DEF Init, Key, Response
<1>2. changes \in 0..MaxChanges /\ lost \in 0..MaxErrors /\ refetches \in 0..MaxRefetches
  BY PageBoundsOK DEF Init
<1>3. /\ content \in Body /\ shown \in Body \cup {None} /\ loading \in BOOLEAN /\ failed \in BOOLEAN
      /\ page \in {"asking", "gathering", "answered", "done"} /\ errors \subseteq Part
      /\ summary = None /\ pageLoading \in BOOLEAN
  BY DEF Init
<1> QED
  BY <1>1, <1>2, <1>3 DEF Inv, TypeOK, Sound, InFlight

\* A call that returns leaves the other calls as they are.
LEMMA ReturnKeeps ==
  ASSUME Inv, NEW k \in Caller, Returned(k), shown' \in Body \cup {None},
         loading' \in BOOLEAN, failed' \in BOOLEAN,
         cache' \in [Key -> Entry \cup {None}],
         cache'["relative"] # None => Genuine(cache'["relative"]),
         UNCHANGED <<content, pageVars, bounds>>
  PROVE  Inv'
<1>1. /\ phase' = [phase EXCEPT ![k] = IF k = "mount" THEN "done" ELSE "idle"]
      /\ asked' = [asked EXCEPT ![k] = None]
      /\ answer' = [answer EXCEPT ![k] = Failure]
      /\ window' = [window EXCEPT ![k] = {}]
  BY DEF Returned
<1>2. /\ phase \in [Caller -> {"idle", "sent", "served", "reading", "done"}]
      /\ asked \in [Caller -> Entry \cup {None}]
      /\ answer \in [Caller -> Response]
      /\ window \in [Caller -> SUBSET Body]
  BY DEF Inv, TypeOK
<1>3. TypeOK'
  <2>1. Failure \in Response
    BY DEF Response
  <2>2. /\ phase' \in [Caller -> {"idle", "sent", "served", "reading", "done"}]
        /\ asked' \in [Caller -> Entry \cup {None}]
        /\ answer' \in [Caller -> Response]
        /\ window' \in [Caller -> SUBSET Body]
    BY <1>1, <1>2, <2>1
  <2> QED
    BY <2>2 DEF Inv, TypeOK, pageVars, bounds
<1>4. /\ phase'[k] \in {"idle", "done"} /\ asked'[k] = None
      /\ \A j \in Caller \ {k} : /\ phase'[j] = phase[j] /\ asked'[j] = asked[j]
                                 /\ answer'[j] = answer[j] /\ window'[j] = window[j]
  BY <1>1, <1>2
<1>5. Sound'
  BY <1>4 DEF Inv, Sound, InFlight, Genuine
<1> QED
  BY <1>3, <1>5 DEF Inv

\* What a call shows is one of the contents since it was made.
Answers(k) == shown' \in window[k]

\* A call that arrives shows what its answer stands for.
LEMMA ArriveKeeps ==
  ASSUME Inv, NEW k \in Caller, Arrive(k)
  PROVE  /\ Inv'
         /\ phase'[k] \in {"idle", "done"} => failed' \/ Answers(k)
         /\ \A j \in Caller \ {k} : phase'[j] = phase[j]
<1>1. /\ phase \in [Caller -> {"idle", "sent", "served", "reading", "done"}]
      /\ window[k] \subseteq Body /\ cache \in [Key -> Entry \cup {None}]
      /\ loading \in BOOLEAN /\ shown \in Body \cup {None}
  BY DEF Inv, TypeOK
<1>2. CASE ArriveUnchanged(k)
  <2>1. /\ Shows(k, asked[k].data) /\ phase[k] = "served" /\ answer[k].status = 304
        /\ UNCHANGED <<content, cache, pageVars, bounds>>
    BY <1>2 DEF ArriveUnchanged, NotModified
  <2>2. Genuine(asked[k]) /\ asked[k].etag \in window[k]
    BY <2>1 DEF Inv, Sound
  <2>3. shown' = asked[k].data /\ failed' = FALSE /\ loading' = FALSE /\ Returned(k)
    BY <2>1 DEF Shows
  <2>4. shown' \in window[k]
    BY <2>2, <2>3 DEF Genuine
  <2>5. Inv'
    BY <1>1, <2>1, <2>3, <2>4, ReturnKeeps DEF Inv, Sound
  <2> QED
    BY <1>1, <2>3, <2>4, <2>5 DEF Answers, Returned
<1>3. CASE ArriveFailed(k)
  <2>1. /\ failed' = TRUE /\ loading' = FALSE /\ Returned(k)
        /\ UNCHANGED <<content, cache, shown, pageVars, bounds>>
    BY <1>3 DEF ArriveFailed
  <2>2. Inv'
    BY <1>1, <2>1, ReturnKeeps DEF Inv, Sound
  <2> QED
    BY <1>1, <2>1, <2>2 DEF Returned
<1>4. CASE ArriveChanged(k)
  <2>1. /\ phase[k] = "served" /\ answer[k].status = 200
        /\ phase' = [phase EXCEPT ![k] = "reading"]
        /\ UNCHANGED <<content, cache, asked, answer, window, panelVars, pageVars, bounds>>
    BY <1>4 DEF ArriveChanged
  <2>2. phase'[k] = "reading" /\ \A j \in Caller \ {k} : phase'[j] = phase[j]
    BY <1>1, <2>1
  <2>3. TypeOK'
    BY <1>1, <2>1 DEF Inv, TypeOK, panelVars, pageVars, bounds
  <2>4. Sound'
    BY <2>1, <2>2 DEF Inv, Sound, InFlight, Genuine
  <2> QED
    BY <2>2, <2>3, <2>4 DEF Inv
<1>5. CASE Store(k)
  <2>1. /\ phase[k] = "reading" /\ Shows(k, answer[k].body)
        /\ cache' = [cache EXCEPT !["relative"] = [etag |-> answer[k].body, data |-> answer[k].body]]
        /\ UNCHANGED <<content, pageVars, bounds>>
    BY <1>5 DEF Store
  <2>2. answer[k].body \in window[k] /\ answer[k].body \in Body
    BY <1>1, <2>1 DEF Inv, Sound
  <2>3. shown' = answer[k].body /\ failed' = FALSE /\ loading' = FALSE /\ Returned(k)
    BY <2>1 DEF Shows
  <2>4. Genuine([etag |-> answer[k].body, data |-> answer[k].body])
    BY <2>2 DEF Genuine, Entry
  <2>5. cache' \in [Key -> Entry \cup {None}] /\ Genuine(cache'["relative"])
    BY <1>1, <2>1, <2>4 DEF Genuine, Key
  <2>6. Inv'
    BY <2>1, <2>2, <2>3, <2>5, ReturnKeeps
  <2> QED
    BY <1>1, <2>2, <2>3, <2>6 DEF Answers, Returned
<1> QED
  BY <1>2, <1>3, <1>4, <1>5 DEF Arrive

\* Every step keeps the invariant, and every answer given is fresh.
LEMMA InvStep ==
  Inv /\ [Next]_vars =>
    /\ Inv'
    /\ \A k \in Caller :
         phase[k] \in {"served", "reading"} /\ phase'[k] \in {"idle", "done"}
           => failed' \/ shown' \in window[k]
<1> DEFINE Fresh == \A k \in Caller :
                      phase[k] \in {"served", "reading"} /\ phase'[k] \in {"idle", "done"}
                        => failed' \/ shown' \in window[k]
<1> SUFFICES ASSUME Inv, [Next]_vars
             PROVE  Inv' /\ Fresh
  OBVIOUS
<1>a. /\ phase \in [Caller -> {"idle", "sent", "served", "reading", "done"}]
      /\ asked \in [Caller -> Entry \cup {None}]
      /\ answer \in [Caller -> Response]
      /\ window \in [Caller -> SUBSET Body]
      /\ cache \in [Key -> Entry \cup {None}]
      /\ content \in Body
  BY DEF Inv, TypeOK
<1>1. ASSUME NEW k \in Caller, Ask(k)
      PROVE  Inv' /\ Fresh
  <2>1. /\ phase[k] = "idle" /\ phase' = [phase EXCEPT ![k] = "sent"]
        /\ asked' = [asked EXCEPT ![k] = cache["relative"]]
        /\ window' = [window EXCEPT ![k] = {content}]
        /\ loading' = TRUE /\ failed' = FALSE
        /\ UNCHANGED <<content, cache, answer, shown, pageVars, changes, lost>>
    BY <1>1 DEF Ask
  <2>2. refetches' \in 0..MaxRefetches
    BY <1>1, PageBoundsOK DEF Ask, Inv, TypeOK
  <2>3. /\ phase' \in [Caller -> {"idle", "sent", "served", "reading", "done"}]
        /\ asked' \in [Caller -> Entry \cup {None}]
        /\ window' \in [Caller -> SUBSET Body]
    BY <1>a, <2>1 DEF Key
  <2>4. TypeOK'
    BY <2>1, <2>2, <2>3 DEF Inv, TypeOK, pageVars
  <2>5. /\ phase'[k] = "sent" /\ asked'[k] = cache["relative"] /\ window'[k] = {content}
        /\ \A j \in Caller \ {k} :
             phase'[j] = phase[j] /\ asked'[j] = asked[j] /\ window'[j] = window[j]
    BY <1>a, <2>1
  <2>6. Sound'
    BY <2>1, <2>5 DEF Inv, Sound, InFlight, Genuine
  <2> QED
    BY <2>4, <2>5, <2>6 DEF Inv
<1>2. ASSUME NEW k \in Caller, Serve(k) \/ ServeFails(k)
      PROVE  Inv' /\ Fresh
  <2>1. /\ phase[k] = "sent" /\ phase' = [phase EXCEPT ![k] = "served"]
        /\ UNCHANGED <<content, cache, asked, window, panelVars, pageVars, changes, refetches>>
    BY <1>2 DEF Serve, ServeFails, bounds
  <2>2. PICK r \in Response : answer' = [answer EXCEPT ![k] = r]
                              /\ (r = NotModified => Matches(k))
                              /\ (r \in {NotModified, Failure} \/ r = Ok(content))
    BY <1>2, <1>a DEF Serve, ServeFails, Response, NotModified, Failure, Ok
  <2>3. lost' \in 0..MaxErrors
    BY <1>2, PageBoundsOK DEF Serve, ServeFails, bounds, Inv, TypeOK
  <2>4. /\ phase'[k] = "served" /\ answer'[k] = r
        /\ \A j \in Caller \ {k} : phase'[j] = phase[j] /\ answer'[j] = answer[j]
    BY <1>a, <2>1, <2>2
  <2>5. TypeOK'
    <3>1. /\ phase' \in [Caller -> {"idle", "sent", "served", "reading", "done"}]
          /\ answer' \in [Caller -> Response]
      BY <1>a, <2>1, <2>2
    <3> QED
      BY <2>1, <2>3, <3>1 DEF Inv, TypeOK, panelVars, pageVars
  <2>6. content \in window[k]
    BY <2>1 DEF Inv, Sound, InFlight
  <2>7. \/ r.status = 500
        \/ r.status = 200 /\ r.body \in window[k]
        \/ r.status = 304 /\ asked[k] # None /\ asked[k].etag \in window[k]
    BY <2>2, <2>6 DEF NotModified, Failure, Ok, Matches
  <2>8. Sound'
    BY <2>1, <2>4, <2>7 DEF Inv, Sound, InFlight, Genuine
  <2> QED
    BY <2>4, <2>5, <2>8 DEF Inv
<1>3. ASSUME NEW k \in Caller, Arrive(k)
      PROVE  Inv' /\ Fresh
  BY <1>3, ArriveKeeps DEF Answers
<1>4. CASE Change
  <2>1. PICK b \in Body \ {content} :
          /\ content' = b
          /\ window' = [k \in Caller |-> IF k \in InFlight THEN window[k] \cup {b} ELSE window[k]]
    BY <1>4 DEF Change
  <2>2. UNCHANGED <<cache, phase, asked, answer, panelVars, pageVars, lost, refetches>>
    BY <1>4 DEF Change
  <2>3. changes' \in 0..MaxChanges
    BY <1>4, PageBoundsOK DEF Change, Inv, TypeOK
  <2>4. window' \in [Caller -> SUBSET Body] /\ InFlight' = InFlight
    BY <1>a, <2>1, <2>2 DEF InFlight
  <2>5. /\ \A k \in Caller : window[k] \subseteq window'[k]
        /\ \A k \in InFlight : b \in window'[k]
    BY <1>a, <2>1 DEF InFlight
  <2>6. TypeOK'
    BY <2>1, <2>2, <2>3, <2>4 DEF Inv, TypeOK, panelVars, pageVars
  <2>7. Sound'
    BY <2>1, <2>2, <2>4, <2>5 DEF Inv, Sound, Genuine
  <2> QED
    BY <2>2, <2>6, <2>7 DEF Inv
<1>5. CASE PageStep
  <2>1. UNCHANGED <<content, fetchVars, panelVars, bounds>>
    BY <1>5 DEF PageStep, Gather, Gathered, RequestFails, PageLoads, PageStays
  <2>2. /\ cache' \in [Key -> Entry \cup {None}] /\ cache'["relative"] = cache["relative"]
    BY <1>5, <1>a DEF PageStep, Gather, Gathered, RequestFails, PageLoads, PageStays, Key, Entry
  <2>3. /\ page' \in {"asking", "gathering", "answered", "done"}
        /\ errors' \subseteq Part /\ pageLoading' \in BOOLEAN
    BY <1>5 DEF PageStep, Gather, Gathered, RequestFails, PageLoads, PageStays, Inv, TypeOK, First, Part
  <2>4. summary' \in [data : SUBSET Part, errors : SUBSET Part] \cup {None}
    BY <1>5, <2>3 DEF PageStep, Gather, Gathered, RequestFails, PageLoads, PageStays, Summary, Inv, TypeOK
  <2>5. TypeOK'
    BY <2>1, <2>2, <2>3, <2>4 DEF Inv, TypeOK, fetchVars, panelVars, bounds
  <2>6. Sound'
    BY <2>1, <2>2 DEF Inv, Sound, InFlight, Genuine, fetchVars
  <2> QED
    BY <2>1, <2>5, <2>6 DEF Inv, fetchVars
<1>6. CASE UNCHANGED vars
  <2>1. UNCHANGED <<content, cache, fetchVars, panelVars, pageVars, bounds>>
    BY <1>6 DEF vars
  <2> QED
    BY <2>1 DEF Inv, TypeOK, Sound, InFlight, Genuine, fetchVars, panelVars, pageVars, bounds
<1> QED
  BY <1>1, <1>2, <1>3, <1>4, <1>5, <1>6 DEF Next

LEMMA InvHolds == Spec => []Inv
  BY InvInit, InvStep, PTL DEF Spec

\* The variables keep their types, and no bound is exceeded.
THEOREM PageTypeCorrect == Spec => []TypeOK
<1>1. Inv => TypeOK
  BY DEF Inv
<1> QED
  BY <1>1, InvHolds, PTL

\* What a call returns was there at some time while it was under way.
THEOREM NoAnswerIsStale == Spec => AnswersAreFresh
  BY InvStep, InvHolds, PTL DEF Spec, AnswersAreFresh

\* The panel spins only while a call is under way.
THEOREM NoSpinnerIsLeft == Spec => []SpinnerMeansCall
<1>1. Init => SpinnerMeansCall
  BY DEF Init, SpinnerMeansCall
<1>2. SpinnerMeansCall /\ Inv /\ [Next]_vars => SpinnerMeansCall'
  <2> SUFFICES ASSUME SpinnerMeansCall, Inv, [Next]_vars
               PROVE  SpinnerMeansCall'
    OBVIOUS
  <2>a. phase \in [Caller -> {"idle", "sent", "served", "reading", "done"}]
    BY DEF Inv, TypeOK
  <2>1. ASSUME NEW k \in Caller, Ask(k) \/ Serve(k) \/ ServeFails(k) \/ ArriveChanged(k)
        PROVE  SpinnerMeansCall'
    <3>1. phase'[k] \in {"sent", "served", "reading"}
      BY <2>a, <2>1 DEF Ask, Serve, ServeFails, ArriveChanged
    <3> QED
      BY <3>1 DEF SpinnerMeansCall, InFlight
  <2>2. ASSUME NEW k \in Caller, ArriveUnchanged(k) \/ ArriveFailed(k) \/ Store(k)
        PROVE  SpinnerMeansCall'
    BY <2>2 DEF ArriveUnchanged, ArriveFailed, Store, Shows, SpinnerMeansCall
  <2>3. CASE Change \/ PageStep \/ UNCHANGED vars
    <3>1. UNCHANGED <<loading, phase>>
      BY <2>3 DEF Change, PageStep, Gather, Gathered, RequestFails, PageLoads, PageStays,
                  vars, fetchVars, panelVars
    <3> QED
      BY <3>1 DEF SpinnerMeansCall, InFlight
  <2> QED
    BY <2>1, <2>2, <2>3 DEF Next, Arrive
<1> QED
  BY <1>1, <1>2, InvHolds, PTL DEF Spec
----------------------------------------------------------------------------
(* Where the page ends up.                                                 *)

\* The page loads until its summary is handled, and goes on with a null.
PageInv ==
  /\ page # "done" => pageLoading
  /\ page = "done" => (pageLoading <=> summary = None)

LEMMA PageStepKeeps == PageInv /\ [Next]_vars => PageInv'
<1> SUFFICES ASSUME PageInv, [Next]_vars PROVE PageInv'
  OBVIOUS
<1>1. CASE PageStep
  BY <1>1 DEF PageInv, PageStep, Gather, Gathered, RequestFails, PageLoads, PageStays
<1>2. ASSUME NEW k \in Caller, Ask(k) \/ Serve(k) \/ ServeFails(k) \/ Arrive(k)
      PROVE  UNCHANGED pageVars
  BY <1>2 DEF Ask, Serve, ServeFails, Arrive, ArriveUnchanged, ArriveFailed, ArriveChanged, Store
<1>3. CASE Change \/ UNCHANGED vars
  BY <1>3 DEF Change, vars, PageInv, pageVars
<1> QED
  BY <1>1, <1>2, <1>3 DEF Next, PageInv, pageVars

LEMMA PageInvHolds == Spec => []PageInv
<1>1. Init => PageInv
  BY DEF Init, PageInv
<1> QED
  BY <1>1, PageStepKeeps, PTL DEF Spec

\* The request of the page goes forward, and nothing else moves it.
LEMMA PageAdvances ==
  ASSUME [Next]_vars
  PROVE  /\ page = "asking" /\ PageStep => page' \in {"gathering", "answered"}
         /\ page = "gathering" /\ PageStep => page' = "answered"
         /\ page = "answered" /\ PageStep => page' = "done"
         /\ ~PageStep => page' = page
         /\ page = "done" => page' = "done"
<1>1. ASSUME NEW k \in Caller, Ask(k) \/ Serve(k) \/ ServeFails(k) \/ Arrive(k)
      PROVE  page' = page
  BY <1>1 DEF Ask, Serve, ServeFails, Arrive, ArriveUnchanged, ArriveFailed, ArriveChanged, Store, pageVars
<1>2. ASSUME Change \/ UNCHANGED vars
      PROVE  page' = page
  BY <1>2 DEF Change, vars, pageVars
<1> QED
  BY <1>1, <1>2 DEF Next, PageStep, Gather, Gathered, RequestFails, PageLoads, PageStays

\* The hypothesis, in ENABLED, which is beyond the prover: the request of the
\* page has a next step until its summary is handled, for each value of page has
\* an action whose other conditions, if any, are each other's negation.
PageCanGoOn == page # "done" => ENABLED <<PageStep>>_vars

\* A summary with data ends the loading, and so nothing but a null leaves the
\* page loading, as PageComesUp says it should not (fetchDashboardData).
PageLoadsUnlessNull == <>[](pageLoading <=> page = "done" /\ summary = None)

\* However the panel's calls, the resource and the failures mix with it, the
\* page stops loading for good unless its summary is null.
THEOREM PageLoadsOrIsNull == FairSpec /\ []PageCanGoOn => PageLoadsUnlessNull
<1> DEFINE A == page = "asking"
           G == page = "gathering"
           N == page = "answered"
           D == page = "done"
           E == ENABLED <<PageStep>>_vars
           Rest == pageLoading <=> page = "done" /\ summary = None
<1>1. /\ A /\ [Next]_vars /\ PageStep => G' \/ N'
      /\ G /\ [Next]_vars /\ PageStep => N'
      /\ N /\ [Next]_vars /\ PageStep => D'
  BY PageAdvances
<1>2. /\ A /\ [Next]_vars /\ ~PageStep => A'
      /\ G /\ [Next]_vars /\ ~PageStep => G'
      /\ N /\ [Next]_vars /\ ~PageStep => N'
      /\ D /\ [Next]_vars => D'
  BY PageAdvances
<1>3. TypeOK => A \/ G \/ N \/ D
  BY DEF TypeOK
<1>4. PageCanGoOn => E \/ D
  BY DEF PageCanGoOn
<1>5. PageInv /\ D => Rest
  BY DEF PageInv
<1>6. ~(A /\ D) /\ ~(G /\ D) /\ ~(N /\ D)
  OBVIOUS
<1> HIDE DEF A, G, N, D
<1>7. Spec /\ WF_vars(PageStep) /\ []PageCanGoOn => <>[]Rest
  BY <1>1, <1>2, <1>3, <1>4, <1>5, <1>6, PageTypeCorrect, PageInvHolds, PTL DEF Spec
<1>8. Fairness => PageGoesOn
  BY DEF Fairness
<1> QED
  BY <1>7, <1>8, PTL DEF FairSpec, PageGoesOn, PageLoadsUnlessNull
----------------------------------------------------------------------------
(* Where the panel ends up.                                                *)

\* The hypotheses, in ENABLED: a request that was sent can be served, an answer
\* can be taken whatever it is, and a timer whose call is not under way can fire.
\* A state where one of them failed for good would leave a call or the poll
\* where it is, and Converges, which TLC checks, would be false there.
CallCanGoOn(k) ==
  /\ phase[k] = "sent" => ENABLED <<Serve(k)>>_vars
  /\ phase[k] \in {"served", "reading"} => ENABLED <<Arrive(k)>>_vars

TimersCanFire ==
  /\ phase["mount"] = "idle" => ENABLED <<Ask("mount")>>_vars
  /\ phase["mount"] # "idle" /\ phase["poll"] = "idle" => ENABLED <<Ask("poll")>>_vars

PanelCanGoOn == TimersCanFire /\ \A k \in Caller : CallCanGoOn(k)

\* The resource does not change and no request fails.
Calm == changes' = changes /\ lost' = lost

\* A call that began after the last change, and has not failed: its answer can
\* only be the present content.
Settled(k) ==
  phase[k] \in {"sent", "served", "reading"} =>
    /\ window[k] = {content}
    /\ phase[k] = "served" => answer[k].status # 500

\* In calm only the calls go on.
LEMMA CalmSteps ==
  ASSUME Inv, [Next]_vars, Calm
  PROVE  /\ content' = content
         /\ \/ \E k \in Caller : Ask(k) \/ Serve(k) \/ Arrive(k)
            \/ UNCHANGED <<phase, asked, answer, window, shown>>
<1>1. lost \in Int /\ changes \in Int
  BY PageBoundsOK DEF Inv, TypeOK
<1>2. ~Change /\ \A k \in Caller : ~ServeFails(k)
  BY <1>1 DEF Calm, Change, ServeFails
<1>3. ASSUME NEW k \in Caller, Ask(k) \/ Serve(k) \/ Arrive(k)
      PROVE  content' = content
  BY <1>3 DEF Ask, Serve, Arrive, ArriveUnchanged, ArriveFailed, ArriveChanged, Store
<1>4. ASSUME PageStep \/ UNCHANGED vars
      PROVE  UNCHANGED <<content, phase, asked, answer, window, shown>>
  BY <1>4 DEF PageStep, Gather, Gathered, RequestFails, PageLoads, PageStays,
              vars, fetchVars, panelVars
<1> QED
  BY <1>2, <1>3, <1>4 DEF Next

\* What the step of a call makes of it and of the others.
LEMMA CallMoves ==
  ASSUME Inv, NEW k \in Caller
  PROVE  /\ Ask(k) => phase[k] = "idle" /\ phase'[k] = "sent" /\ window'[k] = {content}
         /\ Serve(k) => /\ phase[k] = "sent" /\ phase'[k] = "served"
                        /\ window'[k] = window[k] /\ answer'[k].status # 500
         /\ Arrive(k) => \/ /\ phase[k] = "served" /\ phase'[k] = "reading"
                            /\ window'[k] = window[k]
                         \/ /\ phase[k] \in {"served", "reading"}
                            /\ phase'[k] = IF k = "mount" THEN "done" ELSE "idle"
         /\ Ask(k) \/ Serve(k) \/ Arrive(k) =>
              \A j \in Caller \ {k} : /\ phase'[j] = phase[j] /\ window'[j] = window[j]
                                      /\ answer'[j] = answer[j]
<1>1. /\ phase \in [Caller -> {"idle", "sent", "served", "reading", "done"}]
      /\ answer \in [Caller -> Response]
      /\ window \in [Caller -> SUBSET Body]
  BY DEF Inv, TypeOK
<1>2. CASE Ask(k)
  BY <1>1, <1>2 DEF Ask, Serve, Arrive, ArriveUnchanged, ArriveFailed, ArriveChanged, Store
<1>3. CASE Serve(k)
  BY <1>1, <1>3 DEF Ask, Serve, Arrive, ArriveUnchanged, ArriveFailed, ArriveChanged, Store, NotModified, Ok
<1>4. CASE Arrive(k)
  BY <1>1, <1>4 DEF Ask, Serve, Arrive, ArriveUnchanged, ArriveFailed, ArriveChanged, Store, Shows, Returned
<1> QED
  BY <1>2, <1>3, <1>4

\* Once settled a call stays so in calm, and so does the next one.
LEMMA SettledStays ==
  ASSUME Inv, NEW k \in Caller, [Next]_vars, Calm, Settled(k)
  PROVE  Settled(k)'
<1>1. ASSUME NEW j \in Caller, Ask(j) \/ Serve(j) \/ Arrive(j)
      PROVE  Settled(k)'
  BY <1>1, CalmSteps, CallMoves DEF Settled
<1> QED
  BY <1>1, CalmSteps DEF Settled

\* In calm a call moves only forward.
LEMMA CallStages ==
  ASSUME Inv, NEW k \in Caller, [Next]_vars, Calm
  PROVE  /\ phase[k] = "sent" /\ Serve(k) => phase'[k] = "served"
         /\ phase[k] = "served" /\ Arrive(k) => phase'[k] \in {"reading", "idle", "done"}
         /\ phase[k] = "reading" /\ Arrive(k) => phase'[k] \in {"idle", "done"}
         /\ phase[k] = "sent" /\ ~Serve(k) => phase'[k] = phase[k]
         /\ phase[k] \in {"served", "reading"} /\ ~Arrive(k) => phase'[k] = phase[k]
         /\ phase[k] = "idle" /\ ~Ask(k) => phase'[k] = phase[k]
<1>1. ASSUME NEW j \in Caller, j # k, Ask(j) \/ Serve(j) \/ Arrive(j)
      PROVE  phase'[k] = phase[k]
  BY <1>1, CallMoves
<1>2. ASSUME ~(Ask(k) \/ Serve(k) \/ Arrive(k))
      PROVE  phase'[k] = phase[k]
  BY <1>1, <1>2, CalmSteps
<1> QED
  BY <1>2, CallMoves

\* Whenever the calm begins, what was under way then comes to its end.
Settles(k) ==
  []Inv /\ [][Next]_vars /\ CallGoesOn(k) /\ []PanelCanGoOn /\ <>[][Calm]_vars
    => <>[]Settled(k)

LEMMA CallSettles ==
  ASSUME NEW k \in Caller
  PROVE  Settles(k)
<1> DEFINE S == phase[k] = "sent"
           V == phase[k] = "served"
           R == phase[k] = "reading"
           O == phase[k] \in {"idle", "done"}
           ES == ENABLED <<Serve(k)>>_vars
           EA == ENABLED <<Arrive(k)>>_vars
<1>1. [Calm]_vars => Calm
  BY DEF Calm, vars, bounds
<1>2. /\ Inv /\ S /\ [Next]_vars /\ Calm /\ Serve(k) => V'
      /\ Inv /\ V /\ [Next]_vars /\ Calm /\ Arrive(k) => R' \/ O'
      /\ Inv /\ R /\ [Next]_vars /\ Calm /\ Arrive(k) => O'
  BY CallStages
<1>3. /\ Inv /\ S /\ [Next]_vars /\ Calm /\ ~Serve(k) => S'
      /\ Inv /\ V /\ [Next]_vars /\ Calm /\ ~Arrive(k) => V'
      /\ Inv /\ R /\ [Next]_vars /\ Calm /\ ~Arrive(k) => R'
  BY CallStages
<1>4. Inv => S \/ V \/ R \/ O
  BY DEF Inv, TypeOK
<1>5. PanelCanGoOn => (S => ES) /\ (V => EA) /\ (R => EA)
  BY DEF PanelCanGoOn, CallCanGoOn
<1>6. O => Settled(k)
  BY DEF Settled
<1>7. Inv /\ [Next]_vars /\ Calm /\ Settled(k) => Settled(k)'
  BY SettledStays
<1> HIDE DEF S, V, R, O, Settled
<1>8. /\ []Inv /\ [][Next]_vars /\ WF_vars(Serve(k)) /\ WF_vars(Arrive(k))
      /\ []PanelCanGoOn /\ <>[][Calm]_vars
      => <>[]Settled(k)
  BY <1>1, <1>2, <1>3, <1>4, <1>5, <1>6, <1>7, PTL
<1> QED
  BY <1>8, PTL DEF CallGoesOn, Settles

AllSettled == \A k \in Caller : Settled(k)

\* What settled calls bring is the present content, and it is shown.
LEMMA SettledShows ==
  ASSUME Inv, [Next]_vars, Calm, AllSettled
  PROVE  /\ shown = content => shown' = content'
         /\ \A k \in Caller : Arrive(k) => phase'[k] = "reading" \/ shown' = content'
<1>1. ASSUME NEW k \in Caller, Arrive(k)
      PROVE  \/ phase'[k] = "reading" /\ shown' = shown
             \/ shown' = content
  <2>1. phase[k] \in {"served", "reading"} /\ Settled(k)
    BY <1>1, CallMoves DEF AllSettled
  <2>2. window[k] = {content}
    BY <2>1 DEF Settled
  <2>3. CASE ArriveChanged(k)
    BY <2>3, <1>1, CallMoves DEF ArriveChanged, panelVars, Inv, TypeOK
  <2>4. CASE ArriveUnchanged(k) \/ Store(k)
    <3>1. failed' = FALSE /\ phase'[k] \in {"idle", "done"}
      BY <2>4 DEF ArriveUnchanged, Store, Shows, Returned, Inv, TypeOK
    <3> QED
      BY <2>1, <2>2, <3>1, InvStep
  <2>5. CASE ArriveFailed(k)
    BY <2>1, <2>5 DEF ArriveFailed, Settled, Failure
  <2> QED
    BY <1>1, <2>3, <2>4, <2>5 DEF Arrive
<1>2. ASSUME NEW k \in Caller, Ask(k) \/ Serve(k)
      PROVE  shown' = shown
  BY <1>2 DEF Ask, Serve, panelVars
<1> QED
  BY <1>1, <1>2, CalmSteps

\* The poll is never over: it has its timer, or an answer before it.
PollGoesOn == phase["poll"] # "done"

LEMMA PollGoesOnStep == Inv /\ PollGoesOn /\ [Next]_vars => PollGoesOn'
<1> SUFFICES ASSUME Inv, PollGoesOn, [Next]_vars PROVE PollGoesOn'
  OBVIOUS
<1>1. ASSUME NEW k \in Caller, Ask(k) \/ Serve(k) \/ Arrive(k)
      PROVE  PollGoesOn'
  BY <1>1, CallMoves DEF PollGoesOn, Caller
<1>2. ASSUME NEW k \in Caller, ServeFails(k)
      PROVE  PollGoesOn'
  BY <1>2 DEF ServeFails, PollGoesOn, Inv, TypeOK
<1>3. ASSUME Change \/ PageStep \/ UNCHANGED vars
      PROVE  phase' = phase
  BY <1>3 DEF Change, PageStep, Gather, Gathered, RequestFails, PageLoads, PageStays, vars, fetchVars
<1> QED
  BY <1>1, <1>2, <1>3 DEF Next, PollGoesOn

LEMMA PollGoesOnHolds == Spec => []PollGoesOn
<1>1. Init => PollGoesOn
  BY DEF Init, PollGoesOn, Caller
<1> QED
  BY <1>1, PollGoesOnStep, InvHolds, PTL DEF Spec

\* The mount's call is made once, and the poll's rounds follow one another.
LEMMA MountIsAsked ==
  ASSUME Inv, [Next]_vars, Calm
  PROVE  /\ Ask("mount") => phase'["mount"] # "idle"
         /\ phase["mount"] # "idle" => phase'["mount"] # "idle"
<1>1. "mount" \in Caller /\ phase["mount"] \in {"idle", "sent", "served", "reading", "done"}
  BY DEF Caller, Inv, TypeOK
<1>2. ASSUME NEW k \in Caller, Ask(k) \/ Serve(k) \/ Arrive(k)
      PROVE  /\ k = "mount" => phase'["mount"] # "idle"
             /\ k # "mount" => phase'["mount"] = phase["mount"]
  BY <1>1, <1>2, CallMoves
<1> QED
  BY <1>1, <1>2, CalmSteps

\* With the last change and the last failure behind it a panel that polls comes
\* to show the content, and keeps to it: whatever was under way, answered and
\* stored in whichever order before, for any contents and any number of calls.
THEOREM PollingConverges ==
  FairSpec /\ []PanelCanGoOn /\ <>[][Calm]_vars => Converges
<1> DEFINE M == phase["mount"] = "idle"
           P == phase["poll"] = "idle"
           S == phase["poll"] = "sent"
           V == phase["poll"] = "served"
           R == phase["poll"] = "reading"
           C == shown = content
           EM == ENABLED <<Ask("mount")>>_vars
           EP == ENABLED <<Ask("poll")>>_vars
           ES == ENABLED <<Serve("poll")>>_vars
           EA == ENABLED <<Arrive("poll")>>_vars
<1>a. "mount" \in Caller /\ "poll" \in Caller /\ "refetch" \in Caller
  BY DEF Caller
<1>1. [Calm]_vars => Calm
  BY DEF Calm, vars, bounds
<1>2. /\ Inv /\ [Next]_vars /\ Calm /\ Ask("mount") => ~M'
      /\ Inv /\ [Next]_vars /\ Calm /\ ~M => ~M'
  BY MountIsAsked
<1>3. /\ Inv /\ P /\ [Next]_vars /\ Calm /\ Ask("poll") => S'
      /\ Inv /\ P /\ [Next]_vars /\ Calm /\ ~Ask("poll") => P'
  BY <1>a, CallStages, CallMoves
<1>4. /\ Inv /\ S /\ [Next]_vars /\ Calm /\ Serve("poll") => V'
      /\ Inv /\ S /\ [Next]_vars /\ Calm /\ ~Serve("poll") => S'
      /\ Inv /\ V /\ [Next]_vars /\ Calm /\ ~Arrive("poll") => V'
      /\ Inv /\ R /\ [Next]_vars /\ Calm /\ ~Arrive("poll") => R'
  BY <1>a, CallStages
<1>5. /\ Inv /\ V /\ AllSettled /\ [Next]_vars /\ Calm /\ Arrive("poll") => R' \/ C'
      /\ Inv /\ AllSettled /\ [Next]_vars /\ Calm /\ C => C'
  BY <1>a, SettledShows
<1>6. Inv /\ R /\ AllSettled /\ [Next]_vars /\ Calm /\ Arrive("poll") => C'
  BY <1>a, SettledShows, CallStages
<1>7. Inv /\ PollGoesOn => P \/ S \/ V \/ R
  BY <1>a DEF Inv, TypeOK, PollGoesOn
<1>8. PanelCanGoOn => (M => EM) /\ (~M /\ P => EP) /\ (S => ES) /\ (V \/ R => EA)
  <2>1. PanelCanGoOn => TimersCanFire /\ CallCanGoOn("poll")
    BY <1>a DEF PanelCanGoOn
  <2>2. TimersCanFire => (M => EM) /\ (~M /\ P => EP)
    BY DEF TimersCanFire
  <2>3. CallCanGoOn("poll") => (S => ES) /\ (V \/ R => EA)
    BY DEF CallCanGoOn
  <2> QED
    BY <2>1, <2>2, <2>3
<1>9. Settled("mount") /\ Settled("poll") /\ Settled("refetch") => AllSettled
  BY DEF AllSettled, Caller
<1>10. Fairness => TimersFire /\ CallGoesOn("mount") /\ CallGoesOn("poll") /\ CallGoesOn("refetch")
  BY <1>a DEF Fairness
<1>11. []Inv /\ [][Next]_vars /\ Fairness /\ []PanelCanGoOn /\ <>[][Calm]_vars => <>[]AllSettled
  <2>1. Settles("mount") /\ Settles("poll") /\ Settles("refetch")
    BY <1>a, CallSettles
  <2> QED
    BY <1>9, <1>10, <2>1, PTL DEF Settles
<1> HIDE DEF M, P, S, V, R, C
<1>12. /\ []Inv /\ []PollGoesOn /\ [][Next]_vars /\ <>[]AllSettled
       /\ WF_vars(Ask("mount")) /\ WF_vars(Ask("poll"))
       /\ WF_vars(Serve("poll")) /\ WF_vars(Arrive("poll"))
       /\ []PanelCanGoOn /\ <>[][Calm]_vars
       => <>[]C
  BY <1>1, <1>2, <1>3, <1>4, <1>5, <1>6, <1>7, <1>8, PTL
<1> QED
  BY <1>10, <1>11, <1>12, InvHolds, PollGoesOnHolds, PTL
     DEF FairSpec, Spec, TimersFire, CallGoesOn, Converges, C
=============================================================================
