--------------------------- MODULE DashboardPage ---------------------------
(* The dashboard while it loads and after: a panel that reads one resource *)
(* through the browser's cache and the server's ETags, and the page, which *)
(* asks for everything in one summary.                                     *)
(*                                                                         *)
(* A body stands for its hash too.  A step is what runs between two awaits *)
(* of the browser, or one statement of the server.                         *)
EXTENDS Integers, FiniteSets

CONSTANTS Body,         \* what the resource may contain
          None,         \* no entry, no data, a null answer
          MaxChanges, MaxErrors, MaxRefetches

ASSUME PageBoundsOK ==
  None \notin Body /\ {MaxChanges, MaxErrors, MaxRefetches} \subseteq Nat

\* The calls of fetchData a panel may have under way at the same time.
Caller == {"mount", "poll", "refetch"}

\* The panel asks for a relative URL; the page prefills absolute ones.
Key == {"relative", "absolute"}
Dummy == "dummy-etag-from-aggregated"
Entry == [etag : Body \cup {Dummy}, data : Body \cup {None}]

\* What the coroutines of the summary fetch, in the order they start.
Part == {"savings", "recent_anomalies", "recent_actions",
         "pending_approvals_count", "system_status"}
First == "savings"

VARIABLES
  content,   \* external: what the resource contains
  cache,     \* CacheManager.cache
  phase,     \* where each call is
  asked,     \* cachedEntry, read before the request
  answer,    \* the response on its way
  shown, loading, failed,             \* the hook's data, loading and error
  page,      \* where useDashboardData and its request are
  errors,    \* the parts of the summary that failed
  summary,   \* what the endpoint has answered
  pageLoading,
  window,    \* history: contents since each call was made
  changes, lost, refetches

panelVars == <<shown, loading, failed>>
fetchVars == <<phase, asked, answer, window>>
pageVars == <<page, errors, summary, pageLoading>>
bounds == <<changes, lost, refetches>>
vars == <<content, cache, fetchVars, panelVars, pageVars, bounds>>

NotModified == [status |-> 304, body |-> None]
Ok(body) == [status |-> 200, body |-> body]
Failure == [status |-> 500, body |-> None]
Response == {NotModified, Failure} \cup {Ok(b) : b \in Body}

InFlight == {k \in Caller : phase[k] \in {"sent", "served", "reading"}}

Init ==
  /\ content \in Body
  /\ cache = [key \in Key |-> None]
  /\ phase = [k \in Caller |-> "idle"]
  /\ asked = [k \in Caller |-> None]
  /\ answer = [k \in Caller |-> Failure]
  /\ window = [k \in Caller |-> {}]
  /\ shown = None
  /\ loading = FALSE
  /\ failed = FALSE
  /\ page = "asking"
  /\ errors = {}
  /\ summary = None
  /\ pageLoading = TRUE
  /\ changes = 0
  /\ lost = 0
  /\ refetches = 0

----------------------------------------------------------------------------
(* The panel's calls: useCachedFetch over CacheManager.fetch.              *)

\* The entry is read before the request and kept across it.
Ask(k) ==
  /\ phase[k] = "idle"
  /\ k # "mount" => phase["mount"] # "idle"
  /\ k = "refetch" => refetches < MaxRefetches
  /\ refetches' = IF k = "refetch" THEN refetches + 1 ELSE refetches
  /\ phase' = [phase EXCEPT ![k] = "sent"]
  /\ asked' = [asked EXCEPT ![k] = cache["relative"]]
  /\ window' = [window EXCEPT ![k] = {content}]
  /\ loading' = TRUE
  /\ failed' = FALSE
  /\ UNCHANGED <<content, cache, answer, shown, pageVars, changes, lost>>

\* If-None-Match, which is sent when there is an entry.
Matches_AnyEntry(k) == asked[k] # None

Matches(k) == asked[k] # None /\ asked[k].etag = content

\* The endpoint reads the resource; the middleware hashes the body and
\* compares.
Serve(k) ==
  /\ phase[k] = "sent"
  /\ phase' = [phase EXCEPT ![k] = "served"]
  /\ answer' = [answer EXCEPT ![k] = IF Matches(k) THEN NotModified ELSE Ok(content)]
  /\ UNCHANGED <<content, cache, asked, window, panelVars, pageVars, bounds>>

\* The endpoint fails, or the network does.
ServeFails(k) ==
  /\ phase[k] = "sent"
  /\ lost < MaxErrors
  /\ lost' = lost + 1
  /\ phase' = [phase EXCEPT ![k] = "served"]
  /\ answer' = [answer EXCEPT ![k] = Failure]
  /\ UNCHANGED <<content, cache, asked, window, panelVars, pageVars, changes, refetches>>

\* The mount fetches once; the poll and the refetch may come again.  What the
\* call has used is forgotten.
Returned(k) ==
  /\ phase' = [phase EXCEPT ![k] = IF k = "mount" THEN "done" ELSE "idle"]
  /\ asked' = [asked EXCEPT ![k] = None]
  /\ answer' = [answer EXCEPT ![k] = Failure]
  /\ window' = [window EXCEPT ![k] = {}]

Shows(k, body) ==
  /\ shown' = body
  /\ failed' = FALSE
  /\ loading' = FALSE
  /\ Returned(k)

\* 304: what was read before the request is the answer.
ArriveUnchanged_Rereads(k) ==
  /\ phase[k] = "served"
  /\ answer[k] = NotModified
  /\ Shows(k, cache["relative"].data)
  /\ UNCHANGED <<content, cache, pageVars, bounds>>

ArriveUnchanged(k) ==
  /\ phase[k] = "served"
  /\ answer[k] = NotModified
  /\ Shows(k, asked[k].data)
  /\ UNCHANGED <<content, cache, pageVars, bounds>>

ArriveFailed_Spins(k) ==
  /\ phase[k] = "served"
  /\ answer[k] = Failure
  /\ failed' = TRUE
  /\ Returned(k)
  /\ UNCHANGED <<content, cache, shown, loading, pageVars, bounds>>

ArriveFailed(k) ==
  /\ phase[k] = "served"
  /\ answer[k] = Failure
  /\ failed' = TRUE
  /\ loading' = FALSE
  /\ Returned(k)
  /\ UNCHANGED <<content, cache, shown, pageVars, bounds>>

\* 200: the body is still to be read.
ArriveChanged(k) ==
  /\ phase[k] = "served"
  /\ answer[k].status = 200
  /\ phase' = [phase EXCEPT ![k] = "reading"]
  /\ UNCHANGED <<content, cache, asked, answer, window, panelVars, pageVars, bounds>>

\* The body is stored under its ETag, whatever has been stored since.
Store_Untagged(k) ==
  /\ phase[k] = "reading"
  /\ cache' = [cache EXCEPT !["relative"] = [etag |-> None, data |-> answer[k].body]]
  /\ Shows(k, answer[k].body)
  /\ UNCHANGED <<content, pageVars, bounds>>

Store(k) ==
  /\ phase[k] = "reading"
  /\ cache' = [cache EXCEPT !["relative"] = [etag |-> answer[k].body, data |-> answer[k].body]]
  /\ Shows(k, answer[k].body)
  /\ UNCHANGED <<content, pageVars, bounds>>

Arrive(k) == ArriveUnchanged(k) \/ ArriveFailed(k) \/ ArriveChanged(k) \/ Store(k)

\* The agents and the other people who use the system.
Change ==
  /\ changes < MaxChanges
  /\ changes' = changes + 1
  /\ \E b \in Body \ {content} :
       /\ content' = b
       /\ window' = [k \in Caller |-> IF k \in InFlight THEN window[k] \cup {b} ELSE window[k]]
  /\ UNCHANGED <<cache, phase, asked, answer, panelVars, pageVars, lost, refetches>>

----------------------------------------------------------------------------
(* The page: useDashboardData over GET /api/dashboard/summary.             *)

\* gather starts the parts on one connection.  The first has a statement under
\* way when the others come to theirs, which the driver refuses.
Gather ==
  /\ page = "asking"
  /\ page' = "gathering"
  /\ errors' = Part \ {First}
  /\ UNCHANGED <<content, cache, fetchVars, panelVars, summary, pageLoading, bounds>>

\* Only a summary without any part has no data.
Summary(failing) ==
  IF failing = Part THEN None
  ELSE [data |-> Part \ failing, errors |-> failing]

Gathered ==
  /\ page = "gathering"
  /\ page' = "answered"
  /\ errors' \in {errors, errors \cup {First}}
  /\ summary' = Summary(errors')
  /\ UNCHANGED <<content, cache, fetchVars, panelVars, pageLoading, bounds>>

\* 404, 5xx, any other status, no network: all are caught, and null.
RequestFails ==
  /\ page = "asking"
  /\ page' = "answered"
  /\ UNCHANGED <<content, cache, fetchVars, panelVars, errors, summary, pageLoading, bounds>>

\* The panel's part of the summary, an empty list since it was refused, is
\* cached under a made-up ETag and another URL than the panel's.
PageLoads ==
  /\ page = "answered"
  /\ summary # None
  /\ page' = "done"
  /\ pageLoading' = FALSE
  /\ cache' = [cache EXCEPT !["absolute"] = [etag |-> Dummy, data |-> None]]
  /\ UNCHANGED <<content, fetchVars, panelVars, errors, summary, bounds>>

\* null raises nothing, so that nothing falls back.
PageStays ==
  /\ page = "answered"
  /\ summary = None
  /\ page' = "done"
  /\ UNCHANGED <<content, cache, fetchVars, panelVars, errors, summary, pageLoading, bounds>>

PageStep == Gather \/ Gathered \/ RequestFails \/ PageLoads \/ PageStays

----------------------------------------------------------------------------
Next ==
  \/ \E k \in Caller : Ask(k) \/ Serve(k) \/ ServeFails(k) \/ Arrive(k)
  \/ Change
  \/ PageStep

Spec == Init /\ [][Next]_vars

\* The timer fires, and requests end one way or another.
TimersFire == WF_vars(Ask("mount")) /\ WF_vars(Ask("poll"))
CallGoesOn(k) == WF_vars(Serve(k)) /\ WF_vars(Arrive(k))
PageGoesOn == WF_vars(PageStep)

Fairness == TimersFire /\ PageGoesOn /\ \A k \in Caller : CallGoesOn(k)

FairSpec == Spec /\ Fairness

----------------------------------------------------------------------------
(* Properties.                                                             *)

TypeOK ==
  /\ content \in Body
  /\ cache \in [Key -> Entry \cup {None}]
  /\ phase \in [Caller -> {"idle", "sent", "served", "reading", "done"}]
  /\ asked \in [Caller -> Entry \cup {None}]
  /\ answer \in [Caller -> Response]
  /\ window \in [Caller -> SUBSET Body]
  /\ shown \in Body \cup {None}
  /\ loading \in BOOLEAN /\ failed \in BOOLEAN
  /\ page \in {"asking", "gathering", "answered", "done"}
  /\ errors \subseteq Part
  /\ summary \in [data : SUBSET Part, errors : SUBSET Part] \cup {None}
  /\ pageLoading \in BOOLEAN
  /\ changes \in 0..MaxChanges /\ lost \in 0..MaxErrors /\ refetches \in 0..MaxRefetches

\* What a call returns is what the resource contained at some time while the
\* call was under way, although calls overtake each other, store what they
\* bring in any order and answer a 304 from the entry they began with
\* (CacheManager.fetch).
AnswersAreFresh ==
  [][\A k \in Caller :
       phase[k] \in {"served", "reading"} /\ phase'[k] \in {"idle", "done"}
         => failed' \/ shown' \in window[k]]_vars

\* The panel says it is loading only while a call is under way, with calls
\* that overlap and calls that fail (fetchData in useCachedFetch).
SpinnerMeansCall == loading => InFlight # {}

\* Once the resource has stopped changing a panel that polls comes to show it
\* for good: an answer that was overtaken is corrected, and so is an entry
\* stored by it.
Converges == <>[](shown = content)

\* The page comes up: with the summary or, when the summary cannot be had, by
\* the fall-back that useDashboardData promises on a 404, a 500, a network error
\* and an answer without data.
PageComesUp == <>~pageLoading
=============================================================================
