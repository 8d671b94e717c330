--------------------------- MODULE ClientErrors ---------------------------
(***************************************************************************)
(* Client error reports: a page posts its uncaught errors one by one, with  *)
(* one slot for the latest that has not been answered, which a beacon sends *)
(* again when the page goes (clientError.ts); the server takes so many an   *)
(* hour, counted in Redis (views/client_errors.py). Reporters without a     *)
(* login share one counter, others have one each: Strangers share this one. *)
(***************************************************************************)
EXTENDS Naturals, FiniteSets

CONSTANTS
  Errors,    \* the errors of the page
  RateLimit, \* _RATE_LIMIT
  WindowSecs, \* _WINDOW_SECS
  LastSecond, \* bound on the clock
  MaxHits,   \* bound on the counter
  None

VARIABLES
  second,
  bucket, \* None, or the counter: [hits, first, ends]
  slot,   \* inFlightPayload
  post,   \* per error: "none", "sent", "taken", "refused", "answered", "failed"
  logged, \* how often each error was logged
  late    \* the errors that were sent again after their answer

errorVars == <<second, bucket, slot, post, logged, late>>

Init ==
  /\ second = 0
  /\ bucket = None /\ slot = None
  /\ post = [e \in Errors |-> "none"]
  /\ logged = [e \in Errors |-> 0]
  /\ late = {}

\* Redis drops a counter whose time is up.
Tick ==
  /\ second < LastSecond
  /\ second' = second + 1
  /\ bucket' = IF bucket # None /\ bucket.ends <= second + 1 THEN None ELSE bucket
  /\ UNCHANGED <<slot, post, logged, late>>

\* Fault: every report sets the time anew.
EndsAnew(old) == second + WindowSecs

\* EXPIRE NX: the first report sets the time, the others leave it.
Ends(old) == IF old = None THEN second + WindowSecs ELSE old.ends

\* INCR, which makes the counter, and EXPIRE, in one transaction of Redis.
Hit(old) == [hits |-> IF old = None THEN 1 ELSE old.hits + 1,
             first |-> IF old = None THEN second ELSE old.first,
             ends |-> Ends(old)]

\* _rate_limited
Limited(hit) == hit.hits > RateLimit

Room == bucket # None => bucket.hits < MaxHits

Stranger ==
  /\ Room
  /\ bucket' = Hit(bucket)
  /\ UNCHANGED <<second, slot, post, logged, late>>

\* reportClientError
Report(e) ==
  /\ post[e] = "none"
  /\ post' = [post EXCEPT ![e] = "sent"]
  /\ slot' = e
  /\ UNCHANGED <<second, bucket, logged, late>>

\* submit; without Redis it fails and takes nothing.
Submit(e) ==
  /\ post[e] = "sent" /\ Room
  /\ bucket' = Hit(bucket)
  /\ post' = [post EXCEPT ![e] = IF Limited(bucket') THEN "refused" ELSE "taken"]
  /\ logged' = IF Limited(bucket') THEN logged ELSE [logged EXCEPT ![e] = @ + 1]
  /\ UNCHANGED <<second, slot, late>>

\* Fault: the copy is dropped only with the last of the answers.
SlotUnlessBusy(e) == IF \E f \in Errors : f # e /\ post[f] = "sent" THEN slot ELSE None

\* Delivered: the copy is dropped, if it is still this one.
SlotAfter(e) == IF slot = e THEN None ELSE slot

Answer(e) ==
  /\ post[e] = "taken"
  /\ post' = [post EXCEPT ![e] = "answered"]
  /\ slot' = SlotAfter(e)
  /\ UNCHANGED <<second, bucket, logged, late>>

\* A 429, a 500 or no connection: the copy stays.
Fail(e) ==
  /\ post[e] \in {"sent", "taken", "refused"}
  /\ post' = [post EXCEPT ![e] = "failed"]
  /\ UNCHANGED <<second, bucket, slot, logged, late>>

\* pagehide: a beacon sends the slot's error, whatever became of its POST; the
\* page may come back from the cache with the slot as it was.
Hide ==
  /\ slot # None /\ Room
  /\ bucket' = Hit(bucket)
  /\ logged' = IF Limited(bucket') THEN logged ELSE [logged EXCEPT ![slot] = @ + 1]
  /\ late' = IF post[slot] = "answered" THEN late \cup {slot} ELSE late
  /\ UNCHANGED <<second, slot, post>>

Next ==
  \/ Tick \/ Stranger \/ Hide
  \/ \E e \in Errors : Report(e) \/ Submit(e) \/ Answer(e) \/ Fail(e)

Spec == Init /\ [][Next]_errorVars

-----------------------------------------------------------------------------
(* Properties *)

\* Nobody is shut out for longer than an hour, however many others go on
\* knocking: the counter dies a window after its first report ("Max reports
\* per hour", client_errors.py).
WindowKeepsItsEnd == bucket # None => second < bucket.first + WindowSecs

\* An error that the server has acknowledged is not sent again ("cleared on
\* success, so an error that already landed isn't re-sent", clientError.ts).
AnsweredNotResent == late = {}

=============================================================================
