----------------------------- MODULE RateLimit ------------------------------
(***************************************************************************)
(* How often one client may call in a window of time: the calls that web   *)
(* processes count in Redis, by three commands of one pipeline, and in a   *)
(* map of their own when Redis does not answer. Redis between two commands *)
(* serves others; it may fail or close the connection before it has        *)
(* answered, and what reached it may be carried out late. A pipeline that  *)
(* somebody still waits for takes less than a unit of time.                *)
(***************************************************************************)
EXTENDS Naturals, FiniteSets

CONSTANTS
  Calls,        \* the calls of one client in one scope
  Webs,         \* the web processes
  RateLimitMax, \* the limit of the scope
  WindowLength, \* rateLimitWindowMs, in units of time
  RateCases     \* [redis: whether there is one, breaks, closes: how often it
                \* fails or hangs up, units: how much time passes]

ASSUME RateAssumption == RateLimitMax \in Nat \ {0} /\ WindowLength \in Nat \ {0}

VARIABLES
  call,       \* what each call has been told, and how far it is
  shared,     \* the key in Redis
  apart,      \* the bucket of each web process
  rate,       \* what may still happen
  age         \* history: for how long the key in Redis has had its time

rateVars == <<call, shared, apart, rate, age>>

\* A counter, when it ends (0: never, or over), and which one of its place it is.
Bucket(count, ends, number) == [count |-> count, ends |-> ends, number |-> number]

Empty(b) == Bucket(0, 0, b.number)

RateInit ==
  /\ rate \in RateCases
  /\ call = [q \in Calls |-> [stage |-> "new", pipe |-> "none", web |-> "none",
                           count |-> 0, number |-> 0]]
  /\ shared = Bucket(0, 0, 0)
  /\ apart = [w \in Webs |-> Bucket(0, 0, 0)]
  /\ age = 0

CallAt(q, stage) == call[q].stage = stage
InPipe(q, command) == call[q].pipe = command

\* A call that has been counted in b, and what becomes of it.
TakesCount(c, b) == [c EXCEPT !.count = b.count, !.number = b.number]

Judged(c) == IF c.count > RateLimitMax THEN "refused" ELSE "served"

\* One more call in b: the first one of its kind if b was empty.
OneMore(b) ==
  [b EXCEPT !.count = @ + 1, !.number = IF b.count = 0 THEN @ + 1 ELSE @]

Enter(q, w) ==
  /\ CallAt(q, "new")
  /\ call' = [call EXCEPT ![q] = [@ EXCEPT !.web = w,
                !.stage = IF rate.redis THEN "waiting" ELSE "alone",
                !.pipe = IF rate.redis THEN "counting" ELSE "none"]]
  /\ UNCHANGED <<shared, apart, rate, age>>

(***************************************************************************)
(* The pipeline: INCR, PEXPIRE ... NX, PTTL.                               *)
(***************************************************************************)
Increment(q) ==
  /\ InPipe(q, "counting")
  /\ shared' = OneMore(shared)
  /\ call' = [call EXCEPT ![q] = [(IF CallAt(q, "waiting") THEN TakesCount(@, shared') ELSE @)
                                    EXCEPT !.pipe = "expiring"]]
  /\ UNCHANGED <<apart, rate, age>>

\* Variant: every call sets the time anew.
ExpireAnew(q) ==
  /\ InPipe(q, "expiring")
  /\ shared' = [shared EXCEPT !.ends = WindowLength]
  /\ call' = [call EXCEPT ![q].pipe = "asking"]
  /\ UNCHANGED <<apart, rate, age>>

\* NX: only a key that would stay for ever is given a time.
Expire(q) ==
  /\ InPipe(q, "expiring")
  /\ shared' = IF shared.count > 0 /\ shared.ends = 0
               THEN [shared EXCEPT !.ends = WindowLength] ELSE shared
  /\ call' = [call EXCEPT ![q].pipe = "asking"]
  /\ UNCHANGED <<apart, rate, age>>

AskTime(q) ==
  /\ InPipe(q, "asking")
  /\ call' = [call EXCEPT ![q] = [call[q] EXCEPT !.pipe = "none",
                !.stage = IF CallAt(q, "waiting") THEN Judged(call[q]) ELSE @]]
  /\ UNCHANGED <<shared, apart, rate, age>>

\* An error, a reply that makes no sense, or none in 1.5 seconds: the web
\* process counts for itself. What Redis has counted stays counted, and what
\* it has not carried out is lost, or comes late.
RedisFails(q) ==
  /\ CallAt(q, "waiting") /\ rate.breaks > 0
  /\ rate' = [rate EXCEPT !.breaks = @ - 1]
  /\ \E rest \in {call[q].pipe, "none"} :
       call' = [call EXCEPT ![q] = [@ EXCEPT !.stage = "alone", !.pipe = rest]]
  /\ UNCHANGED <<shared, apart, age>>

\* A connection that ends in good order, too early, is neither: the timeout is
\* cleared, and nobody settles the promise.
RedisHangsUp(q) ==
  /\ CallAt(q, "waiting") /\ rate.closes > 0
  /\ rate' = [rate EXCEPT !.closes = @ - 1]
  /\ call' = [call EXCEPT ![q] = [@ EXCEPT !.stage = "stuck", !.pipe = "none"]]
  /\ UNCHANGED <<shared, apart, age>>

\* One step: the map is not read and written across an await.
CountAlone(q) ==
  /\ CallAt(q, "alone")
  /\ LET w == call[q].web
         b == IF apart[w].ends = 0
              THEN [OneMore(Empty(apart[w])) EXCEPT !.ends = WindowLength]
              ELSE OneMore(apart[w])
     IN /\ apart' = [apart EXCEPT ![w] = b]
        /\ call' = [call EXCEPT ![q] = [TakesCount(@, b) EXCEPT
                      !.stage = IF Judged(TakesCount(call[q], b)) = "served"
                                THEN "served alone" ELSE "refused alone"]]
  /\ UNCHANGED <<shared, rate, age>>

Later(b) == IF b.ends = 0 THEN b ELSE [b EXCEPT !.ends = @ - 1]

\* A unit of time: Redis drops a key whose time has come, a web process keeps
\* a bucket that is over until it looks at it.
TimePasses ==
  /\ rate.units > 0 /\ \A q \in Calls : ~CallAt(q, "waiting")
  /\ rate' = [rate EXCEPT !.units = @ - 1]
  /\ shared' = IF shared.ends = 1 THEN Empty(shared) ELSE Later(shared)
  /\ age' = IF shared'.ends = 0 THEN 0 ELSE age + 1
  /\ apart' = [w \in Webs |-> Later(apart[w])]
  /\ UNCHANGED call

RateNext ==
  \/ \E q \in Calls : \/ \E w \in Webs : Enter(q, w)
                      \/ Increment(q) \/ Expire(q) \/ AskTime(q)
                      \/ RedisFails(q) \/ RedisHangsUp(q) \/ CountAlone(q)
  \/ TimePasses

RateSpec == RateInit /\ [][RateNext]_rateVars

(***************************************************************************)
(* Properties.                                                             *)
(***************************************************************************)
\* A counter ends within a window, the key counts at most every call, and who
\* waits has something to wait for.
RateTypes ==
  /\ shared.ends \in 0..WindowLength
  /\ \A w \in Webs : apart[w].ends \in 0..WindowLength
  /\ shared.count <= Cardinality(Calls)
  /\ \A q \in Calls : call[q].stage \in
       {"new", "waiting", "alone", "stuck", "served", "refused",
        "served alone", "refused alone"}
  /\ \A q \in Calls : CallAt(q, "waiting") => call[q].pipe # "none"

\* However the pipelines of several processes mix, and wherever they break: in
\* the life of one counter no more calls are served than the limit, by Redis
\* as by each process that has to count for itself ...
ServedWithinLimit ==
  /\ \A n \in 1..shared.number :
       Cardinality({q \in Calls : CallAt(q, "served") /\ call[q].number = n}) <= RateLimitMax
  /\ \A w \in Webs : \A n \in 1..apart[w].number :
       Cardinality({q \in Calls : /\ CallAt(q, "served alone") /\ call[q].web = w
                                  /\ call[q].number = n}) <= RateLimitMax

\* ... and a client that goes on calling is not held off for ever: as soon as
\* one call of a key has come through its pipeline, the key has a time to end,
\* whichever connections broke before, and no later call puts it off.
WindowEnds ==
  /\ shared.ends > 0 => age + shared.ends = WindowLength
  /\ \A q \in Calls :
       /\ shared.count > 0 /\ call[q].number = shared.number
       /\ CallAt(q, "waiting") => InPipe(q, "asking")
       /\ call[q].stage \in {"waiting", "served", "refused"}
       => shared.ends > 0

\* assertRateLimit keeps its limit, and lets go of who has reached it.
RateIsLimited == ServedWithinLimit /\ WindowEnds

\* docs/PHASE_8_SAAS_FOUNDATION.md:72 names an in-memory fallback.
NobodyWaitsForRedis == \A q \in Calls : ~CallAt(q, "stuck")

=============================================================================
