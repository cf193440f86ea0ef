----------------------------- MODULE RewardLoop -----------------------------
(***************************************************************************)
(* The reward loop: a worker scores the items of a batch concurrently,     *)
(* either with the discriminative reward model (compute_score_disrm, which *)
(* posts and retries) or through RateLimitedRewardManager, whose scoring   *)
(* function posts once (token bucket, semaphore, timeout); both post to    *)
(* NaiveRouter, which picks a server of the reward model and retries       *)
(* there.  Time counts whole ticks; one tick refills rate_limit tokens.    *)
(* Backing off between attempts changes nothing and is left out.           *)
(***************************************************************************)
EXTENDS Integers, Sequences, FiniteSets, FiniteSetsExt

CONSTANTS
  Items, Workers,
  Modes,             \* of {"disrm", "limited"}
  Sizes,             \* tokens a request acquires: 1, or estimated_tokens_per_request
  rate_limit, max_tokens,
  max_concurrent, timeout,
  max_retries,       \* of _post_request
  max_attempts       \* of the router

ASSUME ConstantsOK ==
  /\ IsFiniteSet(Items) /\ IsFiniteSet(Workers) /\ Workers # {}
  /\ Modes \subseteq {"disrm", "limited"} /\ Sizes \subseteq Nat \ {0}
  /\ {rate_limit, max_tokens, max_concurrent, timeout, max_retries, max_attempts} \subseteq Nat \ {0}

VARIABLES
  mode, num_tokens,  \* chosen at the start
  now,
  at,                \* of an item's coroutine: new, acquiring, sleeping, queued,
                     \* scoring, scored, timeout, error
  wake,              \* when its sleep or its wait_for is over
  retries,           \* posts made
  tokens, last_update, \* of the bucket; last_update is Never before the first call
  granted,           \* history: tokens the bucket let through
  request,           \* of an item at the router: idle, tried (at a server), ok, refused
  worker, attempt,   \* where it is tried and how often it was
  request_counts

item == <<at, wake, retries>>
bucket == <<tokens, last_update, granted>>
router == <<request, worker, attempt, request_counts>>
vars == <<mode, num_tokens, now, item, bucket, router>>

Never == -1
Nobody == "nobody"
Waiting == {"acquiring", "sleeping"}
Ended == {"scored", "timeout", "error"}

Init ==
  /\ mode \in Modes /\ num_tokens \in (IF mode = "limited" THEN Sizes ELSE {1})
  /\ now = 0
  /\ at = [i \in Items |-> "new"] /\ wake = [i \in Items |-> 0] /\ retries = wake
  /\ tokens = max_tokens /\ last_update = Never /\ granted = 0
  /\ request = [i \in Items |-> "idle"] /\ attempt = [i \in Items |-> 0]
  /\ worker = [i \in Items |-> Nobody]
  /\ request_counts = [w \in Workers |-> 0]

Move(i, s) == at' = [at EXCEPT ![i] = s]
End(i, s) == Move(i, s) /\ wake' = [wake EXCEPT ![i] = 0]

-----------------------------------------------------------------------------
(* AsyncTokenBucket.acquire; the lock holds no suspension point              *)

Refilled ==
  LET elapsed == IF last_update = Never THEN 0 ELSE now - last_update
  IN  Min({max_tokens, tokens + elapsed * rate_limit})

Ceil(a, b) == (a + b - 1) \div b

\* A mutant: the time of the refill is not noted.
AcquireLargeAgain(i) ==
  /\ num_tokens > max_tokens /\ at[i] = "new"
  /\ tokens' = Refilled - num_tokens /\ last_update' = IF last_update = Never THEN now ELSE last_update
  /\ IF num_tokens > Refilled
     THEN /\ Move(i, "sleeping") /\ UNCHANGED granted
          /\ wake' = [wake EXCEPT ![i] = now + Ceil(num_tokens - Refilled, rate_limit)]
     ELSE Move(i, "queued") /\ granted' = granted + num_tokens /\ UNCHANGED wake

\* Larger than the bucket: the tokens are taken at once, below zero, and slept for.
AcquireLarge(i) ==
  /\ num_tokens > max_tokens /\ at[i] = "new"
  /\ tokens' = Refilled - num_tokens /\ last_update' = now
  /\ IF num_tokens > Refilled
     THEN /\ Move(i, "sleeping") /\ UNCHANGED granted
          /\ wake' = [wake EXCEPT ![i] = now + Ceil(num_tokens - Refilled, rate_limit)]
     ELSE Move(i, "queued") /\ granted' = granted + num_tokens /\ UNCHANGED wake

SleptEnough(i) ==
  /\ at[i] = "sleeping" /\ now >= wake[i]
  /\ End(i, "queued") /\ granted' = granted + num_tokens
  /\ UNCHANGED <<tokens, last_update>>

\* Otherwise they are taken when they are there, or looked for again later.
Acquire(i) ==
  /\ num_tokens <= max_tokens
  /\ at[i] = "new" \/ (at[i] = "acquiring" /\ now >= wake[i])
  /\ last_update' = now
  /\ IF Refilled >= num_tokens
     THEN /\ tokens' = Refilled - num_tokens /\ granted' = granted + num_tokens
          /\ End(i, "queued")
     ELSE /\ tokens' = Refilled /\ Move(i, "acquiring") /\ UNCHANGED granted
          /\ wake' = [wake EXCEPT ![i] = now + Ceil(num_tokens - Refilled, rate_limit)]

Limit(i) ==
  /\ mode = "limited" /\ (AcquireLarge(i) \/ SleptEnough(i) \/ Acquire(i))
  /\ UNCHANGED <<mode, num_tokens, now, retries, router>>

-----------------------------------------------------------------------------
(* Scoring an item                                                           *)

\* A mutant: a timeout does not give the permit back.
ScoringKept == {i \in Items : at[i] \in {"scoring", "timeout"}}
Scoring == {i \in Items : at[i] = "scoring"}

Begin(i) ==
  /\ \/ mode = "disrm" /\ at[i] = "new" /\ UNCHANGED wake
     \/ /\ mode = "limited" /\ at[i] = "queued" /\ Cardinality(Scoring) < max_concurrent
        /\ wake' = [wake EXCEPT ![i] = now + timeout]
  /\ Move(i, "scoring")
  /\ UNCHANGED <<mode, num_tokens, now, retries, bucket, router>>

\* _select_worker: the first of the least-loaded servers.
Post(i) ==
  /\ at[i] = "scoring" /\ request[i] = "idle"
  /\ retries' = [retries EXCEPT ![i] = @ + 1]
  /\ \E w \in Workers :
       /\ \A v \in Workers : request_counts[w] <= request_counts[v]
       /\ request_counts' = [request_counts EXCEPT ![w] = @ + 1]
       /\ worker' = [worker EXCEPT ![i] = w]
  /\ request' = [request EXCEPT ![i] = "tried"] /\ attempt' = [attempt EXCEPT ![i] = 1]
  /\ UNCHANGED <<mode, num_tokens, now, at, wake, bucket>>

Answered(i) ==
  /\ at[i] = "scoring" /\ request[i] = "ok" /\ End(i, "scored")
  /\ UNCHANGED <<mode, num_tokens, now, retries, bucket, router>>

\* The router's exception is a 500 to its client: _post_request tries again,
\* the scoring function of a rate-limited item raises.
Refused(i) ==
  /\ at[i] = "scoring" /\ request[i] = "refused"
  /\ IF mode = "disrm" /\ retries[i] < max_retries
     THEN request' = [request EXCEPT ![i] = "idle"] /\ UNCHANGED <<at, wake>>
     ELSE End(i, "error") /\ UNCHANGED request
  /\ UNCHANGED <<mode, num_tokens, now, retries, bucket, worker, attempt, request_counts>>

\* wait_for gives up the scoring function; the router does not hear of it.
TimesOut(i) ==
  /\ mode = "limited" /\ at[i] = "scoring" /\ now >= wake[i] /\ End(i, "timeout")
  /\ UNCHANGED <<mode, num_tokens, now, retries, bucket, router>>

Score(i) == Begin(i) \/ Post(i) \/ Answered(i) \/ Refused(i) \/ TimesOut(i)

-----------------------------------------------------------------------------
(* The router's request to the server it chose                               *)

Over(i, s) ==
  /\ request' = [request EXCEPT ![i] = s] /\ attempt' = [attempt EXCEPT ![i] = 0]
  /\ worker' = [worker EXCEPT ![i] = Nobody]
Released(i) == request_counts' = [request_counts EXCEPT ![worker[i]] = Max({0, @ - 1})]

Succeeds(i) ==
  request[i] = "tried" /\ Over(i, "ok") /\ Released(i)

\* A mutant: every failed attempt releases the server.
FailsReleasing(i) ==
  /\ request[i] = "tried" /\ Released(i)
  /\ IF attempt[i] < max_attempts
     THEN attempt' = [attempt EXCEPT ![i] = @ + 1] /\ UNCHANGED <<request, worker>>
     ELSE Over(i, "refused")

\* A timeout or a failed connection: tried again there, up to max_attempts.
Fails(i) ==
  /\ request[i] = "tried" /\ UNCHANGED request_counts
  /\ IF attempt[i] < max_attempts
     THEN attempt' = [attempt EXCEPT ![i] = @ + 1] /\ UNCHANGED <<request, worker>>
     ELSE Over(i, "refused")

\* A status of 400 or more is passed on at once.
AnswersError(i) ==
  request[i] = "tried" /\ Over(i, "refused") /\ UNCHANGED request_counts

Serve(i) ==
  /\ Succeeds(i) \/ Fails(i) \/ AnswersError(i)
  /\ UNCHANGED <<mode, num_tokens, now, item, bucket>>

\* Time matters only to somebody who waits for it.
Tick ==
  /\ \E i \in Items : at[i] \in Waiting \union {"scoring"} /\ mode = "limited" /\ now < wake[i]
  /\ now' = now + 1
  /\ UNCHANGED <<mode, num_tokens, item, bucket, router>>

Next == Tick \/ \E i \in Items : Limit(i) \/ Score(i) \/ Serve(i)

\* Some coroutine that can go on does, and the clock goes on: no item is favoured.  No
\* server need ever answer or fail: neither the worker's nor the router's post has a time
\* limit (ClientTimeout(total=None)).
Fairness ==
  /\ WF_vars(Tick) /\ WF_vars(\E i \in Items : Limit(i))
  /\ WF_vars(\E i \in Items : Score(i))
Spec == Init /\ [][Next]_vars /\ Fairness

-----------------------------------------------------------------------------
(* Properties                                                                *)

\* No server is taken to be freer than it is: through failures, retries and
\* abandoned calls its count is at least the requests it works on, and so
\* the clamp of _release_worker never hides a second release.
NeverUndercounted ==
  \A w \in Workers :
    request_counts[w] >= Cardinality({i \in Items : request[i] = "tried" /\ worker[i] = w})

\* What the bucket let through by any time is what it held plus what was
\* refilled since it was first asked: in both branches, though one takes the
\* tokens before it sleeps and the other after, and whoever wakes late.
RateKept == granted <= max_tokens + rate_limit * now

\* A discriminative score that is waited for at a server that does not answer: nothing in
\* the code ends this wait, which reward_loop.py:129 knows of ("can hang indefinitely").
Hanging(i) == mode = "disrm" /\ request[i] = "tried"

\* Whatever the servers do, and if they never answer, every rate-limited item ends: the wait
\* for tokens ends, and a timeout gives its permit to the next.  A discriminative item
\* ends or hangs at a server; no other item and no retry keeps it waiting.
Ends == <>[](\A i \in Items : at[i] \in Ended \/ Hanging(i))
=============================================================================
