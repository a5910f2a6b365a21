----------------------------- MODULE RateLimiter -----------------------------
(***************************************************************************)
(* The sliding window that limits uploads (app/ratelimit.py), for one      *)
(* address: windows of different addresses share nothing.                  *)
(*                                                                         *)
(* A request reads the clock first and takes the lock later, so that       *)
(* requests enter the window in an order that need not be that of their    *)
(* stamps.  MaxDelay bounds what may lie between the two.  Under the lock   *)
(* nothing can interfere: expiring, judging and entering are one action.   *)
(***************************************************************************)
EXTENDS Integers, Sequences

CONSTANTS Requests,     \* threads that serve uploads, one request at a time each
          MaxRequests,  \* max_requests
          Window,       \* window_s, in ticks of the clock
          Second,       \* ticks of the clock in the unit of Retry-After
          MaxDelay,     \* bound: ticks between reading the clock and the lock
          Horizon       \* bound: the clock

ASSUME LimiterAssumption ==
    /\ MaxRequests \in Nat \ {0}
    /\ Window \in Nat
    /\ Second \in Nat \ {0}
    /\ MaxDelay \in Nat
    /\ Horizon \in Nat

VARIABLES
    clock,   \* time.monotonic()
    stamp,   \* now of each request that has read the clock, or Absent
    hits,    \* the deque: stamps of admitted requests, the first to go first
    log,     \* history: when each admitted request came in, and its stamp
    promise  \* history: what the last rejected client was told

limiterVars == <<clock, stamp, hits, log, promise>>

Absent == -1

LimiterTypeOK ==
    /\ clock \in 0..Horizon
    /\ stamp \in [Requests -> 0..Horizon \cup {Absent}]
    /\ hits \in Seq(Nat)
    /\ log \in Seq([at : Nat, stamp : Nat])
    /\ promise \in [until : Nat, admitted : Nat]

LimiterInit ==
    /\ clock = 0
    /\ stamp = [r \in Requests |-> Absent]
    /\ hits = <<>>
    /\ log = <<>>
    /\ promise = [until |-> 0, admitted |-> 0]

-------------------------------------------------------------------------------
Expired_OnTheDot(hit, now) == now - hit >= Window
Expired(hit, now) == now - hit > Window

\* How many hits the while loop takes off, looking at the oldest only.
Stale(n, now) ==
    /\ \A i \in 1..n : Expired(hits[i], now)
    /\ n < Len(hits) => ~Expired(hits[n + 1], now)

RetryAfter_Exact(oldest, now) == (Window - (now - oldest)) \div Second
\* Whole seconds until the oldest hit expires, and one more.
RetryAfter(oldest, now) == (Window - (now - oldest)) \div Second + 1

Admit(r, rest) ==
    /\ Len(rest) < MaxRequests
    /\ hits' = Append(rest, stamp[r])
    /\ log' = Append(log, [at |-> clock, stamp |-> stamp[r]])
    /\ UNCHANGED promise

Reject(r, rest) ==
    /\ Len(rest) >= MaxRequests
    /\ hits' = rest
    /\ promise' = [until |-> stamp[r] + Second * RetryAfter(rest[1], stamp[r]),
                   admitted |-> Len(log)]
    /\ UNCHANGED log

-------------------------------------------------------------------------------
\* Time passes, but no request waits for the lock beyond MaxDelay.
Tick ==
    /\ clock < Horizon
    /\ \A r \in Requests : stamp[r] # Absent => clock - stamp[r] < MaxDelay
    /\ clock' = clock + 1
    /\ UNCHANGED <<stamp, hits, log, promise>>

\* A request comes in and reads the clock.
Arrive(r) ==
    /\ stamp[r] = Absent
    /\ stamp' = [stamp EXCEPT ![r] = clock]
    /\ UNCHANGED <<clock, hits, log, promise>>

\* It gets the lock and is admitted or rejected.
Decide(r) ==
    /\ stamp[r] # Absent
    /\ \E n \in 0..Len(hits) :
          /\ Stale(n, stamp[r])
          /\ LET rest == SubSeq(hits, n + 1, Len(hits))
             IN Admit(r, rest) \/ Reject(r, rest)
    /\ stamp' = [stamp EXCEPT ![r] = Absent]
    /\ UNCHANGED clock

LimiterNext == Tick \/ \E r \in Requests : Arrive(r) \/ Decide(r)

LimiterSpec == LimiterInit /\ [][LimiterNext]_limiterVars

-------------------------------------------------------------------------------
\* Whatever the order in which requests get the lock, MaxRequests + 1 uploads in
\* a row are never let in within a window, save for the time they waited
\* (ratelimit.py: "Minimal per-IP sliding-window rate limiter").
BurstBound ==
    \A i \in 1..(Len(log) - MaxRequests) :
        log[i + MaxRequests].at - log[i].at > Window - MaxDelay

\* A request is only rejected if MaxRequests uploads came in within the window
\* before it, and never if it waited as long as the Retry-After of the last
\* rejection said and nobody else was let in since.
RejectionIsFair ==
    [][\A r \in Requests : stamp[r] # Absent /\ stamp'[r] = Absent /\ log' = log =>
          /\ Len(log) >= MaxRequests
          /\ \A i \in (Len(log) - MaxRequests + 1)..Len(log) : stamp[r] - log[i].at <= Window
          /\ promise.admitted = Len(log) => stamp[r] < promise.until]_limiterVars
===============================================================================
