-------------------------- MODULE RateLimiterProofs --------------------------
(***************************************************************************)
(* Theorems on RateLimiter, for any requests and any values of the limits. *)
(***************************************************************************)
EXTENDS RateLimiter, TLAPS

Entry == [at : Nat, stamp : Nat]

\* What is known of the stamps of requests that wait for the lock.
WaitingInv ==
    \A r \in Requests : stamp[r] # Absent =>
        /\ stamp[r] <= clock
        /\ clock - stamp[r] <= MaxDelay

\* What is known of admitted requests: they came in one after the other.
LogInv ==
    /\ \A i \in 1..Len(log) :
          /\ log[i].stamp <= log[i].at
          /\ log[i].at - log[i].stamp <= MaxDelay
          /\ log[i].at <= clock
    /\ \A i, j \in 1..Len(log) : i <= j => log[i].at <= log[j].at

\* The deque h holds the stamps of the latest admissions, at most MaxRequests, and
\* what it no longer holds is out of the window.
WindowOf(h) ==
    /\ Len(h) <= MaxRequests
    /\ Len(h) <= Len(log)
    /\ \A k \in 1..Len(h) : h[k] = log[Len(log) - Len(h) + k].stamp
    /\ \A i \in 1..(Len(log) - Len(h)) : clock - log[i].stamp > Window

HitsInv == WindowOf(hits)

\* The last rejection promised no less than it takes.
PromiseInv ==
    /\ promise.admitted <= Len(log)
    /\ promise.admitted = Len(log) /\ Len(log) >= MaxRequests =>
          promise.until > log[Len(log) - MaxRequests + 1].stamp + Window

LimiterInv == LimiterTypeOK /\ WaitingInv /\ LogInv /\ HitsInv /\ PromiseInv /\ BurstBound

-------------------------------------------------------------------------------
\* What the while loop leaves of a deque.
LEMMA RestType ==
    ASSUME NEW s \in Seq(Nat), NEW n \in 0..Len(s)
    PROVE  LET rest == SubSeq(s, n + 1, Len(s))
           IN /\ rest \in Seq(Nat)
              /\ Len(rest) = Len(s) - n
              /\ \A k \in 1..Len(rest) : rest[k] = s[n + k]
  OBVIOUS

\* Whole seconds, and one more, are longer than what is left of the window.
LEMMA RetryIsEnough ==
    ASSUME NEW x \in Nat, LimiterAssumption
    PROVE  /\ x \div Second \in Nat
           /\ Second * (x \div Second + 1) \in Nat
           /\ Second * (x \div Second + 1) > x
  BY DEF LimiterAssumption

\* What the while loop takes off is out of the window, and what it leaves at the
\* head is not.
LEMMA ExpiringKeepsWindow ==
    ASSUME LimiterAssumption, LimiterTypeOK, WaitingInv, LogInv, HitsInv,
           NEW r \in Requests, stamp[r] # Absent,
           NEW n \in 0..Len(hits), Stale(n, stamp[r])
    PROVE  LET rest == SubSeq(hits, n + 1, Len(hits))
           IN /\ WindowOf(rest)
              /\ Len(rest) > 0 => stamp[r] - rest[1] <= Window
<1> DEFINE rest == SubSeq(hits, n + 1, Len(hits))
<1>1. /\ stamp[r] \in Nat /\ clock \in Nat /\ stamp[r] <= clock
      /\ hits \in Seq(Nat) /\ log \in Seq(Entry) /\ Window \in Nat
  BY DEF LimiterTypeOK, WaitingInv, LimiterAssumption, Absent, Entry
<1>2. /\ rest \in Seq(Nat)
      /\ Len(rest) = Len(hits) - n
      /\ \A k \in 1..Len(rest) : rest[k] = hits[n + k]
  BY <1>1, RestType
<1>3. /\ Len(hits) \in Nat /\ Len(log) \in Nat /\ MaxRequests \in Nat /\ n \in Nat
      /\ Len(rest) \in Nat
  BY <1>1, <1>2 DEF LimiterAssumption
<1> HIDE DEF rest
<1>4. \A k \in 1..Len(rest) : rest[k] = log[Len(log) - Len(rest) + k].stamp
  <2> SUFFICES ASSUME NEW k \in 1..Len(rest)
               PROVE  rest[k] = log[Len(log) - Len(rest) + k].stamp
    OBVIOUS
  <2>1. n + k \in 1..Len(hits)
    BY <1>2, <1>3
  <2>2. Len(log) - Len(hits) + (n + k) = Len(log) - Len(rest) + k
    BY <1>2, <1>3
  <2>. QED  BY <1>2, <2>1, <2>2 DEF HitsInv, WindowOf
<1>5. \A i \in 1..(Len(log) - Len(rest)) : clock - log[i].stamp > Window
  <2> SUFFICES ASSUME NEW i \in 1..(Len(log) - Len(rest))
               PROVE  clock - log[i].stamp > Window
    OBVIOUS
  <2>1. CASE i \in 1..(Len(log) - Len(hits))
    BY <2>1 DEF HitsInv, WindowOf
  <2>2. CASE i \notin 1..(Len(log) - Len(hits))
    <3> DEFINE k == i - (Len(log) - Len(hits))
    <3>1. k \in 1..n /\ k \in 1..Len(hits) /\ Len(log) - Len(hits) + k = i
      BY <1>2, <1>3, <2>2 DEF HitsInv, WindowOf
    <3>2. hits[k] = log[i].stamp
      BY <3>1 DEF HitsInv, WindowOf
    <3>3. stamp[r] - hits[k] > Window
      BY <3>1 DEF Stale, Expired
    <3>4. i \in 1..Len(log)
      BY <1>2, <1>3 DEF HitsInv, WindowOf
    <3>5. log[i] \in Entry
      BY <1>1, <3>4
    <3>6. log[i].stamp \in Nat
      BY <3>5 DEF Entry
    <3>. QED  BY <1>1, <3>2, <3>3, <3>6
  <2>. QED  BY <2>1, <2>2
<1>6. Len(rest) > 0 => stamp[r] - rest[1] <= Window
  <2> SUFFICES ASSUME Len(rest) > 0
               PROVE  stamp[r] - rest[1] <= Window
    OBVIOUS
  <2>1. n < Len(hits) /\ 1 \in 1..Len(rest)
    BY <1>2, <1>3
  <2>2. rest[1] = hits[n + 1] /\ n + 1 \in 1..Len(hits)
    BY <1>2, <1>3, <2>1
  <2>3. hits[n + 1] \in Nat
    BY <1>1, <2>2
  <2>4. ~(stamp[r] - hits[n + 1] > Window)
    BY <2>1 DEF Stale, Expired
  <2>. QED  BY <1>1, <2>2, <2>3, <2>4
<1>7. WindowOf(rest)
  BY <1>2, <1>3, <1>4, <1>5 DEF HitsInv, WindowOf
<1>. QED  BY <1>6, <1>7 DEF rest

-------------------------------------------------------------------------------
\* An admission comes later than Window - MaxDelay after the MaxRequests-th one
\* before it, which the deque no longer holds.
LEMMA AdmitKeepsInv ==
    ASSUME LimiterAssumption, LimiterInv,
           NEW r \in Requests, stamp[r] # Absent,
           NEW rest \in Seq(Nat), WindowOf(rest), Admit(r, rest),
           stamp' = [stamp EXCEPT ![r] = Absent], clock' = clock
    PROVE  LimiterInv'
<1> USE DEF LimiterInv
<1> DEFINE new == [at |-> clock, stamp |-> stamp[r]]
<1>1. /\ stamp[r] \in Nat /\ clock \in Nat /\ stamp[r] <= clock /\ clock - stamp[r] <= MaxDelay
      /\ stamp[r] \in 0..Horizon
      /\ log \in Seq(Entry) /\ new \in Entry
      /\ Window \in Nat /\ MaxRequests \in Nat \ {0} /\ MaxDelay \in Nat /\ Horizon \in Nat
  BY DEF LimiterTypeOK, WaitingInv, LimiterAssumption, Absent, Entry
<1>2. /\ log' = Append(log, new) /\ log' \in Seq(Entry) /\ Len(log') = Len(log) + 1
      /\ \A i \in 1..Len(log) : log'[i] = log[i]
      /\ log'[Len(log) + 1] = new
      /\ Len(log) \in Nat
  BY <1>1 DEF Admit
<1>3. /\ hits' = Append(rest, stamp[r]) /\ hits' \in Seq(Nat) /\ Len(hits') = Len(rest) + 1
      /\ \A k \in 1..Len(rest) : hits'[k] = rest[k]
      /\ hits'[Len(rest) + 1] = stamp[r]
      /\ Len(rest) \in Nat /\ Len(rest) < MaxRequests
  BY <1>1 DEF Admit
<1>4. promise' = promise
  BY DEF Admit
<1>5. LimiterTypeOK'
  BY <1>1, <1>2, <1>3, <1>4 DEF LimiterTypeOK, Absent, Entry
<1>6. WaitingInv'
  BY <1>1 DEF WaitingInv, LimiterTypeOK, Absent
<1>7. LogInv'
  <2>2. /\ \A i \in 1..Len(log) : /\ log'[i].stamp <= log'[i].at
                                   /\ log'[i].at - log'[i].stamp <= MaxDelay
                                   /\ log'[i].at <= clock
    BY <1>2 DEF LogInv
  <2>3. \A i, j \in 1..Len(log') : i <= j => log'[i].at <= log'[j].at
    <3> SUFFICES ASSUME NEW i \in 1..Len(log'), NEW j \in 1..Len(log'), i <= j
                 PROVE  log'[i].at <= log'[j].at
      OBVIOUS
    <3>1. CASE j \in 1..Len(log)
      BY <1>2, <3>1 DEF LogInv
    <3>2. CASE j = Len(log) + 1
      <4>1. log'[j].at = clock
        BY <1>2, <3>2
      <4>2. log'[i].at <= clock
        BY <1>1, <1>2, <2>2
      <4>. QED  BY <4>1, <4>2
    <3>. QED  BY <1>2, <3>1, <3>2
  <2>. QED  BY <1>1, <1>2, <2>2, <2>3 DEF LogInv
<1>8. HitsInv'
  <2>1. Len(hits') <= MaxRequests /\ Len(hits') <= Len(log')
    BY <1>1, <1>2, <1>3 DEF WindowOf
  <2>2. \A k \in 1..Len(hits') : hits'[k] = log'[Len(log') - Len(hits') + k].stamp
    <3> SUFFICES ASSUME NEW k \in 1..Len(hits')
                 PROVE  hits'[k] = log'[Len(log') - Len(hits') + k].stamp
      OBVIOUS
    <3>1. CASE k \in 1..Len(rest)
      <4>1. Len(log') - Len(hits') + k = Len(log) - Len(rest) + k
        BY <1>2, <1>3
      <4>2. Len(log) - Len(rest) + k \in 1..Len(log)
        BY <1>2, <1>3, <3>1 DEF WindowOf
      <4>. QED  BY <1>2, <1>3, <3>1, <4>1, <4>2 DEF WindowOf
    <3>2. CASE k = Len(rest) + 1
      BY <1>2, <1>3, <3>2
    <3>. QED  BY <1>3, <3>1, <3>2
  <2>3. \A i \in 1..(Len(log') - Len(hits')) : clock - log'[i].stamp > Window
    <3> SUFFICES ASSUME NEW i \in 1..(Len(log') - Len(hits'))
                 PROVE  clock - log'[i].stamp > Window
      OBVIOUS
    <3>1. i \in 1..(Len(log) - Len(rest)) /\ i \in 1..Len(log)
      BY <1>2, <1>3
    <3>. QED  BY <1>2, <3>1 DEF WindowOf
  <2>. QED  BY <2>1, <2>2, <2>3 DEF HitsInv, WindowOf
<1>9. PromiseInv'
  <2>1. promise'.admitted <= Len(log) /\ promise'.admitted \in Nat
    BY <1>4 DEF PromiseInv, LimiterTypeOK
  <2>. QED  BY <1>2, <2>1 DEF PromiseInv
<1>10. BurstBound'
  <2> SUFFICES ASSUME NEW i \in 1..(Len(log') - MaxRequests)
               PROVE  log'[i + MaxRequests].at - log'[i].at > Window - MaxDelay
    BY DEF BurstBound
  <2>1. i \in 1..Len(log) /\ log'[i] = log[i] /\ log[i] \in Entry
    BY <1>1, <1>2
  <2>2. CASE i \in 1..(Len(log) - MaxRequests)
    <3>1. i + MaxRequests \in 1..Len(log)
      BY <1>1, <1>2, <2>2
    <3>. QED  BY <1>2, <2>1, <2>2, <3>1 DEF BurstBound
  <2>3. CASE i + MaxRequests = Len(log) + 1
    <3>1. i \in 1..(Len(log) - Len(rest))
      BY <1>1, <1>2, <1>3, <2>1, <2>3
    <3>2. clock - log[i].stamp > Window
      BY <3>1 DEF WindowOf
    <3>3. log[i].at - log[i].stamp <= MaxDelay
      BY <2>1 DEF LogInv
    <3>4. log'[i + MaxRequests].at = clock
      BY <1>2, <2>3
    <3>5. log[i].at \in Nat /\ log[i].stamp \in Nat /\ log'[i].at = log[i].at
      BY <2>1 DEF Entry
    <3>6. clock \in Nat /\ Window \in Nat /\ MaxDelay \in Nat
      BY <1>1
    <3>7. clock - log[i].at > Window - MaxDelay
      <4> DEFINE at == log[i].at  st == log[i].stamp
      <4>1. at \in Nat /\ st \in Nat /\ clock - st > Window /\ at - st <= MaxDelay
        BY <3>2, <3>3, <3>5
      <4> HIDE DEF at, st
      <4>2. clock - at > Window - MaxDelay
        BY <4>1, <3>6
      <4>. QED  BY <4>2 DEF at
    <3>. QED  BY <3>4, <3>5, <3>7
  <2>4. i \in 1..(Len(log) - MaxRequests) \/ i + MaxRequests = Len(log) + 1
    <3>1. MaxRequests \in Nat /\ Len(log) \in Nat /\ Len(log') = Len(log) + 1 /\ i \in 1..(Len(log') - MaxRequests)
      BY <1>1, <1>2
    <3>. QED  BY <3>1
  <2>. QED  BY <2>2, <2>3, <2>4
<1>. QED  BY <1>5, <1>6, <1>7, <1>8, <1>9, <1>10

-------------------------------------------------------------------------------
\* A rejected request finds the stamps of the last MaxRequests admissions in the
\* deque, none of them expired, and is told to wait for the oldest.
LEMMA RejectIsFair ==
    ASSUME LimiterAssumption, LimiterInv,
           NEW r \in Requests, stamp[r] # Absent,
           NEW rest \in Seq(Nat), WindowOf(rest), Reject(r, rest),
           Len(rest) > 0 => stamp[r] - rest[1] <= Window,
           stamp' = [stamp EXCEPT ![r] = Absent], clock' = clock
    PROVE  /\ LimiterInv'
           /\ Len(log) >= MaxRequests
           /\ \A i \in (Len(log) - MaxRequests + 1)..Len(log) : stamp[r] - log[i].at <= Window
           /\ promise.admitted = Len(log) => stamp[r] < promise.until
<1> USE DEF LimiterInv
<1> DEFINE first == Len(log) - MaxRequests + 1
<1>1. /\ stamp[r] \in Nat /\ clock \in Nat /\ stamp[r] <= clock
      /\ log \in Seq(Entry) /\ rest \in Seq(Nat)
      /\ Window \in Nat /\ MaxRequests \in Nat \ {0} /\ Horizon \in Nat
      /\ hits' = rest /\ log' = log
  BY DEF LimiterTypeOK, WaitingInv, LimiterAssumption, Absent, Entry, Reject
<1>2. /\ Len(rest) = MaxRequests /\ Len(log) >= MaxRequests /\ Len(log) \in Nat
      /\ first \in 1..Len(log)
      /\ rest[1] = log[first].stamp /\ rest[1] \in Nat
      /\ stamp[r] - rest[1] <= Window
  <2>1. Len(rest) = MaxRequests /\ Len(rest) \in Nat /\ Len(log) \in Nat /\ Len(rest) <= Len(log)
    BY <1>1 DEF Reject, WindowOf
  <2>2. 1 \in 1..Len(rest) /\ Len(log) - Len(rest) + 1 = first /\ first \in 1..Len(log)
    BY <1>1, <2>1
  <2>. QED  BY <1>1, <2>1, <2>2 DEF WindowOf
<1> HIDE DEF first
<1>3. ASSUME NEW i \in first..Len(log)
      PROVE  stamp[r] - log[i].at <= Window
  <2>1. first \in Int /\ i \in 1..Len(log) /\ first <= i
    BY <1>2
  <2>2. log[i] \in Entry /\ log[first] \in Entry
    BY <1>1, <1>2, <2>1
  <2>3. log[first].stamp <= log[first].at /\ log[first].at <= log[i].at
    BY <1>2, <2>1 DEF LogInv
  <2>4. /\ log[i].at \in Nat /\ log[first].at \in Nat /\ log[first].stamp \in Nat
        /\ stamp[r] \in Nat /\ Window \in Nat
    BY <1>1, <2>2 DEF Entry
  <2>5. stamp[r] - log[first].stamp <= Window
    BY <1>2
  <2>. QED  BY <2>3, <2>4, <2>5
<1>4. promise.admitted = Len(log) => stamp[r] < promise.until
  <2>1. promise.until \in Nat /\ promise.admitted \in Nat
    BY DEF LimiterTypeOK
  <2>2. promise.admitted = Len(log) => promise.until > rest[1] + Window
    BY <1>2 DEF PromiseInv, first
  <2>. QED  BY <1>1, <1>2, <2>1, <2>2
<1>5. /\ promise' \in [until : Nat, admitted : Nat]
      /\ promise'.admitted = Len(log)
      /\ promise'.until > rest[1] + Window
  <2> DEFINE left == Window - (stamp[r] - rest[1])
             wait == Second * (left \div Second + 1)
  <2>1. left \in Nat
    BY <1>1, <1>2
  <2>2. wait \in Nat /\ wait > left
    BY <2>1, RetryIsEnough
  <2>3. promise' = [until |-> stamp[r] + wait, admitted |-> Len(log)]
    BY DEF Reject, RetryAfter
  <2>4. left = Window - (stamp[r] - rest[1])
    OBVIOUS
  <2> HIDE DEF wait, left
  <2>5. stamp[r] + wait \in Nat /\ stamp[r] + wait > rest[1] + Window
    BY <1>1, <1>2, <2>1, <2>2, <2>4
  <2>. QED  BY <1>2, <2>3, <2>5
<1>6. LimiterTypeOK'
  BY <1>1, <1>5 DEF LimiterTypeOK, Absent
<1>7. WaitingInv'
  BY <1>1 DEF WaitingInv, LimiterTypeOK, Absent
<1>8. LogInv' /\ HitsInv' /\ BurstBound'
  BY <1>1 DEF LogInv, HitsInv, WindowOf, BurstBound
<1>9. PromiseInv'
  BY <1>1, <1>2, <1>5 DEF PromiseInv, first
<1>. QED  BY <1>2, <1>3, <1>4, <1>6, <1>7, <1>8, <1>9 DEF first

-------------------------------------------------------------------------------
\* Decide admits or rejects with what expiring left.
LEMMA DecideIsFair ==
    ASSUME LimiterAssumption, LimiterInv, NEW r \in Requests, Decide(r)
    PROVE  /\ LimiterInv'
           /\ log' = log =>
                 /\ Len(log) >= MaxRequests
                 /\ \A i \in (Len(log) - MaxRequests + 1)..Len(log) :
                       stamp[r] - log[i].at <= Window
                 /\ promise.admitted = Len(log) => stamp[r] < promise.until
<1>1. PICK n \in 0..Len(hits) :
          /\ Stale(n, stamp[r])
          /\ LET rest == SubSeq(hits, n + 1, Len(hits))
             IN Admit(r, rest) \/ Reject(r, rest)
  BY DEF Decide
<1> DEFINE rest == SubSeq(hits, n + 1, Len(hits))
<1>2. /\ stamp[r] # Absent /\ clock' = clock
      /\ stamp' = [stamp EXCEPT ![r] = Absent]
  BY DEF Decide
<1>3. rest \in Seq(Nat) /\ WindowOf(rest) /\ (Len(rest) > 0 => stamp[r] - rest[1] <= Window)
  <2>1. hits \in Seq(Nat)
    BY DEF LimiterInv, LimiterTypeOK
  <2>2. rest \in Seq(Nat)
    BY <2>1, RestType
  <2>. QED  BY <1>1, <1>2, <2>2, ExpiringKeepsWindow DEF LimiterInv
<1>4. Admit(r, rest) \/ Reject(r, rest)
  BY <1>1
<1> HIDE DEF rest
<1>5. CASE Admit(r, rest)
  <2>1. LimiterInv'
    BY <1>2, <1>3, <1>5, AdmitKeepsInv
  <2>2. log' # log
    <3>1. log \in Seq(Entry) /\ log' = Append(log, [at |-> clock, stamp |-> stamp[r]])
      BY <1>5 DEF LimiterInv, LimiterTypeOK, Admit, Entry
    <3>2. Len(log') = Len(log) + 1 /\ Len(log) \in Nat
      BY <3>1
    <3>. QED  BY <3>2
  <2>. QED  BY <2>1, <2>2
<1>6. CASE Reject(r, rest)
  BY <1>2, <1>3, <1>6, RejectIsFair
<1>. QED  BY <1>4, <1>5, <1>6

\* Time only takes hits further out of the window.
LEMMA TickKeepsInv ==
    ASSUME LimiterAssumption, LimiterInv, Tick
    PROVE  LimiterInv'
<1> USE DEF LimiterInv, Tick
<1>1. /\ clock \in Nat /\ clock' = clock + 1 /\ clock' \in 0..Horizon /\ MaxDelay \in Nat
      /\ Window \in Nat /\ log \in Seq(Entry)
      /\ stamp' = stamp /\ hits' = hits /\ log' = log /\ promise' = promise
  BY DEF LimiterTypeOK, LimiterAssumption, Entry
<1>2. LimiterTypeOK'
  BY <1>1 DEF LimiterTypeOK
<1>3. WaitingInv'
  <2> SUFFICES ASSUME NEW r \in Requests, stamp[r] # Absent
               PROVE  stamp[r] <= clock' /\ clock' - stamp[r] <= MaxDelay
    BY <1>1 DEF WaitingInv
  <2>1. stamp[r] \in Nat /\ stamp[r] <= clock /\ clock - stamp[r] < MaxDelay
    BY DEF LimiterTypeOK, WaitingInv, Absent
  <2>. QED  BY <1>1, <2>1
<1>4. \A i \in 1..Len(log) : log[i].at \in Nat /\ log[i].stamp \in Nat
  <2>1. \A i \in 1..Len(log) : log[i] \in Entry
    BY <1>1
  <2>. QED  BY <2>1 DEF Entry
<1>5. LogInv'
  BY <1>1, <1>4 DEF LogInv
<1>6. HitsInv'
  <2> SUFFICES ASSUME NEW i \in 1..(Len(log) - Len(hits))
               PROVE  clock' - log[i].stamp > Window
    BY <1>1 DEF HitsInv, WindowOf
  <2>1. i \in 1..Len(log)
    <3>1. Len(log) \in Nat /\ Len(hits) \in Nat
      BY <1>1 DEF LimiterTypeOK
    <3>. QED  BY <3>1
  <2>2. clock - log[i].stamp > Window
    BY DEF HitsInv, WindowOf
  <2>. QED  BY <1>1, <1>4, <2>1, <2>2
<1>7. PromiseInv' /\ BurstBound'
  BY <1>1 DEF PromiseInv, BurstBound
<1>. QED  BY <1>2, <1>3, <1>5, <1>6, <1>7

LEMMA ArriveKeepsInv ==
    ASSUME LimiterAssumption, LimiterInv, NEW r \in Requests, Arrive(r)
    PROVE  LimiterInv'
<1> USE DEF LimiterInv, Arrive
<1>1. LimiterTypeOK'
  BY DEF LimiterTypeOK
<1>2. WaitingInv'
  BY DEF WaitingInv, LimiterTypeOK, LimiterAssumption
<1>3. LogInv' /\ HitsInv' /\ PromiseInv' /\ BurstBound'
  BY DEF LogInv, HitsInv, WindowOf, PromiseInv, BurstBound
<1>. QED  BY <1>1, <1>2, <1>3

LEMMA LimiterInvariant == LimiterSpec => []LimiterInv
<1> USE LimiterAssumption
<1>1. LimiterInit => LimiterInv
  BY DEF LimiterInit, LimiterAssumption, LimiterInv, LimiterTypeOK, WaitingInv, LogInv, HitsInv,
         WindowOf, PromiseInv, BurstBound, Absent
<1>2. LimiterInv /\ [LimiterNext]_limiterVars => LimiterInv'
  <2> SUFFICES ASSUME LimiterInv, [LimiterNext]_limiterVars PROVE LimiterInv'
    OBVIOUS
  <2>1. CASE Tick
    BY <2>1, TickKeepsInv
  <2>2. ASSUME NEW r \in Requests, Arrive(r) PROVE LimiterInv'
    BY <2>2, ArriveKeepsInv
  <2>3. ASSUME NEW r \in Requests, Decide(r) PROVE LimiterInv'
    BY <2>3, DecideIsFair
  <2>4. CASE UNCHANGED limiterVars
    BY <2>4 DEF limiterVars, LimiterInv, LimiterTypeOK, WaitingInv, LogInv, HitsInv,
                WindowOf, PromiseInv, BurstBound
  <2>. QED  BY <2>1, <2>2, <2>3, <2>4 DEF LimiterNext
<1>. QED  BY <1>1, <1>2, PTL DEF LimiterSpec

-------------------------------------------------------------------------------
\* No MaxRequests + 1 uploads in a row come in within a window, save for the time
\* they waited: for any number of requests, and in any order of their stamps.
THEOREM BurstBoundHolds == LimiterSpec => []BurstBound
<1>1. LimiterInv => BurstBound
  BY DEF LimiterInv
<1>. QED  BY <1>1, LimiterInvariant, PTL

\* A rejection has its reason, and the Retry-After of the last one was enough.
THEOREM RejectionIsFairHolds == LimiterSpec => RejectionIsFair
<1> USE LimiterAssumption
<1> DEFINE Fair == \A r \in Requests : stamp[r] # Absent /\ stamp'[r] = Absent /\ log' = log =>
                     /\ Len(log) >= MaxRequests
                     /\ \A i \in (Len(log) - MaxRequests + 1)..Len(log) :
                           stamp[r] - log[i].at <= Window
                     /\ promise.admitted = Len(log) => stamp[r] < promise.until
<1>1. LimiterInv /\ [LimiterNext]_limiterVars => [Fair]_limiterVars
  <2> SUFFICES ASSUME LimiterInv, LimiterNext,
                      NEW r \in Requests, stamp[r] # Absent, stamp'[r] = Absent, log' = log
               PROVE  /\ Len(log) >= MaxRequests
                      /\ \A i \in (Len(log) - MaxRequests + 1)..Len(log) :
                            stamp[r] - log[i].at <= Window
                      /\ promise.admitted = Len(log) => stamp[r] < promise.until
    OBVIOUS
  <2>1. stamp \in [Requests -> 0..Horizon \cup {Absent}]
    BY DEF LimiterInv, LimiterTypeOK
  <2>2. ~Tick
    BY DEF Tick
  <2>3. ASSUME NEW q \in Requests, Arrive(q) PROVE FALSE
    BY <2>1, <2>3 DEF Arrive, LimiterInv, LimiterTypeOK, Absent
  <2>4. ASSUME NEW q \in Requests, Decide(q) PROVE q = r
    BY <2>1, <2>4 DEF Decide
  <2>5. Decide(r)
    BY <2>2, <2>3, <2>4 DEF LimiterNext
  <2>. QED  BY <2>5, DecideIsFair
<1>2. LimiterSpec => []LimiterInv
  BY LimiterInvariant
<1>. QED  BY <1>1, <1>2, PTL DEF LimiterSpec, RejectionIsFair
===============================================================================
