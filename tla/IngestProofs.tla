----------------------------- MODULE IngestProofs -----------------------------
(***************************************************************************)
(* What holds of ingestion for any recordings, sources and deliverers, and *)
(* any number of deliveries and interruptions.                             *)
(***************************************************************************)
EXTENDS Ingest, TLAPS

Uncommitted(d) == delivery[d].at = "inserted"

\* What the unique index keeps apart: no two uncommitted rows have the same key,
\* and none has that of a committed row.
KeyInv ==
    /\ \A d, e \in Deliverers :
          Uncommitted(d) /\ Uncommitted(e) /\ Key(delivery[d].env) = Key(delivery[e].env)
          => d = e
    /\ \A d \in Deliverers : Uncommitted(d) => Stored(Key(delivery[d].env)) = {}

-------------------------------------------------------------------------------
\* A row has the key of its own recording and source, and of no other.
LEMMA KeyIsInjective ==
    ASSUME NEW e \in Envelope, NEW f \in Envelope, Key(e) = Key(f)
    PROVE  e = f
BY DEF Envelope, Key

\* What a deliverer is about is an envelope.
LEMMA DeliveredType ==
    ASSUME IngestTypeOK, NEW d \in Deliverers, delivery[d].at # "idle"
    PROVE  /\ delivery[d].env \in Envelope
           /\ delivery[d] \in [at : {"probe", "inserted"}, env : Envelope]
<1>1. delivery[d] \in {Idle} \cup {Probing(env) : env \in Envelope}
                             \cup {Inserted(env) : env \in Envelope}
  BY DEF IngestTypeOK
<1>2. delivery[d] # Idle
  BY DEF Idle
<1>3. CASE \E env \in Envelope : delivery[d] = Probing(env)
  BY <1>3 DEF Probing
<1>4. CASE \E env \in Envelope : delivery[d] = Inserted(env)
  BY <1>4 DEF Inserted
<1>. QED  BY <1>1, <1>2, <1>3, <1>4

\* A row that is appended has the next id, and the others keep theirs.
LEMMA Appended ==
    ASSUME IngestTypeOK, NEW env \in Envelope, calls' = Append(calls, env)
    PROVE  /\ calls' \in Seq(Envelope)
           /\ Len(calls) \in Nat
           /\ DOMAIN calls = 1..Len(calls)
           /\ DOMAIN calls' = 1..(Len(calls) + 1)
           /\ \A i \in DOMAIN calls : calls'[i] = calls[i]
           /\ calls'[Len(calls) + 1] = env
BY DEF IngestTypeOK

\* A delivery that ends leaves an answer, and an idle deliverer.
LEMMA FinishType ==
    ASSUME IngestTypeOK, NEW d \in Deliverers, NEW env \in Envelope,
           NEW accepted \in BOOLEAN, NEW created \in BOOLEAN, NEW id \in Nat,
           Finish(d, [env |-> env, accepted |-> accepted, created |-> created, id |-> id])
    PROVE  /\ delivery' \in [Deliverers -> {Idle} \cup {Probing(e) : e \in Envelope}
                                                \cup {Inserted(e) : e \in Envelope}]
           /\ answers' \subseteq [env : Envelope, accepted : BOOLEAN,
                                  created : BOOLEAN, id : Nat]
           /\ deliveries' \in 0..MaxDeliveries
           /\ aborts' \in 0..MaxAborts
BY DEF IngestTypeOK, Finish

\* The variables keep their types.
THEOREM TypeCorrect == IngestSpec => []IngestTypeOK
<1>1. IngestInit => IngestTypeOK
  BY IngestAssumption DEF IngestInit, IngestTypeOK
<1>2. ASSUME IngestTypeOK, [IngestNext]_ingestVars PROVE IngestTypeOK'
  <2>. USE <1>2, IngestAssumption
  <2>1. ASSUME NEW d \in Deliverers, NEW env \in Envelope, Deliver(d, env) PROVE IngestTypeOK'
    BY <2>1 DEF IngestTypeOK, Deliver, tables
  <2>2. ASSUME NEW d \in Deliverers, RejectCall(d) PROVE IngestTypeOK'
    <3>1. delivery[d].env \in Envelope
      BY <2>2, DeliveredType DEF RejectCall
    <3>2. delivery[d].env.recording \in Recordings
      BY <3>1 DEF Envelope
    <3>3. Finish(d, [env |-> delivery[d].env, accepted |-> FALSE, created |-> FALSE, id |-> 0])
      BY <2>2 DEF RejectCall, Rejected
    <3>4. calls' = calls /\ jobs' = jobs
      BY <2>2 DEF RejectCall
    <3>5. audit' \subseteq ({"create_call"} \X (DOMAIN calls)) \cup ({"reject_call"} \X Recordings)
      BY <2>2, <3>2 DEF IngestTypeOK, RejectCall, Audited
    <3>. QED  BY <3>1, <3>3, <3>4, <3>5, FinishType DEF IngestTypeOK
  <2>3. ASSUME NEW d \in Deliverers, Insert(d) PROVE IngestTypeOK'
    <3>1. delivery[d].env \in Envelope
      BY <2>3, DeliveredType DEF Insert
    <3>. QED  BY <2>3, <3>1 DEF IngestTypeOK, Insert, tables
  <2>4. ASSUME NEW d \in Deliverers, Duplicate(d) PROVE IngestTypeOK'
    <3>1. delivery[d].env \in Envelope
      BY <2>4, DeliveredType DEF Duplicate
    <3>2. PICK id \in Stored(Key(delivery[d].env)) :
                Finish(d, [env |-> delivery[d].env, accepted |-> TRUE, created |-> FALSE, id |-> id])
      BY <2>4 DEF Duplicate, Accepted
    <3>3. id \in Nat
      BY DEF IngestTypeOK, Stored
    <3>. QED  BY <2>4, <3>1, <3>2, <3>3, FinishType DEF IngestTypeOK, Duplicate, tables
  <2>5. ASSUME NEW d \in Deliverers, Commit(d) PROVE IngestTypeOK'
    <3>1. delivery[d].env \in Envelope
      BY <2>5, DeliveredType DEF Commit
    <3>2. calls' = Append(calls, delivery[d].env)
      BY <2>5 DEF Commit
    <3>3. Finish(d, [env |-> delivery[d].env, accepted |-> TRUE, created |-> TRUE,
                     id |-> Len(calls) + 1])
      BY <2>5 DEF Commit, Accepted
    <3>4. /\ jobs' = jobs \cup {<<Len(calls) + 1, FIRST_STAGE>>}
          /\ audit' = audit \cup {<<"create_call", Len(calls) + 1>>}
      BY <2>5 DEF Commit, Enqueued, Audited
    <3>5. /\ calls' \in Seq(Envelope)
          /\ Len(calls) + 1 \in DOMAIN calls'
          /\ DOMAIN calls \subseteq DOMAIN calls'
      BY <3>1, <3>2, Appended
    <3>6. Len(calls) + 1 \in Nat
      BY <3>1, <3>2, Appended
    <3>7. jobs' \subseteq (DOMAIN calls') \X {FIRST_STAGE}
      BY <3>4, <3>5 DEF IngestTypeOK
    <3>8. audit' \subseteq ({"create_call"} \X (DOMAIN calls')) \cup ({"reject_call"} \X Recordings)
      BY <3>4, <3>5 DEF IngestTypeOK
    <3>. QED  BY <3>1, <3>3, <3>5, <3>6, <3>7, <3>8, FinishType DEF IngestTypeOK
  <2>6. ASSUME NEW d \in Deliverers, Abort(d) PROVE IngestTypeOK'
    BY <2>6 DEF IngestTypeOK, Abort, tables
  <2>7. CASE UNCHANGED ingestVars
    BY <2>7 DEF ingestVars, tables, IngestTypeOK
  <2>. QED  BY <2>1, <2>2, <2>3, <2>4, <2>5, <2>6, <2>7 DEF IngestNext
<1>. QED  BY <1>1, <1>2, PTL DEF IngestSpec

-------------------------------------------------------------------------------
(***************************************************************************)
(* One call per recording.                                                 *)
(***************************************************************************)

UniqueInv == KeyInv /\ OneCallPerRecording

\* A step that adds no row and leaves no more of them uncommitted keeps the keys
\* apart.
LEMMA NothingInserted ==
    ASSUME UniqueInv, calls' = calls,
           \A d \in Deliverers :
              Uncommitted(d)' => Uncommitted(d) /\ delivery'[d].env = delivery[d].env
    PROVE  UniqueInv'
BY DEF UniqueInv, KeyInv, OneCallPerRecording, Stored, Key

\* Every deliverer is about something.
LEMMA DeliveryDomain ==
    ASSUME IngestTypeOK
    PROVE  DOMAIN delivery = Deliverers
BY DEF IngestTypeOK

LEMMA UniqueStep == UniqueInv /\ IngestTypeOK /\ [IngestNext]_ingestVars => UniqueInv'
<1>. SUFFICES ASSUME UniqueInv, IngestTypeOK, [IngestNext]_ingestVars PROVE UniqueInv'
  OBVIOUS
<1>1. ASSUME NEW d \in Deliverers, NEW env \in Envelope, Deliver(d, env) PROVE UniqueInv'
  <2>1. delivery'[d] = Probing(env) /\ \A e \in Deliverers \ {d} : delivery'[e] = delivery[e]
    BY <1>1, DeliveryDomain DEF Deliver
  <2>. QED  BY <1>1, <2>1, NothingInserted DEF Deliver, Probing, tables, Uncommitted
<1>2. ASSUME NEW d \in Deliverers, NEW answer, Finish(d, answer), calls' = calls
      PROVE  UniqueInv'
  <2>1. delivery'[d] = Idle /\ \A e \in Deliverers \ {d} : delivery'[e] = delivery[e]
    BY <1>2, DeliveryDomain DEF Finish
  <2>. QED  BY <1>2, <2>1, NothingInserted DEF Idle, Uncommitted
<1>3. ASSUME NEW d \in Deliverers, Insert(d) PROVE UniqueInv'
  <2>. DEFINE env == delivery[d].env
  <2>1. delivery'[d] = Inserted(env) /\ \A e \in Deliverers \ {d} : delivery'[e] = delivery[e]
    BY <1>3, DeliveryDomain DEF Insert
  <2>2. calls' = calls
    BY <1>3 DEF Insert, tables
  <2>3. \A e \in Deliverers \ {d} : Uncommitted(e) => Key(delivery[e].env) # Key(env)
    BY <1>3 DEF Insert, Held, Uncommitted
  <2>4. Stored(Key(env)) = {}
    BY <1>3 DEF Insert
  <2>5. delivery'[d].env = env
    BY <2>1 DEF Inserted
  <2>6. ASSUME NEW e \in Deliverers, NEW f \in Deliverers, Uncommitted(e)', Uncommitted(f)',
               Key(delivery'[e].env) = Key(delivery'[f].env)
        PROVE  e = f
    BY <2>1, <2>3, <2>5, <2>6 DEF UniqueInv, KeyInv, Uncommitted
  <2>7. ASSUME NEW e \in Deliverers, Uncommitted(e)'
        PROVE  (Stored(Key(delivery[e].env)) = {})'
    <3>1. Stored(Key(delivery'[e].env)) = {}
      BY <2>1, <2>4, <2>5, <2>7 DEF UniqueInv, KeyInv, Uncommitted
    <3>. QED  BY <2>2, <3>1 DEF Stored, Key
  <2>. QED  BY <2>2, <2>6, <2>7 DEF UniqueInv, KeyInv, OneCallPerRecording, Key
<1>4. ASSUME NEW d \in Deliverers, Commit(d) PROVE UniqueInv'
  <2>. DEFINE env == delivery[d].env
  <2>1. env \in Envelope /\ calls' = Append(calls, env)
    BY <1>4, DeliveredType DEF Commit
  <2>2. delivery'[d] = Idle /\ \A e \in Deliverers \ {d} : delivery'[e] = delivery[e]
    BY <1>4, DeliveryDomain DEF Commit, Finish
  <2>3. \A i \in DOMAIN calls : calls[i] # env
    BY <1>4 DEF Commit, UniqueInv, KeyInv, Uncommitted, Stored
  <2>4. \A e \in Deliverers \ {d} : Uncommitted(e) => Key(delivery[e].env) # Key(env)
    BY <1>4 DEF Commit, UniqueInv, KeyInv, Uncommitted
  <2>5. OneCallPerRecording'
    BY <2>1, <2>3, Appended DEF UniqueInv, OneCallPerRecording
  <2>6. ASSUME NEW e \in Deliverers, Uncommitted(e)'
        PROVE  (Stored(Key(delivery[e].env)) = {})'
    <3>1. e # d /\ Uncommitted(e) /\ delivery'[e] = delivery[e]
      BY <2>2, <2>6 DEF Idle, Uncommitted
    <3>2. Stored(Key(delivery[e].env)) = {}
      BY <3>1 DEF UniqueInv, KeyInv
    <3>3. \A i \in DOMAIN calls' : Key(calls'[i]) # Key(delivery[e].env)
      BY <2>1, <2>4, <3>1, <3>2, Appended DEF Stored
    <3>. QED  BY <3>1, <3>3 DEF Stored
  <2>7. ASSUME NEW e \in Deliverers, NEW f \in Deliverers, Uncommitted(e)', Uncommitted(f)',
               Key(delivery'[e].env) = Key(delivery'[f].env)
        PROVE  e = f
    BY <2>2, <2>7 DEF Idle, UniqueInv, KeyInv, Uncommitted
  <2>. QED  BY <2>5, <2>6, <2>7 DEF UniqueInv, KeyInv
<1>5. ASSUME NEW d \in Deliverers, Abort(d) PROVE UniqueInv'
  <2>1. delivery'[d] = Idle /\ \A e \in Deliverers \ {d} : delivery'[e] = delivery[e]
    BY <1>5, DeliveryDomain DEF Abort
  <2>. QED  BY <1>5, <2>1, NothingInserted DEF Abort, Idle, tables, Uncommitted
<1>6. CASE UNCHANGED ingestVars
  BY <1>6, NothingInserted DEF ingestVars, tables, Uncommitted
<1>7. ASSUME NEW d \in Deliverers, RejectCall(d) PROVE UniqueInv'
  BY <1>7, <1>2 DEF RejectCall
<1>8. ASSUME NEW d \in Deliverers, Duplicate(d) PROVE UniqueInv'
  BY <1>8, <1>2 DEF Duplicate, tables
<1>. QED  BY <1>1, <1>3, <1>4, <1>5, <1>6, <1>7, <1>8 DEF IngestNext

\* However deliveries overlap and break off, a recording is one call of its source
\* (service.py, ingest: ON CONFLICT (idempotency_key) DO NOTHING).
THEOREM OneCallPerRecordingHolds == IngestSpec => []OneCallPerRecording
<1>1. IngestInit => UniqueInv
  BY DEF IngestInit, UniqueInv, KeyInv, OneCallPerRecording, Uncommitted, Idle
<1>2. UniqueInv => OneCallPerRecording
  BY DEF UniqueInv
<1>. QED  BY <1>1, <1>2, UniqueStep, TypeCorrect, PTL DEF IngestSpec

-------------------------------------------------------------------------------
(***************************************************************************)
(* What callers were told, and what the audit log tells.                   *)
(***************************************************************************)

JobsInv == \A i \in DOMAIN calls : <<i, FIRST_STAGE>> \in jobs

ToldInv == JobsInv /\ AcceptedIsQueued /\ AuditIsComplete

\* A step that touches neither tables nor answers.
LEMMA NothingTold ==
    ASSUME ToldInv, UNCHANGED <<tables, answers>>
    PROVE  ToldInv'
BY DEF ToldInv, tables, JobsInv, AcceptedIsQueued, AuditIsComplete

LEMMA ToldStep == ToldInv /\ IngestTypeOK /\ [IngestNext]_ingestVars => ToldInv'
<1>. SUFFICES ASSUME ToldInv, IngestTypeOK, [IngestNext]_ingestVars PROVE ToldInv'
  OBVIOUS
<1>1. ASSUME NEW d \in Deliverers, RejectCall(d) PROVE ToldInv'
  BY <1>1 DEF RejectCall, Finish, Rejected, Audited, ToldInv, JobsInv, AcceptedIsQueued,
              AuditIsComplete
<1>2. ASSUME NEW d \in Deliverers, Duplicate(d) PROVE ToldInv'
  <2>. DEFINE env == delivery[d].env
  <2>1. PICK id \in Stored(Key(env)) : answers' = answers \cup {Accepted(env, FALSE, id)}
    BY <1>2 DEF Duplicate, Finish
  <2>2. UNCHANGED tables
    BY <1>2 DEF Duplicate
  <2>3. env \in Envelope /\ id \in DOMAIN calls /\ calls[id] \in Envelope
    BY <1>2, DeliveredType DEF Duplicate, Stored, IngestTypeOK
  <2>4. calls[id] = env
    BY <2>3, KeyIsInjective DEF Stored
  <2>5. AcceptedIsQueued'
    BY <2>1, <2>2, <2>3, <2>4 DEF tables, Accepted, ToldInv, JobsInv, AcceptedIsQueued
  <2>6. AuditIsComplete'
    BY <2>1, <2>2 DEF tables, Accepted, ToldInv, AuditIsComplete
  <2>. QED  BY <2>2, <2>5, <2>6 DEF tables, ToldInv, JobsInv
<1>3. ASSUME NEW d \in Deliverers, Commit(d) PROVE ToldInv'
  <2>. DEFINE env == delivery[d].env
              id  == Len(calls) + 1
  <2>1. env \in Envelope /\ calls' = Append(calls, env)
    BY <1>3, DeliveredType DEF Commit
  <2>2. /\ jobs' = jobs \cup {<<id, FIRST_STAGE>>}
        /\ audit' = audit \cup {<<"create_call", id>>}
        /\ answers' = answers \cup {Accepted(env, TRUE, id)}
    BY <1>3 DEF Commit, Enqueued, Audited, Finish
  <2>3. /\ DOMAIN calls' = DOMAIN calls \cup {id}
        /\ id \notin DOMAIN calls
        /\ \A i \in DOMAIN calls : calls'[i] = calls[i]
        /\ calls'[id] = env
    BY <2>1, Appended
  <2>4. JobsInv'
    BY <2>2, <2>3 DEF ToldInv, JobsInv
  <2>5. AcceptedIsQueued'
    BY <2>2, <2>3 DEF Accepted, ToldInv, AcceptedIsQueued
  <2>6. AuditIsComplete'
    BY <2>2, <2>3 DEF Accepted, ToldInv, AuditIsComplete
  <2>. QED  BY <2>4, <2>5, <2>6 DEF ToldInv
<1>4. ASSUME NEW d \in Deliverers, NEW env \in Envelope, Deliver(d, env) PROVE ToldInv'
  BY <1>4, NothingTold DEF Deliver
<1>5. ASSUME NEW d \in Deliverers, Insert(d) \/ Abort(d) PROVE ToldInv'
  BY <1>5, NothingTold DEF Insert, Abort
<1>6. CASE UNCHANGED ingestVars
  BY <1>6, NothingTold DEF ingestVars
<1>. QED  BY <1>1, <1>2, <1>3, <1>4, <1>5, <1>6 DEF IngestNext

LEMMA ToldInvariant == IngestSpec => []ToldInv
<1>1. IngestInit => ToldInv
  BY DEF IngestInit, ToldInv, JobsInv, AcceptedIsQueued, AuditIsComplete
<1>. QED  BY <1>1, ToldStep, TypeCorrect, PTL DEF IngestSpec

\* Whoever was told that a recording is accepted finds its call, with its first job,
\* under the id that came with the answer (service.py, ingest).
THEOREM AcceptedIsQueuedHolds == IngestSpec => []AcceptedIsQueued
<1>1. ToldInv => AcceptedIsQueued
  BY DEF ToldInv
<1>. QED  BY <1>1, ToldInvariant, PTL

\* Every call and every rejection is in the audit log (service.py, _audit).
THEOREM AuditIsCompleteHolds == IngestSpec => []AuditIsComplete
<1>1. ToldInv => AuditIsComplete
  BY DEF ToldInv
<1>. QED  BY <1>1, ToldInvariant, PTL
===============================================================================
