-------------------------------- MODULE Ingest --------------------------------
(***************************************************************************)
(* How a recording becomes a call (ingestion/service.py), whichever        *)
(* source it comes from: uploads (app/routes/ingest.py), a watched folder  *)
(* and a polled CRM (ingestion/adapters/).  Webhooks retry and folders and *)
(* CRMs are polled again, so that a recording is delivered any number of   *)
(* times, by several processes at once, under any file name.               *)
(*                                                                         *)
(* A delivery is one transaction.  Its INSERT waits for another            *)
(* transaction that has inserted the same idempotency key, until that one  *)
(* commits (then it does nothing) or is rolled back (then it goes on): the *)
(* unique index of Postgres, external.  Nobody waits for more than one.    *)
(* Advisors and the metadata of the call are left out: the first delivery  *)
(* decides on them.                                                        *)
(***************************************************************************)
EXTENDS Naturals, Sequences

CONSTANTS Recordings,    \* audio contents
          Playable,      \* those that ffprobe takes for audio
          Sources,       \* folder, rest, crm
          Deliverers,    \* processes that deliver, one recording at a time
          MaxDeliveries, \* bound: deliveries
          MaxAborts      \* bound: deliveries that are cut off

ASSUME IngestAssumption ==
    /\ Playable \subseteq Recordings
    /\ MaxDeliveries \in Nat
    /\ MaxAborts \in Nat

VARIABLES
    calls,      \* the rows of calls, by id
    jobs,       \* the rows of processing_jobs: call and stage
    audit,      \* the rows of audit_log: action and entity
    delivery,   \* what each deliverer is about
    answers,    \* the IngestResults that were given, each with its delivery
    deliveries, \* how many deliveries there were
    aborts      \* how many of them were cut off

tables == <<calls, jobs, audit>>
ingestVars == <<tables, delivery, answers, deliveries, aborts>>

Envelope == [recording : Recordings, source : Sources]

FIRST_STAGE == 1

\* The sha256 of the content, and the source: not the file name.
Key_ContentOnly(env) == env.recording
Key(env) == <<env.recording, env.source>>

Idle == [at |-> "idle"]
Probing(env) == [at |-> "probe", env |-> env]
Inserted(env) == [at |-> "inserted", env |-> env]

Rejected(env) == [env |-> env, accepted |-> FALSE, created |-> FALSE, id |-> 0]
Accepted(env, created, id) ==
    [env |-> env, accepted |-> TRUE, created |-> created, id |-> id]

IngestTypeOK ==
    /\ calls \in Seq(Envelope)
    /\ jobs \subseteq (DOMAIN calls) \X {FIRST_STAGE}
    /\ audit \subseteq ({"create_call"} \X (DOMAIN calls)) \cup ({"reject_call"} \X Recordings)
    /\ delivery \in [Deliverers -> {Idle} \cup {Probing(env) : env \in Envelope}
                                          \cup {Inserted(env) : env \in Envelope}]
    /\ answers \subseteq [env : Envelope, accepted : BOOLEAN, created : BOOLEAN, id : Nat]
    /\ deliveries \in 0..MaxDeliveries
    /\ aborts \in 0..MaxAborts

IngestInit ==
    /\ calls = <<>>
    /\ jobs = {}
    /\ audit = {}
    /\ delivery = [d \in Deliverers |-> Idle]
    /\ answers = {}
    /\ deliveries = 0
    /\ aborts = 0

-------------------------------------------------------------------------------
\* The ids of the committed rows with this key; there is at most one.
Stored(k) == {i \in DOMAIN calls : Key(calls[i]) = k}

\* The key is that of a row that another transaction has not committed yet.
Held_Ignored(k) == FALSE
Held(k) == \E d \in Deliverers : delivery[d].at = "inserted" /\ Key(delivery[d].env) = k

\* enqueue of the first stage, ON CONFLICT DO NOTHING.
Enqueued(id) == jobs \cup {<<id, FIRST_STAGE>>}

Audited_Later(entry) == audit
\* The entry in audit_log.
Audited(entry) == audit \cup {entry}

Finish(d, answer) ==
    /\ delivery' = [delivery EXCEPT ![d] = Idle]
    /\ answers' = answers \cup {answer}
    /\ UNCHANGED <<deliveries, aborts>>

-------------------------------------------------------------------------------
\* An adapter reads the file and builds its envelope.
Deliver(d, env) ==
    /\ delivery[d] = Idle
    /\ deliveries < MaxDeliveries
    /\ deliveries' = deliveries + 1
    /\ delivery' = [delivery EXCEPT ![d] = Probing(env)]
    /\ UNCHANGED <<tables, answers, aborts>>

\* ffprobe does not take it, or does not answer in time, which may happen to any
\* recording: the rejection is written to the audit log and committed.
RejectCall(d) ==
    /\ delivery[d].at = "probe"
    /\ audit' = Audited(<<"reject_call", delivery[d].env.recording>>)
    /\ UNCHANGED <<calls, jobs>>
    /\ Finish(d, Rejected(delivery[d].env))

\* The INSERT goes through, uncommitted.
Insert(d) ==
    LET env == delivery[d].env
    IN  /\ delivery[d].at = "probe"
        /\ env.recording \in Playable
        /\ ~Held(Key(env))
        /\ Stored(Key(env)) = {}
        /\ delivery' = [delivery EXCEPT ![d] = Inserted(env)]
        /\ UNCHANGED <<tables, answers, deliveries, aborts>>

\* The INSERT does nothing, and the SELECT that follows finds the row.
Duplicate(d) ==
    LET env == delivery[d].env
    IN  /\ delivery[d].at = "probe"
        /\ env.recording \in Playable
        /\ ~Held(Key(env))
        /\ \E id \in Stored(Key(env)) : Finish(d, Accepted(env, FALSE, id))
        /\ UNCHANGED tables

\* The call, its first job and its audit entry become visible together.
Commit(d) ==
    LET env == delivery[d].env
        id  == Len(calls) + 1
    IN  /\ delivery[d].at = "inserted"
        /\ calls' = Append(calls, env)
        /\ jobs' = Enqueued(id)
        /\ audit' = Audited(<<"create_call", id>>)
        /\ Finish(d, Accepted(env, TRUE, id))

\* The process stops, or the database is gone: the transaction is rolled back
\* and nobody gets an answer.
Abort(d) ==
    /\ delivery[d] # Idle
    /\ aborts < MaxAborts
    /\ aborts' = aborts + 1
    /\ delivery' = [delivery EXCEPT ![d] = Idle]
    /\ UNCHANGED <<tables, answers, deliveries>>

IngestNext ==
    \/ \E d \in Deliverers, env \in Envelope : Deliver(d, env)
    \/ \E d \in Deliverers : RejectCall(d)
    \/ \E d \in Deliverers : Insert(d)
    \/ \E d \in Deliverers : Duplicate(d)
    \/ \E d \in Deliverers : Commit(d)
    \/ \E d \in Deliverers : Abort(d)

IngestSpec == IngestInit /\ [][IngestNext]_ingestVars

-------------------------------------------------------------------------------
\* "double delivery dissolves into one row" (service.py, docstring): however
\* deliveries overlap and break off, a recording is one call of its source.
OneCallPerRecording ==
    \A i, j \in DOMAIN calls : calls[i] = calls[j] => i = j

\* What a caller was told is so for good: an accepted recording, created or
\* duplicate, is the call of that id, from that very source, and has its job.
\* An id of a transaction that was rolled back is never given away.
AcceptedIsQueued ==
    \A a \in answers : a.accepted =>
        /\ a.id \in DOMAIN calls
        /\ calls[a.id] = a.env
        /\ <<a.id, FIRST_STAGE>> \in jobs

\* The audit log tells of every call how it came in, and of every rejection
\* (service.py, _audit, in the transaction that it tells about).
AuditIsComplete ==
    /\ \A i \in DOMAIN calls : <<"create_call", i>> \in audit
    /\ \A a \in answers : ~a.accepted => <<"reject_call", a.env.recording>> \in audit
===============================================================================
