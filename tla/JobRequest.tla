------------------------------ MODULE JobRequest ------------------------------
(***************************************************************************)
(* What requester and worker tell each other: the advertisement of a slot, *)
(* the request post_job makes of its environment, and the job and payment  *)
(* token the worker reads in a request (src/loom.rs, src/bin/post_job.rs,  *)
(* src/jobs.rs).  Keys stand for themselves: what is sealed for a key is   *)
(* read with it and with no other.                                         *)
(***************************************************************************)
EXTENDS Texts

CONSTANTS
  JobKind,        \* 5100
  NotJson         \* a text that is no JSON
-----------------------------------------------------------------------------
(***************************************************************************)
(* build_advertisement_event, as far as a requester goes by it.            *)
(***************************************************************************)
PriceTags(prices) ==
  [i \in DOMAIN prices |->
     <<"price", prices[i].mint_url, prices[i].price_per_second, prices[i].unit>>]

\* Mutant: the longest duration is the fallback timeout of jobs.
AdvertiseTimeout(config) ==
  PriceTags(config.prices)
  \o <<<<"min_duration", config.min_duration>>, <<"max_duration", config.job_timeout>>>>

BuildAdvertisement(config) ==
  PriceTags(config.prices)
  \o <<<<"min_duration", config.min_duration>>, <<"max_duration", config.max_duration>>>>
-----------------------------------------------------------------------------
(***************************************************************************)
(* post_job.  A target is what an nprofile or a hex key tells, the latter  *)
(* without relays, or NotJson if it is neither.                            *)
(***************************************************************************)
Target(env) ==
  OrElse(env.argument, OrElse(env.WORKER_NPROFILE, env.WORKER_PUBKEY))

EnvRelays(env) == ToSet(SplitCsv(OrElse(env.NOSTR_RELAYS, <<>>)))

Relays(env) ==
  EnvRelays(env)
  \cup IF EnvRelays(env) = {} \/ ~env.NOSTR_RELAYS_ONLY THEN Target(env).relays ELSE {}

Payload(env) ==
  [repo |-> env.JOB_REPO, ref |-> OrElse(env.JOB_REF, <<"main">>),
   workflow |-> env.JOB_WORKFLOW, job |-> env.JOB_NAME,
   event |-> OrElse(env.JOB_EVENT, <<"push">>),
   event_payload |-> OrElse(env.JOB_EVENT_PAYLOAD, <<>>)]

\* The event and where it is sent, None if anything is missing.
PostJob(env) ==
  IF /\ Target(env) \notin {None, NotJson}
     /\ Relays(env) # {}
     /\ None \notin {env.REQUESTER_NSEC, env.PAYMENT_TOKEN, env.JOB_REPO,
                     env.JOB_WORKFLOW, env.JOB_NAME}
     /\ env.JOB_EVENT_PAYLOAD # NotJson
  THEN [relays |-> Relays(env),
        event  |-> [kind    |-> JobKind,
                    pubkey  |-> env.REQUESTER_NSEC,
                    tags    |-> <<<<"p", Target(env).pubkey>>,
                                  <<"payment", env.PAYMENT_TOKEN>>>>,
                    content |-> [sealed_for |-> Target(env).pubkey,
                                 payload    |-> Payload(env)]]]
  ELSE None
-----------------------------------------------------------------------------
EventIsAddressedTo(event, pubkey) ==
  \E i \in DOMAIN event.tags :
    Len(event.tags[i]) >= 2 /\ event.tags[i][1] = "p" /\ event.tags[i][2] = pubkey

\* The first worker the event is addressed to.
SlotForEvent(workers, event) ==
  LET i == SelectInSeq(workers, LAMBDA pubkey : EventIsAddressedTo(event, pubkey))
  IN  IF i = 0 THEN None ELSE workers[i]

\* The only payment tag of two items, unless it is blank.
ExtractPaymentToken(event) ==
  LET payments == {i \in DOMAIN event.tags : /\ Len(event.tags[i]) = 2
                                             /\ event.tags[i][1] = "payment"}
      token == Trim(event.tags[CHOOSE i \in payments : TRUE][2])
  IN  IF Cardinality(payments) = 1 /\ token # <<>> THEN token ELSE None

IsSupportedCloneUrl(repo) ==
  LET url == Trim(repo)
  IN  Len(url) > 1 /\ url[1] \in {"nostr://", "https://"}

\* Mutant: the event is not looked at.
ValidateJobButEvent(job) ==
  /\ IsSupportedCloneUrl(job.repo)
  /\ \A field \in {"ref", "workflow", "job"} : Trim(job[field]) # <<>>

ValidateJob(job) ==
  /\ IsSupportedCloneUrl(job.repo)
  /\ \A field \in {"ref", "workflow", "job", "event"} : Trim(job[field]) # <<>>

ParseJobPayload(payload) ==
  LET default == [event |-> <<"push">>, event_payload |-> None]
      job == [field \in DOMAIN payload \cup DOMAIN default |->
                IF field \in DOMAIN payload THEN payload[field] ELSE default[field]]
  IN  IF {"repo", "ref", "workflow", "job"} \subseteq DOMAIN payload /\ ValidateJob(job)
      THEN job ELSE None

DecodeJobEvent(pubkey, event) ==
  IF event.kind = JobKind /\ EventIsAddressedTo(event, pubkey)
     /\ event.content.sealed_for = pubkey
  THEN ParseJobPayload(event.content.payload)
  ELSE None
=============================================================================
