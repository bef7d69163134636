----------------------------- MODULE MCJobRequest -----------------------------
(***************************************************************************)
(* Small texts for TLC.  Written: environments of the controller with      *)
(* whatever may be wrong in each part of them.  Options: those the NixOS   *)
(* module accepts.  Routes: every way to name a worker and relays, with    *)
(* one job.  Jobs: every job, by one of the routes.                        *)
(***************************************************************************)
EXTENDS JobRequestCheck, TLC

CONSTANTS k0, k1, stranger, requester

MCWorkers == <<k0, k1>>

Spelled == "0" :> 0 @@ "1" :> 1 @@ "2" :> 2 @@ "3" :> 3 @@ "4" :> 4 @@ "5" :> 5 @@ "6" :> 6
           @@ "7" :> 7 @@ "8" :> 8 @@ "9" :> 9 @@ "99" :> 99

MCAtoms ==
  {",", ":", " ", "/", "//", "near", "far", "nix", "2.24", "bin", "x", "https", "mint", "sat",
   "usd", "1.5"} \cup DOMAIN Spelled

MCNumeral(atom) == IF atom \in DOMAIN Spelled THEN Spelled[atom] ELSE None

MCDecimal(n) == <<CHOOSE atom \in DOMAIN Spelled : Spelled[atom] = n>>
-----------------------------------------------------------------------------
Near == <<"near">>
Far  == <<"far">>
Tool == [name |-> <<"nix">>, version |-> <<"2.24">>, path |-> <<"/", "bin", ":", "x">>]
Fair == <<"https", ":", "//", "mint", ":", "2", ":", "sat">>
Mint == <<"https", ":", "//", "mint">>

MintUrls  == {Mint, Mint \o <<":", "3">>}
Units     == {<<"sat">>, <<"usd">>}
Prices    == {<<>>, <<"0">>, <<"2">>, <<" ", "2">>, <<"99">>, <<"1.5">>}
Durations == {None, <<"0">>, <<"1">>, <<"2">>, <<"8">>, <<"x">>}

Environment(relays, software, prices, least, most, timeout) ==
  [NOSTR_RELAYS |-> relays, WORKER_SOFTWARE |-> software, WORKER_PRICES |-> prices,
   WORKER_MIN_DURATION |-> least, WORKER_MAX_DURATION |-> most, JOB_TIMEOUT |-> timeout]

Entries ==
  {Join(<<m, p, u>>, ":") :
     m \in MintUrls \cup {<<>>, <<"mint">>}, p \in Prices, u \in Units \cup {<<>>, <<"sat", " ">>}}
  \cup {Join(<<m, p>>, ":") : m \in MintUrls \cup {<<>>, <<"mint">>}, p \in Prices}

Lists ==
  {None, <<>>} \cup Entries \cup {Join(<<e, f>>, ",") : e \in Entries, f \in {<<>>, <<" ">>, Fair}}

Both == <<"near", ",", " ", "far">>
Nix  == WorkerSoftware(<<Tool>>)

Written ==
  {Environment(r, s, p, None, None, None) :
     r \in {None, <<>>, Near}, s \in {None, Nix, <<"nix">>}, p \in Lists}
  \cup {Environment(Near, Nix, Fair, least, most, t) :
          least \in Durations, most \in Durations, t \in Durations}

OnePrice == [mintUrl : MintUrls, pricePerSecond : {1, 2}, unit : Units]

\* The module asserts that the minimum is no more than the maximum.
Options ==
  {o \in [relays : {<<Near>>, <<Far, Near>>}, workerSoftware : {<<Tool>>, <<Tool, Tool>>},
          workerPrices : {<<p>> : p \in OnePrice} \cup (OnePrice \X OnePrice),
          workerMinDuration : 1..3, workerMaxDuration : 1..3, jobTimeout : {2}] :
     o.workerMinDuration <= o.workerMaxDuration}

ASSUME OptionsAssumption == \A o \in Options : Plain(o)
-----------------------------------------------------------------------------
Profile(key) == [pubkey |-> key, relays |-> {Near, Far}]
Hex(key)     == [pubkey |-> key, relays |-> {}]

JobEnv(argument, nprofile, hex, relays, only) ==
  [argument |-> argument, WORKER_NPROFILE |-> nprofile, WORKER_PUBKEY |-> hex,
   NOSTR_RELAYS |-> relays, NOSTR_RELAYS_ONLY |-> only,
   REQUESTER_NSEC |-> requester, PAYMENT_TOKEN |-> <<"token">>,
   JOB_REPO |-> <<"https://", "repo">>, JOB_REF |-> None, JOB_WORKFLOW |-> <<"ci">>,
   JOB_NAME |-> <<"test">>, JOB_EVENT |-> None, JOB_EVENT_PAYLOAD |-> None]

Routes ==
  {JobEnv(a, n, h, r, o) :
     a \in {None, NotJson, Profile(k1)}, n \in {None, Profile(k0)},
     h \in {None, Hex(k0), Hex(stranger)},
     r \in {None, <<>>, <<"third">>, <<"near", ",", " ", "third">>}, o \in BOOLEAN}

Direct == JobEnv(None, None, Hex(k1), Near, FALSE)

Jobs ==
  {[Direct
      EXCEPT !.JOB_REPO = repo, !.JOB_REF = ref, !.JOB_WORKFLOW = workflow,
             !.JOB_EVENT = event, !.JOB_EVENT_PAYLOAD = payload, !.PAYMENT_TOKEN = token] :
     repo \in {None, <<"nostr://">>, <<" ", "nostr://", "repo">>, <<"git@host">>},
     ref \in {None, <<>>, <<"v1">>}, workflow \in {<<" ">>, <<"ci">>},
     event \in {None, <<>>, <<"pull">>}, payload \in {None, NotJson, <<"after">>},
     token \in {None, <<" ">>, <<"token", " ">>}}
-----------------------------------------------------------------------------
MCStarts ==
  {[options |-> None, env |-> e, job_env |-> Direct] : e \in Written}
  \cup {[options |-> o, env |-> BaseEnvironment(o), job_env |-> Direct] : o \in Options}
  \cup {[options |-> None, job_env |-> j,
         env |-> Environment(Both, Nix, Fair, None, None, <<"2">>)] : j \in Routes \cup Jobs}
=============================================================================
