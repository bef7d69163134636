---------------------------- MODULE JobRequestCheck ----------------------------
(***************************************************************************)
(* From the controller's configuration to a job: the controller reads an   *)
(* environment that somebody wrote, or that the NixOS module made of its   *)
(* options, and advertises what it was told; a requester pays one of the   *)
(* advertised prices for some seconds and has post_job publish what its    *)
(* own environment says; the worker decodes and authorises the request.    *)
(***************************************************************************)
EXTENDS JobRequest, Settings

CONSTANTS
  Workers,        \* the keys of the pool, by slot
  Starts          \* options (None if not by the module), env and job_env to begin with

B == INSTANCE Billing

ASSUME WorkersAssumption == Workers \in Seq(ToSet(Workers))

\* The lists in an environment are texts if they are set.
AreTexts(e) ==
  \A setting \in {"NOSTR_RELAYS", "WORKER_SOFTWARE", "WORKER_PRICES"} :
    e[setting] = None \/ e[setting] \in Text

ASSUME StartsAssumption ==
  \A start \in Starts :
    /\ AreTexts(start.env)
    /\ start.options # None => start.env = BaseEnvironment(start.options)

VARIABLES
  options,        \* of the NixOS module
  env,            \* the controller's environment
  config,         \* what the controller makes of it
  job_env,        \* post_job's environment
  offer,          \* the account, amount and runtime the requester has in mind
  posted,         \* the event and where it is
  taken,          \* what the worker makes of it
  step

given == <<options, env, job_env>>
vars  == <<given, config, offer, posted, taken, step>>

\* The price list as Billing sees it.
Priced(prices) ==
  [k \in DOMAIN prices |-> [account          |-> <<prices[k].mint_url, prices[k].unit>>,
                            price_per_second |-> prices[k].price_per_second]]
-----------------------------------------------------------------------------
Init ==
  /\ \E start \in Starts :
       options = start.options /\ env = start.env /\ job_env = start.job_env
  /\ config = None /\ offer = None /\ posted = None /\ taken = None
  /\ step = "start"

ReadConfig ==
  /\ step = "start"
  /\ config' = FromLookup(env)
  /\ step' = IF config' = None THEN "rejected" ELSE "advertised"
  /\ UNCHANGED <<given, offer, posted, taken>>

\* The requester pays one of the prices for a runtime within the limits.
Choose ==
  LET advert      == BuildAdvertisement(config)
      Named(name) == {advert[i] : i \in {j \in DOMAIN advert : advert[j][1] = name}}
  IN
  /\ step = "advertised"
  /\ \E price \in Named("price"), least \in Named("min_duration"), most \in Named("max_duration") :
       \E seconds \in least[2]..most[2] :
         /\ price[3] * seconds <= MaxU64
         /\ offer' = [account |-> <<price[2], price[4]>>,
                      amount  |-> price[3] * seconds,
                      seconds |-> seconds]
  /\ step' = "paid"
  /\ UNCHANGED <<given, config, posted, taken>>

Post ==
  /\ step = "paid"
  /\ posted' = PostJob(job_env)
  /\ step' = IF posted' = None THEN "unposted" ELSE "posted"
  /\ UNCHANGED <<given, config, offer, taken>>

\* A worker that shares a relay with the requester takes the request.
Receive ==
  /\ step = "posted"
  /\ posted.relays \cap ToSet(config.relays) # {}
  /\ LET worker == SlotForEvent(Workers, posted.event)
         price  == B!FindPrice(Priced(config.prices), offer.account)
     IN  taken' = IF worker = None THEN None
                  ELSE [worker  |-> worker,
                        job     |-> DecodeJobEvent(worker, posted.event),
                        token   |-> ExtractPaymentToken(posted.event),
                        timeout |-> IF B!CoversMinimum(offer.amount, price, config.min_duration)
                                    THEN B!Timeout(offer.amount, price, config.max_duration)
                                    ELSE None]
  /\ step' = "received"
  /\ UNCHANGED <<given, config, offer, posted>>

Next == ReadConfig \/ Choose \/ Post \/ Receive

Spec == Init /\ [][Next]_vars
-----------------------------------------------------------------------------
(***************************************************************************)
(* A configuration the program starts with is one that Billing and the     *)
(* handler assume: prices that are positive and fit the integers, an       *)
(* account for each, and a minimum within the maximum, also where one of   *)
(* the two is a default.                                                   *)
(***************************************************************************)
AcceptedIsValid ==
  config # None =>
    LET prices == Priced(config.prices) IN
    /\ B!ValidPrices(prices, {prices[k].account : k \in DOMAIN prices})
    /\ B!ValidDurations(config.min_duration, config.max_duration)
    /\ \A k \in DOMAIN config.prices : config.prices[k].unit # <<>>
    /\ config.relays # <<>> /\ config.software # <<>>

\* A text that is found again between some marks.
Trimmed(text) == text # <<>> /\ text[1] # Space /\ text[Len(text)] # Space

IsField(text, marks) == text \in Text /\ Trimmed(text) /\ ToSet(text) \cap marks = {}

\* Options of the module that hold no mark where one would end a field.
Plain(o) ==
  /\ o.relays \in Seq(Text) \ {<<>>}
  /\ \A k \in DOMAIN o.relays : IsField(o.relays[k], {Comma})
  /\ o.workerSoftware \in Seq(Software) \ {<<>>}
  /\ \A k \in DOMAIN o.workerSoftware :
       /\ IsField(o.workerSoftware[k].name, {Comma, ":"})
       /\ IsField(o.workerSoftware[k].version, {Comma, ":"})
       /\ IsField(o.workerSoftware[k].path, {Comma}) /\ o.workerSoftware[k].path[1] = "/"
  /\ o.workerPrices \in Seq([mintUrl : Text, pricePerSecond : 1..MaxU64, unit : Text]) \ {<<>>}
  /\ \A k \in DOMAIN o.workerPrices :
       /\ IsField(o.workerPrices[k].mintUrl, {Comma}) /\ HasScheme(o.workerPrices[k].mintUrl)
       /\ IsField(o.workerPrices[k].unit, {Comma, ":"})
  /\ {o.workerMinDuration, o.workerMaxDuration, o.jobTimeout} \subseteq 0..MaxU64
  /\ o.workerMinDuration <= o.workerMaxDuration

(***************************************************************************)
(* What the NixOS module renders is read back as the options say, mint     *)
(* URLs with a port and paths with a colon included.                       *)
(***************************************************************************)
ModuleIsUnderstood ==
  options # None /\ Plain(options) /\ step # "start" =>
    /\ config # None
    /\ config.relays = options.relays
    /\ config.software = options.workerSoftware
    /\ config.prices = [k \in DOMAIN options.workerPrices |->
                          [mint_url         |-> options.workerPrices[k].mintUrl,
                           price_per_second |-> options.workerPrices[k].pricePerSecond,
                           unit             |-> options.workerPrices[k].unit]]
    /\ config.min_duration = options.workerMinDuration
    /\ config.max_duration = options.workerMaxDuration

NotBlank(text) == Trim(text) # <<>>

Sound ==
  /\ IsSupportedCloneUrl(job_env.JOB_REPO)
  /\ NotBlank(job_env.JOB_WORKFLOW) /\ NotBlank(job_env.JOB_NAME) /\ NotBlank(job_env.PAYMENT_TOKEN)
  /\ job_env.JOB_REF = None \/ NotBlank(job_env.JOB_REF)
  /\ job_env.JOB_EVENT = None \/ NotBlank(job_env.JOB_EVENT)

(***************************************************************************)
(* The worker takes what post_job has posted to it for what the requester  *)
(* meant: the addressed slot reads the very job and token, and refuses     *)
(* exactly the requests in which something is blank or cannot be cloned.   *)
(***************************************************************************)
TakenAsMeant ==
  taken # None =>
    /\ taken.worker = Target(job_env).pubkey
    /\ Sound  => taken.job = Payload(job_env) /\ taken.token = Trim(job_env.PAYMENT_TOKEN)
    /\ ~Sound => None \in {taken.job, taken.token}

(***************************************************************************)
(* Who pays an advertised price for a runtime within the advertised limits *)
(* is granted that runtime; where an account has several prices, who pays  *)
(* the dearest of them is granted that runtime at least.  All of the       *)
(* payment is taken to arrive: a mint's fee comes out of the runtime.      *)
(***************************************************************************)
OfferIsHonoured ==
  LET prices    == Priced(config.prices)
      PricesFor == {prices[k].price_per_second :
                      k \in {j \in DOMAIN prices : prices[j].account = offer.account}}
  IN
  taken # None /\ (\A price \in PricesFor : price * offer.seconds <= offer.amount) =>
    /\ taken.timeout \in offer.seconds..config.max_duration
    /\ (\A price \in PricesFor : price * offer.seconds = offer.amount) =>
         taken.timeout = offer.seconds
=============================================================================
