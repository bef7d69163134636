------------------------------ MODULE Settings ------------------------------
(***************************************************************************)
(* How the controller reads its configuration: Config::from_lookup with    *)
(* the lists of relays, prices and software, the numbers and their         *)
(* defaults (src/config.rs), and how the NixOS module writes it            *)
(* (nix/module.nix).  Among the atoms of a text are the marks "," ":" "//" *)
(* "/" and " ".  An error is None.                                         *)
(***************************************************************************)
EXTENDS Texts

CONSTANTS
  Atoms,            \* what texts are made of
  MaxU64,
  DefaultTimeout,   \* of JOB_TIMEOUT
  Numeral(_),       \* the number an atom spells, None if it spells none
  Decimal(_)        \* the text of a number

ASSUME SettingsAssumption == MaxU64 \in Nat \ {0} /\ DefaultTimeout \in 0..MaxU64

ASSUME AtomsAssumption == {Comma, ":"} \subseteq Atoms

\* A number is written as one atom that is no mark.
ASSUME DecimalAssumption ==
  \A n \in 0..MaxU64 :
    \E atom \in Atoms \ {Comma, Space, ":"} : Decimal(n) = <<atom>> /\ Numeral(atom) = n

Text     == Seq(Atoms)
Software == [name : Text, version : Text, path : Text]
Price    == [mint_url : Text, price_per_second : 0..MaxU64, unit : Text]
Config   == [relays : Seq(Text), software : Seq(Software), prices : Seq(Price),
             job_timeout : 0..MaxU64, min_duration : 0..MaxU64, max_duration : 0..MaxU64]

\* An error is told from everything that is no error.
ASSUME NoneAssumption ==
  /\ None \notin 0..MaxU64 /\ None \notin Text /\ None \notin Seq(Text)
  /\ None \notin Software /\ None \notin Seq(Software)
  /\ None \notin Price /\ None \notin Seq(Price) /\ None \notin Config
-----------------------------------------------------------------------------
ParseU64(text) ==
  IF Len(text) = 1 /\ Numeral(text[1]) \in 0..MaxU64 THEN Numeral(text[1]) ELSE None

\* splitn(3, ':') of what split(':') gives
FirstTwoAndRest(f) ==
  IF Len(f) < 3 THEN None ELSE <<f[1], f[2], Join(SubSeq(f, 3, Len(f)), ":")>>

\* rsplitn(3, ':')
RestAndLastTwo(f) ==
  IF Len(f) < 3 THEN None
  ELSE <<Join(SubSeq(f, 1, Len(f) - 2), ":"), f[Len(f) - 1], f[Len(f)]>>

HasScheme(text) == \E i \in 2..Len(text) : text[i - 1] = ":" /\ text[i] = "//"

\* Mutant: any number will do.
IsPriceOrZero(price) == price # None

IsPrice(price) == price # None /\ price > 0

ValidPrice(price) ==
  IF HasScheme(price.mint_url) /\ IsPrice(price.price_per_second) /\ price.unit # <<>>
  THEN price ELSE None

PriceOf(parts) ==
  IF parts = None THEN None
  ELSE ValidPrice([mint_url         |-> Trim(parts[1]),
                   price_per_second |-> ParseU64(Trim(parts[2])),
                   unit             |-> Trim(parts[3])])

ParsePrice(entry) == PriceOf(RestAndLastTwo(Split(entry, ":")))

ValidSoftware(item) == IF item.name # <<>> /\ item.version # <<>> THEN item ELSE None

\* The path is absolute as it stands, before it is trimmed.
SoftwareOf(parts) ==
  IF parts = None \/ parts[3] = <<>> \/ parts[3][1] # "/" THEN None
  ELSE ValidSoftware([name |-> Trim(parts[1]), version |-> Trim(parts[2]), path |-> Trim(parts[3])])

ParseSoftware(entry) == SoftwareOf(FirstTwoAndRest(Split(entry, ":")))

ParseEach(entries, Parse(_)) == [k \in DOMAIN entries |-> Parse(entries[k])]

\* A list with an error in it is an error, and so is an empty one.
Flawless(items) == IF items = <<>> \/ None \in ToSet(items) THEN None ELSE items

ParseList(text, Parse(_)) == Flawless(ParseEach(SplitCsv(text), Parse))

ParseOrDefault(env, key, default) == IF env[key] = None THEN default ELSE ParseU64(env[key])

JobTimeout(env) == ParseOrDefault(env, "JOB_TIMEOUT", DefaultTimeout)

\* Mutant: the durations are compared only if both are set.
InOrderIfSet(env, config) ==
  env["WORKER_MIN_DURATION"] # None /\ env["WORKER_MAX_DURATION"] # None
    => config.min_duration <= config.max_duration

InOrder(env, config) == config.min_duration <= config.max_duration

Checked(env, config) ==
  IF /\ \A setting \in DOMAIN config : config[setting] # None
     /\ config.relays # <<>>
     /\ InOrder(env, config)
  THEN config ELSE None

(***************************************************************************)
(* Config::from_lookup.  The runtime is limited by the timeout of jobs if  *)
(* no maximum is set.  The other settings, and the errors of the numbers   *)
(* among them, are left out: nothing here is about them.                   *)
(***************************************************************************)
FromLookup(env) ==
  IF None \in {env["NOSTR_RELAYS"], env["WORKER_SOFTWARE"], env["WORKER_PRICES"]} THEN None
  ELSE Checked(env,
    [relays       |-> SplitCsv(env["NOSTR_RELAYS"]),
     software     |-> ParseList(env["WORKER_SOFTWARE"], ParseSoftware),
     prices       |-> ParseList(env["WORKER_PRICES"], ParsePrice),
     job_timeout  |-> JobTimeout(env),
     min_duration |-> ParseOrDefault(env, "WORKER_MIN_DURATION", 1),
     max_duration |-> ParseOrDefault(env, "WORKER_MAX_DURATION", JobTimeout(env))])
-----------------------------------------------------------------------------
(***************************************************************************)
(* The NixOS module: toCsv over the options, and baseEnvironment.          *)
(***************************************************************************)
ToCsv(items, Render(_)) == Join([k \in DOMAIN items |-> Render(items[k])], Comma)

WorkerSoftware(software) ==
  ToCsv(software, LAMBDA item : Join(<<item.name, item.version, item.path>>, ":"))

WorkerPrices(prices) ==
  ToCsv(prices,
        LAMBDA price : Join(<<price.mintUrl, Decimal(price.pricePerSecond), price.unit>>, ":"))

BaseEnvironment(options) ==
  [NOSTR_RELAYS        |-> Join(options.relays, Comma),
   WORKER_SOFTWARE     |-> WorkerSoftware(options.workerSoftware),
   WORKER_PRICES       |-> WorkerPrices(options.workerPrices),
   WORKER_MIN_DURATION |-> Decimal(options.workerMinDuration),
   WORKER_MAX_DURATION |-> Decimal(options.workerMaxDuration),
   JOB_TIMEOUT         |-> Decimal(options.jobTimeout)]
=============================================================================
