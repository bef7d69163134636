-------------------------- MODULE WalletOutputCheck --------------------------
(***************************************************************************)
(* A payment on its way through cdk-cli and back: the tool prints what it  *)
(* has done in one of several ways, among other lines, and the functions   *)
(* of WalletOutput read it.  What the tool prints is taken from the tests  *)
(* of src/payments.rs and from how the code calls it; the wallet is the    *)
(* truth the properties compare with.                                      *)
(***************************************************************************)
EXTENDS WalletOutput

CONSTANTS
  Mints, Units,
  WordsOf,       \* by mint: the words its URL falls into
  Spelling,      \* by unit: the ways the tool spells it
  Memos,         \* what a token may carry besides: items
  Amounts,       \* bound: the amounts that occur
  Change         \* a change token

ASSUME WalletAssumption ==
  /\ IsFiniteSet(Mints)
  /\ MaxU64 \in Nat /\ Amounts \subseteq Nat
  /\ \A a, b \in Amounts : a + b <= MaxU64

\* None is told from everything that is something.
ASSUME SomethingAssumption ==
  None \notin Mints /\ None \notin 0..MaxU64 /\ None # Change

\* The tool spells a unit like the configuration, but for the case; of the words it
\* prints only "received" says that something was received.
ASSUME SpellingAssumption ==
  /\ \A unit \in Units : \A spelled \in Spelling[unit] : Lower(spelled) = Lower(unit)
  /\ Lower("Received") = "received"
  /\ Lower("Recovered") # "received" /\ Lower("operations") # "received"

VARIABLES
  prices,        \* the configured accounts
  token,         \* the token's account and value
  purse,         \* by account: the balance of the wallet
  step,          \* "offered", "decoded", "claimed", "changed", "refused"
  metadata, amount, change,   \* what the client has read
  credit         \* what the receive has brought

vars == <<prices, token, purse, step, metadata, amount, change, credit>>

Account == [mint_url : Mints, unit : Units]

Blank     == [text |-> None, words |-> {}, url |-> None, digits |-> <<>>,
              number |-> None, index |-> FALSE, token |-> None]
Word(w)   == [Blank EXCEPT !.text = w, !.words = {w}]
Url(m)    == [Blank EXCEPT !.text = m, !.url = m, !.words = WordsOf[m]]
Number(n) == [Blank EXCEPT !.number = n, !.digits = <<n>>]
Index(n)  == [Blank EXCEPT !.index = TRUE, !.digits = <<n>>]
Token(t)  == [Blank EXCEPT !.token = t]

\* Lines that tell the client nothing.
Recovered(n) == <<Word("Recovered"), Number(n), Word("operations")>>
Waiting      == <<Word("Tokens"), Word("received")>>
Chatter      == {<<>>, <<Recovered(0)>>, <<Waiting, Recovered(1)>>}

\* Two streams, one of which carries the lines.
Streams(lines) == {<<lines, <<>>>>, <<<<>>, lines>>}

PrintToken ==
  UNION {Streams(<<<<Word("TokenV4")>>, <<Word("mint"), Url(token.account.mint_url)>>,
                   <<Word("unit"), Word(spelled)>>, memo>>) :
           spelled \in Spelling[token.account.unit], memo \in Memos}

PrintBalance(held, unit) ==
  LET mints == SetToSeq(Mints)
  IN  <<Recovered(1)>>
      \o [i \in DOMAIN mints |->
            <<Index(i - 1), Url(mints[i]),
              Number(held[[mint_url |-> mints[i], unit |-> unit]]), Word(unit)>>]
      \o <<<<>>, <<Word("Total"), Word("balance"), Number(MaxU64), Word(unit)>>>>

PrintReceived ==
  {<<chatter, <<>>>> : chatter \in Chatter}
  \cup UNION {Streams(chatter \o <<<<Word("Received"), Number(credit')>>>>) : chatter \in Chatter}

PrintSent ==
  UNION {Streams(<<Recovered(0), line>>) :
           line \in {<<Token(Change)>>, <<Word("mint"), Index(0), Token(Change)>>}}
-----------------------------------------------------------------------------
Init ==
  /\ prices \in SUBSET Account \ {{}}
  /\ token \in [account : Account, value : Amounts]
  /\ purse \in [Account -> Amounts]
  /\ step = "offered"
  /\ metadata = None /\ amount = None /\ change = None /\ credit = 0

\* decode_token and find_price.
DecodeToken ==
  /\ step = "offered"
  /\ \E output \in PrintToken :
       metadata' = OrElse(ParseTokenMetadata(output[1], prices),
                          ParseTokenMetadata(output[2], prices))
  /\ step' = IF metadata' \in prices THEN "decoded" ELSE "refused"
  /\ UNCHANGED <<prices, token, purse, amount, change, credit>>

\* balance, receive and, if need be, balance again.  The mint may keep a fee.
Claim ==
  /\ step = "decoded" /\ metadata = token.account
  /\ credit' \in 0..token.value
  /\ purse' = [purse EXCEPT ![metadata] = @ + credit']
  /\ \E output \in PrintReceived :
       amount' = ClaimedAmount(output[1], output[2],
                               ParseBalanceEntries(PrintBalance(purse, metadata.unit)),
                               ParseBalanceEntries(PrintBalance(purse', metadata.unit)),
                               metadata)
  /\ step' = IF amount' = None THEN "refused" ELSE "claimed"
  /\ UNCHANGED <<prices, token, metadata, change>>

SendChange ==
  /\ step = "claimed"
  /\ \E output \in PrintSent :
       change' = OrElse(ParseCashuToken(output[1]), ParseCashuToken(output[2]))
  /\ step' = "changed"
  /\ UNCHANGED <<prices, token, purse, metadata, amount, credit>>

Next == DecodeToken \/ Claim \/ SendChange

Spec == Init /\ [][Next]_vars
-----------------------------------------------------------------------------
(***************************************************************************)
(* A token whose unit has a price is taken for what it is or refused, also *)
(* if its mint's name or its memo mentions another unit or URL.            *)
(***************************************************************************)
MetadataIsTheTokens ==
  metadata # None /\ token.account.unit \in UniqueUnits(prices) =>
    metadata = token.account

(***************************************************************************)
(* The client claims exactly what the receive has brought, whichever       *)
(* stream says so and if none does, and nothing if that is nothing.        *)
(***************************************************************************)
ClaimIsTheCredit ==
  /\ step \in {"claimed", "changed"} => amount = credit /\ credit > 0
  /\ step = "refused" => amount = None /\ credit = 0

\* The change given back is the token that was sent, wherever it is printed.
ChangeIsTheTokenSent == step = "changed" => change = Change
=============================================================================
