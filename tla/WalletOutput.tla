---------------------------- MODULE WalletOutput ----------------------------
(***************************************************************************)
(* What the payment client reads off the output of cdk-cli: the mint and   *)
(* unit of a token, the amount a receive brought, the balances of the      *)
(* wallet and the change token (src/payments.rs).                          *)
(*                                                                         *)
(* An output is a sequence of lines, a line a sequence of items: what      *)
(* stands between blanks.  Of an item the functions look at                *)
(*   text    the item as it stands,                                        *)
(*   words   the words it falls into at every sign, a URL's among them,    *)
(*   url     the URL in it, None if there is none,                         *)
(*   digits  the numbers in it, in order,                                  *)
(*   number  the number it is as a whole, None if it is something else,    *)
(*   index   whether it is a number and a colon,                           *)
(*   token   the Cashu token it is, quotes and commas taken off, or None.  *)
(***************************************************************************)
EXTENDS Integers, FiniteSetsExt, SequencesExt

CONSTANTS
  MaxU64,
  None,
  Lower(_)      \* to_ascii_lowercase

Items(output) == UNION {ToSet(output[i]) : i \in DOMAIN output}

OrElse(a, b) == IF a # None THEN a ELSE b

\* The value of a function at the first position that satisfies Test, or None.
FirstOf(seq, Test(_), Value(_)) ==
  LET i == SelectInSeq(seq, Test) IN IF i = 0 THEN None ELSE Value(seq[i])
-----------------------------------------------------------------------------
(***************************************************************************)
(* decode-token: the only URL in the output and the only configured unit   *)
(* among its words, in whatever case.                                      *)
(***************************************************************************)
UniqueUrls(output)  == {item.url : item \in Items(output)} \ {None}

UniqueUnits(prices) == {price.unit : price \in prices}

OutputMentionsUnit(output, unit) ==
  \E item \in Items(output) : \E word \in item.words : Lower(word) = Lower(unit)

\* Mutant: any one will do.
Some(set) == IF set = {} THEN None ELSE CHOOSE x \in set : TRUE

Only(set) == IF \E x \in set : set = {x} THEN CHOOSE x \in set : TRUE ELSE None

ParseTokenMetadata(output, prices) ==
  LET url  == Only(UniqueUrls(output))
      unit == Only({u \in UniqueUnits(prices) : OutputMentionsUnit(output, u)})
  IN  IF None \in {url, unit} THEN None ELSE [mint_url |-> url, unit |-> unit]
-----------------------------------------------------------------------------
(***************************************************************************)
(* receive: the first number, if it fits, of the first line that says      *)
(* "received" and has one.  A zero counts as not found.                    *)
(***************************************************************************)
FirstU64(line) ==
  LET numbers == FlattenSeq([i \in DOMAIN line |-> line[i].digits])
  IN  IF numbers = <<>> \/ Head(numbers) > MaxU64 THEN None ELSE Head(numbers)

\* Mutant: every line may name the amount.
SaysAnything(line) == TRUE

SaysReceived(line) ==
  \E i \in DOMAIN line : "received" \in {Lower(word) : word \in line[i].words}

ParseReceivedAmount(output) ==
  LET amount == FirstOf(output, LAMBDA line : SaysReceived(line) /\ FirstU64(line) # None,
                        FirstU64)
  IN  IF amount = 0 THEN None ELSE amount

\* balance: the lines "index: mint_url amount unit", by their place in the output.
ParseBalanceEntries(output) ==
  LET IsEntry(line) ==
        /\ Len(line) >= 4
        /\ line[1].index
        /\ line[3].number # None /\ line[3].number <= MaxU64
      Entry(line) ==
        [mint_url |-> line[2].text, amount |-> line[3].number, unit |-> line[4].text]
  IN  [i \in {j \in DOMAIN output : IsEntry(output[j])} |-> Entry(output[i])]

BalanceAmount(entries, account) ==
  LET mine == {i \in DOMAIN entries : /\ entries[i].mint_url = account.mint_url
                                      /\ entries[i].unit = account.unit}
  IN  MapThenSumSet(LAMBDA i : entries[i].amount, mine)

ReceivedDelta(before, after, account) ==
  LET b == BalanceAmount(before, account)
      a == BalanceAmount(after, account)
  IN  IF b <= a THEN a - b ELSE None

(***************************************************************************)
(* claim_payment: the amount printed on stdout, or on stderr, or else the  *)
(* difference of the balances before and after; nothing is an error.       *)
(***************************************************************************)
ClaimedAmount(stdout, stderr, before, after, account) ==
  LET printed == OrElse(ParseReceivedAmount(stdout), ParseReceivedAmount(stderr))
      amount  == OrElse(printed, ReceivedDelta(before, after, account))
  IN  IF amount = 0 THEN None ELSE amount

\* Mutant: a token stands at the beginning of its line.
ParseLeadingToken(output) ==
  FirstOf(output, LAMBDA line : line # <<>> /\ Head(line).token # None,
          LAMBDA line : Head(line).token)

\* send: the first token anywhere in the output.
ParseCashuToken(output) ==
  FirstOf(FlattenSeq(output), LAMBDA item : item.token # None, LAMBDA item : item.token)
=============================================================================
