-------------------------- MODULE WalletOutputProofs --------------------------
(***************************************************************************)
(* What the payment client reads off the output of cdk-cli is what the     *)
(* wallet did, for any mints, units, memos, spellings and amounts: the     *)
(* account of a token, the amount of a receive and the change token.       *)
(***************************************************************************)
EXTENDS WalletOutputCheck, FiniteSetTheorems, SequenceTheorems, TLAPS

-----------------------------------------------------------------------------
(***************************************************************************)
(* Items and lines.                                                        *)
(***************************************************************************)
\* What the functions look at in a word, a URL, a number, an index and a token.
LEMMA WordFields ==
  ASSUME NEW w
  PROVE  /\ Word(w).text = w /\ Word(w).words = {w} /\ Word(w).url = None
         /\ Word(w).digits = <<>> /\ Word(w).number = None /\ Word(w).index = FALSE
         /\ Word(w).token = None
BY DEF Word, Blank

\* Likewise of a URL.
LEMMA UrlFields ==
  ASSUME NEW m
  PROVE  Url(m).url = m /\ Url(m).text = m /\ Url(m).digits = <<>> /\ Url(m).index = FALSE
BY DEF Url, Blank

\* Likewise of a number.
LEMMA NumberFields ==
  ASSUME NEW n
  PROVE  /\ Number(n).number = n /\ Number(n).digits = <<n>> /\ Number(n).words = {}
         /\ Number(n).token = None /\ Number(n).url = None
BY DEF Number, Blank

\* Likewise of an index.
LEMMA IndexFields ==
  ASSUME NEW n
  PROVE  Index(n).index = TRUE /\ Index(n).token = None /\ Index(n).words = {}
BY DEF Index, Blank

\* Likewise of a token.
LEMMA TokenFields ==
  ASSUME NEW t
  PROVE  Token(t).token = t
BY DEF Token, Blank

\* Two lines put together.
LEMMA FlattenTwo ==
  ASSUME NEW s, NEW t
  PROVE  FlattenSeq(<<s, t>>) = s \o t
<1> DEFINE seqs == <<s, t>>
           Step(f, i) == IF i = 1 THEN seqs[i] ELSE f[i - 1] \o seqs[i]
           g == [i \in 1..2 |-> IF i = 1 THEN s ELSE s \o t]
           F == CHOOSE f : f = [i \in 1..2 |-> Step(f, i)]
<1>1. Len(seqs) = 2 /\ seqs[1] = s /\ seqs[2] = t
  OBVIOUS
<1> HIDE DEF seqs
<1>2. g = [i \in 1..2 |-> Step(g, i)]
  <2>1. ASSUME NEW i \in 1..2 PROVE g[i] = Step(g, i)
    <3>1. i = 1 \/ i = 2
      OBVIOUS
    <3>2. g[1] = s /\ g[2] = s \o t
      OBVIOUS
    <3> HIDE DEF g
    <3>3. CASE i = 1
      BY <1>1, <3>2, <3>3
    <3>4. CASE i = 2
      <4>1. 2 - 1 = 1 /\ 2 # 1
        OBVIOUS
      <4> QED  BY <1>1, <3>2, <3>4, <4>1
    <3> QED  BY <3>1, <3>3, <3>4
  <2>2. g = [i \in 1..2 |-> g[i]]
    OBVIOUS
  <2> HIDE DEF g, Step
  <2> QED  BY <2>1, <2>2
<1>3. F = [i \in 1..2 |-> Step(F, i)]
  <2> HIDE DEF g, Step
  <2> QED  BY <1>2
<1>4. FlattenSeq(seqs) = F[2]
  BY <1>1 DEF FlattenSeq
<1> HIDE DEF F, g
<1>5. F[1] = s
  BY <1>1, <1>3
<1>6. F[2] = F[1] \o t
  BY <1>1, <1>3
<1> QED  BY <1>4, <1>5, <1>6 DEF seqs

\* Where only one position passes the test, it is the one that is selected.
LEMMA SelectedOne ==
  ASSUME NEW S, NEW k \in Int, S = {k}, NEW n
  PROVE  (IF S # {} THEN Min(S) ELSE n) = k
<1>1. \E x \in S : \A y \in S : x <= y
  OBVIOUS
<1> QED  BY <1>1 DEF Min
-----------------------------------------------------------------------------
(***************************************************************************)
(* The account of a token.                                                 *)
(***************************************************************************)
\* The only member of a set is any member of it.
LEMMA OnlyMember ==
  ASSUME NEW S, NEW x \in S, Only(S) # None
  PROVE  Only(S) = x
BY DEF Only

\* An empty stream tells nothing.
LEMMA NothingPrinted ==
  /\ \A p : ParseTokenMetadata(<<>>, p) = None
  /\ ParseReceivedAmount(<<>>) = None
  /\ ParseCashuToken(<<>>) = None
<1>1. Only({}) = None
  BY DEF Only
<1>2. UniqueUrls(<<>>) = {}
  BY DEF UniqueUrls, Items
<1>3. \A p : ParseTokenMetadata(<<>>, p) = None
  BY <1>1, <1>2 DEF ParseTokenMetadata
<1>4. \A x : FlattenSeq(<<>>) = <<>>
  BY DEF FlattenSeq
<1>5. ParseCashuToken(<<>>) = None
  BY <1>4 DEF ParseCashuToken, FirstOf, SelectInSeq
<1>6. ParseReceivedAmount(<<>>) = None
  BY DEF ParseReceivedAmount, FirstOf, SelectInSeq
<1> QED  BY <1>3, <1>5, <1>6

\* An output that names a mint and a configured unit is read as those or not at all.
LEMMA MetadataRead ==
  ASSUME NEW output, NEW p, NEW mint \in Mints, NEW unit \in UniqueUnits(p), NEW spelled,
         Lower(spelled) = Lower(unit),
         Url(mint) \in Items(output), Word(spelled) \in Items(output),
         ParseTokenMetadata(output, p) # None
  PROVE  ParseTokenMetadata(output, p) = [mint_url |-> mint, unit |-> unit]
<1> DEFINE urls  == UniqueUrls(output)
           units == {u \in UniqueUnits(p) : OutputMentionsUnit(output, u)}
<1>1. mint \in urls
  BY UrlFields, SomethingAssumption DEF UniqueUrls
<1>2. unit \in units
  <2>1. spelled \in Word(spelled).words
    BY WordFields
  <2> QED  BY <2>1 DEF OutputMentionsUnit
<1>3. ParseTokenMetadata(output, p)
        = IF None \in {Only(urls), Only(units)} THEN None
          ELSE [mint_url |-> Only(urls), unit |-> Only(units)]
  BY DEF ParseTokenMetadata
<1> HIDE DEF urls, units
<1>4. Only(urls) # None /\ Only(units) # None
  BY <1>3
<1>5. Only(urls) = mint /\ Only(units) = unit
  BY <1>1, <1>2, <1>4, OnlyMember
<1> QED  BY <1>3, <1>4, <1>5

\* The lines of decode-token.
TokenLines(spelled, memo) ==
  <<<<Word("TokenV4")>>, <<Word("mint"), Url(token.account.mint_url)>>,
    <<Word("unit"), Word(spelled)>>, memo>>

\* What decode-token prints on either stream is read as the account of the token, or not.
LEMMA TokenIsRead ==
  ASSUME NEW p, token.account \in Account, token.account.unit \in UniqueUnits(p),
         NEW output \in PrintToken,
         NEW read, read = OrElse(ParseTokenMetadata(output[1], p), ParseTokenMetadata(output[2], p)),
         read # None
  PROVE  read = token.account
<1> DEFINE unit == token.account.unit
           mint == token.account.mint_url
<1>1. PICK spelled \in Spelling[unit], memo \in Memos :
        output \in Streams(TokenLines(spelled, memo))
  <2> DEFINE outputs == {Streams(TokenLines(s, m)) : s \in Spelling[unit], m \in Memos}
  <2>1. PrintToken = UNION outputs
    BY DEF PrintToken, TokenLines
  <2>2. PICK pair \in outputs : output \in pair
    <3> HIDE DEF outputs
    <3> QED  BY <2>1
  <2> QED  BY <2>2
<1> DEFINE lines == TokenLines(spelled, memo)
<1>2. mint \in Mints /\ unit \in Units /\ token.account = [mint_url |-> mint, unit |-> unit]
  BY DEF Account
<1>3. Lower(spelled) = Lower(unit)
  BY <1>1, <1>2, SpellingAssumption
<1>4. Url(mint) \in Items(lines) /\ Word(spelled) \in Items(lines)
  <2>1. DOMAIN lines = 1..4 /\ lines[2] = <<Word("mint"), Url(mint)>>
        /\ lines[3] = <<Word("unit"), Word(spelled)>>
    BY DEF TokenLines
  <2>2. Url(mint) \in ToSet(lines[2]) /\ Word(spelled) \in ToSet(lines[3])
    <3>1. \A a, b : b \in ToSet(<<a, b>>)
      BY DEF ToSet
    <3> QED  BY <2>1, <3>1
  <2>3. 2 \in DOMAIN lines /\ 3 \in DOMAIN lines
    BY <2>1
  <2> HIDE DEF lines
  <2> QED  BY <2>2, <2>3 DEF Items
<1> HIDE DEF lines
<1>5. ParseTokenMetadata(lines, p) \in {None, [mint_url |-> mint, unit |-> unit]}
  BY <1>2, <1>3, <1>4, MetadataRead
<1>6. ParseTokenMetadata(<<>>, p) = None
  BY NothingPrinted
<1>7. output = <<lines, <<>>>> \/ output = <<<<>>, lines>>
  BY <1>1 DEF Streams, lines
<1>8. read \in {ParseTokenMetadata(lines, p), None}
  <2>1. CASE output = <<lines, <<>>>>
    BY <1>6, <2>1 DEF OrElse
  <2>2. CASE output = <<<<>>, lines>>
    BY <1>6, <2>2 DEF OrElse
  <2> QED  BY <1>7, <2>1, <2>2
<1> QED  BY <1>2, <1>5, <1>8
-----------------------------------------------------------------------------
(***************************************************************************)
(* The change token.                                                       *)
(***************************************************************************)
\* The first token of an output that has but one is that token.
LEMMA OneTokenIsFound ==
  ASSUME NEW output, NEW items, FlattenSeq(output) = items, NEW k \in 1..Len(items),
         Len(items) \in Nat,
         items[k].token # None, \A i \in 1..Len(items) : i # k => items[i].token = None
  PROVE  ParseCashuToken(output) = items[k].token
<1> DEFINE I == {i \in 1..Len(items) : items[i].token # None}
<1>1. I = {k} /\ k # 0 /\ k \in Int
  OBVIOUS
<1>2. SelectInSeq(items, LAMBDA item : item.token # None) = IF I # {} THEN Min(I) ELSE 0
  BY DEF SelectInSeq
<1> HIDE DEF I
<1>3. SelectInSeq(items, LAMBDA item : item.token # None) = k
  BY <1>1, <1>2, SelectedOne
<1> QED  BY <1>1, <1>3 DEF ParseCashuToken, FirstOf

\* Of two lines the last item of the second is the only token.
LEMMA LastIsToken ==
  ASSUME NEW X, NEW r \in Seq(X), NEW t \in Seq(X), t # <<>>,
         \A i \in 1..Len(r) : r[i].token = None,
         \A i \in 1..Len(t) - 1 : t[i].token = None,
         t[Len(t)].token # None
  PROVE  ParseCashuToken(<<r, t>>) = t[Len(t)].token
<1> DEFINE items == r \o t
           m == Len(r)
           n == Len(t)
           k == m + n
<1>1. m \in Nat /\ n \in Nat \ {0}
  BY EmptySeq, LenProperties
<1>2. FlattenSeq(<<r, t>>) = items
  BY FlattenTwo
<1>3. Len(items) = k /\ \A i \in 1..k : items[i] = IF i <= m THEN r[i] ELSE t[i - m]
  BY ConcatProperties
<1> HIDE DEF items, m, n
<1>4. k \in 1..k /\ k \in Nat /\ ~(k <= m) /\ k - m = n
  BY <1>1
<1>5. items[k] = t[n]
  BY <1>3, <1>4
<1>6. ASSUME NEW i \in 1..k, i # k PROVE items[i].token = None
  <2>1. CASE i <= m
    <3>1. i \in 1..m
      BY <1>1, <2>1
    <3> QED  BY <1>3, <2>1, <3>1 DEF m
  <2>2. CASE ~(i <= m)
    <3>1. i - m \in 1..n - 1
      BY <1>1, <1>6, <2>2
    <3> QED  BY <1>3, <2>2, <3>1 DEF n
  <2> QED  BY <2>1, <2>2
<1>7. t[n].token # None
  BY DEF n
<1> HIDE DEF k
<1>8. ParseCashuToken(<<r, t>>) = items[k].token
  BY <1>2, <1>3, <1>4, <1>5, <1>6, <1>7, OneTokenIsFound
<1> QED  BY <1>5, <1>8 DEF n

\* The change token is read on either stream, with a prompt before it or without.
LEMMA ChangeIsRead ==
  ASSUME NEW output \in PrintSent
  PROVE  OrElse(ParseCashuToken(output[1]), ParseCashuToken(output[2])) = Change
<1> DEFINE bare   == <<Token(Change)>>
           prompt == <<Word("mint"), Index(0), Token(Change)>>
<1>1. PICK line \in {bare, prompt} : output \in Streams(<<Recovered(0), line>>)
  BY DEF PrintSent
<1>2. ParseCashuToken(<<Recovered(0), line>>) = Change
  <2> DEFINE a == Word("Recovered")
             b == Number(0)
             c == Word("operations")
             d == Word("mint")
             e == Index(0)
             f == Token(Change)
             X == {a, b, c, d, e, f}
  <2>1. /\ a.token = None /\ b.token = None /\ c.token = None /\ d.token = None
        /\ e.token = None /\ f.token = Change /\ Change # None
    BY WordFields, NumberFields, IndexFields, TokenFields, SomethingAssumption
  <2>2. Recovered(0) = <<a, b, c>> /\ bare = <<f>> /\ prompt = <<d, e, f>>
    BY DEF Recovered
  <2>3. a \in X /\ b \in X /\ c \in X /\ d \in X /\ e \in X /\ f \in X
    OBVIOUS
  <2> HIDE DEF a, b, c, d, e, f, X, bare, prompt
  <2> DEFINE r == <<a, b, c>>
  <2>4. r \in Seq(X) /\ \A i \in 1..Len(r) : r[i].token = None
    <3>1. r \in Seq(X) /\ Len(r) = 3 /\ r[1] = a /\ r[2] = b /\ r[3] = c
      BY <2>3
    <3> HIDE DEF r
    <3>2. \A i \in 1..3 : i = 1 \/ i = 2 \/ i = 3
      OBVIOUS
    <3> QED  BY <2>1, <3>1, <3>2
  <2>5. CASE line = bare
    <3> DEFINE t == <<f>>
    <3>1. t \in Seq(X) /\ Len(t) = 1 /\ t[1] = f
      BY <2>3
    <3> HIDE DEF r, t
    <3>2. t # <<>> /\ t[Len(t)] = f
      <4>1. Len(t) = 1 /\ t[1] = f
        BY <3>1
      <4>2. t # <<>>
        <5>1. Len(<<>>) = 0
          OBVIOUS
        <5> QED  BY <4>1, <5>1
      <4> QED  BY <4>1, <4>2
    <3>3. \A i \in 1..Len(t) - 1 : t[i].token = None
      <4>1. \A i \in 1..Len(t) - 1 : FALSE
        BY <3>1
      <4> QED  BY <4>1
    <3>4. ParseCashuToken(<<r, t>>) = Change
      BY <2>1, <2>4, <3>1, <3>2, <3>3, LastIsToken
    <3> QED  BY <2>2, <2>5, <3>4 DEF r, t
  <2>6. CASE line = prompt
    <3> DEFINE t == <<d, e, f>>
    <3>1. t \in Seq(X) /\ Len(t) = 3 /\ t[1] = d /\ t[2] = e /\ t[3] = f
      BY <2>3
    <3> HIDE DEF r, t
    <3>2. t # <<>> /\ t[Len(t)] = f
      BY <3>1
    <3>3. \A i \in 1..Len(t) - 1 : t[i].token = None
      <4>1. \A i \in 1..Len(t) - 1 : i = 1 \/ i = 2
        BY <3>1
      <4> QED  BY <2>1, <3>1, <4>1
    <3>4. ParseCashuToken(<<r, t>>) = Change
      BY <2>1, <2>4, <3>1, <3>2, <3>3, LastIsToken
    <3> QED  BY <2>2, <2>6, <3>4 DEF r, t
  <2> QED  BY <1>1, <2>5, <2>6
<1>3. ParseCashuToken(<<>>) = None
  BY NothingPrinted
<1> DEFINE lines == <<Recovered(0), line>>
<1>4. output = <<lines, <<>>>> \/ output = <<<<>>, lines>>
  BY <1>1 DEF Streams
<1>5. ParseCashuToken(lines) = Change
  BY <1>2
<1> HIDE DEF lines
<1>6. CASE output = <<lines, <<>>>>
  BY <1>5, <1>6, SomethingAssumption DEF OrElse
<1>7. CASE output = <<<<>>, lines>>
  BY <1>3, <1>5, <1>7 DEF OrElse
<1> QED  BY <1>4, <1>6, <1>7
-----------------------------------------------------------------------------
(***************************************************************************)
(* The amount a receive has brought, as it is printed.                     *)
(***************************************************************************)
\* The line that names the amount, and a line the client takes for it.
ReceivedLine(n) == <<Word("Received"), Number(n)>>

NamesAmount(line) == SaysReceived(line) /\ FirstU64(line) # None

\* The first number of a line of two items.
LEMMA NumberOfTwo ==
  ASSUME NEW a, NEW b
  PROVE  LET numbers == a.digits \o b.digits
         IN  FirstU64(<<a, b>>) = IF numbers = <<>> \/ Head(numbers) > MaxU64 THEN None
                                  ELSE Head(numbers)
<1> DEFINE line == <<a, b>>
           digits == [i \in DOMAIN line |-> line[i].digits]
<1>1. digits = <<a.digits, b.digits>>
  <2>1. DOMAIN line = 1..2 /\ line[1] = a /\ line[2] = b
    OBVIOUS
  <2> HIDE DEF line
  <2>2. digits = [i \in 1..2 |-> IF i = 1 THEN a.digits ELSE b.digits]
    <3>1. \A i \in 1..2 : line[i].digits = IF i = 1 THEN a.digits ELSE b.digits
      <4>1. \A i \in 1..2 : i = 1 \/ i = 2
        OBVIOUS
      <4> QED  BY <2>1, <4>1
    <3> QED  BY <2>1, <3>1
  <2>3. \A x, y : [i \in 1..2 |-> IF i = 1 THEN x ELSE y] = <<x, y>>
    OBVIOUS
  <2> HIDE DEF digits
  <2> QED  BY <2>2, <2>3
<1>2. FlattenSeq(digits) = a.digits \o b.digits
  BY <1>1, FlattenTwo
<1> HIDE DEF digits
<1>3. FirstU64(line) = IF FlattenSeq(digits) = <<>> \/ Head(FlattenSeq(digits)) > MaxU64 THEN None
                       ELSE Head(FlattenSeq(digits))
  BY DEF FirstU64, digits
<1> QED  BY <1>2, <1>3

\* The chatter names no amount, the line of a receive does.
LEMMA LinesRead ==
  /\ ~NamesAmount(Recovered(0)) /\ ~NamesAmount(Recovered(1)) /\ ~NamesAmount(Waiting)
  /\ \A n \in 0..MaxU64 : NamesAmount(ReceivedLine(n)) /\ FirstU64(ReceivedLine(n)) = n
<1>1. ASSUME NEW n PROVE ~NamesAmount(Recovered(n))
  <2> DEFINE line == Recovered(n)
  <2>1. /\ DOMAIN line = 1..3 /\ line[1].words = {"Recovered"} /\ line[2].words = {}
        /\ line[3].words = {"operations"}
    <3> DEFINE a == Word("Recovered")
               b == Number(n)
               c == Word("operations")
    <3>1. a.words = {"Recovered"} /\ b.words = {} /\ c.words = {"operations"} /\ line = <<a, b, c>>
      BY WordFields, NumberFields DEF Recovered
    <3> HIDE DEF a, b, c, line
    <3>2. DOMAIN line = 1..3 /\ line[1] = a /\ line[2] = b /\ line[3] = c
      BY <3>1
    <3> QED  BY <3>1, <3>2
  <2> HIDE DEF line
  <2>2. \A i \in 1..3 : i = 1 \/ i = 2 \/ i = 3
    OBVIOUS
  <2>3. ~SaysReceived(line)
    BY <2>1, <2>2, SpellingAssumption DEF SaysReceived
  <2> QED  BY <2>3 DEF NamesAmount, line
<1>2. ~NamesAmount(Waiting)
  <2> DEFINE a == Word("Tokens")
             b == Word("received")
  <2>1. a.digits = <<>> /\ b.digits = <<>> /\ Waiting = <<a, b>>
    BY WordFields DEF Waiting
  <2> HIDE DEF a, b
  <2>2. a.digits \o b.digits = <<>>
    BY <2>1
  <2>3. FirstU64(<<a, b>>) = None
    BY <2>2, NumberOfTwo
  <2> QED  BY <2>1, <2>3 DEF NamesAmount
<1>3. ASSUME NEW n \in 0..MaxU64
      PROVE  NamesAmount(ReceivedLine(n)) /\ FirstU64(ReceivedLine(n)) = n
  <2> DEFINE a == Word("Received")
             b == Number(n)
             line == <<a, b>>
  <2>1. /\ a.digits = <<>> /\ b.digits = <<n>> /\ a.words = {"Received"}
        /\ ReceivedLine(n) = line
    BY WordFields, NumberFields DEF ReceivedLine
  <2> HIDE DEF a, b
  <2>2. a.digits \o b.digits = <<n>> /\ <<n>> # <<>> /\ Head(<<n>>) = n
    BY <2>1
  <2>3. ~(n > MaxU64) /\ n # None
    BY WalletAssumption, SomethingAssumption
  <2>4. FirstU64(line) = n
    BY <2>2, <2>3, NumberOfTwo
  <2>5. SaysReceived(line)
    <3>1. 1 \in DOMAIN line /\ line[1] = a
      OBVIOUS
    <3>2. "received" \in {Lower(word) : word \in a.words}
      BY <2>1, SpellingAssumption
    <3> HIDE DEF line
    <3> QED  BY <3>1, <3>2 DEF SaysReceived
  <2> QED  BY <2>1, <2>3, <2>4, <2>5 DEF NamesAmount
<1> QED  BY <1>1, <1>2, <1>3

\* Where no line names an amount there is none, and where only one does it is that.
LEMMA NoAmountNamed ==
  ASSUME NEW output, \A i \in 1..Len(output) : ~NamesAmount(output[i])
  PROVE  ParseReceivedAmount(output) = None
<1>1. {i \in 1..Len(output) : SaysReceived(output[i]) /\ FirstU64(output[i]) # None} = {}
  BY DEF NamesAmount
<1> QED  BY <1>1 DEF ParseReceivedAmount, FirstOf, SelectInSeq

\* The only line that names an amount names the amount received, unless it is zero.
LEMMA OneAmountNamed ==
  ASSUME NEW output, NEW k \in 1..Len(output), Len(output) \in Nat, NamesAmount(output[k]),
         \A i \in 1..Len(output) : i # k => ~NamesAmount(output[i])
  PROVE  ParseReceivedAmount(output)
           = IF FirstU64(output[k]) = 0 THEN None ELSE FirstU64(output[k])
<1> DEFINE I == {i \in 1..Len(output) : SaysReceived(output[i]) /\ FirstU64(output[i]) # None}
<1>1. I = {k} /\ k # 0 /\ k \in Int
  BY DEF NamesAmount
<1> DEFINE first == SelectInSeq(output, LAMBDA line : SaysReceived(line) /\ FirstU64(line) # None)
<1>2. first = IF I # {} THEN Min(I) ELSE 0
  BY DEF SelectInSeq
<1> HIDE DEF I
<1>3. first = k
  BY <1>1, <1>2, SelectedOne
<1>4. ParseReceivedAmount(output)
        = LET amount_read == IF first = 0 THEN None ELSE FirstU64(output[first])
          IN  IF amount_read = 0 THEN None ELSE amount_read
  BY DEF ParseReceivedAmount, FirstOf
<1> HIDE DEF first
<1> QED  BY <1>1, <1>3, <1>4

\* The chatter names no amount, and after it the amount is found.
LEMMA ReceivedIsRead ==
  ASSUME NEW chatter \in Chatter, NEW n \in 0..MaxU64
  PROVE  /\ ParseReceivedAmount(chatter) = None
         /\ ParseReceivedAmount(chatter \o <<ReceivedLine(n)>>) = IF n = 0 THEN None ELSE n
<1> DEFINE r0 == Recovered(0)
           r1 == Recovered(1)
           w  == Waiting
           l  == ReceivedLine(n)
           X  == {r0, r1, w, l}
<1>1. /\ ~NamesAmount(r0) /\ ~NamesAmount(r1) /\ ~NamesAmount(w)
      /\ NamesAmount(l) /\ FirstU64(l) = n
  BY LinesRead
<1>2. chatter \in {<<>>, <<r0>>, <<w, r1>>}
  BY DEF Chatter
<1>3. r0 \in X /\ r1 \in X /\ w \in X /\ l \in X
  OBVIOUS
<1> HIDE DEF r0, r1, w, l, X
<1>4. chatter \in Seq(X) /\ Len(chatter) \in Nat /\ \A i \in 1..Len(chatter) : ~NamesAmount(chatter[i])
  <2>1. CASE chatter = <<>>
    BY <2>1
  <2>2. CASE chatter = <<r0>>
    <3>1. Len(<<r0>>) = 1 /\ <<r0>>[1] = r0 /\ <<r0>> \in Seq(X)
      BY <1>3
    <3>2. \A i \in 1..1 : i = 1
      OBVIOUS
    <3> QED  BY <1>1, <2>2, <3>1, <3>2
  <2>3. CASE chatter = <<w, r1>>
    <3>1. Len(<<w, r1>>) = 2 /\ <<w, r1>>[1] = w /\ <<w, r1>>[2] = r1 /\ <<w, r1>> \in Seq(X)
      BY <1>3
    <3>2. \A i \in 1..2 : i = 1 \/ i = 2
      OBVIOUS
    <3> QED  BY <1>1, <2>3, <3>1, <3>2
  <2> QED  BY <1>2, <2>1, <2>2, <2>3
<1> DEFINE output == chatter \o <<l>>
           m == Len(chatter)
<1>5. /\ Len(output) = m + 1 /\ output[m + 1] = l
      /\ \A i \in 1..m : output[i] = chatter[i]
  <2>1. chatter \o <<l>> = Append(chatter, l)
    BY <1>3, <1>4
  <2> QED  BY <1>3, <1>4, <2>1, AppendProperties
<1> HIDE DEF output
<1>6. ParseReceivedAmount(chatter) = None
  BY <1>4, NoAmountNamed
<1>7. \A i \in 1..Len(output) : i # m + 1 => ~NamesAmount(output[i])
  <2>1. \A i \in 1..m + 1 : i # m + 1 => i \in 1..m
    BY <1>4
  <2> QED  BY <1>4, <1>5, <2>1
<1>8. m + 1 \in 1..Len(output) /\ Len(output) \in Nat
  BY <1>4, <1>5
<1> HIDE DEF m
<1>9. ParseReceivedAmount(output) = IF n = 0 THEN None ELSE n
  BY <1>1, <1>5, <1>7, <1>8, OneAmountNamed
<1> QED  BY <1>6, <1>9 DEF output, l
-----------------------------------------------------------------------------
(***************************************************************************)
(* The balances.                                                           *)
(***************************************************************************)
\* The mints in the order the wallet lists them: each of them once.
LEMMA MintsInOrder ==
  /\ SetToSeq(Mints) \in Seq(Mints)
  /\ \A mint \in Mints : \E k \in 1..Len(SetToSeq(Mints)) : SetToSeq(Mints)[k] = mint
  /\ \A i, k \in 1..Len(SetToSeq(Mints)) : SetToSeq(Mints)[i] = SetToSeq(Mints)[k] => i = k
<1> DEFINE n == Cardinality(Mints)
           mints == SetToSeq(Mints)
<1>1. n \in Nat /\ ExistsBijection(1..n, Mints)
  BY WalletAssumption, FS_CardinalityType
<1> HIDE DEF n
<1>2. \E f \in [1..n -> Mints] : IsInjective(f)
  BY <1>1 DEF ExistsBijection, Bijection, Injection
<1>3. mints = CHOOSE f \in [1..n -> Mints] : IsInjective(f)
  BY DEF SetToSeq, n
<1> HIDE DEF mints
<1>4. mints \in [1..n -> Mints] /\ IsInjective(mints)
  BY <1>2, <1>3
<1>5. mints \in Seq(Mints) /\ Len(mints) = n
  BY <1>1, <1>4, IsASeq, LenProperties
<1>6. mints \in Surjection(1..n, Mints)
  <2>1. mints \in Injection(1..n, Mints)
    BY <1>4 DEF Injection
  <2>2. Cardinality(1..n) = n
    BY <1>1, FS_Interval
  <2> QED  BY <2>1, <2>2, WalletAssumption, FS_Injection DEF n
<1>7. \A mint \in Mints : \E k \in 1..n : mints[k] = mint
  BY <1>6 DEF Surjection
<1>8. \A i, k \in 1..n : mints[i] = mints[k] => i = k
  BY <1>4 DEF IsInjective
<1> QED  BY <1>5, <1>7, <1>8 DEF mints

\* The sum of the amounts of a single entry.
LEMMA SumOfOne ==
  ASSUME NEW entries, NEW k, entries[k].amount \in Nat
  PROVE  MapThenSumSet(LAMBDA i : entries[i].amount, {k}) = entries[k].amount
<1> DEFINE f(i) == entries[i].amount
           pick(s) == CHOOSE x \in s : TRUE
           sets == SUBSET {k}
           Step(g, s) == IF s = {} THEN 0 ELSE f(pick(s)) + g[s \ {pick(s)}]
           w == [s \in sets |-> IF s = {} THEN 0 ELSE f(k)]
           F == CHOOSE g : g = [s \in sets |-> Step(g, s)]
<1>1. \A s \in sets : s = {} \/ s = {k}
  OBVIOUS
<1>2. pick({k}) = k /\ {k} \ {pick({k})} = {} /\ {} \in sets /\ {k} \in sets /\ {k} # {}
  OBVIOUS
<1> HIDE DEF pick, sets
<1>3. w = [s \in sets |-> Step(w, s)]
  <2>1. w[{}] = 0 /\ w[{k}] = f(k)
    BY <1>2
  <2>2. ASSUME NEW s \in sets PROVE (IF s = {} THEN 0 ELSE f(k)) = Step(w, s)
    <3> HIDE DEF w
    <3>1. CASE s = {}
      BY <3>1
    <3>2. CASE s = {k}
      <4>1. Step(w, s) = f(k) + 0
        BY <1>2, <2>1, <3>2
      <4> QED  BY <1>2, <3>2, <4>1
    <3> QED  BY <1>1, <3>1, <3>2
  <2> HIDE DEF Step
  <2> QED  BY <2>2
<1> HIDE DEF w
<1>4. F = [s \in sets |-> Step(F, s)]
  <2> HIDE DEF Step
  <2> QED  BY <1>3
<1>5. MapThenSumSet(LAMBDA i : entries[i].amount, {k}) = F[{k}]
  BY DEF MapThenSumSet, MapThenFoldSet, pick, sets
<1> HIDE DEF F
<1>6. F[{}] = 0
  BY <1>2, <1>4
<1>7. F[{k}] = f(k) + F[{}]
  BY <1>2, <1>4
<1> QED  BY <1>5, <1>6, <1>7

\* The line of a mint, and a line the client takes for an entry.
BalanceLine(i, mint, held, unit) ==
  <<Index(i - 1), Url(mint), Number(held[[mint_url |-> mint, unit |-> unit]]), Word(unit)>>

IsEntryLine(line) ==
  /\ Len(line) >= 4
  /\ line[1].index
  /\ line[3].number # None /\ line[3].number <= MaxU64

\* The entries are the lines of the mints.
LEMMA EntryLines ==
  /\ \A n : ~IsEntryLine(Recovered(n))
  /\ ~IsEntryLine(<<>>)
  /\ \A unit : ~IsEntryLine(<<Word("Total"), Word("balance"), Number(MaxU64), Word(unit)>>)
  /\ \A i, mint, held, unit : held[[mint_url |-> mint, unit |-> unit]] \in 0..MaxU64 =>
       LET line == BalanceLine(i, mint, held, unit)
       IN  /\ IsEntryLine(line) /\ line[2].text = mint /\ line[4].text = unit
           /\ line[3].number = held[[mint_url |-> mint, unit |-> unit]]
<1>1. \A a, b, c, d : LET line == <<a, b, c, d>>
                      IN  /\ Len(line) = 4 /\ line[1] = a /\ line[2] = b /\ line[3] = c
                          /\ line[4] = d
  OBVIOUS
<1>2. ASSUME NEW n PROVE ~IsEntryLine(Recovered(n))
  <2> DEFINE a == Word("Recovered")
             b == Number(n)
             c == Word("operations")
  <2>1. Recovered(n) = <<a, b, c>>
    BY DEF Recovered
  <2> HIDE DEF a, b, c
  <2>2. Len(<<a, b, c>>) = 3
    OBVIOUS
  <2> QED  BY <2>1, <2>2 DEF IsEntryLine
<1>3. ~IsEntryLine(<<>>)
  BY DEF IsEntryLine
<1>4. ASSUME NEW unit
      PROVE  ~IsEntryLine(<<Word("Total"), Word("balance"), Number(MaxU64), Word(unit)>>)
  <2> DEFINE a == Word("Total")
             b == Word("balance")
             c == Number(MaxU64)
             d == Word(unit)
             line == <<a, b, c, d>>
  <2>1. a.index = FALSE
    BY WordFields
  <2> HIDE DEF a, b, c, d
  <2>2. line[1] = a
    BY <1>1
  <2> HIDE DEF line
  <2>3. ~IsEntryLine(line)
    BY <2>1, <2>2 DEF IsEntryLine
  <2> QED  BY <2>3 DEF line, a, b, c, d
<1>5. ASSUME NEW i, NEW mint, NEW held, NEW unit,
             held[[mint_url |-> mint, unit |-> unit]] \in 0..MaxU64
      PROVE  LET line == BalanceLine(i, mint, held, unit)
             IN  /\ IsEntryLine(line) /\ line[2].text = mint /\ line[4].text = unit
                 /\ line[3].number = held[[mint_url |-> mint, unit |-> unit]]
  <2> DEFINE v == held[[mint_url |-> mint, unit |-> unit]]
             a == Index(i - 1)
             b == Url(mint)
             c == Number(v)
             d == Word(unit)
             line == BalanceLine(i, mint, held, unit)
  <2>1. a.index = TRUE /\ b.text = mint /\ c.number = v /\ d.text = unit
    BY IndexFields, UrlFields, NumberFields, WordFields
  <2>2. line = <<a, b, c, d>>
    BY DEF BalanceLine
  <2> HIDE DEF a, b, c, d, line
  <2>3. Len(line) = 4 /\ line[1] = a /\ line[2] = b /\ line[3] = c /\ line[4] = d
    BY <1>1, <2>2
  <2>4. v \in 0..MaxU64 /\ v # None
    BY <1>5, SomethingAssumption
  <2> HIDE DEF v
  <2>5. v <= MaxU64
    BY <2>4, WalletAssumption
  <2>6. line[3].number = v /\ line[2].text = mint /\ line[4].text = unit /\ line[1].index
    BY <2>1, <2>3
  <2>7. IsEntryLine(line)
    BY <2>3, <2>4, <2>5, <2>6 DEF IsEntryLine
  <2> QED  BY <2>6, <2>7 DEF line, v
<1> QED  BY <1>2, <1>3, <1>4, <1>5

\* The balance is printed as a line that is no entry, the lines of the mints, and two
\* that are none either.
LEMMA BalanceLines ==
  ASSUME NEW held \in [Account -> 0..MaxU64], NEW unit \in Units,
         NEW mints, mints = SetToSeq(Mints), NEW out, out = PrintBalance(held, unit),
         NEW n, n = Len(mints)
  PROVE  /\ DOMAIN out = 1..n + 3
         /\ ~IsEntryLine(out[1]) /\ ~IsEntryLine(out[n + 2]) /\ ~IsEntryLine(out[n + 3])
         /\ \A i \in 1..n : out[i + 1] = BalanceLine(i, mints[i], held, unit)
<1> DEFINE r == Recovered(1)
           e == <<>>
           t == <<Word("Total"), Word("balance"), Number(MaxU64), Word(unit)>>
           lines == [i \in DOMAIN mints |-> BalanceLine(i, mints[i], held, unit)]
           X == {r, e, t} \cup {lines[i] : i \in 1..n}
           head == <<r>>
           tail == <<e, t>>
<1>1. out = head \o lines \o tail
  BY DEF PrintBalance, BalanceLine
<1>2. ~IsEntryLine(r) /\ ~IsEntryLine(e) /\ ~IsEntryLine(t)
  BY EntryLines
<1>3. n \in Nat /\ DOMAIN mints = 1..n
  BY MintsInOrder, LenProperties
<1>4. r \in X /\ e \in X /\ t \in X /\ \A i \in 1..n : lines[i] \in X
  OBVIOUS
<1>5. lines = [i \in 1..n |-> BalanceLine(i, mints[i], held, unit)]
  BY <1>3
<1> HIDE DEF r, e, t, lines, X
<1>6. lines \in Seq(X) /\ Len(lines) = n
  <2>1. lines \in [1..n -> X]
    BY <1>4, <1>5
  <2> QED  BY <1>3, <2>1, IsASeq, LenProperties
<1>7. head \in Seq(X) /\ tail \in Seq(X) /\ Len(head) = 1 /\ head[1] = r
      /\ Len(tail) = 2 /\ tail[1] = e /\ tail[2] = t
  BY <1>4
<1> HIDE DEF head, tail
<1> DEFINE front == head \o lines
<1>8. /\ front \in Seq(X) /\ Len(front) = n + 1
      /\ \A i \in 1..n + 1 : front[i] = IF i <= 1 THEN head[i] ELSE lines[i - 1]
  <2>1. /\ front \in Seq(X) /\ Len(front) = Len(head) + Len(lines)
        /\ \A i \in 1..Len(head) + Len(lines) :
             front[i] = IF i <= Len(head) THEN head[i] ELSE lines[i - Len(head)]
    BY <1>6, <1>7, ConcatProperties
  <2>2. Len(head) = 1 /\ Len(head) + Len(lines) = n + 1
    BY <1>3, <1>6, <1>7
  <2> HIDE DEF front
  <2> QED  BY <2>1, <2>2
<1>9. out = front \o tail
  BY <1>1
<1> HIDE DEF front
<1>10. /\ out \in Seq(X) /\ Len(out) = n + 3
       /\ \A i \in 1..n + 3 : out[i] = IF i <= n + 1 THEN front[i] ELSE tail[i - (n + 1)]
  <2>1. /\ out \in Seq(X) /\ Len(out) = Len(front) + Len(tail)
        /\ \A i \in 1..Len(front) + Len(tail) :
             out[i] = IF i <= Len(front) THEN front[i] ELSE tail[i - Len(front)]
    <3>1. front \in Seq(X) /\ tail \in Seq(X)
      BY <1>7, <1>8
    <3> QED  BY <1>9, <3>1, ConcatProperties
  <2>2. Len(front) = n + 1 /\ Len(front) + Len(tail) = n + 3
    BY <1>3, <1>7, <1>8
  <2> QED  BY <2>1, <2>2
<1>11. DOMAIN out = 1..n + 3
  BY <1>10, LenProperties
<1>12. out[1] = r
  <2>1. 1 \in 1..n + 3 /\ 1 <= n + 1 /\ 1 \in 1..n + 1
    BY <1>3
  <2> QED  BY <1>7, <1>8, <1>10, <2>1
<1>13. out[n + 2] = e /\ out[n + 3] = t
  <2>1. n + 2 \in 1..n + 3 /\ n + 3 \in 1..n + 3 /\ ~(n + 2 <= n + 1) /\ ~(n + 3 <= n + 1)
        /\ n + 2 - (n + 1) = 1 /\ n + 3 - (n + 1) = 2
    BY <1>3
  <2> QED  BY <1>7, <1>10, <2>1
<1>14. ASSUME NEW i \in 1..n PROVE out[i + 1] = BalanceLine(i, mints[i], held, unit)
  <2>1. i + 1 \in 1..n + 3 /\ i + 1 <= n + 1 /\ i + 1 \in 1..n + 1 /\ ~(i + 1 <= 1)
        /\ i + 1 - 1 = i
    BY <1>3
  <2>2. out[i + 1] = lines[i]
    BY <1>8, <1>10, <2>1
  <2> QED  BY <1>5, <2>2
<1> QED  BY <1>2, <1>11, <1>12, <1>13, <1>14

\* What the balance of an account is read as is what the wallet holds there.
LEMMA BalanceIsRead ==
  ASSUME NEW held \in [Account -> 0..MaxU64], NEW account \in Account
  PROVE  BalanceAmount(ParseBalanceEntries(PrintBalance(held, account.unit)), account)
           = held[account]
<1> DEFINE unit  == account.unit
           mint  == account.mint_url
           mints == SetToSeq(Mints)
           n     == Len(mints)
           out   == PrintBalance(held, unit)
           entries == ParseBalanceEntries(out)
           own(i) == entries[i].mint_url = mint /\ entries[i].unit = unit
           mine  == {i \in DOMAIN entries : own(i)}
<1>1. unit \in Units /\ mint \in Mints /\ account = [mint_url |-> mint, unit |-> unit]
      /\ held[account] \in 0..MaxU64
  BY DEF Account
<1>2. n \in Nat /\ \A i \in 1..n : mints[i] \in Mints
  BY MintsInOrder, LenProperties, ElementOfSeq
<1>3. PICK k \in 1..n : mints[k] = mint
  BY <1>1, MintsInOrder
<1>4. \A i \in 1..n : mints[i] = mint => i = k
  BY <1>3, MintsInOrder
<1>5. /\ DOMAIN out = 1..n + 3
      /\ ~IsEntryLine(out[1]) /\ ~IsEntryLine(out[n + 2]) /\ ~IsEntryLine(out[n + 3])
      /\ \A i \in 1..n : out[i + 1] = BalanceLine(i, mints[i], held, unit)
  <2>1. mints = SetToSeq(Mints) /\ out = PrintBalance(held, unit) /\ n = Len(mints)
    OBVIOUS
  <2>2. unit \in Units
    BY <1>1
  <2> HIDE DEF out, mints, n, unit, mint
  <2>3. DOMAIN out = 1..n + 3
    BY <2>1, <2>2, BalanceLines
  <2>4. ~IsEntryLine(out[1]) /\ ~IsEntryLine(out[n + 2]) /\ ~IsEntryLine(out[n + 3])
    BY <2>1, <2>2, BalanceLines
  <2>5. ASSUME NEW i \in 1..n PROVE out[i + 1] = BalanceLine(i, mints[i], held, unit)
    BY <2>1, <2>2, BalanceLines
  <2> QED  BY <2>3, <2>4, <2>5
<1>6. /\ DOMAIN entries = {j \in DOMAIN out : IsEntryLine(out[j])}
      /\ \A j \in DOMAIN entries :
           entries[j] = [mint_url |-> out[j][2].text, amount |-> out[j][3].number,
                         unit |-> out[j][4].text]
  BY DEF ParseBalanceEntries, IsEntryLine
<1>7. BalanceAmount(entries, account) = MapThenSumSet(LAMBDA i : entries[i].amount, mine)
  BY DEF BalanceAmount
<1> HIDE DEF entries, out, mints, n, unit, mint
<1>8. ASSUME NEW i \in 1..n
      PROVE  /\ i + 1 \in DOMAIN entries
             /\ entries[i + 1].mint_url = mints[i] /\ entries[i + 1].unit = unit
             /\ entries[i + 1].amount = held[[mint_url |-> mints[i], unit |-> unit]]
  <2> DEFINE line == BalanceLine(i, mints[i], held, unit)
  <2>1. held[[mint_url |-> mints[i], unit |-> unit]] \in 0..MaxU64
    BY <1>1, <1>2 DEF Account
  <2>2. /\ IsEntryLine(line) /\ line[2].text = mints[i] /\ line[4].text = unit
        /\ line[3].number = held[[mint_url |-> mints[i], unit |-> unit]]
    BY <2>1, EntryLines
  <2>3. i + 1 \in DOMAIN out /\ out[i + 1] = line
    BY <1>2, <1>5
  <2> HIDE DEF line
  <2> QED  BY <1>6, <2>2, <2>3
<1>9. ASSUME NEW j \in DOMAIN entries PROVE \E i \in 1..n : j = i + 1
  <2>1. j \in 1..n + 3 /\ j # 1 /\ j # n + 2 /\ j # n + 3
    BY <1>5, <1>6
  <2>2. j - 1 \in 1..n /\ j = (j - 1) + 1
    BY <1>2, <2>1
  <2> QED  BY <2>2
<1>10. mine = {k + 1}
  <2>1. k + 1 \in mine
    BY <1>3, <1>8
  <2>2. ASSUME NEW j \in mine PROVE j = k + 1
    <3>1. PICK i \in 1..n : j = i + 1
      BY <1>9
    <3>2. mints[i] = mint
      BY <1>8, <3>1
    <3> QED  BY <1>4, <3>1, <3>2
  <2> HIDE DEF mine
  <2> QED  BY <2>1, <2>2
<1>11. entries[k + 1].amount = held[account]
  BY <1>1, <1>3, <1>8
<1>12. entries[k + 1].amount \in Nat
  BY <1>1, <1>11
<1> HIDE DEF mine
<1>13. MapThenSumSet(LAMBDA i : entries[i].amount, {k + 1}) = entries[k + 1].amount
  BY <1>12, SumOfOne
<1>14. BalanceAmount(entries, account) = held[account]
  BY <1>7, <1>10, <1>11, <1>13
<1> QED  BY <1>14 DEF entries, out, unit
-----------------------------------------------------------------------------
(***************************************************************************)
(* The claim.                                                              *)
(***************************************************************************)
\* What the two streams say together: the amount if there is one, or nothing.
LEMMA PrintedAmount ==
  ASSUME credit' \in 0..MaxU64, NEW output \in PrintReceived,
         NEW printed,
         printed = OrElse(ParseReceivedAmount(output[1]), ParseReceivedAmount(output[2]))
  PROVE  printed = None \/ (printed = credit' /\ credit' # 0)
<1> DEFINE said(chatter) == chatter \o <<ReceivedLine(credit')>>
           both == {Streams(said(chatter)) : chatter \in Chatter}
           a == ParseReceivedAmount(output[1])
           b == ParseReceivedAmount(output[2])
           n == credit'
<1>1. PrintReceived = {<<chatter, <<>>>> : chatter \in Chatter} \cup UNION both
  BY DEF PrintReceived, ReceivedLine
<1>2. \E chatter \in Chatter : \/ output = <<chatter, <<>>>>
                               \/ output = <<said(chatter), <<>>>>
                               \/ output = <<<<>>, said(chatter)>>
  <2>1. CASE output \in {<<chatter, <<>>>> : chatter \in Chatter}
    BY <2>1
  <2>2. CASE output \in UNION both
    <3>1. PICK pair \in both : output \in pair
      <4> HIDE DEF both
      <4> QED  BY <2>2
    <3>2. PICK chatter \in Chatter : output \in Streams(said(chatter))
      <4> HIDE DEF said
      <4> QED  BY <3>1
    <3>3. output = <<said(chatter), <<>>>> \/ output = <<<<>>, said(chatter)>>
      <4> HIDE DEF said
      <4> QED  BY <3>2 DEF Streams
    <3> HIDE DEF said
    <3> QED  BY <3>3
  <2> HIDE DEF both
  <2> QED  BY <1>1, <2>1, <2>2
<1>3. PICK chatter \in Chatter : \/ output = <<chatter, <<>>>>
                                 \/ output = <<said(chatter), <<>>>>
                                 \/ output = <<<<>>, said(chatter)>>
  <2> HIDE DEF said
  <2> QED  BY <1>2
<1>4. ParseReceivedAmount(<<>>) = None
  BY NothingPrinted
<1>5. ParseReceivedAmount(chatter) = None
  BY ReceivedIsRead
<1>6. ParseReceivedAmount(said(chatter)) = IF n = 0 THEN None ELSE n
  BY ReceivedIsRead
<1> HIDE DEF said
<1>7. /\ a = None \/ (a = n /\ n # 0)
      /\ b = None \/ (b = n /\ n # 0)
  <2>1. CASE output = <<chatter, <<>>>>
    <3>1. output[1] = chatter /\ output[2] = <<>>
      BY <2>1
    <3> QED  BY <1>4, <1>5, <3>1
  <2>2. CASE output = <<said(chatter), <<>>>>
    <3>1. output[1] = said(chatter) /\ output[2] = <<>>
      BY <2>2
    <3> QED  BY <1>4, <1>6, <3>1
  <2>3. CASE output = <<<<>>, said(chatter)>>
    <3>1. output[1] = <<>> /\ output[2] = said(chatter)
      BY <2>3
    <3> QED  BY <1>4, <1>6, <3>1
  <2> QED  BY <1>3, <2>1, <2>2, <2>3
<1>8. printed = IF a # None THEN a ELSE b
  BY DEF OrElse
<1> HIDE DEF a, b, n
<1>9. printed = None \/ (printed = n /\ n # 0)
  BY <1>7, <1>8
<1> QED  BY <1>9 DEF n

\* The client claims what a receive has added to the balance, and fails if that is
\* nothing, also when neither stream names it.
LEMMA ClaimIsRead ==
  ASSUME credit' \in 0..MaxU64, NEW output \in PrintReceived,
         NEW before \in [Account -> 0..MaxU64], NEW after \in [Account -> 0..MaxU64],
         NEW account \in Account, after[account] = before[account] + credit'
  PROVE  ClaimedAmount(output[1], output[2],
                       ParseBalanceEntries(PrintBalance(before, account.unit)),
                       ParseBalanceEntries(PrintBalance(after, account.unit)),
                       account)
           = IF credit' = 0 THEN None ELSE credit'
<1> DEFINE printed == OrElse(ParseReceivedAmount(output[1]), ParseReceivedAmount(output[2]))
           first   == ParseBalanceEntries(PrintBalance(before, account.unit))
           second  == ParseBalanceEntries(PrintBalance(after, account.unit))
           b == BalanceAmount(first, account)
           a == BalanceAmount(second, account)
           n == credit'
<1>1. b = before[account] /\ a = after[account]
  BY BalanceIsRead
<1>2. printed = None \/ (printed = n /\ n # 0)
  BY PrintedAmount
<1>3. n \in Nat /\ n # None /\ before[account] \in Nat /\ 0 # None
  BY WalletAssumption, SomethingAssumption
<1>4. ReceivedDelta(first, second, account) = IF b <= a THEN a - b ELSE None
  BY DEF ReceivedDelta
<1>5. ClaimedAmount(output[1], output[2], first, second, account)
        = LET claimed == IF printed # None THEN printed
                         ELSE ReceivedDelta(first, second, account)
          IN  IF claimed = 0 THEN None ELSE claimed
  BY DEF ClaimedAmount, OrElse
<1> HIDE DEF a, b, first, second, printed, n
<1>6. ReceivedDelta(first, second, account) = n
  <2>1. a = b + n /\ b \in Nat
    BY <1>1, <1>3 DEF n
  <2> QED  BY <1>3, <1>4, <2>1
<1>7. ClaimedAmount(output[1], output[2], first, second, account) = IF n = 0 THEN None ELSE n
  BY <1>2, <1>5, <1>6
<1> QED  BY <1>7 DEF first, second, n
-----------------------------------------------------------------------------
(***************************************************************************)
(* The invariant: until the claim nothing is claimed and nothing has come  *)
(* in, and the wallet holds no more than it can take besides a token.      *)
(***************************************************************************)
InputOK ==
  /\ token \in [account : Account, value : Amounts]
  /\ step \in {"offered", "decoded", "claimed", "changed", "refused"}

BeforeTheClaim ==
  /\ step \in {"offered", "decoded"} => purse \in [Account -> Amounts] /\ amount = None /\ credit = 0
  /\ step = "offered" => metadata = None

WalletInv ==
  /\ InputOK
  /\ BeforeTheClaim
  /\ MetadataIsTheTokens
  /\ ClaimIsTheCredit
  /\ ChangeIsTheTokenSent

\* The invariant holds: every step reads what the wallet has printed for it.
THEOREM WalletInvariant == Spec => []WalletInv
<1>1. Init => WalletInv
  BY DEF Init, WalletInv, InputOK, BeforeTheClaim, MetadataIsTheTokens, ClaimIsTheCredit,
         ChangeIsTheTokenSent
<1>2. WalletInv /\ [Next]_vars => WalletInv'
  <2> SUFFICES ASSUME WalletInv, [Next]_vars PROVE WalletInv'
    OBVIOUS
  <2> USE DEF WalletInv
  <2>1. CASE DecodeToken
    <3>1. /\ step = "offered" /\ UNCHANGED <<prices, token, purse, amount, change, credit>>
          /\ step' = IF metadata' \in prices THEN "decoded" ELSE "refused"
      BY <2>1 DEF DecodeToken
    <3>2. PICK output \in PrintToken :
            metadata' = OrElse(ParseTokenMetadata(output[1], prices),
                               ParseTokenMetadata(output[2], prices))
      BY <2>1 DEF DecodeToken
    <3>3. MetadataIsTheTokens'
      <4>1. ASSUME metadata' # None, token.account.unit \in UniqueUnits(prices)
            PROVE  metadata' = token.account
        <5>1. token.account \in Account
          BY DEF InputOK
        <5> QED  BY <3>2, <4>1, <5>1, TokenIsRead
      <4> QED  BY <3>1, <4>1 DEF MetadataIsTheTokens
    <3>4. step' \in {"decoded", "refused"}
      BY <3>1
    <3> QED  BY <3>1, <3>3, <3>4 DEF InputOK, BeforeTheClaim, ClaimIsTheCredit, ChangeIsTheTokenSent
  <2>2. CASE Claim
    <3>1. /\ step = "decoded" /\ metadata = token.account
          /\ credit' \in 0..token.value
          /\ purse' = [purse EXCEPT ![metadata] = @ + credit']
          /\ step' = IF amount' = None THEN "refused" ELSE "claimed"
          /\ UNCHANGED <<prices, token, metadata, change>>
      BY <2>2 DEF Claim
    <3>2. PICK output \in PrintReceived :
            amount' = ClaimedAmount(output[1], output[2],
                                    ParseBalanceEntries(PrintBalance(purse, metadata.unit)),
                                    ParseBalanceEntries(PrintBalance(purse', metadata.unit)),
                                    metadata)
      BY <2>2 DEF Claim
    <3>3. /\ metadata \in Account /\ token.value \in Amounts
          /\ purse \in [Account -> Amounts]
      BY <3>1 DEF InputOK, BeforeTheClaim
    <3>4. credit' \in 0..MaxU64 /\ purse[metadata] + credit' \in 0..MaxU64
      <4> DEFINE p == purse[metadata]
                 v == token.value
                 c == credit'
      <4>1. p \in Amounts /\ v \in Amounts /\ c \in 0..v
        BY <3>1, <3>3
      <4> HIDE DEF p, v, c
      <4>2. p \in Nat /\ v \in Nat /\ p + v <= MaxU64 /\ MaxU64 \in Nat
        BY <4>1, WalletAssumption
      <4>3. c \in 0..MaxU64 /\ p + c \in 0..MaxU64
        BY <4>1, <4>2
      <4> QED  BY <4>3 DEF p, c
    <3>5. /\ purse \in [Account -> 0..MaxU64] /\ purse' \in [Account -> 0..MaxU64]
          /\ purse'[metadata] = purse[metadata] + credit'
      <4>1. \A v \in Amounts : v \in 0..MaxU64
        <5>1. ASSUME NEW v \in Amounts PROVE v \in 0..MaxU64
          <6>1. v \in Nat /\ v + v <= MaxU64 /\ MaxU64 \in Nat
            BY WalletAssumption
          <6> QED  BY <6>1
        <5> QED  BY <5>1
      <4>2. purse \in [Account -> 0..MaxU64]
        BY <3>3, <4>1
      <4> QED  BY <3>1, <3>3, <3>4, <4>2
    <3>6. amount' = IF credit' = 0 THEN None ELSE credit'
      BY <3>2, <3>3, <3>4, <3>5, ClaimIsRead
    <3>7. ClaimIsTheCredit'
      <4>1. credit' \in Nat /\ credit' # None
        BY <3>4, SomethingAssumption
      <4>2. CASE credit' = 0
        BY <3>1, <3>6, <4>2 DEF ClaimIsTheCredit
      <4>3. CASE credit' # 0
        <5>1. amount' = credit' /\ credit' > 0
          BY <3>6, <4>1, <4>3
        <5> QED  BY <3>1, <4>1, <5>1 DEF ClaimIsTheCredit
      <4> QED  BY <4>2, <4>3
    <3> QED  BY <3>1, <3>7 DEF InputOK, BeforeTheClaim, MetadataIsTheTokens, ChangeIsTheTokenSent
  <2>3. CASE SendChange
    <3>1. /\ step = "claimed" /\ step' = "changed"
          /\ UNCHANGED <<prices, token, purse, metadata, amount, credit>>
      BY <2>3 DEF SendChange
    <3>2. change' = Change
      BY <2>3, ChangeIsRead DEF SendChange
    <3> QED  BY <3>1, <3>2 DEF InputOK, BeforeTheClaim, MetadataIsTheTokens, ClaimIsTheCredit,
                               ChangeIsTheTokenSent
  <2>4. CASE UNCHANGED vars
    BY <2>4 DEF vars, InputOK, BeforeTheClaim, MetadataIsTheTokens, ClaimIsTheCredit,
                ChangeIsTheTokenSent
  <2> QED  BY <2>1, <2>2, <2>3, <2>4 DEF Next
<1> QED  BY <1>1, <1>2, PTL DEF Spec

\* Whatever mint a token is of, however its unit is spelled and whatever its memo
\* mentions: if its unit is configured, it is taken for what it is or refused.
THEOREM TokensAreRead == Spec => []MetadataIsTheTokens
BY WalletInvariant, PTL DEF WalletInv

\* The amount claimed is the amount that came into the wallet, for any balances it held.
THEOREM CreditIsClaimed == Spec => []ClaimIsTheCredit
BY WalletInvariant, PTL DEF WalletInv

\* The change token published is the one the wallet made.
THEOREM ChangeIsFound == Spec => []ChangeIsTheTokenSent
BY WalletInvariant, PTL DEF WalletInv
=============================================================================
