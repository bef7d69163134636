---------------------------- MODULE MCJobHandler ----------------------------
(***************************************************************************)
(* Small instances of JobHandler for TLC.  Twin: two requests carry the    *)
(* same token.  Odd: one request of every kind the handler turns away.     *)
(***************************************************************************)
EXTENDS JobHandler

\* A price of 2 per second, a minimum of 1 second: a payment of 5 buys two
\* seconds and leaves 1, one of 3 buys one and leaves 1.
MCPrices == <<[account |-> "sat", price_per_second |-> 2]>>

Job(to, token, slot) ==
  [job_kind |-> TRUE, to |-> to, payment |-> <<token>>, sealed_for |-> slot]

\* Runtimes of nothing to more than was paid for, and a worker that itself
\* speaks of a refund that failed.
MCReplies ==
  [status : {"success", "timeout"}, elapsed : 0..3, errors : {{}}]
  \cup {[status |-> "failure", elapsed |-> 1, errors |-> {"refund"}]}

\* Workers without errors of their own.
PlainReplies == {reply \in MCReplies : reply.errors = {}}

\* Two requests addressed to the same slot carry the same token.
TwinEvents    == {"first", "second"}
TwinTokens    == {"large"}
TwinAccounts  == {"sat"}
TwinSlots     == {0, 1}
TwinRequest   == [first |-> Job({0}, "large", 0), second |-> Job({0, 1}, "large", 0)]
TwinAccountOf == [large |-> "sat"]
TwinValue     == [large |-> 5]
TwinLock      == [large |-> 0]

\* One request of each kind that is turned away, before or after the receive.
OddEvents == {"other_kind", "two_tokens", "sealed", "ambiguous", "unpriced",
              "foreign_lock", "underpaid"}
OddTokens == {"mixed", "euro", "locked", "poor"}
OddAccounts == {"sat", "eur"}
OddRequest ==
  [e \in OddEvents |->
     CASE e = "other_kind"   -> [Job({0}, "poor", 0) EXCEPT !.job_kind = FALSE]
       [] e = "two_tokens"   -> [Job({0}, "poor", 0) EXCEPT !.payment = <<"poor", "locked">>]
       [] e = "sealed"       -> Job({0, 1}, "poor", 1)
       [] e = "ambiguous"    -> Job({0}, "mixed", 0)
       [] e = "unpriced"     -> Job({0}, "euro", 0)
       [] e = "foreign_lock" -> Job({0, 1}, "locked", 0)
       [] e = "underpaid"    -> Job({0}, "poor", 0)]
OddAccountOf == [mixed |-> None, euro |-> "eur", locked |-> "sat", poor |-> "sat"]
OddValue     == [mixed |-> 5, euro |-> 5, locked |-> 5, poor |-> 1]
OddLock      == [mixed |-> 0, euro |-> 0, locked |-> 1, poor |-> None]
=============================================================================
