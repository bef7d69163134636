--------------------------- MODULE MCWalletOutput ---------------------------
(***************************************************************************)
(* Two mints, one of which has the name of a unit in its URL, two units,   *)
(* one of which the tool may capitalise, and memos that mention either.    *)
(***************************************************************************)
EXTENDS WalletOutputCheck, TLC

CONSTANTS plain, satmint

MCLower(w) == IF w \in {"Sat", "Received"} THEN ("Sat" :> "sat" @@ "Received" :> "received")[w]
              ELSE w

MCWordsOf  == (plain :> {"https", "mint", "example"}) @@ (satmint :> {"https", "sat", "example"})
MCSpelling == ("sat" :> {"sat", "Sat"}) @@ ("usd" :> {"usd"})
MCMemos    == {<<>>, <<Word("thanks"), Number(7)>>, <<Word("usd")>>, <<Url(plain)>>}
=============================================================================
