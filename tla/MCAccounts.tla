----------------------------- MODULE MCAccounts ------------------------------
(* A small instance of Accounts: one account with a session and a portfolio,
   a second address in two spellings, one price partition.                 *)
EXTENDS Accounts, TLC

Spelled == "Ann" :> "ann" @@ "bob" :> "bob" @@ "Bob" :> "bob"
Texts   == "pass" :> "pass" @@ "word" :> "word"
Padded  == "pass " :> "pass" @@ "pass" :> "pass"

AnnsAccount   == "u1" :> [mail |-> "ann", hash |-> "pass"]
AnnsSession   == "s1" :> [user |-> "u1", expires |-> 1, revoked |-> FALSE]
AnnsPortfolio == "p1" :> "u1"
=============================================================================
