----------------------------- MODULE MCAccounts -----------------------------
(* Accounts for TLC: a name with a capital and one with a blank at its end,  *)
(* a password, and one with a blank at its end to change it to.              *)
EXTENDS Accounts

MCTexts == {"Bob", "bob", "al ", "al", "p", "q ", "q"}

MCTrim == [t \in MCTexts |->
            CASE t = "al " -> "al" [] t = "q " -> "q"
              [] OTHER -> t]
MCLower == [t \in MCTexts |-> IF t = "Bob" THEN "bob" ELSE t]
=============================================================================
