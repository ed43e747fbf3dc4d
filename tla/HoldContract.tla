---------------------------- MODULE HoldContract ----------------------------
(***************************************************************************)
(* What the billing of a batch image job promises its user: the hold is    *)
(* frozen once; then it is spent once, for the price of the output and     *)
(* while the job is open, or given back once, but not both; the verdict on *)
(* the job is final, it is "paid" only after the charge and "refused" only *)
(* without one.  An exempt job keeps its accounts and its verdict but may  *)
(* be charged, given back and refused in any order.                        *)
(*                                                                         *)
(* A release that comes before the hold is used up: a hold that is frozen  *)
(* after it can only be spent.                                             *)
(***************************************************************************)
EXTENDS Integers

CONSTANTS Hold, Prices

VARIABLES
  balance, frozen,  \* the user's balances
  taken,            \* has the hold been frozen?
  charged,          \* has it been spent?
  released,         \* "no", "skipped" (there was nothing to give back), "done"
  price,            \* the price of the output
  verdict,          \* "open", "paid" or "refused"
  exempt            \* is the job exempt?

books == <<balance, frozen, taken, charged, released>>
contractVars == <<books, price, verdict, exempt>>

Init == /\ balance \in Nat /\ frozen \in Nat
        /\ taken = FALSE /\ charged = FALSE /\ released = "no"
        /\ price = 0 /\ verdict = "open" /\ exempt = FALSE

Take == /\ ~taken /\ balance >= Hold /\ verdict # "paid"
        /\ taken' = TRUE
        /\ balance' = balance - Hold /\ frozen' = frozen + Hold
        /\ UNCHANGED <<charged, released, price, verdict, exempt>>

\* The output is priced, before it is charged.
Quote == /\ ~charged /\ price' \in Prices
         /\ UNCHANGED <<books, verdict, exempt>>

\* A charge may be reported as failed, which exempts the job.
Charge == /\ taken /\ ~charged /\ price <= Hold /\ frozen >= Hold
          /\ exempt \/ (verdict = "open" /\ released # "done")
          /\ charged' = TRUE
          /\ balance' = balance + (Hold - price) /\ frozen' = frozen - Hold
          /\ UNCHANGED exempt \/ exempt' = TRUE
          /\ UNCHANGED <<taken, released, price, verdict>>

GiveBack == /\ released = "no" /\ taken /\ frozen >= Hold
            /\ exempt \/ ~charged
            /\ released' = "done"
            /\ balance' = balance + Hold /\ frozen' = frozen - Hold
            /\ UNCHANGED <<taken, charged, price, verdict, exempt>>

Skip == /\ released = "no" /\ ~taken
        /\ released' = "skipped"
        /\ UNCHANGED <<balance, frozen, taken, charged, price, verdict, exempt>>

Pay == /\ verdict = "open" /\ charged
       /\ exempt \/ released # "done"
       /\ verdict' = "paid"
       /\ UNCHANGED <<books, price, exempt>>

Refuse == /\ verdict = "open"
          /\ exempt \/ ~charged
          /\ verdict' = "refused"
          /\ UNCHANGED <<books, price, exempt>>

Exempt == /\ exempt' = TRUE
          /\ UNCHANGED <<books, price, verdict>>

Next == Take \/ Quote \/ Charge \/ GiveBack \/ Skip \/ Pay \/ Refuse \/ Exempt

Spec == Init /\ [][Next]_contractVars
=============================================================================
