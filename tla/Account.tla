------------------------------- MODULE Account -------------------------------
(***************************************************************************)
(* What a credit wallet promises to the rest of the platform, whatever     *)
(* the interleaving of the requests, claims and cron jobs that write it:   *)
(* an account that is opened once, whose balance moves only together with  *)
(* a row of the ledger, and that no charge or debit takes below zero.      *)
(*                                                                         *)
(* CreditWallet.tla implements this specification.                         *)
(***************************************************************************)
EXTENDS Integers, Sequences

VARIABLES
    open,       \* has the account been opened?
    balance,    \* whole credits
    rows        \* the ledger, in commit order, without the opening row

vars == <<open, balance, rows>>

Init ==
    /\ open = FALSE
    /\ balance = 0
    /\ rows = << >>

(* The account is opened, with whatever the plan grants. *)
Open ==
    /\ ~ open
    /\ open' = TRUE
    /\ balance' \in Int
    /\ UNCHANGED rows

(* One row is posted: it moves the balance, and it records the balance it  *)
(* left. A debit must be covered, unless it takes back an earlier credit.  *)
Post ==
    LET row == rows'[Len(rows')] IN
    /\ open
    /\ rows' # << >>
    /\ rows' = Append(rows, row)
    /\ balance' = balance + row.amount
    /\ row.after = balance'
    /\ (row.amount < 0 /\ row.type # "refund") => balance' >= 0
    /\ UNCHANGED open

Next == Open \/ Post

Spec == Init /\ [][Next]_vars
==============================================================================
