------------------------- MODULE CreditWallet_proofs -------------------------
(***************************************************************************)
(* Theorems about CreditWallet, for every set of requests, claims and      *)
(* replicas, every plan table and every bound.                             *)
(***************************************************************************)
EXTENDS CreditWallet, WellFoundedInduction, FiniteSetTheorems, TLAPS

(* The history variables only ever stand for their parts.                  *)
USE DEF history, chargeHistory, claimHistory

(* Rounding parts to whole credits leaves a fraction of a credit.          *)
LEMMA WholeBounds ==
    ASSUME NEW parts \in Nat
    PROVE  /\ Whole(parts) \in Nat
           /\ parts - Whole(parts) * Unit \in Nat
           /\ parts - Whole(parts) * Unit < Unit
           /\ Ceiling(parts) \in Int
  BY UnitAssumption DEF Whole, Ceiling

(* Months of days are numbered from 1.                                     *)
LEMMA MonthOfType ==
    ASSUME NEW d \in Nat
    PROVE  MonthOf(d) \in Nat
  BY CalendarAssumption DEF MonthOf

(* Posting a row keeps the types of the wallet and of the ledger.          *)
LEMMA PostType ==
    ASSUME NEW type \in RowTypes, NEW amount \in Int, NEW d \in Nat, NEW w \in Wallet,
           ledger \in Seq(LedgerRow),
           Post(type, amount, d, w)
    PROVE  /\ wallet' \in Wallet
           /\ ledger' \in Seq(LedgerRow)
  <1>1. wallet' \in Wallet
    <2>1. w.balance + amount \in Int
      BY DEF Wallet
    <2>2. ASSUME NEW b \in Int PROVE [w EXCEPT !.balance = b] \in Wallet
      BY DEF Wallet
    <2>3. wallet' = [w EXCEPT !.balance = w.balance + amount]
      BY DEF Post
    <2>4. QED
      BY <2>1, <2>2, <2>3
  <1>2. [type |-> type, amount |-> amount, after |-> w.balance + amount, day |-> d] \in LedgerRow
    BY DEF LedgerRow, Wallet
  <1>3. ledger' \in Seq(LedgerRow)
    BY <1>2 DEF Post
  <1>4. QED
    BY <1>1, <1>3


(* What a request may be turned into, field by field.                      *)
LEMMA RequestType ==
    ASSUME NEW r \in Requests, NEW q \in [Requests -> RequestState]
    PROVE  /\ IdleRequest \in RequestState
           /\ \A s \in RequestState : [q EXCEPT ![r] = s] \in [Requests -> RequestState]
           /\ \A pc \in RequestPcs : [q EXCEPT ![r].pc = pc] \in [Requests -> RequestState]
           /\ \A pc \in RequestPcs, n \in Nat :
                /\ [q EXCEPT ![r].pc = pc, ![r].cost = n] \in [Requests -> RequestState]
                /\ [q EXCEPT ![r].pc = pc, ![r].pending = n] \in [Requests -> RequestState]
           /\ \A pc \in RequestPcs, n \in Int :
                [IdleRequest EXCEPT !.pc = pc, !.credits = n] \in RequestState
           /\ \A pc \in RequestPcs : [IdleRequest EXCEPT !.pc = pc] \in RequestState
  <1>1. IdleRequest \in RequestState
    BY DEF IdleRequest, RequestState, RequestPcs
  <1>2. q[r] \in RequestState
    OBVIOUS
  <1>3. ASSUME NEW s \in RequestState
        PROVE  [q EXCEPT ![r] = s] \in [Requests -> RequestState]
    OBVIOUS
  <1>4. ASSUME NEW pc \in RequestPcs
        PROVE  /\ [q EXCEPT ![r].pc = pc] \in [Requests -> RequestState]
               /\ [IdleRequest EXCEPT !.pc = pc] \in RequestState
    <2>1. [q[r] EXCEPT !.pc = pc] \in RequestState
      BY <1>2 DEF RequestState
    <2>2. [IdleRequest EXCEPT !.pc = pc] \in RequestState
      BY <1>1 DEF RequestState
    <2>3. [q EXCEPT ![r].pc = pc] = [q EXCEPT ![r] = [q[r] EXCEPT !.pc = pc]]
      OBVIOUS
    <2>4. QED
      BY <2>1, <2>2, <2>3, <1>3
  <1>5. ASSUME NEW pc \in RequestPcs, NEW n \in Nat
        PROVE  /\ [q EXCEPT ![r].pc = pc, ![r].cost = n] \in [Requests -> RequestState]
               /\ [q EXCEPT ![r].pc = pc, ![r].pending = n] \in [Requests -> RequestState]
    <2>1. [q[r] EXCEPT !.pc = pc, !.cost = n] \in RequestState
      BY <1>2 DEF RequestState
    <2>2. [q[r] EXCEPT !.pc = pc, !.pending = n] \in RequestState
      BY <1>2 DEF RequestState
    <2>3. [q EXCEPT ![r].pc = pc, ![r].cost = n] = [q EXCEPT ![r] = [q[r] EXCEPT !.pc = pc, !.cost = n]]
      OBVIOUS
    <2>4. [q EXCEPT ![r].pc = pc, ![r].pending = n] = [q EXCEPT ![r] = [q[r] EXCEPT !.pc = pc, !.pending = n]]
      OBVIOUS
    <2>5. QED
      BY <2>1, <2>2, <2>3, <2>4, <1>3
  <1>6. ASSUME NEW pc \in RequestPcs, NEW n \in Int
        PROVE  [IdleRequest EXCEPT !.pc = pc, !.credits = n] \in RequestState
    BY <1>1 DEF RequestState
  <1>7. QED
    BY <1>1, <1>3, <1>4, <1>5, <1>6

(* What the wallet row may be turned into, field by field.                 *)
LEMMA WalletType ==
    ASSUME NEW w \in Wallet, NEW n \in Nat, NEW m \in Nat, NEW i \in Int, NEW j \in Int
    PROVE  /\ [w EXCEPT !.balance = i, !.lifetime = j] \in Wallet
           /\ [w EXCEPT !.pending = n] \in Wallet
           /\ [w EXCEPT !.pending = n, !.monthlyUsed = m] \in Wallet
           /\ [w EXCEPT !.monthlyUsed = m] \in Wallet
           /\ [w EXCEPT !.lifetime = i] \in Wallet
  <1>1. [w EXCEPT !.balance = i, !.lifetime = j] \in Wallet
    BY DEF Wallet
  <1>2. [w EXCEPT !.pending = n] \in Wallet
    BY DEF Wallet
  <1>3. [w EXCEPT !.pending = n, !.monthlyUsed = m] \in Wallet
    BY DEF Wallet
  <1>4. [w EXCEPT !.monthlyUsed = m] \in Wallet
    BY DEF Wallet
  <1>5. [w EXCEPT !.lifetime = i] \in Wallet
    BY DEF Wallet
  <1>6. QED
    BY <1>1, <1>2, <1>3, <1>4, <1>5

(* The balance check leaves the request admitted or refused.               *)
LEMMA AdmitType ==
    ASSUME NEW r \in Requests, request \in [Requests -> RequestState],
           NEW balance \in Int, NEW estimate \in Costs,
           AdmitOrRefuse(r, balance, estimate)
    PROVE  request' \in [Requests -> RequestState]
  <1> DEFINE pc == IF balance * Unit >= estimate THEN "admitted" ELSE "refused"
  <1>1. pc \in RequestPcs
    BY DEF RequestPcs
  <1>2. [IdleRequest EXCEPT !.pc = pc] \in RequestState
    BY <1>1, RequestType
  <1>3. request' = [request EXCEPT ![r] = [IdleRequest EXCEPT !.pc = pc]]
    BY DEF AdmitOrRefuse
  <1>4. QED
    BY <1>2, <1>3, RequestType

(* A step of an AI request keeps the types.                                *)
LEMMA RequestStepType ==
    ASSUME TypeOK, NEW r \in Requests, RequestStep(r)
    PROVE  TypeOK'
  <1> USE DEF TypeOK
  <1>1. CASE CreateStart(r)
    BY <1>1, RequestType, PlansAssumption DEF CreateStart, dbVars, cronVars, RequestPcs
  <1>2. CASE CreateRow(r)
    <2>1. request[r].credits \in Int
      BY DEF RequestState
    <2>2. wallet' \in Wallet
      BY <1>2, <2>1 DEF CreateRow, Wallet
    <2>3. request' \in [Requests -> RequestState]
      BY <1>2, RequestType DEF CreateRow, RequestPcs
    <2>4. QED
      BY <1>2, <2>1, <2>2, <2>3 DEF CreateRow, cronVars
  <1>3. CASE CreateRaceLost(r)
    BY <1>3, RequestType DEF CreateRaceLost, dbVars, cronVars
  <1>4. CASE WriteOpeningRow(r)
    <2>1. request[r].credits \in Int
      BY DEF RequestState
    <2>2. request' \in [Requests -> RequestState]
      <3>1. PICK estimate \in Costs : AdmitOrRefuse(r, request[r].credits, estimate)
        BY <1>4 DEF WriteOpeningRow
      <3>2. QED
        BY <2>1, <3>1, AdmitType
    <2>3. QED
      <3>1. openingRow' \in BOOLEAN
        BY <1>4, Zenon DEF WriteOpeningRow
      <3>2. QED
        BY <1>4, <2>2, <3>1 DEF WriteOpeningRow, cronVars
  <1>5. CASE EnsureCredits(r)
    <2>1. wallet.balance \in Int
      BY DEF Wallet
    <2>2. request' \in [Requests -> RequestState]
      <3>1. PICK estimate \in Costs : AdmitOrRefuse(r, wallet.balance, estimate)
        BY <1>5 DEF EnsureCredits
      <3>2. QED
        BY <2>1, <3>1, AdmitType
    <2>3. QED
      BY <1>5, <2>2 DEF EnsureCredits, dbVars, cronVars
  <1>6. CASE CallProvider(r)
    <2>1. request' \in [Requests -> RequestState]
      <3>1. PICK cost \in Costs :
              request' = [request EXCEPT ![r].pc = "served", ![r].cost = cost]
        BY <1>6 DEF CallProvider
      <3>2. "served" \in RequestPcs /\ cost \in Nat
        BY CostsAssumption DEF RequestPcs
      <3>3. QED
        BY <3>1, <3>2, RequestType
    <2>2. QED
      BY <1>6, <2>1 DEF CallProvider, dbVars, cronVars
  <1>7. CASE PrecheckCharge(r)
    <2> DEFINE pc == IF wallet.balance < Ceiling(wallet.pending + request[r].cost)
                     THEN "unpaid" ELSE "charging"
    <2>1. pc \in RequestPcs
      BY DEF RequestPcs
    <2>2. request' = [request EXCEPT ![r].pc = pc]
      BY <1>7 DEF PrecheckCharge
    <2>3. request' \in [Requests -> RequestState]
      BY <2>1, <2>2, RequestType
    <2>4. QED
      BY <1>7, <2>3 DEF PrecheckCharge, dbVars, cronVars
  <1>8. CASE ReadPending(r)
    <2>1. wallet.pending \in Nat
      BY DEF Wallet
    <2>2. QED
      BY <1>8, <2>1, RequestType DEF ReadPending, dbVars, cronVars, RequestPcs
  <1>9. CASE WriteCharge(r)
    <2> DEFINE parts == request[r].pending + request[r].cost
               credits == Whole(parts)
               remaining == parts - credits * Unit
    <2>1. /\ request[r].cost \in Nat
          /\ parts \in Nat
      BY DEF RequestState
    <2>2. credits \in Nat /\ remaining \in Nat
      BY <2>1, WholeBounds
    <2>3. /\ [wallet EXCEPT !.pending = parts] \in Wallet
          /\ [wallet EXCEPT !.pending = remaining,
                             !.monthlyUsed = wallet.monthlyUsed + credits] \in Wallet
      <3>1. wallet.monthlyUsed + credits \in Nat
        BY <2>2 DEF Wallet
      <3>2. QED
        BY <2>1, <2>2, <3>1, WalletType
    <2>4. request' \in [Requests -> RequestState]
      <3>1. \/ request' = [request EXCEPT ![r] = IdleRequest]
            \/ request' = [request EXCEPT ![r].pc = "unpaid"]
        BY <1>9 DEF WriteCharge, Charged
      <3>2. "unpaid" \in RequestPcs
        BY DEF RequestPcs
      <3>3. /\ [request EXCEPT ![r] = IdleRequest] \in [Requests -> RequestState]
            /\ [request EXCEPT ![r].pc = "unpaid"] \in [Requests -> RequestState]
        BY <3>2, RequestType
      <3>4. QED
        BY <3>1, <3>3
    <2>5. /\ charged' \in Nat /\ lateCharges' \in Nat /\ lateClaims' \in Nat
          /\ staleRequests' \subseteq Requests /\ staleClaims' \subseteq Claimers
      <3>1. CASE Charged(r)
        <4>1. UNCHANGED claimHistory
          BY <1>9 DEF WriteCharge
        <4>2. QED
          BY <2>1, <3>1, <4>1 DEF Charged
      <3>2. CASE /\ UNCHANGED <<charged, lateCharges>> /\ staleRequests' = staleRequests \ {r}
                 /\ UNCHANGED claimHistory
        BY <3>2
      <3>3. QED
        BY <1>9, <3>1, <3>2 DEF WriteCharge
    <2>6. wallet' \in Wallet /\ ledger' \in Seq(LedgerRow)
      <3>1. CASE wallet' = [wallet EXCEPT !.pending = parts] /\ UNCHANGED ledger
        BY <3>1, <2>3
      <3>2. CASE Post("ai_usage", -credits, day,
                      [wallet EXCEPT !.pending = remaining,
                                     !.monthlyUsed = wallet.monthlyUsed + credits])
        <4>1. "ai_usage" \in RowTypes /\ -credits \in Int /\ day \in Nat
          BY <2>2 DEF RowTypes
        <4>2. QED
          BY <3>2, <4>1, <2>3, PostType
      <3>3. CASE UNCHANGED <<wallet, ledger>>
        BY <3>3
      <3>4. QED
        BY <1>9, <3>1, <3>2, <3>3 DEF WriteCharge
    <2>7. QED
      BY <1>9, <2>4, <2>5, <2>6 DEF WriteCharge, cronVars
  <1>10. CASE LeaveRequest(r)
    BY <1>10, RequestType DEF LeaveRequest, dbVars, cronVars
  <1>11. QED
    BY <1>1, <1>2, <1>3, <1>4, <1>5, <1>6, <1>7, <1>8, <1>9, <1>10 DEF RequestStep

(* One-off debits and credits keep the types.                              *)
LEMMA OneOffType ==
    ASSUME TypeOK, NEW amount \in Amounts
    PROVE  /\ DeductCredits(amount) => TypeOK'
           /\ \A type \in CreditTypes : AddCredits(amount, type) => TypeOK'
  <1> USE DEF TypeOK
  <1>1. amount \in Nat /\ -amount \in Int /\ day \in Nat
    BY AmountsAssumption
  <1>2. ASSUME DeductCredits(amount)
        PROVE  TypeOK'
    <2>1. wallet.monthlyUsed + amount \in Nat
      BY <1>1 DEF Wallet
    <2>2. [wallet EXCEPT !.monthlyUsed = wallet.monthlyUsed + amount] \in Wallet
      BY <2>1, WalletType
    <2>3. Post("usage", -amount, day,
               [wallet EXCEPT !.monthlyUsed = wallet.monthlyUsed + amount])
      BY <1>2 DEF DeductCredits
    <2>4. "usage" \in RowTypes
      BY DEF RowTypes
    <2>5. wallet' \in Wallet /\ ledger' \in Seq(LedgerRow)
      BY <1>1, <2>2, <2>3, <2>4, PostType
    <2>6. QED
      BY <1>2, <2>5 DEF DeductCredits, cronVars
  <1>3. ASSUME NEW type \in CreditTypes, AddCredits(amount, type)
        PROVE  TypeOK'
    <2> DEFINE w == IF type \in Earning
                    THEN [wallet EXCEPT !.lifetime = wallet.lifetime + amount]
                    ELSE wallet
    <2>1. w \in Wallet
      <3>1. wallet.lifetime + amount \in Int
        BY <1>1 DEF Wallet
      <3>2. QED
        BY <3>1, WalletType
    <2>2. Post(type, amount, day, w)
      BY <1>3 DEF AddCredits
    <2>3. type \in RowTypes
      BY DEF RowTypes
    <2>4. wallet' \in Wallet /\ ledger' \in Seq(LedgerRow)
      BY <1>1, <2>1, <2>2, <2>3, PostType
    <2>5. QED
      BY <1>3, <2>4 DEF AddCredits, cronVars
  <1>4. QED
    BY <1>2, <1>3

(* A refund and the opening of an empty wallet keep the types.             *)
LEMMA RefundAmount ==
    ASSUME TypeOK, NEW i \in 0..Len(ledger)
    PROVE  -Original(i).amount \in Int
  <1>1. CASE i = 0
    BY <1>1 DEF Original, TypeOK
  <1>2. CASE i # 0
    <2>1. ledger[i] \in LedgerRow
      BY <1>2 DEF TypeOK
    <2>2. ledger[i].amount \in Int
      BY <2>1 DEF LedgerRow
    <2>3. QED
      BY <1>2, <2>2 DEF Original
  <1>3. QED
    BY <1>1, <1>2

LEMMA AdminType ==
    ASSUME TypeOK
    PROVE  /\ AdminOpen => TypeOK'
           /\ \A i \in 0..Len(ledger) : AdminRefund(i) => TypeOK'
  <1> USE DEF TypeOK
  <1>1. AdminOpen => TypeOK'
    BY DEF AdminOpen, cronVars
  <1>2. ASSUME NEW i \in 0..Len(ledger), AdminRefund(i)
        PROVE  TypeOK'
    <2>1. -Original(i).amount \in Int /\ "refund" \in RowTypes
      BY RefundAmount DEF RowTypes, CreditTypes
    <2>2. Post("refund", -Original(i).amount, day, wallet)
      BY <1>2 DEF AdminRefund
    <2>3. wallet' \in Wallet /\ ledger' \in Seq(LedgerRow)
      BY <2>1, <2>2, PostType
    <2>4. QED
      BY <1>2, <2>3 DEF AdminRefund, cronVars
  <1>3. QED
    BY <1>1, <1>2

(* A step of a claim keeps the types.                                      *)
LEMMA ClaimStepType ==
    ASSUME TypeOK, NEW c \in Claimers, ClaimStep(c)
    PROVE  TypeOK'
  <1> USE DEF TypeOK
  <1>1. IdleClaim \in ClaimState
    BY DEF IdleClaim, ClaimState
  <1>2. CASE ClaimCheck(c)
    <2> DEFINE grant == Smaller(DailyClaim[plan], ClaimCap[plan] - CurrentMonthlyTotal)
               s == [pc |-> "granting", day |-> day, total |-> CurrentMonthlyTotal,
                     grant |-> grant]
    <2>1. plan \in Plans /\ grant > 0
      BY <1>2 DEF ClaimCheck
    <2>2. CurrentMonthlyTotal \in Nat
      BY DEF CurrentMonthlyTotal, Wallet
    <2>3. grant \in Nat
      BY <2>1, <2>2, PlansAssumption DEF Smaller
    <2>4. s \in ClaimState
      BY <2>2, <2>3 DEF ClaimState
    <2>5. claim' = [claim EXCEPT ![c] = s]
      BY <1>2 DEF ClaimCheck
    <2>6. claim' \in [Claimers -> ClaimState]
      BY <2>4, <2>5
    <2>7. QED
      BY <1>2, <2>6 DEF ClaimCheck, dbVars, cronVars
  <1>3. CASE ClaimGrant(c)
    <2> DEFINE w == [wallet EXCEPT !.lifetime = wallet.lifetime + claim[c].grant,
                                   !.lastClaim = claim[c].day,
                                   !.claimedTotal = claim[c].total + claim[c].grant]
    <2>1. claim[c] \in ClaimState
      OBVIOUS
    <2>2. /\ claim[c].day \in Nat
          /\ claim[c].grant \in Nat
          /\ claim[c].total + claim[c].grant \in Nat
      BY <2>1 DEF ClaimState
    <2>3. wallet.lifetime + claim[c].grant \in Int
      BY <2>2 DEF Wallet
    <2>4. w \in Wallet
      <3>1. ASSUME NEW i \in Int, NEW d \in Nat, NEW n \in Nat
            PROVE  [wallet EXCEPT !.lifetime = i, !.lastClaim = d, !.claimedTotal = n] \in Wallet
        BY DEF Wallet
      <3>2. QED
        BY <2>2, <2>3, <3>1
    <2>5. Post("daily_claim", claim[c].grant, claim[c].day, w)
      BY <1>3 DEF ClaimGrant
    <2>6. "daily_claim" \in RowTypes
      BY DEF RowTypes
    <2>7. wallet' \in Wallet /\ ledger' \in Seq(LedgerRow)
      BY <2>2, <2>4, <2>5, <2>6, PostType
    <2>8. QED
      BY <1>1, <1>3, <2>7 DEF ClaimGrant, Claimed, cronVars
  <1>4. CASE ClaimDies(c)
    BY <1>1, <1>4 DEF ClaimDies, dbVars, cronVars
  <1>5. QED
    BY <1>2, <1>3, <1>4 DEF ClaimStep

(* A step of the cron keeps the types.                                     *)
LEMMA CronStepType ==
    ASSUME TypeOK, NEW k \in Replicas, CronStep(k)
    PROVE  TypeOK'
  <1> USE DEF TypeOK
  <1>1. /\ IdleCron \in CronState
        /\ [IdleCron EXCEPT !.pc = "reset"] \in CronState
    BY DEF IdleCron, CronState, CronPcs
  <1>2. ASSUME NEW from, NEW to \in CronPcs, CronMoves(k, from, to)
        PROVE  cron' \in [Replicas -> CronState]
    <2>1. cron[k] \in CronState
      OBVIOUS
    <2>2. [cron[k] EXCEPT !.pc = to] \in CronState
      BY <2>1 DEF CronState
    <2>3. cron' = [cron EXCEPT ![k] = [cron[k] EXCEPT !.pc = to]]
      BY <1>2 DEF CronMoves
    <2>4. QED
      BY <2>2, <2>3
  <1>3. CASE CronStart(k)
    BY <1>2, <1>3 DEF CronStart, dbVars, CronPcs
  <1>4. CASE CronGrantCheck(k)
    <2>1. CASE GrantDue
      <3> DEFINE s == [pc |-> "granting", credits |-> PlanCredits[plan], day |-> day]
      <3>1. s \in CronState
        BY PlansAssumption DEF CronState, CronPcs
      <3>2. cron' = [cron EXCEPT ![k] = s]
        BY <1>4, <2>1 DEF CronGrantCheck
      <3>3. QED
        BY <1>4, <3>1, <3>2 DEF CronGrantCheck, dbVars
    <2>2. CASE ~ GrantDue
      <3>1. cron' = [cron EXCEPT ![k] = [IdleCron EXCEPT !.pc = "reset"]]
        BY <1>4, <2>2 DEF CronGrantCheck
      <3>2. QED
        BY <1>1, <1>4, <3>1 DEF CronGrantCheck, dbVars
    <2>3. QED
      BY <2>1, <2>2
  <1>5. CASE CronGrant(k)
    <2> DEFINE w == [wallet EXCEPT !.lifetime = wallet.lifetime + cron[k].credits,
                                   !.monthlyUsed = 0,
                                   !.resetMonth = MonthOf(cron[k].day),
                                   !.claimedTotal = 0]
    <2>1. cron[k].credits \in Int /\ cron[k].day \in Nat
      BY DEF CronState
    <2>2. wallet.lifetime + cron[k].credits \in Int /\ MonthOf(cron[k].day) \in Nat
      <3>1. wallet.lifetime \in Int
        BY DEF Wallet
      <3>2. wallet.lifetime + cron[k].credits \in Int
        BY <2>1, <3>1
      <3>3. MonthOf(cron[k].day) \in Nat
        BY <2>1, MonthOfType
      <3>4. QED
        BY <3>2, <3>3
    <2>3. w \in Wallet
      <3>1. ASSUME NEW i \in Int, NEW m \in Nat
            PROVE  [wallet EXCEPT !.lifetime = i, !.monthlyUsed = 0,
                                  !.resetMonth = m, !.claimedTotal = 0] \in Wallet
        BY DEF Wallet
      <3>2. QED
        BY <2>2, <3>1
    <2>4. Post("monthly_grant", cron[k].credits, cron[k].day, w)
      BY <1>5 DEF CronGrant
    <2>5. "monthly_grant" \in RowTypes
      BY DEF RowTypes
    <2>6. wallet' \in Wallet /\ ledger' \in Seq(LedgerRow)
      BY <2>1, <2>3, <2>4, <2>5, PostType
    <2>7. QED
      BY <1>1, <1>5, <2>6 DEF CronGrant
  <1>6. CASE CronResetCheck(k)
    <2> DEFINE to == IF plan \in DailyPlans THEN "resetting" ELSE "release"
    <2>1. to \in CronPcs /\ CronMoves(k, "reset", to)
      BY <1>6 DEF CronResetCheck, CronPcs
    <2>2. cron' \in [Replicas -> CronState]
      BY <1>2, <2>1
    <2>3. QED
      BY <1>6, <2>2 DEF CronResetCheck, dbVars
  <1>7. CASE CronReset(k)
    <2>1. ASSUME NEW m \in Nat
          PROVE  [wallet EXCEPT !.monthlyUsed = 0, !.claimedTotal = 0,
                                !.resetMonth = m] \in Wallet
      BY DEF Wallet
    <2>2. ThisMonth \in Nat
      BY MonthOfType DEF ThisMonth
    <2>3. wallet' \in Wallet
      BY <1>7, <2>1, <2>2 DEF CronReset
    <2>4. CronMoves(k, "resetting", "release") /\ "release" \in CronPcs
      BY <1>7 DEF CronReset, CronPcs
    <2>5. cron' \in [Replicas -> CronState]
      BY <1>2, <2>4
    <2>6. QED
      BY <1>7, <2>3, <2>5 DEF CronReset
  <1>8. CASE CronRelease(k)
    BY <1>2, <1>8 DEF CronRelease, dbVars, CronPcs
  <1>9. CASE CronDies(k)
    BY <1>1, <1>9 DEF CronDies, dbVars
  <1>10. QED
    BY <1>3, <1>4, <1>5, <1>6, <1>7, <1>8, <1>9 DEF CronStep

-------------------------------------------------------------------------------
LEMMA InitType == Init => TypeOK
  <1> SUFFICES ASSUME Init PROVE TypeOK
    OBVIOUS
  <1>1. /\ request \in [Requests -> RequestState]
        /\ claim \in [Claimers -> ClaimState]
        /\ cron \in [Replicas -> CronState]
    BY DEF Init, IdleRequest, RequestState, RequestPcs, IdleClaim, ClaimState,
           IdleCron, CronState, CronPcs
  <1>2. wallet \in Wallet /\ ledger \in Seq(LedgerRow)
    BY DEF Init, Wallet, Never
  <1>3. QED
    <2>1. /\ plan \in Plans /\ day = 1 /\ created = FALSE /\ opening = 0
          /\ openingRow = FALSE /\ lock = NoReplica /\ charged = 0
          /\ lateCharges = 0 /\ lateClaims = 0 /\ staleRequests = {} /\ staleClaims = {}
      BY DEF Init
    <2>2. /\ day \in Nat \ {0} /\ opening \in Int /\ charged \in Nat
          /\ lateCharges \in Nat /\ lateClaims \in Nat
          /\ staleRequests \subseteq Requests /\ staleClaims \subseteq Claimers
      BY <2>1
    <2>3. created \in BOOLEAN /\ openingRow \in BOOLEAN /\ lock \in Replicas \cup {NoReplica}
      BY <2>1, Zenon
    <2>4. QED
      BY <1>1, <1>2, <2>1, <2>2, <2>3, Zenon DEF TypeOK

LEMMA NextType == TypeOK /\ [Next]_vars => TypeOK'
  <1> SUFFICES ASSUME TypeOK, [Next]_vars PROVE TypeOK'
    OBVIOUS
  <1>1. ASSUME NEW r \in Requests, RequestStep(r) PROVE TypeOK'
    BY <1>1, RequestStepType
  <1>2. ASSUME NEW c \in Claimers, ClaimStep(c) PROVE TypeOK'
    BY <1>2, ClaimStepType
  <1>3. ASSUME NEW k \in Replicas, CronStep(k) PROVE TypeOK'
    BY <1>3, CronStepType
  <1>4. ASSUME NEW amount \in Amounts, DeductCredits(amount) PROVE TypeOK'
    BY <1>4, OneOffType
  <1>5. ASSUME NEW amount \in Amounts, NEW type \in CreditTypes, AddCredits(amount, type)
        PROVE  TypeOK'
    BY <1>5, OneOffType
  <1>6. CASE LockExpires
    BY <1>6 DEF TypeOK, LockExpires, dbVars
  <1>7. CASE ChangePlan
    BY <1>7 DEF TypeOK, ChangePlan, dbVars, cronVars
  <1>8. CASE NextDay
    BY <1>8 DEF TypeOK, NextDay, dbVars, cronVars
  <1>9. CASE UNCHANGED vars
    BY <1>9 DEF TypeOK, vars, dbVars, cronVars
  <1>10. CASE AdminOpen
    BY <1>10, AdminType
  <1>11. ASSUME NEW i \in 0..Len(ledger), AdminRefund(i) PROVE TypeOK'
    BY <1>11, AdminType
  <1>12. QED
    BY <1>1, <1>2, <1>3, <1>4, <1>5, <1>6, <1>7, <1>8, <1>9, <1>10, <1>11 DEF Next

(* Type correctness holds in every behaviour.                              *)
THEOREM TypeCorrect == Spec => []TypeOK
  BY InitType, NextType, PTL DEF Spec

-------------------------------------------------------------------------------
(* What the main argument needs besides the types: nobody is past its      *)
(* first step before the wallet exists, and a monthly grant under way is   *)
(* positive.                                                               *)
BeforeCreation ==
    ~ created => /\ wallet.balance = 0
                 /\ opening = 0
                 /\ ledger = << >>
                 /\ \A r \in Requests : request[r].pc \in {"idle", "creating"}
                 /\ \A c \in Claimers : claim[c].pc = "idle"
                 /\ \A k \in Replicas : cron[k].pc = "idle"

GrantsPositive ==
    \A k \in Replicas : cron[k].pc = "granting" => cron[k].credits > 0

Frame == TypeOK /\ BeforeCreation /\ GrantsPositive

(* The three ways in which a step may treat the account.                   *)
Keeps == UNCHANGED <<created, opening, ledger, wallet.balance>>

Opens ==
    /\ ~ created /\ created'
    /\ wallet'.balance = opening'
    /\ UNCHANGED ledger

PostsRow(type, amount) ==
    /\ created
    /\ UNCHANGED <<created, opening>>
    /\ (amount < 0 /\ type # "refund") => wallet'.balance >= 0
    /\ wallet'.balance = wallet.balance + amount
    /\ \E row \in LedgerRow :
         /\ ledger' = Append(ledger, row)
         /\ row.type = type
         /\ row.amount = amount
         /\ row.after = wallet'.balance

Posts == \E type \in RowTypes, amount \in Int : PostsRow(type, amount)

(* Every use of Post posts one row, when the wallet exists and a debit is  *)
(* covered or takes back a credit.                                         *)
LEMMA PostPostsRow ==
    ASSUME TypeOK, created, UNCHANGED <<created, opening>>,
           NEW type \in RowTypes, NEW amount \in Int, NEW d \in Nat, NEW w \in Wallet,
           w.balance = wallet.balance,
           (amount < 0 /\ type # "refund") => wallet.balance + amount >= 0,
           Post(type, amount, d, w)
    PROVE  PostsRow(type, amount)
  <1> DEFINE row == [type |-> type, amount |-> amount,
                     after |-> w.balance + amount, day |-> d]
  <1>1. w.balance + amount \in Int
    BY DEF Wallet
  <1>2. row \in LedgerRow
    BY <1>1 DEF LedgerRow
  <1>3. wallet'.balance = wallet.balance + amount
    BY <1>1 DEF Post, Wallet
  <1>4. ledger' = Append(ledger, row)
    BY DEF Post
  <1>5. row.type = type /\ row.amount = amount /\ row.after = wallet'.balance
    BY <1>3
  <1>6. QED
    BY <1>2, <1>3, <1>4, <1>5 DEF PostsRow

(* Every step of the wallet keeps, opens or posts to the account.          *)
LEMMA StepShape ==
    ASSUME Frame, Next
    PROVE  Keeps \/ Opens \/ Posts
  <1> USE DEF Frame
  <1>1. ASSUME NEW r \in Requests, RequestStep(r)
        PROVE  Keeps \/ Opens \/ Posts
    <2>1. CASE CreateRow(r)
      <3>1. request[r].credits \in Int
        BY DEF TypeOK, RequestState
      <3>2. wallet'.balance = opening'
        BY <2>1 DEF CreateRow, TypeOK, Wallet
      <3>3. QED
        BY <2>1, <3>2 DEF CreateRow, Opens
    <2>2. CASE WriteCharge(r)
      <3> DEFINE parts == request[r].pending + request[r].cost
                 credits == Whole(parts)
                 w == [wallet EXCEPT !.pending = parts - credits * Unit,
                                     !.monthlyUsed = wallet.monthlyUsed + credits]
      <3>1. created /\ UNCHANGED <<created, opening>>
        BY <2>2 DEF WriteCharge, BeforeCreation, TypeOK
      <3>2. parts \in Nat
        BY DEF TypeOK, RequestState
      <3>3. credits \in Nat
        BY <3>2, WholeBounds
      <3>4. CASE wallet' = [wallet EXCEPT !.pending = parts] /\ UNCHANGED ledger
        BY <3>1, <3>4 DEF Keeps, TypeOK, Wallet
      <3>5. CASE wallet.balance >= credits /\ Post("ai_usage", -credits, day, w)
        <4>1. w \in Wallet
          <5>1. parts - credits * Unit \in Nat
            BY <3>2, WholeBounds
          <5>2. wallet.monthlyUsed + credits \in Nat
            BY <3>3 DEF TypeOK, Wallet
          <5>3. wallet \in Wallet
            BY DEF TypeOK
          <5>4. ASSUME NEW n \in Nat, NEW m \in Nat
                PROVE  [wallet EXCEPT !.pending = n, !.monthlyUsed = m] \in Wallet
            BY <5>3 DEF Wallet
          <5>5. QED
            BY <5>1, <5>2, <5>4
        <4>2. w.balance = wallet.balance
          BY DEF TypeOK, Wallet
        <4>3. -credits \in Int /\ wallet.balance + (-credits) >= 0
          BY <3>3, <3>5 DEF TypeOK, Wallet
        <4>4. "ai_usage" \in RowTypes /\ day \in Nat
          BY DEF RowTypes, TypeOK
        <4>5. PostsRow("ai_usage", -credits)
          BY <3>1, <3>5, <4>1, <4>2, <4>3, <4>4, PostPostsRow
        <4>6. QED
          BY <4>3, <4>4, <4>5 DEF Posts
      <3>6. CASE UNCHANGED <<wallet, ledger>>
        BY <3>1, <3>6 DEF Keeps
      <3>7. QED
        BY <2>2, <3>4, <3>5, <3>6 DEF WriteCharge
    <2>3. CASE UNCHANGED dbVars
      BY <2>3 DEF dbVars, Keeps
    <2>4. CASE WriteOpeningRow(r)
      BY <2>4 DEF WriteOpeningRow, Keeps
    <2>5. QED
      BY <1>1, <2>1, <2>2, <2>3, <2>4 DEF RequestStep, CreateStart, CreateRaceLost,
         EnsureCredits, CallProvider, PrecheckCharge, ReadPending, LeaveRequest
  <1>2. ASSUME NEW c \in Claimers, ClaimStep(c)
        PROVE  Keeps \/ Opens \/ Posts
    <2>1. CASE ClaimGrant(c)
      <3> DEFINE w == [wallet EXCEPT !.lifetime = wallet.lifetime + claim[c].grant,
                                     !.lastClaim = claim[c].day,
                                     !.claimedTotal = claim[c].total + claim[c].grant]
      <3>1. created /\ UNCHANGED <<created, opening>>
        BY <2>1 DEF ClaimGrant, BeforeCreation, TypeOK
      <3>2. claim[c] \in ClaimState
        BY DEF TypeOK
      <3>3. /\ claim[c].grant \in Nat /\ claim[c].day \in Nat
            /\ claim[c].total + claim[c].grant \in Nat
        BY <3>2 DEF ClaimState
      <3>4. w \in Wallet /\ w.balance = wallet.balance
        <4>1. wallet.lifetime + claim[c].grant \in Int
          BY <3>3 DEF TypeOK, Wallet
        <4>2. ASSUME NEW i \in Int, NEW d \in Nat, NEW n \in Nat
              PROVE  /\ [wallet EXCEPT !.lifetime = i, !.lastClaim = d, !.claimedTotal = n] \in Wallet
                     /\ [wallet EXCEPT !.lifetime = i, !.lastClaim = d,
                                       !.claimedTotal = n].balance = wallet.balance
          BY DEF TypeOK, Wallet
        <4>3. QED
          BY <3>3, <4>1, <4>2
      <3>5. Post("daily_claim", claim[c].grant, claim[c].day, w)
        BY <2>1 DEF ClaimGrant
      <3>6. "daily_claim" \in RowTypes /\ claim[c].grant \in Int /\ ~ (claim[c].grant < 0)
        BY <3>3 DEF RowTypes
      <3>7. PostsRow("daily_claim", claim[c].grant)
        BY <3>1, <3>3, <3>4, <3>5, <3>6, PostPostsRow
      <3>8. QED
        BY <3>6, <3>7 DEF Posts
    <2>2. CASE UNCHANGED dbVars
      BY <2>2 DEF dbVars, Keeps
    <2>3. QED
      BY <1>2, <2>1, <2>2 DEF ClaimStep, ClaimCheck, ClaimDies
  <1>3. ASSUME NEW k \in Replicas, CronStep(k)
        PROVE  Keeps \/ Opens \/ Posts
    <2>1. CASE CronGrant(k)
      <3> DEFINE w == [wallet EXCEPT !.lifetime = wallet.lifetime + cron[k].credits,
                                     !.monthlyUsed = 0,
                                     !.resetMonth = MonthOf(cron[k].day),
                                     !.claimedTotal = 0]
      <3>1. created /\ UNCHANGED <<created, opening>>
        BY <2>1 DEF CronGrant, BeforeCreation, TypeOK
      <3>2. cron[k] \in CronState /\ cron[k].credits > 0
        BY <2>1 DEF CronGrant, TypeOK, GrantsPositive
      <3>3. cron[k].credits \in Int /\ cron[k].day \in Nat
        BY <3>2 DEF CronState
      <3>4. w \in Wallet /\ w.balance = wallet.balance
        <4>1. wallet.lifetime + cron[k].credits \in Int
          BY <3>3 DEF TypeOK, Wallet
        <4>2. MonthOf(cron[k].day) \in Nat
          BY <3>3, MonthOfType
        <4>3. ASSUME NEW i \in Int, NEW m \in Nat
              PROVE  /\ [wallet EXCEPT !.lifetime = i, !.monthlyUsed = 0,
                                       !.resetMonth = m, !.claimedTotal = 0] \in Wallet
                     /\ [wallet EXCEPT !.lifetime = i, !.monthlyUsed = 0,
                             !.resetMonth = m, !.claimedTotal = 0].balance = wallet.balance
          BY DEF TypeOK, Wallet
        <4>4. QED
          BY <4>1, <4>2, <4>3
      <3>5. Post("monthly_grant", cron[k].credits, cron[k].day, w)
        BY <2>1 DEF CronGrant
      <3>6. "monthly_grant" \in RowTypes /\ ~ (cron[k].credits < 0)
        BY <3>2, <3>3 DEF RowTypes
      <3>7. PostsRow("monthly_grant", cron[k].credits)
        BY <3>1, <3>3, <3>4, <3>5, <3>6, PostPostsRow
      <3>8. QED
        BY <3>3, <3>6, <3>7 DEF Posts
    <2>2. CASE CronReset(k)
      BY <2>2 DEF CronReset, Keeps, TypeOK, Wallet
    <2>3. CASE UNCHANGED dbVars
      BY <2>3 DEF dbVars, Keeps
    <2>4. QED
      BY <1>3, <2>1, <2>2, <2>3 DEF CronStep, CronStart, CronGrantCheck, CronResetCheck,
         CronRelease, CronDies
  <1>4. ASSUME NEW amount \in Amounts, DeductCredits(amount)
        PROVE  Posts
    <2> DEFINE w == [wallet EXCEPT !.monthlyUsed = wallet.monthlyUsed + amount]
    <2>1. amount \in Nat /\ -amount \in Int /\ day \in Nat
      BY AmountsAssumption DEF TypeOK
    <2>2. created /\ UNCHANGED <<created, opening>>
      BY <1>4 DEF DeductCredits
    <2>3. wallet.balance + (-amount) >= 0
      <3>1. wallet.balance >= amount
        BY <1>4 DEF DeductCredits
      <3>2. wallet.balance \in Int
        BY DEF TypeOK, Wallet
      <3>3. QED
        BY <2>1, <3>1, <3>2
    <2>4. w \in Wallet /\ w.balance = wallet.balance
      <3>1. wallet.monthlyUsed + amount \in Nat
        BY <2>1 DEF TypeOK, Wallet
      <3>2. QED
        BY <3>1, WalletType DEF TypeOK, Wallet
    <2>5. Post("usage", -amount, day, w) /\ "usage" \in RowTypes
      BY <1>4 DEF DeductCredits, RowTypes
    <2>6. PostsRow("usage", -amount)
      BY <2>1, <2>2, <2>3, <2>4, <2>5, PostPostsRow
    <2>7. QED
      BY <2>1, <2>5, <2>6 DEF Posts
  <1>5. ASSUME NEW amount \in Amounts, NEW type \in CreditTypes, AddCredits(amount, type)
        PROVE  Posts
    <2> DEFINE w == IF type \in Earning
                    THEN [wallet EXCEPT !.lifetime = wallet.lifetime + amount]
                    ELSE wallet
    <2>1. amount \in Int /\ ~ (amount < 0) /\ day \in Nat /\ type \in RowTypes
      BY AmountsAssumption DEF TypeOK, RowTypes
    <2>2. created /\ UNCHANGED <<created, opening>>
      BY <1>5 DEF AddCredits
    <2>3. w \in Wallet /\ w.balance = wallet.balance
      <3>1. wallet.lifetime + amount \in Int
        BY <2>1 DEF TypeOK, Wallet
      <3>2. QED
        BY <3>1, WalletType DEF TypeOK, Wallet
    <2>4. Post(type, amount, day, w)
      BY <1>5 DEF AddCredits
    <2>5. PostsRow(type, amount)
      BY <2>1, <2>2, <2>3, <2>4, PostPostsRow
    <2>6. QED
      BY <2>1, <2>5 DEF Posts
  <1>6. CASE LockExpires \/ ChangePlan \/ NextDay
    BY <1>6 DEF LockExpires, ChangePlan, NextDay, dbVars, Keeps
  <1>7. CASE AdminOpen
    BY <1>7 DEF AdminOpen, BeforeCreation, Opens
  <1>8. ASSUME NEW i \in 0..Len(ledger), AdminRefund(i)
        PROVE  Posts
    <2>1. -Original(i).amount \in Int /\ "refund" \in RowTypes
      BY RefundAmount DEF RowTypes, CreditTypes
    <2>2. /\ created /\ UNCHANGED <<created, opening>>
          /\ Post("refund", -Original(i).amount, day, wallet)
      BY <1>8 DEF AdminRefund
    <2>3. wallet \in Wallet /\ day \in Nat
      BY DEF TypeOK
    <2>4. PostsRow("refund", -Original(i).amount)
      BY <2>1, <2>2, <2>3, PostPostsRow
    <2>5. QED
      BY <2>1, <2>4 DEF Posts
  <1>9. QED
    BY <1>1, <1>2, <1>3, <1>4, <1>5, <1>6, <1>7, <1>8 DEF Next

(* The frame is preserved by every step.                                   *)
LEMMA FrameStep ==
    ASSUME Frame, TypeOK', [Next]_vars
    PROVE  Frame'
  <1> USE DEF Frame
  <1>1. BeforeCreation'
    <2>1. CASE created'
      BY <2>1 DEF BeforeCreation
    <2>2. CASE ~ created'
      <3>1. CASE \E r \in Requests : RequestStep(r)
        <4>1. PICK r \in Requests : RequestStep(r)
          BY <3>1
        <4>2. ~ created /\ request[r].pc \in {"idle", "creating"}
          <5>1. CASE CreateRow(r)
            BY <2>2, <5>1 DEF CreateRow
          <5>2. CASE UNCHANGED created
            BY <2>2, <5>2 DEF BeforeCreation
          <5>3. QED
            BY <4>1, <5>1, <5>2 DEF RequestStep, CreateStart, CreateRaceLost, dbVars,
               WriteOpeningRow, EnsureCredits, CallProvider, PrecheckCharge, ReadPending,
               WriteCharge, LeaveRequest
        <4>3. /\ UNCHANGED <<dbVars, claim, cronVars>>
              /\ CreateStart(r) \/ LeaveRequest(r)
          BY <2>2, <4>1, <4>2 DEF RequestStep, CreateStart, CreateRow, CreateRaceLost,
             WriteOpeningRow, EnsureCredits, CallProvider, PrecheckCharge, ReadPending,
             WriteCharge, LeaveRequest
        <4>4. \A q \in Requests : request'[q].pc \in {"idle", "creating"}
          <5> DEFINE start == [IdleRequest EXCEPT !.pc = "creating", !.credits = PlanCredits[plan]]
          <5>1. start.pc = "creating" /\ IdleRequest.pc = "idle"
            BY DEF IdleRequest
          <5>2. \/ request' = [request EXCEPT ![r] = start]
                \/ request' = [request EXCEPT ![r] = IdleRequest]
            BY <4>3 DEF CreateStart, LeaveRequest
          <5>3. \A q \in Requests : request[q].pc \in {"idle", "creating"}
            BY <4>2 DEF BeforeCreation
          <5>4. request \in [Requests -> RequestState]
            BY DEF TypeOK
          <5> HIDE DEF start
          <5>5. ASSUME NEW q \in Requests
                PROVE  request'[q] \in {start, IdleRequest, request[q]}
            BY <5>2, <5>4
          <5>6. QED
            BY <5>1, <5>3, <5>5
        <4>5. QED
          BY <4>2, <4>3, <4>4 DEF BeforeCreation, dbVars, cronVars
      <3>2. CASE \E c \in Claimers : ClaimStep(c)
        BY <2>2, <3>2 DEF ClaimStep, ClaimCheck, ClaimGrant, ClaimDies, dbVars, BeforeCreation
      <3>3. CASE \E k \in Replicas : CronStep(k)
        BY <2>2, <3>3 DEF CronStep, CronStart, CronGrantCheck, CronGrant, CronResetCheck,
           CronReset, CronRelease, CronDies, CronMoves, dbVars, BeforeCreation
      <3>4. CASE \E amount \in Amounts : DeductCredits(amount)
        BY <2>2, <3>4 DEF DeductCredits
      <3>5. CASE \E amount \in Amounts, type \in CreditTypes : AddCredits(amount, type)
        BY <2>2, <3>5 DEF AddCredits
      <3>6. CASE LockExpires \/ ChangePlan \/ NextDay \/ UNCHANGED vars
        BY <2>2, <3>6 DEF LockExpires, ChangePlan, NextDay, vars, dbVars, cronVars,
           BeforeCreation
      <3>7. CASE AdminOpen \/ \E i \in 0..Len(ledger) : AdminRefund(i)
        BY <2>2, <3>7 DEF AdminOpen, AdminRefund
      <3>8. QED
        BY <3>1, <3>2, <3>3, <3>4, <3>5, <3>6, <3>7 DEF Next
    <2>3. QED
      BY <2>1, <2>2
  <1>2. GrantsPositive'
    <2>1. CASE UNCHANGED cron
      BY <2>1 DEF GrantsPositive
    <2>2. CASE \E k \in Replicas : CronStep(k)
      <3>1. PICK k \in Replicas : CronStep(k)
        BY <2>2
      <3>2. ASSUME NEW j \in Replicas, cron'[j].pc = "granting"
            PROVE  cron'[j].credits > 0
        <4>1. CASE j # k
          BY <3>1, <3>2, <4>1 DEF CronStep, CronStart, CronGrantCheck, CronGrant,
             CronResetCheck, CronReset, CronRelease, CronDies, CronMoves, TypeOK, GrantsPositive
        <4>2. CASE j = k
          <5>1. CronGrantCheck(k)
            <6>1. cron \in [Replicas -> CronState] /\ cron[k] \in CronState
              BY DEF TypeOK
            <6>2. ASSUME NEW from, NEW to, to # "granting" PROVE ~ CronMoves(k, from, to)
              BY <3>2, <4>2, <6>1, <6>2 DEF CronMoves, CronState
            <6>3. ~ CronStart(k) /\ ~ CronResetCheck(k) /\ ~ CronReset(k) /\ ~ CronRelease(k)
              BY <6>2 DEF CronStart, CronResetCheck, CronReset, CronRelease
            <6>4. ~ CronGrant(k) /\ ~ CronDies(k)
              BY <3>2, <4>2, <6>1 DEF CronGrant, CronDies, IdleCron
            <6> QED  BY <3>1, <6>3, <6>4 DEF CronStep
          <5>2. QED
            BY <3>2, <4>2, <5>1 DEF CronGrantCheck, GrantDue, IdleCron, TypeOK
        <4>3. QED
          BY <4>1, <4>2
      <3>3. QED
        BY <3>2 DEF GrantsPositive
    <2>3. QED
      BY <2>1, <2>2 DEF Next, RequestStep, CreateStart, CreateRow, CreateRaceLost,
         WriteOpeningRow, EnsureCredits, CallProvider, PrecheckCharge, ReadPending,
         WriteCharge, LeaveRequest, ClaimStep, ClaimCheck, ClaimGrant, ClaimDies,
         DeductCredits, AddCredits, AdminOpen, AdminRefund, LockExpires, ChangePlan,
         NextDay, vars, cronVars
  <1>3. QED
    BY <1>1, <1>2

-------------------------------------------------------------------------------
(* The inductive invariant: the frame, and the two properties of the       *)
(* account that the runs check.                                            *)
IInv == Frame /\ NeverOverdrawn /\ LedgerExplainsBalance

LEMMA InitIInv == Init => IInv
  <1> SUFFICES ASSUME Init PROVE IInv
    OBVIOUS
  <1>1. TypeOK
    BY InitType
  <1>2. BeforeCreation
    BY DEF Init, BeforeCreation, IdleRequest, IdleClaim, IdleCron
  <1>3. GrantsPositive
    BY DEF Init, GrantsPositive, IdleCron
  <1>4. wallet.balance = 0 /\ opening = 0 /\ ledger = << >>
    BY DEF Init
  <1>5. NeverOverdrawn /\ LedgerExplainsBalance
    BY <1>4 DEF NeverOverdrawn, LedgerExplainsBalance, BalanceBefore
  <1>6. QED
    BY <1>1, <1>2, <1>3, <1>5 DEF IInv, Frame

(* A posted row extends the chain of balances.                             *)
LEMMA PostKeepsLedger ==
    ASSUME TypeOK, NeverOverdrawn, LedgerExplainsBalance,
           NEW type \in RowTypes, NEW amount \in Int, PostsRow(type, amount)
    PROVE  NeverOverdrawn' /\ LedgerExplainsBalance'
  <1>1. PICK row \in LedgerRow : /\ ledger' = Append(ledger, row)
                                 /\ row.type = type
                                 /\ row.amount = amount
                                 /\ row.after = wallet'.balance
    BY DEF PostsRow
  <1>2. /\ wallet.balance \in Int /\ opening \in Int /\ ledger \in Seq(LedgerRow)
        /\ wallet'.balance = wallet.balance + amount
        /\ opening' = opening
    BY DEF TypeOK, Wallet, PostsRow
  <1>3. /\ Len(ledger') = Len(ledger) + 1
        /\ Len(ledger) \in Nat
        /\ \A i \in 1..Len(ledger) : ledger'[i] = ledger[i]
        /\ ledger'[Len(ledger) + 1] = row
    BY <1>1, <1>2
  <1>4. NeverOverdrawn'
    <2>1. ASSUME ~ TakenBack'
          PROVE  ~ TakenBack /\ ~ (type = "refund" /\ amount < 0)
      BY <1>1, <1>2, <1>3, <2>1 DEF TakenBack
    <2>2. QED
      BY <1>2, <2>1 DEF NeverOverdrawn, PostsRow
  <1>5. \A i \in 1..(Len(ledger) + 1) : BalanceBefore(i)' = BalanceBefore(i)
    BY <1>2, <1>3 DEF BalanceBefore
  <1>6. \A i \in 1..Len(ledger') : ledger'[i].after = BalanceBefore(i)' + ledger'[i].amount
    <2> SUFFICES ASSUME NEW i \in 1..(Len(ledger) + 1)
                 PROVE  ledger'[i].after = BalanceBefore(i)' + ledger'[i].amount
      BY <1>3
    <2>1. CASE i \in 1..Len(ledger)
      BY <2>1, <1>3, <1>5 DEF LedgerExplainsBalance
    <2>2. CASE i = Len(ledger) + 1
      BY <2>2, <1>1, <1>2, <1>3, <1>5 DEF LedgerExplainsBalance
    <2>3. QED
      BY <1>3, <2>1, <2>2
  <1>7. wallet'.balance = BalanceBefore(Len(ledger) + 1)'
    BY <1>1, <1>3 DEF BalanceBefore
  <1>8. LedgerExplainsBalance'
    BY <1>6, <1>7 DEF LedgerExplainsBalance
  <1>9. QED
    BY <1>4, <1>8

LEMMA IInvStep ==
    ASSUME IInv, [Next]_vars
    PROVE  IInv'
  <1>1. TypeOK /\ Frame /\ NeverOverdrawn /\ LedgerExplainsBalance
    BY DEF IInv, Frame
  <1>2. TypeOK'
    BY <1>1, NextType
  <1>3. Frame'
    BY <1>1, <1>2, FrameStep
  <1>4. CASE UNCHANGED vars
    BY <1>1, <1>3, <1>4 DEF IInv, vars, dbVars, NeverOverdrawn, TakenBack,
       LedgerExplainsBalance, BalanceBefore
  <1>5. CASE Keeps
    BY <1>1, <1>3, <1>5 DEF IInv, Keeps, NeverOverdrawn, TakenBack, LedgerExplainsBalance,
       BalanceBefore
  <1>6. CASE Opens
    <2>1. ledger' = << >> /\ wallet'.balance = opening'
      BY <1>1, <1>6 DEF Opens, Frame, BeforeCreation
    <2>2. opening' \in Int
      BY <1>2 DEF TypeOK
    <2>3. NeverOverdrawn' /\ LedgerExplainsBalance'
      BY <2>1, <2>2 DEF NeverOverdrawn, LedgerExplainsBalance, BalanceBefore
    <2>4. QED
      BY <1>3, <2>3 DEF IInv
  <1>7. ASSUME NEW type \in RowTypes, NEW amount \in Int, PostsRow(type, amount)
        PROVE  IInv'
    BY <1>1, <1>3, <1>7, PostKeepsLedger DEF IInv
  <1>8. QED
    BY <1>1, <1>4, <1>5, <1>6, <1>7, StepShape DEF Posts

(* A wallet opened with a balance is not overdrawn, whatever stale checks  *)
(* its callers made, unless an administrator took credits back.            *)
THEOREM NeverOverdrawnHolds == Spec => []NeverOverdrawn
  <1>1. IInv => NeverOverdrawn
    BY DEF IInv
  <1>2. IInv /\ [Next]_vars => IInv'
    BY IInvStep
  <1>3. QED
    BY <1>1, <1>2, InitIInv, PTL DEF Spec

(* The ledger explains the balance after any interleaving of the writers.  *)
THEOREM LedgerExplainsBalanceHolds == Spec => []LedgerExplainsBalance
  <1>1. IInv => LedgerExplainsBalance
    BY DEF IInv
  <1>2. IInv /\ [Next]_vars => IInv'
    BY IInvStep
  <1>3. QED
    BY <1>1, <1>2, InitIInv, PTL DEF Spec

-------------------------------------------------------------------------------
(* Every step of the wallet is a step of the account, or none.             *)
LEMMA StepImplementsAccount ==
    ASSUME IInv, [Next]_vars
    PROVE  [IsAccount!Next]_(IsAccount!vars)
  <1>1. Frame /\ TypeOK /\ TypeOK'
    BY NextType DEF IInv, Frame
  <1>2. CASE UNCHANGED vars
    BY <1>2 DEF vars, dbVars, IsAccount!vars
  <1>3. CASE Keeps
    BY <1>3 DEF Keeps, IsAccount!vars
  <1>4. CASE Opens
    <2>1. wallet'.balance \in Int
      BY <1>1 DEF TypeOK, Wallet
    <2>2. created' = TRUE
      BY <1>1, <1>4 DEF TypeOK, Opens
    <2>3. QED
      BY <1>4, <2>1, <2>2 DEF Opens, IsAccount!Next, IsAccount!Open
  <1>5. ASSUME NEW type \in RowTypes, NEW amount \in Int, PostsRow(type, amount)
        PROVE  IsAccount!Next
    <2>1. PICK row \in LedgerRow : /\ ledger' = Append(ledger, row)
                                   /\ row.type = type
                                   /\ row.amount = amount
                                   /\ row.after = wallet'.balance
      BY <1>5 DEF PostsRow
    <2>2. ledger \in Seq(LedgerRow)
      BY <1>1 DEF TypeOK
    <2>3. ledger' # << >> /\ ledger'[Len(ledger')] = row
      BY <2>1, <2>2
    <2>4. QED
      BY <1>5, <2>1, <2>3 DEF PostsRow, IsAccount!Next, IsAccount!Post
  <1>6. QED
    BY <1>1, <1>2, <1>3, <1>4, <1>5, StepShape DEF Posts

(* The wallet implements the account.                                      *)
THEOREM WalletImplementsAccount == Spec => ImplementsAccount
  <1>1. Init => IsAccount!Init
    BY DEF Init, IsAccount!Init
  <1>2. IInv /\ [Next]_vars => [IsAccount!Next]_(IsAccount!vars)
    BY StepImplementsAccount
  <1>3. IInv /\ [Next]_vars => IInv'
    BY IInvStep
  <1>4. QED
    BY <1>1, <1>2, <1>3, InitIInv, PTL DEF Spec, ImplementsAccount, IsAccount!Spec


-------------------------------------------------------------------------------
(***************************************************************************)
(* The monthly grant. The replica at work has the lock, so that what it    *)
(* checked still holds when it grants: the wallet's last reset is before   *)
(* the month of the grant, and no grant is after the last reset.           *)
(***************************************************************************)
Grants == RowsOf({"monthly_grant"})

MonthInv ==
    /\ \A k \in Replicas : cron[k].pc # "idle" => lock = k
    /\ \A k \in Replicas : cron[k].pc = "granting" =>
          wallet.resetMonth < MonthOf(cron[k].day) /\ MonthOf(cron[k].day) <= ThisMonth
    /\ wallet.resetMonth <= ThisMonth
    /\ \A i \in Grants : MonthOf(ledger[i].day) <= wallet.resetMonth
    /\ MonthlyGrantOnce

LEMMA MonthOfGrows ==
    ASSUME NEW d \in Nat, NEW e \in Nat, d <= e
    PROVE  /\ MonthOf(d) \in Int
           /\ MonthOf(e) \in Int
           /\ MonthOf(d) <= MonthOf(e)
  <1>1. ASSUME NEW n \in Int
        PROVE  /\ n \div DaysPerMonth \in Int
               /\ DaysPerMonth * (n \div DaysPerMonth) <= n
               /\ n < DaysPerMonth * (n \div DaysPerMonth) + DaysPerMonth
    BY CalendarAssumption, Z3
  <1>2. ASSUME NEW p \in Int, NEW q \in Int, p > q
        PROVE  DaysPerMonth * p >= DaysPerMonth * q + DaysPerMonth
    BY <1>2, CalendarAssumption, Z3
  <1> DEFINE p == (d - 1) \div DaysPerMonth
             q == (e - 1) \div DaysPerMonth
  <1>3. /\ p \in Int /\ DaysPerMonth * p <= d - 1
        /\ q \in Int /\ e - 1 < DaysPerMonth * q + DaysPerMonth
    BY <1>1
  <1>4. p <= q
    <2>1. DaysPerMonth * p \in Int /\ DaysPerMonth * q \in Int /\ DaysPerMonth \in Int
      BY <1>3, CalendarAssumption
    <2>2. ~ (p > q)
      <3> HIDE DEF p, q
      <3>1. ASSUME p > q PROVE FALSE
        <4>1. DaysPerMonth * p >= DaysPerMonth * q + DaysPerMonth
          BY <1>2, <1>3, <3>1
        <4>2. QED
          BY <1>3, <2>1, <4>1
      <3>2. QED
        BY <3>1
    <2>3. QED
      BY <1>3, <2>2
  <1>5. QED
    BY <1>3, <1>4 DEF MonthOf

(* Appending a row leaves the others, and adds a grant only if it is one.  *)
LEMMA AppendGrants ==
    ASSUME TypeOK, NEW row \in LedgerRow, ledger' = Append(ledger, row)
    PROVE  /\ \A i \in Grants : i \in DOMAIN ledger /\ ledger'[i] = ledger[i]
           /\ ledger'[Len(ledger) + 1] = row
           /\ Grants' = IF row.type = "monthly_grant" THEN Grants \cup {Len(ledger) + 1} ELSE Grants
  <1>1. /\ Len(ledger') = Len(ledger) + 1
        /\ Len(ledger) \in Nat
        /\ DOMAIN ledger = 1..Len(ledger)
        /\ DOMAIN ledger' = 1..(Len(ledger) + 1)
        /\ \A i \in 1..Len(ledger) : ledger'[i] = ledger[i]
        /\ ledger'[Len(ledger) + 1] = row
    BY DEF TypeOK
  <1>2. QED
    BY <1>1 DEF Grants, RowsOf

(* A step that neither grants nor moves the reset, the cron or the lock.   *)
Mundane ==
    /\ UNCHANGED <<cron, lock, wallet.resetMonth>>
    /\ day' \in {day, day + 1}
    /\ \/ UNCHANGED ledger
       \/ \E row \in LedgerRow : row.type # "monthly_grant" /\ ledger' = Append(ledger, row)

LEMMA MundaneInv ==
    ASSUME TypeOK, MonthInv, Mundane
    PROVE  MonthInv'
  <1>1. /\ Grants' = Grants
        /\ \A i \in Grants : ledger'[i] = ledger[i]
    <2>1. CASE UNCHANGED ledger
      BY <2>1 DEF Grants, RowsOf
    <2>2. CASE ~ UNCHANGED ledger
      BY <2>2, AppendGrants DEF Mundane
    <2>3. QED
      BY <2>1, <2>2
  <1>2. ThisMonth \in Int /\ ThisMonth' \in Int /\ ThisMonth <= ThisMonth'
    <2>1. day \in Nat /\ day' \in Nat /\ day <= day'
      BY DEF TypeOK, Mundane
    <2>2. QED
      BY <2>1, MonthOfGrows DEF ThisMonth
  <1>3. \A k \in Replicas : MonthOf(cron[k].day) \in Int
    BY MonthOfType DEF TypeOK, CronState
  <1>4. wallet.resetMonth \in Int /\ wallet'.resetMonth = wallet.resetMonth /\ cron' = cron /\ lock' = lock
    BY DEF TypeOK, Wallet, Mundane
  <1>5. MonthlyGrantOnce'
    BY <1>1 DEF MonthInv, MonthlyGrantOnce, Grants
  <1>6. QED
    BY <1>1, <1>2, <1>3, <1>4, <1>5 DEF MonthInv

(* A row posted with a wallet that has the same last reset.                *)
LEMMA PostMundane ==
    ASSUME TypeOK, NEW type \in RowTypes \ {"monthly_grant"}, NEW amount \in Int, NEW d \in Nat,
           NEW w \in Wallet, w.resetMonth = wallet.resetMonth,
           Post(type, amount, d, w), UNCHANGED <<cron, lock, day>>
    PROVE  Mundane
  <1> DEFINE row == [type |-> type, amount |-> amount, after |-> w.balance + amount, day |-> d]
  <1>1. row \in LedgerRow /\ row.type # "monthly_grant"
    BY DEF LedgerRow, Wallet
  <1>2. ledger' = Append(ledger, row) /\ wallet' = [w EXCEPT !.balance = w.balance + amount]
    BY DEF Post
  <1>3. wallet'.resetMonth = wallet.resetMonth
    BY <1>2 DEF Wallet
  <1>4. QED
    BY <1>1, <1>2, <1>3 DEF Mundane

(* Everything but the cron is mundane.                                     *)
LEMMA RequestMundane ==
    ASSUME TypeOK, NEW r \in Requests, RequestStep(r)
    PROVE  Mundane
  <1>1. UNCHANGED <<cron, lock, day>>
    BY DEF RequestStep, CreateStart, CreateRow, CreateRaceLost, WriteOpeningRow, EnsureCredits,
       CallProvider, PrecheckCharge, ReadPending, WriteCharge, LeaveRequest, cronVars
  <1>2. CASE UNCHANGED <<wallet, ledger>>
    BY <1>1, <1>2 DEF Mundane
  <1>3. CASE CreateRow(r)
    BY <1>1, <1>3 DEF CreateRow, Mundane, TypeOK, Wallet
  <1>4. CASE WriteCharge(r)
    <2> DEFINE parts == request[r].pending + request[r].cost
               credits == Whole(parts)
               w == [wallet EXCEPT !.pending = parts - credits * Unit,
                                   !.monthlyUsed = wallet.monthlyUsed + credits]
    <2>1. parts \in Nat
      BY DEF TypeOK, RequestState
    <2>2. credits \in Nat /\ parts - credits * Unit \in Nat
      BY <2>1, WholeBounds
    <2>3. CASE wallet' = [wallet EXCEPT !.pending = parts] /\ UNCHANGED ledger
      BY <1>1, <2>3 DEF Mundane, TypeOK, Wallet
    <2>4. CASE Post("ai_usage", -credits, day, w)
      <3>1. wallet.monthlyUsed + credits \in Nat /\ wallet \in Wallet
        BY <2>2 DEF TypeOK, Wallet
      <3>2. ASSUME NEW n \in Nat, NEW m \in Nat
            PROVE  /\ [wallet EXCEPT !.pending = n, !.monthlyUsed = m] \in Wallet
                   /\ [wallet EXCEPT !.pending = n, !.monthlyUsed = m].resetMonth = wallet.resetMonth
        BY <3>1 DEF Wallet
      <3>3. w \in Wallet /\ w.resetMonth = wallet.resetMonth
        BY <2>2, <3>1, <3>2
      <3>4. "ai_usage" \in RowTypes \ {"monthly_grant"} /\ day \in Nat /\ -credits \in Int
        BY <2>2 DEF RowTypes, TypeOK
      <3> HIDE DEF w, credits, parts
      <3>5. QED
        BY <1>1, <2>4, <3>3, <3>4, PostMundane
    <2>5. QED
      BY <1>2, <1>4, <2>3, <2>4 DEF WriteCharge
  <1>5. QED
    BY <1>2, <1>3, <1>4 DEF RequestStep, CreateStart, CreateRaceLost, WriteOpeningRow, EnsureCredits,
       CallProvider, PrecheckCharge, ReadPending, LeaveRequest, dbVars

LEMMA ClaimMundane ==
    ASSUME TypeOK, NEW c \in Claimers, ClaimStep(c)
    PROVE  Mundane
  <1>1. UNCHANGED <<cron, lock, day>>
    BY DEF ClaimStep, ClaimCheck, ClaimGrant, ClaimDies, cronVars
  <1>2. CASE UNCHANGED <<wallet, ledger>>
    BY <1>1, <1>2 DEF Mundane
  <1>3. CASE ClaimGrant(c)
    <2> DEFINE w == [wallet EXCEPT !.lifetime = wallet.lifetime + claim[c].grant,
                                   !.lastClaim = claim[c].day,
                                   !.claimedTotal = claim[c].total + claim[c].grant]
    <2>1. claim[c].day \in Nat /\ claim[c].grant \in Nat /\ claim[c].total \in Nat
      BY DEF TypeOK, ClaimState
    <2>2. w \in Wallet /\ w.resetMonth = wallet.resetMonth
      <3>1. wallet \in Wallet
        BY DEF TypeOK
      <3>2. ASSUME NEW i \in Int, NEW d \in Nat, NEW n \in Nat
            PROVE  LET x == [wallet EXCEPT !.lifetime = i, !.lastClaim = d, !.claimedTotal = n]
                   IN  x \in Wallet /\ x.resetMonth = wallet.resetMonth
        BY <3>1 DEF Wallet
      <3>3. wallet.lifetime \in Int
        BY <3>1 DEF Wallet
      <3>4. wallet.lifetime + claim[c].grant \in Int /\ claim[c].total + claim[c].grant \in Nat
        BY <2>1, <3>3
      <3>5. QED
        BY <2>1, <3>2, <3>4
    <2>3. "daily_claim" \in RowTypes \ {"monthly_grant"}
      BY DEF RowTypes
    <2>4. Post("daily_claim", claim[c].grant, claim[c].day, w)
      BY <1>3 DEF ClaimGrant
    <2> HIDE DEF w
    <2>5. claim[c].grant \in Int
      BY <2>1
    <2>6. QED
      BY <1>1, <2>1, <2>2, <2>3, <2>4, <2>5, PostMundane
  <1>4. QED
    BY <1>2, <1>3 DEF ClaimStep, ClaimCheck, ClaimDies, dbVars

LEMMA OneOffMundane ==
    ASSUME TypeOK,
           \/ \E amount \in Amounts : DeductCredits(amount)
           \/ \E amount \in Amounts, type \in CreditTypes : AddCredits(amount, type)
           \/ \E i \in 0..Len(ledger) : AdminRefund(i)
    PROVE  Mundane
  <1>1. wallet \in Wallet /\ day \in Nat
    BY DEF TypeOK
  <1>2. ASSUME NEW amount \in Amounts, DeductCredits(amount) PROVE Mundane
    <2> DEFINE w == [wallet EXCEPT !.monthlyUsed = wallet.monthlyUsed + amount]
    <2>1. w \in Wallet /\ w.resetMonth = wallet.resetMonth /\ -amount \in Int
      <3>1. amount \in Nat /\ wallet.monthlyUsed \in Nat
        BY <1>1, AmountsAssumption DEF Wallet
      <3>2. ASSUME NEW n \in Nat
            PROVE  /\ [wallet EXCEPT !.monthlyUsed = n] \in Wallet
                   /\ [wallet EXCEPT !.monthlyUsed = n].resetMonth = wallet.resetMonth
        BY <1>1 DEF Wallet
      <3>3. wallet.monthlyUsed + amount \in Nat /\ -amount \in Int
        BY <3>1
      <3>4. QED
        BY <3>2, <3>3
    <2>2. "usage" \in RowTypes \ {"monthly_grant"}
      BY DEF RowTypes
    <2>3. Post("usage", -amount, day, w) /\ UNCHANGED <<cron, lock, day>>
      BY <1>2 DEF DeductCredits, cronVars
    <2> HIDE DEF w
    <2>4. QED
      BY <1>1, <2>1, <2>2, <2>3, PostMundane
  <1>3. ASSUME NEW amount \in Amounts, NEW type \in CreditTypes, AddCredits(amount, type) PROVE Mundane
    <2> DEFINE w == IF type \in Earning THEN [wallet EXCEPT !.lifetime = wallet.lifetime + amount] ELSE wallet
    <2>1. w \in Wallet /\ w.resetMonth = wallet.resetMonth /\ amount \in Int
      <3>1. amount \in Nat /\ wallet.lifetime \in Int
        BY <1>1, AmountsAssumption DEF Wallet
      <3>2. ASSUME NEW i \in Int
            PROVE  /\ [wallet EXCEPT !.lifetime = i] \in Wallet
                   /\ [wallet EXCEPT !.lifetime = i].resetMonth = wallet.resetMonth
        BY <1>1 DEF Wallet
      <3>3. wallet.lifetime + amount \in Int /\ amount \in Int
        BY <3>1
      <3>4. QED
        BY <1>1, <3>2, <3>3
    <2>2. type \in RowTypes \ {"monthly_grant"}
      BY DEF RowTypes, CreditTypes, Earning
    <2>3. Post(type, amount, day, w) /\ UNCHANGED <<cron, lock, day>>
      BY <1>3 DEF AddCredits, cronVars
    <2> HIDE DEF w
    <2>4. QED
      BY <1>1, <2>1, <2>2, <2>3, PostMundane
  <1>4. ASSUME NEW i \in 0..Len(ledger), AdminRefund(i) PROVE Mundane
    <2>1. -Original(i).amount \in Int
      BY <1>4, RefundAmount
    <2>2. "refund" \in RowTypes \ {"monthly_grant"}
      BY DEF RowTypes, CreditTypes
    <2>3. Post("refund", -Original(i).amount, day, wallet) /\ UNCHANGED <<cron, lock, day>>
      BY <1>4 DEF AdminRefund, cronVars
    <2>4. QED
      BY <1>1, <2>1, <2>2, <2>3, PostMundane
  <1>5. QED
    BY <1>2, <1>3, <1>4

LEMMA GrantMonths ==
    ASSUME TypeOK
    PROVE  \A i \in Grants : MonthOf(ledger[i].day) \in Int
  <1> SUFFICES ASSUME NEW i \in Grants PROVE MonthOf(ledger[i].day) \in Int
    OBVIOUS
  <1>1. i \in DOMAIN ledger /\ ledger \in Seq(LedgerRow)
    BY DEF TypeOK, Grants, RowsOf
  <1>2. ledger[i] \in LedgerRow
    BY <1>1
  <1>3. ledger[i].day \in Nat
    BY <1>2 DEF LedgerRow
  <1>4. QED
    BY <1>3, MonthOfType

(* A step of the cron: only the replica with the lock is at work.          *)
LEMMA CronMonth ==
    ASSUME TypeOK, MonthInv, NEW k \in Replicas, CronStep(k)
    PROVE  MonthInv'
  <1>1. /\ ThisMonth \in Int /\ ThisMonth' = ThisMonth /\ wallet.resetMonth \in Int
        /\ \A j \in Replicas : cron[j] \in CronState
        /\ \A j \in Replicas : MonthOf(cron[j].day) \in Int
    <2>1. day \in Nat /\ wallet.resetMonth \in Int /\ \A j \in Replicas : cron[j] \in CronState
      BY DEF TypeOK, Wallet
    <2>2. day' = day
      BY DEF CronStep, CronStart, CronGrantCheck, CronGrant, CronResetCheck, CronReset, CronRelease, CronDies
    <2>3. \A j \in Replicas : cron[j].day \in Nat
      BY <2>1 DEF CronState
    <2>4. QED
      BY <2>1, <2>2, <2>3, MonthOfType DEF ThisMonth
  <1>2. \A j \in Replicas \ {k} : cron'[j] = cron[j]
    BY DEF TypeOK, CronStep, CronStart, CronGrantCheck, CronGrant, CronResetCheck, CronReset, CronRelease,
       CronDies, CronMoves
  <1>3. ASSUME UNCHANGED ledger PROVE Grants' = Grants /\ MonthlyGrantOnce'
    BY <1>3 DEF Grants, RowsOf, MonthInv, MonthlyGrantOnce
  <1>4. cron[k].pc # "idle" => \A j \in Replicas \ {k} : cron[j].pc = "idle"
    BY DEF MonthInv
  <1>5. CASE CronStart(k)
    <2>1. \A j \in Replicas : cron[j].pc = "idle"
      BY <1>5, ReplicasAssumption DEF CronStart, MonthInv
    <2>2. cron'[k].pc = "grant" /\ lock' = k
      BY <1>1, <1>5 DEF CronStart, CronMoves, TypeOK, CronState
    <2>3. wallet' = wallet /\ ledger' = ledger
      BY <1>5 DEF CronStart, dbVars
    <2>4. QED
      BY <1>1, <1>2, <1>3, <2>1, <2>2, <2>3 DEF MonthInv
  <1>6. CASE CronGrantCheck(k)
    <2>1. wallet' = wallet /\ ledger' = ledger /\ lock' = lock
      BY <1>6 DEF CronGrantCheck, dbVars
    <2>2. lock = k /\ \A j \in Replicas \ {k} : cron'[j].pc = "idle"
      BY <1>2, <1>4, <1>6 DEF CronGrantCheck, MonthInv
    <2>3. cron'[k].pc = "granting" => GrantDue /\ cron'[k].day = day
      BY <1>6 DEF CronGrantCheck, TypeOK, IdleCron
    <2>4. cron'[k].pc = "granting" => wallet.resetMonth < MonthOf(cron'[k].day) /\ MonthOf(cron'[k].day) <= ThisMonth
      BY <1>1, <2>3 DEF GrantDue, MonthInv, ThisMonth
    <2>5. QED
      BY <1>1, <1>3, <2>1, <2>2, <2>4 DEF MonthInv
  <1>7. CASE CronGrant(k)
    <2> DEFINE month == MonthOf(cron[k].day)
               w == [wallet EXCEPT !.lifetime = wallet.lifetime + cron[k].credits, !.monthlyUsed = 0,
                                   !.resetMonth = month, !.claimedTotal = 0]
               row == [type |-> "monthly_grant", amount |-> cron[k].credits,
                       after |-> w.balance + cron[k].credits, day |-> cron[k].day]
    <2>1. wallet.resetMonth < month /\ month <= ThisMonth /\ month \in Int /\ lock = k
      BY <1>1, <1>7 DEF CronGrant, MonthInv
    <2>2. lock' = lock /\ cron'[k].pc = "reset"
      BY <1>7 DEF CronGrant, TypeOK, IdleCron
    <2>3. wallet'.resetMonth = month
      BY <1>7 DEF CronGrant, Post, TypeOK, Wallet
    <2>4. row \in LedgerRow /\ ledger' = Append(ledger, row)
      <3>1. cron[k].credits \in Int /\ cron[k].day \in Nat /\ "monthly_grant" \in RowTypes
        BY <1>1 DEF CronState, RowTypes
      <3>2. wallet.balance \in Int /\ w.balance = wallet.balance
        BY DEF TypeOK, Wallet
      <3>3. Post("monthly_grant", cron[k].credits, cron[k].day, w)
        BY <1>7 DEF CronGrant
      <3> HIDE DEF w
      <3>4. row \in LedgerRow
        BY <3>1, <3>2 DEF LedgerRow
      <3>5. QED
        BY <3>3, <3>4 DEF Post
    <2>5. /\ Grants' = Grants \cup {Len(ledger) + 1}
          /\ \A i \in Grants : ledger'[i] = ledger[i]
          /\ ledger'[Len(ledger) + 1].day = cron[k].day
      <3>1. row.type = "monthly_grant" /\ row.day = cron[k].day
        OBVIOUS
      <3> HIDE DEF row
      <3>2. QED
        BY <2>4, <3>1, AppendGrants
    <2>6. \A i \in Grants : MonthOf(ledger[i].day) < month /\ MonthOf(ledger[i].day) \in Int
      <3>1. \A i \in Grants : MonthOf(ledger[i].day) \in Int
        BY GrantMonths
      <3>2. QED
        BY <1>1, <2>1, <3>1 DEF MonthInv
    <2> HIDE DEF month, row, w
    <2>7. MonthlyGrantOnce'
      <3> SUFFICES ASSUME NEW i \in Grants', NEW j \in Grants', MonthOf(ledger'[i].day) = MonthOf(ledger'[j].day)
                   PROVE  i = j
        BY DEF MonthlyGrantOnce, Grants
      <3>1. CASE i \in Grants /\ j \in Grants
        BY <2>5, <3>1 DEF MonthInv, MonthlyGrantOnce, Grants
      <3>2. CASE i \in Grants /\ j = Len(ledger) + 1
        BY <2>1, <2>5, <2>6, <3>2 DEF month
      <3>3. CASE j \in Grants /\ i = Len(ledger) + 1
        BY <2>1, <2>5, <2>6, <3>3 DEF month
      <3>4. QED
        BY <2>5, <3>1, <3>2, <3>3
    <2>8. \A i \in Grants' : MonthOf(ledger'[i].day) <= wallet'.resetMonth
      BY <2>1, <2>3, <2>5, <2>6 DEF month
    <2>9. \A j \in Replicas : cron'[j].pc # "granting" /\ (cron'[j].pc # "idle" => lock' = j)
      BY <1>2, <1>4, <1>7, <2>1, <2>2 DEF CronGrant
    <2>10. QED
      BY <1>1, <2>1, <2>3, <2>7, <2>8, <2>9 DEF MonthInv
  <1>8. CASE CronResetCheck(k) \/ CronReset(k)
    <2>1. lock' = lock /\ lock = k /\ ledger' = ledger
      BY <1>8 DEF CronResetCheck, CronReset, CronMoves, MonthInv, dbVars
    <2>2. cron'[k].pc # "granting" /\ \A j \in Replicas \ {k} : cron'[j].pc = "idle"
      BY <1>1, <1>2, <1>4, <1>8 DEF CronResetCheck, CronReset, CronMoves, TypeOK, CronState
    <2>3. /\ wallet'.resetMonth \in {wallet.resetMonth, ThisMonth}
      BY <1>8 DEF CronResetCheck, CronReset, TypeOK, Wallet, dbVars
    <2>4. \A i \in Grants : MonthOf(ledger[i].day) \in Int
      BY GrantMonths
    <2>5. \A i \in Grants' : MonthOf(ledger'[i].day) <= wallet'.resetMonth
      BY <1>1, <1>3, <2>1, <2>3, <2>4 DEF MonthInv
    <2>6. QED
      BY <1>1, <1>3, <2>1, <2>2, <2>3, <2>5 DEF MonthInv
  <1>9. CASE CronRelease(k) \/ CronDies(k)
    <2>1. wallet' = wallet /\ ledger' = ledger
      BY <1>9 DEF CronRelease, CronDies, dbVars
    <2>2. cron' = [cron EXCEPT ![k].pc = "idle"] \/ cron' = [cron EXCEPT ![k] = IdleCron]
      BY <1>9 DEF CronRelease, CronDies, CronMoves
    <2>3. \A j \in Replicas : cron'[j].pc = "idle"
      <3>1. cron'[k].pc = "idle"
        <4>1. cron \in [Replicas -> CronState] /\ cron[k] \in CronState
          BY <1>1 DEF TypeOK
        <4> QED  BY <4>1, <2>2 DEF IdleCron, CronState
      <3>2. \A j \in Replicas \ {k} : cron'[j] = cron[j]
        BY <1>2
      <3>3. \A j \in Replicas \ {k} : cron[j].pc = "idle"
        <4>1. cron[k].pc # "idle"
          BY <1>9 DEF CronRelease, CronDies, CronMoves
        <4> QED  BY <4>1, <1>4
      <3> QED  BY <3>1, <3>2, <3>3
    <2>4. Grants' = Grants
      BY <2>1, <1>3
    <2>5. \A i \in Grants' : MonthOf(ledger'[i].day) <= wallet'.resetMonth
      BY <1>1, <2>1, <2>4 DEF MonthInv
    <2>6. MonthlyGrantOnce'
      BY <2>1, <1>3
    <2>7. ThisMonth' = ThisMonth /\ wallet.resetMonth <= ThisMonth
      BY <1>1 DEF MonthInv
    <2>8. QED
      BY <2>1, <2>3, <2>5, <2>6, <2>7 DEF MonthInv
  <1>10. QED
    BY <1>5, <1>6, <1>7, <1>8, <1>9 DEF CronStep

(* A month's credits are granted once, however many replicas run the cron, *)
(* whatever dies and whenever the lock of a dead one expires               *)
(* (grantMonthlyCredits, withDistributedLock).                             *)
THEOREM MonthlyGrantOnceHolds == Spec => []MonthlyGrantOnce
  <1>1. Init => MonthInv
    <2> SUFFICES ASSUME Init PROVE MonthInv
      OBVIOUS
    <2>1. \A k \in Replicas : cron[k].pc = "idle"
      BY DEF Init, IdleCron
    <2>2. Grants = {}
      BY DEF Init, Grants, RowsOf
    <2>3. wallet.resetMonth = 0 /\ ThisMonth \in Nat
      BY MonthOfType DEF Init, ThisMonth, Never
    <2>4. QED
      BY <2>1, <2>2, <2>3 DEF MonthInv, MonthlyGrantOnce, Grants
  <1>2. TypeOK /\ MonthInv /\ [Next]_vars => MonthInv'
    <2> SUFFICES ASSUME TypeOK, MonthInv, [Next]_vars PROVE MonthInv'
      OBVIOUS
    <2>1. CASE UNCHANGED vars
      BY <2>1, MundaneInv DEF vars, dbVars, cronVars, Mundane
    <2>2. ASSUME NEW k \in Replicas, CronStep(k) PROVE MonthInv'
      BY <2>2, CronMonth
    <2>3. CASE LockExpires
      <3>1. \A k \in Replicas : cron[k].pc = "idle"
        BY <2>3 DEF LockExpires, MonthInv
      <3>2. UNCHANGED <<wallet, ledger, day, cron>>
        BY <2>3 DEF LockExpires, dbVars
      <3>3. QED
        BY <3>1, <3>2 DEF MonthInv, MonthlyGrantOnce, Grants, RowsOf, ThisMonth
    <2>4. CASE AdminOpen \/ ChangePlan \/ NextDay
      BY <2>4, MundaneInv DEF AdminOpen, ChangePlan, NextDay, Mundane, dbVars, cronVars
    <2>5. QED
      BY <2>1, <2>2, <2>3, <2>4, RequestMundane, ClaimMundane, OneOffMundane, MundaneInv DEF Next
  <1>3. MonthInv => MonthlyGrantOnce
    BY DEF MonthInv
  <1>4. QED
    BY <1>1, <1>2, <1>3, TypeCorrect, PTL DEF Spec

-------------------------------------------------------------------------------
(***************************************************************************)
(* Sums over a finite set. MapThenSumSet takes its elements one by one, in *)
(* an order CHOOSE picks. Nothing below depends on that order: a property  *)
(* of every subset is shown by taking a smallest subset that lacks it,     *)
(* which a finite set always has.                                          *)
(***************************************************************************)
SumOf(a, S) == MapThenSumSet(LAMBDA i : a[i], S)
Pick(s) == CHOOSE x \in s : TRUE
Iterates(a, S, g) ==
  g = [s \in SUBSET S |-> IF s = {} THEN 0 ELSE a[Pick(s)] + g[s \ {Pick(s)}]]

(* The recursion of the library is the one of Iterates.                    *)
LEMMA SumUnfold ==
   ASSUME NEW a, NEW S
   PROVE  SumOf(a, S) = (CHOOSE g : Iterates(a, S, g))[S]
  BY Zenon DEF SumOf, MapThenSumSet, MapThenFoldSet, Iterates, Pick

(* What is picked is there.                                                *)
LEMMA PickIn == ASSUME NEW s, s # {} PROVE Pick(s) \in s
  BY DEF Pick

(* A family of subsets of a finite set has a smallest one.                 *)
LEMMA MinimalSubset ==
    ASSUME NEW S, IsFiniteSet(S), NEW F \in SUBSET SUBSET S, F # {}
    PROVE  \E T \in F : \A U \in F : U \subseteq T => U = T
  <1>1. IsWellFoundedOn(StrictSubsetOrdering(S), SUBSET S)
    BY FS_StrictSubsetOrderingWellFounded, FS_FiniteSubsetsOfFinite, Zenon
  <1>2. PICK T \in F : \A U \in F : ~ (<<U, T>> \in StrictSubsetOrdering(S))
    BY <1>1, WFMin, Zenon
  <1>3. ASSUME NEW U \in F, U \subseteq T, U # T PROVE FALSE
    <2>1. <<U, T>> \in StrictSubsetOrdering(S)
      BY <1>3 DEF StrictSubsetOrdering
    <2>2. QED BY <1>2, <2>1
  <1>4. QED
    BY <1>3

(* Two iterations agree where what they add agrees.                        *)
LEMMA IteratesUnique ==
    ASSUME NEW T, IsFiniteSet(T), NEW U, NEW a, NEW b, NEW g, NEW h,
           Iterates(a, T, g), Iterates(b, U, h), \A i \in T \cap U : a[i] = b[i]
    PROVE  \A s \in SUBSET (T \cap U) : g[s] = h[s]
  <1> DEFINE Bad == {s \in SUBSET (T \cap U) : g[s] # h[s]}
  <1>1. SUFFICES ASSUME Bad # {} PROVE FALSE
    OBVIOUS
  <1>2. PICK s \in Bad : \A r \in Bad : r \subseteq s => r = s
    <2>1. Bad \in SUBSET SUBSET T
      OBVIOUS
    <2> HIDE DEF Bad
    <2>2. QED
      BY <1>1, <2>1, MinimalSubset
  <1>3. s \in SUBSET T /\ s \in SUBSET U
    OBVIOUS
  <1>4. CASE s = {}
    BY <1>2, <1>3, <1>4 DEF Iterates
  <1>5. CASE s # {}
    <2>1. Pick(s) \in s
      BY <1>5, PickIn
    <2> DEFINE r == s \ {Pick(s)}
    <2>2. g[s] = a[Pick(s)] + g[r] /\ h[s] = b[Pick(s)] + h[r]
      BY <1>3, <1>5 DEF Iterates
    <2>3. g[r] = h[r]
      BY <1>2, <1>3, <2>1
    <2>4. a[Pick(s)] = b[Pick(s)]
      BY <1>3, <2>1
    <2>5. QED
      BY <1>2, <2>2, <2>3, <2>4
  <1>6. QED
    BY <1>4, <1>5

(* Every finite set has an iteration.                                      *)
LEMMA IteratesExists ==
    ASSUME NEW S, IsFiniteSet(S), NEW a
    PROVE  \E g : Iterates(a, S, g)
  <1> DEFINE Bad == {T \in SUBSET S : ~ \E g : Iterates(a, T, g)}
  <1>1. SUFFICES ASSUME Bad # {} PROVE FALSE
    OBVIOUS
  <1>2. PICK T \in Bad : \A r \in Bad : r \subseteq T => r = T
    <2>1. Bad \in SUBSET SUBSET S
      OBVIOUS
    <2> HIDE DEF Bad
    <2>2. QED
      BY <1>1, <2>1, MinimalSubset
  <1> DEFINE f(s) == CHOOSE g : Iterates(a, s, g)
  <1>3. \A s \in SUBSET T : s # T => Iterates(a, s, f(s))
    BY <1>2
  <1>4. ASSUME NEW s \in SUBSET T, s # T, NEW r \in SUBSET s
        PROVE  f(s)[r] = f(r)[r]
    <2>1. Iterates(a, s, f(s)) /\ Iterates(a, r, f(r)) /\ IsFiniteSet(s)
      BY <1>3, <1>4, FS_Subset
    <2> HIDE DEF f
    <2>2. QED
      BY <2>1, IteratesUnique
  <1> DEFINE top == IF T = {} THEN 0 ELSE a[Pick(T)] + f(T \ {Pick(T)})[T \ {Pick(T)}]
             g == [s \in SUBSET T |-> IF s = T THEN top ELSE f(s)[s]]
  <1>5. ASSUME NEW s \in SUBSET T
        PROVE  g[s] = IF s = {} THEN 0 ELSE a[Pick(s)] + g[s \ {Pick(s)}]
    <2>1. s # {} => Pick(s) \in s
      BY PickIn
    <2>2. CASE s = T
      BY <2>1, <2>2
    <2>3. CASE s # T
      <3>1. Iterates(a, s, f(s))
        BY <1>3, <2>3
      <3>2. f(s)[s] = IF s = {} THEN 0 ELSE a[Pick(s)] + f(s)[s \ {Pick(s)}]
        BY <3>1 DEF Iterates
      <3>3. s # {} => f(s)[s \ {Pick(s)}] = f(s \ {Pick(s)})[s \ {Pick(s)}]
        BY <1>4, <2>3
      <3>4. g[s] = f(s)[s] /\ (s # {} => g[s \ {Pick(s)}] = f(s \ {Pick(s)})[s \ {Pick(s)}])
        <4> HIDE DEF f, top
        <4>1. s # {} => s \ {Pick(s)} # T /\ s \ {Pick(s)} \in SUBSET T
          BY <2>1
        <4>2. QED
          BY <2>3, <4>1
      <3> HIDE DEF f, g
      <3>5. QED
        BY <3>2, <3>3, <3>4
    <2>4. QED
      BY <2>2, <2>3
  <1>6. Iterates(a, T, g)
    <2> HIDE DEF f, top
    <2>1. g = [s \in SUBSET T |-> g[s]]
      OBVIOUS
    <2> HIDE DEF g
    <2>2. [s \in SUBSET T |-> g[s]] = [s \in SUBSET T |-> IF s = {} THEN 0 ELSE a[Pick(s)] + g[s \ {Pick(s)}]]
      BY <1>5
    <2>3. QED
      BY <2>1, <2>2, Zenon DEF Iterates
  <1>7. QED
    BY <1>2, <1>6

(* One iteration gives the sums of all the subsets.                        *)
LEMMA SumIterates ==
    ASSUME NEW S, IsFiniteSet(S), NEW a
    PROVE  \E g : /\ Iterates(a, S, g)
                  /\ \A T \in SUBSET S : SumOf(a, T) = g[T]
  <1>1. ASSUME NEW T \in SUBSET S
        PROVE  Iterates(a, T, CHOOSE g : Iterates(a, T, g)) /\ IsFiniteSet(T)
    BY IteratesExists, FS_Subset
  <1> DEFINE g == CHOOSE h : Iterates(a, S, h)
  <1>2. ASSUME NEW T \in SUBSET S PROVE SumOf(a, T) = g[T]
    <2> DEFINE h == CHOOSE k : Iterates(a, T, k)
    <2>1. SumOf(a, T) = h[T]
      BY SumUnfold
    <2>2. Iterates(a, T, h) /\ Iterates(a, S, g) /\ IsFiniteSet(S)
      BY <1>1
    <2> HIDE DEF g, h
    <2>3. h[T] = g[T]
      BY <2>2, IteratesUnique
    <2>4. QED
      BY <2>1, <2>3
  <1>3. Iterates(a, S, g)
    BY <1>1
  <1> HIDE DEF g
  <1>4. QED
    BY <1>2, <1>3

(* Nothing adds up to 0.                                                   *)
LEMMA SumEmpty == ASSUME NEW a PROVE SumOf(a, {}) = 0
  <1>1. PICK g : Iterates(a, {}, g) /\ SumOf(a, {}) = g[{}]
    BY FS_EmptySet, SumIterates
  <1>2. QED
    BY <1>1 DEF Iterates

(* A sum is its picked element and the rest.                               *)
LEMMA SumPick ==
    ASSUME NEW S, IsFiniteSet(S), S # {}, NEW a
    PROVE  SumOf(a, S) = a[Pick(S)] + SumOf(a, S \ {Pick(S)})
  <1>1. PICK g : Iterates(a, S, g) /\ \A T \in SUBSET S : SumOf(a, T) = g[T]
    BY SumIterates
  <1>2. g[S] = a[Pick(S)] + g[S \ {Pick(S)}]
    BY <1>1 DEF Iterates
  <1>3. QED
    BY <1>1, <1>2

(* A sum only looks at the terms it sums.                                  *)
LEMMA SumSame ==
    ASSUME NEW S, IsFiniteSet(S), NEW a, NEW b, \A i \in S : a[i] = b[i]
    PROVE  SumOf(a, S) = SumOf(b, S)
  <1>1. PICK g : Iterates(a, S, g) /\ SumOf(a, S) = g[S]
    BY SumIterates
  <1>2. PICK h : Iterates(b, S, h) /\ SumOf(b, S) = h[S]
    BY SumIterates
  <1>3. g[S] = h[S]
    BY <1>1, <1>2, IteratesUnique
  <1>4. QED
    BY <1>1, <1>2, <1>3

(* Integers add up to an integer.                                          *)
LEMMA SumType ==
    ASSUME NEW S, IsFiniteSet(S), NEW a, \A i \in S : a[i] \in Int
    PROVE  SumOf(a, S) \in Int
  <1> DEFINE Bad == {T \in SUBSET S : SumOf(a, T) \notin Int}
  <1>1. SUFFICES ASSUME Bad # {} PROVE FALSE
    OBVIOUS
  <1>2. PICK T \in Bad : \A r \in Bad : r \subseteq T => r = T
    <2>1. Bad \in SUBSET SUBSET S
      OBVIOUS
    <2> HIDE DEF Bad
    <2>2. QED
      BY <1>1, <2>1, MinimalSubset
  <1>3. T # {}
    BY SumEmpty
  <1>4. Pick(T) \in T /\ IsFiniteSet(T)
    BY <1>3, PickIn, FS_Subset
  <1>5. SumOf(a, T) = a[Pick(T)] + SumOf(a, T \ {Pick(T)})
    BY <1>3, <1>4, SumPick
  <1>6. SumOf(a, T \ {Pick(T)}) \in Int
    BY <1>2, <1>4
  <1>7. QED
    BY <1>4, <1>5, <1>6

(* Any term can be taken out of a sum first.                               *)
LEMMA SumRemove ==
    ASSUME NEW S, IsFiniteSet(S), NEW a, \A i \in S : a[i] \in Int
    PROVE  \A T \in SUBSET S : \A x \in T : SumOf(a, T) = a[x] + SumOf(a, T \ {x})
  <1> DEFINE Bad == {T \in SUBSET S : \E x \in T : SumOf(a, T) # a[x] + SumOf(a, T \ {x})}
  <1>1. SUFFICES ASSUME Bad # {} PROVE FALSE
    OBVIOUS
  <1>2. PICK T \in Bad : \A r \in Bad : r \subseteq T => r = T
    <2>1. Bad \in SUBSET SUBSET S
      OBVIOUS
    <2> HIDE DEF Bad
    <2>2. QED
      BY <1>1, <2>1, MinimalSubset
  <1>3. PICK x \in T : SumOf(a, T) # a[x] + SumOf(a, T \ {x})
    OBVIOUS
  <1> DEFINE y == Pick(T)
  <1>4. y \in T /\ IsFiniteSet(T) /\ T \in SUBSET S
    BY <1>3, PickIn, FS_Subset
  <1>5. SumOf(a, T) = a[y] + SumOf(a, T \ {y})
    BY <1>3, <1>4, SumPick
  <1>6. x # y
    BY <1>3, <1>5
  <1> HIDE DEF y
  <1>7. /\ SumOf(a, T \ {y}) = a[x] + SumOf(a, (T \ {y}) \ {x})
        /\ SumOf(a, T \ {x}) = a[y] + SumOf(a, (T \ {x}) \ {y})
    <2>1. /\ T \ {y} \in SUBSET S /\ T \ {y} # T /\ x \in T \ {y}
          /\ T \ {x} \in SUBSET S /\ T \ {x} # T /\ y \in T \ {x}
      BY <1>4, <1>6
    <2>2. T \ {y} \notin Bad /\ T \ {x} \notin Bad
      BY <1>2, <2>1
    <2>3. QED
      BY <2>1, <2>2
  <1>8. (T \ {y}) \ {x} = (T \ {x}) \ {y}
    OBVIOUS
  <1>9. a[x] \in Int /\ a[y] \in Int /\ SumOf(a, (T \ {x}) \ {y}) \in Int
    <2>1. IsFiniteSet((T \ {x}) \ {y})
      BY <1>4, FS_Subset
    <2>2. QED
      BY <1>4, <2>1, SumType
  <1> DEFINE rest == SumOf(a, (T \ {x}) \ {y})
  <1>10. a[y] + (a[x] + rest) = a[x] + (a[y] + rest)
    BY <1>9
  <1> HIDE DEF Bad
  <1>11. SumOf(a, T) = a[x] + SumOf(a, T \ {x})
    BY <1>5, <1>7, <1>8, <1>10, Zenon
  <1>12. QED
    BY <1>3, <1>11

(* One more term.                                                          *)
LEMMA SumAdd ==
    ASSUME NEW S, IsFiniteSet(S), NEW x, x \notin S, NEW a, \A i \in S \cup {x} : a[i] \in Int
    PROVE  SumOf(a, S \cup {x}) = SumOf(a, S) + a[x]
  <1>1. IsFiniteSet(S \cup {x}) /\ (S \cup {x}) \ {x} = S
    BY FS_AddElement
  <1>2. SumOf(a, S \cup {x}) = a[x] + SumOf(a, S)
    BY <1>1, SumRemove
  <1>3. SumOf(a, S) \in Int /\ a[x] \in Int
    BY SumType
  <1>4. QED
    BY <1>2, <1>3

(* The rows of a sequence with one of the types, and what rows add up to. *)
RowsIn(l, types) == {i \in DOMAIN l : l[i].type \in types}
SumRows(l, rows) == SumOf([i \in DOMAIN l |-> l[i].amount], rows)

(* The model's total is this sum.                                          *)
LEMMA TotalIsSum ==
    ASSUME NEW rows \in SUBSET DOMAIN ledger
    PROVE  Total(rows) = SumRows(ledger, rows)
  BY DEF Total, SumRows, SumOf, MapThenSumSet, MapThenFoldSet

(* The rows of a ledger are finitely many, with integer amounts.           *)
LEMMA RowsFinite ==
    ASSUME NEW l \in Seq(LedgerRow), NEW rows \in SUBSET DOMAIN l
    PROVE  /\ IsFiniteSet(rows)
           /\ \A i \in rows : l[i].amount \in Int
           /\ SumRows(l, rows) \in Int
  <1>1. IsFiniteSet(rows)
    <2>1. IsFiniteSet(1..Len(l))
      BY FS_Interval
    <2>2. QED
      BY <2>1, FS_Subset
  <1>2. ASSUME NEW i \in rows PROVE l[i].amount \in Int
    <2>1. l[i] \in LedgerRow
      OBVIOUS
    <2>2. QED
      BY <2>1 DEF LedgerRow
  <1>3. SumRows(l, rows) \in Int
    <2> DEFINE a == [i \in DOMAIN l |-> l[i].amount]
    <2>1. \A i \in rows : a[i] \in Int
      BY <1>2
    <2> HIDE DEF a
    <2>2. SumOf(a, rows) \in Int
      BY <1>1, <2>1, SumType
    <2>3. QED
      BY <2>2 DEF SumRows, a
  <1>4. QED
    BY <1>1, <1>2, <1>3

(* An appended row leaves the sum over the rows before it, and adds its    *)
(* own amount to a sum that takes it in.                                   *)
LEMMA SumRowsAppend ==
    ASSUME NEW l \in Seq(LedgerRow), NEW row \in LedgerRow, NEW rows \in SUBSET DOMAIN l
    PROVE  /\ SumRows(Append(l, row), rows) = SumRows(l, rows)
           /\ SumRows(Append(l, row), rows \cup {Len(l) + 1}) = SumRows(l, rows) + row.amount
  <1> DEFINE m == Append(l, row)
             new == Len(l) + 1
             a == [i \in DOMAIN l |-> l[i].amount]
             b == [i \in DOMAIN m |-> m[i].amount]
  <1>1. /\ m \in Seq(LedgerRow)
        /\ DOMAIN m = DOMAIN l \cup {new}
        /\ new \notin DOMAIN l
        /\ \A i \in DOMAIN l : m[i] = l[i]
        /\ m[new] = row
    OBVIOUS
  <1>2. IsFiniteSet(rows) /\ \A i \in rows : l[i].amount \in Int
    BY RowsFinite
  <1>3. row.amount \in Int
    BY DEF LedgerRow
  <1> HIDE DEF m, new
  <1>4. \A i \in rows : a[i] = b[i] /\ b[i] \in Int
    BY <1>1, <1>2
  <1>5. b[new] = row.amount
    BY <1>1
  <1>6. new \notin rows
    BY <1>1
  <1> HIDE DEF a, b
  <1>7. SumOf(a, rows) = SumOf(b, rows)
    BY <1>2, <1>4, SumSame
  <1>8. SumOf(b, rows \cup {new}) = SumOf(b, rows) + b[new]
    <2>1. \A i \in rows \cup {new} : b[i] \in Int
      BY <1>3, <1>4, <1>5
    <2>2. QED
      BY <1>2, <1>6, <2>1, SumAdd
  <1>9. QED
    BY <1>5, <1>7, <1>8 DEF SumRows, a, b, m, new

(* The rows of some types, after one more row.                             *)
LEMMA RowsInAppend ==
    ASSUME NEW l \in Seq(LedgerRow), NEW row \in LedgerRow, NEW types
    PROVE  /\ RowsIn(l, types) \in SUBSET DOMAIN l
           /\ RowsIn(Append(l, row), types) =
                IF row.type \in types THEN RowsIn(l, types) \cup {Len(l) + 1} ELSE RowsIn(l, types)
           /\ \A i \in DOMAIN l : Append(l, row)[i] = l[i]
           /\ Append(l, row)[Len(l) + 1] = row
           /\ Len(l) + 1 \notin DOMAIN l
           /\ Append(l, row) \in Seq(LedgerRow)
  <1> DEFINE m == Append(l, row)
  <1>1. /\ DOMAIN m = DOMAIN l \cup {Len(l) + 1}
        /\ Len(l) + 1 \notin DOMAIN l
        /\ \A i \in DOMAIN l : m[i] = l[i]
        /\ m[Len(l) + 1] = row
        /\ m \in Seq(LedgerRow)
    OBVIOUS
  <1> HIDE DEF m
  <1>2. /\ RowsIn(m, types) = IF row.type \in types THEN RowsIn(l, types) \cup {Len(l) + 1}
                              ELSE RowsIn(l, types)
        /\ RowsIn(l, types) \in SUBSET DOMAIN l
    BY <1>1 DEF RowsIn
  <1>3. QED
    BY <1>1, <1>2 DEF m

(* What the rows of some types add up to, after one more row.              *)
LEMMA SumTypesAppend ==
    ASSUME NEW l \in Seq(LedgerRow), NEW row \in LedgerRow, NEW types
    PROVE  /\ SumRows(l, RowsIn(l, types)) \in Int
           /\ SumRows(Append(l, row), RowsIn(Append(l, row), types)) =
                SumRows(l, RowsIn(l, types)) + (IF row.type \in types THEN row.amount ELSE 0)
  <1> DEFINE m == Append(l, row)
  <1>1. RowsIn(l, types) \in SUBSET DOMAIN l
    BY DEF RowsIn
  <1>2. RowsIn(m, types) = IF row.type \in types THEN RowsIn(l, types) \cup {Len(l) + 1}
                           ELSE RowsIn(l, types)
    BY RowsInAppend
  <1>3. SumRows(l, RowsIn(l, types)) \in Int /\ row.amount \in Int
    BY <1>1, RowsFinite DEF LedgerRow
  <1>4. /\ SumRows(m, RowsIn(l, types)) = SumRows(l, RowsIn(l, types))
        /\ SumRows(m, RowsIn(l, types) \cup {Len(l) + 1}) = SumRows(l, RowsIn(l, types)) + row.amount
    BY <1>1, SumRowsAppend
  <1> HIDE DEF m
  <1>5. CASE row.type \in types
    BY <1>2, <1>3, <1>4, <1>5 DEF m
  <1>6. CASE row.type \notin types
    <2>1. SumRows(m, RowsIn(m, types)) = SumRows(l, RowsIn(l, types))
      BY <1>2, <1>4, <1>6
    <2>2. QED
      BY <1>3, <1>6, <2>1 DEF m
  <1>7. QED
    BY <1>5, <1>6

(* An empty ledger adds up to 0.                                           *)
LEMMA SumOfNoRows == \A types : SumRows(<< >>, RowsIn(<< >>, types)) = 0
  <1> SUFFICES ASSUME NEW types PROVE SumRows(<< >>, RowsIn(<< >>, types)) = 0
    OBVIOUS
  <1>1. RowsIn(<< >>, types) = {}
    BY DEF RowsIn
  <1>2. QED
    BY <1>1, SumEmpty DEF SumRows

-------------------------------------------------------------------------------
(***************************************************************************)
(* What each writer does to the ledger and to the fields of the wallet.    *)
(***************************************************************************)
RowFor(type, amount, d) ==
    \E row \in LedgerRow :
        /\ ledger' = Append(ledger, row)
        /\ row.type = type
        /\ row.amount = amount
        /\ row.day = d

(* Posting appends one row and moves nothing but the balance.              *)
LEMMA PostEffect ==
    ASSUME NEW type \in RowTypes, NEW amount \in Int, NEW d \in Nat, NEW w \in Wallet,
           Post(type, amount, d, w)
    PROVE  /\ RowFor(type, amount, d)
           /\ wallet'.lifetime = w.lifetime
           /\ wallet'.pending = w.pending
           /\ wallet'.lastClaim = w.lastClaim
           /\ wallet'.claimedTotal = w.claimedTotal
           /\ wallet'.resetMonth = w.resetMonth
  <1> DEFINE row == [type |-> type, amount |-> amount, after |-> w.balance + amount, day |-> d]
  <1>1. w.balance + amount \in Int
    BY DEF Wallet
  <1>2. row \in LedgerRow
    BY <1>1 DEF LedgerRow
  <1>3. ledger' = Append(ledger, row) /\ wallet' = [w EXCEPT !.balance = w.balance + amount]
    BY DEF Post
  <1>4. RowFor(type, amount, d)
    BY <1>2, <1>3 DEF RowFor
  <1>5. QED
    BY <1>3, <1>4 DEF Wallet

(* A charge that takes n whole credits.                                    *)
ChargeOf(r, n) ==
    /\ Charged(r)
    /\ wallet'.pending = (request[r].pending + request[r].cost) - n * Unit
    /\ wallet'.pending < Unit
    /\ \/ n = 0 /\ UNCHANGED ledger
       \/ RowFor("ai_usage", -n, day)

(* A charge moves the pending fraction, and posts the whole credits.       *)
LEMMA ChargeEffect ==
    ASSUME TypeOK, NEW r \in Requests, WriteCharge(r)
    PROVE  /\ UNCHANGED <<opening, wallet.lifetime, wallet.lastClaim, wallet.claimedTotal,
                          wallet.resetMonth>>
           /\ \/ /\ UNCHANGED <<ledger, charged, lateCharges, wallet.pending>>
                 /\ staleRequests' = staleRequests \ {r}
              \/ \E n \in Nat : ChargeOf(r, n)
           /\ request' = [request EXCEPT ![r] = IdleRequest] \/ request' = [request EXCEPT ![r].pc = "unpaid"]
  <1> DEFINE parts == request[r].pending + request[r].cost
             credits == Whole(parts)
             w == [wallet EXCEPT !.pending = parts - credits * Unit,
                                 !.monthlyUsed = wallet.monthlyUsed + credits]
  <1>1. parts \in Nat
    BY DEF TypeOK, RequestState
  <1>2. /\ credits \in Nat /\ parts - credits * Unit \in Nat /\ parts - credits * Unit < Unit
        /\ request' = [request EXCEPT ![r] = IdleRequest] \/ request' = [request EXCEPT ![r].pc = "unpaid"]
    BY <1>1, WholeBounds DEF WriteCharge, Charged
  <1>3. wallet \in Wallet /\ day \in Nat /\ opening' = opening
    BY DEF TypeOK, WriteCharge
  <1>4. CASE wallet' = [wallet EXCEPT !.pending = parts] /\ UNCHANGED ledger /\ credits = 0
             /\ Charged(r)
    <2>1. /\ wallet'.pending = parts
          /\ UNCHANGED <<wallet.lifetime, wallet.lastClaim, wallet.claimedTotal, wallet.resetMonth>>
      BY <1>3, <1>4 DEF Wallet
    <2>2. parts = parts - 0 * Unit
      BY <1>1, UnitAssumption
    <2>3. ChargeOf(r, 0)
      <3> HIDE DEF credits
      <3>1. wallet'.pending = (request[r].pending + request[r].cost) - 0 * Unit
        BY <2>1, <2>2, Zenon
      <3>2. wallet'.pending < Unit
        BY <1>2, <1>4, <2>1, <2>2, Zenon
      <3>3. QED
        BY <1>4, <3>1, <3>2 DEF ChargeOf
    <2> HIDE DEF credits, parts
    <2>4. QED
      BY <1>2, <1>3, <2>1, <2>3
  <1>5. CASE Post("ai_usage", -credits, day, w) /\ Charged(r)
    <2>1. /\ w \in Wallet /\ w.lifetime = wallet.lifetime /\ w.lastClaim = wallet.lastClaim
          /\ w.claimedTotal = wallet.claimedTotal /\ w.resetMonth = wallet.resetMonth
          /\ w.pending = parts - credits * Unit
      <3>1. wallet.monthlyUsed + credits \in Nat
        BY <1>2, <1>3 DEF Wallet
      <3>2. ASSUME NEW n \in Nat, NEW m \in Nat
            PROVE  LET x == [wallet EXCEPT !.pending = n, !.monthlyUsed = m]
                   IN  /\ x \in Wallet /\ x.lifetime = wallet.lifetime /\ x.lastClaim = wallet.lastClaim
                       /\ x.claimedTotal = wallet.claimedTotal /\ x.resetMonth = wallet.resetMonth
                       /\ x.pending = n
        BY <1>3 DEF Wallet
      <3>3. QED
        BY <1>2, <3>1, <3>2
    <2>2. "ai_usage" \in RowTypes /\ -credits \in Int
      BY <1>2 DEF RowTypes
    <2> HIDE DEF w, credits, parts
    <2>3. /\ RowFor("ai_usage", -credits, day)
          /\ wallet'.pending = parts - credits * Unit
          /\ UNCHANGED <<wallet.lifetime, wallet.lastClaim, wallet.claimedTotal, wallet.resetMonth>>
      BY <1>3, <1>5, <2>1, <2>2, PostEffect
    <2>4. ChargeOf(r, credits)
      BY <1>2, <1>5, <2>3, Zenon DEF ChargeOf, parts
    <2>5. QED
      BY <1>2, <1>3, <2>3, <2>4
  <1>6. CASE UNCHANGED <<wallet, ledger, charged, lateCharges>> /\ staleRequests' = staleRequests \ {r}
    BY <1>2, <1>3, <1>6
  <1>7. QED
    BY <1>4, <1>5, <1>6 DEF WriteCharge

(* A one-off debit, credit or refund: only some credits are earned.        *)
OneOff ==
    \/ \E amount \in Amounts : DeductCredits(amount)
    \/ \E amount \in Amounts, type \in CreditTypes : AddCredits(amount, type)
    \/ \E i \in 0..Len(ledger) : AdminRefund(i)

(* One-off credits and debits leave the claims and the accumulator.        *)
LEMMA OneOffEffect ==
    ASSUME TypeOK, OneOff
    PROVE  /\ UNCHANGED <<opening, charged, request, claim, day, wallet.pending, wallet.lastClaim,
                          wallet.claimedTotal, wallet.resetMonth>>
           /\ \E type \in CreditTypes \cup {"usage"}, amount \in Int :
                /\ RowFor(type, amount, day)
                /\ wallet'.lifetime = wallet.lifetime + (IF type \in Earning THEN amount ELSE 0)
  <1> DEFINE Same(w) == /\ w \in Wallet /\ w.pending = wallet.pending /\ w.lastClaim = wallet.lastClaim
                        /\ w.claimedTotal = wallet.claimedTotal /\ w.resetMonth = wallet.resetMonth
  <1>1. wallet \in Wallet /\ day \in Nat
    BY DEF TypeOK
  <1>2. ASSUME NEW type \in CreditTypes \cup {"usage"}, NEW amount \in Int, NEW w, Same(w),
               Post(type, amount, day, w),
               w.lifetime = wallet.lifetime + (IF type \in Earning THEN amount ELSE 0),
               UNCHANGED <<opening, charged, request, claim, day>>
        PROVE  /\ UNCHANGED <<opening, charged, request, claim, day, wallet.pending, wallet.lastClaim,
                              wallet.claimedTotal, wallet.resetMonth>>
               /\ RowFor(type, amount, day)
               /\ wallet'.lifetime = wallet.lifetime + (IF type \in Earning THEN amount ELSE 0)
    <2>1. type \in RowTypes
      BY DEF RowTypes
    <2>2. QED
      BY <1>1, <1>2, <2>1, PostEffect
  <1>3. ASSUME NEW amount \in Amounts, DeductCredits(amount)
        PROVE  \E w : /\ Same(w) /\ Post("usage", -amount, day, w) /\ -amount \in Int
                      /\ w.lifetime = wallet.lifetime + (IF "usage" \in Earning THEN -amount ELSE 0)
    <2> DEFINE w == [wallet EXCEPT !.monthlyUsed = wallet.monthlyUsed + amount]
    <2>1. amount \in Nat /\ wallet.monthlyUsed \in Nat
      BY <1>1, AmountsAssumption DEF Wallet
    <2>2. ASSUME NEW n \in Nat
          PROVE  Same([wallet EXCEPT !.monthlyUsed = n])
                 /\ [wallet EXCEPT !.monthlyUsed = n].lifetime = wallet.lifetime + 0
      BY <1>1 DEF Wallet
    <2>3. Same(w) /\ w.lifetime = wallet.lifetime + 0
      <3>1. wallet.monthlyUsed + amount \in Nat
        BY <2>1
      <3> HIDE DEF Same
      <3>2. QED
        BY <2>2, <3>1
    <2>4. Post("usage", -amount, day, w) /\ "usage" \notin Earning /\ -amount \in Int
      BY <1>3, <2>1 DEF DeductCredits, Earning
    <2> HIDE DEF w, Same
    <2>5. QED
      BY <2>3, <2>4
  <1>4. ASSUME NEW amount \in Amounts, NEW type \in CreditTypes, AddCredits(amount, type)
        PROVE  \E w : /\ Same(w) /\ Post(type, amount, day, w) /\ amount \in Int
                      /\ w.lifetime = wallet.lifetime + (IF type \in Earning THEN amount ELSE 0)
    <2> DEFINE w == IF type \in Earning THEN [wallet EXCEPT !.lifetime = wallet.lifetime + amount] ELSE wallet
    <2>1. amount \in Int /\ wallet.lifetime \in Int
      BY <1>1, AmountsAssumption DEF Wallet
    <2>2. ASSUME NEW n \in Int
          PROVE  Same([wallet EXCEPT !.lifetime = n]) /\ [wallet EXCEPT !.lifetime = n].lifetime = n
      BY <1>1 DEF Wallet
    <2>3. Same(w) /\ w.lifetime = wallet.lifetime + (IF type \in Earning THEN amount ELSE 0)
      <3>1. Same(wallet)
        BY <1>1
      <3>2. wallet.lifetime + amount \in Int /\ wallet.lifetime = wallet.lifetime + 0
        BY <2>1
      <3> HIDE DEF Same
      <3>3. QED
        BY <2>2, <3>1, <3>2
    <2>4. Post(type, amount, day, w)
      BY <1>4 DEF AddCredits
    <2> HIDE DEF w, Same
    <2>5. QED
      BY <2>1, <2>3, <2>4
  <1>5. ASSUME NEW i \in 0..Len(ledger), AdminRefund(i)
        PROVE  \E w : \E amount \in Int :
                   /\ Same(w) /\ Post("refund", amount, day, w)
                   /\ w.lifetime = wallet.lifetime + (IF "refund" \in Earning THEN amount ELSE 0)
    <2>1. -Original(i).amount \in Int
      BY RefundAmount
    <2>2. Post("refund", -Original(i).amount, day, wallet) /\ "refund" \notin Earning
      BY <1>5 DEF AdminRefund, Earning
    <2>3. Same(wallet) /\ wallet.lifetime = wallet.lifetime + 0
      BY <1>1 DEF Wallet
    <2> HIDE DEF Same
    <2>4. QED
      BY <2>1, <2>2, <2>3
  <1>6. UNCHANGED <<opening, charged, request, claim, day>>
    BY DEF OneOff, DeductCredits, AddCredits, AdminRefund
  <1> HIDE DEF Same
  <1>7. ASSUME NEW amount \in Amounts, DeductCredits(amount)
        PROVE  /\ UNCHANGED <<wallet.pending, wallet.lastClaim, wallet.claimedTotal, wallet.resetMonth>>
               /\ \E type \in CreditTypes \cup {"usage"}, n \in Int :
                    /\ RowFor(type, n, day)
                    /\ wallet'.lifetime = wallet.lifetime + (IF type \in Earning THEN n ELSE 0)
    <2>1. PICK w : /\ Same(w) /\ Post("usage", -amount, day, w) /\ -amount \in Int
                   /\ w.lifetime = wallet.lifetime + (IF "usage" \in Earning THEN -amount ELSE 0)
      BY <1>3, <1>7
    <2>2. QED
      BY <1>2, <1>6, <2>1
  <1>8. ASSUME NEW amount \in Amounts, NEW type \in CreditTypes, AddCredits(amount, type)
        PROVE  /\ UNCHANGED <<wallet.pending, wallet.lastClaim, wallet.claimedTotal, wallet.resetMonth>>
               /\ \E t \in CreditTypes \cup {"usage"}, n \in Int :
                    /\ RowFor(t, n, day)
                    /\ wallet'.lifetime = wallet.lifetime + (IF t \in Earning THEN n ELSE 0)
    <2>1. PICK w : /\ Same(w) /\ Post(type, amount, day, w) /\ amount \in Int
                   /\ w.lifetime = wallet.lifetime + (IF type \in Earning THEN amount ELSE 0)
      BY <1>4, <1>8
    <2>2. QED
      BY <1>2, <1>6, <2>1
  <1>9. ASSUME NEW i \in 0..Len(ledger), AdminRefund(i)
        PROVE  /\ UNCHANGED <<wallet.pending, wallet.lastClaim, wallet.claimedTotal, wallet.resetMonth>>
               /\ \E type \in CreditTypes \cup {"usage"}, n \in Int :
                    /\ RowFor(type, n, day)
                    /\ wallet'.lifetime = wallet.lifetime + (IF type \in Earning THEN n ELSE 0)
    <2>1. PICK w : \E amount \in Int :
                   /\ Same(w) /\ Post("refund", amount, day, w)
                   /\ w.lifetime = wallet.lifetime + (IF "refund" \in Earning THEN amount ELSE 0)
      BY <1>5, <1>9
    <2>2. "refund" \in CreditTypes
      BY DEF CreditTypes
    <2>3. QED
      BY <1>2, <1>6, <2>1, <2>2
  <1>10. QED
    BY <1>6, <1>7, <1>8, <1>9 DEF OneOff

(* A claim is dated with the day of its check, and overwrites the total.   *)
LEMMA ClaimEffect ==
    ASSUME TypeOK, NEW c \in Claimers, ClaimGrant(c)
    PROVE  /\ UNCHANGED <<opening, charged, request, wallet.pending, wallet.resetMonth>>
           /\ RowFor("daily_claim", claim[c].grant, claim[c].day)
           /\ wallet'.lifetime = wallet.lifetime + claim[c].grant
           /\ wallet'.lastClaim = claim[c].day
           /\ wallet'.claimedTotal = claim[c].total + claim[c].grant
  <1> DEFINE w == [wallet EXCEPT !.lifetime = wallet.lifetime + claim[c].grant,
                                 !.lastClaim = claim[c].day,
                                 !.claimedTotal = claim[c].total + claim[c].grant]
  <1>1. wallet \in Wallet /\ wallet.lifetime \in Int
    BY DEF TypeOK, Wallet
  <1>2. claim[c].day \in Nat /\ claim[c].grant \in Nat /\ claim[c].total \in Nat
    BY DEF TypeOK, ClaimState
  <1>3. /\ w \in Wallet /\ w.pending = wallet.pending /\ w.resetMonth = wallet.resetMonth
        /\ w.lifetime = wallet.lifetime + claim[c].grant /\ w.lastClaim = claim[c].day
        /\ w.claimedTotal = claim[c].total + claim[c].grant
    <2> DEFINE i == wallet.lifetime + claim[c].grant
               n == claim[c].total + claim[c].grant
               d == claim[c].day
    <2>1. i \in Int /\ n \in Nat /\ d \in Nat
      BY <1>1, <1>2
    <2> HIDE DEF i, n, d
    <2>2. LET x == [wallet EXCEPT !.lifetime = i, !.lastClaim = d, !.claimedTotal = n]
          IN  /\ x \in Wallet /\ x.pending = wallet.pending /\ x.resetMonth = wallet.resetMonth
              /\ x.lifetime = i /\ x.lastClaim = d /\ x.claimedTotal = n
      BY <1>1, <2>1 DEF Wallet
    <2>3. QED
      BY <2>2, Zenon DEF i, n, d
  <1>4. /\ Post("daily_claim", claim[c].grant, claim[c].day, w)
        /\ UNCHANGED <<opening, charged, request>>
    BY DEF ClaimGrant
  <1>5. "daily_claim" \in RowTypes /\ claim[c].grant \in Int
    BY <1>2 DEF RowTypes
  <1> HIDE DEF w
  <1>6. QED
    BY <1>2, <1>3, <1>4, <1>5, PostEffect

(* The cron's grant of a month, and its reset of a daily plan's month.     *)
LEMMA CronGrantEffect ==
    ASSUME TypeOK, NEW k \in Replicas, CronGrant(k)
    PROVE  /\ UNCHANGED <<opening, charged, request, claim, day, wallet.pending, wallet.lastClaim>>
           /\ RowFor("monthly_grant", cron[k].credits, cron[k].day)
           /\ wallet'.lifetime = wallet.lifetime + cron[k].credits
           /\ wallet'.claimedTotal = 0
  <1> DEFINE month == MonthOf(cron[k].day)
             w == [wallet EXCEPT !.lifetime = wallet.lifetime + cron[k].credits, !.monthlyUsed = 0,
                                 !.resetMonth = month, !.claimedTotal = 0]
  <1>1. wallet \in Wallet /\ wallet.lifetime \in Int
    BY DEF TypeOK, Wallet
  <1>2. cron[k].credits \in Int /\ cron[k].day \in Nat /\ month \in Nat
    BY MonthOfType DEF TypeOK, CronState
  <1>3. ASSUME NEW i \in Int, NEW m \in Nat
        PROVE  LET x == [wallet EXCEPT !.lifetime = i, !.monthlyUsed = 0,
                                       !.resetMonth = m, !.claimedTotal = 0]
               IN  /\ x \in Wallet /\ x.pending = wallet.pending /\ x.lastClaim = wallet.lastClaim
                   /\ x.lifetime = i /\ x.claimedTotal = 0
    BY <1>1 DEF Wallet
  <1>4. Post("monthly_grant", cron[k].credits, cron[k].day, w)
        /\ UNCHANGED <<opening, charged, request, claim, day>>
    BY DEF CronGrant
  <1>5. "monthly_grant" \in RowTypes /\ wallet.lifetime + cron[k].credits \in Int
    BY <1>1, <1>2 DEF RowTypes
  <1>6. /\ w \in Wallet /\ w.pending = wallet.pending /\ w.lastClaim = wallet.lastClaim
        /\ w.lifetime = wallet.lifetime + cron[k].credits /\ w.claimedTotal = 0
    <2> HIDE DEF month
    <2>1. QED
      BY <1>2, <1>3, <1>5
  <1> HIDE DEF w, month
  <1>7. QED
    BY <1>2, <1>4, <1>5, <1>6, PostEffect

(* The reset of the month writes no row.                                   *)
LEMMA CronResetEffect ==
    ASSUME TypeOK, NEW k \in Replicas, CronReset(k)
    PROVE  /\ UNCHANGED <<opening, ledger, charged, request, claim, day, wallet.lifetime,
                          wallet.pending, wallet.lastClaim>>
           /\ wallet'.claimedTotal = 0
           /\ wallet'.resetMonth = ThisMonth
  BY DEF CronReset, TypeOK, Wallet

(* Every other step of the system leaves the wallet and its ledger alone,  *)
(* but for the creation of the row.                                        *)
LEMMA WriterOrReader ==
    ASSUME Next
    PROVE  \/ OneOff
           \/ \E r \in Requests : WriteCharge(r) \/ CreateRow(r)
           \/ \E c \in Claimers : ClaimGrant(c)
           \/ \E k \in Replicas : CronGrant(k) \/ CronReset(k)
           \/ UNCHANGED <<opening, wallet, ledger, charged>>
  BY DEF Next, OneOff, RequestStep, CreateStart, CreateRaceLost, WriteOpeningRow, EnsureCredits,
     CallProvider, PrecheckCharge, ReadPending, LeaveRequest, ClaimStep, ClaimCheck, ClaimDies,
     CronStep, CronStart, CronGrantCheck, CronResetCheck, CronRelease, CronDies, CronMoves,
     AdminOpen, LockExpires, ChangePlan, NextDay, dbVars

(* Creation writes the balance and the lifetime, and no row.               *)
LEMMA CreateRowEffect ==
    ASSUME TypeOK, NEW r \in Requests, CreateRow(r)
    PROVE  /\ ~ created
           /\ UNCHANGED <<ledger, charged, claim, day, wallet.pending, wallet.lastClaim,
                          wallet.claimedTotal, wallet.resetMonth>>
           /\ wallet'.lifetime = opening'
  BY DEF CreateRow, TypeOK, Wallet

-------------------------------------------------------------------------------
(* Lifetime: every writer that earns credits adds them to the lifetime in  *)
(* the statement that posts the row.                                       *)
Earned == Earning \cup {"daily_claim", "monthly_grant"}
LifetimeInv == wallet.lifetime = opening + SumRows(ledger, RowsIn(ledger, Earned))

(* A row and a change of the lifetime that agree.                          *)
LEMMA EarnsRow ==
    ASSUME TypeOK, LifetimeInv, UNCHANGED opening,
           NEW type \in RowTypes, NEW amount \in Int, NEW d, RowFor(type, amount, d),
           wallet'.lifetime = wallet.lifetime + (IF type \in Earned THEN amount ELSE 0)
    PROVE  LifetimeInv'
  <1>1. PICK row \in LedgerRow : ledger' = Append(ledger, row) /\ row.type = type /\ row.amount = amount
    BY DEF RowFor
  <1>2. ledger \in Seq(LedgerRow) /\ opening \in Int
    BY DEF TypeOK
  <1>3. /\ SumRows(ledger, RowsIn(ledger, Earned)) \in Int
        /\ SumRows(ledger', RowsIn(ledger', Earned)) =
             SumRows(ledger, RowsIn(ledger, Earned)) + (IF type \in Earned THEN amount ELSE 0)
    BY <1>1, <1>2, SumTypesAppend
  <1>4. QED
    BY <1>2, <1>3 DEF LifetimeInv

(* Every step keeps the lifetime and the ledger together.                  *)
LEMMA LifetimeStep ==
    ASSUME IInv, LifetimeInv, [Next]_vars
    PROVE  LifetimeInv'
  <1>1. TypeOK /\ BeforeCreation
    BY DEF IInv, Frame
  <1>2. wallet.lifetime \in Int
    BY <1>1 DEF TypeOK, Wallet
  <1>3. CASE UNCHANGED <<opening, wallet, ledger, charged>>
    BY <1>3 DEF LifetimeInv
  <1>4. CASE OneOff
    <2>1. PICK type \in CreditTypes \cup {"usage"}, amount \in Int :
              /\ RowFor(type, amount, day)
              /\ wallet'.lifetime = wallet.lifetime + (IF type \in Earning THEN amount ELSE 0)
      BY <1>1, <1>4, OneOffEffect
    <2>2. UNCHANGED opening
      BY <1>1, <1>4, OneOffEffect
    <2>3. type \in RowTypes /\ (type \in Earned <=> type \in Earning)
      BY DEF RowTypes, Earned, Earning, CreditTypes
    <2>4. QED
      BY <1>1, <2>1, <2>2, <2>3, EarnsRow
  <1>5. ASSUME NEW r \in Requests, WriteCharge(r) PROVE LifetimeInv'
    <2>1. /\ UNCHANGED <<opening, wallet.lifetime>>
          /\ \/ UNCHANGED ledger
             \/ \E n \in Nat : RowFor("ai_usage", -n, day)
      BY <1>1, <1>5, ChargeEffect DEF ChargeOf
    <2>2. CASE UNCHANGED ledger
      BY <2>1, <2>2 DEF LifetimeInv
    <2>3. ASSUME NEW n \in Nat, RowFor("ai_usage", -n, day) PROVE LifetimeInv'
      <3>1. "ai_usage" \in RowTypes /\ "ai_usage" \notin Earned /\ -n \in Int
        BY DEF RowTypes, Earned, Earning
      <3>2. wallet'.lifetime = wallet.lifetime + 0
        BY <1>2, <2>1
      <3>3. QED
        BY <1>1, <2>1, <2>3, <3>1, <3>2, EarnsRow
    <2>4. QED
      BY <2>1, <2>2, <2>3
  <1>6. ASSUME NEW r \in Requests, CreateRow(r) PROVE LifetimeInv'
    <2>1. ledger' = << >> /\ wallet'.lifetime = opening' /\ opening' \in Int
      BY <1>1, <1>6, CreateRowEffect DEF BeforeCreation, CreateRow, TypeOK, RequestState
    <2>2. QED
      BY <2>1, SumOfNoRows DEF LifetimeInv
  <1>7. ASSUME NEW c \in Claimers, ClaimGrant(c) PROVE LifetimeInv'
    <2>1. claim[c].grant \in Int
      BY <1>1 DEF TypeOK, ClaimState
    <2>2. "daily_claim" \in RowTypes /\ "daily_claim" \in Earned
      BY DEF RowTypes, Earned
    <2>3. QED
      BY <1>1, <1>7, <2>1, <2>2, ClaimEffect, EarnsRow
  <1>8. ASSUME NEW k \in Replicas, CronGrant(k) PROVE LifetimeInv'
    <2>1. cron[k].credits \in Int
      BY <1>1 DEF TypeOK, CronState
    <2>2. "monthly_grant" \in RowTypes /\ "monthly_grant" \in Earned
      BY DEF RowTypes, Earned
    <2>3. QED
      BY <1>1, <1>8, <2>1, <2>2, CronGrantEffect, EarnsRow
  <1>9. ASSUME NEW k \in Replicas, CronReset(k) PROVE LifetimeInv'
    BY <1>1, <1>9, CronResetEffect DEF LifetimeInv
  <1>10. CASE UNCHANGED vars
    BY <1>10 DEF vars, dbVars, LifetimeInv
  <1>11. QED
    BY <1>3, <1>4, <1>5, <1>6, <1>7, <1>8, <1>9, <1>10, WriterOrReader

(* The model's total of the rows of some types.                            *)
LEMMA EarnedTotal ==
    ASSUME NEW types
    PROVE  Total(RowsOf(types)) = SumRows(ledger, RowsIn(ledger, types))
  <1>1. RowsOf(types) = RowsIn(ledger, types) /\ RowsOf(types) \in SUBSET DOMAIN ledger
    BY DEF RowsOf, RowsIn
  <1>2. QED
    BY <1>1, TotalIsSum

(* Lifetime is what the wallet was opened with and what it earned since,   *)
(* whoever writes the wallet at the same time (addCredits,                 *)
(* claimDailyCredits, grantMonthlyCredits).                                *)
THEOREM LifetimeIsEarnedHolds == Spec => []LifetimeIsEarned
  <1>1. Init => LifetimeInv
    BY SumOfNoRows DEF Init, LifetimeInv
  <1>2. IInv /\ LifetimeInv /\ [Next]_vars => LifetimeInv'
    BY LifetimeStep
  <1>3. LifetimeInv => LifetimeIsEarned
    BY EarnedTotal DEF LifetimeInv, LifetimeIsEarned, Earned
  <1>4. IInv /\ [Next]_vars => IInv'
    BY IInvStep
  <1>5. QED
    BY <1>1, <1>2, <1>3, <1>4, InitIInv, PTL DEF Spec

-------------------------------------------------------------------------------
(***************************************************************************)
(* Charges that overlap. accumulateAndDeductCredits overwrites the         *)
(* accumulator with what an earlier read makes of it. What a charge has    *)
(* read is still there when it writes, unless another has written since;   *)
(* if one has, both values are fractions of one credit, so the account is  *)
(* off by less than a credit for each such write.                          *)
(***************************************************************************)
Taken == SumRows(ledger, RowsIn(ledger, {"ai_usage"}))
Off == charged - (wallet.pending - Unit * Taken)
Within(n) == Off <= (Unit - 1) * n /\ -Off <= (Unit - 1) * n

FractionInv ==
    /\ Within(lateCharges)
    /\ wallet.pending < Unit
    /\ \A r \in Requests : request[r].pc = "writing" =>
         /\ request[r].pending < Unit
         /\ r \notin staleRequests => request[r].pending = wallet.pending

(* The sum of what the charges took is an integer.                         *)
LEMMA TakenType == ASSUME TypeOK PROVE Taken \in Int
  <1>1. RowsIn(ledger, {"ai_usage"}) \in SUBSET DOMAIN ledger /\ ledger \in Seq(LedgerRow)
    BY DEF RowsIn, TypeOK
  <1>2. QED
    BY <1>1, RowsFinite DEF Taken

(* A step that charges nothing.                                            *)
LEMMA NoCharge ==
    ASSUME TypeOK, FractionInv, UNCHANGED <<charged, lateCharges, wallet.pending>>,
           \/ UNCHANGED ledger
           \/ \E type \in RowTypes \ {"ai_usage"} : \E amount, d : RowFor(type, amount, d)
    PROVE  Within(lateCharges)' /\ wallet'.pending < Unit
  <1>1. Taken' = Taken
    <2>1. CASE UNCHANGED ledger
      BY <2>1 DEF Taken
    <2>2. ASSUME NEW row \in LedgerRow, ledger' = Append(ledger, row), row.type # "ai_usage"
          PROVE  Taken' = Taken
      <3>1. Taken \in Int /\ Taken' = Taken + 0
        BY <2>2, SumTypesAppend DEF TypeOK, Taken
      <3>2. QED
        BY <3>1
    <2>3. QED
      BY <2>1, <2>2 DEF RowFor
  <1>2. Off' = Off
    BY <1>1 DEF Off
  <1>3. QED
    BY <1>2 DEF FractionInv, Within

(* A request moves nobody but itself.                                      *)
LEMMA RequestMoves ==
    ASSUME TypeOK, NEW r \in Requests, RequestStep(r)
    PROVE  \A s \in Requests \ {r} : request'[s] = request[s]
  <1>1. request \in [Requests -> RequestState]
    BY DEF TypeOK
  <1>2. \E x : request' = [request EXCEPT ![r] = x]
    BY DEF RequestStep, CreateStart, CreateRow, CreateRaceLost, WriteOpeningRow, EnsureCredits,
       CallProvider, PrecheckCharge, ReadPending, WriteCharge, Charged, LeaveRequest, AdmitOrRefuse
  <1>3. QED
    BY <1>1, <1>2

(* What a charge of n credits does to the account: it is off by what the   *)
(* accumulator has moved since the charge read it, and by no more.         *)
LEMMA ChargeShifts ==
    ASSUME TypeOK, NEW r \in Requests, request[r].pc = "writing", NEW n \in Nat, ChargeOf(r, n)
    PROVE  Off \in Int /\ Off' = Off + (wallet.pending - request[r].pending)
  <1> DEFINE cost == request[r].cost
             read == request[r].pending
  <1>1. /\ cost \in Nat /\ read \in Nat /\ wallet.pending \in Nat /\ charged \in Nat
        /\ Taken \in Int
    BY TakenType DEF TypeOK, RequestState, Wallet
  <1>2. Taken' = Taken - n
    <2>1. CASE n = 0 /\ UNCHANGED ledger
      <3>1. Taken' = Taken
        BY <2>1 DEF Taken
      <3>2. QED
        BY <1>1, <2>1, <3>1
    <2>2. CASE RowFor("ai_usage", -n, day)
      <3>1. PICK row \in LedgerRow : /\ ledger' = Append(ledger, row)
                                     /\ row.type = "ai_usage" /\ row.amount = -n
        BY <2>2 DEF RowFor
      <3>2. Taken' = Taken + (-n)
        BY <3>1, SumTypesAppend DEF TypeOK, Taken
      <3>3. QED
        BY <1>1, <3>2
    <2>3. QED
      BY <2>1, <2>2 DEF ChargeOf
  <1>3. Unit * Taken' = Unit * Taken - n * Unit /\ Unit * Taken \in Int /\ n * Unit \in Int
    <2>1. ASSUME NEW t \in Int, NEW u \in Int, NEW m \in Int
          PROVE  /\ u * (t - m) = u * t - m * u /\ u * t \in Int /\ m * u \in Int
      OBVIOUS
    <2>2. Unit \in Int /\ n \in Int
      BY UnitAssumption
    <2>3. QED
      BY <1>1, <1>2, <2>1, <2>2
  <1>4. charged' = charged + cost /\ wallet'.pending = (read + cost) - n * Unit
    BY DEF ChargeOf, Charged
  <1>5. QED
    <2> DEFINE a == Unit * Taken
               b == n * Unit
    <2>1. a \in Int /\ b \in Int /\ Unit * Taken' = a - b /\ wallet'.pending = (read + cost) - b
      BY <1>3, <1>4
    <2>2. Off = charged - (wallet.pending - a) /\ Off' = charged' - (wallet'.pending - Unit * Taken')
      BY DEF Off
    <2> HIDE DEF a, b, cost, read
    <2>3. Off \in Int /\ Off' = Off + (wallet.pending - read)
      BY <1>1, <1>4, <2>1, <2>2
    <2>4. QED
      BY <2>3 DEF read

(* A charge, late or not, keeps the account within its bound.              *)
LEMMA ChargeWithin ==
    ASSUME TypeOK, FractionInv, NEW r \in Requests, request[r].pc = "writing",
           NEW n \in Nat, ChargeOf(r, n)
    PROVE  Within(lateCharges)'
  <1> DEFINE shift == wallet.pending - request[r].pending
             a == (Unit - 1) * lateCharges
             b == (Unit - 1) * lateCharges'
  <1>1. /\ wallet.pending \in Nat /\ request[r].pending \in Nat /\ lateCharges \in Nat
        /\ wallet.pending < Unit /\ request[r].pending < Unit /\ Unit \in Nat \ {0}
    BY UnitAssumption DEF TypeOK, RequestState, Wallet, FractionInv
  <1>2. Off \in Int /\ Off' = Off + shift
    BY ChargeShifts
  <1>3. a \in Int /\ Off <= a /\ -Off <= a
    <2>1. ASSUME NEW u \in Int, NEW m \in Int PROVE u * m \in Int
      OBVIOUS
    <2>2. Unit - 1 \in Int /\ lateCharges \in Int
      BY <1>1
    <2>3. QED
      BY <2>1, <2>2 DEF FractionInv, Within
  <1>4. CASE r \in staleRequests
    <2>1. lateCharges' = lateCharges + 1
      BY <1>4 DEF ChargeOf, Charged
    <2>2. b = a + (Unit - 1)
      <3>1. ASSUME NEW u \in Int, NEW m \in Int PROVE u * (m + 1) = u * m + u
        OBVIOUS
      <3>2. Unit - 1 \in Int /\ lateCharges \in Int
        BY <1>1
      <3>3. QED
        BY <2>1, <3>1, <3>2
    <2>3. shift \in Int /\ shift <= Unit - 1 /\ -shift <= Unit - 1
      BY <1>1
    <2> HIDE DEF a, b, shift
    <2>4. Off' <= b /\ -Off' <= b
      BY <1>1, <1>2, <1>3, <2>2, <2>3
    <2>5. QED
      BY <2>4 DEF Within, b
  <1>5. CASE r \notin staleRequests
    <2>1. lateCharges' = lateCharges
      BY <1>1, <1>5 DEF ChargeOf, Charged
    <2>2. shift = 0
      BY <1>1, <1>5 DEF FractionInv
    <2> HIDE DEF a, b, shift
    <2>3. Off' = Off /\ b = a
      BY <1>2, <2>1, <2>2 DEF a, b
    <2>4. QED
      BY <1>3, <2>3 DEF Within, b
  <1>6. QED
    BY <1>4, <1>5

(* Every step keeps the accumulator and the ledger together.               *)
LEMMA FractionStep ==
    ASSUME TypeOK, FractionInv, [Next]_vars
    PROVE  FractionInv'
  <1> DEFINE Fresh == \A r \in Requests : request[r].pc = "writing" =>
                        /\ request[r].pending < Unit
                        /\ r \notin staleRequests => request[r].pending = wallet.pending
  <1>1. CASE UNCHANGED <<request, charged, lateCharges, staleRequests, wallet.pending>>
             /\ (\/ UNCHANGED ledger
                 \/ \E type \in RowTypes \ {"ai_usage"} : \E amount, d : RowFor(type, amount, d))
    <2>1. Fresh'
      BY <1>1 DEF FractionInv
    <2>2. QED
      BY <1>1, <2>1, NoCharge DEF FractionInv
  <1>2. CASE OneOff
    <2>1. CreditTypes \cup {"usage"} \subseteq RowTypes \ {"ai_usage"}
      BY DEF RowTypes, CreditTypes, Earning
    <2>2. UNCHANGED chargeHistory
      BY <1>2 DEF OneOff, DeductCredits, AddCredits, AdminRefund
    <2>3. QED
      BY <1>1, <1>2, <2>1, <2>2, OneOffEffect
  <1>3. ASSUME NEW c \in Claimers, ClaimGrant(c) PROVE FractionInv'
    <2>1. "daily_claim" \in RowTypes \ {"ai_usage"}
      BY DEF RowTypes
    <2>2. UNCHANGED chargeHistory
      BY <1>3 DEF ClaimGrant
    <2>3. QED
      BY <1>1, <1>3, <2>1, <2>2, ClaimEffect
  <1>4. ASSUME NEW k \in Replicas, CronGrant(k) PROVE FractionInv'
    <2>1. "monthly_grant" \in RowTypes \ {"ai_usage"}
      BY DEF RowTypes
    <2>2. UNCHANGED chargeHistory
      BY <1>4 DEF CronGrant
    <2>3. QED
      BY <1>1, <1>4, <2>1, <2>2, CronGrantEffect
  <1>5. ASSUME NEW k \in Replicas, CronReset(k) PROVE FractionInv'
    <2>1. UNCHANGED chargeHistory
      BY <1>5 DEF CronReset
    <2>2. QED
      BY <1>1, <1>5, <2>1, CronResetEffect
  <1>6. ASSUME NEW r \in Requests, RequestStep(r) PROVE FractionInv'
    <2>1. \A s \in Requests \ {r} : request'[s] = request[s]
      BY <1>6, RequestMoves
    <2>2. request \in [Requests -> RequestState] /\ request[r] \in RequestState /\ wallet.pending \in Nat
      BY DEF TypeOK, Wallet
    <2>3. ASSUME UNCHANGED wallet.pending, staleRequests' \in {staleRequests, staleRequests \ {r}},
                 request'[r].pc = "writing" => request'[r].pending = wallet.pending
          PROVE  Fresh'
      <3> SUFFICES ASSUME NEW s \in Requests, request'[s].pc = "writing"
                   PROVE  /\ request'[s].pending < Unit
                          /\ s \notin staleRequests' => request'[s].pending = wallet'.pending
        OBVIOUS
      <3>1. CASE s = r
        BY <2>3, <3>1 DEF FractionInv
      <3>2. CASE s # r
        <4>1. request'[s] = request[s] /\ (s \in staleRequests' <=> s \in staleRequests)
          BY <2>1, <2>3, <3>2
        <4>2. QED
          BY <2>3, <4>1 DEF FractionInv
      <3>3. QED
        BY <3>1, <3>2
    <2>4. CASE WriteCharge(r)
      <3>1. request'[r].pc # "writing" /\ request[r].pc = "writing"
        <4>1. request[r].pc = "writing"
          BY <2>4 DEF WriteCharge
        <4>2. request'[r].pc # "writing"
          BY <2>2, <2>4, ChargeEffect DEF IdleRequest, RequestState
        <4>3. QED
          BY <4>1, <4>2
      <3>2. CASE UNCHANGED <<ledger, charged, lateCharges, wallet.pending>>
                 /\ staleRequests' = staleRequests \ {r}
        BY <2>3, <3>1, <3>2, NoCharge DEF FractionInv
      <3>3. ASSUME NEW n \in Nat, ChargeOf(r, n) PROVE FractionInv'
        <4>1. Within(lateCharges)' /\ wallet'.pending < Unit
          BY <3>1, <3>3, ChargeWithin DEF ChargeOf
        <4>2. Fresh'
          <5> SUFFICES ASSUME NEW s \in Requests, request'[s].pc = "writing"
                       PROVE  request'[s].pending < Unit /\ s \in staleRequests'
            OBVIOUS
          <5>1. s # r /\ request'[s] = request[s]
            BY <2>1, <3>1
          <5>2. QED
            BY <3>3, <5>1 DEF FractionInv, ChargeOf, Charged
        <4>3. QED
          BY <4>1, <4>2 DEF FractionInv
      <3>4. QED
        BY <2>4, <3>2, <3>3, ChargeEffect
    <2>5. CASE CreateRow(r)
      <3>1. /\ request'[r].pc # "writing"
            /\ UNCHANGED <<charged, lateCharges, staleRequests, wallet.pending, ledger>>
        <4>1. request'[r].pc # "writing"
          BY <2>2, <2>5 DEF CreateRow, RequestState
        <4>2. UNCHANGED chargeHistory
          BY <2>5 DEF CreateRow
        <4>3. QED
          BY <2>5, <4>1, <4>2, CreateRowEffect
      <3>2. QED
        BY <2>3, <3>1, NoCharge DEF FractionInv
    <2>6. CASE ReadPending(r)
      <3>1. /\ request'[r].pending = wallet.pending
            /\ UNCHANGED <<charged, lateCharges, staleRequests, wallet, ledger>>
        BY <2>2, <2>6 DEF ReadPending, RequestState, dbVars
      <3>2. QED
        BY <2>3, <3>1, NoCharge DEF FractionInv
    <2>7. CASE /\ UNCHANGED <<charged, lateCharges, wallet, ledger>>
               /\ staleRequests' \in {staleRequests, staleRequests \ {r}}
               /\ request'[r].pc # "writing"
      BY <2>3, <2>7, NoCharge DEF FractionInv
    <2>8. CASE CreateStart(r) \/ CreateRaceLost(r) \/ LeaveRequest(r) \/ CallProvider(r) \/ PrecheckCharge(r)
      <3>1. /\ UNCHANGED <<charged, lateCharges, wallet, ledger>>
            /\ staleRequests' \in {staleRequests, staleRequests \ {r}}
        BY <2>8 DEF CreateStart, CreateRaceLost, LeaveRequest, CallProvider, PrecheckCharge, dbVars
      <3>2. CASE CreateStart(r) \/ CreateRaceLost(r) \/ LeaveRequest(r)
        <4> DEFINE start == [IdleRequest EXCEPT !.pc = "creating", !.credits = PlanCredits[plan]]
        <4>1. start.pc = "creating" /\ IdleRequest.pc = "idle"
          BY DEF IdleRequest
        <4>2. \/ request' = [request EXCEPT ![r] = start]
              \/ request' = [request EXCEPT ![r] = IdleRequest]
          BY <3>2 DEF CreateStart, CreateRaceLost, LeaveRequest
        <4> HIDE DEF start
        <4>3. request'[r].pc # "writing"
          BY <2>2, <4>1, <4>2
        <4>4. QED
          BY <2>7, <3>1, <4>3
      <3>3. CASE CallProvider(r)
        <4>1. request'[r].pc # "writing"
          BY <2>2, <3>3 DEF CallProvider, RequestState
        <4>2. QED
          BY <2>7, <3>1, <4>1
      <3>4. CASE PrecheckCharge(r)
        <4>1. \E pc \in {"unpaid", "charging"} : request' = [request EXCEPT ![r].pc = pc]
          BY <3>4 DEF PrecheckCharge
        <4>2. request'[r].pc # "writing"
          BY <2>2, <4>1 DEF RequestState
        <4>3. QED
          BY <2>7, <3>1, <4>2
      <3>5. QED
        BY <2>8, <3>2, <3>3, <3>4
    <2>9. CASE WriteOpeningRow(r) \/ EnsureCredits(r)
      <3>1. UNCHANGED <<charged, lateCharges, staleRequests, wallet, ledger>>
        BY <2>9 DEF WriteOpeningRow, EnsureCredits, dbVars
      <3>2. PICK balance, estimate : AdmitOrRefuse(r, balance, estimate)
        BY <2>9 DEF WriteOpeningRow, EnsureCredits
      <3>3. request'[r].pc # "writing"
        BY <2>2, <3>2 DEF AdmitOrRefuse, IdleRequest
      <3>4. QED
        BY <2>7, <3>1, <3>3
    <2>10. QED
      BY <1>6, <2>4, <2>5, <2>6, <2>8, <2>9 DEF RequestStep
  <1>7. CASE UNCHANGED <<request, chargeHistory, wallet, ledger>>
    BY <1>1, <1>7
  <1>8. QED
    BY <1>2, <1>3, <1>4, <1>5, <1>6, <1>7 DEF Next, OneOff, ClaimStep, ClaimCheck, ClaimDies, CronStep,
       CronStart, CronGrantCheck, CronResetCheck, CronRelease, CronDies, AdminOpen, LockExpires,
       ChangePlan, NextDay, vars, dbVars

(* However charges overlap, the account of fractions is off by less than a *)
(* credit for each charge that wrote over a read that was no longer true,  *)
(* and by nothing if there was none (accumulateAndDeductCredits).          *)
THEOREM NoFractionLostButToOverlapHolds == Spec => []NoFractionLostButToOverlap
  <1>1. Init => FractionInv
    <2> SUFFICES ASSUME Init PROVE FractionInv
      OBVIOUS
    <2>1. /\ charged = 0 /\ wallet.pending = 0 /\ ledger = << >> /\ lateCharges = 0
          /\ \A r \in Requests : request[r].pc = "idle"
      BY DEF Init, IdleRequest
    <2>2. Unit * 0 = 0 /\ (Unit - 1) * 0 = 0 /\ 0 < Unit
      BY UnitAssumption
    <2>3. Taken = 0
      BY <2>1, SumOfNoRows DEF Taken
    <2>4. Off = 0
      BY <2>1, <2>2, <2>3 DEF Off
    <2>5. Within(lateCharges)
      BY <2>1, <2>2, <2>4 DEF Within
    <2>6. QED
      BY <2>1, <2>2, <2>5 DEF FractionInv
  <1>2. TypeOK /\ FractionInv /\ [Next]_vars => FractionInv'
    BY FractionStep
  <1>3. FractionInv => NoFractionLostButToOverlap
    <2>1. Drift = Off
      BY EarnedTotal DEF Drift, Off, Taken
    <2>2. QED
      BY <2>1 DEF FractionInv, Within, NoFractionLostButToOverlap
  <1>4. QED
    BY <1>1, <1>2, <1>3, TypeCorrect, PTL DEF Spec

-------------------------------------------------------------------------------
(***************************************************************************)
(* Claims that overlap. The check and the grant of claimDailyCredits are   *)
(* not one transaction: the last claim that a check has seen is still the  *)
(* last when the grant comes, unless another was granted since. If one     *)
(* was, the grant may be a second one of its day, and it overwrites the    *)
(* claimed total with what an old one makes of it: that is worth one claim *)
(* more of the day, and one cap more of the month, and no more than that.  *)
(***************************************************************************)
Claims == RowsIn(ledger, {"daily_claim"})
Dated(l, d) == {i \in RowsIn(l, {"daily_claim"}) : l[i].day = d}
Past(d) == IF d <= wallet.lastClaim THEN 1 ELSE 0
Granting(c) == claim[c].pc = "granting"

ClaimInv ==
    /\ wallet.lastClaim <= day
    /\ \A i \in Claims : ledger[i].day <= day
    /\ \A c \in Claimers : Granting(c) =>
         /\ 1 <= claim[c].day /\ claim[c].day <= day
         /\ c \notin staleClaims => /\ wallet.lastClaim < claim[c].day
                                    /\ \A i \in Claims : ledger[i].day <= claim[c].day

DaysInv == \A d \in Nat : Cardinality(Dated(ledger, d)) <= lateClaims + Past(d)

(* What the claimed total stands for while the cron has not touched it: no *)
(* more than a cap is missing in it for each grant that came late.         *)
Capped(n) == \E p \in DailyPlans : n <= ClaimCap[p]
ClaimsIn(l, month) == {i \in RowsIn(l, {"daily_claim"}) : MonthOf(l[i].day) = month}
ClaimedThisMonth == SumRows(ledger, ClaimsIn(ledger, ThisMonth))
WithoutCron == wallet.resetMonth # ThisMonth /\ RowsIn(ledger, {"monthly_grant"}) = {}

(* s claimed, with t of it in the claimed total and k grants late.         *)
Explained(s, k, t) ==
    \/ s = 0
    \/ \E p \in DailyPlans : \E n \in Nat :
         n <= ClaimCap[p] /\ n <= t /\ s <= k * ClaimCap[p] + n

CapInv ==
    /\ wallet.lastClaim = Never => wallet.claimedTotal = 0
    /\ \A c \in Claimers : Granting(c) => Capped(claim[c].total + claim[c].grant)
    /\ WithoutCron =>
         /\ \A c \in Claimers :
              (Granting(c) /\ c \notin staleClaims /\ MonthOf(claim[c].day) = ThisMonth) =>
                claim[c].total = CurrentMonthlyTotal
         /\ Explained(ClaimedThisMonth, lateClaims, CurrentMonthlyTotal)

(* What claims and their months see of a step that is not about them.      *)
NoClaim ==
    /\ UNCHANGED <<day, claim, claimHistory, wallet.lastClaim, wallet.claimedTotal, wallet.resetMonth>>
    /\ \/ UNCHANGED ledger
       \/ \E type \in RowTypes \ {"daily_claim", "monthly_grant"} : \E amount, d : RowFor(type, amount, d)

(* The steps that are about claims are the claim's own, the cron's two     *)
(* updates of the wallet, and the next day.                                *)
LEMMA ClaimShape ==
    ASSUME TypeOK, [Next]_vars
    PROVE  \/ NoClaim
           \/ \E c \in Claimers : ClaimStep(c)
           \/ \E k \in Replicas : CronGrant(k) \/ CronReset(k)
           \/ NextDay
  <1>1. CASE UNCHANGED <<day, claim, claimHistory, wallet, ledger>>
    BY <1>1 DEF NoClaim
  <1>2. CASE OneOff
    <2>1. CreditTypes \cup {"usage"} \subseteq RowTypes \ {"daily_claim", "monthly_grant"}
      BY DEF RowTypes, CreditTypes, Earning
    <2>2. UNCHANGED claimHistory
      BY <1>2 DEF OneOff, DeductCredits, AddCredits, AdminRefund
    <2>3. QED
      BY <1>2, <2>1, <2>2, OneOffEffect DEF NoClaim
  <1>3. ASSUME NEW r \in Requests, WriteCharge(r) PROVE NoClaim
    <2>1. "ai_usage" \in RowTypes \ {"daily_claim", "monthly_grant"}
      BY DEF RowTypes
    <2>2. UNCHANGED <<day, claim, claimHistory>>
      BY <1>3 DEF WriteCharge
    <2>3. UNCHANGED <<wallet.lastClaim, wallet.claimedTotal, wallet.resetMonth>>
      BY <1>3, ChargeEffect
    <2>4. UNCHANGED ledger \/ \E n \in Nat : RowFor("ai_usage", -n, day)
      BY <1>3, ChargeEffect DEF ChargeOf
    <2>5. QED
      BY <2>1, <2>2, <2>3, <2>4 DEF NoClaim
  <1>4. ASSUME NEW r \in Requests, CreateRow(r) PROVE NoClaim
    <2>1. UNCHANGED claimHistory
      BY <1>4 DEF CreateRow
    <2>2. QED
      BY <1>4, <2>1, CreateRowEffect DEF NoClaim
  <1>5. CASE UNCHANGED vars
    BY <1>1, <1>5 DEF vars, dbVars
  <1>6. ASSUME NEW r \in Requests, RequestStep(r), ~ WriteCharge(r), ~ CreateRow(r)
        PROVE  UNCHANGED <<day, claim, claimHistory, wallet, ledger>>
    BY <1>6 DEF RequestStep, CreateStart, CreateRaceLost, WriteOpeningRow, EnsureCredits,
       CallProvider, PrecheckCharge, ReadPending, LeaveRequest, dbVars
  <1>7. ASSUME NEW k \in Replicas, CronStep(k), ~ CronGrant(k), ~ CronReset(k)
        PROVE  UNCHANGED <<day, claim, claimHistory, wallet, ledger>>
    BY <1>7 DEF CronStep, CronStart, CronGrantCheck, CronResetCheck, CronRelease, CronDies, dbVars
  <1>8. CASE AdminOpen \/ LockExpires \/ ChangePlan
    BY <1>1, <1>8 DEF AdminOpen, LockExpires, ChangePlan, dbVars
  <1>9. QED
    BY <1>1, <1>2, <1>3, <1>4, <1>5, <1>6, <1>7, <1>8 DEF Next, OneOff

(* The types of what the argument compares.                                *)
LEMMA ClaimTypes ==
    ASSUME TypeOK
    PROVE  /\ ledger \in Seq(LedgerRow)
           /\ wallet.lastClaim \in Nat /\ wallet.claimedTotal \in Nat /\ wallet.resetMonth \in Nat
           /\ day \in Nat /\ ThisMonth \in Nat /\ lateClaims \in Nat /\ CurrentMonthlyTotal \in Nat
           /\ \A c \in Claimers : /\ claim[c].day \in Nat /\ claim[c].total \in Nat
                                  /\ claim[c].grant \in Nat
           /\ \A i \in DOMAIN ledger : ledger[i].day \in Nat /\ ledger[i].amount \in Int
           /\ Claims \in SUBSET DOMAIN ledger
           /\ \A m : ClaimsIn(ledger, m) \in SUBSET DOMAIN ledger
  <1>1. \A i \in DOMAIN ledger : ledger[i].day \in Nat /\ ledger[i].amount \in Int
    <2>1. \A i \in DOMAIN ledger : ledger[i] \in LedgerRow
      BY DEF TypeOK
    <2>2. QED
      BY <2>1 DEF LedgerRow
  <1>2. \A c \in Claimers : claim[c].day \in Nat /\ claim[c].total \in Nat /\ claim[c].grant \in Nat
    BY DEF TypeOK, ClaimState
  <1>3. day \in Nat /\ ThisMonth \in Nat
    BY MonthOfType DEF TypeOK, ThisMonth
  <1>4. QED
    BY <1>1, <1>2, <1>3 DEF TypeOK, Wallet, Claims, ClaimsIn, RowsIn, CurrentMonthlyTotal

(* What a row that is no claim leaves as it was.                           *)
LEMMA OtherRow ==
    ASSUME TypeOK, NEW row \in LedgerRow, ledger' = Append(ledger, row), row.type # "daily_claim"
    PROVE  /\ Claims' = Claims
           /\ \A i \in Claims : ledger'[i] = ledger[i]
           /\ \A m \in Nat : /\ ClaimsIn(ledger', m) = ClaimsIn(ledger, m)
                             /\ SumRows(ledger', ClaimsIn(ledger', m)) = SumRows(ledger, ClaimsIn(ledger, m))
           /\ \A d \in Nat : Dated(ledger', d) = Dated(ledger, d)
  <1>1. /\ Claims' = Claims
        /\ \A i \in Claims : ledger'[i] = ledger[i]
    BY RowsInAppend, ClaimTypes DEF Claims
  <1>2. ASSUME NEW m \in Nat
        PROVE  /\ ClaimsIn(ledger', m) = ClaimsIn(ledger, m)
               /\ SumRows(ledger', ClaimsIn(ledger', m)) = SumRows(ledger, ClaimsIn(ledger, m))
    <2>1. ClaimsIn(ledger', m) = ClaimsIn(ledger, m)
      BY <1>1 DEF ClaimsIn, Claims
    <2>2. SumRows(ledger', ClaimsIn(ledger, m)) = SumRows(ledger, ClaimsIn(ledger, m))
      BY SumRowsAppend, ClaimTypes
    <2>3. QED
      BY <2>1, <2>2
  <1>3. \A d \in Nat : Dated(ledger', d) = Dated(ledger, d)
    BY <1>1 DEF Dated, Claims
  <1>4. QED
    BY <1>1, <1>2, <1>3

(* What one more claim adds.                                               *)
LEMMA ClaimRow ==
    ASSUME TypeOK, NEW row \in LedgerRow, ledger' = Append(ledger, row), row.type = "daily_claim"
    PROVE  /\ Claims' = Claims \cup {Len(ledger) + 1}
           /\ \A i \in Claims : ledger'[i] = ledger[i]
           /\ ledger'[Len(ledger) + 1] = row
           /\ RowsIn(ledger', {"monthly_grant"}) = RowsIn(ledger, {"monthly_grant"})
           /\ \A m \in Nat : SumRows(ledger', ClaimsIn(ledger', m)) =
                SumRows(ledger, ClaimsIn(ledger, m)) + (IF MonthOf(row.day) = m THEN row.amount ELSE 0)
           /\ \A d \in Nat : Cardinality(Dated(ledger', d)) =
                Cardinality(Dated(ledger, d)) + (IF row.day = d THEN 1 ELSE 0)
  <1>1. /\ Claims' = Claims \cup {Len(ledger) + 1}
        /\ \A i \in DOMAIN ledger : ledger'[i] = ledger[i]
        /\ ledger'[Len(ledger) + 1] = row
        /\ RowsIn(ledger', {"monthly_grant"}) = RowsIn(ledger, {"monthly_grant"})
        /\ Len(ledger) + 1 \notin DOMAIN ledger
    <2>1. ledger \in Seq(LedgerRow) /\ row.type \in {"daily_claim"} /\ row.type \notin {"monthly_grant"}
      BY ClaimTypes
    <2>2. /\ Claims' = Claims \cup {Len(ledger) + 1}
          /\ \A i \in DOMAIN ledger : ledger'[i] = ledger[i]
          /\ ledger'[Len(ledger) + 1] = row
          /\ Len(ledger) + 1 \notin DOMAIN ledger
      BY <2>1, RowsInAppend DEF Claims
    <2>3. RowsIn(ledger', {"monthly_grant"}) = RowsIn(ledger, {"monthly_grant"})
      BY <2>1, RowsInAppend
    <2>4. QED
      BY <2>2, <2>3
  <1>2. ASSUME NEW m \in Nat
        PROVE  SumRows(ledger', ClaimsIn(ledger', m)) =
                 SumRows(ledger, ClaimsIn(ledger, m)) + (IF MonthOf(row.day) = m THEN row.amount ELSE 0)
    <2> DEFINE old == ClaimsIn(ledger, m)
    <2>1. old \in SUBSET DOMAIN ledger /\ ledger \in Seq(LedgerRow)
      BY ClaimTypes
    <2>2. ClaimsIn(ledger', m) = IF MonthOf(row.day) = m THEN old \cup {Len(ledger) + 1} ELSE old
      <3>1. /\ ClaimsIn(ledger', m) = {i \in Claims' : MonthOf(ledger'[i].day) = m}
            /\ old = {i \in Claims : MonthOf(ledger[i].day) = m}
        BY DEF ClaimsIn, Claims
      <3>2. \A i \in Claims : ledger'[i] = ledger[i]
        BY <1>1, ClaimTypes
      <3>3. \A i \in Claims' : i \in Claims \/ i = Len(ledger) + 1
        BY <1>1
      <3> HIDE DEF old
      <3>4. QED
        BY <1>1, <3>1, <3>2, <3>3
    <2> HIDE DEF old
    <2>3. /\ SumRows(ledger', old) = SumRows(ledger, old)
          /\ SumRows(ledger', old \cup {Len(ledger) + 1}) = SumRows(ledger, old) + row.amount
          /\ SumRows(ledger, old) \in Int
      BY <2>1, SumRowsAppend, RowsFinite
    <2>4. CASE MonthOf(row.day) = m
      BY <2>2, <2>3, <2>4 DEF old
    <2>5. CASE MonthOf(row.day) # m
      BY <2>2, <2>3, <2>5 DEF old
    <2>6. QED
      BY <2>4, <2>5
  <1>3. ASSUME NEW d \in Nat
        PROVE  Cardinality(Dated(ledger', d)) = Cardinality(Dated(ledger, d)) + (IF row.day = d THEN 1 ELSE 0)
    <2> DEFINE old == Dated(ledger, d)
    <2>1. old \in SUBSET DOMAIN ledger /\ ledger \in Seq(LedgerRow)
      BY ClaimTypes DEF Dated, Claims
    <2>2. IsFiniteSet(old) /\ Cardinality(old) \in Nat /\ Len(ledger) + 1 \notin old
      BY <1>1, <2>1, RowsFinite, FS_CardinalityType
    <2>3. Cardinality(old \cup {Len(ledger) + 1}) = Cardinality(old) + 1
      BY <2>2, FS_AddElement
    <2>4. Dated(ledger', d) = IF row.day = d THEN old \cup {Len(ledger) + 1} ELSE old
      <3>1. /\ Dated(ledger', d) = {i \in Claims' : ledger'[i].day = d}
            /\ old = {i \in Claims : ledger[i].day = d}
        BY DEF Dated, Claims
      <3>2. \A i \in Claims : ledger'[i] = ledger[i]
        BY <1>1, ClaimTypes
      <3>3. \A i \in Claims' : i \in Claims \/ i = Len(ledger) + 1
        BY <1>1
      <3>4. ASSUME NEW i PROVE i \in Dated(ledger', d) <=> i \in old \/ (i = Len(ledger) + 1 /\ row.day = d)
        <4> HIDE DEF old
        <4>1. CASE i \in Claims
          <5>1. ledger'[i] = ledger[i] /\ i \in Claims' /\ i # Len(ledger) + 1
            BY <1>1, <3>2, <4>1, ClaimTypes
          <5>2. QED
            BY <3>1, <4>1, <5>1, Zenon
        <4>2. CASE i = Len(ledger) + 1
          <5>1. i \in Claims' /\ ledger'[i] = row /\ i \notin old
            BY <1>1, <2>2, <4>2, Zenon
          <5>2. QED
            BY <3>1, <4>2, <5>1, Zenon
        <4>3. CASE i \notin Claims /\ i # Len(ledger) + 1
          BY <3>1, <3>3, <4>3
        <4>4. QED
          BY <4>1, <4>2, <4>3
      <3> HIDE DEF old
      <3>5. CASE row.day = d
        BY <3>4, <3>5
      <3>6. CASE row.day # d
        BY <3>4, <3>6
      <3>7. QED
        BY <3>5, <3>6
    <2> HIDE DEF old
    <2>5. QED
      BY <2>2, <2>3, <2>4 DEF old
  <1>4. QED
    BY <1>1, <1>2, <1>3, ClaimTypes

(* No claims of a month that no claim reaches.                             *)
LEMMA NoLaterClaims ==
    ASSUME TypeOK, NEW d \in Nat, \A i \in Claims : ledger[i].day <= d,
           NEW m \in Nat, MonthOf(d) < m
    PROVE  SumRows(ledger, ClaimsIn(ledger, m)) = 0
  <1>1. ASSUME NEW i \in ClaimsIn(ledger, m) PROVE FALSE
    <2>1. i \in Claims /\ MonthOf(ledger[i].day) = m
      BY <1>1 DEF ClaimsIn, Claims
    <2>2. ledger[i].day \in Nat /\ ledger[i].day <= d
      BY <2>1, ClaimTypes
    <2>3. MonthOf(ledger[i].day) <= MonthOf(d) /\ MonthOf(d) \in Int
      BY <2>2, MonthOfGrows
    <2>4. QED
      BY <2>1, <2>3
  <1>2. ClaimsIn(ledger, m) = {}
    BY <1>1
  <1>3. QED
    BY <1>2, SumEmpty DEF SumRows

(* A claim moves nobody but itself.                                        *)
LEMMA ClaimMoves ==
    ASSUME TypeOK, NEW c \in Claimers, ClaimStep(c)
    PROVE  \A d \in Claimers \ {c} : claim'[d] = claim[d]
  BY DEF TypeOK, ClaimStep, ClaimCheck, ClaimGrant, Claimed, ClaimDies


(* What a grant of a claim does, to the ledger, the row and the calls.     *)
LEMMA GrantFacts ==
    ASSUME TypeOK, NEW c \in Claimers, ClaimGrant(c)
    PROVE  /\ Granting(c) /\ ~ Granting(c)' /\ UNCHANGED day
           /\ \A d \in Claimers : Granting(d)' => /\ d # c /\ claim'[d] = claim[d] /\ Granting(d)
                                                  /\ d \in staleClaims'
           /\ lateClaims' = lateClaims + (IF c \in staleClaims THEN 1 ELSE 0)
  <1>1. claim \in [Claimers -> ClaimState]
    BY DEF TypeOK
  <1>2. Granting(c) /\ UNCHANGED day /\ Claimed(c)
    BY DEF ClaimGrant, Granting
  <1>3. ~ Granting(c)'
    BY <1>1, <1>2 DEF Claimed, IdleClaim, Granting
  <1>4. ASSUME NEW d \in Claimers, Granting(d)'
        PROVE  d # c /\ claim'[d] = claim[d] /\ Granting(d) /\ d \in staleClaims'
    <2>1. d # c
      BY <1>3, <1>4
    <2>2. claim'[d] = claim[d]
      BY <1>1, <1>2, <2>1 DEF Claimed
    <2>3. Granting(d)
      BY <1>4, <2>2 DEF Granting
    <2>4. QED
      BY <1>2, <2>1, <2>2, <2>3 DEF Claimed, Granting
  <1>5. QED
    BY <1>2, <1>3, <1>4 DEF Claimed

(* No claim in the ledger is of a day to come, and a claim that nothing    *)
(* has overtaken is of a later day than the last, and than none.           *)
LEMMA ClaimInvStep ==
    ASSUME TypeOK, ClaimInv, [Next]_vars
    PROVE  ClaimInv'
  <1>1. /\ wallet.lastClaim \in Nat /\ day \in Nat /\ day >= 1
        /\ \A c \in Claimers : claim[c].day \in Nat
        /\ \A i \in Claims : ledger[i].day \in Nat
        /\ claim \in [Claimers -> ClaimState]
    BY ClaimTypes DEF TypeOK
  <1>2. CASE UNCHANGED <<day, claim, claimHistory, wallet.lastClaim>> /\ Claims' = Claims
             /\ \A i \in Claims : ledger'[i] = ledger[i]
    <2>1. \A i \in Claims' : i \in Claims /\ ledger'[i].day = ledger[i].day
      BY <1>2, Zenon
    <2>2. \A c \in Claimers : claim'[c] = claim[c] /\ (Granting(c)' <=> Granting(c))
      BY <1>2 DEF Granting
    <2>3. QED
      BY <1>2, <2>1, <2>2 DEF ClaimInv
  <1>3. ASSUME UNCHANGED ledger
        PROVE  Claims' = Claims /\ \A i \in Claims : ledger'[i] = ledger[i]
    BY <1>3 DEF Claims
  <1>4. ASSUME NEW type, type # "daily_claim", NEW amount, NEW d, RowFor(type, amount, d)
        PROVE  Claims' = Claims /\ \A i \in Claims : ledger'[i] = ledger[i]
    BY <1>4, OtherRow DEF RowFor
  <1>5. CASE NoClaim
    BY <1>2, <1>3, <1>4, <1>5 DEF NoClaim
  <1>6. ASSUME NEW k \in Replicas, CronGrant(k) \/ CronReset(k) PROVE ClaimInv'
    <2>1. UNCHANGED claimHistory
      BY <1>6 DEF CronGrant, CronReset
    <2>2. QED
      BY <1>2, <1>3, <1>4, <1>6, <2>1, CronGrantEffect, CronResetEffect
  <1>7. CASE NextDay
    <2>1. day' = day + 1 /\ UNCHANGED <<claim, claimHistory, wallet, ledger>>
      BY <1>7 DEF NextDay, dbVars
    <2>2. \A n \in Nat : n <= day => n <= day'
      BY <1>1, <2>1
    <2>3. \A c \in Claimers : claim'[c] = claim[c] /\ (Granting(c)' <=> Granting(c))
      BY <2>1 DEF Granting
    <2>4. QED
      BY <1>1, <1>3, <2>1, <2>2, <2>3 DEF ClaimInv
  <1>8. ASSUME NEW c \in Claimers, ClaimStep(c) PROVE ClaimInv'
    <2>1. \A d \in Claimers \ {c} : claim'[d] = claim[d] /\ (Granting(d)' <=> Granting(d))
      BY <1>8, ClaimMoves DEF Granting
    <2>2. CASE ClaimCheck(c)
      <3>1. claim'[c].day = day /\ UNCHANGED <<day, claimHistory, wallet, ledger>>
        BY <1>1, <2>2 DEF ClaimCheck, dbVars
      <3>2. wallet.lastClaim < day
        BY <1>1, <2>2 DEF ClaimCheck, ClaimInv
      <3>3. Claims' = Claims /\ \A i \in Claims : ledger'[i] = ledger[i]
        BY <1>3, <3>1
      <3>4. ASSUME NEW d \in Claimers, Granting(d)'
            PROVE  /\ 1 <= claim'[d].day /\ claim'[d].day <= day'
                   /\ d \notin staleClaims' => /\ wallet'.lastClaim < claim'[d].day
                                               /\ \A i \in Claims' : ledger'[i].day <= claim'[d].day
        <4>1. CASE d = c
          BY <1>1, <3>1, <3>2, <3>3, <4>1 DEF ClaimInv
        <4>2. CASE d # c
          BY <2>1, <3>1, <3>3, <3>4, <4>2 DEF ClaimInv
        <4>3. QED
          BY <4>1, <4>2
      <3>5. QED
        BY <3>1, <3>3, <3>4 DEF ClaimInv
    <2>3. CASE ClaimDies(c)
      <3>1. /\ ~ Granting(c)' /\ UNCHANGED <<day, wallet, ledger>>
            /\ staleClaims' = staleClaims \ {c}
        BY <1>1, <2>3 DEF ClaimDies, IdleClaim, dbVars, Granting
      <3>2. Claims' = Claims /\ \A i \in Claims : ledger'[i] = ledger[i]
        BY <1>3, <3>1
      <3>3. \A d \in Claimers : Granting(d)' => /\ claim'[d] = claim[d] /\ Granting(d)
                                                /\ (d \in staleClaims' <=> d \in staleClaims)
        BY <2>1, <3>1
      <3>4. QED
        BY <3>1, <3>2, <3>3 DEF ClaimInv
    <2>4. CASE ClaimGrant(c)
      <3>1. wallet'.lastClaim = claim[c].day
        BY <2>4, ClaimEffect
      <3>2. PICK row \in LedgerRow : /\ ledger' = Append(ledger, row)
                                     /\ row.type = "daily_claim"
                                     /\ row.day = claim[c].day
        BY <2>4, ClaimEffect DEF RowFor
      <3>3. /\ Claims' = Claims \cup {Len(ledger) + 1}
            /\ \A i \in Claims : ledger'[i] = ledger[i]
            /\ ledger'[Len(ledger) + 1] = row
        BY <3>2, ClaimRow
      <3>4. Granting(c) /\ day' = day /\ claim[c].day <= day
        BY <2>4, GrantFacts DEF ClaimInv
      <3>5. \A i \in Claims' : ledger'[i].day <= day'
        <4> SUFFICES ASSUME NEW i \in Claims' PROVE ledger'[i].day <= day'
          OBVIOUS
        <4>1. CASE i \in Claims
          <5>1. ledger'[i] = ledger[i] /\ ledger[i].day <= day
            BY <3>3, <4>1 DEF ClaimInv
          <5>2. QED
            BY <3>4, <5>1
        <4>2. CASE i = Len(ledger) + 1
          <5>1. ledger'[i].day = claim[c].day
            BY <3>2, <3>3, <4>2, Zenon
          <5>2. QED
            BY <3>4, <5>1
        <4>3. QED
          BY <3>3, <4>1, <4>2, Zenon
      <3>6. \A d \in Claimers : Granting(d)' => /\ claim'[d] = claim[d] /\ Granting(d)
                                                /\ d \in staleClaims'
        BY <2>4, GrantFacts
      <3>7. QED
        BY <3>1, <3>4, <3>5, <3>6 DEF ClaimInv
    <2>5. QED
      BY <1>8, <2>2, <2>3, <2>4 DEF ClaimStep
  <1>9. QED
    BY <1>5, <1>6, <1>7, <1>8, ClaimShape

(* A day has one claim more only by a claim of a day that had none to come *)
(* or by a late one.                                                       *)
LEMMA DaysStep ==
    ASSUME TypeOK, ClaimInv, DaysInv, [Next]_vars
    PROVE  DaysInv'
  <1>1. /\ wallet.lastClaim \in Nat /\ lateClaims \in Nat
        /\ \A c \in Claimers : claim[c].day \in Nat
        /\ \A d \in Nat : Cardinality(Dated(ledger, d)) \in Nat
    <2>1. ASSUME NEW d \in Nat PROVE Cardinality(Dated(ledger, d)) \in Nat
      <3>1. Dated(ledger, d) \in SUBSET DOMAIN ledger /\ ledger \in Seq(LedgerRow)
        BY ClaimTypes DEF Dated, RowsIn
      <3>2. QED
        BY <3>1, RowsFinite, FS_CardinalityType
    <2>2. QED
      BY <2>1, ClaimTypes
  <1>2. CASE UNCHANGED <<lateClaims, wallet.lastClaim>> /\ \A d \in Nat : Dated(ledger', d) = Dated(ledger, d)
    BY <1>2 DEF DaysInv, Past
  <1>3. ASSUME UNCHANGED ledger PROVE \A d \in Nat : Dated(ledger', d) = Dated(ledger, d)
    BY <1>3
  <1>4. ASSUME NEW type, type # "daily_claim", NEW amount, NEW e, RowFor(type, amount, e)
        PROVE  \A d \in Nat : Dated(ledger', d) = Dated(ledger, d)
    BY <1>4, OtherRow DEF RowFor
  <1>5. CASE NoClaim
    BY <1>2, <1>3, <1>4, <1>5 DEF NoClaim
  <1>6. ASSUME NEW k \in Replicas, CronGrant(k) \/ CronReset(k) PROVE DaysInv'
    <2>1. UNCHANGED claimHistory
      BY <1>6 DEF CronGrant, CronReset
    <2>2. QED
      BY <1>2, <1>3, <1>4, <1>6, <2>1, CronGrantEffect, CronResetEffect
  <1>7. CASE NextDay
    BY <1>2, <1>3, <1>7 DEF NextDay, dbVars
  <1>8. ASSUME NEW c \in Claimers, ClaimStep(c) PROVE DaysInv'
    <2>1. CASE ClaimCheck(c) \/ ClaimDies(c)
      BY <1>2, <1>3, <2>1 DEF ClaimCheck, ClaimDies, dbVars
    <2>2. CASE ClaimGrant(c)
      <3> DEFINE e == claim[c].day
                 n(d) == Cardinality(Dated(ledger, d))
      <3>1. wallet'.lastClaim = e /\ e \in Nat
        BY <1>1, <2>2, ClaimEffect
      <3>2. PICK row \in LedgerRow : /\ ledger' = Append(ledger, row)
                                     /\ row.type = "daily_claim" /\ row.day = e
        BY <2>2, ClaimEffect DEF RowFor
      <3>3. \A d \in Nat : Cardinality(Dated(ledger', d)) = n(d) + (IF e = d THEN 1 ELSE 0)
        BY <3>2, ClaimRow
      <3>4. lateClaims' = lateClaims + (IF c \in staleClaims THEN 1 ELSE 0)
        BY <2>2, GrantFacts
      <3>5. c \notin staleClaims => wallet.lastClaim < e
        BY <2>2, GrantFacts DEF ClaimInv
      <3>6. \A d \in Nat : n(d) \in Nat /\ n(d) <= lateClaims + Past(d)
        BY <1>1 DEF DaysInv
      <3> HIDE DEF e, n
      <3>7. ASSUME NEW d \in Nat
            PROVE  n(d) + (IF e = d THEN 1 ELSE 0) <= lateClaims' + (IF d <= e THEN 1 ELSE 0)
        <4>1. n(d) \in Nat /\ n(d) <= lateClaims + (IF d <= wallet.lastClaim THEN 1 ELSE 0)
          BY <3>6 DEF Past
        <4>2. CASE c \in staleClaims
          BY <1>1, <3>1, <3>4, <4>1, <4>2
        <4>3. CASE c \notin staleClaims
          BY <1>1, <3>1, <3>4, <3>5, <4>1, <4>3
        <4>4. QED
          BY <4>2, <4>3
      <3>8. QED
        BY <3>1, <3>3, <3>7 DEF DaysInv, Past
    <2>3. QED
      BY <1>8, <2>1, <2>2 DEF ClaimStep
  <1>9. QED
    BY <1>5, <1>6, <1>7, <1>8, ClaimShape

(* However claims overlap, a day is claimed once and no more often than    *)
(* once more for each grant that came after another's since its check      *)
(* (claimDailyCredits, "Can only claim once per calendar day").            *)
THEOREM ClaimOncePerDayButForOverlapHolds == Spec => []ClaimOncePerDayButForOverlap
  <1>1. Init => ClaimInv /\ DaysInv
    <2> SUFFICES ASSUME Init PROVE ClaimInv /\ DaysInv
      OBVIOUS
    <2>1. /\ ledger = << >> /\ wallet.lastClaim = 0 /\ day = 1 /\ lateClaims = 0
          /\ \A c \in Claimers : ~ Granting(c)
      BY DEF Init, Never, IdleClaim, Granting
    <2>2. Claims = {} /\ \A d \in Nat : Dated(ledger, d) = {}
      BY <2>1 DEF Claims, Dated, RowsIn
    <2>3. \A d \in Nat : Cardinality(Dated(ledger, d)) = 0
      BY <2>2, FS_EmptySet
    <2>4. \A d \in Nat : 0 <= 0 + Past(d)
      BY DEF Past
    <2>5. QED
      BY <2>1, <2>2, <2>3, <2>4 DEF ClaimInv, DaysInv
  <1>2. TypeOK /\ ClaimInv /\ DaysInv /\ [Next]_vars => ClaimInv' /\ DaysInv'
    BY ClaimInvStep, DaysStep
  <1>3. TypeOK /\ DaysInv => ClaimOncePerDayButForOverlap
    <2> SUFFICES ASSUME TypeOK, DaysInv, NEW d \in 1..day
                 PROVE  Cardinality(ClaimsOf(d)) <= 1 + lateClaims
      BY DEF ClaimOncePerDayButForOverlap
    <2>1. d \in Nat /\ lateClaims \in Nat /\ ClaimsOf(d) = Dated(ledger, d)
      BY ClaimTypes DEF ClaimsOf, Dated, RowsOf, RowsIn
    <2>2. Dated(ledger, d) \in SUBSET DOMAIN ledger /\ ledger \in Seq(LedgerRow)
      BY ClaimTypes DEF Dated, RowsIn
    <2>3. Cardinality(Dated(ledger, d)) \in Nat
      BY <2>2, RowsFinite, FS_CardinalityType
    <2>4. QED
      BY <2>1, <2>3 DEF DaysInv, Past
  <1>4. QED
    BY <1>1, <1>2, <1>3, TypeCorrect, PTL DEF Spec

(* A factor and its product, and the larger of two factors.                *)
LEMMA CapTimes ==
    ASSUME NEW k \in Nat, NEW a \in Nat, NEW b \in Nat
    PROVE  /\ k * a \in Nat
           /\ (k + 1) * a = k * a + a
           /\ a <= b => k * a <= k * b
  <1>1. (k + 1) * a = k * a + a
    OBVIOUS
  <1>2. k * a \in Nat
    BY Z3
  <1>3. a <= b => k * a <= k * b
    BY Z3
  <1>4. QED
    BY <1>1, <1>2, <1>3

(* A claim that goes by the total as it is adds its grant to both.         *)
LEMMA ExplainedNext ==
    ASSUME NEW s \in Int, NEW k \in Nat, NEW t \in Nat, NEW g \in Nat,
           Explained(s, k, t), Capped(t + g)
    PROVE  Explained(s + g, k, t + g)
  <1>1. PICK q \in DailyPlans : t + g <= ClaimCap[q]
    BY DEF Capped
  <1>2. \A p \in DailyPlans : ClaimCap[p] \in Nat
    BY PlansAssumption
  <1>3. CASE s = 0
    <2>1. k * ClaimCap[q] \in Nat
      BY <1>2, CapTimes
    <2>2. g <= ClaimCap[q] /\ g <= t + g /\ s + g <= k * ClaimCap[q] + g
      BY <1>1, <1>2, <1>3, <2>1
    <2>3. QED
      BY <2>2 DEF Explained
  <1>4. ASSUME NEW p \in DailyPlans, NEW n \in Nat,
               n <= ClaimCap[p], n <= t, s <= k * ClaimCap[p] + n
        PROVE  Explained(s + g, k, t + g)
    <2>1. PICK r \in DailyPlans : ClaimCap[p] <= ClaimCap[r] /\ ClaimCap[q] <= ClaimCap[r]
      <3>1. ClaimCap[p] <= ClaimCap[q] \/ ClaimCap[q] <= ClaimCap[p]
        BY <1>2
      <3>2. QED
        BY <1>2, <3>1
    <2>2. k * ClaimCap[p] <= k * ClaimCap[r] /\ k * ClaimCap[p] \in Nat /\ k * ClaimCap[r] \in Nat
      BY <1>2, <2>1, CapTimes
    <2>3. t + g <= ClaimCap[r] /\ s + g <= k * ClaimCap[r] + (t + g)
      BY <1>1, <1>2, <1>4, <2>1, <2>2
    <2>4. t + g \in Nat /\ t + g <= t + g
      OBVIOUS
    <2>5. QED
      BY <2>1, <2>3, <2>4 DEF Explained
  <1>5. QED
    BY <1>3, <1>4 DEF Explained

(* The month's claims are within one cap more than the grants that came    *)
(* late, whatever is forgotten of the claimed total.                       *)
LEMMA ExplainedLate ==
    ASSUME NEW s \in Int, NEW k \in Nat, NEW t \in Nat, Explained(s, k, t)
    PROVE  Explained(s, k + 1, 0)
  <1>1. CASE s = 0
    BY <1>1 DEF Explained
  <1>2. ASSUME NEW p \in DailyPlans, NEW n \in Nat,
               n <= ClaimCap[p], n <= t, s <= k * ClaimCap[p] + n
        PROVE  Explained(s, k + 1, 0)
    <2>1. ClaimCap[p] \in Nat
      BY PlansAssumption
    <2>2. k * ClaimCap[p] \in Nat /\ (k + 1) * ClaimCap[p] = k * ClaimCap[p] + ClaimCap[p]
      BY <2>1, CapTimes
    <2>3. 0 <= ClaimCap[p] /\ s <= (k + 1) * ClaimCap[p] + 0
      BY <1>2, <2>1, <2>2
    <2>4. QED
      BY <2>3 DEF Explained
  <1>3. QED
    BY <1>1, <1>2 DEF Explained

(* More in the total explains no less.                                     *)
LEMMA ExplainedMore ==
    ASSUME NEW s \in Int, NEW k \in Nat, NEW t \in Nat, NEW u \in Nat, t <= u, Explained(s, k, t)
    PROVE  Explained(s, k, u)
  <1>1. \A n \in Nat : n <= t => n <= u
    OBVIOUS
  <1>2. QED
    BY <1>1 DEF Explained

(* What has been claimed this month is a number of credits.                *)
LEMMA ClaimedType == ASSUME TypeOK PROVE ClaimedThisMonth \in Int
  BY ClaimTypes, RowsFinite DEF ClaimedThisMonth

(* A step that only moves what the cap's argument does not look at.        *)
LEMMA CapInvSame ==
    ASSUME CapInv, ThisMonth' = ThisMonth, ClaimedThisMonth' = ClaimedThisMonth,
           RowsIn(ledger', {"monthly_grant"}) = RowsIn(ledger, {"monthly_grant"}),
           UNCHANGED <<claim, claimHistory, wallet.lastClaim, wallet.claimedTotal, wallet.resetMonth>>
    PROVE  CapInv'
  <1>1. WithoutCron' = WithoutCron /\ CurrentMonthlyTotal' = CurrentMonthlyTotal
    BY DEF WithoutCron, CurrentMonthlyTotal
  <1>2. \A c \in Claimers : Granting(c)' = Granting(c)
    BY DEF Granting
  <1>3. QED
    BY <1>1, <1>2 DEF CapInv

(* Every step keeps the claimed total and the ledger together.             *)
LEMMA CapInvStep ==
    ASSUME TypeOK, ClaimInv, CapInv, TypeOK', ClaimInv', [Next]_vars
    PROVE  CapInv'
  <1> DEFINE granted(l) == RowsIn(l, {"monthly_grant"})
  <1>1. ASSUME NEW type \in RowTypes \ {"daily_claim", "monthly_grant"}, NEW amount, NEW d,
               RowFor(type, amount, d), day' = day
        PROVE  ClaimedThisMonth' = ClaimedThisMonth /\ granted(ledger') = granted(ledger)
    <2>1. PICK row \in LedgerRow : ledger' = Append(ledger, row) /\ row.type = type
      BY <1>1 DEF RowFor
    <2>2. granted(ledger') = granted(ledger)
      BY <2>1, RowsInAppend, ClaimTypes
    <2>3. ThisMonth' = ThisMonth
      BY <1>1 DEF ThisMonth
    <2>4. SumRows(ledger', ClaimsIn(ledger', ThisMonth)) = SumRows(ledger, ClaimsIn(ledger, ThisMonth))
      BY <2>1, OtherRow, ClaimTypes
    <2>5. QED
      BY <2>2, <2>3, <2>4 DEF ClaimedThisMonth
  <1>2. ASSUME UNCHANGED ledger, ThisMonth' = ThisMonth
        PROVE  ClaimedThisMonth' = ClaimedThisMonth /\ granted(ledger') = granted(ledger)
    BY <1>2 DEF ClaimedThisMonth
  <1>3. ASSUME day' = day PROVE ThisMonth' = ThisMonth
    BY <1>3 DEF ThisMonth
  <1>4. CASE NoClaim
    BY <1>1, <1>2, <1>3, <1>4, CapInvSame DEF NoClaim
  <1>5. ASSUME NEW k \in Replicas, CronGrant(k) \/ CronReset(k) PROVE CapInv'
    <2>1. wallet'.claimedTotal = 0 /\ UNCHANGED claim
      BY <1>5, CronGrantEffect, CronResetEffect
    <2>2. ~ WithoutCron'
      <3>1. CASE CronGrant(k)
        <4>1. PICK row \in LedgerRow : ledger' = Append(ledger, row) /\ row.type = "monthly_grant"
          BY <3>1, CronGrantEffect DEF RowFor
        <4>2. Len(ledger) + 1 \in granted(ledger')
          BY <4>1, RowsInAppend, ClaimTypes
        <4>3. QED
          BY <4>2 DEF WithoutCron
      <3>2. CASE CronReset(k)
        <4>1. wallet'.resetMonth = ThisMonth /\ ThisMonth' = ThisMonth
          BY <1>3, <3>2, CronResetEffect
        <4>2. QED
          BY <4>1 DEF WithoutCron
      <3>3. QED
        BY <1>5, <3>1, <3>2
    <2>3. \A c \in Claimers : Granting(c)' <=> Granting(c)
      BY <2>1 DEF Granting
    <2>4. QED
      BY <2>1, <2>2, <2>3 DEF CapInv
  <1>6. CASE NextDay
    <2>1. day' = day + 1 /\ UNCHANGED <<claim, claimHistory, wallet, ledger>>
      BY <1>6 DEF NextDay, dbVars
    <2>2. CASE ThisMonth' = ThisMonth
      BY <1>2, <2>1, <2>2, CapInvSame
    <2>3. CASE ThisMonth' # ThisMonth
      <3>1. ThisMonth \in Nat /\ ThisMonth' \in Nat /\ ThisMonth < ThisMonth' /\ day \in Nat
        <4>1. day \in Nat /\ day' \in Nat /\ day <= day'
          BY <2>1, ClaimTypes
        <4>2. MonthOf(day) \in Nat /\ MonthOf(day') \in Nat /\ MonthOf(day) <= MonthOf(day')
          BY <4>1, MonthOfGrows, MonthOfType
        <4>3. ThisMonth = MonthOf(day) /\ ThisMonth' = MonthOf(day')
          BY DEF ThisMonth
        <4>4. QED
          BY <2>3, <4>1, <4>2, <4>3
      <3>2. \A c \in Claimers : Granting(c)' <=> Granting(c)
        BY <2>1 DEF Granting
      <3>3. ASSUME NEW c \in Claimers, Granting(c)'
            PROVE  MonthOf(claim'[c].day) # ThisMonth'
        <4>1. Granting(c) /\ claim[c].day \in Nat /\ day \in Nat /\ claim[c].day <= day
          BY <3>2, <3>3, ClaimTypes DEF ClaimInv
        <4>2. MonthOf(claim[c].day) \in Int /\ MonthOf(claim[c].day) <= ThisMonth
          BY <4>1, MonthOfGrows DEF ThisMonth
        <4>3. QED
          BY <2>1, <3>1, <4>2
      <3>4. ClaimedThisMonth' = 0
        <4>1. MonthOf(day) < ThisMonth' /\ \A i \in Claims : ledger[i].day <= day
          BY <3>1 DEF ThisMonth, ClaimInv
        <4>2. SumRows(ledger, ClaimsIn(ledger, ThisMonth')) = 0
          BY <3>1, <4>1, NoLaterClaims
        <4>3. QED
          BY <2>1, <4>2 DEF ClaimedThisMonth
      <3>5. Explained(ClaimedThisMonth', lateClaims', CurrentMonthlyTotal')
        BY <3>4 DEF Explained
      <3>6. /\ wallet'.lastClaim = Never => wallet'.claimedTotal = 0
            /\ \A c \in Claimers : Granting(c)' => Capped(claim'[c].total + claim'[c].grant)
        BY <2>1, <3>2 DEF CapInv
      <3>7. QED
        BY <3>3, <3>5, <3>6 DEF CapInv
    <2>4. QED
      BY <2>2, <2>3
  <1>7. ASSUME NEW c \in Claimers, ClaimStep(c) PROVE CapInv'
    <2>1. \A d \in Claimers \ {c} : claim'[d] = claim[d] /\ (Granting(d)' <=> Granting(d))
      BY <1>7, ClaimMoves DEF Granting
    <2>2. claim \in [Claimers -> ClaimState]
      BY DEF TypeOK
    <2>3. ASSUME UNCHANGED <<day, wallet, ledger>>
          PROVE  /\ ThisMonth' = ThisMonth /\ ClaimedThisMonth' = ClaimedThisMonth
                 /\ WithoutCron' = WithoutCron /\ CurrentMonthlyTotal' = CurrentMonthlyTotal
      BY <1>2, <1>3, <2>3 DEF WithoutCron, CurrentMonthlyTotal
    <2>4. CASE ClaimCheck(c)
      <3> DEFINE grant == Smaller(DailyClaim[plan], ClaimCap[plan] - CurrentMonthlyTotal)
      <3>1. UNCHANGED <<day, claimHistory, wallet, ledger>>
        BY <2>4 DEF ClaimCheck, dbVars
      <3>2. /\ claim'[c].total = CurrentMonthlyTotal /\ claim'[c].grant = grant
            /\ plan \in DailyPlans
        BY <2>2, <2>4 DEF ClaimCheck
      <3>3. Capped(claim'[c].total + claim'[c].grant)
        <4>1. /\ CurrentMonthlyTotal \in Nat
              /\ DailyClaim[plan] \in Nat /\ ClaimCap[plan] \in Nat
          BY ClaimTypes, PlansAssumption DEF TypeOK
        <4>2. CurrentMonthlyTotal + grant <= ClaimCap[plan]
          BY <4>1 DEF Smaller
        <4> HIDE DEF grant
        <4>3. QED
          BY <3>2, <4>2 DEF Capped
      <3>4. ASSUME NEW d \in Claimers, Granting(d)'
            PROVE  /\ Capped(claim'[d].total + claim'[d].grant)
                   /\ (WithoutCron /\ d \notin staleClaims /\ MonthOf(claim'[d].day) = ThisMonth) =>
                        claim'[d].total = CurrentMonthlyTotal
        <4>1. CASE d = c
          BY <3>2, <3>3, <4>1
        <4>2. CASE d # c
          BY <2>1, <3>4, <4>2 DEF CapInv
        <4>3. QED
          BY <4>1, <4>2
      <3>5. QED
        BY <2>3, <3>1, <3>4 DEF CapInv
    <2>5. CASE ClaimDies(c)
      <3>1. /\ ~ Granting(c)' /\ UNCHANGED <<day, wallet, ledger, lateClaims>>
            /\ staleClaims' = staleClaims \ {c}
        BY <2>2, <2>5 DEF ClaimDies, IdleClaim, dbVars, Granting
      <3>2. \A d \in Claimers : Granting(d)' => /\ claim'[d] = claim[d] /\ Granting(d)
                                                /\ (d \in staleClaims' <=> d \in staleClaims)
        BY <2>1, <3>1
      <3>3. QED
        BY <2>3, <3>1, <3>2 DEF CapInv
    <2>6. CASE ClaimGrant(c)
      <3> DEFINE e == claim[c].day
                 u == claim[c].total
                 g == claim[c].grant
                 s == ClaimedThisMonth
                 t == CurrentMonthlyTotal
      <3>1. Granting(c) /\ day' = day /\ e \in Nat /\ 1 <= e /\ e <= day /\ u \in Nat /\ g \in Nat
        BY <2>6, GrantFacts, ClaimTypes DEF ClaimInv
      <3>2. /\ wallet'.lastClaim = e /\ wallet'.resetMonth = wallet.resetMonth
            /\ wallet'.claimedTotal = u + g
        BY <2>6, ClaimEffect
      <3>3. PICK row \in LedgerRow : /\ ledger' = Append(ledger, row)
                                     /\ row.type = "daily_claim"
                                     /\ row.amount = g
                                     /\ row.day = e
        BY <2>6, ClaimEffect DEF RowFor
      <3>4. /\ granted(ledger') = granted(ledger)
            /\ \A m \in Nat : SumRows(ledger', ClaimsIn(ledger', m)) =
                 SumRows(ledger, ClaimsIn(ledger, m)) + (IF MonthOf(row.day) = m THEN row.amount ELSE 0)
        BY <3>3, ClaimRow
      <3>5. ThisMonth' = ThisMonth /\ WithoutCron' = WithoutCron
        BY <1>3, <3>1, <3>2, <3>4 DEF WithoutCron
      <3>6. s' = s + (IF MonthOf(e) = ThisMonth THEN g ELSE 0)
        <4>1. SumRows(ledger', ClaimsIn(ledger', ThisMonth)) = SumRows(ledger, ClaimsIn(ledger, ThisMonth))
                + (IF MonthOf(row.day) = ThisMonth THEN row.amount ELSE 0)
          BY <3>4, ClaimTypes
        <4>2. QED
          BY <3>3, <3>5, <4>1 DEF ClaimedThisMonth
      <3>7. wallet'.lastClaim # Never
        BY <3>1, <3>2 DEF Never
      <3>8. t' = IF MonthOf(e) = ThisMonth THEN u + g ELSE 0
        BY <3>2, <3>5, <3>7 DEF CurrentMonthlyTotal
      <3>9. /\ Capped(u + g)
            /\ WithoutCron => Explained(s, lateClaims, t)
            /\ (WithoutCron /\ c \notin staleClaims /\ MonthOf(e) = ThisMonth) => u = t
        BY <3>1 DEF CapInv
      <3>10. s \in Int /\ t \in Nat /\ lateClaims \in Nat
             /\ lateClaims' = lateClaims + (IF c \in staleClaims THEN 1 ELSE 0)
        BY <2>6, ClaimedType, ClaimTypes, GrantFacts
      <3>11. (c \notin staleClaims /\ MonthOf(e) # ThisMonth) => s = 0
        <4> SUFFICES ASSUME c \notin staleClaims, MonthOf(e) # ThisMonth PROVE s = 0
          OBVIOUS
        <4>1. \A i \in Claims : ledger[i].day <= e
          BY <3>1 DEF ClaimInv
        <4>2. MonthOf(e) < ThisMonth /\ ThisMonth \in Nat
          <5>1. day \in Nat /\ ThisMonth = MonthOf(day) /\ ThisMonth \in Nat
            BY ClaimTypes DEF ThisMonth
          <5>2. MonthOf(e) \in Int /\ MonthOf(e) <= MonthOf(day)
            BY <3>1, <5>1, MonthOfGrows
          <5>3. QED
            BY <5>1, <5>2
        <4>3. QED
          BY <3>1, <4>1, <4>2, NoLaterClaims DEF ClaimedThisMonth
      <3>12. \A d \in Claimers : Granting(d)' => claim'[d] = claim[d] /\ Granting(d) /\ d \in staleClaims'
        BY <2>6, GrantFacts
      <3> HIDE DEF e, u, g, s, t
      <3>13. WithoutCron => Explained(s', lateClaims', t')
        <4> SUFFICES ASSUME WithoutCron PROVE Explained(s', lateClaims', t')
          OBVIOUS
        <4>1. CASE c \notin staleClaims /\ MonthOf(e) = ThisMonth
          <5>1. u = t /\ s' = s + g /\ t' = t + g /\ lateClaims' = lateClaims
            BY <3>1, <3>6, <3>8, <3>9, <3>10, <4>1
          <5>2. QED
            BY <3>1, <3>9, <3>10, <5>1, ExplainedNext
        <4>2. CASE c \notin staleClaims /\ MonthOf(e) # ThisMonth
          <5>1. s' = 0
            BY <3>6, <3>11, <4>2
          <5>2. QED
            BY <5>1 DEF Explained
        <4>3. CASE c \in staleClaims
          <5>1. Explained(s, lateClaims + 1, 0) /\ lateClaims' = lateClaims + 1 /\ lateClaims + 1 \in Nat
            BY <3>9, <3>10, <4>3, ExplainedLate
          <5>2. CASE MonthOf(e) = ThisMonth
            <6>1. Explained(s, lateClaims + 1, u)
              BY <3>1, <3>10, <5>1, ExplainedMore
            <6>2. Explained(s + g, lateClaims + 1, u + g)
              BY <3>1, <3>9, <3>10, <5>1, <6>1, ExplainedNext
            <6>3. QED
              BY <3>6, <3>8, <5>1, <5>2, <6>2
          <5>3. CASE MonthOf(e) # ThisMonth
            <6>1. s' = s /\ t' = 0
              BY <3>6, <3>8, <3>10, <5>3
            <6>2. QED
              BY <5>1, <6>1
          <5>4. QED
            BY <5>2, <5>3
        <4>4. QED
          BY <4>1, <4>2, <4>3
      <3>14. \A d \in Claimers : Granting(d)' => Capped(claim'[d].total + claim'[d].grant)
        BY <3>12 DEF CapInv
      <3>15. QED
        BY <3>5, <3>7, <3>12, <3>13, <3>14 DEF CapInv, s, t
    <2>7. QED
      BY <1>7, <2>4, <2>5, <2>6 DEF ClaimStep
  <1>8. QED
    BY <1>4, <1>5, <1>6, <1>7, ClaimShape

(* "If monthly cap is reached, no more claims until next month": in a      *)
(* month whose claimed total the cron has not touched, the claims are      *)
(* within one cap and no more than one more for each grant that came late. *)
(* The rollover to a new month, the cut of the last claim, midnight and    *)
(* deaths between check and grant keep to it (claimDailyCredits).          *)
THEOREM ClaimsWithinCapButForOverlapHolds == Spec => []ClaimsWithinCapButForOverlap
  <1>1. Init => ClaimInv /\ CapInv
    <2>1. ASSUME Init PROVE ClaimInv /\ CapInv
      <3>1. /\ ledger = << >> /\ wallet.lastClaim = 0 /\ wallet.claimedTotal = 0 /\ day = 1
            /\ \A c \in Claimers : ~ Granting(c)
        BY <2>1 DEF Init, Never, IdleClaim, Granting
      <3>2. Claims = {} /\ \A m : ClaimsIn(ledger, m) = {}
        BY <3>1 DEF Claims, ClaimsIn, RowsIn
      <3>3. ClaimInv
        BY <3>1, <3>2 DEF ClaimInv
      <3>4. ClaimedThisMonth = 0
        BY <3>2, SumEmpty DEF ClaimedThisMonth, SumRows
      <3>5. CapInv
        BY <3>1, <3>4 DEF CapInv, Explained
      <3>6. QED
        BY <3>3, <3>5
    <2>2. QED
      BY <2>1
  <1>2. TypeOK /\ TypeOK' /\ ClaimInv /\ CapInv /\ [Next]_vars => ClaimInv' /\ CapInv'
    BY ClaimInvStep, CapInvStep
  <1>3. TypeOK /\ CapInv => ClaimsWithinCapButForOverlap
    <2>1. ASSUME TypeOK, CapInv PROVE ClaimsWithinCapButForOverlap
      <3>1. ClaimsIn(ledger, ThisMonth) \in SUBSET DOMAIN ledger
        BY <2>1, ClaimTypes
      <3>2. Total(ClaimsIn(ledger, ThisMonth)) = ClaimedThisMonth
        BY <3>1, TotalIsSum DEF ClaimedThisMonth
      <3>3. ClaimedIn(ThisMonth) = ClaimedThisMonth
        BY <3>2 DEF ClaimedIn, ClaimsIn, RowsIn, RowsOf
      <3>4. WithoutCron => WithinCaps(ThisMonth, 1 + lateClaims)
        <4> SUFFICES ASSUME WithoutCron PROVE WithinCaps(ThisMonth, 1 + lateClaims)
          OBVIOUS
        <4>1. /\ lateClaims \in Nat /\ CurrentMonthlyTotal \in Nat /\ ClaimedThisMonth \in Int
              /\ Explained(ClaimedThisMonth, lateClaims, CurrentMonthlyTotal)
          BY <2>1, ClaimTypes, ClaimedType DEF CapInv
        <4>2. Explained(ClaimedThisMonth, lateClaims + 1, 0)
          BY <4>1, ExplainedLate
        <4>3. ASSUME NEW p \in DailyPlans, NEW n \in Nat, n <= 0,
                     ClaimedThisMonth <= (lateClaims + 1) * ClaimCap[p] + n
              PROVE  ClaimedThisMonth <= (1 + lateClaims) * ClaimCap[p]
          <5>1. ClaimCap[p] \in Nat /\ lateClaims + 1 = 1 + lateClaims /\ n = 0 /\ lateClaims + 1 \in Nat
            BY <4>1, <4>3, PlansAssumption
          <5>2. (lateClaims + 1) * ClaimCap[p] \in Nat
            BY <5>1, CapTimes
          <5>3. QED
            BY <4>1, <4>3, <5>1, <5>2
        <4>4. QED
          BY <3>3, <4>2, <4>3 DEF Explained, WithinCaps
      <3>5. QED
        BY <3>4 DEF ClaimsWithinCapButForOverlap, WithoutCron, RowsIn, RowsOf
    <2>2. QED
      BY <2>1
  <1>4. QED
    BY <1>1, <1>2, <1>3, TypeCorrect, PTL DEF Spec
===============================================================================
