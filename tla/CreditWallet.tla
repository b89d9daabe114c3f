----------------------------- MODULE CreditWallet -----------------------------
(***************************************************************************)
(* The credit wallet of one user or organization, and everybody who writes *)
(* it: AI requests that check the balance, call a provider and charge what *)
(* the call used; one-off debits and credits; an administrator's grants    *)
(* and refunds; daily claims; and the credit cron, run by one replica of   *)
(* the server at a time.                                                   *)
(*                                                                         *)
(* Granularity. A database transaction that starts with an UPDATE holds    *)
(* the row until it commits, so it is one action. A read whose result is   *)
(* used by a later write is an action of its own: the service runs on the  *)
(* database's default isolation level, where a SELECT takes no lock.       *)
(*                                                                         *)
(* Amounts. Balances are whole credits; usage and the pending accumulator  *)
(* are counted in parts, Unit parts to a credit.                           *)
(***************************************************************************)
EXTENDS Integers, Sequences, FiniteSets, FiniteSetsExt

CONSTANTS
    Requests,      \* AI requests that may be in flight at once
    Claimers,      \* daily-claim calls that may be in flight at once
    Replicas,      \* server replicas, each with its own credit cron
    NoReplica,     \* the value of a lock nobody holds
    Unit,          \* parts in one credit
    Costs,         \* what an AI call may cost, in parts
    Amounts,       \* what a one-off debit or credit may be, in credits
    Refundable,    \* bound: the row types an administrator may refund
    Plans,         \* the plans an owner may be on
    DailyPlans,    \* plans with creditClaimType "daily"
    MonthlyPlans,  \* plans with creditClaimType "monthly"
    PlanCredits,   \* creditsPerMonth of each plan; -1 is unlimited
    DailyClaim,    \* dailyCreditClaim of each plan
    ClaimCap,      \* monthlyClaimCap of each plan
    DaysPerMonth,
    MaxDay,        \* bound: the last day of the model's calendar
    MaxRows        \* bound: the most ledger rows

ASSUME UnitAssumption == Unit \in Nat \ {0}
ASSUME CostsAssumption == Costs \subseteq Nat \ {0}
ASSUME AmountsAssumption == Amounts \subseteq Nat \ {0}
ASSUME ReplicasAssumption == NoReplica \notin Replicas
ASSUME PlansAssumption ==
    /\ DailyPlans \subseteq Plans
    /\ MonthlyPlans \subseteq Plans
    /\ DailyPlans \cap MonthlyPlans = {}
    /\ PlanCredits \in [Plans -> Int]
    /\ DailyClaim \in [Plans -> Nat]
    /\ ClaimCap \in [Plans -> Nat]
ASSUME CalendarAssumption == DaysPerMonth \in Nat \ {0}

VARIABLES
    plan,        \* the owner's plan, set by the billing webhooks
    day,         \* today, from 1
    created,     \* does the wallet row exist?
    wallet,      \* the wallet row
    opening,     \* credits the row was created with
    openingRow,  \* has the opening grant reached the ledger?
    ledger,      \* the other ledger rows, in commit order
    request,     \* request[r]: where AI request r stands
    claim,       \* claim[c]: where claim c stands
    cron,        \* cron[k]: where the credit cron of replica k stands
    lock,        \* the replica holding the cron's distributed lock
    charged,        \* history: parts that successful charges accounted for
    staleRequests,  \* history: requests over whose read of pending another has written
    lateCharges,    \* history: charges such requests have written nevertheless
    staleClaims,    \* history: claims since whose check another has been granted
    lateClaims      \* history: grants such claims have got nevertheless

dbVars == <<created, wallet, opening, openingRow, ledger>>
cronVars == <<cron, lock>>
chargeHistory == <<charged, staleRequests, lateCharges>>
claimHistory == <<staleClaims, lateClaims>>
history == <<chargeHistory, claimHistory>>
vars == <<plan, day, dbVars, request, claim, cronVars, history>>

MonthOf(d) == 1 + ((d - 1) \div DaysPerMonth)
ThisMonth == MonthOf(day)

Never == 0   \* a null timestamp

Wallet == [balance: Int, lifetime: Int, pending: Nat, monthlyUsed: Nat,
           lastClaim: Nat, claimedTotal: Nat, resetMonth: Nat]

Earning == {"purchase", "bonus", "grant"}
CreditTypes == Earning \cup {"refund", "allocation"}
RowTypes == CreditTypes \cup {"usage", "ai_usage", "daily_claim", "monthly_grant"}
(* Both debits have type "usage" in the database; the charge of an AI call *)
(* is told apart by its category.                                          *)
LedgerRow == [type: RowTypes, amount: Int, after: Int, day: Nat]

RequestPcs == {"idle", "creating", "opening", "admitted", "refused",
               "served", "charging", "writing", "unpaid"}
RequestState == [pc: RequestPcs, credits: Int, cost: Nat, pending: Nat]
ClaimState == [pc: {"idle", "granting"}, day: Nat, total: Nat, grant: Nat]
CronPcs == {"idle", "grant", "granting", "reset", "resetting", "release"}
CronState == [pc: CronPcs, credits: Int, day: Nat]

IdleRequest == [pc |-> "idle", credits |-> 0, cost |-> 0, pending |-> 0]
IdleClaim == [pc |-> "idle", day |-> 0, total |-> 0, grant |-> 0]
IdleCron == [pc |-> "idle", credits |-> 0, day |-> 0]

Ceiling(parts) == (parts + Unit - 1) \div Unit
(* Mutant: whole credits are rounded up.                                   *)
WholeRoundedUp(parts) == Ceiling(parts)

Whole(parts) == parts \div Unit
(* Mutant: the last claim of a month is not cut to what the cap leaves.    *)
SmallerForgotten(a, b) == a

Smaller(a, b) == IF a <= b THEN a ELSE b

(* Mutant: balanceAfter is the balance read before the update.             *)
PostStaleBalance(type, amount, d, w) ==
    /\ Len(ledger) < MaxRows
    /\ wallet' = [w EXCEPT !.balance = w.balance + amount]
    /\ ledger' = Append(ledger,
         [type |-> type, amount |-> amount, after |-> w.balance, day |-> d])

(* The row that records a change of amount credits, and the ledger and the *)
(* balance after it: every transaction of the service does both.           *)
Post(type, amount, d, w) ==
    /\ Len(ledger) < MaxRows
    /\ wallet' = [w EXCEPT !.balance = w.balance + amount]
    /\ ledger' = Append(ledger,
         [type |-> type, amount |-> amount, after |-> w.balance + amount, day |-> d])

-------------------------------------------------------------------------------
Init ==
    /\ plan \in Plans
    /\ day = 1
    /\ created = FALSE
    /\ wallet = [balance |-> 0, lifetime |-> 0, pending |-> 0, monthlyUsed |-> 0,
                 lastClaim |-> Never, claimedTotal |-> 0, resetMonth |-> Never]
    /\ opening = 0
    /\ openingRow = FALSE
    /\ ledger = << >>
    /\ request = [r \in Requests |-> IdleRequest]
    /\ claim = [c \in Claimers |-> IdleClaim]
    /\ cron = [k \in Replicas |-> IdleCron]
    /\ lock = NoReplica
    /\ charged = 0 /\ lateCharges = 0 /\ lateClaims = 0
    /\ staleRequests = {} /\ staleClaims = {}

-------------------------------------------------------------------------------
(* Creating the wallet: find, create the row, then record the grant.       *)

CreateStart(r) ==
    /\ request[r].pc = "idle"
    /\ ~ created
    /\ request' = [request EXCEPT ![r] =
         [IdleRequest EXCEPT !.pc = "creating", !.credits = PlanCredits[plan]]]
    /\ UNCHANGED <<plan, day, dbVars, claim, cronVars, history>>

(* Mutant: without the unique owner, the second creation replaces the row. *)
CreateRowUpsert(r) ==
    /\ request[r].pc = "creating"
    /\ created' = TRUE
    /\ opening' = request[r].credits
    /\ wallet' = [wallet EXCEPT !.balance = request[r].credits,
                                !.lifetime = request[r].credits]
    /\ request' = [request EXCEPT ![r].pc = "opening"]
    /\ UNCHANGED <<plan, day, openingRow, ledger, claim, cronVars, history>>

CreateRow(r) ==
    /\ request[r].pc = "creating"
    /\ ~ created
    /\ created' = TRUE
    /\ opening' = request[r].credits
    /\ wallet' = [wallet EXCEPT !.balance = request[r].credits,
                                !.lifetime = request[r].credits]
    /\ request' = [request EXCEPT ![r].pc = "opening"]
    /\ UNCHANGED <<plan, day, openingRow, ledger, claim, cronVars, history>>

(* The owner's id is unique, so the second of two creations fails. The     *)
(* organization path then reads the winner's row, the personal path fails; *)
(* either way the caller starts over from the row.                         *)
CreateRaceLost(r) ==
    /\ request[r].pc = "creating"
    /\ created
    /\ request' = [request EXCEPT ![r] = IdleRequest]
    /\ UNCHANGED <<plan, day, dbVars, claim, cronVars, history>>

(* The balance check that admits a request, against the row it has read.   *)
AdmitOrRefuse(r, balance, estimate) ==
    request' = [request EXCEPT ![r] = [IdleRequest EXCEPT !.pc =
        IF balance * Unit >= estimate THEN "admitted" ELSE "refused"]]

(* An organization's wallet goes on without the row if writing it fails.   *)
WriteOpeningRow(r) ==
    /\ request[r].pc = "opening"
    /\ openingRow' \in {TRUE, openingRow}
    /\ \E estimate \in Costs : AdmitOrRefuse(r, request[r].credits, estimate)
    /\ UNCHANGED <<plan, day, created, wallet, opening, ledger, claim, cronVars, history>>

-------------------------------------------------------------------------------
(* An AI request: check, call the provider, charge.                        *)

EnsureCredits(r) ==
    /\ request[r].pc = "idle"
    /\ created
    /\ \E estimate \in Costs : AdmitOrRefuse(r, wallet.balance, estimate)
    /\ UNCHANGED <<plan, day, dbVars, claim, cronVars, history>>

CallProvider(r) ==
    /\ request[r].pc = "admitted"
    /\ \E cost \in Costs :
         request' = [request EXCEPT ![r].pc = "served", ![r].cost = cost]
    /\ UNCHANGED <<plan, day, dbVars, claim, cronVars, history>>

(* The pre-check of deductPersonalCredits and deductOrgCredits: a stale    *)
(* view of the row decides whether to charge at all.                       *)
PrecheckCharge(r) ==
    /\ request[r].pc = "served"
    /\ request' = [request EXCEPT ![r].pc =
         IF wallet.balance < Ceiling(wallet.pending + request[r].cost)
         THEN "unpaid" ELSE "charging"]
    /\ UNCHANGED <<plan, day, dbVars, claim, cronVars, history>>

(* Mutant: what was pending before is not carried over.                    *)
ReadPendingAsZero(r) ==
    /\ request[r].pc = "charging"
    /\ request' = [request EXCEPT ![r].pc = "writing", ![r].pending = 0]
    /\ UNCHANGED <<plan, day, dbVars, claim, cronVars, history>>

(* accumulateAndDeductCredits, first statement: read the accumulator.      *)
ReadPending(r) ==
    /\ request[r].pc = "charging"
    /\ request' = [request EXCEPT ![r].pc = "writing", ![r].pending = wallet.pending]
    /\ UNCHANGED <<plan, day, dbVars, claim, cronVars, history>>

(* The charge reaches the row: whoever has read the accumulator before is  *)
(* now about to overwrite it with what an old value makes of it.           *)
Charged(r) ==
    /\ charged' = charged + request[r].cost
    /\ request' = [request EXCEPT ![r] = IdleRequest]
    /\ staleRequests' = {s \in Requests : request[s].pc = "writing"} \ {r}
    /\ lateCharges' = lateCharges + (IF r \in staleRequests THEN 1 ELSE 0)

(* accumulateAndDeductCredits, the rest of the transaction: the whole      *)
(* credits are taken under a guard on the current balance, the accumulator *)
(* is overwritten with what the earlier read makes of it.                  *)
WriteCharge(r) ==
    LET parts == request[r].pending + request[r].cost
        credits == Whole(parts)
        remaining == parts - credits * Unit
    IN
    /\ request[r].pc = "writing"
    /\ \/ /\ credits = 0
          /\ wallet' = [wallet EXCEPT !.pending = parts]
          /\ Charged(r)
          /\ UNCHANGED ledger
       \/ /\ credits > 0
          /\ wallet.balance >= credits
          /\ Post("ai_usage", -credits, day,
                  [wallet EXCEPT !.pending = remaining,
                                 !.monthlyUsed = wallet.monthlyUsed + credits])
          /\ Charged(r)
       \/ /\ credits > 0
          /\ wallet.balance < credits
          /\ request' = [request EXCEPT ![r].pc = "unpaid"]
          /\ staleRequests' = staleRequests \ {r}
          /\ UNCHANGED <<wallet, ledger, charged, lateCharges>>
    /\ UNCHANGED <<plan, day, created, opening, openingRow, claim, cronVars, claimHistory>>

(* A refusal is answered, an unpaid call is logged for reconciliation, and *)
(* a caller may die wherever it stands: nothing is left of the request.    *)
LeaveRequest(r) ==
    /\ request[r].pc # "idle"
    /\ request' = [request EXCEPT ![r] = IdleRequest]
    /\ staleRequests' = staleRequests \ {r}
    /\ UNCHANGED <<plan, day, dbVars, claim, cronVars, charged, lateCharges, claimHistory>>

-------------------------------------------------------------------------------
(* One-off debits and credits: marketplace, purchases, refunds, bonuses.   *)

(* Mutant: a blind decrement, without the guard on the balance.            *)
DeductCreditsBlindly(amount) ==
    /\ created
    /\ Post("usage", -amount, day,
            [wallet EXCEPT !.monthlyUsed = wallet.monthlyUsed + amount])
    /\ UNCHANGED <<plan, day, created, opening, openingRow, request, claim, cronVars, history>>

DeductCredits(amount) ==
    /\ created
    /\ wallet.balance >= amount
    /\ Post("usage", -amount, day,
            [wallet EXCEPT !.monthlyUsed = wallet.monthlyUsed + amount])
    /\ UNCHANGED <<plan, day, created, opening, openingRow, request, claim, cronVars, history>>

(* Mutant: every credit counts as earned, refunds included.                *)
AddCreditsAllEarned(amount, type) ==
    /\ created
    /\ Post(type, amount, day, [wallet EXCEPT !.lifetime = wallet.lifetime + amount])
    /\ UNCHANGED <<plan, day, created, opening, openingRow, request, claim, cronVars, history>>

AddCredits(amount, type) ==
    /\ created
    /\ Post(type, amount, day,
            IF type \in Earning
            THEN [wallet EXCEPT !.lifetime = wallet.lifetime + amount]
            ELSE wallet)
    /\ UNCHANGED <<plan, day, created, opening, openingRow, request, claim, cronVars, history>>

-------------------------------------------------------------------------------
(* The administrator's routes write the tables themselves.                 *)

(* A grant to an owner without a wallet opens an empty one; the grant      *)
(* itself, a transaction of its own, is AddCredits.                        *)
AdminOpen ==
    /\ ~ created
    /\ created' = TRUE
    /\ UNCHANGED <<plan, day, wallet, opening, openingRow, ledger, request, claim,
                   cronVars, history>>

(* The row to refund; row 0 is the opening row.                            *)
Original(i) ==
    IF i = 0 THEN [type |-> "grant", amount |-> opening]
             ELSE [type |-> ledger[i].type, amount |-> ledger[i].amount]

(* Any row can be refunded, any number of times, with no guard on the      *)
(* balance: refunding a credit takes it back.                              *)
AdminRefund(i) ==
    /\ created
    /\ i = 0 => openingRow
    /\ Original(i).type \in Refundable
    /\ Post("refund", -Original(i).amount, day, wallet)
    /\ UNCHANGED <<plan, day, created, opening, openingRow, request, claim, cronVars, history>>

-------------------------------------------------------------------------------
(* claimDailyCredits: the checks run on a row read outside the transaction *)
(* that grants the credits.                                                *)

(* The total claimed in the month of today, as the claim sees it.          *)
CurrentMonthlyTotal ==
    IF wallet.lastClaim # Never /\ MonthOf(wallet.lastClaim) # ThisMonth
    THEN 0
    ELSE wallet.claimedTotal

ClaimCheck(c) ==
    /\ claim[c].pc = "idle"
    /\ created
    /\ plan \in DailyPlans
    /\ wallet.lastClaim # day
    /\ LET grant == Smaller(DailyClaim[plan], ClaimCap[plan] - CurrentMonthlyTotal) IN
         /\ grant > 0
         /\ claim' = [claim EXCEPT ![c] = [pc |-> "granting", day |-> day,
                        total |-> CurrentMonthlyTotal, grant |-> grant]]
    /\ UNCHANGED <<plan, day, dbVars, request, cronVars, history>>

(* A grant reaches the row: whoever has checked before and is not granted  *)
(* yet goes by a claim that is no longer the last.                         *)
Claimed(c) ==
    /\ claim' = [claim EXCEPT ![c] = IdleClaim]
    /\ staleClaims' = {d \in Claimers : claim[d].pc = "granting"} \ {c}
    /\ lateClaims' = lateClaims + (IF c \in staleClaims THEN 1 ELSE 0)

(* Mutant: the claim does not record when it was made.                     *)
ClaimGrantUndated(c) ==
    /\ claim[c].pc = "granting"
    /\ Post("daily_claim", claim[c].grant, claim[c].day,
            [wallet EXCEPT !.lifetime = wallet.lifetime + claim[c].grant,
                           !.claimedTotal = claim[c].total + claim[c].grant])
    /\ Claimed(c)
    /\ UNCHANGED <<plan, day, created, opening, openingRow, request, cronVars, chargeHistory>>

ClaimGrant(c) ==
    /\ claim[c].pc = "granting"
    /\ Post("daily_claim", claim[c].grant, claim[c].day,
            [wallet EXCEPT !.lifetime = wallet.lifetime + claim[c].grant,
                           !.lastClaim = claim[c].day,
                           !.claimedTotal = claim[c].total + claim[c].grant])
    /\ Claimed(c)
    /\ UNCHANGED <<plan, day, created, opening, openingRow, request, cronVars, chargeHistory>>

ClaimDies(c) ==
    /\ claim[c].pc = "granting"
    /\ claim' = [claim EXCEPT ![c] = IdleClaim]
    /\ staleClaims' = staleClaims \ {c}
    /\ UNCHANGED <<plan, day, dbVars, request, cronVars, chargeHistory, lateClaims>>

-------------------------------------------------------------------------------
(* The credit cron. Every six hours each replica tries to take the lock;   *)
(* the one that gets it grants the month's credits if they are due and     *)
(* then resets the month of a daily-claim wallet.                          *)

CronMoves(k, from, to) ==
    /\ cron[k].pc = from
    /\ cron' = [cron EXCEPT ![k].pc = to]

(* Mutant: SET without NX, every replica takes the lock.                   *)
CronStartUnlocked(k) ==
    /\ created
    /\ lock' = k
    /\ CronMoves(k, "idle", "grant")
    /\ UNCHANGED <<plan, day, dbVars, request, claim, history>>

CronStart(k) ==
    /\ created
    /\ lock = NoReplica
    /\ lock' = k
    /\ CronMoves(k, "idle", "grant")
    /\ UNCHANGED <<plan, day, dbVars, request, claim, history>>

GrantDue ==
    /\ plan \in MonthlyPlans
    /\ wallet.resetMonth # ThisMonth
    /\ PlanCredits[plan] > 0

CronGrantCheck(k) ==
    /\ cron[k].pc = "grant"
    /\ cron' = [cron EXCEPT ![k] =
         IF GrantDue
         THEN [pc |-> "granting", credits |-> PlanCredits[plan], day |-> day]
         ELSE [IdleCron EXCEPT !.pc = "reset"]]
    /\ UNCHANGED <<plan, day, dbVars, request, claim, lock, history>>

CronGrant(k) ==
    /\ cron[k].pc = "granting"
    /\ Post("monthly_grant", cron[k].credits, cron[k].day,
            [wallet EXCEPT !.lifetime = wallet.lifetime + cron[k].credits,
                           !.monthlyUsed = 0,
                           !.resetMonth = MonthOf(cron[k].day),
                           !.claimedTotal = 0])
    /\ cron' = [cron EXCEPT ![k] = [IdleCron EXCEPT !.pc = "reset"]]
    /\ UNCHANGED <<plan, day, created, opening, openingRow, request, claim, lock, history>>

CronResetCheck(k) ==
    /\ CronMoves(k, "reset", IF plan \in DailyPlans THEN "resetting" ELSE "release")
    /\ UNCHANGED <<plan, day, dbVars, request, claim, lock, history>>

CronReset(k) ==
    /\ CronMoves(k, "resetting", "release")
    /\ wallet' = [wallet EXCEPT !.monthlyUsed = 0,
                                !.claimedTotal = 0,
                                !.resetMonth = ThisMonth]
    /\ UNCHANGED <<plan, day, created, opening, openingRow, ledger, request, claim,
                   lock, history>>

(* releaseLock compares the token: a replica frees only its own lock.      *)
CronRelease(k) ==
    /\ CronMoves(k, "release", "idle")
    /\ lock' = IF lock = k THEN NoReplica ELSE lock
    /\ UNCHANGED <<plan, day, dbVars, request, claim, history>>

(* A replica dies in the middle of the job and keeps the lock.             *)
CronDies(k) ==
    /\ cron[k].pc # "idle"
    /\ cron' = [cron EXCEPT ![k] = IdleCron]
    /\ UNCHANGED <<plan, day, dbVars, request, claim, lock, history>>

(* The lock's time to live runs out. It is chosen longer than the job, so  *)
(* only a lock whose holder died gets that far.                            *)
LockExpires ==
    /\ lock # NoReplica
    /\ cron[lock].pc = "idle"
    /\ lock' = NoReplica
    /\ UNCHANGED <<plan, day, dbVars, request, claim, cron, history>>

-------------------------------------------------------------------------------
ChangePlan ==
    /\ plan' \in Plans \ {plan}
    /\ UNCHANGED <<day, dbVars, request, claim, cronVars, history>>

NextDay ==
    /\ day < MaxDay
    /\ day' = day + 1
    /\ UNCHANGED <<plan, dbVars, request, claim, cronVars, history>>

RequestStep(r) ==
    \/ CreateStart(r)    \/ CreateRow(r)      \/ CreateRaceLost(r)
    \/ WriteOpeningRow(r)
    \/ EnsureCredits(r)  \/ CallProvider(r)   \/ PrecheckCharge(r)
    \/ ReadPending(r)    \/ WriteCharge(r)    \/ LeaveRequest(r)

ClaimStep(c) == ClaimCheck(c) \/ ClaimGrant(c) \/ ClaimDies(c)

CronStep(k) ==
    \/ CronStart(k)      \/ CronGrantCheck(k) \/ CronGrant(k)
    \/ CronResetCheck(k) \/ CronReset(k)      \/ CronRelease(k)
    \/ CronDies(k)

Next ==
    \/ \E r \in Requests : RequestStep(r)
    \/ \E c \in Claimers : ClaimStep(c)
    \/ \E k \in Replicas : CronStep(k)
    \/ \E amount \in Amounts : DeductCredits(amount)
    \/ \E amount \in Amounts, type \in CreditTypes : AddCredits(amount, type)
    \/ AdminOpen
    \/ \E i \in 0..Len(ledger) : AdminRefund(i)
    \/ LockExpires
    \/ ChangePlan
    \/ NextDay

Spec == Init /\ [][Next]_vars

-------------------------------------------------------------------------------
TypeOK ==
    /\ plan \in Plans
    /\ day \in Nat \ {0}
    /\ created \in BOOLEAN
    /\ wallet \in Wallet
    /\ opening \in Int
    /\ openingRow \in BOOLEAN
    /\ ledger \in Seq(LedgerRow)
    /\ request \in [Requests -> RequestState]
    /\ claim \in [Claimers -> ClaimState]
    /\ cron \in [Replicas -> CronState]
    /\ lock \in Replicas \cup {NoReplica}
    /\ charged \in Nat /\ lateCharges \in Nat /\ lateClaims \in Nat
    /\ staleRequests \subseteq Requests /\ staleClaims \subseteq Claimers

(* Safety. The guards on the balance hold although every check that a      *)
(* caller makes first is stale: a wallet opened with a balance is never    *)
(* overdrawn, unless an administrator took credits back.                   *)
(* (wallet.service.ts, deductCredits and accumulateAndDeductCredits:       *)
(* "WHERE guard ... to prevent race conditions that could result in        *)
(* negative balances".)                                                    *)
TakenBack == \E i \in DOMAIN ledger : ledger[i].type = "refund" /\ ledger[i].amount < 0
NeverOverdrawn == (opening >= 0 /\ ~ TakenBack) => wallet.balance >= 0

(* The balance that row i of the ledger started from.                      *)
BalanceBefore(i) == IF i = 1 THEN opening ELSE ledger[i - 1].after

(* Safety. The ledger explains the balance: each row's balanceAfter is its *)
(* predecessor's plus its amount, and the last one is the balance, however *)
(* the transactions that write them interleave.                            *)
LedgerExplainsBalance ==
    /\ \A i \in 1..Len(ledger) : ledger[i].after = BalanceBefore(i) + ledger[i].amount
    /\ wallet.balance = BalanceBefore(Len(ledger) + 1)

RowsOf(types) == {i \in DOMAIN ledger : ledger[i].type \in types}
Total(rows) == MapThenSumSet(LAMBDA i : ledger[i].amount, rows)

(* Safety. "Total credits ever added": lifetime is what the account was    *)
(* opened with and what it earned since; refunds and allocations do not    *)
(* count (addCredits, claimDailyCredits, grantMonthlyCredits).             *)
LifetimeIsEarned ==
    wallet.lifetime = opening + Total(RowsOf(Earning \cup {"daily_claim", "monthly_grant"}))

(* Safety. A month's credits are granted at most once, with several        *)
(* replicas running the cron, replicas dying in the middle of it, and the  *)
(* owner moving between plans (grantMonthlyCredits, withDistributedLock).  *)
MonthlyGrantOnce ==
    \A i, j \in RowsOf({"monthly_grant"}) :
        MonthOf(ledger[i].day) = MonthOf(ledger[j].day) => i = j

ClaimsOf(d) == {i \in RowsOf({"daily_claim"}) : ledger[i].day = d}

(* Safety. "Can only claim once per calendar day" (claimDailyCredits) is   *)
(* not what the code does: the check and the grant are not one             *)
(* transaction, and of two calls that have both checked both are granted.  *)
(* A day is claimed again only so: whatever comes between the check and    *)
(* the grant, midnight and the cron included, the claims of a day are one  *)
(* and no more than the grants that came late, after another's.            *)
ClaimOncePerDayButForOverlap ==
    \A d \in 1..day : Cardinality(ClaimsOf(d)) <= 1 + lateClaims

ClaimedIn(month) ==
    Total({i \in RowsOf({"daily_claim"}) : MonthOf(ledger[i].day) = month})

(* Safety. "If monthly cap is reached, no more claims until next month"    *)
(* (claimDailyCredits). Calls that overlap break this too, each for at     *)
(* most one cap, and so does the cron, which sets the claimed total to     *)
(* zero in the middle of a month: this is about a wallet it has not        *)
(* touched, neither by this month's reset nor by a monthly grant. There    *)
(* the claim's own month rollover and its partial last claim keep to the   *)
(* cap, with claims that die, overlap or straddle the end of the month.    *)
WithinCaps(month, n) ==
    \/ ClaimedIn(month) = 0
    \/ \E p \in DailyPlans : ClaimedIn(month) <= n * ClaimCap[p]

ClaimsWithinCapButForOverlap ==
    (wallet.resetMonth # ThisMonth /\ RowsOf({"monthly_grant"}) = {})
        => WithinCaps(ThisMonth, 1 + lateClaims)

(* Safety. "Keeps the remainder in pendingCredits": what the successful    *)
(* charges cost is what they took in whole credits and what is pending     *)
(* (accumulateAndDeductCredits). The accumulator is read before it is      *)
(* overwritten, with no lock, so of two charges that overlap the later     *)
(* write forgets the other's: each such write shifts the account, up or    *)
(* down, but by less than one credit, and nothing else ever does.          *)
Drift == charged - (wallet.pending - Unit * Total(RowsOf({"ai_usage"})))
NoFractionLostButToOverlap ==
    /\ Drift <= (Unit - 1) * lateCharges
    /\ -Drift <= (Unit - 1) * lateCharges

(* Refinement. The wallet is an account: it is opened once, its balance    *)
(* moves only together with a ledger row, and no charge or debit takes it  *)
(* below zero.                                                             *)
IsAccount == INSTANCE Account WITH
    open <- created, balance <- wallet.balance, rows <- ledger
ImplementsAccount == IsAccount!Spec
===============================================================================
