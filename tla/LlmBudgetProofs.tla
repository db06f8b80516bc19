--------------------------- MODULE LlmBudgetProofs ---------------------------
(***************************************************************************)
(* The budgets hold for all caps, tiers, numbers of attempts and call      *)
(* sizes.  Each property is inductive once a task that is still asking is  *)
(* known to be under both of its bounds (AskingInv).                       *)
(***************************************************************************)
EXTENDS LlmBudget, TLAPS

\* A task asks again only under both of its bounds.
AskingInv ==
  task.at = "asking" => task.attempts < MaxAttempts /\ task.tokens < TokenCap

BudgetInv ==
  /\ BudgetTypeOK
  /\ AskingInv
  /\ TaskIsBounded
  /\ RunCapHolds
  /\ FreeTierIsConserved

\* What one call does to the account of its model: drawing keeps the account's
\* type and the sum of drawn and remaining free tokens, and takes from the
\* voucher only when nothing remains.
LEMMA DrawConserves ==
  ASSUME NEW account \in Account, NEW n \in CallTokens
  PROVE /\ Draw(account, n) \in Account
        /\ Draw(account, n).free + Draw(account, n).remaining
             = account.free + account.remaining
        /\ (account.voucher > 0 => account.remaining = 0) =>
             (Draw(account, n).voucher > 0 => Draw(account, n).remaining = 0)
  BY BudgetAssumption DEF Draw, Account, Lesser, CallTokens

\* What one call does to its task: it stays a task, asks again only under both
\* bounds, and oversteps the token bound by less than its own size.
LEMMA ReplyKeepsBounds ==
  ASSUME BudgetTypeOK, AskingInv, task.at = "asking",
         NEW n \in CallTokens, NEW valid \in BOOLEAN
  PROVE /\ AfterReply(n, valid) \in Task
        /\ AfterReply(n, valid).at = "asking" =>
             /\ AfterReply(n, valid).attempts < MaxAttempts
             /\ AfterReply(n, valid).tokens < TokenCap
        /\ AfterReply(n, valid).attempts <= MaxAttempts
        /\ AfterReply(n, valid).tokens < TokenCap + MaxCallTokens
<1> DEFINE tokens == task.tokens + n
           attempts == task.attempts + 1
           ends == IF valid THEN "valid"
                   ELSE IF tokens >= TokenCap \/ attempts = MaxAttempts
                        THEN "exhausted" ELSE "asking"
<1>1. task \in Task /\ n \in Nat /\ n <= MaxCallTokens
  BY BudgetAssumption DEF BudgetTypeOK, CallTokens
<1>2. AfterReply(n, valid)
        = [at |-> ends, model |-> task.model, attempts |-> attempts, tokens |-> tokens]
  BY DEF AfterReply
<1>3. /\ task.model \in Models
      /\ attempts \in Nat /\ attempts <= MaxAttempts
      /\ tokens \in Nat /\ tokens < TokenCap + MaxCallTokens
  BY <1>1, BudgetAssumption DEF AskingInv, Task
<1>4. ends \in TaskStates
  BY DEF TaskStates
<1>5. ends = "asking" => attempts < MaxAttempts /\ tokens < TokenCap
  BY <1>3, BudgetAssumption
<1> HIDE DEF tokens, attempts, ends
<1> QED
  BY <1>2, <1>3, <1>4, <1>5 DEF Task

\* The initial budgets satisfy the invariant.
LEMMA BudgetInitInv == BudgetInit => BudgetInv
<1> SUFFICES ASSUME BudgetInit PROVE BudgetInv
  OBVIOUS
<1>1. BudgetTypeOK
  BY BudgetAssumption DEF BudgetInit, BudgetTypeOK, Account, Task, TaskStates
<1>2. task.at = "none" /\ task.attempts = 0 /\ task.tokens = 0
  BY DEF BudgetInit
<1>3. FreeTierIsConserved
  <2> SUFFICES ASSUME NEW m \in Models
               PROVE /\ meter[m].free + meter[m].remaining = FreeTier[m]
                     /\ meter[m].voucher > 0 => meter[m].remaining = 0
    BY DEF FreeTierIsConserved
  <2>1. meter[m] = [remaining |-> FreeTier[m], free |-> 0, voucher |-> 0]
    BY DEF BudgetInit
  <2>2. FreeTier[m] \in Nat
    BY BudgetAssumption
  <2> QED
    BY <2>1, <2>2
<1>4. RunCapHolds
  BY DEF BudgetInit, RunCapHolds
<1> QED
  BY <1>1, <1>2, <1>3, <1>4, BudgetAssumption DEF BudgetInv, AskingInv, TaskIsBounded

\* A call that is answered keeps every part of the invariant.
LEMMA ReplyInv ==
  ASSUME BudgetInv, NEW n \in CallTokens, NEW valid \in BOOLEAN, Reply(n, valid)
  PROVE BudgetInv'
<1> DEFINE m == task.model
<1>1. BudgetTypeOK /\ AskingInv /\ RunCapHolds /\ FreeTierIsConserved
  BY DEF BudgetInv
<1>2. /\ task.at = "asking" /\ ~OverRunCap /\ task' = AfterReply(n, valid)
      /\ meter' = [meter EXCEPT ![m] = Draw(meter[m], n)]
      /\ spent' = spent + n
  BY DEF Reply, Record
<1>3. m \in Models /\ meter \in [Models -> Account] /\ spent \in Nat
  BY <1>1 DEF BudgetTypeOK, Task
<1>4. n \in Nat /\ n <= MaxCallTokens
  BY BudgetAssumption DEF CallTokens
<1>5. /\ task' \in Task
      /\ task'.at = "asking" => task'.attempts < MaxAttempts /\ task'.tokens < TokenCap
      /\ task'.attempts <= MaxAttempts
      /\ task'.tokens < TokenCap + MaxCallTokens
  BY <1>1, <1>2, ReplyKeepsBounds
<1>6. meter[m] \in Account
  BY <1>3
<1>7. /\ meter'[m] = Draw(meter[m], n)
      /\ \A other \in Models \ {m} : meter'[other] = meter[other]
  BY <1>2, <1>3
<1>8. meter' \in [Models -> Account]
  BY <1>2, <1>3, <1>6, DrawConserves
<1>9. FreeTierIsConserved'
  <2> SUFFICES ASSUME NEW other \in Models
               PROVE /\ meter'[other].free + meter'[other].remaining = FreeTier[other]
                     /\ meter'[other].voucher > 0 => meter'[other].remaining = 0
    BY DEF FreeTierIsConserved
  <2>1. /\ meter[other].free + meter[other].remaining = FreeTier[other]
        /\ meter[other].voucher > 0 => meter[other].remaining = 0
    BY <1>1 DEF FreeTierIsConserved
  <2>2. CASE other = m
    BY <2>1, <2>2, <1>6, <1>7, DrawConserves
  <2>3. CASE other # m
    BY <2>1, <2>3, <1>7
  <2> QED
    BY <2>2, <2>3
<1>10. RunCapHolds'
  BY <1>2, <1>3, <1>4, BudgetAssumption DEF RunCapHolds, OverRunCap
<1>11. BudgetTypeOK'
  BY <1>2, <1>3, <1>4, <1>5, <1>8 DEF BudgetTypeOK
<1> QED
  BY <1>5, <1>9, <1>10, <1>11 DEF BudgetInv, AskingInv, TaskIsBounded

\* Every step keeps the invariant: the other actions leave the meter alone.
LEMMA BudgetNextInv == BudgetInv /\ [BudgetNext]_budgetVars => BudgetInv'
<1> SUFFICES ASSUME BudgetInv, [BudgetNext]_budgetVars PROVE BudgetInv'
  OBVIOUS
<1>0. BudgetTypeOK /\ AskingInv /\ TaskIsBounded /\ RunCapHolds /\ FreeTierIsConserved
  BY DEF BudgetInv
<1>1. ASSUME UNCHANGED <<meter, spent>>, task' \in Task, AskingInv', TaskIsBounded'
      PROVE BudgetInv'
  BY <1>0, <1>1 DEF BudgetInv, BudgetTypeOK, RunCapHolds, FreeTierIsConserved
<1>2. CASE Refuse
  BY <1>0, <1>1, <1>2 DEF Refuse, BudgetTypeOK, Task, TaskStates, AskingInv, TaskIsBounded
<1>3. CASE FailCall
  BY <1>0, <1>1, <1>3 DEF FailCall, BudgetTypeOK, Task, TaskStates, AskingInv, TaskIsBounded
<1>4. ASSUME NEW n \in CallTokens, NEW valid \in BOOLEAN, Reply(n, valid)
      PROVE BudgetInv'
  BY <1>4, ReplyInv
<1>5. ASSUME NEW m \in Models, StartTask(m) PROVE BudgetInv'
  BY <1>1, <1>5, BudgetAssumption
  DEF StartTask, Task, TaskStates, AskingInv, TaskIsBounded
<1>6. CASE UNCHANGED budgetVars
  BY <1>0, <1>1, <1>6 DEF budgetVars, BudgetTypeOK, AskingInv, TaskIsBounded
<1> QED
  BY <1>2, <1>3, <1>4, <1>5, <1>6 DEF BudgetNext, Ask

\* The inductive invariant of the client and its meter.
THEOREM BudgetInvariant == BudgetSpec => []BudgetInv
  BY BudgetInitInv, BudgetNextInv, PTL DEF BudgetSpec

\* QwenClient.complete: whatever the tasks and their retries, the session
\* overshoots its run cap by less than one call.
THEOREM RunCapIsKept == BudgetSpec => []RunCapHolds
<1>1. BudgetInv => RunCapHolds
  BY DEF BudgetInv
<1> QED
  BY <1>1, BudgetInvariant, PTL

\* complete_structured: attempts and tokens of every task are bounded.
THEOREM TasksAreBounded == BudgetSpec => []TaskIsBounded
<1>1. BudgetInv => TaskIsBounded
  BY DEF BudgetInv
<1> QED
  BY <1>1, BudgetInvariant, PTL

\* CostMeter.record: no free token is lost or drawn twice, for any model.
THEOREM FreeTierConserved == BudgetSpec => []FreeTierIsConserved
<1>1. BudgetInv => FreeTierIsConserved
  BY DEF BudgetInv
<1> QED
  BY <1>1, BudgetInvariant, PTL

=============================================================================
