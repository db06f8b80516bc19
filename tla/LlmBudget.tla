------------------------------ MODULE LlmBudget ------------------------------
(***************************************************************************)
(* The language model's budgets: one client with its CostMeter, used by    *)
(* one task after the other.  A task is a call of complete_structured: it  *)
(* asks until the reply validates, it has asked too often, or its tokens   *)
(* are spent; every call may be refused over the run's cap, or fail.       *)
(*                                                                         *)
(* The meter's list of records is kept as its sums, over all calls (spent) *)
(* and for each model (meter).  A call's input and output tokens are one   *)
(* number: no cap and no tier tells them apart.                            *)
(***************************************************************************)
EXTENDS Integers

CONSTANTS
  Models,
  MaxCallTokens,   \* bound: what one call can cost
  FreeTier,        \* free_tier_tokens, for each model
  HasRunCap,       \* whether run_token_cap is set
  RunCap,
  TokenCap,        \* of one task
  MaxAttempts      \* of one task

ASSUME BudgetAssumption ==
  /\ MaxCallTokens \in Nat
  /\ FreeTier \in [Models -> Nat]
  /\ HasRunCap \in BOOLEAN
  /\ RunCap \in Nat
  /\ TokenCap \in Nat \ {0}
  /\ MaxAttempts \in Nat \ {0}

VARIABLES
  meter,   \* for each model: what is left of the free tier, what was drawn
  spent,   \* the tokens of all records
  task     \* the current, or latest, complete_structured

budgetVars == <<meter, spent, task>>

CallTokens == 0 .. MaxCallTokens

Account == [remaining : Nat, free : Nat, voucher : Nat]

\* Where a task is: before the first, between calls, or how it ended.
TaskStates == {"none", "asking", "valid", "exhausted", "refused", "failed"}

Task == [at : TaskStates, model : Models, attempts : Nat, tokens : Nat]

\* CostMeter.__init__, and no task yet.
BudgetInit ==
  /\ meter = [m \in Models |-> [remaining |-> FreeTier[m], free |-> 0, voucher |-> 0]]
  /\ spent = 0
  /\ task \in [at : {"none"}, model : Models, attempts : {0}, tokens : {0}]

-----------------------------------------------------------------------------

Lesser(a, b) == IF a <= b THEN a ELSE b

\* Seeded fault: the free tier is drawn past its end.
Overdraw(account, n) ==
  [remaining |-> account.remaining - n, free |-> account.free + n,
   voucher |-> account.voucher]

\* Seeded fault: a call that straddles the end of the free tier is all paid.
DrawAllOrNothing(account, n) ==
  LET free == IF n <= account.remaining THEN n ELSE 0
  IN [remaining |-> account.remaining - Lesser(account.remaining, n),
      free |-> account.free + free, voucher |-> account.voucher + (n - free)]

\* CostMeter.record: the free tier first, the voucher for the rest.
Draw(account, n) ==
  LET free == Lesser(account.remaining, n)
  IN [remaining |-> account.remaining - free,
      free |-> account.free + free, voucher |-> account.voucher + (n - free)]

Record(m, n) ==
  /\ meter' = [meter EXCEPT ![m] = Draw(meter[m], n)]
  /\ spent' = spent + n

\* Seeded fault: the cap looks at the current task's tokens only.
OverTaskCap == HasRunCap /\ task.tokens >= RunCap

\* The cap is looked at before a call, with what the earlier ones cost.
OverRunCap == HasRunCap /\ spent >= RunCap

StartTask(m) ==
  /\ task.at # "asking"
  /\ task' = [at |-> "asking", model |-> m, attempts |-> 0, tokens |-> 0]
  /\ UNCHANGED <<meter, spent>>

\* RunTokenCapExceeded: the model is not called.
Refuse ==
  /\ task.at = "asking"
  /\ OverRunCap
  /\ task' = [task EXCEPT !.at = "refused"]
  /\ UNCHANGED <<meter, spent>>

\* QwenCallError, after the SDK's own retries: nothing is metered.
FailCall ==
  /\ task.at = "asking"
  /\ ~OverRunCap
  /\ task' = [task EXCEPT !.at = "failed"]
  /\ UNCHANGED <<meter, spent>>

\* Seeded fault: one attempt too many.
AfterOneReplyMore(n, valid) ==
  LET tokens == task.tokens + n
      attempts == task.attempts + 1
  IN [at |-> IF valid THEN "valid"
             ELSE IF tokens >= TokenCap \/ attempts > MaxAttempts THEN "exhausted"
             ELSE "asking",
      model |-> task.model, attempts |-> attempts, tokens |-> tokens]

\* Seeded fault: the task's tokens are not looked at.
AfterReplyUncapped(n, valid) ==
  LET attempts == task.attempts + 1
  IN [at |-> IF valid THEN "valid" ELSE IF attempts = MaxAttempts THEN "exhausted" ELSE "asking",
      model |-> task.model, attempts |-> attempts, tokens |-> task.tokens + n]

\* A valid payload is returned, even over the task's cap; after an invalid one
\* the task goes on only under both bounds.
AfterReply(n, valid) ==
  LET tokens == task.tokens + n
      attempts == task.attempts + 1
  IN [at |-> IF valid THEN "valid"
             ELSE IF tokens >= TokenCap \/ attempts = MaxAttempts THEN "exhausted"
             ELSE "asking",
      model |-> task.model, attempts |-> attempts, tokens |-> tokens]

Reply(n, valid) ==
  /\ task.at = "asking"
  /\ ~OverRunCap
  /\ Record(task.model, n)
  /\ task' = AfterReply(n, valid)

Ask == Refuse \/ FailCall \/ \E n \in CallTokens, valid \in BOOLEAN : Reply(n, valid)

BudgetNext == Ask \/ \E m \in Models : StartTask(m)

BudgetSpec == BudgetInit /\ [][BudgetNext]_budgetVars

-----------------------------------------------------------------------------

BudgetTypeOK ==
  /\ meter \in [Models -> Account]
  /\ spent \in Nat
  /\ task \in Task

\* The run's cap is overshot by less than one call, whatever tasks and retries
\* went before, as QwenClient.complete looks at it before each.
RunCapHolds == HasRunCap /\ spent > 0 => spent < RunCap + MaxCallTokens

\* A task asks at most MaxAttempts times, and overshoots its cap by less than
\* one call: complete_structured is no unbounded loop.
TaskIsBounded ==
  /\ task.attempts <= MaxAttempts
  /\ task.tokens < TokenCap + MaxCallTokens

\* No token of the free tier is lost or drawn twice, and the voucher is
\* touched only when the model's free tier is used up.
FreeTierIsConserved ==
  \A m \in Models :
    /\ meter[m].free + meter[m].remaining = FreeTier[m]
    /\ meter[m].voucher > 0 => meter[m].remaining = 0

=============================================================================
