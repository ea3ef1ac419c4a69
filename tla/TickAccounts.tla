---------------------------- MODULE TickAccounts ----------------------------
(***************************************************************************)
(* The evaluator of formulas (src/vm/src/eval.rs) and its ticks            *)
(* (src/vm/src/ticks.rs).  eval_on charges one tick for each formula that  *)
(* it reads, calls itself for operands, replaces its formula for a tail    *)
(* call, and lets EXECUTE_AS run a body at the expense of another account  *)
(* and in its name.                                                        *)
(*                                                                         *)
(* The values of formulas are left out: any opcode may be read, and an     *)
(* opcode does whatever some operands make it do.  The call stack of       *)
(* eval_on is explicit, one frame for each invocation:                     *)
(*   unread     about to charge for its formula and read it                *)
(*   operands   has read op, and left of its operands are not evaluated    *)
(*   inner      waits for a formula it retrieved or decrypted              *)
(*   body       waits for what it executes as runner, on behalf of caller  *)
(***************************************************************************)
EXTENDS Integers, Sequences

CONSTANTS
  Accounts,    \* the 32-byte keys that formulas are executed as
  Root,        \* the account an evaluation starts as; 32 zero bytes
  Grants,      \* what the engine's ticks_for grants to an account
  TickLimit,   \* tick_limit of eval
  Opcodes,     \* the opcodes of the formulas
  Charges      \* what an opcode may charge besides the tick for reading it

\* The opcodes, by their names in the code, and a cell in place of one.
AllOpcodes == {
  "DISTRIBUTE", "AXIS", "LITERAL", "RECURSE", "IS_CELL", "RESHAPE", "IS_EQUAL",
  "IF", "COMPOSE", "DEFINE", "CALL", "HASH", "STORE_BY_HASH",
  "RETRIEVE_BY_HASH", "STORE_BY_KEY", "RETRIEVE_BY_KEY", "RANDOM",
  "GENERATE_KEYPAIR", "ENCRYPT", "DECRYPT", "EXUCRYPT", "SHAPE", "ADD",
  "INVERT", "XOR", "LESS", "SEND", "EXECUTE_AS"}

ASSUME AccountsAssumption ==
  /\ Root \in Accounts
  /\ Grants \in [Accounts -> Nat]
  /\ TickLimit \in Nat
  /\ Opcodes \subseteq AllOpcodes
  /\ Charges \subseteq Nat

VARIABLES
  stack,
  ticks_remaining,
  executing_as,
  ticks_for,     \* balances of the accounts that are not executing
  stage,         \* running, failing (an error on its way out), failed, done
  spent          \* all the ticks charged, a ghost

vars == <<stack, ticks_remaining, executing_as, ticks_for, stage, spent>>

Unread == [at |-> "unread"]
Operands(op, left) == [at |-> "operands", op |-> op, left |-> left]
Inner(op) == [at |-> "inner", op |-> op]
Body(caller, runner) == [at |-> "body", caller |-> caller, runner |-> runner]

Init ==
  /\ stack = <<Unread>>
  /\ ticks_remaining = TickLimit
  /\ executing_as = Root
  /\ ticks_for = <<>>
  /\ stage = "running"
  /\ spent = 0

-----------------------------------------------------------------------------
(* What an opcode does once it has been read.                              *)

OperandCount(op) ==
  CASE op \in {"AXIS", "LITERAL"} -> 0
    [] op \in {"DISTRIBUTE", "RECURSE"} -> 2
    [] OTHER -> 1

TailCalls == {"RECURSE", "IF", "COMPOSE", "DEFINE", "CALL"}
CallsInner == {"RETRIEVE_BY_HASH", "RETRIEVE_BY_KEY", "EXUCRYPT"}

\* Opcodes whose result costs nothing more.
Free == {"DISTRIBUTE", "AXIS", "LITERAL", "IS_CELL", "STORE_BY_KEY", "RANDOM",
         "ENCRYPT", "SEND", "RETRIEVE_BY_HASH", "RETRIEVE_BY_KEY"} \cup TailCalls

\* Opcodes that charge in several parts, and fail with some of them charged.
ChargesInParts == {"IS_EQUAL", "RESHAPE", "SHAPE", "GENERATE_KEYPAIR",
                   "EXUCRYPT", "EXECUTE_AS"}

\* Opcodes that take any operands there are.
TakesAnything == {"DISTRIBUTE", "LITERAL", "RECURSE", "IS_CELL", "COMPOSE",
                  "DEFINE", "SHAPE", "GENERATE_KEYPAIR"}

\* Opcodes that may find fault with their operands after charging for them.
ChargesFirst == {"RESHAPE", "ADD", "LESS", "XOR", "INVERT", "EXUCRYPT", "EXECUTE_AS"}

ChargesOf(op) == IF op \in Free THEN {0} ELSE Charges

-----------------------------------------------------------------------------
(* The stack, and the accounts.                                            *)

Top == stack[Len(stack)]
Callers == SubSeq(stack, 1, Len(stack) - 1)

Running(at) == stage = "running" /\ Top.at = at

\* An opcode all of whose operands are evaluated.
Ready(op) == Running("operands") /\ Top.left = 0 /\ Top.op = op

\* Fault: a subtraction that is not checked.
IncurUnchecked(n) ==
  /\ ticks_remaining' = ticks_remaining - n
  /\ spent' = spent + n

\* Fault: a subtraction that stops at zero instead of failing.
IncurSaturating(n) ==
  LET charged == IF n <= ticks_remaining THEN n ELSE ticks_remaining
  IN  /\ ticks_remaining' = ticks_remaining - charged
      /\ spent' = spent + charged

\* Ticks::incur
Incur(n) ==
  /\ n <= ticks_remaining
  /\ ticks_remaining' = ticks_remaining - n
  /\ spent' = spent + n

SameRunner == UNCHANGED <<executing_as, ticks_for>>

Return ==
  /\ stack' = Callers
  /\ stage' = IF Callers = <<>> THEN "done" ELSE stage

Becomes(frame) ==
  /\ stack' = Append(Callers, frame)
  /\ UNCHANGED stage

\* eval_on is called, and the frame that calls it waits as frame.
Calls(frame) ==
  /\ stack' = Append(Append(Callers, frame), Unread)
  /\ UNCHANGED stage

GiveUp ==
  /\ stage' = "failing"
  /\ UNCHANGED stack

\* Fault: an account already on record keeps the balance that
\* was put down first.
OnRecordOnce(runner, left) ==
  [a \in DOMAIN ticks_for \cup {executing_as, runner} |->
     CASE a \in DOMAIN ticks_for -> ticks_for[a]
       [] a \notin DOMAIN ticks_for /\ a = executing_as -> left
       [] OTHER -> Grants[a]]

\* The accounts on record when runner takes over and the present one has
\* balance left: the present one is put down, and runner is opened if new.
OnRecord(runner, left) ==
  [a \in DOMAIN ticks_for \cup {executing_as, runner} |->
     CASE a = executing_as -> left
       [] a # executing_as /\ a \in DOMAIN ticks_for -> ticks_for[a]
       [] OTHER -> Grants[a]]

\* switch_to_runner, after n ticks have been charged.
SwitchToRunner(runner, n) ==
  /\ n <= ticks_remaining
  /\ ticks_for' = OnRecord(runner, ticks_remaining - n)
  /\ ticks_remaining' = ticks_for'[runner]
  /\ executing_as' = runner
  /\ spent' = spent + n

-----------------------------------------------------------------------------
(* eval_on                                                                 *)

\* Fault: a cell in place of the opcode is recognized before the tick is
\* charged.
ReadFormulaLate ==
  /\ Running("unread")
  /\ \/ Becomes(Operands("DISTRIBUTE", 2)) /\ Incur(0)
     \/ \E op \in Opcodes \ {"DISTRIBUTE"} :
          Incur(1) /\ Becomes(Operands(op, OperandCount(op)))
     \/ Incur(1) /\ GiveUp
  /\ SameRunner

\* The head of the loop.  An atom is no formula, and some operations check
\* the form of their argument before they evaluate it.
ReadFormula ==
  /\ Running("unread")
  /\ Incur(1)
  /\ \/ \E op \in Opcodes : Becomes(Operands(op, OperandCount(op)))
     \/ GiveUp
  /\ SameRunner

OutOfTicksAtRead ==
  /\ Running("unread")
  /\ ticks_remaining < 1
  /\ GiveUp
  /\ UNCHANGED <<ticks_remaining, executing_as, ticks_for, spent>>

EvaluateOperand ==
  /\ Running("operands")
  /\ Top.left > 0
  /\ Calls([Top EXCEPT !.left = @ - 1])
  /\ UNCHANGED <<ticks_remaining, executing_as, ticks_for, spent>>

\* continue 'tail_recurse
TailCall ==
  /\ \E op \in TailCalls : Ready(op)
  /\ Becomes(Unread)
  /\ UNCHANGED <<ticks_remaining, executing_as, ticks_for, spent>>

\* The other opcodes; the three that may evaluate a formula from elsewhere
\* return without it if there is none.
Compute(op) ==
  /\ Ready(op)
  /\ op \notin TailCalls \cup {"EXECUTE_AS"}
  /\ \E n \in ChargesOf(op) : Incur(n)
  /\ Return
  /\ SameRunner

EvaluateInner(op) ==
  /\ op \in CallsInner
  /\ Ready(op)
  /\ \E n \in ChargesOf(op) : Incur(n)
  /\ Calls(Inner(op))
  /\ SameRunner

\* Operands of the wrong form, or ones the operation fails on.
Refuse(op) ==
  /\ op \notin TakesAnything
  /\ Ready(op)
  /\ \/ Incur(0)
     \/ op \in ChargesFirst /\ \E n \in ChargesOf(op) : Incur(n)
  /\ GiveUp
  /\ SameRunner

OutOfTicks(op) ==
  /\ Ready(op)
  /\ \E n \in ChargesOf(op) : n > ticks_remaining
  /\ IF op \in ChargesInParts
     THEN \E n \in 0 .. ticks_remaining : Incur(n)
     ELSE Incur(0)
  /\ GiveUp
  /\ SameRunner

\* EXECUTE_AS: the key is derived and the body decrypted, which the caller
\* pays for, and the body runs as runner.  Whether the counter is good is the
\* engine's decision; a bad one is refused, like a body of the wrong form.
ExecuteAs(runner) ==
  /\ Ready("EXECUTE_AS")
  /\ \E n \in ChargesOf("EXECUTE_AS") : SwitchToRunner(runner, n)
  /\ Calls(Body(executing_as, runner))

\* What eval_on called has returned a value.
InnerReturns ==
  /\ Running("inner")
  /\ \/ Return
     \/ Top.op = "EXUCRYPT" /\ GiveUp
  /\ UNCHANGED <<ticks_remaining, executing_as, ticks_for, spent>>

BodyReturns ==
  /\ Running("body")
  /\ SwitchToRunner(Top.caller, 0)
  /\ Return

\* Fault: the body's error is passed on before the account is given back.
UnwindAtOnce ==
  /\ stage = "failing"
  /\ stack' = Callers
  /\ stage' = IF Callers = <<>> THEN "failed" ELSE stage
  /\ UNCHANGED <<ticks_remaining, executing_as, ticks_for, spent>>

\* An error leaves one invocation after the other; EXECUTE_AS gives the
\* account back before it passes the error on.
Unwind ==
  /\ stage = "failing"
  /\ IF Top.at = "body"
     THEN SwitchToRunner(Top.caller, 0)
     ELSE UNCHANGED <<ticks_remaining, executing_as, ticks_for, spent>>
  /\ stack' = Callers
  /\ stage' = IF Callers = <<>> THEN "failed" ELSE stage

Next ==
  \/ ReadFormula
  \/ OutOfTicksAtRead
  \/ EvaluateOperand
  \/ TailCall
  \/ \E op \in Opcodes :
       Compute(op) \/ EvaluateInner(op) \/ Refuse(op) \/ OutOfTicks(op)
  \/ \E runner \in Accounts : ExecuteAs(runner)
  \/ InnerReturns
  \/ BodyReturns
  \/ Unwind

Spec == Init /\ [][Next]_vars

\* The evaluator runs on one thread and never waits.
FairSpec == Spec /\ WF_vars(Next)

-----------------------------------------------------------------------------
(* Properties.                                                             *)

Frames ==
  {Unread}
    \cup {Operands(op, left) : op \in Opcodes, left \in 0 .. 2}
    \cup {Inner(op) : op \in Opcodes \cap CallsInner}
    \cup {Body(caller, runner) : caller \in Accounts, runner \in Accounts}

TypeOK ==
  /\ stack \in Seq(Frames)
  /\ stage \in {"running", "failing", "failed", "done"}
  /\ stage \in {"running", "failing"} <=> stack # <<>>
  /\ ticks_remaining \in Nat
  /\ executing_as \in Accounts
  /\ DOMAIN ticks_for \subseteq Accounts
  /\ ticks_for \in [DOMAIN ticks_for -> Nat]
  /\ spent \in Nat

IsBody(frame) == frame.at = "body"

\* In whose name the invocation above the first n frames of a stack runs: the
\* runner of the last EXECUTE_AS among them, or else whoever eval starts as.
RunsAs(frames, n, account) ==
  \/ \E i \in 1 .. n :
       /\ IsBody(frames[i]) /\ frames[i].runner = account
       /\ \A j \in i + 1 .. n : ~IsBody(frames[j])
  \/ account = Root /\ \A i \in 1 .. n : ~IsBody(frames[i])

\* Whatever nests, returns or fails, the evaluator executes as the runner of
\* the innermost EXECUTE_AS that is open, and each EXECUTE_AS gives the
\* account back to the one it took it from: the pairs of switch_to_runner
\* (eval.rs:473-475) match like brackets.
CallersRestored ==
  /\ RunsAs(stack, Len(stack), executing_as)
  /\ \A i \in DOMAIN stack :
       IsBody(stack[i]) => RunsAs(stack, i - 1, stack[i].caller)

\* Every invocation of eval_on that is waiting has been paid for by a tick
\* of its own (eval.rs:224): the native stack is bounded by what the
\* accounts had to spend.
DepthPaidFor == Len(stack) <= spent + 1

\* The sum of the first n values of f.
Sum(f, n) ==
  LET sum[k \in 0 .. n] == IF k = 0 THEN 0 ELSE sum[k - 1] + f[k]
  IN  sum[n]

\* What is still to be done in an invocation before it is charged again: its
\* operands, its result, and passing an error on.
Weight(frame) == IF frame.at = "operands" THEN 5 + 3 * frame.left ELSE 2

\* How many steps the evaluation takes at most before the next charge.
StepsLeft ==
  IF stage = "failing" THEN Len(stack)
  ELSE Sum([i \in DOMAIN stack |-> Weight(stack[i])], Len(stack))

Progress == 10 * spent - StepsLeft

\* No tick pays for more than ten steps: whatever formulas do, jump to and
\* fail at, what eval does is bounded by the ticks it has charged, not only
\* by its end (the charge at the head of the loop, eval.rs:224).
StepsPaidFor == [][Progress' > Progress]_vars

Allowance == [a \in Accounts |-> IF a = Root THEN TickLimit ELSE Grants[a]]

Balance ==
  [a \in Accounts |->
     CASE a = executing_as -> ticks_remaining
       [] a # executing_as /\ a \in DOMAIN ticks_for -> ticks_for[a]
       [] OTHER -> Allowance[a]]

Ledger ==
  INSTANCE TickLedger WITH balance <- Balance, runner <- executing_as

\* The map of parked ticks and the one running count together are a ledger:
\* no account gets spent ticks back, is granted ticks twice, or pays for
\* what another one executes, however bodies nest (eval.rs:121-132).
LedgerKept == Ledger!Spec

\* Every evaluation ends, with a value or an error.
Terminates == <>(stage \in {"done", "failed"})
=============================================================================
