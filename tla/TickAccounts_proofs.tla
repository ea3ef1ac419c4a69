------------------------- MODULE TickAccounts_proofs -------------------------
(***************************************************************************)
(* What TickAccounts promises, for any accounts, grants, opcodes and       *)
(* charges.  A step is ordinary, or opens the body of an EXECUTE_AS, or    *)
(* closes one; each invariant is then a matter of these three.             *)
(***************************************************************************)
EXTENDS TickAccounts, WellFoundedInduction, TLAPS

\* The account that eval starts as is never granted ticks again.
RootOnRecord == Root = executing_as \/ Root \in DOMAIN ticks_for

\* An invocation that has read its formula has been charged for it.
DepthPaid ==
  stack # <<>> => Len(stack) <= spent + (IF Top = Unread THEN 1 ELSE 0)

IInv == TypeOK /\ CallersRestored /\ DepthPaid /\ RootOnRecord

StageOK ==
  /\ stage \in {"running", "failing", "failed", "done"}
  /\ stage \in {"running", "failing"} <=> stack # <<>>

\* A step within one invocation, in the name of one account.
Ordinary ==
  /\ SameRunner
  /\ \E n \in 0 .. ticks_remaining : Incur(n)
  /\ \/ stack' = stack
     \/ stack' = Callers /\ ~IsBody(Top)
     \/ \E f \in Frames :
          /\ ~IsBody(Top) /\ ~IsBody(f)
          /\ f = Unread \/ spent' > spent
          /\ stack' = Append(Callers, f)
     \/ \E f \in Frames :
          /\ ~IsBody(Top) /\ ~IsBody(f) /\ Top # Unread
          /\ stack' = Append(Append(Callers, f), Unread)

Opens ==
  \E runner \in Accounts :
    /\ \E n \in 0 .. ticks_remaining : SwitchToRunner(runner, n)
    /\ ~IsBody(Top) /\ Top # Unread
    /\ stack' = Append(Append(Callers, Body(executing_as, runner)), Unread)

Closes ==
  /\ IsBody(Top)
  /\ SwitchToRunner(Top.caller, 0)
  /\ stack' = Callers

-----------------------------------------------------------------------------
(* Stacks.                                                                 *)

\* The callers of the frame on top are the stack without it.
LEMMA CallersBelow ==
  ASSUME NEW S, stack \in Seq(S), stack # <<>>
  PROVE  /\ Len(stack) \in Nat \ {0}
         /\ Callers \in Seq(S)
         /\ Len(Callers) = Len(stack) - 1
         /\ \A i \in 1 .. Len(stack) - 1 : Callers[i] = stack[i]
         /\ Top \in S
BY DEF Callers, Top

\* What replaces the frame on top.
LEMMA Replaced ==
  ASSUME NEW S, stack \in Seq(S), stack # <<>>, NEW f \in S
  PROVE  /\ Append(Callers, f) \in Seq(S)
         /\ Len(Append(Callers, f)) = Len(stack)
         /\ Append(Callers, f)[Len(stack)] = f
         /\ \A i \in 1 .. Len(stack) - 1 : Append(Callers, f)[i] = stack[i]
BY CallersBelow

\* Who an invocation runs as depends on the frames below it only.
LEMMA SameBelow ==
  ASSUME NEW s, NEW t, NEW n \in Nat, \A i \in 1 .. n : s[i] = t[i],
         NEW account, RunsAs(s, n, account)
  PROVE  RunsAs(t, n, account)
BY DEF RunsAs, IsBody

\* A frame that is no body changes nothing about it.
LEMMA AboveOther ==
  ASSUME NEW s, NEW m \in Nat, NEW n \in Nat, n = m + 1, ~IsBody(s[n]), NEW account
  PROVE  RunsAs(s, n, account) <=> RunsAs(s, m, account)
BY DEF RunsAs, IsBody

\* Above a body, its runner.
LEMMA AboveBody ==
  ASSUME NEW s, NEW n \in Nat \ {0}, IsBody(s[n])
  PROVE  RunsAs(s, n, s[n].runner)
BY DEF RunsAs, IsBody

-----------------------------------------------------------------------------
(* Frames.                                                                 *)

LEMMA FrameShapes ==
  /\ Unread \in Frames /\ ~IsBody(Unread)
  /\ \A op \in Opcodes, left \in 0 .. 2 :
       Operands(op, left) \in Frames /\ ~IsBody(Operands(op, left))
  /\ \A op \in Opcodes \cap CallsInner :
       Inner(op) \in Frames /\ ~IsBody(Inner(op))
  /\ \A caller, runner \in Accounts : Body(caller, runner) \in Frames
<1>1. Unread \in Frames BY DEF Frames
<1>2. \A op \in Opcodes, left \in 0 .. 2 : Operands(op, left) \in Frames BY DEF Frames
<1>3. \A op \in Opcodes \cap CallsInner : Inner(op) \in Frames BY DEF Frames
<1>4. \A caller, runner \in Accounts : Body(caller, runner) \in Frames BY DEF Frames
<1>5. ~IsBody(Unread) BY DEF IsBody, Unread
<1>6. \A op, left : ~IsBody(Operands(op, left)) BY DEF IsBody, Operands
<1>7. \A op : ~IsBody(Inner(op)) BY DEF IsBody, Inner
<1> QED BY <1>1, <1>2, <1>3, <1>4, <1>5, <1>6, <1>7

LEMMA CalledFrame ==
  ASSUME stack \in Seq(Frames), stack # <<>>, NEW f \in Frames,
         stack' = Append(Append(Callers, f), Unread)
  PROVE  /\ stack' \in Seq(Frames)
         /\ Len(stack') = Len(stack) + 1
         /\ stack'[Len(stack)] = f
         /\ stack'[Len(stack) + 1] = Unread
         /\ \A i \in 1 .. Len(stack) - 1 : stack'[i] = stack[i]
<1>1. Unread \in Frames BY FrameShapes
<1>2. PICK c \in Seq(Frames) :
        /\ c = Append(Callers, f)
        /\ Len(c) = Len(stack)
        /\ c[Len(stack)] = f
        /\ \A i \in 1 .. Len(stack) - 1 : c[i] = stack[i]
  BY Replaced
<1>3. stack' = Append(c, Unread) BY <1>2
<1>4. Len(stack) \in Nat \ {0} BY CallersBelow
<1> QED BY <1>1, <1>2, <1>3, <1>4

LEMMA BodyFrame ==
  ASSUME NEW f \in Frames, IsBody(f)
  PROVE  f.caller \in Accounts /\ f.runner \in Accounts /\ f # Unread
BY DEF Frames, Unread, Operands, Inner, Body, IsBody

LEMMA OperandsFrame ==
  ASSUME NEW f \in Frames, f.at = "operands"
  PROVE  /\ ~IsBody(f) /\ f # Unread
         /\ f.op \in Opcodes
         /\ f.left \in 0 .. 2
         /\ f = Operands(f.op, f.left)
BY DEF Frames, Unread, Operands, Inner, Body, IsBody

-----------------------------------------------------------------------------
(* The three kinds of steps.                                               *)

LEMMA Kinds ==
  ASSUME TypeOK, Next
  PROVE  stack # <<>> /\ StageOK' /\ (Ordinary \/ Opens \/ Closes)
<1> USE FrameShapes DEF TypeOK
<1>0. /\ stack # <<>> /\ Top \in Frames /\ Callers \in Seq(Frames)
      /\ stage \in {"running", "failing"}
  <2>1. stage \in {"running", "failing"}
    BY DEF Next, ReadFormula, OutOfTicksAtRead, EvaluateOperand, TailCall, Compute,
       EvaluateInner, Refuse, OutOfTicks, ExecuteAs, InnerReturns, BodyReturns,
       Unwind, Ready, Running
  <2> QED BY <2>1, CallersBelow
<1>a. \A f \in Frames : Append(Callers, f) # <<>> BY <1>0
<1>b. \A f \in Frames : Append(Append(Callers, f), Unread) # <<>>
  BY <1>0
<1>c. \A f : Becomes(f) /\ f \in Frames /\ stage = "running" => StageOK'
  BY <1>a DEF Becomes, StageOK
<1>d. \A f : Calls(f) /\ f \in Frames /\ stage = "running" => StageOK'
  BY <1>b DEF Calls, StageOK
<1>e. GiveUp => StageOK' BY <1>0 DEF GiveUp, StageOK
<1>f. Return /\ stage = "running" => StageOK' BY DEF Return, StageOK
<1>g. UNCHANGED <<ticks_remaining, spent>> => \E n \in 0 .. ticks_remaining : Incur(n)
  <2>1. UNCHANGED <<ticks_remaining, spent>> => Incur(0) BY DEF Incur
  <2> QED BY <2>1
<1>h. \A op \in Opcodes : ChargesOf(op) \subseteq Nat
  BY AccountsAssumption DEF ChargesOf
<1>i. \A n \in Nat : Incur(n) => n \in 0 .. ticks_remaining BY DEF Incur
<1>1. CASE ReadFormula
  <2>1. Top = Unread
    BY <1>0, <1>1 DEF ReadFormula, Running, Frames, Unread, Operands, Inner, Body
  <2>2. Incur(1) /\ spent' > spent /\ SameRunner BY <1>1 DEF ReadFormula, Incur
  <2>3. \A op \in Opcodes : OperandCount(op) \in 0 .. 2 BY DEF OperandCount
  <2>4. stage = "running" BY <1>1 DEF ReadFormula, Running
  <2>5. CASE GiveUp BY <1>0, <1>e, <1>i, <2>2, <2>5 DEF Ordinary, GiveUp
  <2>6. CASE \E op \in Opcodes : Becomes(Operands(op, OperandCount(op)))
    <3>1. PICK op \in Opcodes : Becomes(Operands(op, OperandCount(op))) BY <2>6
    <3>2. Operands(op, OperandCount(op)) \in Frames /\ ~IsBody(Operands(op, OperandCount(op)))
      BY <2>3
    <3> QED BY <1>c, <1>i, <2>1, <2>2, <2>4, <3>1, <3>2 DEF Ordinary, Becomes
  <2> QED BY <1>1, <2>5, <2>6 DEF ReadFormula
<1>2. CASE OutOfTicksAtRead
  BY <1>0, <1>2, <1>e, <1>g DEF OutOfTicksAtRead, Ordinary, GiveUp, SameRunner
<1>3. CASE EvaluateOperand
  <2> DEFINE f == [Top EXCEPT !.left = @ - 1]
  <2>1. Running("operands") /\ Top.left > 0 /\ Calls(f) BY <1>3 DEF EvaluateOperand
  <2>2. ~IsBody(Top) /\ Top # Unread /\ Top.op \in Opcodes /\ Top.left \in 1 .. 2
        /\ Top = Operands(Top.op, Top.left)
    BY <1>0, <2>1, OperandsFrame DEF Running
  <2>3. f = Operands(Top.op, Top.left - 1) BY <2>2 DEF Operands
  <2>4. f \in Frames /\ ~IsBody(f) BY <2>2, <2>3
  <2> QED BY <1>3, <1>d, <1>g, <2>1, <2>2, <2>4
        DEF EvaluateOperand, Ordinary, Calls, SameRunner, Running
<1>4. CASE TailCall
  <2>1. ~IsBody(Top) /\ stage = "running"
    BY <1>0, <1>4, OperandsFrame DEF TailCall, Ready, Running
  <2> QED BY <1>4, <1>c, <1>g, <2>1 DEF TailCall, Ordinary, Becomes, SameRunner
<1>5. ASSUME NEW op \in Opcodes, Compute(op)
      PROVE  StageOK' /\ Ordinary
  <2>1. ~IsBody(Top) /\ stage = "running"
    BY <1>0, <1>5, OperandsFrame DEF Compute, Ready, Running
  <2>2. PICK n \in ChargesOf(op) : Incur(n) BY <1>5 DEF Compute
  <2> QED BY <1>5, <1>f, <1>h, <1>i, <2>1, <2>2 DEF Compute, Ordinary, Return
<1>6. ASSUME NEW op \in Opcodes, EvaluateInner(op)
      PROVE  StageOK' /\ Ordinary
  <2>1. ~IsBody(Top) /\ Top # Unread /\ stage = "running"
    BY <1>0, <1>6, OperandsFrame DEF EvaluateInner, Ready, Running
  <2>2. PICK n \in ChargesOf(op) : Incur(n) BY <1>6 DEF EvaluateInner
  <2>3. Inner(op) \in Frames /\ ~IsBody(Inner(op)) BY <1>6 DEF EvaluateInner
  <2> QED BY <1>6, <1>d, <1>h, <1>i, <2>1, <2>2, <2>3 DEF EvaluateInner, Ordinary, Calls
<1>7. ASSUME NEW op \in Opcodes, Refuse(op)
      PROVE  StageOK' /\ Ordinary
  <2>1. \E n \in Nat : Incur(n) BY <1>7, <1>h DEF Refuse
  <2> QED BY <1>7, <1>e, <1>i, <2>1 DEF Refuse, Ordinary, GiveUp
<1>8. ASSUME NEW op \in Opcodes, OutOfTicks(op)
      PROVE  StageOK' /\ Ordinary
  <2>1. \E n \in Nat : Incur(n) BY <1>8 DEF OutOfTicks
  <2> QED BY <1>8, <1>e, <1>i, <2>1 DEF OutOfTicks, Ordinary, GiveUp
<1>9. ASSUME NEW runner \in Accounts, ExecuteAs(runner)
      PROVE  StageOK' /\ Opens
  <2>1. ~IsBody(Top) /\ Top # Unread /\ stage = "running" /\ "EXECUTE_AS" \in Opcodes
    BY <1>0, <1>9, OperandsFrame DEF ExecuteAs, Ready, Running
  <2>2. PICK n \in ChargesOf("EXECUTE_AS") : SwitchToRunner(runner, n) BY <1>9 DEF ExecuteAs
  <2>3. n \in 0 .. ticks_remaining BY <1>h, <2>1, <2>2 DEF SwitchToRunner
  <2>4. Body(executing_as, runner) \in Frames OBVIOUS
  <2> QED BY <1>9, <1>d, <2>1, <2>2, <2>3, <2>4 DEF ExecuteAs, Opens, Calls
<1>10. CASE InnerReturns
  <2>1. ~IsBody(Top) /\ stage = "running" BY <1>10 DEF InnerReturns, Running, IsBody
  <2> QED BY <1>10, <1>e, <1>f, <1>g, <2>1
        DEF InnerReturns, Ordinary, Return, GiveUp, SameRunner
<1>11. CASE BodyReturns
  BY <1>11, <1>f DEF BodyReturns, Closes, Return, Running, IsBody
<1>12. CASE Unwind
  <2>1. StageOK' BY <1>12 DEF Unwind, StageOK
  <2>2. CASE IsBody(Top) BY <1>12, <2>1, <2>2 DEF Unwind, Closes, IsBody
  <2>3. CASE ~IsBody(Top)
    BY <1>12, <1>g, <2>1, <2>3 DEF Unwind, Ordinary, IsBody, SameRunner
  <2> QED BY <2>2, <2>3
<1> QED BY <1>0, <1>1, <1>2, <1>3, <1>4, <1>5, <1>6, <1>7, <1>8, <1>9, <1>10, <1>11, <1>12
      DEF Next

-----------------------------------------------------------------------------
(* Types.                                                                  *)

\* What switch_to_runner leaves behind are balances of accounts.
LEMMA SwitchTypes ==
  ASSUME TypeOK, NEW runner \in Accounts, NEW n \in 0 .. ticks_remaining,
         SwitchToRunner(runner, n)
  PROVE  /\ ticks_remaining' \in Nat
         /\ executing_as' = runner
         /\ DOMAIN ticks_for' = DOMAIN ticks_for \cup {executing_as, runner}
         /\ ticks_for' \in [DOMAIN ticks_for' -> Nat]
         /\ spent' = spent + n
<1> DEFINE D == DOMAIN ticks_for \cup {executing_as, runner}
<1>1. \A a \in D : OnRecord(runner, ticks_remaining - n)[a] \in Nat
  <2>1. D \subseteq Accounts BY DEF TypeOK
  <2>2. \A a \in D : Grants[a] \in Nat BY <2>1, AccountsAssumption
  <2>3. \A a \in DOMAIN ticks_for : ticks_for[a] \in Nat BY DEF TypeOK
  <2>4. ticks_remaining - n \in Nat BY DEF TypeOK
  <2> QED BY <2>2, <2>3, <2>4 DEF OnRecord
<1>2. OnRecord(runner, ticks_remaining - n) \in [D -> Nat] BY <1>1 DEF OnRecord
<1> QED BY <1>2 DEF SwitchToRunner

LEMMA TypeStep ==
  ASSUME TypeOK, StageOK', Ordinary \/ Opens \/ Closes, stack # <<>>
  PROVE  TypeOK'
<1>0. stack \in Seq(Frames) /\ Top \in Frames /\ Callers \in Seq(Frames)
  BY CallersBelow DEF TypeOK
<1>4. ASSUME NEW runner \in Accounts, NEW n \in 0 .. ticks_remaining,
             SwitchToRunner(runner, n), stack' \in Seq(Frames)
      PROVE  TypeOK'
  <2>1. /\ ticks_remaining' \in Nat
        /\ executing_as' = runner
        /\ DOMAIN ticks_for' = DOMAIN ticks_for \cup {executing_as, runner}
        /\ ticks_for' \in [DOMAIN ticks_for' -> Nat]
        /\ spent' = spent + n
    BY <1>4, SwitchTypes
  <2>2. DOMAIN ticks_for' \subseteq Accounts BY <2>1 DEF TypeOK
  <2>3. spent' \in Nat BY <2>1 DEF TypeOK
  <2> QED BY <1>4, <2>1, <2>2, <2>3 DEF TypeOK, StageOK
<1>1. CASE Ordinary
  <2>1. ticks_remaining' \in Nat /\ spent' \in Nat BY <1>1 DEF Ordinary, Incur, TypeOK
  <2>2. stack' \in Seq(Frames)
    <3>1. ASSUME NEW f \in Frames, stack' = Append(Append(Callers, f), Unread)
          PROVE  stack' \in Seq(Frames)
      BY <1>0, <3>1, CalledFrame
    <3>2. ASSUME NEW f \in Frames, stack' = Append(Callers, f)
          PROVE  stack' \in Seq(Frames)
      BY <1>0, <3>2
    <3> QED BY <1>0, <1>1, <3>1, <3>2 DEF Ordinary
  <2> QED BY <1>1, <2>1, <2>2 DEF Ordinary, SameRunner, TypeOK, StageOK
<1>2. CASE Opens
  <2>1. PICK runner \in Accounts, n \in 0 .. ticks_remaining :
          /\ SwitchToRunner(runner, n)
          /\ stack' = Append(Append(Callers, Body(executing_as, runner)), Unread)
    BY <1>2 DEF Opens
  <2>2. Body(executing_as, runner) \in Frames BY FrameShapes DEF TypeOK
  <2>3. stack' \in Seq(Frames) BY <1>0, <2>1, <2>2, CalledFrame
  <2> QED BY <1>4, <2>1, <2>3
<1>3. CASE Closes
  <2>1. Top.caller \in Accounts BY <1>0, <1>3, BodyFrame DEF Closes
  <2>2. 0 \in 0 .. ticks_remaining BY DEF TypeOK
  <2> QED BY <1>0, <1>3, <1>4, <2>1, <2>2 DEF Closes
<1> QED BY <1>1, <1>2, <1>3

-----------------------------------------------------------------------------
(* The callers.                                                            *)

\* The brackets still match after a step of any kind.
LEMMA CallersStep ==
  ASSUME TypeOK, CallersRestored, TypeOK', Ordinary \/ Opens \/ Closes, stack # <<>>
  PROVE  CallersRestored'
<1> DEFINE n == Len(stack)
<1>0. /\ stack \in Seq(Frames) /\ stack' \in Seq(Frames)
      /\ Top \in Frames /\ Top = stack[n] /\ n \in Nat \ {0} /\ n - 1 \in Nat
      /\ Len(Callers) = n - 1 /\ \A i \in 1 .. n - 1 : Callers[i] = stack[i]
  BY CallersBelow DEF TypeOK, Top
<1>1. RunsAs(stack, n, executing_as) BY DEF CallersRestored
<1>2. ~IsBody(Top) => RunsAs(stack, n - 1, executing_as)
  BY <1>0, <1>1, AboveOther
<1>3. ASSUME \A i \in 1 .. n - 1 : stack'[i] = stack[i], NEW account,
             RunsAs(stack, n - 1, account)
      PROVE  RunsAs(stack', n - 1, account)
  BY <1>0, <1>3, SameBelow
<1>b. ASSUME \A i \in 1 .. n - 1 : stack'[i] = stack[i]
      PROVE  \A i \in 1 .. n - 1 :
               IsBody(stack'[i]) => RunsAs(stack', i - 1, stack'[i].caller)
  <2> SUFFICES ASSUME NEW i \in 1 .. n - 1, IsBody(stack'[i])
               PROVE  RunsAs(stack', i - 1, stack'[i].caller)
    OBVIOUS
  <2>1. IsBody(stack[i]) /\ i \in DOMAIN stack /\ i - 1 \in Nat BY <1>0, <1>b
  <2>2. RunsAs(stack, i - 1, stack[i].caller) BY <2>1 DEF CallersRestored
  <2>3. \A j \in 1 .. i - 1 : stack[j] = stack'[j] BY <1>0, <1>b
  <2>4. RunsAs(stack', i - 1, stack[i].caller) BY <2>1, <2>2, <2>3, SameBelow
  <2> QED BY <1>b, <2>4
<1>c. ASSUME NEW l \in Nat, NEW m \in Nat, m = l + 1, ~IsBody(stack'[m]),
             RunsAs(stack', l, executing_as')
      PROVE  RunsAs(stack', m, executing_as')
  BY <1>c, AboveOther
<1>4. CASE Ordinary /\ stack' = stack
  BY <1>4 DEF Ordinary, SameRunner, CallersRestored
<1>5. CASE Ordinary /\ stack' = Callers /\ ~IsBody(Top)
  <2>1. \A i \in 1 .. n - 1 : stack'[i] = stack[i] BY <1>0, <1>5
  <2>2. Len(stack') = n - 1 /\ DOMAIN stack' = 1 .. n - 1 BY <1>0, <1>5
  <2>3. RunsAs(stack', n - 1, executing_as') BY <1>2, <1>3, <1>5, <2>1 DEF Ordinary, SameRunner
  <2>4. \A i \in 1 .. n - 1 : IsBody(stack'[i]) => RunsAs(stack', i - 1, stack'[i].caller)
    BY <1>b, <2>1
  <2> QED BY <2>2, <2>3, <2>4 DEF CallersRestored
<1>6. ASSUME Ordinary, NEW f \in Frames, ~IsBody(Top), ~IsBody(f),
             stack' = Append(Callers, f)
      PROVE  CallersRestored'
  <2>1. \A i \in 1 .. n - 1 : stack'[i] = stack[i] BY <1>0, <1>6, Replaced
  <2>2. Len(stack') = n /\ DOMAIN stack' = 1 .. n /\ stack'[n] = f
    BY <1>0, <1>6, Replaced
  <2>3. RunsAs(stack', n - 1, executing_as') BY <1>2, <1>3, <1>6, <2>1 DEF Ordinary, SameRunner
  <2>4. RunsAs(stack', n, executing_as') BY <1>0, <1>c, <1>6, <2>2, <2>3
  <2>5. \A i \in 1 .. n - 1 : IsBody(stack'[i]) => RunsAs(stack', i - 1, stack'[i].caller)
    BY <1>b, <2>1
  <2> QED BY <1>0, <1>6, <2>2, <2>4, <2>5 DEF CallersRestored
<1>7. ASSUME NEW f \in Frames, ~IsBody(Top), stack' = Append(Append(Callers, f), Unread),
             RunsAs(stack', n, executing_as'),
             IsBody(f) => f.caller = executing_as
      PROVE  CallersRestored'
  <2>1. /\ \A i \in 1 .. n - 1 : stack'[i] = stack[i]
        /\ Len(stack') = n + 1 /\ DOMAIN stack' = 1 .. n + 1
        /\ stack'[n] = f /\ stack'[n + 1] = Unread
    <3>1. Len(stack') = n + 1 BY <1>0, <1>7, CalledFrame
    <3>2. DOMAIN stack' = 1 .. n + 1 BY <1>0, <3>1
    <3> QED BY <1>0, <1>7, <3>1, <3>2, CalledFrame
  <2>2. RunsAs(stack', n + 1, executing_as')
    <3>1. ~IsBody(stack'[n + 1]) BY <2>1, FrameShapes
    <3>2. n \in Nat /\ n + 1 \in Nat BY <1>0
    <3> QED BY <1>c, <1>7, <3>1, <3>2
  <2>3. RunsAs(stack', n - 1, executing_as) BY <1>2, <1>3, <1>7, <2>1
  <2>4. \A i \in 1 .. n - 1 : IsBody(stack'[i]) => RunsAs(stack', i - 1, stack'[i].caller)
    BY <1>b, <2>1
  <2>5. IsBody(stack'[n]) => RunsAs(stack', n - 1, stack'[n].caller)
    BY <1>7, <2>1, <2>3
  <2>6. ~IsBody(stack'[n + 1]) BY <2>1, FrameShapes
  <2>7. \A i \in 1 .. n + 1 : i \in 1 .. n - 1 \/ i = n \/ i = n + 1 BY <1>0
  <2> QED BY <2>1, <2>2, <2>4, <2>5, <2>6, <2>7 DEF CallersRestored
<1>8. ASSUME Ordinary, NEW f \in Frames, ~IsBody(Top), ~IsBody(f),
             stack' = Append(Append(Callers, f), Unread)
      PROVE  CallersRestored'
  <2>1. (\A i \in 1 .. n - 1 : stack'[i] = stack[i]) /\ stack'[n] = f
    BY <1>0, <1>8, CalledFrame
  <2>2. RunsAs(stack', n - 1, executing_as') BY <1>2, <1>3, <1>8, <2>1 DEF Ordinary, SameRunner
  <2>3. RunsAs(stack', n, executing_as')
    <3>1. ~IsBody(stack'[n]) /\ n = (n - 1) + 1 /\ n \in Nat BY <1>0, <1>8, <2>1
    <3> QED BY <1>0, <1>c, <2>2, <3>1
  <2> QED BY <1>7, <1>8, <2>3
<1>9. CASE Opens
  <2>1. PICK runner \in Accounts :
          /\ executing_as' = runner /\ ~IsBody(Top)
          /\ stack' = Append(Append(Callers, Body(executing_as, runner)), Unread)
    BY <1>9 DEF Opens, SwitchToRunner
  <2> DEFINE f == Body(executing_as, runner)
  <2>2. f \in Frames BY FrameShapes DEF TypeOK
  <2>3. IsBody(f) /\ f.runner = runner /\ f.caller = executing_as BY DEF Body, IsBody
  <2>4. stack'[n] = f BY <1>0, <2>1, <2>2, CalledFrame
  <2>5. RunsAs(stack', n, runner) BY <1>0, <2>3, <2>4, AboveBody
  <2> QED BY <1>7, <2>1, <2>2, <2>3, <2>5
<1>10. CASE Closes
  <2>1. \A i \in 1 .. n - 1 : stack'[i] = stack[i] BY <1>0, <1>10 DEF Closes
  <2>2. Len(stack') = n - 1 /\ DOMAIN stack' = 1 .. n - 1 BY <1>0, <1>10 DEF Closes
  <2>3. executing_as' = stack[n].caller /\ IsBody(stack[n])
    BY <1>0, <1>10 DEF Closes, SwitchToRunner
  <2>4. RunsAs(stack, n - 1, stack[n].caller) BY <1>0, <2>3 DEF CallersRestored
  <2>5. RunsAs(stack', n - 1, executing_as') BY <1>3, <2>1, <2>3, <2>4
  <2>6. \A i \in 1 .. n - 1 : IsBody(stack'[i]) => RunsAs(stack', i - 1, stack'[i].caller)
    BY <1>b, <2>1
  <2> QED BY <2>2, <2>5, <2>6 DEF CallersRestored
<1> QED BY <1>4, <1>5, <1>6, <1>8, <1>9, <1>10 DEF Ordinary

-----------------------------------------------------------------------------
(* The depth of the stack.                                                 *)

LEMMA DepthStep ==
  ASSUME TypeOK, DepthPaid, TypeOK', Ordinary \/ Opens \/ Closes, stack # <<>>
  PROVE  DepthPaid'
<1> DEFINE n == Len(stack)
<1>0. /\ stack \in Seq(Frames) /\ n \in Nat \ {0} /\ Len(Callers) = n - 1
      /\ spent \in Nat /\ spent' \in Nat /\ Top' = stack'[Len(stack')]
      /\ Top \in Frames
  BY CallersBelow DEF TypeOK, Top
<1>1. n <= spent + 1 /\ (Top # Unread => n <= spent) BY <1>0 DEF DepthPaid
<1>2. spent' >= spent
  <2>1. CASE Ordinary BY <1>0, <2>1 DEF Ordinary, Incur, TypeOK
  <2>2. CASE Opens BY <1>0, <2>2 DEF Opens, SwitchToRunner, TypeOK
  <2>3. CASE Closes BY <1>0, <2>3 DEF Closes, SwitchToRunner, TypeOK
  <2> QED BY <2>1, <2>2, <2>3
<1>3. CASE stack' = stack BY <1>0, <1>2, <1>3 DEF DepthPaid, Top
<1>4. CASE stack' = Callers
  <2>1. Len(stack') = n - 1 BY <1>0, <1>4
  <2> QED BY <1>0, <1>1, <1>2, <2>1 DEF DepthPaid
<1>5. ASSUME NEW f \in Frames, f = Unread \/ spent' > spent, stack' = Append(Callers, f)
      PROVE  DepthPaid'
  <2>1. Len(stack') = n /\ stack'[n] = f BY <1>0, <1>5, Replaced
  <2> QED BY <1>0, <1>1, <1>2, <1>5, <2>1 DEF DepthPaid
<1>6. ASSUME NEW f \in Frames, Top # Unread, stack' = Append(Append(Callers, f), Unread)
      PROVE  DepthPaid'
  <2>1. Len(stack') = n + 1 /\ stack'[n + 1] = Unread
    BY <1>0, <1>6, CalledFrame
  <2> QED BY <1>0, <1>1, <1>2, <1>6, <2>1 DEF DepthPaid
<1>7. \A runner \in Accounts : Body(executing_as, runner) \in Frames
  BY FrameShapes DEF TypeOK
<1> QED BY <1>3, <1>4, <1>5, <1>6, <1>7 DEF Ordinary, Opens, Closes

-----------------------------------------------------------------------------
(* The ledger.                                                             *)

LEMMA RootStep ==
  ASSUME TypeOK, RootOnRecord, Ordinary \/ Opens \/ Closes, stack # <<>>
  PROVE  RootOnRecord'
<1>1. ASSUME NEW runner \in Accounts, NEW n \in 0 .. ticks_remaining,
             SwitchToRunner(runner, n)
      PROVE  RootOnRecord'
  BY <1>1, SwitchTypes DEF RootOnRecord
<1>2. CASE Ordinary BY <1>2 DEF Ordinary, SameRunner, RootOnRecord
<1>3. CASE Opens BY <1>1, <1>3 DEF Opens
<1>4. CASE Closes
  <2>1. Top.caller \in Accounts BY <1>4, CallersBelow, BodyFrame DEF Closes, TypeOK
  <2>2. 0 \in 0 .. ticks_remaining BY DEF TypeOK
  <2> QED BY <1>1, <1>4, <2>1, <2>2 DEF Closes
<1> QED BY <1>2, <1>3, <1>4

\* Whoever takes over, the balances are those of before less what was charged.
LEMMA SwitchCharges ==
  ASSUME TypeOK, RootOnRecord, NEW runner \in Accounts, NEW n \in 0 .. ticks_remaining,
         SwitchToRunner(runner, n)
  PROVE  Ledger!Next
<1>1. executing_as \in Accounts /\ ticks_remaining \in Nat BY DEF TypeOK
<1>2. Balance[executing_as] = ticks_remaining BY <1>1 DEF Balance
<1>3. /\ DOMAIN ticks_for' = DOMAIN ticks_for \cup {executing_as, runner}
      /\ executing_as' = runner /\ spent' = spent + n
      /\ ticks_remaining' = ticks_for'[runner]
      /\ ticks_for' = OnRecord(runner, ticks_remaining - n)
  BY SwitchTypes DEF SwitchToRunner
<1>4. ASSUME NEW a \in Accounts
      PROVE  Balance'[a] = IF a = executing_as THEN Balance[a] - n ELSE Balance[a]
  <2>1. Balance'[a] = IF a \in DOMAIN ticks_for' THEN ticks_for'[a] ELSE Allowance[a]
    BY <1>3 DEF Balance, Allowance
  <2>2. CASE a = executing_as
    BY <1>2, <1>3, <2>1, <2>2 DEF OnRecord
  <2>3. CASE a # executing_as /\ a \in DOMAIN ticks_for
    BY <1>3, <2>1, <2>3 DEF OnRecord, Balance
  <2>4. CASE a # executing_as /\ a \notin DOMAIN ticks_for /\ a = runner
    <3>1. a # Root BY <2>4 DEF RootOnRecord
    <3>2. Balance'[a] = Grants[a] BY <1>3, <2>1, <2>4 DEF OnRecord
    <3>3. Balance[a] = Grants[a] BY <2>4, <3>1 DEF Balance, Allowance
    <3> QED BY <2>4, <3>2, <3>3
  <2>5. CASE a # executing_as /\ a \notin DOMAIN ticks_for /\ a # runner
    BY <1>3, <2>1, <2>5 DEF Balance
  <2> QED BY <2>2, <2>3, <2>4, <2>5
<1>5. Balance' = [Balance EXCEPT ![executing_as] = @ - n]
  BY <1>1, <1>4 DEF Balance
<1> QED BY <1>2, <1>3, <1>5 DEF Ledger!Next, Ledger!Charge

LEMMA LedgerStep ==
  ASSUME TypeOK, RootOnRecord, Ordinary \/ Opens \/ Closes, stack # <<>>
  PROVE  Ledger!Next
<1>1. CASE Ordinary
  <2>1. PICK n \in 0 .. ticks_remaining :
          ticks_remaining' = ticks_remaining - n /\ spent' = spent + n
    BY <1>1 DEF Ordinary, Incur
  <2>2. UNCHANGED <<executing_as, ticks_for>> BY <1>1 DEF Ordinary, SameRunner
  <2>3. executing_as \in Accounts BY DEF TypeOK
  <2>4. Balance[executing_as] = ticks_remaining BY <2>3 DEF Balance
  <2>5. \A a \in Accounts :
          Balance'[a] = IF a = executing_as THEN Balance[a] - n ELSE Balance[a]
    BY <2>1, <2>2, <2>4 DEF Balance
  <2>6. Balance' = [Balance EXCEPT ![executing_as] = @ - n] BY <2>3, <2>5 DEF Balance
  <2> QED BY <2>1, <2>2, <2>3, <2>4, <2>6 DEF Ledger!Next, Ledger!Charge
<1>2. CASE Opens BY <1>2, SwitchCharges DEF Opens
<1>3. CASE Closes
  <2>1. Top.caller \in Accounts BY <1>3, CallersBelow, BodyFrame DEF Closes, TypeOK
  <2>2. 0 \in 0 .. ticks_remaining BY DEF TypeOK
  <2> QED BY <1>3, <2>1, <2>2, SwitchCharges DEF Closes
<1> QED BY <1>1, <1>2, <1>3

-----------------------------------------------------------------------------
(* The theorems.                                                           *)

LEMMA InitInvariant == Init => IInv
<1> SUFFICES ASSUME Init PROVE IInv
  OBVIOUS
<1>1. stack = <<Unread>> /\ Len(stack) = 1 /\ stack[1] = Unread /\ stack # <<>>
  BY DEF Init
<1>2. TypeOK
  BY <1>1, FrameShapes, AccountsAssumption DEF Init, TypeOK
<1>3. CallersRestored
  BY <1>1, FrameShapes DEF Init, CallersRestored, RunsAs
<1>4. DepthPaid BY <1>1 DEF Init, DepthPaid, Top
<1> QED BY <1>2, <1>3, <1>4 DEF Init, IInv, RootOnRecord

LEMMA StepInvariant == IInv /\ [Next]_vars => IInv'
<1> SUFFICES ASSUME IInv, [Next]_vars PROVE IInv'
  OBVIOUS
<1>1. CASE Next
  <2>1. stack # <<>> /\ StageOK' /\ (Ordinary \/ Opens \/ Closes)
    BY <1>1, Kinds DEF IInv
  <2>2. TypeOK' BY <2>1, TypeStep DEF IInv
  <2>3. CallersRestored' BY <2>1, <2>2, CallersStep DEF IInv
  <2>4. DepthPaid' BY <2>1, <2>2, DepthStep DEF IInv
  <2>5. RootOnRecord' BY <2>1, RootStep DEF IInv
  <2> QED BY <2>2, <2>3, <2>4, <2>5 DEF IInv
<1>2. CASE UNCHANGED vars
  BY <1>2 DEF vars, IInv, TypeOK, CallersRestored, DepthPaid, RootOnRecord, Top
<1> QED BY <1>1, <1>2

\* The inductive invariant of the evaluator.
THEOREM Invariant == Spec => []IInv
BY InitInvariant, StepInvariant, PTL DEF Spec

\* Stack, accounts and ticks keep their shape, and no count of ticks falls
\* below zero (eval.rs:99-104, ticks.rs:17-20).
THEOREM TypeCorrect == Spec => []TypeOK
<1>1. IInv => TypeOK BY DEF IInv
<1> QED BY <1>1, Invariant, PTL

\* The two calls of switch_to_runner around a body match like brackets, on
\* the way in, on the way out and when an error passes (eval.rs:473-475).
THEOREM RestoresCallers == Spec => []CallersRestored
<1>1. IInv => CallersRestored BY DEF IInv
<1> QED BY <1>1, Invariant, PTL

\* The depth of the native stack is bounded by the ticks spent (eval.rs:224).
THEOREM PaysForDepth == Spec => []DepthPaidFor
<1>1. IInv => DepthPaidFor
  <2> SUFFICES ASSUME IInv PROVE DepthPaidFor
    OBVIOUS
  <2>1. spent \in Nat /\ Len(stack) \in Nat BY DEF IInv, TypeOK
  <2>2. CASE stack = <<>> BY <2>1, <2>2 DEF DepthPaidFor
  <2>3. CASE stack # <<>> BY <2>1, <2>3 DEF IInv, DepthPaid, DepthPaidFor
  <2> QED BY <2>2, <2>3
<1> QED BY <1>1, Invariant, PTL

\* The running count and the map of parked ticks implement TickLedger: no
\* account is granted ticks twice or pays for another (eval.rs:121-132).
THEOREM KeepsLedger == Spec => LedgerKept
<1>1. Init => Ledger!Init
  <2> SUFFICES ASSUME Init PROVE Ledger!Init
    OBVIOUS
  <2>1. \A a \in Accounts : Balance[a] = Allowance[a]
    BY DEF Init, Balance, Allowance
  <2>2. Balance = Allowance BY <2>1 DEF Balance, Allowance
  <2> QED BY <2>2 DEF Init, Ledger!Init
<1>2. IInv /\ [Next]_vars => [Ledger!Next]_(Ledger!vars)
  <2> SUFFICES ASSUME IInv, [Next]_vars PROVE [Ledger!Next]_(Ledger!vars)
    OBVIOUS
  <2>1. CASE Next BY <2>1, Kinds, LedgerStep DEF IInv
  <2>2. CASE UNCHANGED vars BY <2>2 DEF vars, Ledger!vars, Balance
  <2> QED BY <2>1, <2>2
<1> QED BY <1>1, <1>2, Invariant, PTL DEF Spec, LedgerKept, Ledger!Spec

-----------------------------------------------------------------------------
(* How long an evaluation takes.                                           *)

\* s has the sums of the first values of f, up to n of them.
Sums(s, f, n) ==
  /\ s \in [0 .. n -> Int]
  /\ s[0] = 0
  /\ \A k \in 1 .. n : s[k] = s[k - 1] + f[k]

\* A set with zero and with the successor of each of its numbers has them all.
LEMMA Induct ==
  ASSUME NEW T, 0 \in T, \A n \in Nat : n \in T => n + 1 \in T
  PROVE  \A n \in Nat : n \in T
<1> DEFINE R == {ij \in Nat \X Nat : ij[1] < ij[2]}
           Missing == Nat \ T
<1> SUFFICES ASSUME Missing # {} PROVE FALSE
  OBVIOUS
<1>1. IsWellFoundedOn(R, Nat) BY NatLessThanWellFounded DEF OpToRel
<1>2. PICK x \in Missing : \A y \in Missing : ~ (<<y, x>> \in R)
  <2>1. Missing \subseteq Nat
    OBVIOUS
  <2> HIDE DEF R, Missing
  <2> QED BY <1>1, <2>1, WFMin
<1>3. x - 1 \in Nat /\ x - 1 < x BY <1>2
<1>4. x - 1 \in T BY <1>2, <1>3
<1>5. (x - 1) + 1 \in T BY <1>3, <1>4
<1> QED BY <1>2, <1>3, <1>5

\* There are such sums.
LEMMA SumsExist ==
  ASSUME NEW f, NEW n \in Nat, \A i \in 1 .. n : f[i] \in Int
  PROVE  \E s : Sums(s, f, n)
<1> DEFINE T == {k \in Nat : k <= n => \E s : Sums(s, f, k)}
<1>1. 0 \in T
  <2> DEFINE s == [k \in 0 .. 0 |-> 0]
  <2>1. Sums(s, f, 0) BY DEF Sums
  <2> HIDE DEF s
  <2> QED BY <2>1
<1>2. ASSUME NEW k \in Nat, k \in T PROVE k + 1 \in T
  <2> SUFFICES ASSUME k + 1 <= n PROVE \E s : Sums(s, f, k + 1)
    OBVIOUS
  <2>1. PICK s : Sums(s, f, k) BY <1>2
  <2>2. /\ s \in [0 .. k -> Int] /\ s[0] = 0
        /\ \A i \in 1 .. k : s[i] = s[i - 1] + f[i]
    BY <2>1 DEF Sums
  <2> DEFINE t == [i \in 0 .. k + 1 |-> IF i <= k THEN s[i] ELSE s[k] + f[k + 1]]
  <2>3. s[k] \in Int /\ f[k + 1] \in Int BY <2>2
  <2>4. t \in [0 .. k + 1 -> Int] /\ t[0] = 0 BY <2>2, <2>3
  <2>5. ASSUME NEW i \in 1 .. k + 1 PROVE t[i] = t[i - 1] + f[i]
    <3>1. CASE i <= k BY <2>2, <3>1
    <3>2. CASE i = k + 1 BY <3>2
    <3> QED BY <3>1, <3>2
  <2>6. Sums(t, f, k + 1) BY <2>4, <2>5 DEF Sums
  <2> QED BY <2>6
<1>3. n \in T
  <2> HIDE DEF T
  <2> QED BY <1>1, <1>2, Induct
<1> QED BY <1>3

\* Sums of the same values are the same.
LEMMA SumsAgree ==
  ASSUME NEW f, NEW g, NEW n \in Nat, NEW m \in Nat, NEW s, NEW t,
         Sums(s, f, n), Sums(t, g, m),
         NEW l \in Nat, l <= n, l <= m, \A i \in 1 .. l : f[i] = g[i]
  PROVE  s[l] = t[l]
<1> DEFINE T == {k \in Nat : k <= l => s[k] = t[k]}
<1>1. 0 \in T BY DEF Sums
<1>2. ASSUME NEW k \in Nat, k \in T PROVE k + 1 \in T
  <2> SUFFICES ASSUME k + 1 <= l PROVE s[k + 1] = t[k + 1]
    OBVIOUS
  <2>1. k + 1 \in 1 .. n /\ k + 1 \in 1 .. m /\ k + 1 \in 1 .. l
    OBVIOUS
  <2>2. s[k] = t[k] BY <1>2
  <2>3. s[k + 1] = s[(k + 1) - 1] + f[k + 1] BY <2>1 DEF Sums
  <2>4. t[k + 1] = t[(k + 1) - 1] + g[k + 1] BY <2>1 DEF Sums
  <2> QED BY <2>1, <2>2, <2>3, <2>4
<1>3. l \in T
  <2> HIDE DEF T
  <2> QED BY <1>1, <1>2, Induct
<1> QED BY <1>3

\* The last of the sums is the sum.
LEMMA SumIs ==
  ASSUME NEW f, NEW n \in Nat, NEW s, Sums(s, f, n)
  PROVE  Sum(f, n) = s[n]
<1> DEFINE Eq(t) == t = [k \in 0 .. n |-> IF k = 0 THEN 0 ELSE t[k - 1] + f[k]]
           sum == CHOOSE t : Eq(t)
<1>1. Eq(s) BY DEF Sums
<1>2. Eq(sum)
  <2> HIDE DEF Eq
  <2> QED BY <1>1
<1>3. Sum(f, n) = sum[n] BY DEF Sum
<1> HIDE DEF sum
<1> DEFINE T == {k \in Nat : k <= n => sum[k] = s[k]}
<1>4. \A k \in 0 .. n : sum[k] = IF k = 0 THEN 0 ELSE sum[k - 1] + f[k]
  BY <1>2
<1> HIDE DEF Eq
<1>5. 0 \in T BY <1>4 DEF Sums
<1>6. ASSUME NEW k \in Nat, k \in T PROVE k + 1 \in T
  <2> SUFFICES ASSUME k + 1 <= n PROVE sum[k + 1] = s[k + 1]
    OBVIOUS
  <2>1. k + 1 \in 0 .. n /\ k + 1 \in 1 .. n /\ k + 1 # 0 /\ (k + 1) - 1 = k
    OBVIOUS
  <2>2. sum[k] = s[k] BY <1>6
  <2>3. sum[k + 1] = sum[k] + f[k + 1] BY <1>4, <2>1
  <2>4. s[k + 1] = s[k] + f[k + 1] BY <2>1 DEF Sums
  <2> QED BY <2>2, <2>3, <2>4
<1>7. n \in T
  <2> HIDE DEF T
  <2> QED BY <1>5, <1>6, Induct
<1> QED BY <1>3, <1>7

\* A sum is the one without the last value, and that value.
LEMMA SumStep ==
  ASSUME NEW f, NEW n \in Nat, \A i \in 1 .. n : f[i] \in Int
  PROVE  /\ Sum(f, n) \in Int
         /\ n = 0 => Sum(f, n) = 0
         /\ n > 0 => Sum(f, n) = Sum(f, n - 1) + f[n]
<1>1. PICK s : Sums(s, f, n) BY SumsExist
<1>2. Sum(f, n) = s[n] BY <1>1, SumIs
<1>3. s[n] \in Int /\ (n = 0 => s[n] = 0) BY <1>1 DEF Sums
<1>4. ASSUME n > 0 PROVE s[n] = Sum(f, n - 1) + f[n]
  <2>1. n - 1 \in Nat /\ \A i \in 1 .. n - 1 : f[i] \in Int BY <1>4
  <2>2. PICK t : Sums(t, f, n - 1) BY <2>1, SumsExist
  <2>3. Sum(f, n - 1) = t[n - 1] BY <2>1, <2>2, SumIs
  <2>4. s[n - 1] = t[n - 1] BY <1>1, <1>4, <2>1, <2>2, SumsAgree
  <2>5. n \in 1 .. n BY <1>4
  <2>6. s[n] = s[n - 1] + f[n] BY <1>1, <2>5 DEF Sums
  <2> QED BY <2>3, <2>4, <2>6
<1> QED BY <1>2, <1>3, <1>4

\* Equal values have equal sums.
LEMMA SumSame ==
  ASSUME NEW f, NEW g, NEW n \in Nat, \A i \in 1 .. n : f[i] \in Int,
         \A i \in 1 .. n : f[i] = g[i]
  PROVE  Sum(f, n) = Sum(g, n)
<1>1. PICK s : Sums(s, f, n) BY SumsExist
<1>2. \A i \in 1 .. n : g[i] \in Int
  OBVIOUS
<1>3. PICK t : Sums(t, g, n) BY <1>2, SumsExist
<1>4. s[n] = t[n] BY <1>1, <1>3, SumsAgree
<1> QED BY <1>1, <1>3, <1>4, SumIs

\* Values of at least low make a sum of at least low for each.
LEMMA SumAbove ==
  ASSUME NEW f, NEW n \in Nat, NEW low \in Int,
         \A i \in 1 .. n : f[i] \in Int /\ f[i] >= low
  PROVE  Sum(f, n) \in Int /\ Sum(f, n) >= low * n
<1> DEFINE T == {k \in Nat : k <= n => Sum(f, k) >= low * k}
<1>0. \A k \in Nat : k <= n => Sum(f, k) \in Int
  <2> SUFFICES ASSUME NEW k \in Nat, k <= n PROVE Sum(f, k) \in Int
    OBVIOUS
  <2>1. \A i \in 1 .. k : f[i] \in Int
    OBVIOUS
  <2> QED BY <2>1, SumStep
<1>1. 0 \in T
  <2>1. Sum(f, 0) = 0
    <3>1. \A i \in 1 .. 0 : f[i] \in Int
      OBVIOUS
    <3> QED BY <3>1, SumStep
  <2>2. low * 0 = 0
    OBVIOUS
  <2> QED BY <2>1, <2>2
<1>2. ASSUME NEW k \in Nat, k \in T PROVE k + 1 \in T
  <2> SUFFICES ASSUME k + 1 <= n PROVE Sum(f, k + 1) >= low * (k + 1)
    OBVIOUS
  <2>1. \A i \in 1 .. k + 1 : f[i] \in Int
    OBVIOUS
  <2>2. k + 1 \in Nat /\ k + 1 > 0 /\ (k + 1) - 1 = k
    OBVIOUS
  <2>3. Sum(f, k + 1) = Sum(f, k) + f[k + 1] BY <2>1, <2>2, SumStep
  <2>4. Sum(f, k) >= low * k /\ Sum(f, k) \in Int BY <1>0, <1>2
  <2>5. f[k + 1] >= low /\ f[k + 1] \in Int
    OBVIOUS
  <2>6. low * (k + 1) = low * k + low /\ low * k \in Int
    OBVIOUS
  <2> QED BY <2>3, <2>4, <2>5, <2>6
<1>3. n \in T
  <2> HIDE DEF T
  <2> QED BY <1>1, <1>2, Induct
<1> QED BY <1>0, <1>3

\* If one value falls, the sum falls with it.
LEMMA SumLess ==
  ASSUME NEW f, NEW g, NEW n \in Nat, NEW j \in 1 .. n, NEW d \in Int,
         \A i \in 1 .. n : f[i] \in Int,
         \A i \in 1 .. n : g[i] = IF i = j THEN f[i] - d ELSE f[i]
  PROVE  Sum(g, n) = Sum(f, n) - d
<1> DEFINE T == {k \in Nat : j <= k /\ k <= n => Sum(g, k) = Sum(f, k) - d}
<1>1. \A i \in 1 .. n : g[i] \in Int
  OBVIOUS
<1>2. 0 \in T
  OBVIOUS
<1>3. ASSUME NEW k \in Nat, k \in T PROVE k + 1 \in T
  <2> SUFFICES ASSUME j <= k + 1, k + 1 <= n PROVE Sum(g, k + 1) = Sum(f, k + 1) - d
    OBVIOUS
  <2>1. /\ \A i \in 1 .. k + 1 : f[i] \in Int /\ g[i] \in Int
        /\ \A i \in 1 .. k : f[i] \in Int /\ g[i] \in Int
    BY <1>1
  <2>2. k + 1 \in Nat /\ k + 1 > 0 /\ (k + 1) - 1 = k
    OBVIOUS
  <2>3. Sum(f, k + 1) = Sum(f, k) + f[k + 1] /\ Sum(f, k) \in Int
    BY <2>1, <2>2, SumStep
  <2>4. Sum(g, k + 1) = Sum(g, k) + g[k + 1] /\ Sum(g, k) \in Int
    BY <2>1, <2>2, SumStep
  <2>5. CASE j = k + 1
    <3>1. \A i \in 1 .. k : f[i] = g[i] BY <2>5
    <3>2. Sum(f, k) = Sum(g, k) BY <2>1, <3>1, SumSame
    <3>3. g[k + 1] = f[k + 1] - d /\ f[k + 1] \in Int BY <2>5
    <3> QED BY <2>3, <2>4, <3>2, <3>3
  <2>6. CASE j <= k
    <3>1. Sum(g, k) = Sum(f, k) - d BY <1>3, <2>6
    <3>2. g[k + 1] = f[k + 1] /\ f[k + 1] \in Int BY <2>6
    <3> QED BY <2>3, <2>4, <3>1, <3>2
  <2> QED BY <2>5, <2>6
<1>4. n \in T
  <2> HIDE DEF T
  <2> QED BY <1>2, <1>3, Induct
<1> QED BY <1>4

\* What each kind of frame weighs.
LEMMA WeightBounds ==
  /\ \A frame \in Frames : Weight(frame) \in 2 .. 11
  /\ Weight(Unread) = 2
  /\ \A op : \A left \in Int : Weight(Operands(op, left)) = 5 + 3 * left
  /\ \A op : Weight(Inner(op)) = 2
  /\ \A caller, runner : Weight(Body(caller, runner)) = 2
BY DEF Frames, Weight, Unread, Operands, Inner, Body

\* What the frames of a stack weigh.
Weighs(frames) == Sum([i \in DOMAIN frames |-> Weight(frames[i])], Len(frames))

\* Every frame of a stack weighs two at least.
LEMMA WeighsIs ==
  ASSUME NEW frames \in Seq(Frames)
  PROVE  /\ Weighs(frames) \in Int
         /\ Weighs(frames) >= 2 * Len(frames)
<1> DEFINE w == [i \in DOMAIN frames |-> Weight(frames[i])]
<1>1. \A i \in 1 .. Len(frames) : w[i] \in Int /\ w[i] >= 2
  <2> SUFFICES ASSUME NEW i \in 1 .. Len(frames) PROVE w[i] \in Int /\ w[i] >= 2
    OBVIOUS
  <2>1. frames[i] \in Frames /\ w[i] = Weight(frames[i])
    OBVIOUS
  <2> QED BY <2>1, WeightBounds
<1> DEFINE n == Len(frames)
<1>2. n \in Nat /\ 2 \in Int
  OBVIOUS
<1> HIDE DEF n, w
<1>a. \A i \in 1 .. n : w[i] \in Int /\ w[i] >= 2 BY <1>1 DEF n
<1>3. Sum(w, n) \in Int /\ Sum(w, n) >= 2 * n BY <1>a, <1>2, SumAbove
<1> QED BY <1>3 DEF Weighs, n, w

\* One frame more weighs as much more as that frame.
LEMMA WeighsMore ==
  ASSUME NEW frames \in Seq(Frames), NEW f \in Frames
  PROVE  Weighs(Append(frames, f)) = Weighs(frames) + Weight(f)
<1> DEFINE n == Len(frames)
           more == Append(frames, f)
           v == [i \in DOMAIN frames |-> Weight(frames[i])]
           w == [i \in DOMAIN more |-> Weight(more[i])]
<1>1. n \in Nat /\ Len(more) = n + 1 /\ DOMAIN more = 1 .. n + 1 /\ DOMAIN frames = 1 .. n
  OBVIOUS
<1>2. more[n + 1] = f /\ \A i \in 1 .. n : more[i] = frames[i]
  OBVIOUS
<1>3. \A i \in 1 .. n : frames[i] \in Frames
  OBVIOUS
<1> HIDE DEF n, more
<1>4. w[n + 1] = Weight(f) /\ \A i \in 1 .. n : w[i] = v[i] /\ v[i] = Weight(frames[i])
  BY <1>1, <1>2
<1>5. \A i \in 1 .. n : v[i] \in Int
  <2> SUFFICES ASSUME NEW i \in 1 .. n PROVE v[i] \in Int
    OBVIOUS
  <2>1. frames[i] \in Frames /\ v[i] = Weight(frames[i]) BY <1>3, <1>4
  <2> HIDE DEF v
  <2>2. Weight(frames[i]) \in 2 .. 11 BY <2>1, WeightBounds
  <2> QED BY <2>1, <2>2
<1>6. Weighs(frames) = Sum(v, n) BY DEF Weighs, n
<1>7. Weighs(more) = Sum(w, n + 1) BY <1>1 DEF Weighs
<1> HIDE DEF v, w
<1>8. Weight(f) \in Int BY WeightBounds
<1>9. \A i \in 1 .. n + 1 : w[i] \in Int
  <2> SUFFICES ASSUME NEW i \in 1 .. n + 1 PROVE w[i] \in Int
    OBVIOUS
  <2>1. i = n + 1 \/ i \in 1 .. n BY <1>1
  <2> QED BY <1>4, <1>5, <1>8, <2>1
<1>10. n + 1 \in Nat /\ n + 1 > 0 /\ (n + 1) - 1 = n BY <1>1
<1>11. Sum(w, n + 1) = Sum(w, n) + w[n + 1] BY <1>9, <1>10, SumStep
<1>12. Sum(v, n) = Sum(w, n)
  <2>1. \A i \in 1 .. n : v[i] = w[i] BY <1>4
  <2> QED BY <1>1, <1>5, <2>1, SumSame
<1> QED BY <1>4, <1>6, <1>7, <1>11, <1>12 DEF more

\* A stack weighs what its callers weigh, and the frame on top.
LEMMA WeighsTop ==
  ASSUME stack \in Seq(Frames), stack # <<>>
  PROVE  /\ Callers \in Seq(Frames) /\ Top \in Frames
         /\ Weighs(stack) = Weighs(Callers) + Weight(Top)
<1>1. Callers \in Seq(Frames) /\ Top \in Frames BY CallersBelow
<1>2. stack = Append(Callers, Top) BY CallersBelow DEF Top
<1>3. Weighs(Append(Callers, Top)) = Weighs(Callers) + Weight(Top)
  BY <1>1, WeighsMore
<1> QED BY <1>1, <1>2, <1>3

\* StepsLeft in terms of Weighs.
LEMMA StepsLeftIs ==
  StepsLeft = IF stage = "failing" THEN Len(stack) ELSE Weighs(stack)
BY DEF StepsLeft, Weighs

-----------------------------------------------------------------------------
(* The four ways a step brings the end, or the next charge, closer.        *)

\* The invocation gives up.
Fails == stage = "running" /\ stage' = "failing" /\ stack' = stack

\* It ends.
Ends ==
  /\ stack' = Callers
  /\ stage = "failing" => stage' \in {"failing", "failed"}
  /\ stage = "running" => stage' \in {"running", "done"}

\* It has less to do, or has been charged.
GoesOn ==
  /\ stage = "running" /\ stage' = "running"
  /\ \E f \in Frames :
       /\ stack' = Append(Callers, f)
       /\ Weight(f) < Weight(Top) + 10 * (spent' - spent)

\* It calls another, and has less to do afterwards.
CallsOn ==
  /\ stage = "running" /\ stage' = "running"
  /\ \E f \in Frames :
       /\ stack' = Append(Append(Callers, f), Unread)
       /\ Weight(f) + 2 < Weight(Top)

\* There is no other way.
LEMMA WaysOn ==
  ASSUME TypeOK, Next
  PROVE  Fails \/ Ends \/ GoesOn \/ CallsOn
<1> USE FrameShapes, WeightBounds DEF TypeOK
<1>0. /\ stack # <<>> /\ Top \in Frames /\ stage \in {"running", "failing"}
      /\ spent \in Nat
  BY Kinds, CallersBelow
<1>t. Top.at = "operands" =>
        /\ Top.op \in Opcodes /\ Top.left \in 0 .. 2
        /\ Top = Operands(Top.op, Top.left)
        /\ Weight(Top) = 5 + 3 * Top.left
  <2> SUFFICES ASSUME Top.at = "operands"
               PROVE  /\ Top.op \in Opcodes /\ Top.left \in 0 .. 2
                      /\ Top = Operands(Top.op, Top.left)
                      /\ Weight(Top) = 5 + 3 * Top.left
    OBVIOUS
  <2>1. Top.op \in Opcodes /\ Top.left \in 0 .. 2 /\ Top = Operands(Top.op, Top.left)
    BY <1>0, OperandsFrame
  <2> QED BY <2>1 DEF Weight
<1>g. GiveUp /\ stage = "running" => Fails BY DEF GiveUp, Fails
<1>r. Return /\ stage = "running" => Ends BY DEF Return, Ends
<1>1. CASE ReadFormula
  <2>1. stage = "running" /\ Top = Unread /\ spent' = spent + 1
    <3>1. stage = "running" /\ Top.at = "unread" /\ Incur(1)
      BY <1>1 DEF ReadFormula, Running
    <3>2. Top = Unread BY <1>0, <3>1 DEF Frames, Unread, Operands, Inner, Body
    <3> QED BY <3>1, <3>2 DEF Incur
  <2>2. CASE GiveUp BY <1>g, <2>1, <2>2
  <2>3. ASSUME NEW op \in Opcodes, Becomes(Operands(op, OperandCount(op)))
        PROVE  GoesOn
    <3>1. OperandCount(op) \in 0 .. 2 BY DEF OperandCount
    <3>2. Operands(op, OperandCount(op)) \in Frames BY <3>1
    <3>3. Weight(Operands(op, OperandCount(op))) = 5 + 3 * OperandCount(op)
      BY <3>1
    <3>4. Weight(Top) = 2 BY <2>1
    <3>5. 5 + 3 * OperandCount(op) < 2 + 10 * (spent' - spent)
      BY <1>0, <2>1, <3>1
    <3> QED BY <2>1, <2>3, <3>2, <3>3, <3>4, <3>5 DEF GoesOn, Becomes
  <2> QED BY <1>1, <2>2, <2>3 DEF ReadFormula
<1>2. CASE OutOfTicksAtRead BY <1>2, <1>g DEF OutOfTicksAtRead, Running
<1>3. CASE EvaluateOperand
  <2> DEFINE f == [Top EXCEPT !.left = @ - 1]
  <2>1. stage = "running" /\ Top.at = "operands" /\ Top.left > 0 /\ Calls(f)
    BY <1>3 DEF EvaluateOperand, Running
  <2>2. f = Operands(Top.op, Top.left - 1) BY <1>t, <2>1 DEF Operands
  <2>3. Top.left - 1 \in 0 .. 2 BY <1>t, <2>1
  <2>4. f \in Frames /\ Weight(f) = 5 + 3 * (Top.left - 1) BY <1>t, <2>1, <2>2, <2>3
  <2> HIDE DEF f
  <2>5. Weight(f) + 2 < Weight(Top) BY <1>t, <2>1, <2>4
  <2> QED BY <2>1, <2>4, <2>5 DEF CallsOn, Calls
<1>s. ASSUME NEW op, Ready(op)
      PROVE  stage = "running" /\ Weight(Top) = 5 /\ op \in Opcodes
  BY <1>t, <1>s DEF Ready, Running
<1>4. CASE TailCall
  <2>1. stage = "running" /\ Weight(Top) = 5 BY <1>4, <1>s DEF TailCall
  <2>2. spent' = spent /\ Becomes(Unread) BY <1>4 DEF TailCall
  <2>3. Weight(Unread) < Weight(Top) + 10 * (spent' - spent) BY <1>0, <2>1, <2>2
  <2> QED BY <2>1, <2>2, <2>3 DEF GoesOn, Becomes
<1>5. ASSUME NEW op \in Opcodes, Compute(op) PROVE Ends
  BY <1>5, <1>r, <1>s DEF Compute
<1>6. ASSUME NEW op \in Opcodes, EvaluateInner(op) PROVE CallsOn
  <2>1. stage = "running" /\ Weight(Top) = 5 BY <1>6, <1>s DEF EvaluateInner
  <2>2. Inner(op) \in Frames /\ Weight(Inner(op)) = 2 BY <1>6 DEF EvaluateInner
  <2>3. Calls(Inner(op)) BY <1>6 DEF EvaluateInner
  <2>4. Weight(Inner(op)) + 2 < Weight(Top) BY <2>1, <2>2
  <2> QED BY <2>1, <2>2, <2>3, <2>4 DEF CallsOn, Calls
<1>7. ASSUME NEW op \in Opcodes, Refuse(op) PROVE Fails
  BY <1>7, <1>g, <1>s DEF Refuse
<1>8. ASSUME NEW op \in Opcodes, OutOfTicks(op) PROVE Fails
  BY <1>8, <1>g, <1>s DEF OutOfTicks
<1>9. ASSUME NEW runner \in Accounts, ExecuteAs(runner) PROVE CallsOn
  <2> DEFINE f == Body(executing_as, runner)
  <2>1. stage = "running" /\ Weight(Top) = 5 BY <1>9, <1>s DEF ExecuteAs
  <2>2. f \in Frames /\ Weight(f) = 2
    OBVIOUS
  <2>3. Calls(f) BY <1>9 DEF ExecuteAs
  <2> HIDE DEF f
  <2>4. Weight(f) + 2 < Weight(Top) BY <2>1, <2>2
  <2> QED BY <2>1, <2>2, <2>3, <2>4 DEF CallsOn, Calls
<1>10. CASE InnerReturns BY <1>10, <1>g, <1>r DEF InnerReturns, Running
<1>11. CASE BodyReturns BY <1>11, <1>r DEF BodyReturns, Running
<1>12. CASE Unwind BY <1>12 DEF Unwind, Ends
<1> QED BY <1>1, <1>2, <1>3, <1>4, <1>5, <1>6, <1>7, <1>8, <1>9, <1>10, <1>11, <1>12
      DEF Next

\* Ticks are never taken back.
LEMMA SpentGrows ==
  ASSUME TypeOK, Next
  PROVE  spent \in Nat /\ spent' \in Nat /\ spent' >= spent
<1>1. Ordinary \/ Opens \/ Closes BY Kinds
<1>2. spent \in Nat /\ ticks_remaining \in Nat BY DEF TypeOK
<1>3. CASE Ordinary BY <1>2, <1>3 DEF Ordinary, Incur
<1>4. CASE Opens BY <1>2, <1>4 DEF Opens, SwitchToRunner
<1>5. CASE Closes BY <1>2, <1>5 DEF Closes, SwitchToRunner
<1> QED BY <1>1, <1>2, <1>3, <1>4, <1>5

\* There is always something left, an end of each invocation at least.
LEMMA ProgressIs ==
  ASSUME TypeOK
  PROVE  /\ StepsLeft \in Nat
         /\ StepsLeft >= Len(stack)
         /\ Progress \in Int
         /\ Progress <= 10 * spent
<1>1. stack \in Seq(Frames) /\ spent \in Nat BY DEF TypeOK
<1>2. Weighs(stack) \in Int /\ Weighs(stack) >= 2 * Len(stack) /\ Len(stack) \in Nat
  BY <1>1, WeighsIs
<1>3. StepsLeft \in Nat /\ StepsLeft >= Len(stack) BY <1>2, StepsLeftIs
<1> QED BY <1>1, <1>3 DEF Progress

\* Arithmetic.
LEMMA Difference ==
  ASSUME NEW a \in Nat, NEW b \in Nat, b >= a
  PROVE  \E d \in Nat : b = a + d /\ b - a = d
<1>1. b - a \in Nat /\ b = a + (b - a)
  OBVIOUS
<1> QED BY <1>1

\* What weighs less than the frame on top and what was charged.
LEMMA Less ==
  ASSUME NEW d \in Nat, NEW callers \in Int, NEW top \in 2 .. 11
  PROVE  /\ callers < callers + top + 10 * d
         /\ \A f \in Int : f < top + 10 * d => callers + f < callers + top + 10 * d
         /\ \A f \in Int : f + 2 < top => callers + f + 2 < callers + top + 10 * d
  OBVIOUS

\* Fewer steps left than were paid for is progress.
LEMMA Further ==
  ASSUME NEW d \in Nat, NEW a \in Nat, NEW b \in Nat, NEW before \in Nat, NEW after \in Nat,
         b = a + d, after < before + 10 * d
  PROVE  10 * b - after > 10 * a - before
  OBVIOUS

\* Every step of the evaluator makes progress.
LEMMA ProgressStep ==
  ASSUME TypeOK, Next, TypeOK'
  PROVE  Progress' > Progress
<1>0. /\ stack \in Seq(Frames) /\ stack # <<>> /\ stage \in {"running", "failing"}
      /\ stack' \in Seq(Frames)
  <2>1. stack # <<>> BY Kinds
  <2> QED BY <2>1 DEF TypeOK
<1>p. spent \in Nat /\ spent' \in Nat /\ spent' >= spent BY SpentGrows
<1>1. PICK d \in Nat : spent' = spent + d /\ spent' - spent = d
  BY <1>p, Difference
<1>2. /\ Callers \in Seq(Frames) /\ Top \in Frames
      /\ Weighs(stack) = Weighs(Callers) + Weight(Top)
  BY <1>0, WeighsTop
<1>3. /\ Weighs(stack) \in Int /\ Weighs(stack) >= 2 * Len(stack)
      /\ Weighs(Callers) \in Int /\ Weighs(Callers) >= 2 * Len(Callers)
  BY <1>0, <1>2, WeighsIs
<1>4. Weight(Top) \in 2 .. 11 BY <1>2, WeightBounds
<1>5. Len(stack) \in Nat /\ Len(stack) > 0 /\ Len(Callers) = Len(stack) - 1
  BY <1>0, CallersBelow
<1>6. StepsLeft = IF stage = "failing" THEN Len(stack) ELSE Weighs(stack)
  BY StepsLeftIs
<1>7. StepsLeft' = IF stage' = "failing" THEN Len(stack') ELSE Weighs(stack')
  BY DEF StepsLeft, Weighs
<1>8. StepsLeft' < StepsLeft + 10 * d
  <2>1. CASE Fails
    <3>1. StepsLeft = Weighs(stack) /\ StepsLeft' = Len(stack)
      BY <1>6, <1>7, <2>1 DEF Fails
    <3> QED BY <1>1, <1>3, <1>5, <3>1
  <2>2. CASE Ends
    <3>1. CASE stage = "running"
      <4>1. StepsLeft = Weighs(stack) /\ StepsLeft' = Weighs(Callers)
        BY <1>6, <1>7, <2>2, <3>1 DEF Ends
      <4>2. Weighs(Callers) < Weighs(Callers) + Weight(Top) + 10 * d BY <1>3, <1>4, Less
      <4> QED BY <1>2, <4>1, <4>2
    <3>2. CASE stage = "failing" /\ stage' = "failing"
      <4>1. StepsLeft = Len(stack) /\ StepsLeft' = Len(Callers)
        BY <1>6, <1>7, <2>2, <3>2 DEF Ends
      <4> QED BY <1>1, <1>5, <4>1
    <3>3. CASE stage = "failing" /\ stage' = "failed"
      <4>1. stack' = <<>> BY <3>3 DEF TypeOK
      <4>2. Len(Callers) = 0 /\ Weighs(stack') = 0
        <5>1. Len(stack') = 0 BY <4>1
        <5>2. Callers = stack' BY <2>2 DEF Ends
        <5> DEFINE w == [i \in DOMAIN stack' |-> Weight(stack'[i])]
        <5>3. \A i \in 1 .. 0 : w[i] \in Int
          OBVIOUS
        <5>4. Sum(w, 0) = 0
          <6> HIDE DEF w
          <6> QED BY <5>3, SumStep
        <5> QED BY <5>1, <5>2, <5>4 DEF Weighs
      <4>3. StepsLeft = Len(stack) /\ StepsLeft' = 0 BY <1>6, <1>7, <3>3, <4>2
      <4> QED BY <1>1, <1>5, <4>3
    <3> QED BY <1>0, <2>2, <3>1, <3>2, <3>3 DEF Ends
  <2>3. CASE GoesOn
    <3>1. PICK f \in Frames : /\ stack' = Append(Callers, f)
                              /\ Weight(f) < Weight(Top) + 10 * d
      BY <1>1, <2>3 DEF GoesOn
    <3>2. Weighs(stack') = Weighs(Callers) + Weight(f) BY <1>2, <3>1, WeighsMore
    <3>3. StepsLeft = Weighs(stack) /\ StepsLeft' = Weighs(stack')
      BY <1>6, <1>7, <2>3 DEF GoesOn
    <3>4. Weight(f) \in Int BY WeightBounds
    <3>5. Weighs(Callers) + Weight(f) < Weighs(Callers) + Weight(Top) + 10 * d
      BY <1>3, <1>4, <3>1, <3>4, Less
    <3> QED BY <1>2, <3>2, <3>3, <3>5
  <2>4. CASE CallsOn
    <3>1. PICK f \in Frames : /\ stack' = Append(Append(Callers, f), Unread)
                              /\ Weight(f) + 2 < Weight(Top)
      BY <2>4 DEF CallsOn
    <3>2. Append(Callers, f) \in Seq(Frames) /\ Unread \in Frames
      BY <1>2, FrameShapes
    <3>3. Weighs(Append(Callers, f)) = Weighs(Callers) + Weight(f)
      BY <1>2, WeighsMore
    <3>4. Weighs(stack') = Weighs(Append(Callers, f)) + Weight(Unread)
      BY <3>1, <3>2, WeighsMore
    <3>5. StepsLeft = Weighs(stack) /\ StepsLeft' = Weighs(stack')
      BY <1>6, <1>7, <2>4 DEF CallsOn
    <3>6. Weight(f) \in Int /\ Weight(Unread) = 2 BY WeightBounds
    <3>7. Weighs(Callers) + Weight(f) + 2 < Weighs(Callers) + Weight(Top) + 10 * d
      BY <1>3, <1>4, <3>1, <3>6, Less
    <3> QED BY <1>2, <3>3, <3>4, <3>5, <3>6, <3>7
  <2> QED BY WaysOn, <2>1, <2>2, <2>3, <2>4
<1>9. StepsLeft \in Nat /\ StepsLeft' \in Nat
  <2>1. StepsLeft \in Nat BY ProgressIs
  <2>2. Weighs(stack') \in Int /\ Weighs(stack') >= 2 * Len(stack') /\ Len(stack') \in Nat
    BY <1>0, WeighsIs
  <2> QED BY <2>1, <2>2, <1>7
<1>10. Progress' = 10 * spent' - StepsLeft' BY DEF Progress
<1>11. 10 * spent' - StepsLeft' > 10 * spent - StepsLeft BY <1>1, <1>p, <1>8, <1>9, Further
<1> QED BY <1>10, <1>11 DEF Progress

\* Every step makes progress: an evaluation cannot go on without charging
\* (eval.rs:224), however long the tail calls and whatever the errors on
\* their way out.
THEOREM StepsAdvance == Spec => StepsPaidFor
<1>1. IInv /\ IInv' /\ [Next]_vars => [Progress' > Progress]_vars
  <2> SUFFICES ASSUME IInv, IInv', Next PROVE Progress' > Progress
    OBVIOUS
  <2> QED BY ProgressStep DEF IInv
<1> QED BY <1>1, Invariant, PTL DEF Spec, StepsPaidFor

-----------------------------------------------------------------------------
(* What there is to spend.                                                 *)

\* The accounts, each at one number.
Lists(listing, count) ==
  /\ count \in Nat
  /\ listing \in [1 .. count -> Accounts]
  /\ \A a \in Accounts : \E i \in 1 .. count : listing[i] = a
  /\ \A i, j \in 1 .. count : listing[i] = listing[j] => i = j

\* What the accounts of a listing have together.
Together(listing, count, balance) == Sum([i \in 1 .. count |-> balance[listing[i]]], count)

\* What has been spent and what is left make up what there was to spend.
Accounted(listing, count) ==
  spent + Together(listing, count, Balance) = Together(listing, count, Allowance)

\* No account is in debt.
LEMMA BalanceType == TypeOK => Balance \in [Accounts -> Nat]
<1> SUFFICES ASSUME TypeOK, NEW a \in Accounts PROVE Balance[a] \in Nat
  BY DEF Balance
<1>1. Allowance[a] \in Nat BY AccountsAssumption DEF Allowance
<1>2. ticks_remaining \in Nat /\ (a \in DOMAIN ticks_for => ticks_for[a] \in Nat)
  BY DEF TypeOK
<1> QED BY <1>1, <1>2 DEF Balance

\* What accounts have together is a number.
LEMMA TogetherType ==
  ASSUME NEW listing, NEW count, Lists(listing, count), NEW balance \in [Accounts -> Nat]
  PROVE  Together(listing, count, balance) \in Nat
<1> DEFINE f == [i \in 1 .. count |-> balance[listing[i]]]
<1>1. \A i \in 1 .. count : f[i] \in Int /\ f[i] >= 0 BY DEF Lists
<1>2. count \in Nat /\ 0 \in Int /\ 0 * count = 0 BY DEF Lists
<1> HIDE DEF f
<1>3. Sum(f, count) \in Int /\ Sum(f, count) >= 0 * count BY <1>1, <1>2, SumAbove
<1>4. Sum(f, count) \in Nat BY <1>2, <1>3
<1> QED BY <1>4 DEF Together, f

\* A charge moves ticks from one account of the listing to what is spent.
LEMMA AccountedStep ==
  ASSUME NEW listing, NEW count, Lists(listing, count), TypeOK, TypeOK',
         Ledger!Next, Accounted(listing, count)
  PROVE  Accounted(listing, count)'
<1>1. PICK n \in 0 .. Balance[executing_as] :
        Balance' = [Balance EXCEPT ![executing_as] = @ - n] /\ spent' = spent + n
  BY DEF Ledger!Next, Ledger!Charge
<1>2. Balance \in [Accounts -> Nat] /\ executing_as \in Accounts /\ spent \in Nat
  BY BalanceType DEF TypeOK
<1>3. n \in Int BY <1>1, <1>2
<1>4. PICK j \in 1 .. count : listing[j] = executing_as BY <1>2 DEF Lists
<1> DEFINE f == [i \in 1 .. count |-> Balance[listing[i]]]
           g == [i \in 1 .. count |-> Balance'[listing[i]]]
<1>5. \A i \in 1 .. count : f[i] \in Int BY <1>2 DEF Lists
<1>6. \A i \in 1 .. count : g[i] = IF i = j THEN f[i] - n ELSE f[i]
  <2> SUFFICES ASSUME NEW i \in 1 .. count
               PROVE  g[i] = IF i = j THEN f[i] - n ELSE f[i]
    OBVIOUS
  <2>1. listing[i] \in Accounts /\ (listing[i] = executing_as <=> i = j)
    BY <1>4 DEF Lists
  <2> QED BY <1>1, <1>2, <1>4, <2>1
<1>7. Together(listing, count, Balance) = Sum(f, count) BY DEF Together
<1>8. Together(listing, count, Balance)' = Sum(g, count) BY DEF Together
<1> HIDE DEF f, g
<1>9. count \in Nat BY DEF Lists
<1>10. Sum(g, count) = Sum(f, count) - n BY <1>3, <1>4, <1>5, <1>6, <1>9, SumLess
<1>11. Sum(f, count) \in Int BY <1>5, <1>9, SumStep
<1>12. Together(listing, count, Allowance)' = Together(listing, count, Allowance)
  BY DEF Together, Allowance
<1> QED BY <1>1, <1>2, <1>3, <1>7, <1>8, <1>10, <1>11, <1>12 DEF Accounted

\* No evaluation spends more than its accounts were granted.
THEOREM SpentIsGranted ==
  ASSUME CONSTANT listing, CONSTANT count, Lists(listing, count)
  PROVE  Spec => []Accounted(listing, count)
<1>1. Init => Accounted(listing, count)
  <2> SUFFICES ASSUME Init PROVE Accounted(listing, count)
    OBVIOUS
  <2>1. \A a \in Accounts : Balance[a] = Allowance[a]
    BY DEF Init, Balance, Allowance
  <2>2. Balance = Allowance BY <2>1 DEF Balance, Allowance
  <2>3. Allowance \in [Accounts -> Nat] BY AccountsAssumption DEF Allowance
  <2>4. Together(listing, count, Allowance) \in Nat BY <2>3, TogetherType
  <2> QED BY <2>2, <2>4 DEF Init, Accounted
<1>2. IInv /\ IInv' /\ Accounted(listing, count) /\ [Next]_vars => Accounted(listing, count)'
  <2> SUFFICES ASSUME IInv, IInv', Accounted(listing, count), [Next]_vars
               PROVE  Accounted(listing, count)'
    OBVIOUS
  <2>1. CASE Next
    <3>1. Ledger!Next BY <2>1, Kinds, LedgerStep DEF IInv
    <3> QED BY <3>1, AccountedStep DEF IInv
  <2>2. CASE UNCHANGED vars
    BY <2>2 DEF vars, Accounted, Together, Balance, Allowance
  <2> QED BY <2>1, <2>2
<1> QED BY <1>1, <1>2, Invariant, PTL DEF Spec

\* The formula that eval is called with is two steps from an end.
LEMMA ProgressAtFirst == Init => Progress = -2
<1> SUFFICES ASSUME Init PROVE Progress = -2
  OBVIOUS
<1>1. stack = <<Unread>> /\ stage = "running" /\ spent = 0 BY DEF Init
<1>2. Callers = <<>> /\ Top = Unread /\ stack # <<>> BY <1>1 DEF Callers, Top
<1>3. stack \in Seq(Frames) BY <1>1, FrameShapes
<1>4. Weighs(stack) = Weighs(Callers) + 2 BY <1>2, <1>3, WeighsTop, WeightBounds
<1>5. Weighs(Callers) = 0
  <2> DEFINE w == [i \in DOMAIN Callers |-> Weight(Callers[i])]
  <2>1. Len(Callers) = 0 BY <1>2
  <2>2. \A i \in 1 .. 0 : w[i] \in Int
    OBVIOUS
  <2>3. Sum(w, 0) = 0
    <3> HIDE DEF w
    <3> QED BY <2>2, SumStep
  <2> QED BY <2>1, <2>3 DEF Weighs
<1>6. StepsLeft = 2 BY <1>1, <1>4, <1>5, StepsLeftIs
<1> QED BY <1>1, <1>6 DEF Progress

\* However formulas nest, call one another and fail, an evaluation takes at
\* most ten steps for each tick that its accounts were granted, and two
\* more: with StepsAdvance, Progress rises at each step from -2 to no more than
\* ten times the ticks.
THEOREM TicksBoundSteps ==
  ASSUME CONSTANT listing, CONSTANT count, Lists(listing, count)
  PROVE  Spec => /\ StepsPaidFor
                 /\ [](Progress \in -2 .. 10 * Together(listing, count, Allowance))
<1> DEFINE Begun == Progress \in Int /\ Progress >= -2
           InRange == Progress \in -2 .. 10 * Together(listing, count, Allowance)
<1>1. Init => Begun BY ProgressAtFirst
<1>2. IInv /\ IInv' /\ Begun /\ [Next]_vars => Begun'
  <2> SUFFICES ASSUME IInv, IInv', Begun, [Next]_vars PROVE Begun'
    OBVIOUS
  <2>1. CASE Next
    <3>1. Progress' > Progress BY <2>1, ProgressStep DEF IInv
    <3>2. Progress' \in Int
      <4>1. TypeOK' BY DEF IInv
      <4>2. spent' \in Nat /\ stack' \in Seq(Frames) BY <4>1 DEF TypeOK
      <4>3. Weighs(stack') \in Int /\ Len(stack') \in Nat BY <4>2, WeighsIs
      <4>4. StepsLeft' \in Int
        BY <4>3 DEF StepsLeft, Weighs
      <4> QED BY <4>2, <4>4 DEF Progress
    <3> QED BY <3>1, <3>2
  <2>2. CASE UNCHANGED vars
    BY <2>2 DEF vars, Progress, StepsLeft
  <2> QED BY <2>1, <2>2
<1>3. IInv /\ Begun /\ Accounted(listing, count) => InRange
  <2> SUFFICES ASSUME IInv, Begun, Accounted(listing, count) PROVE InRange
    OBVIOUS
  <2>1. Balance \in [Accounts -> Nat] BY BalanceType DEF IInv
  <2>2. Allowance \in [Accounts -> Nat] BY AccountsAssumption DEF Allowance
  <2> DEFINE left == Together(listing, count, Balance)
             all == Together(listing, count, Allowance)
  <2>3. left \in Nat /\ all \in Nat BY <2>1, <2>2, TogetherType
  <2>4. spent \in Nat /\ spent + left = all BY DEF IInv, TypeOK, Accounted
  <2>5. Progress <= 10 * spent BY ProgressIs DEF IInv
  <2> HIDE DEF left, all
  <2>6. Progress \in -2 .. 10 * all BY <2>3, <2>4, <2>5
  <2> QED BY <2>6 DEF all
<1> HIDE DEF Begun, InRange
<1>4. Spec => []Begun BY <1>1, <1>2, Invariant, PTL DEF Spec
<1>5. Spec => []InRange BY <1>3, <1>4, Invariant, SpentIsGranted, PTL
<1> QED BY <1>5, StepsAdvance, PTL DEF InRange
=============================================================================
