-------------------------- MODULE RegisterVm_proofs --------------------------
(***************************************************************************)
(* What RegisterVm promises, for every word size, memory size and price.   *)
(* The bound on the running time needs a stronger invariant: while the     *)
(* cost stays the same, the steps are bounded by the program counter.      *)
(***************************************************************************)
EXTENDS RegisterVm, TLAPS

\* The smaller of the program counter and the size of memory.
Reached == IF pc < MemoryMax THEN pc ELSE MemoryMax

StepsBehindPc ==
  compute_cost < CostMax => steps <= compute_cost * MemoryMax + Reached

IInv == TypeOK /\ StepsBehindPc

-----------------------------------------------------------------------------
(* Arithmetic and access to memory.                                        *)

\* A product with a positive factor is at least the other factor.
LEMMA ProductAtLeast ==
  ASSUME NEW a \in Nat, NEW b \in Nat \ {0}
  PROVE  a * b \in Nat /\ a * b >= a
<1>1. PICK k \in Nat : b = 1 + k BY b - 1 \in Nat
<1>2. a * b = a + a * k BY <1>1
<1>3. a * k \in Nat BY <1>1
<1> QED BY <1>2, <1>3

LEMMA ProductNat ==
  ASSUME NEW a \in Nat, NEW b \in Nat
  PROVE  a * b \in Nat
OBVIOUS

\* A sum that stays below the modulus is its own remainder.
LEMMA SmallRemainder ==
  ASSUME NEW i \in Nat, NEW B \in Nat \ {0}, i < B
  PROVE  i % B = i
<1>1. i \in 0 .. B - 1 OBVIOUS
<1> QED BY <1>1

\* A larger cost leaves room for a whole memory of further steps.
LEMMA LargerCost ==
  ASSUME NEW c \in Nat, NEW d \in Nat \ {0}, NEW m \in Nat
  PROVE  (c + d) * m >= c * m + m
<1>1. (c + d) * m = c * m + d * m OBVIOUS
<1>2. PICK k \in Nat : d = 1 + k BY d - 1 \in Nat
<1>3. d * m = m + k * m BY <1>2
<1>4. k * m \in Nat BY <1>2
<1>5. c * m \in Nat OBVIOUS
<1> QED BY <1>1, <1>3, <1>4, <1>5

\* Every read yields a word, whatever the address.
LEMMA OperandIsWord ==
  ASSUME TypeOK, NEW offset \in Nat
  PROVE  Operand(offset) \in Word
<1>1. Words \in Nat \ {0} BY VmAssumption
<1>2. 0 \in Word BY <1>1 DEF Word
<1> QED BY <1>2 DEF TypeOK, Operand, Read

LEMMA ReadIsWord ==
  ASSUME TypeOK, NEW address
  PROVE  Read(address) \in Word
<1>1. Words \in Nat \ {0} BY VmAssumption
<1>2. 0 \in Word BY <1>1 DEF Word
<1> QED BY <1>2 DEF TypeOK, Read

\* Only an instruction within memory has an opcode other than zero.
LEMMA OpcodeInMemory ==
  ASSUME TypeOK, Operand(0) # 0
  PROVE  pc < MemoryMax
<1>1. Words \in Nat \ {0} /\ pc \in 0 .. Words - 1
  BY VmAssumption DEF TypeOK, Word
<1>2. pc % Words = pc BY <1>1, SmallRemainder
<1>3. (pc + 0) % Words = pc BY <1>1, <1>2
<1>4. pc \in Address BY <1>3 DEF Operand, Read
<1> QED BY <1>4, VmAssumption DEF Address

\* What a positive price does to the cost.
LEMMA RaisedBounds ==
  ASSUME TypeOK, NEW cost \in Nat
  PROVE  /\ Raised(cost) \in 0 .. CostMax
         /\ Raised(cost) < CostMax => Raised(cost) = compute_cost + cost
         /\ Raised(cost) >= compute_cost + cost \/ Raised(cost) = CostMax
BY VmAssumption DEF TypeOK, Raised

-----------------------------------------------------------------------------
(* One step.                                                               *)

\* An instruction that moves on, free or not.
LEMMA ProceedKeeps ==
  ASSUME IInv, Operand(0) # 0, NEW length \in 1 .. 5, NEW cost \in Nat, NEW r,
         Proceed(length, cost, r)
  PROVE  /\ pc' \in Word
         /\ compute_cost' \in 0 .. CostMax
         /\ steps' \in Nat
         /\ StepsBehindPc'
<1> USE VmAssumption
<1>1. pc \in Nat /\ pc < MemoryMax
  BY OpcodeInMemory DEF IInv, TypeOK, Word
<1>2. pc + length \in 0 .. Words - 1 /\ Words \in Nat \ {0} BY <1>1
<1>3. (pc + length) % Words = pc + length BY <1>2, SmallRemainder
<1>4. pc' = pc + length BY <1>3 DEF Proceed
<1>5. compute_cost' \in 0 .. CostMax
        /\ (compute_cost' < CostMax => compute_cost' = compute_cost + cost)
  BY RaisedBounds DEF Proceed, IInv
<1>6. steps' = steps + 1 /\ steps \in Nat /\ compute_cost \in Nat
  BY DEF Proceed, IInv, TypeOK
<1>7. ASSUME compute_cost' < CostMax
      PROVE  steps' <= compute_cost' * MemoryMax + Reached'
  <2>1. compute_cost' = compute_cost + cost /\ compute_cost < CostMax
    BY <1>5, <1>6, <1>7
  <2>2. steps <= compute_cost * MemoryMax + pc
    BY <1>1, <2>1 DEF IInv, StepsBehindPc, Reached
  <2>3. pc + 1 <= Reached' BY <1>1, <1>4 DEF Reached
  <2>4. compute_cost' * MemoryMax >= compute_cost * MemoryMax
    <3>1. CASE cost = 0 BY <2>1, <3>1, <1>6
    <3>2. CASE cost # 0
      <4>1. (compute_cost + cost) * MemoryMax
              >= compute_cost * MemoryMax + MemoryMax
        BY <3>2, <1>6, LargerCost
      <4>2. compute_cost * MemoryMax \in Nat BY <1>6
      <4>3. (compute_cost + cost) * MemoryMax \in Nat BY <1>6
      <4> QED BY <4>1, <4>2, <4>3, <2>1
    <3> QED BY <3>1, <3>2
  <2>5. compute_cost * MemoryMax \in Nat /\ compute_cost' * MemoryMax \in Nat
    <3>1. compute_cost \in Nat /\ compute_cost' \in Nat /\ MemoryMax \in Nat
      BY <1>5, <1>6
    <3>2. compute_cost * MemoryMax \in Nat BY <3>1, ProductNat
    <3>3. compute_cost' * MemoryMax \in Nat BY <3>1, ProductNat
    <3> QED BY <3>2, <3>3
  <2>6. Reached' \in Nat BY <1>1, <1>4 DEF Reached
  <2> QED BY <1>1, <1>6, <2>2, <2>3, <2>4, <2>5, <2>6
<1> QED BY <1>2, <1>4, <1>5, <1>6, <1>7 DEF Word, StepsBehindPc

\* A jump, which costs one wherever it goes.
LEMMA JumpKeeps ==
  ASSUME IInv, Jump
  PROVE  IInv'
<1> USE VmAssumption
<1>1. pc \in Nat /\ pc < MemoryMax
  BY OpcodeInMemory DEF IInv, TypeOK, Word, Jump, Executes, JUMP_IF_ZERO
<1>2. pc' \in Word
  <2>1. (pc + 3) % Words \in Word BY <1>1 DEF Word
  <2>2. Operand(1) \in Word BY OperandIsWord DEF IInv
  <2> QED BY <2>1, <2>2 DEF Jump
<1>3. compute_cost' \in 0 .. CostMax
        /\ (compute_cost' < CostMax => compute_cost' = compute_cost + 1)
  BY RaisedBounds DEF Jump, IInv
<1>4. steps' = steps + 1 /\ steps \in Nat /\ compute_cost \in Nat
  BY DEF Jump, IInv, TypeOK
<1>5. ASSUME compute_cost' < CostMax
      PROVE  steps' <= compute_cost' * MemoryMax + Reached'
  <2>1. compute_cost' = compute_cost + 1 /\ compute_cost < CostMax
    BY <1>3, <1>4, <1>5
  <2>2. steps <= compute_cost * MemoryMax + pc
    BY <1>1, <2>1 DEF IInv, StepsBehindPc, Reached
  <2>3. (compute_cost + 1) * MemoryMax = compute_cost * MemoryMax + MemoryMax
    BY <1>4
  <2>4. compute_cost * MemoryMax \in Nat BY <1>4, ProductNat
  <2>5. Reached' \in Nat BY <1>2 DEF Reached, Word
  <2>6. compute_cost' * MemoryMax = compute_cost * MemoryMax + MemoryMax
    BY <2>1, <2>3
  <2> QED BY <1>1, <1>4, <2>2, <2>4, <2>5, <2>6
<1>6. memory' = memory BY DEF Jump
<1> QED BY <1>2, <1>3, <1>4, <1>5, <1>6 DEF IInv, TypeOK, StepsBehindPc

\* An instruction that fails past itself has only moved the counter on.
LEMMA FailPastKeeps ==
  ASSUME IInv, Operand(0) # 0, NEW name, FailPast(5, name)
  PROVE  IInv'
<1> USE VmAssumption
<1>1. pc \in Nat /\ pc < MemoryMax
  BY OpcodeInMemory DEF IInv, TypeOK, Word
<1>2. pc + 5 \in 0 .. Words - 1 /\ Words \in Nat \ {0} BY <1>1
<1>3. (pc + 5) % Words = pc + 5 BY <1>2, SmallRemainder
<1>4. pc' = pc + 5 BY <1>3 DEF FailPast
<1>5. Reached \in Nat /\ Reached' \in Nat /\ Reached <= Reached'
  BY <1>1, <1>4 DEF Reached
<1>6. UNCHANGED <<memory, compute_cost, steps>> BY DEF FailPast
<1>7. compute_cost * MemoryMax \in Nat /\ steps \in Nat
  BY DEF IInv, TypeOK
<1>8. StepsBehindPc'
  BY <1>5, <1>6, <1>7 DEF IInv, StepsBehindPc
<1> QED BY <1>2, <1>4, <1>6, <1>8 DEF IInv, TypeOK, Word

LEMMA FailKeeps ==
  ASSUME IInv, NEW name, Fail(name)
  PROVE  IInv'
BY DEF Fail, IInv, TypeOK, StepsBehindPc, Reached
\* The three instructions that write to memory or charge by the word.
LEMMA AddKeeps ==
  ASSUME IInv, Add
  PROVE  IInv'
<1> USE VmAssumption
<1>1. Operand(0) # 0 BY DEF Add, Executes, ADD
<1>2. CASE /\ Operand(3) \in Address
           /\ memory' = [memory EXCEPT ![Operand(3)] =
                           (Read(Operand(1)) + Read(Operand(2))) % Words]
           /\ Proceed(4, 1, Nothing)
  <2>1. Read(Operand(1)) \in Word /\ Read(Operand(2)) \in Word
    BY ReadIsWord DEF IInv
  <2>2. (Read(Operand(1)) + Read(Operand(2))) % Words \in Word
    BY <2>1 DEF Word
  <2>3. memory' \in [Address -> Word] BY <1>2, <2>2 DEF IInv, TypeOK
  <2> QED BY <1>1, <1>2, <2>3, ProceedKeeps DEF IInv, TypeOK
<1>3. CASE Fail("MemoryOutOfRange") BY <1>3, FailKeeps
<1> QED BY <1>2, <1>3 DEF Add

LEMMA StoreHashKeeps ==
  ASSUME IInv, StoreHash
  PROVE  IInv'
<1> USE VmAssumption
<1>1. Operand(0) # 0 BY DEF StoreHash, Executes, STORE_HASH
<1>2. CASE /\ UNCHANGED memory
           /\ Proceed(3, Operand(2) * HashCost,
                      Request("StoreData", ReadWords(Operand(1), Operand(2))))
  <2>1. Operand(2) \in Nat BY OperandIsWord DEF IInv, Word
  <2>2. Operand(2) * HashCost \in Nat BY <2>1, ProductAtLeast
  <2> QED BY <1>1, <1>2, <2>2, ProceedKeeps DEF IInv, TypeOK
<1>3. CASE Fail("ReadTooLarge") BY <1>3, FailKeeps
<1> QED BY <1>2, <1>3 DEF StoreHash

LEMMA SendKeeps ==
  ASSUME IInv, Send
  PROVE  IInv'
<1> USE VmAssumption
<1>1. Operand(0) # 0 BY DEF Send, Executes, SEND
<1>2. CASE /\ UNCHANGED memory
           /\ Proceed(4, SendCost + Operand(3),
                      Request("Send", ReadWords(Operand(2), Operand(3))))
  <2>1. Operand(3) \in Nat BY OperandIsWord DEF IInv, Word
  <2>2. SendCost + Operand(3) \in Nat BY <2>1
  <2> QED BY <1>1, <1>2, <2>2, ProceedKeeps DEF IInv, TypeOK
<1>3. CASE Fail("ReadTooLarge") BY <1>3, FailKeeps
<1> QED BY <1>2, <1>3 DEF Send

\* What a comparison writes is a word.
LEMMA ComparisonIsWord ==
  ASSUME NEW left, NEW right
  PROVE  Comparison(left, right) \in Word
BY VmAssumption DEF Comparison, Word

LEMMA VectorCompareKeeps ==
  ASSUME IInv, VectorCompare
  PROVE  IInv'
<1> USE VmAssumption
<1>1. Operand(0) # 0 BY DEF VectorCompare, Executes, VECTOR_COMPARE
<1>2. CASE /\ Operand(4) \in Address
           /\ memory' = [memory EXCEPT ![Operand(4)] =
                           Comparison(ReadWords(Operand(1), Operand(3)),
                                      ReadWords(Operand(2), Operand(3)))]
           /\ Proceed(5, 0, Nothing)
  <2>1. memory' \in [Address -> Word]
    BY <1>2, ComparisonIsWord DEF IInv, TypeOK
  <2> QED BY <1>1, <1>2, <2>1, ProceedKeeps DEF IInv, TypeOK
<1>3. CASE FailPast(5, "ReadTooLarge") BY <1>1, <1>3, FailPastKeeps
<1>4. CASE FailPast(5, "MemoryOutOfRange") BY <1>1, <1>4, FailPastKeeps
<1> QED BY <1>2, <1>3, <1>4 DEF VectorCompare

-----------------------------------------------------------------------------
(* The invariant.                                                          *)

LEMMA InitIInv == Init => IInv
<1> SUFFICES ASSUME Init PROVE IInv OBVIOUS
<1> USE VmAssumption
<1>1. TypeOK BY DEF Init, TypeOK, Word
<1>2. compute_cost * MemoryMax = 0 /\ Reached \in Nat /\ steps = 0
  BY DEF Init, Reached
<1> QED BY <1>1, <1>2 DEF IInv, StepsBehindPc

LEMMA NextIInv == IInv /\ [Next]_vars => IInv'
<1> SUFFICES ASSUME IInv, [Next]_vars PROVE IInv' OBVIOUS
<1> USE VmAssumption
<1>1. CASE Add BY <1>1, AddKeeps
<1>2. CASE StoreHash BY <1>2, StoreHashKeeps
<1>3. CASE LoadHash
  <2>1. Operand(0) # 0 BY <1>3 DEF LoadHash, Executes, LOAD_HASH
  <2> QED BY <1>3, <2>1, ProceedKeeps DEF LoadHash, IInv, TypeOK
<1>4. CASE Send BY <1>4, SendKeeps
<1>5. CASE Jump BY <1>5, JumpKeeps
<1>6. CASE VectorCompare BY <1>6, VectorCompareKeeps
<1>7. CASE LoadSelfAddress
  <2>1. Operand(0) # 0 BY <1>7 DEF LoadSelfAddress, Executes, LOAD_SELF_ADDRESS
  <2> QED BY <1>7, <2>1, ProceedKeeps DEF LoadSelfAddress, IInv, TypeOK
<1>8. CASE NearestNeighbors
  <2>1. Operand(0) # 0
    BY <1>8 DEF NearestNeighbors, Executes, LOAD_NEAREST_NEIGHBORS
  <2> QED BY <1>8, <2>1, ProceedKeeps DEF NearestNeighbors, IInv, TypeOK
<1>9. CASE InvalidInstruction BY <1>9, FailKeeps DEF InvalidInstruction
<1>10. ASSUME NEW program \in Programs, New(program)
       PROVE  IInv'
  <2>1. UNCHANGED <<pc, compute_cost, steps>> BY <1>10 DEF New
  <2>2. memory' \in [Address -> Word]
    <3>1. program \in Seq(Word) BY DEF Word
    <3>2. CASE Len(program) > MemoryMax
      BY <3>2, <1>10 DEF New, IInv, TypeOK
    <3>3. CASE ~ (Len(program) > MemoryMax)
      <4>1. memory' = [a \in Address |-> IF a < Len(program) THEN program[a + 1]
                                         ELSE 0]
        BY <3>3, <1>10 DEF New
      <4>2. \A a \in Address : a < Len(program) => program[a + 1] \in Word
        BY <3>1 DEF Address
      <4>3. 0 \in Word BY DEF Word
      <4> QED BY <4>1, <4>2, <4>3
    <3> QED BY <3>2, <3>3
  <2> QED BY <2>1, <2>2 DEF IInv, TypeOK, StepsBehindPc, Reached
<1>11. CASE UNCHANGED vars
  BY <1>11 DEF vars, IInv, TypeOK, StepsBehindPc, Reached
<1> QED BY <1>1, <1>2, <1>3, <1>4, <1>5, <1>6, <1>7, <1>8, <1>9, <1>10, <1>11
        DEF Next, Step

\* The inductive invariant of the register machine.
THEOREM Inductive == Spec => []IInv
BY InitIInv, NextIInv, PTL DEF Spec

-----------------------------------------------------------------------------
(* What follows.                                                           *)

\* Every part of the machine keeps its type, whatever program it runs.
THEOREM TypeCorrect == Spec => []TypeOK
<1>1. IInv => TypeOK BY DEF IInv
<1> QED BY <1>1, Inductive, PTL

\* The cost that step accounts for bounds the number of steps: no program
\* runs for long without paying for it.
THEOREM CostBounds == Spec => []CostBoundsSteps
<1>1. IInv => CostBoundsSteps
  <2> SUFFICES ASSUME IInv, compute_cost < CostMax
               PROVE  steps <= (compute_cost + 1) * MemoryMax
    BY DEF CostBoundsSteps
  <2> USE VmAssumption
  <2>1. compute_cost \in Nat /\ steps \in Nat /\ pc \in Nat
    BY DEF IInv, TypeOK, Word
  <2>2. steps <= compute_cost * MemoryMax + Reached
    BY DEF IInv, StepsBehindPc
  <2>3. Reached \in Nat /\ Reached <= MemoryMax BY <2>1 DEF Reached
  <2>4. (compute_cost + 1) * MemoryMax = compute_cost * MemoryMax + MemoryMax
    BY <2>1
  <2>5. compute_cost * MemoryMax \in Nat BY <2>1, ProductNat
  <2> QED BY <2>1, <2>2, <2>3, <2>4, <2>5
<1> QED BY <1>1, Inductive, PTL

\* A list of words that was read is as long as was asked for.
LEMMA CarriedLength ==
  ASSUME NEW start, NEW count \in Nat
  PROVE  Len(ReadWords(start, count)) = count
BY DEF ReadWords

\* Every word that is stored or sent has been charged for.
THEOREM ChargesRequests == Spec => RequestsCharged
<1> DEFINE Charged ==
      result'.name \in {"StoreData", "Send"} /\ steps' > steps =>
        \/ compute_cost' >= compute_cost + Len(result'.carried)
        \/ compute_cost' = CostMax
<1>1. IInv /\ [Next]_vars => [Charged]_vars
  <2> SUFFICES ASSUME IInv, Next,
                      result'.name \in {"StoreData", "Send"}, steps' > steps
               PROVE  \/ compute_cost' >= compute_cost + Len(result'.carried)
                      \/ compute_cost' = CostMax
    OBVIOUS
  <2> USE VmAssumption
  <2>1. steps \in Nat /\ compute_cost \in Nat BY DEF IInv, TypeOK
  <2>2. CASE StoreHash
    <3>1. Operand(2) \in Nat BY OperandIsWord DEF IInv, Word
    <3>2. compute_cost' = Raised(Operand(2) * HashCost)
            /\ result' = Request("StoreData", ReadWords(Operand(1), Operand(2)))
      BY <2>1, <2>2 DEF StoreHash, Proceed, Fail
    <3>3. Len(result'.carried) = Operand(2)
      BY <3>1, <3>2, CarriedLength DEF Request
    <3>4. PICK price \in Nat : price = Operand(2) * HashCost /\ price >= Operand(2)
      BY <3>1, ProductAtLeast
    <3>5. compute_cost' = Raised(price) BY <3>2, <3>4
    <3>6. \/ compute_cost' >= compute_cost + price
          \/ compute_cost' = CostMax
      BY <3>5, RaisedBounds DEF IInv
    <3>7. compute_cost' \in Nat BY <3>5, RaisedBounds DEF IInv
    <3>8. price >= Operand(2) BY <3>4
    <3> QED BY <2>1, <3>1, <3>3, <3>6, <3>7, <3>8
  <2>3. CASE Send
    <3>1. Operand(3) \in Nat BY OperandIsWord DEF IInv, Word
    <3>2. compute_cost' = Raised(SendCost + Operand(3))
            /\ result' = Request("Send", ReadWords(Operand(2), Operand(3)))
      BY <2>1, <2>3 DEF Send, Proceed, Fail
    <3>3. Len(result'.carried) = Operand(3)
      BY <3>1, <3>2, CarriedLength DEF Request
    <3>4. PICK price \in Nat : price = SendCost + Operand(3) /\ price >= Operand(3)
      BY <3>1
    <3>5. compute_cost' = Raised(price) BY <3>2, <3>4
    <3>6. \/ compute_cost' >= compute_cost + price
          \/ compute_cost' = CostMax
      BY <3>5, RaisedBounds DEF IInv
    <3>7. compute_cost' \in Nat BY <3>5, RaisedBounds DEF IInv
    <3>8. price >= Operand(3) BY <3>4
    <3> QED BY <2>1, <3>1, <3>3, <3>6, <3>7, <3>8
  <2>4. CASE Add BY <2>1, <2>4 DEF Add, Proceed, Fail, Nothing, Fault
  <2>5. CASE LoadHash BY <2>5 DEF LoadHash, Proceed, Request
  <2>6. CASE Jump BY <2>6 DEF Jump, Nothing
  <2>7. CASE VectorCompare
    BY <2>1, <2>7 DEF VectorCompare, Proceed, FailPast, Nothing, Fault
  <2>8. CASE LoadSelfAddress BY <2>8 DEF LoadSelfAddress, Proceed, Request
  <2>9. CASE NearestNeighbors BY <2>9 DEF NearestNeighbors, Proceed, Request
  <2>10. CASE InvalidInstruction BY <2>1, <2>10 DEF InvalidInstruction, Fail
  <2>11. CASE \E program \in Programs : New(program) BY <2>1, <2>11 DEF New
  <2> QED BY <2>2, <2>3, <2>4, <2>5, <2>6, <2>7, <2>8, <2>9, <2>10, <2>11
          DEF Next, Step
<1> QED BY <1>1, Inductive, PTL DEF Spec, RequestsCharged

\* A fault leaves memory and cost alone, and the counter at the instruction
\* that failed or just past it.
THEOREM FaultsAreHarmless == Spec => FaultsLeaveState
<1> DEFINE Left ==
      steps' = steps /\ ~ Loadable =>
        /\ memory' = memory
        /\ compute_cost' = compute_cost
        /\ pc' # pc => pc' = pc + 5 /\ Operand(0) = VECTOR_COMPARE
<1>1. IInv /\ [Next]_vars => [Left]_vars
  <2> SUFFICES ASSUME IInv, Next, steps' = steps, ~ Loadable
               PROVE  /\ memory' = memory
                      /\ compute_cost' = compute_cost
                      /\ pc' # pc => pc' = pc + 5 /\ Operand(0) = VECTOR_COMPARE
    OBVIOUS
  <2> USE VmAssumption
  <2>1. steps \in Nat /\ steps # steps + 1 BY DEF IInv, TypeOK
  <2>2. CASE Add BY <2>1, <2>2 DEF Add, Proceed, Fail
  <2>3. CASE StoreHash BY <2>1, <2>3 DEF StoreHash, Proceed, Fail
  <2>4. CASE Send BY <2>1, <2>4 DEF Send, Proceed, Fail
  <2>5. CASE VectorCompare
    <3>1. \E name : FailPast(5, name)
      BY <2>1, <2>5 DEF VectorCompare, Proceed
    <3>2. Operand(0) = VECTOR_COMPARE BY <2>5 DEF VectorCompare, Executes
    <3>3. pc \in Nat /\ pc < MemoryMax
      BY <3>2, OpcodeInMemory DEF VECTOR_COMPARE, IInv, TypeOK, Word
    <3>4. pc + 5 \in Nat /\ pc + 5 < Words /\ Words \in Nat \ {0} BY <3>3
    <3>5. (pc + 5) % Words = pc + 5 BY <3>4, SmallRemainder
    <3> QED BY <3>1, <3>2, <3>5 DEF FailPast
  <2>6. CASE LoadHash \/ Jump \/ LoadSelfAddress \/ NearestNeighbors
    BY <2>1, <2>6
       DEF LoadHash, Jump, LoadSelfAddress, NearestNeighbors, Proceed
  <2>7. CASE InvalidInstruction BY <2>7 DEF InvalidInstruction, Fail
  <2> QED BY <2>2, <2>3, <2>4, <2>5, <2>6, <2>7 DEF Next, Step
<1> QED BY <1>1, Inductive, PTL DEF Spec, FaultsLeaveState
=============================================================================
