----------------------------- MODULE RegisterVm -----------------------------
(***************************************************************************)
(* The machine that runs the program of a content packet (src/src/vm.rs):  *)
(* a flat memory of words, a program counter, and a running cost.  A host  *)
(* calls step, which executes one instruction and returns nothing, a       *)
(* request to the host, or a fault.  The host may go on after a fault.     *)
(*                                                                         *)
(* The word size and every limit and price are parameters.  A hash is left *)
(* out of the request that carries it.                                     *)
(***************************************************************************)
EXTENDS Integers, Sequences

CONSTANTS
  Words,           \* number of word values; 2^32 in the code
  MemoryMax,       \* words of memory; 2^20
  WordReadMax,     \* a read takes fewer words than this; 2^20
  KeyWords,        \* words of a storage key; 16
  AddressWords,    \* words of an agent's address; 8
  HashCost,        \* price of hashing a word; 1000
  SendCost,        \* price of sending, besides one per word; 30
  CostMax,         \* the largest cost, 2^64 - 1
  Programs,        \* the programs handed to the machine
  MaxSteps         \* bound on the steps that succeed

ASSUME VmAssumption ==
  /\ Words \in Nat
  /\ MemoryMax \in Nat \ {0}
  /\ MemoryMax + 5 <= Words
  /\ WordReadMax \in Nat
  /\ KeyWords \in Nat /\ KeyWords < WordReadMax
  /\ AddressWords \in Nat /\ AddressWords < WordReadMax
  /\ HashCost \in Nat \ {0}
  /\ SendCost \in Nat \ {0}
  /\ CostMax \in Nat
  /\ Programs \subseteq Seq(0 .. Words - 1)
  /\ MaxSteps \in Nat

VARIABLES
  memory,
  pc,
  compute_cost,
  result,         \* what Vm::new or the last step returned
  steps           \* steps that did not fault, a ghost

vars == <<memory, pc, compute_cost, result, steps>>

Word == 0 .. Words - 1

Address == 0 .. MemoryMax - 1

\* The opcodes, by their names in the code.
ADD == 1
STORE_HASH == 2
LOAD_HASH == 3
SEND == 4
JUMP_IF_ZERO == 5
VECTOR_COMPARE == 6
LOAD_SELF_ADDRESS == 7
LOAD_NEAREST_NEIGHBORS == 8

-----------------------------------------------------------------------------
(* Access to memory.                                                       *)

\* read_memory: addresses past the end read as zero.
Read(address) == IF address \in Address THEN memory[address] ELSE 0

\* read_pc_memory
Operand(offset) == Read((pc + offset) % Words)

\* read_memory_words, for a count that it does not refuse.
ReadWords(start, count) ==
  [i \in 1 .. count |-> Read((start + i - 1) % Words)]

TooLong(count) == count >= WordReadMax

-----------------------------------------------------------------------------
(* How an instruction ends.                                                *)

Fault(name) == [kind |-> "fault", name |-> name, carried |-> <<>>]

Request(name, carried) == [kind |-> "request", name |-> name, carried |-> carried]

Nothing == [kind |-> "none", name |-> "none", carried |-> <<>>]

\* Fault: the cost does not saturate.
RaisedPastMax(cost) == compute_cost + cost

\* incur_cost saturates.
Raised(cost) ==
  IF compute_cost + cost > CostMax THEN CostMax ELSE compute_cost + cost

\* An instruction of the given length that returns r.
Proceed(length, cost, r) ==
  /\ steps < MaxSteps
  /\ pc' = (pc + length) % Words
  /\ compute_cost' = Raised(cost)
  /\ result' = r
  /\ steps' = steps + 1

\* An instruction that fails before it has changed anything.
Fail(name) ==
  /\ result' = Fault(name)
  /\ UNCHANGED <<memory, pc, compute_cost, steps>>

\* An instruction that has moved the program counter when it fails.
FailPast(length, name) ==
  /\ pc' = (pc + length) % Words
  /\ result' = Fault(name)
  /\ UNCHANGED <<memory, compute_cost, steps>>

Loadable == result.name = "unloaded"

Created == ~ Loadable /\ result.name # "ProgramTooLarge"

Executes(opcode) == Created /\ Operand(0) = opcode

-----------------------------------------------------------------------------
(* The instructions.                                                       *)

Add ==
  /\ Executes(ADD)
  /\ LET destination == Operand(3)
         sum         == (Read(Operand(1)) + Read(Operand(2))) % Words
     IN \/ /\ destination \in Address
           /\ memory' = [memory EXCEPT ![destination] = sum]
           /\ Proceed(4, 1, Nothing)
        \/ /\ destination \notin Address
           /\ Fail("MemoryOutOfRange")

StoreHash ==
  /\ Executes(STORE_HASH)
  /\ \/ /\ ~ TooLong(Operand(2))
        /\ Proceed(3, Operand(2) * HashCost,
                   Request("StoreData", ReadWords(Operand(1), Operand(2))))
        /\ UNCHANGED memory
     \/ /\ TooLong(Operand(2))
        /\ Fail("ReadTooLarge")

LoadHash ==
  /\ Executes(LOAD_HASH)
  /\ Proceed(4, 1, Request("LoadData", ReadWords(Operand(1), KeyWords)))
  /\ UNCHANGED memory

\* Fault: the message is sent for nothing.
SendUncharged ==
  /\ Executes(SEND)
  /\ \/ /\ ~ TooLong(Operand(3))
        /\ Proceed(4, 1, Request("Send", ReadWords(Operand(2), Operand(3))))
        /\ UNCHANGED memory
     \/ /\ TooLong(Operand(3))
        /\ Fail("ReadTooLarge")

\* The recipient, AddressWords words from Operand(1) on, is left out.
Send ==
  /\ Executes(SEND)
  /\ \/ /\ ~ TooLong(Operand(3))
        /\ Proceed(4, SendCost + Operand(3),
                   Request("Send", ReadWords(Operand(2), Operand(3))))
        /\ UNCHANGED memory
     \/ /\ TooLong(Operand(3))
        /\ Fail("ReadTooLarge")

\* Fault: a jump that is taken costs nothing.
JumpFree ==
  /\ Executes(JUMP_IF_ZERO)
  /\ steps < MaxSteps
  /\ IF Read(Operand(2)) # 0
     THEN pc' = Operand(1) /\ UNCHANGED compute_cost
     ELSE pc' = (pc + 3) % Words /\ compute_cost' = Raised(1)
  /\ result' = Nothing
  /\ steps' = steps + 1
  /\ UNCHANGED memory

\* exec_jump_if_zero, which jumps if the condition is not zero.
Jump ==
  /\ Executes(JUMP_IF_ZERO)
  /\ steps < MaxSteps
  /\ pc' = IF Read(Operand(2)) # 0 THEN Operand(1) ELSE (pc + 3) % Words
  /\ compute_cost' = Raised(1)
  /\ result' = Nothing
  /\ steps' = steps + 1
  /\ UNCHANGED memory

\* The order of two lists of equal length, as a word.
Comparison(left, right) ==
  LET differ == {i \in DOMAIN left : left[i] # right[i]}
      first  == CHOOSE i \in differ : \A j \in differ : i <= j
  IN IF differ = {} THEN 0
     ELSE IF left[first] < right[first] THEN Words - 1 ELSE 1

\* Fault: the result is written before the length is looked at.
VectorCompareWritingFirst ==
  /\ Executes(VECTOR_COMPARE)
  /\ LET length      == IF TooLong(Operand(3)) THEN 0 ELSE Operand(3)
         destination == Operand(4)
         order       == Comparison(ReadWords(Operand(1), length),
                                   ReadWords(Operand(2), length))
     IN \/ /\ ~ TooLong(Operand(3)) /\ destination \in Address
           /\ memory' = [memory EXCEPT ![destination] = order]
           /\ Proceed(5, 0, Nothing)
        \/ /\ TooLong(Operand(3)) /\ destination \in Address
           /\ memory' = [memory EXCEPT ![destination] = order]
           /\ pc' = (pc + 5) % Words
           /\ result' = Fault("ReadTooLarge")
           /\ UNCHANGED <<compute_cost, steps>>
        \/ destination \notin Address /\ FailPast(5, "MemoryOutOfRange")

\* Costs nothing, and has moved on when it fails.
VectorCompare ==
  /\ Executes(VECTOR_COMPARE)
  /\ LET length      == Operand(3)
         destination == Operand(4)
     IN \/ /\ ~ TooLong(length) /\ destination \in Address
           /\ memory' = [memory EXCEPT ![destination] =
                           Comparison(ReadWords(Operand(1), length),
                                      ReadWords(Operand(2), length))]
           /\ Proceed(5, 0, Nothing)
        \/ TooLong(length) /\ FailPast(5, "ReadTooLarge")
        \/ /\ ~ TooLong(length) /\ destination \notin Address
           /\ FailPast(5, "MemoryOutOfRange")

LoadSelfAddress ==
  /\ Executes(LOAD_SELF_ADDRESS)
  /\ Proceed(2, 0, Request("LoadSelfAddress", <<>>))
  /\ UNCHANGED memory

NearestNeighbors ==
  /\ Executes(LOAD_NEAREST_NEIGHBORS)
  /\ Proceed(4, 0, Request("LoadNearestNeighbors",
                           ReadWords(Operand(1), AddressWords)))
  /\ UNCHANGED memory

\* Whatever else a word stands for; past the end of memory, a zero.
InvalidInstruction ==
  /\ Created
  /\ Operand(0) \notin ADD .. LOAD_NEAREST_NEIGHBORS
  /\ Fail("InvalidInstruction")

-----------------------------------------------------------------------------

Init ==
  /\ memory = [a \in Address |-> 0]
  /\ pc = 0
  /\ compute_cost = 0
  /\ result = Fault("unloaded")
  /\ steps = 0

\* Vm::new
New(program) ==
  /\ IF Len(program) > MemoryMax
     THEN result' = Fault("ProgramTooLarge") /\ UNCHANGED memory
     ELSE /\ result' = Nothing
          /\ memory' = [a \in Address |-> IF a < Len(program) THEN program[a + 1]
                                          ELSE 0]
  /\ UNCHANGED <<pc, compute_cost, steps>>

Step ==
  \/ Add
  \/ StoreHash
  \/ LoadHash
  \/ Send
  \/ Jump
  \/ VectorCompare
  \/ LoadSelfAddress
  \/ NearestNeighbors
  \/ InvalidInstruction

Next ==
  \/ Loadable /\ \E program \in Programs : New(program)
  \/ Step

Spec == Init /\ [][Next]_vars

-----------------------------------------------------------------------------
(* Properties.                                                             *)

\* Memory keeps its size, and words, the program counter and the cost stay
\* in their ranges whatever a program computes.
TypeOK ==
  /\ memory \in [Address -> Word]
  /\ pc \in Word
  /\ compute_cost \in 0 .. CostMax
  /\ steps \in Nat

\* The cost is a bound on the running time, although some instructions cost
\* nothing and programs rewrite themselves: between two increases of the
\* cost the program counter only grows, and past the memory nothing runs.
CostBoundsSteps ==
  compute_cost < CostMax => steps <= (compute_cost + 1) * MemoryMax

\* Whatever is handed to the host to be stored or sent has been charged for,
\* at least one for each word.
RequestsCharged ==
  [][result'.name \in {"StoreData", "Send"} /\ steps' > steps =>
       \/ compute_cost' >= compute_cost + Len(result'.carried)
       \/ compute_cost' = CostMax]_vars

\* A fault leaves memory and cost as they were.  The program counter stays
\* too, or has passed the instruction: the host that goes on after a fault
\* never runs half of one again.
FaultsLeaveState ==
  [][steps' = steps /\ ~ Loadable =>
       /\ memory' = memory
       /\ compute_cost' = compute_cost
       /\ pc' # pc => pc' = pc + 5 /\ Operand(0) = VECTOR_COMPARE]_vars
=============================================================================
