# Hoplight in TLA+

A verification project for [hoplight](../src/README.md), a service in which
agents open encrypted streams to their neighbors and send them programs to
run. It holds TLA+ modules translated from the Rust source, TLC configurations
that check them on small instances, and TLAPS proofs that hold for every value
of the constants. `PROJECT.json` maps every definition to the lines it models,
lists the runs, the hazards and the theorems, and for every property a
plausible slip in the code that the property notices.

    tlc -workers 2 -config MCDatagramStream.cfg MCDatagramStream
    tlapm DatagramStream_proofs.tla

## The system

| component | source | state | operations |
|---|---|---|---|
| Stream | `src/src/stream.rs` | key, outgoing index, buffer of 8 identifiers, 64-bit receive window | `maybe_new`, `produce_outgoing_identifier`, `decrypt_incoming_payload`, `got_incoming_packet` |
| StreamCluster | `src/src/stream.rs` | two own seeds, two key materials of the neighbor, four streams | `push_own_seed`, `push_neighbor_key_material`, and the stream's operations |
| ExpectedPacketSet | `src/src/expected_packet_set.rs` | identifier -> list of expected packets | `add`, `remove`, `iter` |
| Agent | `src/src/agent.rs` | neighbors, table of expected packets | `initiate_stream_with`, `send_to`, `handle_packet` |
| ContentPacket | `src/src/content_packet.rs` | none | `prepare`, `decode` |
| register machine | `src/src/vm.rs` | memory, program counter, cost | `Vm::new`, `step` |
| noun codec | `src/vm/src/serialize.rs`, `deserialize.rs`, `noun.rs` | none | `serialize`, `deserialize` |
| noun evaluator | `src/vm/src/eval.rs`, `ticks.rs` | ticks of each account, the account that runs | `eval`, opcodes such as `EXECUTE_AS` |
| reshape, equal | `src/vm/src/shape.rs`, `equal.rs` | a reader's cursor, a budget | `reshape`, `length`, `equal` |
| axis, math | `src/vm/src/axis.rs`, `math.rs` | none | `axis`, `add`, `less`, `xor`, `invert` |
| lisp compiler | `src/lisp/src/` | the names in scope while it compiles | tokenize, parse, compile to a noun |

How they interact. A host owns an `Agent` and calls it one call at a time; the
agent calls back into its environment (`send`, `execute`, random bytes). An
agent keeps one `StreamCluster` for each neighbor and one `ExpectedPacketSet`
for all of them, which streams of every cluster write to. An initiation packet
carries half of a key; the other agent answers it with its own half, and both
then have a stream. A content packet is labelled with an identifier that looks
random to anyone else. The receiver looks the identifier up, tries the entries
until one decrypts, tells the stream, which moves its window and the table,
and hands the program to `execute`. The programs of content packets run on the
register machine. The noun evaluator is the machine that will replace it; it
stores, hashes and sends nouns in serialized form. The lisp compiler makes its
programs: it knows of every name where in the subject its value will be, and
the evaluator takes it from there, or something else if the two disagree.

What is hard. There is no thread in the code: the difficulty is what the
network does between calls. It loses, delays, reorders and repeats packets;
nothing is acknowledged or sent again; nothing is persisted, so a restart
leaves an agent with its name only; keys are renewed while packets under the
old ones are on their way; 64-bit labels may be equal; and each end decides
alone, from its own view, which nonces are its own. In the pure parts the
boundaries are hard: windows of 64, headers of 64 and 128, lengths of 190 and
256, the ends of u32. In the compiler it is the position of every name, which
moves with each scope, definition and call. `PROJECT.json` lists these hazards one by one.

What makes each part correct:

* Stream: a label and the nonce behind it belong together; mask and table
  agree; a number is delivered at most once; bounded loss and reordering do no
  harm; the panic is unreachable.
* StreamCluster: every slot holds the stream its name says, renewal resets no
  stream, and one renewal loses none.
* Agent: a program is executed at most once, where it was sent to, in the
  sender's name; no nonce is used twice; what is awaited is recognized; a
  stream that is initiated gets established.
* ContentPacket: lengths survive the padding, and no arithmetic overflows.
* Register machine: cost bounds the running time and pays for every request;
  a fault is harmless.
* Noun evaluator: no account gets ticks back or pays for another, the caller's
  account is restored whatever fails, and the ticks bound depth and time.
* Lisp compiler, evaluator and reshape together: a program is accepted exactly
  if it is well formed, and what it returns is what it means, or nothing; too
  few ticks never show in a result. The second part is not true of every
  program (`EvaluatesAsDocumented`, violated); it is checked to be true of those
  in reach (`MeansWhatItSays`), see below.
* Noun codec: decoding gives back what was encoded or nothing, encoding is
  injective, lost or added bytes are noticed, memory is bounded.

## Modules

| module | models | used by |
|---|---|---|
| `ReceiveWindow` | mask and start of a window, as functions of both | `DatagramStream`, `Streams` |
| `DatagramStream` | one direction of one stream, as a state machine | |
| `AtMostOnceChannel` | abstract: what a stream, and a network of agents, promises | `DatagramStream`, `Agent` by refinement |
| `ExpectedPacketSet` | the table, as a value | `Streams` |
| `Streams` | a stream as a value, for modules with several | `StreamCluster` |
| `StreamCluster` | four slots, as a value, next to the table | `KeyRotation`, `Agent` |
| `KeyRotation` | one cluster and its table through every order of renewals and arrivals | |
| `Agent` | several agents and the network between them | |
| `ContentPacketLength` | the length field from prepare to decode | |
| `NounNumbers` | numbers as atoms and atoms as numbers | `NounCodec`, `Nouns` |
| `NounCodec` | serialize as an operator, deserialize as a state machine | |
| `RegisterVm` | the register machine, one action for each instruction | |
| `TickAccounts` | the noun evaluator: its call stack, its ticks, and whose they are | |
| `TickLedger` | abstract: what the evaluation owes the accounts that pay for it | `TickAccounts` by refinement |
| `Nouns` | nouns, `axis`, byte-wise arithmetic, `equal` | `Reshape` |
| `Reshape` | `reshape`, its reader and what it charges | `Evaluator` |
| `Evaluator` | `eval_on` as a function on nouns, for the opcodes that need no engine | `LispCompiler` |
| `LispTree` | tokens to a tree | `LispCompiler` |
| `LispCompiler` | a tree to a formula: scopes, dense trees, axes, every form | `LispMeaning` |
| `LispMeaning` | reference: what is well formed, and what a program means, with names and no positions | `LispPrograms` |
| `LispPrograms` | a program that is parsed, compiled and evaluated, as a state machine | |
| `StreamCluster_proofs` | lemmas: what each operation does to the table of expected packets | `KeyRotation_proofs`, `Agent_proofs` |
| `*_proofs` | theorems about the module of that name | |
| `MC*` | definitions and values for TLC | |

State and actions carry the source's names where they can. What stands for
what:

* An identifier in `DatagramStream` is its number. In the other modules it is
  `Keystream(key, nonce, position)`, a constant operator: the configurations
  let it be injective, or let all identifiers of one parity be equal.
* A key pair is the seed it comes from, and the key two ends exchange is the
  set of the two seeds. Authenticated encryption opens exactly what was sealed
  under the same key and nonce. Signatures are genuine: no forged packet is
  modelled.
* A call of the agent is one action, with every change it makes to the stream,
  the cluster and the table. `SendTo` takes the identifier and then looks at
  the payload, as the code does; `Execute` uses up the packet and then loads
  the program.
* A formula of the evaluator is not a tree: whenever one is read, any opcode may
  turn up, charge any amount of `Charges`, and do whatever some operands make it
  do. What is kept is the order: charge, read, operands, charge, result. The
  native stack of `eval_on` is the sequence `stack`, so that an error leaves one
  invocation per step, and `EXECUTE_AS` sees it on the way.
* In `Evaluator` the nouns are there and the accounts are not: it is the same
  `eval_on`, as a function of subject, formula and ticks, which returns a noun or
  fails and says how many ticks are left. A loop for tail calls is a recursion.
* A token of the lisp is a bracket, a name or a literal; characters are left out.
  A compilation that panics ends like one that returns an `Err`, without a
  formula, and is told apart by its result.
* The meaning of a program takes 1 as true, as the code and its tests do, and not
  0, as `src/vm/Spec.md` does; run `lisp_documented` shows the difference.
* A program is in reach (`InReach`) if no `let`, `lambda` or call leaves a value
  over in two rounds of pairing, so that the two layouts of `compile.rs` agree
  (1 to 4, 6, 7 and 8 names do, 5 do not), and if every position takes one byte.
* Definitions introduced by `Fault:` are not the code. Each is the slip that
  `PROJECT.json` pairs with a property.
* An offset of exactly 64 in the window passes the code's test and then
  overflows a shift. `OverflowChecks` says whether that panics (a debug build)
  or clears bit 0 (a release build). In `LispCompiler` it says the same of the
  shift in `add_initial_step`, which overflows when a name is behind 63 scopes
  (15 in the runs); `lisp_programs` is a release build.

## Runs and their bounds

| run | shows | bounds |
|---|---|---|
| `datagram_stream` | window, labels and table coherent; loss and reordering tolerated; refines `AtMostOnceChannel` | window 8, batch 2, look-ahead 4; 11 numbers |
| `key_rotation` | slots, windows and table agree through renewals; no stream is reset or lost early | window 2; 4 pushes in any order; numbers 0 to 2; all labels of a parity equal |
| `agent` | at most one execution, fresh nonces, everything awaited is recognized, no panic | 2 agents, both may initiate; 2 initiations, 3 sends, 1 restart; colliding labels; packets repeated, initiations not |
| `agent_live` | one initiation establishes the stream; what the initiator sends over it runs | 1 initiator, 7 sends, window 5, look-ahead 2, so that a packet may be overtaken by those sent up to 2 after it; neither lost nor repeated |
| `agent_repeated_initiation` | violation: a repeated initiation packet leads to the panic | 4 sends; initiation packets may be repeated |
| `content_packet_length` | round trip, `prepare` never panics, no read past the packet | 6-bit arithmetic, every payload to 140 bytes, every value of the field |
| `noun_codec` | what is decoded is what was encoded or nothing, and nothing only if the length is another number from its other end; truncation noticed; injective; memory bounded | 3-bit bytes; atoms of 0 to 4 and 16 bytes, trees of up to three, two combs of ten and twelve atoms |
| `noun_codec_round_trip` | violation: an encoding is not read back if its length is another number from its other end | the same |
| `lisp_programs` | accepted exactly if well formed; of a program in reach, what comes back is what it means, and only the ticks keep it from coming | some sixty programs, among them those of the compiler's tests; two of them also with every token left out, repeated or exchanged for a bracket; 0 to 60 ticks, and 1000 |
| `lisp_documented` | violation: four programs do something else than a test, an assertion or `src/vm/Spec.md` says (TLC stops at the first; each alone is enough) | four programs, 1000 ticks, axes of 16 bits |
| `register_vm` | cost bounds steps, requests are paid, faults harmless | 4-bit words, 6 words of memory, all 59049 programs of five words below 9, 8 steps |
| `tick_accounts` | accounts are a ledger and given back like brackets; the stack and every ten steps are paid for; every evaluation ends | 3 accounts, 5 and 2 ticks, charges of 0 or 1, one opcode of each kind |

Why the bounds are enough. The window of 8 keeps the order and the gaps of the
code's constants: one batch, look-ahead of two batches, and four positions
between; eleven numbers move it, skip over a whole batch, and bring packets
from before and beyond it. The proofs cover all other sizes. Four pushes reach
every pattern of the four slots and push a stream out of each. Two sessions
with a restart between them and three packets let an old packet, a new key and
a colliding label meet; the window of 2 moves with every packet. The window of
`agent_live` has room for packets that are late by two and is moved past its end by
seven: a third number is too many for it in both ways, as it is given up, or comes
before the window has followed. With 3-bit
bytes the lengths at which a header changes (literal, one byte, one chunk, two,
three) lie within 16 bytes, and a structure fills its byte exactly or not. The
lengths of the two combs are read as greater ones (10 as 17, 19 as 26), so that
the reader takes bytes of the structure for atoms and goes on. The
register machine's operands are addresses, lengths and jump targets at the same
time, so small values hit every limit. The lisp runs keep the byte at its 8 bits
and shorten a usize to two bytes, so that an axis takes one byte or two and a
number fits TLC's 32 bits; an allocation is bounded by 100 bytes instead of ten
million, which no program comes near. Most of the programs need fewer than 60
ticks, so every place where they can run out is met. Five ticks and two let the first account
execute as the second, that one as the third, and that one as the first again,
with a failure at every depth; the opcodes that are left out behave like one
that is in.

Deadlock is not checked: every model stops, when its bounded calls are used up
or the evaluation has ended.

Fairness. `Agent!FairSpec` asks for weak fairness of `PacketTaken` only: a
packet that a running agent could handle does not stay on the network for
ever. That is an assumption on the network and the host, that they deliver
what they hold; the code is a handler and takes no step unless called. Nothing
is assumed of the host's own calls. It also assumes `InTime`: no content packet
is handed over ahead of one that was sent more than `Tolerance` numbers before
it. A stream makes no promise beyond that: it gives numbers up when the window's
look-ahead is touched (`stream.rs:147-171`), 40 numbers later in the code, and its
window follows by one batch for each packet, so that after some late packets it
has room for less than half of itself ahead. `Tolerance` is the smaller of the
two, 31 in the code; with one more, `InitiatorsProgramsRun` is violated.
Under a network that loses packets no
progress property holds, for nothing is sent again: the model says so by having
no such property, not by assuming more. `TickAccounts!FairSpec` asks for weak
fairness of the whole step: the evaluator is one thread that never waits, and
the engine it calls returns.

## What is proved

`DatagramStream_proofs`, for every window, batch and look-ahead with
`Batch <= Lookahead` and `Lookahead + Batch <= Window`, every number of
messages and both builds: type correctness, `LabelsMatchNonces`,
`WindowMatchesExpected`, `NeverAheadOfWindow`, `ReorderTolerance`,
`BurstTolerance`, and that the stream implements `AtMostOnceChannel`. None of
them is inductive alone. The invariant `IInv` adds what the code relies on
silently: the buffer holds the batch the index is in the middle of; the top
batch of the window is always awaited (which is why a window that moves one
batch at a time never falls behind); accepted numbers lie below that batch; and
no accepted number is expected again, which carries at-most-once. Each action
preserves it, `Receive` by the cases of a late number, a window that moves and
one that stays.

`ContentPacketLength_proofs`, for every field width, header, slack and
payload: the round trip, that `prepare` never panics, as the draw has a value to
draw and the sum fits the field, and that the slice lies in the packet. The argument is one lemma about
quotients (a draw below the limit leaves room for one more multiple) and one
about remainders.

`RegisterVm_proofs`, for every word size, memory size, price and program: type
correctness, `CostBoundsSteps`, `RequestsCharged` and `FaultsLeaveState`. The
bound on the running time needs the invariant that steps are at most
`cost * MemoryMax` plus the program counter, cut off at the end of memory:
instructions that cost nothing move forward, and past the memory only invalid
instructions are read. The proof uses that memory ends before the last words of
the address space, so that the program counter does not wrap (`VmAssumption`;
2^20 against 2^32 in the code).

`TickAccounts_proofs`, for any accounts, grants, opcodes and charges: type
correctness, `CallersRestored`, `DepthPaidFor`, and that the evaluator
implements `TickLedger` (`LedgerKept`). A first lemma sorts the actions into
three kinds: a step within one invocation, one that opens a body, one that
closes it; all else follows from the kinds. The ledger needs the invariant that
the account an evaluation starts as is either executing or in the map, or it
would be granted ticks a second time on its return. The depth needs that a
frame which has read its formula is paid for, and only the top one has not. Time is
paid for too (`StepsPaidFor`): every frame weighs the steps it can still take
before it charges again, `Progress` is ten times the ticks spent less those
weights, and every step makes it grow. What is spent and what is left add up to
what was granted, over any listing of the accounts (`SpentIsGranted`), so an
evaluation takes at most ten steps for each tick granted, and two
(`TicksBoundSteps`). That is the part of `Terminates` that is safety; that a next
step is always possible is `ENABLED`, and stays with TLC.

`NounCodec_proofs`, for every byte of two bits or more, every limit and every set
of nouns. The first half is about data: digits and powers, headers, atoms, the
prefix, the structure. tlapm knows nothing of `^` and the recursion theorems of
the library take operators, so powers are a recursive function, and one lemma,
`Recursion`, gives functions on the naturals their equations. It ends with two
theorems. `ReadBackIfSymmetric`: a length is read as it was written exactly if it
is the same number from both ends and fits a usize. `SerializationInjective`: different nouns have
different serializations, as the prefix gives the length of the atoms, the
structure tells cells from atoms, the atoms are cut off node by node, and no noun
is the beginning of another.

The second half is about the reader. `Kept` says that the buffer holds the
serialization of the noun, or less or more of it. `Outcome` is for a length that
was read as it is: after k nodes the reader holds the first k nodes of the noun,
the atoms left are what the encoding of all has after that of the first k, the
bits left fit, and the nouns to come are those that k nodes leave open; the
buffer was changed exactly if the structure has not the size it should
(`Reads`). `Astray` is for a length that was read as another one. The boundary
between atoms and structure is then in the wrong place, and the reader cuts the
same atoms off into some other tree. `Strays` counts them: nodes read less nouns to
come are twice the atoms met, less one, whatever the bits say. Fewer atoms with
more structure, or more atoms with less, are never both used up, so the reader
accepts nothing. From the three follow `ReadBackOrRejected`, `LengthChangeNoticed`
and `MemoryBounded`; `SerializationIdentifies` is the theorem on data. Assumed are
that the nouns are nouns, that a prefix has at least two chunks, and that
`MaxLength` is below the numbers that fill them (1,000,000 against 2^63 in the
code), so that every length that is written has as many chunks as the reader takes.

`StreamCluster_proofs` is about the table, as a value. It says which packets are
listed under which identifier (`Lists`) and that none is listed twice
(`NoRepeats`), and not in which order: the order decides which candidate is tried
first, and what follows has to hold for each. The table is filled and emptied by
loops, recursive functions in the model, so the lemmas take inductions. Without
the induction theorems of the library, which the provers cannot instantiate, they
are made with the least number for which a claim fails (`Least`). The main one
for arrivals, `ListedIsInside`: what is found in a table that matches the windows
is awaited by the stream with its key, so the panic is not met. The others say
that a packet that is taken, and the numbers announced and abandoned with it,
change the table for its key alone, and as they change the window.

`KeyRotation_proofs`, for every window and any number of pushes and packets: type
correctness, `SlotsMatchSeeds`, `StreamsNeverReset`, `OneRenewalKeepsStream`,
`TableMatchesWindows` and `NeverAheadOfWindow`. The invariant adds that the seeds
in the cluster are the last two of each kind. From it follows that no two slots
hold the same key, and that a new stream never has the key of another, nor of
anything the table lists: the entries of streams long gone, which the code never
removes, are for older seeds. A step then carries each stream from a slot to a
slot, drops it with one of its seeds, or makes a new one (`OnlyCarries`), and the
two action properties are read off that.

`Agent_proofs`, for any number of agents, calls, restarts and packets, any window
and any key stream, colliding or not. Five results, along one argument:

1. `ExpectedNamesNeighbor`, without an assumption, even when initiation packets
   are repeated. The invariant `Base` is that packets, clusters and tables have
   their shape and that what is listed is expected from a neighbor that is kept.
   An entry of `neighbors` is replaced but never removed, except by a restart,
   which empties the table with it.
2. `NonceUsedOnce`. From here on no initiation packet is repeated. Agents forget
   their seeds, so no state says whose a seed was. `IInv` says that there is some
   assignment of seeds to pairs of agents, the one that drew it and the neighbor it
   was drawn for, that every cluster, every initiation packet under way and every
   packet sent agrees with; drawing a seed extends it. It adds that an initiation
   packet under way is news to its receiver, in its cluster and in what it has
   sent, and that every packet sent is below the outgoing index of any stream its
   sender still has under that key. Two packets under one key then come from the
   same end, with different indices, or from different ends, with different parity.
3. `NeverAheadOfWindow`. By `IInv` the streams an agent has with one neighbor have
   different keys, of seeds drawn by now and not of one still under way
   (`AllKeyedApart`). `TableInv` says the same of the keys the table lists, and
   that for each stream it lists exactly what the window awaits. A new stream
   therefore never finds entries of its own, and each step keeps table and
   windows together.
4. `AwaitedIsRecognized`. Each packet carries the label and the nonce that its
   receiver, comparing the two identities from its own side, expects for the
   number (`LabelledAs`). If the window awaits the number, the table lists it, so
   some candidate decrypts the packet and the search does not stop before it.
5. `ExecutedAtMostOnce`: the agents and the network implement `AtMostOnceChannel`.
   A packet is `Spent` if no initiation packet on its way can give its receiver
   the key again, and every stream that has the key is past its number or has
   taken it. A packet that is taken was not spent and is from then on; and it
   stays so, since a stream of a later state continues an earlier one with its
   key, or has a key of a seed that is new to the receiver (`StreamsFollow`).
   `ExecInv` says that the packets of all executions are spent.

The assumption that initiation packets are not repeated is needed: key material
that is pushed twice makes a second stream for the same key, which counts from 0,
and run `agent_repeated_initiation` leads from there to the panic.

`NoneAssumption` of module `Streams` says that the Option without a value is no
number and no stream, and `AgentAssumption` that it is no entry of `neighbors`;
the proofs need that and TLC has it from a model value. `MaxSends` bounds only
the calls of `send_to`.

The assumptions on constants are the named `ASSUME`s of the modules; TLC
evaluates them on every run.

Only model-checked: the programs (`ParsesWhatIsWritten`,
`CompilesWhatIsWellFormed`, `MeansWhatItSays`, `OnlyTicksStopIt`). The parser, the
compiler, the evaluator on nouns and the reference are `RECURSIVE` operators over
trees, about which nothing can be proved here. Liveness is out of the prover's
reach too: `StreamEstablished`, `InitiatorsProgramsRun` and `Terminates` are
checked, not proved.

## What the checks found

* A repeated initiation packet ends in the panic that `stream.rs:141` calls
  surprising (`agent_repeated_initiation`).
* Serialized nouns with 256 or more bytes of atoms are not read back
  (`noun_codec_round_trip`), unless that number's bytes are the same from both
  ends, as those of 257. They are rejected: it is proved that none is ever taken
  for another noun.
* Positions of 256 and more in a subject are written in one byte order and read
  in the other: the program of the test `axis_optimization` ends with
  `IndexOutOfRange` (`lisp_documented`).
* `build_into_dense_tree` pairs values and `dense_tree_positions` counts levels;
  they put the leaves in the same places unless pairing leaves a value over in
  two rounds. The counts 5, 9, 10, 11 and 13 are the first: the third of five
  names gets itself and its neighbor (`lisp_documented`).
* The assertion in `combine_axis_indices` that no bits are lost cannot fail:
  `overflowing_shl` reports only shifts by 64 and more. A path that is too long
  ends somewhere else (`lisp_documented`).
* `src/vm/Spec.md` says that 0 is true; `is_cell`, `equal`, `if` and their tests say
  1 (`lisp_documented`).

Noticed while modelling, without a run:

* `own_current_acknowledged` is never set (`stream.rs:186`, `222`), so a cluster
  with both streams always prefers the one with its previous seed.
* `exec_jump_if_zero` jumps when the word is *not* zero (`vm.rs:208`).
* The comment at `content_packet.rs:84` gives another formula than the line it
  describes; the mutant `EncodedAsCommented` shows that the code's is the right
  one.
* A buffer of the last 28 lengths below 2^32 is accepted by `prepare` and refused
  by `decode`.
* The compiler panics, rather than returning an `Err`, on a call without
  arguments, a `let` without names, an empty list, and the index 0 of a name.
  `(generate_keypair)` compiles to an atom that is no formula.
* `add_initial_step` shifts a `u64` by 64 when a name is behind 63 scopes: a panic
  in a debug build, another position in a release build (`compile.rs:116`).
* A window holds a number for 40 later ones, but follows a packet that jumps by
  one batch only: if packets may be overtaken by 32 later ones, and some that came
  early are followed by others that come as early, one of them lies past the
  window and is dropped.
* A call does not compare the number of its arguments with the parameters.
* `shape` writes lengths with the most significant byte first, and `reshape`
  reads them with the least significant first.
* `reshape` walks over empty atoms for nothing (`shape.rs:75`), and goes on
  through the rest of the noun once its ticks have run out.
* `xor` pairs bytes from the first on, `add` and `less` from the last.

## Not modelled

* The layout of initiation and content packets, identities as bytes, and the
  REPL are copying and printing. Signatures, sealed boxes and checksums always
  verify: module `Agent` has no packet that is forged or damaged, and only
  `ContentPacketLength` lets the length field be anything.
* The tokenizer turns characters into tokens and keeps no state.
* The values that the evaluator hands to storage, randomness, encryption and the
  network, and what comes back. `TickAccounts` has those opcodes with their
  control and their charges; `Evaluator` has the other fifteen, with nouns.
* Atoms of 32 bytes and more as numbers (`noun.rs:110`).
* Which representation a noun has in memory: short atoms are kept in place in
  the code, and no operation shows it.

## Plan

The order was: the stream and its proofs; the table, the cluster and key
renewal; agents and the network; the length field; the codec; the register
machine and its proofs; the evaluator's accounts and their proofs; the compiler
down to the result of its programs; the proofs about clusters and agents; the
proofs about the codec. What is left:

1. The evaluator's opcodes that use the engine, on nouns: what is stored under a
   key is what is retrieved, through the codec.
