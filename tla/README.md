# A verification project for MSCourseWork

The repository collects the course work of one student: threads and signal
processing on embedded systems, network programs, digital circuits, a G.729A
speech codec and an H.264 decoder that were optimised, and image processing
scripts. This directory models the parts that keep state or compute in a way
that can go wrong where a test seldom looks: TLA+ modules, TLC runs over small
instances, and theorems that TLAPS checks for every instance.

Paths are relative to `src/`; `H264/` stands for
`EmbeddedSystem/H264_C_codeOptimization/SourceCode/`, `G729/` for
`EmbeddedSystem/Assignments/G729a_C_optimized/`, `ASIC/` for
`Adv ASIC Design and FPGA/`.

Contents: 1 the system and its hazards; 2 the plan; 3 the modules; 4 the runs,
their bounds and their fairness; 5 the proofs; 6 what was found; 7 what is not
modelled.

## 1. Inventory

### 1.1 Programs with processes, threads or messages

**Producer/consumer buffer** (`EmbeddedSystem/Assignments/main_pthread.c`).
*State*: `buffer`, its fill count `counter`, a mutex, the semaphores `empty` and
`full`. *Operations*: two producers and two consumers loop through sleep,
`sem_wait`, lock, `insert_item` or `remove_item`, unlock, `sem_post`; `main`
creates them, sleeps and calls `exit(0)`. *Hard*: the right to a slot is taken
before the mutex and used after it; `counter++` is a load and a store. *Correct
if* no item is lost, doubled or invented, the error branches are never taken and
nobody waits for ever.

**Parallel dot product** (`EmbeddedSystem/Assignments/dotprodct_pthread.c`).
*State*: two vectors, a shared sum behind a mutex, a partial sum per thread.
*Operations*: create, multiply a slice, add, join, print, free. *Hard*: `+=` on a
shared word, freeing what threads read. *Correct if* the printed sum is whole and
nothing freed or foreign is read.

**Chat server** (`NetworkProgramming/Assign2/chatservr.c`) and its client.
*State*: parallel tables of descriptors and names, the descriptors of the
process, what waits in the sockets. *Operations*: a loop around `select()`:
accept, then walk the table and read from everything readable; `-name=` renames,
everything else is broadcast; the end of a connection compresses the tables under
the walk. *Hard*: the set of readable sockets is older than the table it is used
on; a write to a reset socket raises SIGPIPE. *Correct if* tables and open
descriptors agree, `read()` never blocks, every message is heard by exactly those
present, and nobody is starved.

**Chat server with logging children** (`NetworkProgramming/Assign3/server2.c`,
`client2.c`). A table of clients and their numbers; a forked child writes each
new number to a log. *Hard*: SIGCHLD interrupts `select()` in the middle of a
round; rows are freed and taken again; the children inherit the connections.
*Correct if* `nready` counts what is still to be served, numbers are never mixed
up, `wait()` in the handler never hangs, and a user who leaves is let go.

**UDP chat** (`NetworkProgramming/Assign3/listener.c`, `talker.c`). A table of
addresses; the first datagram of an address registers it, later ones are sent to
all rows. *Hard*: datagrams are lost, doubled and reordered. *Correct if* each
address has one row and each text is quoted under the right number and heard by
all.

**Welcome server** (`NetworkProgramming/Assign1/server.c`, `client.c`). One forked
child per connection, which nobody waits for. *Hard*: parent and child close the
same connection in either order; zombies fill the process table. *Correct if*
only who was refused a process goes without a greeting.

### 1.2 Clocked and combinational circuits, filter

**8-bit RISC processor** (`ASIC/8bitRISCProcessor`): program counter, ROM,
register file, ALU, memory, control words, instruction switches; its **board
wrapper** divides the clock and multiplexes four digits. **Multiplier and sequence
detector** (`ASIC/Assign4`): state machines. **Adders and multipliers**
(`ASIC/Assign3`): combinational. **FIR filter**
(`EmbeddedSystem/Assignments/FirFilterMain.c`): a circular buffer. *Correct if*
each computes the function its bench checks by example: instructions, digits,
`0111` in the input, products, sums, a convolution.

### 1.3 G.729A speech codec (`G729/`)

**Basic operators** (`BASIC_OP.C`): saturating arithmetic with two global flags.
**Bit stream and frames** (`BITS.C`, `P_PARITY.C`, `PITCH_A.C`, `DEC_LAG3.C`,
`DE_ACELP.C`, `DEC_LD8A.C`): parameters to words and back, parity, concealment.
**Synthesis, LSP and correlations** (`FILTER.C`, `LSPGETQ.C`, `LPC.C`).
**Memories** (`LSPDEC.C`, `QUA_LSP.C`, `GAINPRED.C`, ...): what coder and decoder
remember from frame to frame. *Hard*: unrolled sums that wrap where the original
saturated; memories that differ after an erasure and must meet again.

### 1.4 H.264 decoder (`H264/`)

Its parts call one another in the order

    NAL units -> parameter sets -> slice header -> init_picture (gaps, order count)
      -> reference lists -> macroblocks (syntax elements, coefficients, motion,
      contexts, prediction, residual) -> loop filter -> exit_picture
      -> decoded picture buffer -> output

**Decoded picture buffer** (`mbuffer.c`, `image.c`): frame stores, two lists of
references, and a pool of pictures that the optimised decoder recycles by a flag.
*Hard*: long sequences of legal commands; marks kept three times; the flag must
follow every removal. **Order count and reference lists** (`header.c`,
`mbuffer.c`). **Units** (`annexb.c`, `nalu.c`, `rtp.c`, `nal.c`): start codes,
emulation prevention, end of file. **Parameter sets** (`parset.c`,
`parsetcommon.c`): sets overwritten while a picture may be open. **Slices** (`fmo.c`,
`image.c`, `macroblock.c`): slice groups, neighbours by slice number, the count of
macroblocks that closes a picture. **Macroblock layer** (`vlc.c`, `macroblock.c`,
`predict.c`, `mc.c`, `loopFilter.c`): tables, contexts and shortcuts, all of which
must come to what the sender has. Error concealment and CABAC are compiled but not
reached.

### 1.5 Hazards

`PROJECT.json` lists forty hazards at their lines, with the properties that watch
each. The properties below were chosen from that list. Seven have no property,
for the repository does not say which outcome would be wrong, or the code does not
fix one; the models make the step that the code makes and the property next to it
names the case and leaves it out:

| Hazard | Left out by |
|--------|-------------|
| `H264/parset.c:622`: the flag looked at is that of the IDR picture before | `WritesInOrder` is checked for streams that never set it |
| `H264/mbuffer.c:1267`: the empty entry behind a short list is read | `ListsRight` says exactly when, and no more of those headers |
| `H264/macroblock.c:966`: a PCM macroblock keeps old references | `PicturesRight`, for vectors predicted from it |
| `H264/macroblock.c:1906`: sub-macroblocks of P slices beyond the baseline | `PicturesRight`, for these and what is predicted from them |
| `G729/FILTER.C:104`: a sum beyond 32 bits sets no `Overflow` | `SpeechNumbersRight`, for sums that cannot be represented |
| `NetworkProgramming/Assign3/server2.c:195`: -1 of a reset connection is taken for data | `NumbersRight` speaks of quotes while the server is up; SIGPIPE ends it in that round |
| `NetworkProgramming/Assign3/listener.c:161`: the third receiver's text is ended outside the buffer | `AllButThirdHear` leaves that receiver out |

Of `H264/macroblock.c:555` the wrap of the slice number to negative values is
covered; that in a picture of more than 255 slices a number equals the mark of a
macroblock not yet decoded, or comes again, is not.

## 2. Plan

Done: every component of 1.1 to 1.4 that is reachable has a module; safety of all
concurrent programs, of the picture buffer, the units read from a stream, the
reference lists, the order counts, the slices, the parameter sets, the speech frames
and the codec's memories is proved for every instance, and both refinements of
section 1.1 and the one of the picture buffer are proved step by step.

Left, in this order:

| Next | Where | What it needs |
|------|-------|---------------|
| the gain-scaled and spread vectors of `SpeechNumbersRight` | `SpeechFilters` | sums of any length, as induction over data |
| B slices, SEI messages | new operations | more of `mbuffer.c`, `macroblock.c`, `sei.c` |

## 3. The modules

Each module keeps the names of the code. External parts (users, TCP, UDP, the
kernel, senders of streams) are actions of their own, which may do whatever the
real ones may. Operators marked `Mutant:` are plausible slips at the line they
belong to; no specification uses them.

### 3.1 Threads: BoundedBuffer, BoundedStack, DotProduct

`BoundedBuffer` has one action per step of a thread: `Generate`/`Awake` (the
sleep), `WaitEmpty`/`WaitFull`, `Lock`, `InsertItem`/`RemoveItem` (test and
access), `InsertCount`/`RemoveCount` (the store of `counter`), `Unlock`,
`PostFull`/`PostEmpty`. The value of `counter` loaded by the test is kept in
`seen` until the store, so that only the mutex makes the two one. `Exit` stops
everything wherever it is. The error branches of `insert_item` and `remove_item`
record the thread in `failed` and post the semaphore all the same, as the code
does. `BoundedStack` says what the threads achieve together: a push adds an item
on top, a pop hands the top item to one consumer; the push is the store of
`counter`, the pop the read.

`DotProduct`: `CreateThread`, `AllCreated`, `Join`, `PrintSum`, `FreeVectors` are
main's steps, with its loop index `k` shared by the two loops as in the code;
`Begin`, `Multiply` (one iteration), `Lock`, `Load`, `Store`, `Unlock` are a
thread's. After `free()` the vectors have no elements.

### 3.2 Servers: ChatServer, ChatRoom, SelectServer, UdpChat, WelcomeServer

`ChatServer` (`stage` is where the server stands): `Select` computes the readable
set, `Accept`/`AcceptFails`/`NoAccept` is the middle of the loop, `Read`, `ReadEnd`
and `Skip` are one iteration of the walk each, `RoundEnds` closes it. `i` is the
code's index: it is incremented after a removal too, so that the successor is passed
over. `accept()` returns the lowest free descriptor. A user connects, writes,
closes; `Read` returns one or more of the writes that arrived (TCP keeps no
boundaries); a socket closed by its user may be reset once something was written to
it, and the next write kills the server, after those earlier in the table have heard
it. `ChatRoom` is what users see: members, their names, and what each has heard.

`SelectServer` adds what `server2.c` adds: the arrays `client` and `clientID` with
`maxi`, `nready`, the fork after each accept (`AcceptLogging`, or `AcceptFails` when
the process table is full), the child that writes the log (`ChildExits`), SIGCHLD
that makes `select()` start again (`EnterHandler`, `WaitChild`), the lines read
under a number (`ReadLines`), the read of a reset connection that returns -1 and
is taken for data (`ReadFails`). Children hold copies of all connections: the
user sees the close (`SeesClose`) only when no process holds one.

`UdpChat`: `Talk` sends, `Receive` takes any datagram ever sent - lost ones are
those never received, repeated ones those received twice. `Register` and `PassOn`
are the two branches of the listener. The loop that passes a text on overwrites
its own length and then a byte outside the text; what it hits depends on the
build and is a nondeterministic choice (`AfterTerminating`).

`WelcomeServer`: `Dial`, `AcceptCaller`, `Fork`, `CloseNewFd`, `ChildStep`, `Recv`;
`fork()` returns -1 when the process table is full, which the code takes for the
parent's branch.

### 3.3 Circuits and filter: RiscCpu, BoardDisplay, StateMachines, Adders, FirFilter

One action is one clock edge; the wires between two edges are operators with the
names of the Verilog modules. `RiscCpu` has parameterised widths, arbitrary contents
at power up, reset and instruction switches at any time; what each instruction
should do, by the name that `Control.v` and `rom.v` give it, is `Effect`, and that
an edge does so `Performs`; `EveryEdgeExecutes` leaves open what OR writes (`OrOrs`
asks that) and what follows the last address (`RestartsByResetOnly`). `BoardDisplay`
has an action for each edge of the clock (`Rising` divides, `Falling` multiplexes),
for the reset button, which clears the divider between two edges (`Reset`,
`Release`), and for the instruction switches, which change the processor's outputs
at any time (`SwitchesMove`). `StateMachines` holds the sequence detector, whose
inputs since the reset are kept as a history, and the shift-and-add multiplier.
`Adders` are operators on buses of bits. `FirFilter` keeps instead of floating-point
sums which sample each coefficient was multiplied with: `NewSample`, `Tap`,
`NextTime` are the bodies of the two loops.

### 3.4 Speech codec

`BasicOps`: every operator of `BASIC_OP.C` on `OpBits` bits, with `Overflow` and
`Carry` passed along; `OperatorCalls` calls them one after the other.
`SpeechFrames`: `Coder_ld8a` writes a frame with any results the searches may have,
`Damage` erases it or flips a bit, `Decod_ld8a` decodes or conceals; widths and
tables are the real ones. `SpeechFilters`: the unrolled synthesis filter and its
retry after an overflow, the scaling loop of the autocorrelation, and spreading and
limiting of LSP vectors. `SpeechMemory`: what both sides remember, each value
written as what it is computed from, so that two values are equal only when they
were computed alike; an erased frame leaves `Own` values behind.

### 3.5 Video decoder

`Dpb`: a frame store in use holds one picture and is named by it; `fs` is
`dpb.fs[0 .. used_size-1]`, `slot[p]` the frame store that holds `p`, `pic[p]` the
picture's own flags. The three copies of a mark are kept apart, as their agreement
is in question. `pc` is where the decoder stands:

    idle -SliceHeader-> header -init_picture-> store -> (flush for idr | marking
      -> flush for mmco5 |) -> full -> output -Insert-> next -NextPicture-> idle
    header -FillGap-> store -> ... -Insert-> header
    idle -NewSps-> flush for sps -init_dpb-> idle
    idle -EndOfStream-> flush at end -> done

Each `error()` or `exit()` of the code is a value of its own, and a loop is one
action per iteration. An action stands for a whole handler with the list updates
the code makes in it, and leaves out those the code leaves out (`UnmarkAll` and
`mm_mark_current_picture_long_term` do not refresh `fs_ltref`). Slice headers and
commands come in any order. `PictureOutput` is what the buffer promises of its
output.

`NalInput`: byte streams and packets, read unit by unit by the code's searches; the
sender's framing is `ByteStream` and `Packets`. The two loops that take emulation
bytes out are functions of the number of bytes looked at (`Shortening`,
`Unescaping`), as is the sender's that puts them in (`Emulating`). `ParameterSets`:
sets stored, compared and activated, the profile that `img` takes of any set that
arrives, slices lost; `excuses` records why a sender could not expect the right set
(an unsupported set spoilt the scratch structure, or no slice came after a change).
`PicOrder`: `decode_poc()` of all types against the sender's counts. `RefLists`:
initial lists and reordering against the standard's lists. `SliceDecoding` computes
the maps of `fmo.c`, opens and closes pictures, finds neighbours by slice number (a
`char` that wraps) and counts macroblocks. `SyntaxElements`, `CoefficientCoding`,
`MotionVectors`, `BlockContexts` write what a sender writes and read it with the
decoder's tables and caches. `IntraPrediction`, `Reconstruction`, `Deblocking`
compute samples by the decoder's shortcuts and by the standard's definition.

### 3.6 Composition

`MCSharing`, `MCServers`, `MCData` and `MCVideo` place programs that never meet side
by side: a variable (`program`, `circuit`, `part`) says which of them runs, the
others keep one initial state. A run then answers the same question of each:
`MCSharing` asks of the threads around the buffer and of the chat server with its
users whether what they share stays right, `MCServers` and `MCData` also ask for
progress, for which the chat server has a smaller instance. `MCRisc` and `MCDpb`
only give values to constants. `ChatServer` prefixes its specification with Chat
(`ChatInit`, `ChatNext`, `ChatSpec`), so that it and `BoundedBuffer` can be extended
together. Within the decoder the parts are joined through their histories: what
`NalInput` promises of units is what `SyntaxElements` starts from, the references of
`RefLists` are sets `Dpb` can hold, `MotionVectors`, `BlockContexts` and
`Deblocking` extend `SliceDecoding`.

## 4. The runs

| Run | Instance | Shows |
|-----|----------|-------|
| `sharing` | buffer: 2 producers, 2 consumers, 2 slots, 2 values; chat: 3 users, room for 2, queue of 2, one user writes twice | `TypeOK`, `BufferSafe`, `Accounted`: the semaphores admit as many threads as there are slots and items, no update of `counter` is lost, no error is reported. `SomebodyCanMove`; `ImplementsStack`. `ChatTypeOK`; `TableRight`: the chat server's tables and descriptors agree; `NoBlockingRead`; `ImplementsRoom`. |
| `dpb_marking` | 2 frame stores, 1 reference, all commands, long-term references | `PoolSafe` (nothing needed is decoded over), `MarkingRight`, `KeepsReferences`. |
| `dpb_output` | 2 frame stores, 1 reference, gaps, command 5 | `OutputMakesRoom`, `WindowSlides`, `WritesInOrder` (refines `PictureOutput`), `PictureCompletes`. |
| `dpb_leak`, `dpb_full`, `dpb_index` | see section 6 | Violations: findings 1 to 3. |
| `servers` | logging chat: 3 users, 2 rows, 2 processes; UDP chat: 4 talkers on 2 hosts, 3 rows; welcome server: 2 callers, 1 process; the buffer | `RoundsSafe`, `NumbersRight`, `UsersServed`; `TalkersRight`, `AllButThirdHear`; `UnansweredOnlyIfRefused`, `EveryCallerAnswered`; `BufferNeverStalls`. |
| `data` | each circuit, the filter with 3 taps and 7 samples, the dot product with 4 threads; chat: 2 users that both write, queue of 1 | `CircuitsRight`, `Convolves`, `PartsAddUp`, `EveryEdgeExecutes` (each instruction does what its name says, but for OR), `AllGoOn`; `ChattersServed`: what is written is read and who leaves is removed, unless SIGPIPE kills the server. |
| `multplr_carry` | all factors of six bits | Violation: finding 4. |
| `risc_or`, `risc_stop` | the program of the ROM on the processor | Violations: findings 5 and 6. |
| `codecs` | the parts of both codecs | `FramesRight`, `SpeechNumbersRight` (operators, filter, vectors, correlations), `HistoriesAgree`, `SlicesRight`, `UnitsRight`, `OrderRight`, `ListsRight`, `ParametersRight`, `PicturesRight` (maps, macroblock layer). |

Every property of a passing run has a mutant, a slip in a definition that models
code which makes TLC find that property violated under the same configuration.

### 4.1 Bounds

*Threads.* Two of each kind and a buffer smaller than their number make every value
of the semaphores and every pair of places occur; the theorems hold for any number.

*Servers.* Three users are needed for a removal in the middle of a table of two and
the refusal of a third; two writes make TCP merge them (`MaxSent`, `May`,
`MaxLines` bound what is written, not what may happen to it). Two processes let one
fork fail. Four talkers on two hosts share ports and hosts in every way, three rows
leave one of them out and include the third, which the listener may overwrite.

*Picture buffer.* Two frames with one reference already give a reference, a frame
that waits, and a picture being decoded; values of
`frame_num` with a gap between them, counts of which one can come too late, two
indices to share. The names in `Gaps`
are one more than the buffer holds, so that a gap can always be filled.

*Circuits.* Width 5 and 4-bit register numbers keep the processor's program and its
overflow; the two violations run that program, without the switches. The adders are
checked on all 4-bit inputs, the six-bit multiplier on all of them, the sixteen-bit
adder on edge values; a filter of three taps goes twice round in seven samples; a
detector sees every input of ten bits (`MaxBits`).

*Speech.* `OpBits` = 4: every operand of a 4-bit word, edge values of the 8-bit
double word. Frames at real widths with first lags at both ends, second lags at
both ends of the range. `MaxGood` = 6 is more than the four frames the moving
average remembers and the fraction that smoothing adds.

*Video.* Pictures of 3 by 3 macroblocks have a macroblock with all neighbours; one
early end of a slice and one loss in each picture; a `char` of six values
(`HalfChar` = 3), so that the number of the fourth slice of a picture is negative.
`MaxFrameNum` 4 and counts of 8 wrap within four pictures. Every number of active
entries against every set of references. Up to four parameter sets and three
pictures of two slices. About 2,150 sequences of syntax elements at every offset in
a byte; 1,091 blocks that meet every entry of the coefficient tables; P slices of up
to six macroblocks in every cut; all sixteen patterns of coded quarters in the
middle of coded neighbours; every intra mode with every set of neighbours; every
fraction of a sample and every cut, quantizers from 0 to 51; the kinds of
macroblocks around an edge in all pairs.

CHECK_DEADLOCK is off because every program here may stop: by `exit(0)`, by
returning from main, by a signal, or by running out of users or stream.

### 4.2 Fairness

*Threads* (`BoundedBuffer`, `DotProduct`): a thread that can take its next step
eventually does; the scheduler is preemptive and the sleeps end. Weak fairness of
a thread's locking steps is enough, since the run shows that producers and
consumers as classes go on, not that a given one is never overtaken. `ChatServer`:
the server runs (`WF(Server)`), and `accept()` does not fail every time it is called
(`SF(Accept)`): a failing `accept()` ends the round before the walk, and users that
connect and give up without end could otherwise starve all others. `SelectServer`
and `WelcomeServer`: the server, its children, the delivery of a pending signal and
the close as the user sees it each happen when they can. `RiscCpu`, `BoardDisplay`:
the clock ticks. `Dpb`: the decoder runs, and the list of commands of a slice header
ends (`WF(MarkingEnds)`), as the stream is finite. Nothing is assumed of users,
networks or the contents of streams.

## 5. What is proved

All theorems hold for every value of the constants, under the named assumptions
of the modules, which TLC evaluates in the runs, and under the hypotheses given
here. Each proof has the same shape: an invariant `I` with `Init => I`,
`I /\ [Next]_vars => I'` (one lemma per action, one step per conjunct it can
disturb), and `I => P`; TLC checked `I` on the small instance first.

### 5.1 BoundedBufferProofs

`TypeCorrect`, `Exclusion`, `ErrorFree`, `NoLostUpdate`, `Accounting`. None of
these is inductive alone: that `insert_item` finds room follows from the
accounting of slots, the accounting from mutual exclusion (else a stale `seen` is
stored), and the range of the semaphores from the accounting. The invariant
`IInv` is their conjunction; its heart is that each step moves one thread between
the counted sets (lemma `MoveCount`).

`NobodyHarmed` (`BufferSafe`) adds `Held`: the slots below `counter` hold items,
so that nobody takes from an empty one. It needs that the mark of an empty slot
is no item (`ItemsAssumption`). `NoDeadlock` (`SomebodyCanMove`) follows from the
accounting, for a buffer that holds something, at least one producer and one
consumer: without a slot nobody could ever move. `IsStack` (`ImplementsStack`):
every step of the threads is a push, a pop or a stutter of `BoundedStack`. The
mapping is right in the middle of an insertion because the slot is written
before `counter` counts it, and in the middle of a removal because `Held` says
what the slot holds that `counter` still counts.

### 5.2 ChatServerProofs

`TablesAgree`, `PlacesAgree`, `TableCorrect`, `ReadsNeverBlock`. The last needs
`StillReadable`: every row still to be walked whose descriptor is in `fdCheck`
belongs to the connection `select()` saw and still has input, although rows moved
up and one was added; a new descriptor may be one in the old set only if it was
closed in this round, and the accept comes before the walk. `TypeCorrect` adds
`Bounds` on the loop index and `nready` (users are finitely many, `UserAssumption`).
`IsRoom` (`ImplementsRoom`): the members of the room are the rows of the table;
the hard steps are the removal, which moves rows and names together, and the
broadcast that SIGPIPE cuts short.

### 5.3 DpbProofs

`TypeCorrect`, `Recycling`, `Marks`, `Lists`, `MarkingCorrect` (`MarkingRight`),
for any stream. `IInv` adds that the picture to be decoded after a gap stays empty
while the gap is filled (`GapLeavesPicture`), and that the lists are right from the
moment a picture was stored (`ListsRight`). Most steps only mark (`Remarks`) or only
remove (`Shrinks`); the lemma `QuietStep` handles both once.

`Accounted`, `PoolCorrect` (`PoolSafe`), `PoolSuffices`: no picture of the pool is
lost and the search for an empty one succeeds. `PoolSuffices` counts: if no picture
of the pool is empty, all `Size + 1` of them are in `Size` frame stores.
`PoolSuffices`, `NoneLost` (`KeepsReferences`) and `WritesOrderly` (`WritesInOrder`)
are for streams that never set no_output_of_prior_pics_flag; `dpb_leak` shows what
happens to the others. `WritesOrderly` is a refinement: each step of the decoder is
one of `PictureOutput` or a stutter. The mapping takes what waits in the frame
stores (`Waits`), `last_output_poc` and whether the decoder runs. Each action only
marks (`OnlyMarks`), removes a frame that does not wait (`Removes`), writes the
smallest count that waits (`Outputs`), starts a sequence from an empty buffer
(`StartsOver`), or stores the picture at hand; the one that empties a buffer in
which frames wait (`Drops`) is what the hypothesis rules out.

`RoomToOutput` (`OutputMakesRoom`) assumes more frame stores than `max(1,
NumRefFrames)`. The invariant `RoomInv` says that the references held are no more
than that (`RefsFew`), that a flush left none (`FlushInv`), and that whatever can be
removed was before a frame is output to make room (`RoomMade`): in a full buffer
some frame is then no reference and waits. `dpb_full` shows the assumption is
needed.

`WindowKeeps` (`WindowSlides`) assumes at least one reference frame and a stream
without long-term references (no command 3 or 6, no long-term IDR picture). The
invariant `SlideInv` says that no mark is long-term, that `fs_ref` lists the
references held when the picture is stored, and that the window slid by one when
it was full. The two excluded cases are real exits of the program, not gaps of
the proof: with all of num_ref_frames long-term, or num_ref_frames = 0 and a
reference picture, the window finds no short-term picture to drop and the
program ends with an error message.

### 5.4 ServersProofs

`RoundsRight` (`RoundsSafe`) and `NumbersTruthful` (`NumbersRight`), for any
numbers of users, rows and processes. The invariant `SelInv` has four parts. The
table: rows are connections, and every user sits in one place, outside, in the
queue or behind one descriptor (`Seats`). The round: `nready` counts the rows of the
descriptors `select()` reported that the walk has still to come to
(`NreadyCountsRest`), the listening socket is counted only while a caller waits
(`AcceptReady`), and who was due stays due until served (`DueStay`). The
handler: each signal under way stands for a zombie. The numbers: a row's number is
the one its user was told (`RowNumbers`), nobody else was told it (`NumbersOnce`),
and children log numbers of their users (`Logged`). That a read of a reset
connection quotes nobody wrongly rests on one remark: such a read always ends the
server, since the write that follows meets the same connection.

`TableOfTalkers` (`TalkersRight`) and `TextsReachAll` (`AllButThirdHear`): `UdpInv`
says that rows below `NumClients` are addresses of talkers, one each (`OneRowEach`,
`Address`), that the copy the listener sends to equals the address in all rows
but the third (`Rewritten`), and that everybody was welcomed once, by the number in
the row (`Numbered`, `Told`, `WelcomedOnce`). Nothing is assumed of the network.

`GreetedOrRefused` (`UnansweredOnlyIfRefused`): `WelInv` says where every
caller is: in the queue, with the parent, with a child, or refused (`Accounting`),
and what the parent's fork left for the connection it holds (`Forking`).

### 5.5 DataProofs

`TypeCorrect`, `NothingLost`, `SlicesSafe`, `PrintedRight`, `SumSafe` (`PartsAddUp`),
for any numbers of threads and elements: the invariant adds what a thread's partial
sum is at each place, that a loaded sum is current while the mutex is held, and
which threads are joined.

`FilterConvolves` (`Convolves`), for any numbers of taps and samples: `Buffered`
says that the place so many steps back round the circular buffer holds the sample
of so many times before, `TapAt` that the read index is that place. The wrap
appears once, in the lemma `BackPlaces`.

`DetectorCorrect` (`DetectorRight`), for any number of bits between resets: `EndsBy`
says what the inputs end in, by state, so that a detection implies `0111` after a
one; `FollowsBench` says where the machine is after leading zeros and each prefix
of the bench's sequence. `BoardCorrect` (`BoardSafe`), for any dividers: the counter
lies within the digit that is lit (`CounterInDigit`), so that the comparisons for
equality never miss, and no two digits look the same.

### 5.6 CodecProofs

`MemoriesAgree` (`HistoriesAgree`), for any codes and any erasures:
`PrefixesAgree` says that with each good frame one vector more of the moving
average and two energies more are alike, newest first; the properties of section
3.4 are where these prefixes are as long as the memory.

`SetsRight` (`ParametersRight`), for any sets, changed in any order, and any
slices lost: the table holds what was sent, but for the profile of a set the
decoder does not know (`SentStored`), the buffers have the size of the active set
(`SizedRight`), an open picture has the buffers' (`OpenRight`), and decoder and sender
use the same set unless an excuse says otherwise (`SameUse`, `SpoiltExcused`,
`NullExcused`). The proof found a fault of an earlier version of the model: it
dropped the excuse of an unsupported set when the decoder took a good one, though
another table entry could still be spoilt, which needs more sets than the run sends.
The excuse now lasts until no entry is spoilt (`NoneSpoilt`); TLC agrees with
six sets as well.

`SpeechFramesRight` (`FramesRight`), for any results of the searches and any damage
to the lag's words. The invariant `FrameInv` says what is under way and what became
of it: `sent` is a frame the searches can find (`IsFrame`), the words are those
`Coder_ld8a` wrote, erased or with one bit turned over (`Arrived`), the decoder's
last lag is one of 20 to 143, and what was decoded follows from these three
(`IsReceived`). Under it lie lemmas on the words: a parameter is read back from the
bits written for it (`ParameterBack`, from the bits of a number below 2^13), turning
one bit over changes one parameter (`ReadTurned`), the parity notices each but the
two lowest bits (`ParityCaught`), the inverse tables and the thirds and fifths of
`mult()` undo the coder's (`FirstLagBack`, `SecondLagBack`, `PulsesBack`,
`GainsBack`, `LspBack`). The second lag is read after whatever lag the decoder took
for the first, so that the reads of the excitation stay inside for every pair of
lags, also those no coder writes. The assumption types what the searches return by
the sizes of the codebooks and the tracks of the pulses.

### 5.7 RefProofs and SliceProofs

`RefListsRight` (`ListsRight`), for any slices, references and commands. The
assumptions are those a decoded picture buffer gives: references are finitely many,
no two have the same number of the same kind, none has the slice's own order count,
and the lists have room for one entry more than are active, as in the standard's
process. The invariant `ListsInv` adds to the property that the sender's list is the
one made by the commands so far (`AsWanted`) and that the decoder is at the command
and list whose turn it is (`InTheirTurn`). The heart is `MovedAgree`: the code shifts
entries up, writes one and closes the hole in one pass, the standard's definition
takes the entry out and puts it in front; both agree on the active entries, also
when the entry was there before, was not, or stood beyond the end. `Ranked` shows
that a finite set has one sorted sequence, which gives the initial lists;
`NumberMeant` that a difference of frame numbers, taken modulo `MaxPicNum`, names
one picture.

`OrderCountsRight` (`OrderRight`), for any parameter sets of the three types, any
ranges of `frame_num` and of the low part, any frame numbers left out and any
resets. What is assumed is what the standard asks of a sender: a count lies within
half the range of the last reference picture's, a bottom field at most a range
before its top field, fewer than `MaxFrameNum - 1` numbers are left out at once
(else the picture would look like one without a gap), no two non-reference pictures
of type 2 in a row, and no count used twice. The sender counts without any wrap; the
invariant `OrderInv` says how the decoder's counters stand to it between pictures,
while no case named in the property has come up: high and low part add up to the
last reference's count, or will do so after command 5 (`Low`, type 0); the
remembered number and offset add up to the frames counted (`Tracks`, type 1), or to
`D` too many (`Ahead`, type 2, where a non-reference picture at the wrap adds the
range once more for each picture that follows it). With `D` the counts of type 2 are
wrong and yet rise with every picture (`Rising`), which is why `SameOrder` needs
less than `SameCounts`. Filling a gap and adding up offsets are recursive functions
of a number; that they exist (`Recursion`) and that what holds at their start and is
handed on holds all along (`Along`) is proved by a least counterexample (`WFMin`),
as the library's induction theorem is out of reach here. `FilledAre` is what this
gives for a gap, `GapClosed` sums it up. `CyclicSum` shows that whole cycles times
their sum, plus the rest of one, is the sum of the offsets one by one.

`SliceDecodingRight` (`SlicesRight`), for any picture size, map, cuts, losses and
order of slices, as long as the picture has fewer macroblocks than a `char` has
values (`2 * HalfChar`): the numbers then wrap to negative ones and still tell
slices apart (`CharTellsApart`), and none is that of the mark -1. With more slices
than that a number may equal the mark or come again, which the decoder does not
notice (section 6). The invariant `SliceInv` adds what of the picture went by: each
group's macroblocks in scan order (`PastInOrder`), the slice under way (`UnderWay`),
what is decoded among what went by (`DecodedPast`), that an open picture is not
whole and a closed one is, unless it was lost (`OpenOrWhole`), and which macroblocks
carry which slice number (`NumbersSoFar`), stale ones from the last picture
included. That counting macroblocks is enough follows from `num_dec_mb` being the
number of different ones; that a neighbour with an equal number is one of the same
slice from the number of the current slice being new in this picture and from the
reset of all numbers before it.

`UnitsReadRight` (`UnitsRight`), for any stream of units, any payloads and any
zeros. What is assumed of a stream (`IsSent`) is what the standard asks of a sender:
a payload has a header that is not zero and ends with a bit set, a start code has
two zeros at least and one more where zeros trail the unit before, only slices start
a picture, and a slice that starts none belongs to an access unit that has begun.
The invariant `NalInv` says that the units read are the first ones sent
(`ReadRight`), that the reader stands behind them (`ReadTo`), and how the counters
of the start code check stand to the types read (`Counted`). Three arguments lie
under it, each along a function of the bytes looked at. Where units are: `FileIs`
and `BetweenIs` say what stands at each place of the file, `StartIs` and `NextIs`
that the searches find the next start code and not one inside a unit, since what
`Encapsulate` writes never has two zeros and a byte below three (`Plain`);
`NextUnitIs` sums it up. `EBSPtoRBSP()` undoes `Encapsulate` byte by byte
(`EmulationUndone`). `NALUtoRBSP()` does as `EBSPtoRBSP()` up to the first emulation
byte that stands close behind another (`ShortenedAgrees`); there it keeps one that
should go, and as it leaves out nothing but emulation bytes it is longer to the end
(`CloseLonger`), so that exactly those payloads come out wrong. `CheckedIs` ties the
counters to the first unit of an access unit (`FirstIs`).

### 5.8 What only TLC checks, and why

*Liveness* (`ChattersServed`, `PictureCompletes`, `UsersServed`,
`EveryCallerAnswered`, `BufferNeverStalls`, `AllGoOn`): needs `ENABLED` and
fairness, which the prover does not treat.

*Bitwise operators, symbolic powers of two*: `CircuitsRight` contains the
processor, whose ALU uses `Bitwise`, and the multiplier and adders, whose results
are sums of powers of the width; `EveryEdgeExecutes` is about the same processor.
`BoardSafe` and `DetectorRight`, two of its five parts, are proved. `SpeechNumbersRight`
compares wrapped with exact values at a symbolic width.

*Recursion and induction over data*: `PicturesRight` (codes of any length, recursive
tables). `SyntaxElements` declares a RECURSIVE operator.

## 6. Findings

1. **The pool leaks** (`H264/mbuffer.c:1447`, run `dpb_leak`). With
   no_output_of_prior_pics_flag an IDR picture frees all frame stores without
   setting `is_empty` of their pictures. `exit_picture()` later searches the pool
   for an empty picture (`image.c:743`) and never returns.
2. **A full buffer of references** (`H264/mbuffer.c:1980`, run `dpb_full`). If
   num_ref_frames equals the size of the buffer, a picture that is no reference
   cannot be stored: every frame is output and none can be removed, and the decoder
   exits. The direct output that would have avoided it (`mbuffer.c:1982`) is
   commented out.
3. **A stale long-term mark** (`H264/mbuffer.c:1855`, run `dpb_index`). A recycled
   picture keeps `is_long_term` and its index from its former use; with adaptive
   marking it is stored as a long-term reference that no command made, and may
   share the index of another.
4. **A carry that goes nowhere** (`ASIC/Assign3/Qustn3/multplr.v:56`, run
   `multplr_carry`). `L1fa3c` is computed and never added: 12 * 48 gives 320.
5. **OR subtracts** (`ASIC/8bitRISCProcessor/8bitRISCProcessor/RISC/Control.v:33`,
   run `risc_or`). The control word with the comment `//OR` is that of SUB, and no control word selects
   the OR of `alu.v:46`. The program's `OR R10, R4, R2` (`rom.v:35`), with 12 and 5 in
   the registers, writes 7.
6. **The processor does not stop** (in the same directory `PC_reg.v:31`, run
   `risc_stop`). The processor's `Readme.txt:8-9` says that after the complete instruction memory the
   processor stops until it is reset; the counter wraps and the program runs again.

Met while reading, at places the models leave out or exclude by their inputs:

- `macroblock.c`: PCM samples are read and never stored (1021-1039), and the
  macroblock is treated as an inter one; `dequant_2x2_dc` (3603) shifts twice, so
  that the chroma DC is wrong from quantizer 36 on; beyond the baseline profile
  P slices of sub-macroblocks lose their references (1903), which the motion run
  excuses; the `char` `slice_nr` of the 256th slice of
  a picture is -1, the mark of a macroblock not decoded (555).
- `loopFilter.c`: reference indices are compared where pictures should be (near
  420), and one chroma offset serves both components.
- `header.c`: `redundant_pic_cnt` is never read; with order count type 1,
  `delta_pic_order_cnt[1]` may be stale. `mbuffer.c:2617`: after a gap
  `decode_poc()` no longer knows of command 5; `mbuffer.c:1267` dereferences empty
  list entries.
- `parset.c`, `parsetcommon.c`: a set of an unsupported profile spoils the scratch
  structure (516), the level is not compared (139), `pps_is_equal()` ignores the
  entropy coding mode, a PPS changed after the last slice leaves `active_pps` null
  where `ldecod.c:587` reads it.
- `sei.c`, `vlc.c`: a 32-bit fixed-length code is longer than its table; two loops
  over SEI payloads may not end; a code must end within the word it starts in
  (`vlc.c:403`).
- `fmo.c:605`: the wipe of type 5 is reversed against the standard.
- `G729/ACELP_CA.C:124` and `POSTFILT.C`: saturating sums were replaced by ones
  that wrap.

## 7. Not modelled

*Not reached in this build*: error concealment (its calls are commented out, its
flag is 0), CABAC and `biaridecod.c` (`image.c:114`), weighted prediction and
co-located vectors (`image.c:93-106`), interlaced pictures, data partitions.

*Parsing without state*: SEI messages, and header fields that are only kept.

*Numeric code without decisions*: the searches, Levinson recursion, post filter and
gain arithmetic of G.729A; motion vectors of B slices; writing of samples to files
(`output.c`). `G729a_assmbly_Optimizd` is a second copy of the codec that differs
in three files.

*Programs without state of their own*: the chat client of `Assign2` (its users are
any users in `ChatServer`), the test benches, the MATLAB scripts.

*Abstracted*: lengths of buffers and contents of messages in the network programs;
the printing of all programs.
