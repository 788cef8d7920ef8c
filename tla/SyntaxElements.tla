--------------------------- MODULE SyntaxElements ---------------------------
(***************************************************************************)
(* Syntax elements in the bits of a unit (vlc.c) and the macroblocks of a  *)
(* slice made of them (read_one_macroblock() and exit_macroblock() in      *)
(* macroblock.c): codes of any length are cut out of a word of the four    *)
(* bytes that the code starts in, runs of skipped macroblocks are counted  *)
(* down, and the slice ends where only the stop bit is left.               *)
(***************************************************************************)
EXTENDS Integers, Sequences, FiniteSets, FiniteSetsExt, SequencesExt

CONSTANTS SlicesWritten,       \* what senders write: [header, mbs, last], elements, then macroblocks;
                               \* last: whether the picture ends with it
          Undefined                  \* a value that depends on what the build has in memory
(* A macroblock is Skipped or the sequence of its elements, its type first.  *)
Skipped == <<>>

VARIABLES written, streamBuffer, bitstream_length,
          frame_bitoffset, cod_counter,
          valuesRead,          \* history: the values of the header's elements ...
          mbsRead,             \* ... and the macroblocks, as they were read
          sliceOver
syntaxVars == <<written, streamBuffer, bitstream_length, frame_bitoffset, cod_counter, valuesRead, mbsRead,
                sliceOver>>

-----------------------------------------------------------------------------
(* The sender's codes.                                                      *)
BitOf(v, k) == IF k > 30 THEN 0 ELSE (v \div 2 ^ k) % 2
Bits(n, v) == [k \in 1 .. n |-> BitOf(v, n - k)]
Lg(v) == Max({k \in 0 .. 30 : 2 ^ k <= v})
Golomb(v) == [k \in 1 .. Lg(v + 1) |-> 0] \o Bits(Lg(v + 1) + 1, v + 1)
CodeOf(e) ==
  CASE e.kind = "ue" -> Golomb(e.v)
    [] e.kind = "se" -> Golomb(IF e.v > 0 THEN 2 * e.v - 1 ELSE -2 * e.v)
    [] e.kind = "u" -> Bits(e.n, e.v)
    [] e.kind = "ref_idx" -> (IF e.active = 2 THEN <<1 - e.v>> ELSE Golomb(e.v))
    [] e.kind = "ipred" -> (IF e.v = -1 THEN <<1>> ELSE <<0>> \o Bits(3, e.v))
Codes(elements) == FlattenSeq([k \in 1 .. Len(elements) |-> CodeOf(elements[k])])
(* A run of skipped macroblocks before each other one, and at the end.       *)
RECURSIVE SliceData(_, _)
SliceData(mbs, run) ==
  CASE mbs = <<>> -> (IF run > 0 THEN Golomb(run) ELSE <<>>)
    [] mbs # <<>> /\ Head(mbs) = Skipped -> SliceData(Tail(mbs), run + 1)
    [] mbs # <<>> /\ Head(mbs) # Skipped -> Golomb(run) \o Codes(Head(mbs)) \o SliceData(Tail(mbs), 0)
Aligned(bits) == bits \o [k \in 1 .. (-Len(bits)) % 8 |-> 0]
Unit(w) == Aligned(Codes(w.header) \o SliceData(w.mbs, 0) \o <<1>>)

-----------------------------------------------------------------------------
(* The four bytes from the one the offset lies in, shifted to the offset.    *)
WordBitsHalved == 16                 \* mutant: two bytes, as for other codes
WordBits == 32
streamWord(off) == [k \in 1 .. WordBits |-> IF (off % 8) + k <= WordBits THEN streamBuffer[off + k] ELSE 0]
Value(bits) == FoldLeft(LAMBDA v, b : 2 * v + b, 0, bits)

(* readSyntaxElement_VLC(): the zeros before the first one tell the length.   *)
readSyntaxElement_VLC(off) ==
  LET word == streamWord(off)
      r == Min({k \in 1 .. WordBits : word[k] = 1} \cup {WordBits}) - 1
      Info(k) == IF r + 1 + k <= WordBits THEN word[r + 1 + k] ELSE 0
  IN  [len |-> 2 * r + 1, value1 |-> 2 ^ r + Value([k \in 1 .. r |-> Info(k)]) - 1]
linfo_se(n) == IF n % 2 = 0 THEN -((n + 1) \div 2) ELSE (n + 1) \div 2

(* readSyntaxElement_FLC(): the table of masks ends with the one of 28 bits.  *)
FLC_table == 0 .. 28
readSyntaxElement_FLC(n, off) ==
  [len |-> n, value1 |-> IF n \in FLC_table THEN Value(SubSeq(streamWord(off), 1, n)) ELSE Undefined]

(* GetVLCSymbol_IntraMode(): one bit, or a zero and three more.               *)
IntraMode(off) ==
  IF streamBuffer[off + 1] = 1 THEN [len |-> 1, value1 |-> -1]
  ELSE [len |-> 4, value1 |-> Value(SubSeq(streamBuffer, off + 2, off + 4))]

(* The reader knows what kind of element comes.                             *)
ReadElement(e, off) ==
  LET vlc == readSyntaxElement_VLC(off)
  IN  CASE e.kind = "ue" -> vlc
        [] e.kind = "se" -> [vlc EXCEPT !.value1 = linfo_se(@)]
        [] e.kind = "u" -> readSyntaxElement_FLC(e.n, off)
        [] e.kind = "ref_idx" -> (IF e.active = 2 THEN [len |-> 1, value1 |-> 1 - readSyntaxElement_FLC(1, off).value1]
                                  ELSE vlc)
        [] e.kind = "ipred" -> IntraMode(off)

(* more_rbsp_data(), and what exit_macroblock() has in its place, which takes *)
(* the bit it stands on for the stop bit.                                   *)
OnesAfter(off) == \E k \in off + 2 .. 8 * bitstream_length : streamBuffer[k] = 1
InLastByte(off) == off \div 8 >= bitstream_length - 1
more_rbsp_data(off) == ~InLastByte(off) \/ streamBuffer[off + 1] = 0 \/ OnesAfter(off)
MoreInSlice(off) == ~InLastByte(off) \/ OnesAfter(off)

-----------------------------------------------------------------------------
(* Behind the unit the buffer holds what was there before.                   *)
SyntaxStart(w, junk) ==
  /\ written = w /\ streamBuffer = Unit(w) \o [k \in 1 .. WordBits |-> junk]
  /\ bitstream_length = Len(Unit(written)) \div 8
  /\ frame_bitoffset = 0 /\ cod_counter = -1
  /\ valuesRead = <<>> /\ mbsRead = <<>> /\ sliceOver = FALSE
SyntaxInit == \E w \in SlicesWritten, junk \in {0, 1} : SyntaxStart(w, junk)

InHeader == Len(valuesRead) < Len(written.header)
ReadHeader ==
  /\ InHeader
  /\ \E sym \in {ReadElement(written.header[Len(valuesRead) + 1], frame_bitoffset)} :
       /\ valuesRead' = Append(valuesRead, sym.value1)
       /\ frame_bitoffset' = frame_bitoffset + sym.len
  /\ UNCHANGED <<written, streamBuffer, bitstream_length, cod_counter, mbsRead, sliceOver>>

(* The elements of a macroblock, one after another.                         *)
ReadElements(elements, off) ==
  LET Read[n \in 0 .. Len(elements)] ==
        IF n = 0 THEN [off |-> off, values |-> <<>>]
        ELSE LET before == Read[n - 1]
                 sym == ReadElement(elements[n], before.off)
             IN  [off |-> before.off + sym.len, values |-> Append(before.values, sym.value1)]
  IN  Read[Len(elements)]

(* exit_macroblock(), with cod_counter as the macroblock left it.            *)
EndOfSlice(off, counter) ==
  \/ written.last /\ Len(mbsRead) + 1 = Len(written.mbs)
  \/ ~MoreInSlice(off) /\ counter <= 0

(* Whose elements follow is what the type says; here they are the sender's.  *)
ReadMacroblock ==
  /\ ~InHeader /\ ~sliceOver /\ Len(mbsRead) < Len(written.mbs)
  /\ LET run == readSyntaxElement_VLC(frame_bitoffset)
         counter == IF cod_counter = -1 THEN run.value1 ELSE cod_counter
         from == IF cod_counter = -1 THEN frame_bitoffset + run.len ELSE frame_bitoffset
     IN  \E mb \in {IF counter = 0 THEN ReadElements(written.mbs[Len(mbsRead) + 1], from)
                    ELSE [off |-> from, values |-> Skipped]} :
           /\ frame_bitoffset' = mb.off
           /\ cod_counter' = counter - 1
           /\ mbsRead' = Append(mbsRead, mb.values)
           /\ sliceOver' = EndOfSlice(mb.off, counter - 1)
  /\ UNCHANGED <<written, streamBuffer, bitstream_length, valuesRead>>

SyntaxNext == ReadHeader \/ ReadMacroblock
SyntaxSpec == SyntaxInit /\ [][SyntaxNext]_syntaxVars

-----------------------------------------------------------------------------
(* A code fits when it ends within the word; one of up to 25 bits always does. *)
ElementAt(k) == Len(Codes(SubSeq(written.header, 1, k - 1)))
Fits(k) == (ElementAt(k) % 8) + Len(CodeOf(written.header[k])) <= 32
(* vlc.c:405-513, 774-815, 524-668, macroblock.c:655-693: wherever in a byte a *)
(* code starts and whatever lies behind the unit, what was written is read and *)
(* the next code starts right behind it; a value is wrong only where the code   *)
(* reaches beyond the word, or is longer than the masks.  While something of    *)
(* the header is left there is more data; the macroblocks read are those        *)
(* written, skipped ones included, and the slice ends after the last of them,   *)
(* neither earlier nor later.                                                 *)
SyntaxRight ==
  /\ InHeader => frame_bitoffset = ElementAt(Len(valuesRead) + 1) /\ more_rbsp_data(frame_bitoffset)
  /\ ~InHeader /\ written.mbs = <<>> => ~more_rbsp_data(frame_bitoffset)
  /\ \A k \in 1 .. Len(valuesRead) :
       LET e == written.header[k]
       IN  Fits(k) /\ (e.kind = "u" => e.n \in FLC_table) => valuesRead[k] = e.v
  /\ \A k \in 1 .. Len(mbsRead) :
       /\ Len(mbsRead[k]) = Len(written.mbs[k])
       /\ \A j \in 1 .. Len(mbsRead[k]) : mbsRead[k][j] = written.mbs[k][j].v
  /\ sliceOver <=> written.mbs # <<>> /\ Len(mbsRead) = Len(written.mbs)
=============================================================================
