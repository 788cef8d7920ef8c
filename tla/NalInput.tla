------------------------------ MODULE NalInput ------------------------------
(***************************************************************************)
(* From bytes to units (annexb.c, rtp.c, nalu.c, nal.c and the loop of     *)
(* read_new_slice() in image.c).  A byte stream file holds units between   *)
(* start codes 00 00 01, a packet file holds one unit in each packet; in   *)
(* both, a 03 after two zeros is there only so that no start code appears  *)
(* in a unit, and the decoder takes it out.                                *)
(***************************************************************************)
EXTENDS Integers, Sequences, FiniteSets, FiniteSetsExt

CONSTANTS Streams              \* what senders send: units and how they are framed
(* A unit sent: its payload's bytes, the first of which is the header, the   *)
(* zeros of its start code and after it, and whether it starts a picture.    *)

NALU_TYPE_SLICE == 1
NALU_TYPE_IDR == 5
NALU_TYPE_SEI == 6
NALU_TYPE_SPS == 7
NALU_TYPE_PPS == 8
NALU_TYPE_AUD == 9
TypeOf(payload) == payload[1] % 32
VclTypes == 1 .. 5
SliceTypes == {NALU_TYPE_SLICE, NALU_TYPE_IDR}
StartsAccessUnit(type) ==
  type \in {NALU_TYPE_AUD, NALU_TYPE_SPS, NALU_TYPE_PPS, NALU_TYPE_SEI} \cup 13 .. 18

(* A payload has a header that is not zero and ends with a bit set.  Zeros    *)
(* after a unit stand before a long start code.  A slice that does not start  *)
(* a picture is one of an access unit that has begun.                       *)
Payloads == {p \in Seq(0 .. 255) : Len(p) > 0 /\ p[1] # 0 /\ p[Len(p)] # 0}
SliceBefore(units, k) ==
  \E j \in 1 .. k - 1 : /\ TypeOf(units[j].payload) \in VclTypes
                       /\ \A i \in j + 1 .. k - 1 : ~StartsAccessUnit(TypeOf(units[i].payload))
IsSent(units) ==
  /\ units \in Seq([payload : Payloads, zeros : Nat, after : Nat, starts : BOOLEAN])
  /\ \A k \in 1 .. Len(units) :
       LET type == TypeOf(units[k].payload)
       IN  /\ units[k].zeros >= 2 /\ (k > 1 /\ units[k - 1].after > 0 => units[k].zeros >= 3)
           /\ units[k].starts => type \in SliceTypes
           /\ type \in VclTypes /\ ~units[k].starts => SliceBefore(units, k)
ASSUME NalAssumption ==
  \A s \in Streams : s.format \in {"ANNEXB", "RTP"} /\ IsSent(s.units)

VARIABLES sentUnits,           \* the units sent
          FileFormat,          \* "ANNEXB" or "RTP"
          file,                \* the file's bytes, or its packets
          filePos,             \* how much of it was read
          nalu,                \* the unit read last, or NoUnit
          IsFirstByteStreamNALU, LastAccessUnitExists, NALUCount,
          unitsRead            \* history: of each unit, its payload and the warning
nalVars == <<sentUnits, FileFormat, file, filePos, nalu, IsFirstByteStreamNALU, LastAccessUnitExists, NALUCount,
             unitsRead>>

-----------------------------------------------------------------------------
(* The sender: a 03 goes in after two zeros wherever a byte up to 3 follows. *)
Zeros(n) == [k \in 1 .. n |-> 0]
EndsInZeros(b) == Len(b) >= 2 /\ b[Len(b)] = 0 /\ b[Len(b) - 1] = 0
Encapsulate(out, byte) ==
  IF EndsInZeros(out) /\ byte <= 3 THEN out \o <<3, byte>> ELSE Append(out, byte)
Emulating(payload) ==
  LET Out[n \in 0 .. Len(payload)] == IF n = 0 THEN <<>> ELSE Encapsulate(Out[n - 1], payload[n]) IN Out
Emulated(payload) == Emulating(payload)[Len(payload)]
Frame(unit) == (Zeros(unit.zeros) \o <<1>>) \o (Emulated(unit.payload) \o Zeros(unit.after))
Framing(units) ==
  LET Out[k \in 0 .. Len(units)] == IF k = 0 THEN <<>> ELSE Out[k - 1] \o Frame(units[k]) IN Out
ByteStream(units) == Framing(units)[Len(units)]
Packets(units) == [k \in 1 .. Len(units) |-> Emulated(units[k].payload)]

-----------------------------------------------------------------------------
(* NALUtoRBSP(): the first 00 00 03 is searched for by itself.  After that    *)
(* a turn of the loop makes 00 00 of each 00 00 03 and copies the byte behind *)
(* it without a look; left is what the turn has still to do.  What is read    *)
(* past the end never matters, since no unit ends with a zero.               *)
EmulationAt(b, i) == i + 2 <= Len(b) /\ b[i] = 0 /\ b[i + 1] = 0 /\ b[i + 2] = 3
Shorten(s, b, n) ==
  [bytes |-> IF s.left = 2 THEN s.bytes ELSE Append(s.bytes, b[n]),
   left |-> CASE s.left = 0 -> (IF EmulationAt(b, n) THEN 3 ELSE 0)
              [] s.left = 3 -> 2
              [] s.left = 2 -> (IF s.copyflag THEN 1 ELSE 0)
              [] s.left = 1 -> 0,
   copyflag |-> s.copyflag \/ s.left = 2]
Shortening(b) ==                      \* after so many bytes behind the header
  LET Out[n \in 0 .. Len(b) - 1] ==
        IF n = 0 THEN [bytes |-> <<b[1]>>, left |-> 0, copyflag |-> FALSE] ELSE Shorten(Out[n - 1], b, n + 1)
  IN  Out
NALUtoRBSP(b) == Shortening(b)[Len(b) - 1].bytes

(* EBSPtoRBSP(), which it replaces: a count of the zeros before each byte.   *)
Unescape(s, byte) ==
  IF s.zeros = 2 /\ byte = 3 THEN [s EXCEPT !.zeros = 0]
  ELSE [bytes |-> Append(s.bytes, byte), zeros |-> IF byte = 0 THEN s.zeros + 1 ELSE 0]
Unescaping(b) ==
  LET Out[n \in 0 .. Len(b) - 1] ==
        IF n = 0 THEN [bytes |-> <<b[1]>>, zeros |-> 0] ELSE Unescape(Out[n - 1], b[n + 1])
  IN  Out
EBSPtoRBSP(b) == Unescaping(b)[Len(b) - 1].bytes

(* RBSPtoSODB(): up to the byte that holds the last bit set.                 *)
RBSPtoSODB(b) == SubSeq(b, 1, Max({k \in 1 .. Len(b) : b[k] # 0}))

-----------------------------------------------------------------------------
(* GetAnnexbNALU(): the start code, the unit up to the next start code or    *)
(* the end, without the zeros after it, and where the next call goes on.     *)
NoUnit == [startcodeprefix_len |-> 0, buf |-> <<>>]
(* Mutant: the zeros between units are taken for the unit's.                *)
StripNothing(b) == b
StripZeros(b) == IF \E k \in 1 .. Len(b) : b[k] # 0 THEN RBSPtoSODB(b) ELSE <<>>
NonZeros(from) == {p \in from .. Len(file) : file[p] # 0}
StartCodes(from) == {p \in from + 2 .. Len(file) : file[p] = 1 /\ file[p - 1] = 0 /\ file[p - 2] = 0}
GetAnnexbNALU ==
  LET from == filePos + 1
      one == Min(NonZeros(from))
      zeros == one - from
      bad == \/ NonZeros(from) = {} \/ file[one] # 1 \/ zeros < 2
             \/ ~IsFirstByteStreamNALU /\ zeros > 3
      next == StartCodes(one + 1)
      long == next # {} /\ file[Min(next) - 3] = 0        \* 00 00 00 01
      body == IF next = {} THEN SubSeq(file, one + 1, Len(file))
              ELSE SubSeq(file, one + 1, Min(next) - (IF long THEN 4 ELSE 3))
  IN  CASE filePos = Len(file) -> [ret |-> 0]
        [] filePos < Len(file) /\ bad -> [ret |-> -1]
        [] filePos < Len(file) /\ ~bad ->
             [ret |-> 1, startcodeprefix_len |-> Min({zeros, 3}) + 1,
              buf |-> IF next # {} /\ ~long THEN body ELSE StripZeros(body),
              pos |-> IF next = {} THEN Len(file) ELSE Min(next) - (IF long THEN 4 ELSE 3)]

(* GetRTPNALU(): the next packet.  No sequence number is looked at, and the  *)
(* length of a start code stays what it was.                                *)
GetRTPNALU ==
  IF filePos = Len(file) THEN [ret |-> 0]
  ELSE [ret |-> 1, startcodeprefix_len |-> nalu.startcodeprefix_len, buf |-> file[filePos + 1],
        pos |-> filePos + 1]

-----------------------------------------------------------------------------
(* CheckZeroByteNonVCL() and CheckZeroByteVCL(): the first unit of an access *)
(* unit, and every parameter set, must have a start code of four bytes.      *)
CheckZeroByte(type, prefix, new_picture) ==
  LET vcl == type \in VclTypes
      checked == ~vcl \/ new_picture
      again == LastAccessUnitExists /\ (vcl \/ StartsAccessUnit(type))
      count == IF ~checked THEN NALUCount ELSE IF again THEN 1 ELSE NALUCount + 1
  IN  [exists |-> IF vcl THEN LastAccessUnitExists \/ checked
                  ELSE LastAccessUnitExists /\ ~StartsAccessUnit(type),
       count |-> count,
       warned |-> /\ checked /\ prefix = 3
                  /\ count = 1 \/ type \in {NALU_TYPE_SPS, NALU_TYPE_PPS}]

NalInit ==
  /\ \E s \in Streams :
       /\ sentUnits = s.units
       /\ FileFormat = s.format
       /\ file = (IF s.format = "RTP" THEN Packets(s.units) ELSE ByteStream(s.units))
  /\ filePos = 0 /\ nalu = NoUnit
  /\ IsFirstByteStreamNALU = TRUE /\ LastAccessUnitExists = FALSE /\ NALUCount = 0
  /\ unitsRead = <<>>

(* One turn of read_new_slice()'s loop.  Whether a slice starts a picture is *)
(* what is_new_picture() makes of its header.                               *)
Read(unit) ==
  /\ unit.ret = 1
  /\ nalu' = [startcodeprefix_len |-> unit.startcodeprefix_len, buf |-> NALUtoRBSP(unit.buf)]
  /\ filePos' = unit.pos
  /\ LET type == TypeOf(unit.buf)
         new == type \in SliceTypes /\ sentUnits[Len(unitsRead) + 1].starts
         check == CheckZeroByte(type, unit.startcodeprefix_len, new)
     IN  /\ LastAccessUnitExists' = check.exists /\ NALUCount' = check.count
         /\ unitsRead' = Append(unitsRead, [encapsulated |-> unit.buf, warned |-> check.warned,
                                            payload |-> RBSPtoSODB(nalu'.buf)])
  /\ UNCHANGED <<sentUnits, FileFormat, file>>
ReadByteStream ==
  /\ FileFormat = "ANNEXB"
  /\ \E unit \in {GetAnnexbNALU} : Read(unit)
  /\ IsFirstByteStreamNALU' = FALSE
ReadPacket ==
  /\ FileFormat = "RTP"
  /\ Read(GetRTPNALU)
  /\ UNCHANGED IsFirstByteStreamNALU
NalNext == ReadByteStream \/ ReadPacket
NalSpec == NalInit /\ [][NalNext]_nalVars

-----------------------------------------------------------------------------
(* An access unit starts with its first unit that may stand before slices,   *)
(* or with its first slice.                                                 *)
FirstOfAccessUnit(k) ==
  LET type(j) == TypeOf(sentUnits[j].payload)
      begins(j) == IF type(j) \in VclTypes THEN sentUnits[j].starts ELSE StartsAccessUnit(type(j))
      slicesBefore == {j \in 1 .. k - 1 : type(j) \in VclTypes}
  IN  IF slicesBefore = {} THEN k = 1
      ELSE begins(k) /\ \A j \in Max(slicesBefore) + 1 .. k - 1 : ~begins(j)

(* An emulation byte three behind another that is not the unit's first.      *)
CloseBehind(b) ==
  LET at == {k \in 1 .. Len(b) : EmulationAt(b, k)}
  IN  \E e \in at : e # Min(at) /\ e + 3 \in at

(* annexb.c:40-221, nalu.c:75-117, annexb.c:343-427: whatever start codes and *)
(* zeros stand between units, and wherever the zeros of a payload stand, each *)
(* unit sent is read, once, in its order and nothing else; the loop that      *)
(* nalu.c puts in place of EBSPtoRBSP() gives the payload that was sent but   *)
(* where two emulation bytes, not the unit's first, stand closest; and a       *)
(* short start code is complained of exactly where a long one must stand.     *)
UnitsRight ==
  /\ \A k \in 1 .. Len(unitsRead) :
       LET read == unitsRead[k]
           sent == sentUnits[k]
       IN  /\ EBSPtoRBSP(read.encapsulated) = sent.payload
           /\ read.payload = sent.payload <=> ~CloseBehind(read.encapsulated)
           /\ FileFormat = "ANNEXB" =>
                (read.warned <=>
                   /\ sent.zeros = 2
                   /\ FirstOfAccessUnit(k) \/ TypeOf(sent.payload) \in {NALU_TYPE_SPS, NALU_TYPE_PPS})
  /\ FileFormat = "ANNEXB" => GetAnnexbNALU.ret # -1
  /\ filePos = Len(file) <=> Len(unitsRead) = Len(sentUnits)
=============================================================================
