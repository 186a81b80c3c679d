------------------------------- MODULE ByteArray -------------------------------
(***************************************************************************)
(* ByteArray (bytearray.cpp): a chain of nodes of m_baseSize bytes, read   *)
(* and written through one position, with m_cur the node it is in.  The    *)
(* chain is a sequence of cells; m_cur is the number of its node, or one   *)
(* more than there are for a null pointer.  Streams fill and drain it      *)
(* through iovecs and then call setPos.  The second part is the encoding   *)
(* of numbers and strings: of fixed width, varint and zigzag.              *)
(*                                                                         *)
(* m_cur and m_pos are kept apart, and some sequences of calls leave them  *)
(* in different nodes: `state` says so from then on.                       *)
(***************************************************************************)
EXTENDS Integers, Sequences

CONSTANTS Base,       \* m_baseSize
          MaxBytes,   \* bound: capacity the calls may ask for
          Byte,       \* values of a byte
          GroupBits,  \* 7: payload bits of a byte of a varint
          Width       \* 64: bits of an integer, half of it for the 32-bit ones

ASSUME ByteAssumption ==
    /\ Base \in Nat \ {0} /\ MaxBytes \in Nat
    /\ Byte \subseteq Nat /\ Byte # {}
    /\ GroupBits \in Nat \ {0}
    /\ Width \in Nat \ {0} /\ Width % (2 * (GroupBits + 1)) = 0

VARIABLES
    mem,       \* the bytes of the nodes
    cur,       \* m_cur
    pos,       \* m_pos
    filled,    \* m_size
    content,   \* history: what a plain array of bytes would hold
    state,     \* "ok", "misplaced", "fault" once a null pointer was used
    number     \* the number or string written to an array without anything else

byteVars == <<mem, cur, pos, filled, content, state, number>>

NoNumber == [type |-> "none"]

Cells(n, b) == [i \in 1..n |-> b]
Fresh == CHOOSE b \in Byte : TRUE

ByteInit ==
    /\ mem = Cells(Base, Fresh) /\ cur = 1
    /\ pos = 0 /\ filled = 0
    /\ content = <<>> /\ state = "ok"
    /\ number = NoNumber

Nodes == Len(mem) \div Base
Capacity == Len(mem) - pos
NodeOf(p) == p \div Base + 1

\* addCapacity: whole nodes at the end of the chain, found from m_cur.
Missing(n) == IF n <= Capacity THEN 0 ELSE (n - Capacity + Base - 1) \div Base
LostChain(n) == Missing(n) > 0 /\ cur > Nodes
Grown(n) == mem \o Cells(Missing(n) * Base, Fresh)

\* mutant: m_cur stays in the node that is full
CurAfterStays(n) == cur

CurAfter(n) == IF Missing(n) > 0 /\ Capacity = 0 THEN Nodes + 1 ELSE cur

Put(s, from, n, b) == [i \in 1..Len(s) |-> IF i \in (from + 1)..(from + n) THEN b ELSE s[i]]
PutAt(s, from, n, b) == Put(s \o Cells(IF from + n > Len(s) THEN from + n - Len(s) ELSE 0, b), from, n, b)

Fault == state' = "fault" /\ UNCHANGED <<mem, cur, pos, filled, content>>

\* write() goes to the next node only if something is left to write.
LastNode(start, n) == start + ((pos % Base) + n - 1) \div Base

(***************************************************************************)
(* write of n bytes: m_size grows by n also over bytes that were there,    *)
(* and m_cur stays in a node that is full.                                 *)
(***************************************************************************)
Write(n, b) ==
    IF LostChain(n) THEN Fault
    ELSE LET start == CurAfter(n)
         IN  /\ mem' = Put(Grown(n), (start - 1) * Base + (pos % Base), n, b)
             /\ cur' = LastNode(start, n)
             /\ pos' = pos + n
             /\ filled' = filled + n
             /\ content' = PutAt(content, pos, n, b)
             /\ state' = IF pos < filled \/ (pos' % Base = 0 /\ pos' < Len(mem'))
                         THEN "misplaced" ELSE state

\* read: throws without enough bytes.
Read(n) ==
    /\ n <= filled - pos
    /\ cur' = cur + ((pos % Base) + n) \div Base
    /\ pos' = pos + n
    /\ UNCHANGED <<mem, filled, content, state>>

\* What becomes part of the array without having been written is what is there.
Exposed(n) == IF n > filled THEN content \o SubSeq(mem, filled + 1, n) ELSE SubSeq(content, 1, n)

\* setPos: after getReadBuffers and a send, or by itself; throws beyond m_cap.
SetPos(v) ==
    /\ v <= Len(mem)
    /\ pos' = v /\ cur' = NodeOf(v)
    /\ IF v > filled THEN filled' = v /\ content' = Exposed(v)
                     ELSE UNCHANGED <<filled, content>>
    /\ UNCHANGED <<mem, state>>

SetSize(n) ==
    /\ n <= Len(mem) /\ pos <= n
    /\ filled' = n /\ content' = Exposed(n)
    /\ UNCHANGED <<mem, cur, pos, state>>

(***************************************************************************)
(* getWriteBuffers(n), a recv of k bytes into them, setPos if k > 0.       *)
(***************************************************************************)
Fill(n, k, b) ==
    IF LostChain(n) THEN Fault
    ELSE LET start == CurAfter(n)
         IN  /\ mem' = Put(Grown(n), (start - 1) * Base + (pos % Base), k, b)
             /\ cur' = IF k > 0 THEN NodeOf(pos + k) ELSE start
             /\ pos' = pos + k
             /\ filled' = IF pos + k > filled THEN pos + k ELSE filled
             /\ content' = PutAt(content, pos, k, b)
             /\ UNCHANGED state

Clear ==
    /\ mem' = SubSeq(mem, 1, Base) /\ cur' = 1
    /\ pos' = 0 /\ filled' = 0
    /\ content' = <<>> /\ state' = "ok"

(***************************************************************************)
(* writeToFile takes from each node what the rest and a node have in       *)
(* common, less the offset: p is the position, k the node.                 *)
(***************************************************************************)
NoByte == -1

Common(p) == (IF filled - p > Base THEN Base ELSE filled - p) - (p % Base)

SavedFrom[k \in 1..(Nodes + 1)] ==
    [p \in 0..filled |->
        LET at == (k - 1) * Base + (p % Base)
        IN  IF p = filled THEN <<>>
            ELSE IF Common(p) < 0 \/ k > Nodes THEN <<NoByte>>
            ELSE SubSeq(mem, at + 1, at + Common(p)) \o SavedFrom[k + 1][p + Common(p)]]

Saved == SavedFrom[cur][pos]

ArrayStep ==
    /\ state = "ok"
    /\ \/ \E n \in 1..(MaxBytes - pos), b \in Byte :
             Write(n, b) \/ \E k \in 0..n : Fill(n, k, b)
       \/ \E n \in 1..MaxBytes : Read(n)
       \/ \E v \in 0..MaxBytes : SetPos(v) \/ SetSize(v)
       \/ Clear

(***************************************************************************)
(* Numbers.  Power[n] is 2^n, Value what digits are worth in a base, the   *)
(* lowest first, and Digit(v, i, bits) the i-th digit of v in base 2^bits. *)
(***************************************************************************)
Power[n \in 0..(Width + GroupBits)] == IF n = 0 THEN 1 ELSE 2 * Power[n - 1]

Value(digits, base) ==
    LET from[i \in 1..(Len(digits) + 1)] ==
            IF i > Len(digits) THEN 0 ELSE digits[i] + base * from[i + 1]
    IN  from[1]

Digit(v, i, bits) == (v \div Power[bits * (i - 1)]) % Power[bits]

Group == Power[GroupBits]
ByteBits == GroupBits + 1
Half == Width \div 2

\* Fixed width: the host is little endian, m_endian is big unless set.
Place(i, n, little) == IF little THEN i ELSE n + 1 - i

Fixed(v, width, little) ==
    LET n == width \div ByteBits
    IN  [i \in 1..n |-> Digit(v, Place(i, n, little), ByteBits)]

ReadFixed(bytes, little) ==
    Value([i \in 1..Len(bytes) |-> bytes[Place(i, Len(bytes), little)]], Power[ByteBits])

(***************************************************************************)
(* writeUint32, readUint32 and their 64-bit forms; zigzag for signed ones. *)
(***************************************************************************)
More(byte) == byte >= Group

\* How often the loop of the writer goes round.
Size(v) ==
    CHOOSE n \in 1..(Width \div GroupBits + 1) :
        v < Power[GroupBits * n] /\ (n > 1 => v >= Power[GroupBits * (n - 1)])

Varint(v) == [i \in 1..Size(v) |-> Digit(v, i, GroupBits) + IF i < Size(v) THEN Group ELSE 0]

\* mutant: one group too few
GroupsFloor(width) == width \div GroupBits

\* How often the loop of the reader goes round at most.
Groups(width) == (width + GroupBits - 1) \div GroupBits

\* The byte after which the reader leaves its loop.
LastRead(bytes, width) ==
    CHOOSE n \in 1..Groups(width) :
        /\ n = Groups(width) \/ n > Len(bytes) \/ ~More(bytes[n])
        /\ \A i \in 1..(n - 1) : i <= Len(bytes) /\ More(bytes[i])

\* Throws when the array ends before the number does.
ReadVarint(bytes, width) ==
    LET n == LastRead(bytes, width)
    IN  IF n > Len(bytes) THEN NoByte
        ELSE Value([i \in 1..n |-> bytes[i] % Group], Group) % Power[width]

EncodeZigzag(v) == IF v < 0 THEN 2 * (-v) - 1 ELSE 2 * v
DecodeZigzag(u) == IF u % 2 = 0 THEN u \div 2 ELSE -(u \div 2) - 1

Unsigned(width) == 0..(Power[width] - 1)
Signed(width) == -(Power[width - 1])..(Power[width - 1] - 1)

\* The parameter of writeUint64 and of writeInt64 has half the width.
Narrowed(v) == v % Power[Half]
NarrowedSigned(v) == ((v + Power[Half - 1]) % Power[Half]) - Power[Half - 1]

WriteNumber(type, v, bytes, little) ==
    number' = [type |-> type, value |-> v, bytes |-> bytes, little |-> little]

\* Of a string, its length; writeFloat and writeDouble write the bits.
WriteNumbers ==
    \E little \in BOOLEAN :
        \/ \E v \in Unsigned(Half) : WriteNumber("uint32", v, Varint(v), little)
        \/ \E v \in Signed(Half) : WriteNumber("int32", v, Varint(EncodeZigzag(v)), little)
        \/ \E v \in Signed(Width) :
              WriteNumber("int64", v, Varint(EncodeZigzag(NarrowedSigned(v))), little)
        \/ \E v \in Unsigned(Width) :
              \/ WriteNumber("uint64", v, Varint(Narrowed(v)), little)
              \/ WriteNumber("fixed", v, Fixed(v, Width, little), little)
              \/ WriteNumber("float", v, Fixed(v, Width, little), little)
              \/ WriteNumber("string16", v, Fixed(v, Half, little), little)
              \/ WriteNumber("string64", v, Fixed(v, Width, little), little)
              \/ WriteNumber("stringVint", v, Varint(Narrowed(v)), little)

\* readFloat and readDouble read a varint.
ReadBack ==
    CASE number.type = "uint32" -> ReadVarint(number.bytes, Half)
      [] number.type = "int32" -> DecodeZigzag(ReadVarint(number.bytes, Half))
      [] number.type = "int64" -> DecodeZigzag(ReadVarint(number.bytes, Width))
      [] number.type \in {"uint64", "float", "stringVint"} -> ReadVarint(number.bytes, Width)
      [] number.type \in {"fixed", "string16", "string64"} -> ReadFixed(number.bytes, number.little)
-------------------------------------------------------------------------------
ByteNext ==
    /\ number = NoNumber
    /\ \/ ArrayStep /\ UNCHANGED number
       \/ content = <<>> /\ mem = Cells(Base, Fresh)
          /\ WriteNumbers /\ UNCHANGED <<mem, cur, pos, filled, content, state>>

ByteSpec == ByteInit /\ [][ByteNext]_byteVars
-------------------------------------------------------------------------------
(***************************************************************************)
(* The array holds the bytes a plain one would, and the position is in the *)
(* node where they are, so that the next read or write finds them.         *)
(***************************************************************************)
BytesInPlace ==
    /\ filled = Len(content) /\ pos <= filled
    /\ SubSeq(mem, 1, filled) = content
    /\ pos < Len(mem) => cur = NodeOf(pos)

\* A file takes what is unread, if that begins with a node or fills one; else
\* its length wraps.
FileTakesUnread ==
    Saved = SubSeq(content, pos + 1, filled) <=>
        (pos % Base = 0 \/ filled - pos >= Base \/ pos = filled)

(***************************************************************************)
(* Both hold as long as nothing is written before the end, and nothing up  *)
(* to the end of a node with another behind it.                            *)
(***************************************************************************)
BytesKept == state = "ok" => BytesInPlace /\ FileTakesUnread

(***************************************************************************)
(* A number is read back as it was written, of either sign and in either   *)
(* byte order, and a string with its length: a 64-bit varint if it fits 32 *)
(* bits, as its upper half is lost on the way in, a string with a 16-bit   *)
(* length if it fits that; a float only if its bits read the same as a     *)
(* varint.                                                                 *)
(***************************************************************************)
NumbersReturn ==
    number # NoNumber =>
        (ReadBack = number.value <=>
            \/ number.type \in {"uint32", "int32", "fixed", "string64"}
            \/ /\ number.type \in {"uint64", "string16", "stringVint"}
               /\ number.value \in Unsigned(Half)
            \/ number.type = "int64" /\ number.value \in Signed(Half)
            \/ number.type = "float" /\ (number.value = 0 \/ (number.little /\ number.value < Group)))
===============================================================================
