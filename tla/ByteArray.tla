------------------------------ MODULE ByteArray -----------------------------
(***************************************************************************)
(* The serialisation buffer: a list of equal blocks with one position for  *)
(* reading and writing and a cached pointer m_cur to the block of that     *)
(* position.  A program writes typed items, seeks, and reads them back.    *)
(*                                                                         *)
(* Blocks follow each other, so the memory is one sequence, m_cur the      *)
(* number of a block, and the address of the byte an operation starts at   *)
(* is (m_cur - 1) * BaseSize + m_position % BaseSize: the right one only   *)
(* while m_cur is the block of m_position.  A byte has Radix = 128 values  *)
(* below its continuation bit in the code, fewer here.                     *)
(***************************************************************************)
EXTENDS Integers, Sequences

CONSTANTS BaseSizes,    \* values of m_base_size, larger than a fixed-width field
          Radix,        \* 2^7 in the code
          Groups32,     \* bytes a 32-bit variable-length number may take (5)
          Groups64,     \* the same for 64 bits (10)
          Items,        \* the typed values a program writes: [kind, val]
          MaxItems,     \* bound: items written
          MaxBlocks     \* bound: blocks in the list

VARIABLES base,       \* m_base_size
          ba,         \* the object: mem, pos, size, cur, and fault and lag
          items,      \* history: the items written, with their positions
          last        \* history: what the last read returned and should have

baVars == <<base, ba, items, last>>

\* ba.lag, a history: 0 no read has left m_cur in the block before m_position
\* since it was last set; 1 one has; 2 and m_cur has been used since

Unwritten == -1

NoRead == [kind |-> "none", want |-> 0, got |-> 0, end |-> 0, stale |-> FALSE]

Blocks(a) == Len(a.mem) \div base

\* The block of a position, one past the last at the end of the memory
BlockAt(pos) == (pos \div base) + 1

GetCapacity(a) == Len(a.mem) - a.pos

GetReadSize(a) == a.size - a.pos

-----------------------------------------------------------------------------
(* Raw access *)

\* addCapacity(): whole blocks for what is missing; a full list moves m_cur
\* to the first new one.
AddCapacity(a, n) ==
  LET missing == n - GetCapacity(a)
      more    == (missing + base - 1) \div base
      full    == GetCapacity(a) = 0
  IN IF missing <= 0 THEN a
     ELSE [a EXCEPT !.mem = @ \o [i \in 1 .. more * base |-> Unwritten],
                    !.cur = IF full THEN Blocks(a) + 1 ELSE @,
                    !.lag = IF full THEN 0 ELSE @]

Address(a) == ((a.cur - 1) * base) + (a.pos % base)

Use(a) == IF a.lag = 0 THEN 0 ELSE 2

\* The bytes of s placed where m_cur and m_position point to.  What a write
\* through a stale m_cur skips is indeterminate: nothing is followed past it.
Place(a, s) ==
  LET addr == Address(a)
  IN [a EXCEPT !.mem = [i \in DOMAIN @ |-> IF i - addr \in DOMAIN s THEN s[i - addr] ELSE @[i]],
               !.fault = IF a.lag = 0 THEN @ ELSE "astray"]

\* Mutant: write() moves to the next block as read() does.
Mut_WriteTo(a0, s) ==
  LET a   == AddCapacity(a0, Len(s))
      new == a.pos + Len(s)
      end == (a.pos % base) + Len(s)
  IN IF s = <<>> THEN a0
     ELSE [Place(a, s) EXCEPT !.cur = @ + (IF end = base /\ Len(s) < base THEN 0 ELSE end \div base),
                              !.pos = new, !.lag = Use(a),
                              !.size = IF new > @ THEN new ELSE @]

\* write(): m_cur moves on whenever a block is filled up.
WriteTo(a0, s) ==
  LET a   == AddCapacity(a0, Len(s))
      new == a.pos + Len(s)
  IN IF s = <<>> THEN a0
     ELSE [Place(a, s) EXCEPT !.cur = @ + (((a.pos % base) + Len(s)) \div base),
                              !.pos = new, !.lag = Use(a),
                              !.size = IF new > @ THEN new ELSE @]

\* read(): m_cur moves on at the end of a block only when the whole block was
\* read (m_cur->size == size).  Behind the last block m_cur is null, and even
\* an empty read looks at it.
ReadFrom(a, n) ==
  LET addr == Address(a)
      end  == (a.pos % base) + n
      stay == n > 0 /\ n < base /\ end = base
  IN IF n > GetReadSize(a) THEN [a |-> [a EXCEPT !.fault = "out_of_range"], bytes |-> <<>>]
     ELSE IF a.cur > Blocks(a) THEN [a |-> [a EXCEPT !.fault = "null"], bytes |-> <<>>]
     ELSE [a |-> [a EXCEPT !.cur = @ + (IF stay THEN 0 ELSE end \div base),
                           !.pos = @ + n,
                           !.lag = IF n = 0 THEN @ ELSE IF stay /\ @ = 0 THEN 1 ELSE Use(a)],
           bytes |-> [i \in 1 .. n |-> a.mem[addr + i]]]

\* setPosition(): finds the block again from the root.
SetPosition(a, pos) ==
  IF pos > Len(a.mem) THEN [a EXCEPT !.fault = "out_of_range"]
  ELSE [a EXCEPT !.pos = pos, !.cur = BlockAt(pos), !.lag = 0,
                 !.size = IF pos > @ THEN pos ELSE @]

-----------------------------------------------------------------------------
(* Typed access *)

\* writeUint32(), writeUint64(): seven bits a byte, the high bit set on every
\* byte but the last.
EncodeVarint(v) ==
  LET enc[k \in 0 .. v] ==
        IF k < Radix THEN <<k>> ELSE <<Radix + (k % Radix)>> \o enc[k \div Radix]
  IN enc[v]

\* EncodeZigzag64(), DecodeZigzag64()
EncodeZigzag(v) == IF v < 0 THEN (2 * (-v)) - 1 ELSE 2 * v

DecodeZigzag(u) == IF u % 2 = 0 THEN u \div 2 ELSE (-(u \div 2)) - 1

\* A fixed-width number of n bytes in network order
EncodeFixed(v, n) ==
  LET B == 2 * Radix
      Pow[k \in 0 .. n] == IF k = 0 THEN 1 ELSE B * Pow[k - 1]
  IN [i \in 1 .. n |-> (v \div Pow[n - i]) % B]

DecodeFixed(s) ==
  LET val[i \in 0 .. Len(s)] == IF i = 0 THEN 0 ELSE (2 * Radix * val[i - 1]) + s[i]
  IN val[Len(s)]

Width16 == 1   \* bytes of a 16-bit field, scaled
Width64 == 2   \* bytes of a 64-bit field, scaled

\* A variable-length number read byte by byte: readUint64() stops behind a
\* byte without the high bit, readUint32() behind a byte with it.
DecodeVarint(a, groups, stopOnHigh) ==
  LET Pow[k \in 0 .. groups] == IF k = 0 THEN 1 ELSE Radix * Pow[k - 1]
      run[i \in 0 .. groups] ==
        IF i = 0 THEN [a |-> a, val |-> 0, done |-> FALSE]
        ELSE LET p == run[i - 1]
                 r == ReadFrom(p.a, 1)
                 b == r.bytes[1]
             IN IF p.done THEN p
                ELSE IF r.bytes = <<>> THEN [p EXCEPT !.a = r.a, !.done = TRUE]
                ELSE [a |-> r.a, val |-> p.val + ((b % Radix) * Pow[i - 1]),
                      done |-> (b >= Radix) = stopOnHigh]
  IN run[groups]

\* What the writer of each kind puts into the buffer
Encode(item) ==
  LET v == item.val
  IN CASE item.kind \in {"Uint64", "Uint32"} -> EncodeVarint(v)
       [] item.kind \in {"Int64", "Int32"} -> EncodeVarint(EncodeZigzag(v))
       [] item.kind = "Fuint16" -> EncodeFixed(v, Width16)
       [] item.kind = "Fuint64" -> EncodeFixed(v, Width64)
       [] item.kind = "StringF16" -> EncodeFixed(Len(v), Width16) \o v
       [] item.kind = "StringF64" -> EncodeFixed(Len(v), Width64) \o v
       [] item.kind = "StringVint" -> EncodeVarint(Len(v)) \o v
       [] item.kind = "Raw" -> v

\* A fixed-width number; an exception thrown by read() ends the caller.
ReadFixed(a, n) ==
  LET r == ReadFrom(a, n)
  IN [a |-> r.a, val |-> IF r.bytes = <<>> THEN 0 ELSE DecodeFixed(r.bytes)]

\* The bytes of a string behind its length
ReadString(num) ==
  LET r == ReadFrom(num.a, num.val)
  IN IF num.a.fault # "no" THEN [a |-> num.a, val |-> <<>>] ELSE [a |-> r.a, val |-> r.bytes]

\* What the reader of each kind makes of the buffer.  readStringF64() reads
\* a 16-bit length.
Decode(a, item) ==
  LET kind == item.kind
      v64  == DecodeVarint(a, Groups64, FALSE)
      v32  == DecodeVarint(a, Groups32, TRUE)
  IN CASE kind = "Uint64" -> [a |-> v64.a, val |-> v64.val]
       [] kind = "Int64" -> [a |-> v64.a, val |-> DecodeZigzag(v64.val)]
       [] kind = "Uint32" -> [a |-> v32.a, val |-> v32.val]
       [] kind = "Int32" -> [a |-> v32.a, val |-> DecodeZigzag(v32.val)]
       [] kind = "Fuint16" -> ReadFixed(a, Width16)
       [] kind = "Fuint64" -> ReadFixed(a, Width64)
       [] kind \in {"StringF16", "StringF64"} -> ReadString(ReadFixed(a, Width16))
       [] kind = "StringVint" -> ReadString([a |-> v64.a, val |-> v64.val])
       [] kind = "Raw" -> ReadString([a |-> a, val |-> Len(item.val)])

-----------------------------------------------------------------------------
(* A program that writes items and reads them back *)

Init ==
  /\ base \in BaseSizes
  /\ ba = [mem |-> [i \in 1 .. base |-> Unwritten], pos |-> 0, size |-> 0, cur |-> 1,
           fault |-> "no", lag |-> 0]
  /\ items = <<>> /\ last = NoRead

Running == ba.fault = "no"

Written(item, at) == Append(items, [kind |-> item.kind, val |-> item.val, at |-> at])

\* Append an item at the end of what was written; readFromFile() appends the
\* bytes of a file the same way.
WriteItem ==
  /\ Running /\ Len(items) < MaxItems /\ ba.pos = ba.size
  /\ \E item \in Items :
       LET a == WriteTo(ba, Encode(item))
       IN /\ Len(a.mem) <= MaxBlocks * base
          /\ ba' = a
          /\ items' = Written(item, ba.pos)
  /\ last' = NoRead /\ UNCHANGED base

\* Seek to the beginning of an item, or to the end.
Seek ==
  /\ Running
  /\ \E pos \in {items[i].at : i \in DOMAIN items} \union {ba.size} : ba' = SetPosition(ba, pos)
  /\ last' = NoRead /\ UNCHANGED <<base, items>>

\* Read the item at the position with the reader of its kind.
ReadItem ==
  /\ Running
  /\ \E i \in DOMAIN items :
       LET r == Decode(ba, items[i])
       IN /\ items[i].at = ba.pos
          /\ ba' = r.a
          /\ last' = [kind |-> items[i].kind, want |-> items[i].val, got |-> r.val,
                      end |-> IF i = Len(items) THEN ba.size ELSE items[i + 1].at,
                      stale |-> r.a.lag = 2]
  /\ UNCHANGED <<base, items>>

\* writeToFile(): the rest, from m_cur on; toString() looks the block up and
\* gets it right.  Neither moves the position.
WriteToFile ==
  /\ Running /\ GetReadSize(ba) > 0
  /\ last' = [kind |-> "File", want |-> SubSeq(ba.mem, ba.pos + 1, ba.size),
              got |-> SubSeq(ba.mem, Address(ba) + 1, Address(ba) + GetReadSize(ba)),
              end |-> ba.pos, stale |-> ba.lag # 0]
  /\ UNCHANGED <<base, ba, items>>

\* clear() drops every block but the first.
Clear ==
  /\ Running
  /\ ba' = [ba EXCEPT !.mem = [i \in 1 .. base |-> Unwritten], !.pos = 0, !.size = 0,
                      !.cur = 1, !.lag = 0]
  /\ items' = <<>> /\ last' = NoRead /\ UNCHANGED base

\* getWriteBuffers(): the bytes described.  When len reaches into the next
\* block the rest of this one is counted on top of len; when it is larger
\* than a block the walk runs off the list.
Described(a, len) == LET ncap == base - (a.pos % base) IN IF len <= ncap THEN len ELSE ncap + len

RunsOff(a, len) == len > base - (a.pos % base) /\ len > base

\* SocketStream::read(ba, len): recv() fills in some of what is described,
\* and the position moves by as much.
RecvInto ==
  /\ Running /\ Len(items) < MaxItems /\ ba.pos = ba.size
  /\ \E len \in 1 .. base + 1 :
       LET a == AddCapacity(ba, len)
       IN /\ Len(a.mem) <= MaxBlocks * base
          /\ \/ /\ RunsOff(a, len)
                /\ ba' = [a EXCEPT !.fault = "null"] /\ UNCHANGED items
             \/ /\ ~RunsOff(a, len)
                /\ \E rt \in 1 .. Described(a, len) :
                     LET s == [k \in 1 .. rt |-> 0]
                     IN /\ ba' = SetPosition(Place(a, s), a.pos + rt)
                        /\ items' = Written([kind |-> "Raw", val |-> s], a.pos)
  /\ last' = NoRead /\ UNCHANGED base

Next == WriteItem \/ Seek \/ ReadItem \/ WriteToFile \/ Clear \/ RecvInto

-----------------------------------------------------------------------------
\* The kinds whose reader does not match their writer: readUint32() takes the
\* continuation bit the other way round, readStringF64() a 16-bit length
Mismatched == {"Uint32", "Int32", "StringF64"}

\* m_cur is the block of m_position after every sequence of calls unless a
\* read has ended with the last bytes of a block it had not begun; and as long
\* as no such m_cur is used, each item comes back as it was written, across
\* block boundaries and after growth, seeks and clears, with the position
\* just behind it, whatever lies around it.
ReadsBack ==
  /\ Running /\ ba.lag = 0 => ba.cur = BlockAt(ba.pos)
  /\ last.kind \notin Mismatched \union {"none"} /\ ~last.stale
       => last.got = last.want /\ ba.pos = last.end /\ Running
=============================================================================
