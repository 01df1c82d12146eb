------------------------------- MODULE Output -------------------------------
(* The output formats (output.c): the coalesced spans are written as one     *)
(* block or as records, with sizes, addresses and checksums of a width of    *)
(* their own, and the address execution is to start from.  A record is what  *)
(* is printed; Load is what a loader makes of it.                            *)
EXTENDS Coalesce

CONSTANTS
    Execs,          \* values of ".exec", Unset among them
    Chunk,          \* 32, the bytes in an S1 or Intel data record
    ByteRange,      \* 256, addresses being two bytes wide
    Byte(_)         \* the value of a byte that was assembled, or Zero

Unset == -1

ASSUME OutputConstants ==
    /\ ByteRange \in Nat
    /\ Chunk \in 1 .. ByteRange - 4
    /\ Execs \subseteq Int
    /\ Byte(Zero) \in 0 .. ByteRange - 1
    /\ \A in \in Inputs : \A n \in DOMAIN in : \A a \in Addresses(in[n]) :
           Byte([by |-> n, put |-> a]) \in 0 .. ByteRange - 1

VARIABLES
    format,
    exec,           \* exec_addr: an address, or negative
    records,        \* what has been written
    out,            \* the position in the list of spans of "l"
    base,           \* bytes of that span written in records
    stage           \* "unopened", "opened", "coalesced", "closed"

outVars == <<format, exec, records, out, base, stage>>

Formats == {"binary", "dragondos", "coco", "srec", "hex"}
Padded  == {"binary", "dragondos"}
Chunked == {"srec", "hex"}

Low(n)  == n % ByteRange
High(n) == (n \div ByteRange) % ByteRange
Word(n) == n % (ByteRange * ByteRange)

(* get_exec_addr() *)
ExecAddr(n) == IF n < 0 THEN -1 ELSE Word(n)

OutInit ==
    /\ Init
    /\ format \in Formats
    /\ pad = (format \in Padded)
    /\ \E n \in Execs : exec = ExecAddr(n)
    /\ records = <<>>
    /\ out = 1
    /\ base = 0
    /\ stage = "unopened"

(* fopen() fails, and nothing is said of it; or it does not, and the spans   *)
(* are coalesced.                                                            *)
OpenFails ==
    /\ stage = "unopened"
    /\ stage' = "closed"
    /\ UNCHANGED <<vars, format, exec, records, out, base>>

Open ==
    /\ stage = "unopened"
    /\ stage' = "opened"
    /\ UNCHANGED <<vars, format, exec, records, out, base>>

Coalescing == stage = "opened" /\ Next /\ UNCHANGED outVars

Coalesced ==
    /\ stage = "opened" /\ done
    /\ stage' = "coalesced"
    /\ UNCHANGED <<vars, format, exec, records, out, base>>

Write(rec) == records' = Append(records, rec) /\ UNCHANGED <<vars, format>>

NoSpan == [put |-> 0, data |-> <<>>]

Written(s) == [kind |-> "data", size |-> Word(Len(s.data)), addr |-> Word(s.put),
               data |-> s.data, sum |-> 0]

SumOf(data) ==
    LET sum[i \in 0 .. Len(data)] == IF i = 0 THEN 0 ELSE sum[i - 1] + Byte(data[i])
    IN  sum[Len(data)]

(* Wrong versions of what follows, which the runs must refute: a sum that    *)
(* leaves a part out, and whole records only.                                *)
SrecSumLow(size, addr, data) == Low(ByteRange - 1 - Low(size + 3 + Low(addr) + SumOf(data)))

NextSpanEarly ==
    /\ stage = "coalesced"
    /\ format \in Chunked
    /\ out \in DOMAIN spans
    /\ Len(spans[out].data) - base < Chunk
    /\ out' = out + 1
    /\ base' = 0
    /\ UNCHANGED <<vars, format, exec, records, stage>>

(* The next bytes of the span s that make a record, and its sum, by which    *)
(* all its bytes add up to the greatest byte or to 0.                        *)
ChunkOf(s) ==
    LET n == Min({Chunk, Len(s.data) - base})
    IN  [size |-> n, addr |-> s.put + base, data |-> SubSeq(s.data, base + 1, base + n)]

SrecSum(size, addr, data) ==
    ByteRange - 1 - Low(size + 3 + addr \div ByteRange + Low(addr) + SumOf(data))

HexSum(size, type, addr, data) ==
    Low(ByteRange - Low(size + type + addr + addr \div ByteRange + SumOf(data)))

Sum(size, type, addr, data) ==
    IF format = "srec" THEN SrecSum(size, addr, data) ELSE HexSum(size, type, addr, data)

(* output_binary() and output_dragondos(): the first span, which should be   *)
(* the only one; the latter writes a header even if there is none.           *)
WriteBlock ==
    /\ stage = "coalesced"
    /\ format \in Padded
    /\ stage' = "closed"
    /\ IF spans = <<>> /\ format = "binary" THEN UNCHANGED <<vars, format, exec, records>>
       ELSE LET block == Written(IF spans = <<>> THEN NoSpan ELSE spans[1])
            IN  /\ Write(block)
                /\ exec' = IF exec >= 0 \/ format = "binary" THEN exec ELSE block.addr
    /\ UNCHANGED <<out, base>>

(* output_coco(): one block for each span; the first gives the default for   *)
(* the address of execution.                                                 *)
WriteSpan ==
    /\ stage = "coalesced"
    /\ format = "coco"
    /\ out \in DOMAIN spans
    /\ Write(Written(spans[out]))
    /\ exec' = IF exec >= 0 THEN exec ELSE Word(spans[out].put)
    /\ out' = out + 1
    /\ UNCHANGED <<base, stage>>

(* output_motorola_srec() and output_intel_hex(): one turn of the loop.      *)
WriteChunk ==
    /\ stage = "coalesced"
    /\ format \in Chunked
    /\ out \in DOMAIN spans
    /\ base < Len(spans[out].data)
    /\ LET c == ChunkOf(spans[out])
       IN  /\ Write([kind |-> "data", size |-> c.size, addr |-> c.addr, data |-> c.data,
                     sum |-> Sum(c.size, 0, c.addr, c.data)])
           /\ base' = base + c.size
    /\ UNCHANGED <<exec, out, stage>>

NextSpan ==
    /\ stage = "coalesced"
    /\ format \in Chunked
    /\ out \in DOMAIN spans
    /\ base = Len(spans[out].data)
    /\ out' = out + 1
    /\ base' = 0
    /\ UNCHANGED <<vars, format, exec, records, stage>>

(* The last record.  An S9 record has an address in any case, an Intel end   *)
(* record its own way of having none.                                        *)
Close ==
    /\ stage = "coalesced"
    /\ format \notin Padded
    /\ out > Len(spans)
    /\ LET addr == IF format = "coco" THEN Word(exec) ELSE IF exec < 0 THEN 0 ELSE exec
       IN  Write([kind |-> "end", size |-> 0, addr |-> addr, data |-> <<>>,
                  sum |-> Sum(0, 1, addr, <<>>)])
    /\ stage' = "closed"
    /\ UNCHANGED <<exec, out, base>>

OutNext ==
    \/ OpenFails \/ Open \/ Coalescing \/ Coalesced
    \/ WriteBlock \/ WriteSpan \/ WriteChunk \/ NextSpan \/ Close

OutSpec == OutInit /\ [][OutNext]_<<vars, outVars>>

FairOutSpec == OutSpec /\ WF_<<vars, outVars>>(OutNext)

-----------------------------------------------------------------------------
(* What a loader stores: of a record, "size" bytes from "addr" on.  A block  *)
(* of the binary format has no header, and is loaded where it belongs.       *)
Loads(rec, a, b) ==
    /\ rec.kind = "data"
    /\ a - rec.addr + 1 \in 1 .. rec.size
    /\ rec.data[a - rec.addr + 1] = b

(* Whatever the format, a loader stores every byte at the address it was put *)
(* to when it was assembled: cut into blocks or records, with addresses of   *)
(* their own, none is moved.  Unless an error is reported it gets all that   *)
(* was assembled: no size of span or record loses a byte, at a boundary or   *)
(* at the end; of the loops of output.c.  Only a block that fills all of     *)
(* memory does (SizesAnnounced).                                             *)
FillsMemory == \E i \in DOMAIN spans : Len(spans[i].data) >= ByteRange * ByteRange

LoaderGetsBytes ==
    /\ \A i \in DOMAIN records : \A j \in DOMAIN records[i].data :
           LET b == records[i].data[j] IN b = Zero \/ b.put = records[i].addr + j - 1
    /\ stage = "closed" /\ records # <<>> /\ level = None
           /\ (format \in Chunked \/ ~FillsMemory) =>
           \A n \in DOMAIN input : \A a \in Addresses(input[n]) :
               \E i \in DOMAIN records : Loads(records[i], a, [by |-> n, put |-> a])

(* A record is as its format wants it: the bytes of an S-record, its type    *)
(* apart, add up to 255 modulo 256, those of an Intel record to 0, and size  *)
(* and address have two and four digits, however large spans and the address *)
(* of execution are; of output.c:160 and 245.                                *)
Total(rec) ==
    LET type == IF rec.kind = "end" THEN 1 ELSE 0
    IN  Low((IF format = "srec" THEN rec.size + 3 ELSE rec.size + type)
              + High(rec.addr) + Low(rec.addr) + SumOf(rec.data) + rec.sum)

RecordsValid ==
    format \in Chunked =>
        \A i \in DOMAIN records :
            /\ Total(records[i]) = IF format = "srec" THEN ByteRange - 1 ELSE 0
            /\ records[i].size < ByteRange - 3
            /\ records[i].addr \in 0 .. ByteRange * ByteRange - 1
            /\ records[i].sum \in 0 .. ByteRange - 1

(* The loop over a list that it shortens as it goes and the loops that write *)
(* come to an end, and the file is closed.                                   *)
Closes == <>(stage = "closed")

(* What the code does not do: a block has as many bytes as its header says   *)
(* (output.c:90 and 126).                                                    *)
SizesAnnounced ==
    \A i \in DOMAIN records : records[i].size = Len(records[i].data)

=============================================================================
