------------------------------- MODULE Keytab -------------------------------
(***************************************************************************)
(* The keytab parser (shared/keytab/parse.go): MIT format 0x0502, a        *)
(* version and a list of length-prefixed records.  A file is a sequence of *)
(* bytes; an entry keeps what the operator publishes, its key version      *)
(* number and its encryption type.                                         *)
(***************************************************************************)
EXTENDS Integers, Sequences, FiniteSets

U16(b, at) == b[at] * 256 + b[at + 1]

(* A big-endian int32 in two's complement. *)
I32(b, at) ==
    (IF b[at] < 128 THEN b[at] ELSE b[at] - 256) * 16777216
        + b[at + 1] * 65536 + b[at + 2] * 256 + b[at + 3]

Truncated == -1
MinInt32 == -2147483647 - 1

(* The position behind the counted string at position at, or Truncated. *)
readCountedString(b, at) ==
    IF at = Truncated \/ at + 1 > Len(b) THEN Truncated
    ELSE LET end == at + 2 + U16(b, at)
         IN  IF end - 1 > Len(b) THEN Truncated ELSE end

(* The position behind the realm and the n components of the principal. *)
behindPrincipal(b, n) ==
    LET behind[i \in 0..n] ==
            IF i = 0 THEN readCountedString(b, 3)
            ELSE readCountedString(b, behind[i - 1])
    IN  behind[n]

(* The record's two key version numbers: eight bits in the fixed part, and *)
(* 32 bits (below 2^31 here) behind the key when four bytes are left.      *)
kvnoSlip(b, at, behindKey) == b[at + 8]  \* slip: the long version is ignored
kvnoOf(b, at, behindKey) ==
    IF Len(b) - behindKey + 1 >= 4 THEN I32(b, behindKey) ELSE b[at + 8]

BadEntry == [kvno |-> Truncated, etype |-> Truncated]

(* One live record; BadEntry when it ends before its fields do.  From the  *)
(* position at: name type (4), timestamp (4), version (1), encryption type *)
(* (2), key length (2), key.                                               *)
parseEntry(b) ==
    IF Len(b) < 2 THEN BadEntry
    ELSE LET at == behindPrincipal(b, U16(b, 1))
         IN  IF at = Truncated \/ at + 12 > Len(b) THEN BadEntry
             ELSE LET behindKey == at + 13 + U16(b, at + 11)
                  IN  IF behindKey - 1 > Len(b) THEN BadEntry
                      ELSE [kvno |-> kvnoOf(b, at, behindKey), etype |-> U16(b, at + 9)]

Failed(e) == [err |-> e, entries |-> <<>>]

(* The records from position pos on.  A negative length marks a deleted    *)
(* record, whose bytes are skipped; a zero length ends the file.  The      *)
(* smallest int32 has no negation: the slice taken with it panics.         *)
parseRecords(b) ==
    LET rest[pos \in 1..Len(b) + 1] ==
            IF pos > Len(b) THEN [err |-> "none", entries |-> <<>>]
            ELSE IF pos + 3 > Len(b) THEN Failed("truncated")
            ELSE IF I32(b, pos) = MinInt32 THEN Failed("panic")
            ELSE LET rawLen == I32(b, pos)
                     next   == pos + 4 + (IF rawLen < 0 THEN -rawLen ELSE rawLen)
                 IN  IF rawLen = 0 THEN [err |-> "none", entries |-> <<>>]
                     ELSE IF next - 1 > Len(b) THEN Failed("truncated")
                     ELSE IF rawLen < 0 THEN rest[next]
                     ELSE LET e == parseEntry(SubSeq(b, pos + 4, next - 1))
                          IN  IF e = BadEntry THEN Failed("truncated")
                              ELSE IF rest[next].err # "none" THEN rest[next]
                              ELSE [err |-> "none", entries |-> <<e>> \o rest[next].entries]
    IN  rest[3]

Parse(b) ==
    IF b = <<>> THEN Failed("empty")
    ELSE IF Len(b) < 2 THEN Failed("truncated")
    ELSE IF U16(b, 1) # 1282 THEN Failed("version")
    ELSE parseRecords(b)

(* The largest version of any entry, 0 when there is none. *)
MaxKvno(k) ==
    LET vs == {0} \cup {k.entries[i].kvno : i \in DOMAIN k.entries}
    IN  CHOOSE v \in vs : \A w \in vs : v >= w

Enctypes(k) == {k.entries[i].etype : i \in DOMAIN k.entries}

-----------------------------------------------------------------------------
(* The format, written the other way round: what a writer puts in a file.  *)
(* A record is [live, kvno, etype, long, name]: whether it is still there, *)
(* its version and type, whether the writer adds the 32-bit version, and   *)
(* the bytes of its one name component.                                    *)

Byte == 0..255
Short == 0..65535
FileRecord == [live : BOOLEAN, kvno : Short, etype : Short, long : BOOLEAN, name : Seq(Byte)]

(* A writer leaves out the 32-bit version only where eight bits hold it,   *)
(* and the length of a record fits the bytes Record gives it.              *)
Fits(r) ==
    /\ r.long \/ r.kvno < 256
    /\ Len(r.name) <= IF r.live THEN 65509 ELSE 229
Writable == {r \in FileRecord : Fits(r)}

Wide(n) == <<0, 0, n \div 256, n % 256>>
Size(n) == <<n \div 256, n % 256>>

Body(r) ==
    Size(1) \o Size(1) \o <<82>> \o Size(Len(r.name)) \o r.name
        \o Wide(1) \o Wide(7) \o <<r.kvno % 256>> \o Size(r.etype)
        \o Size(2) \o <<9, 9>> \o (IF r.long THEN Wide(r.kvno) ELSE <<>>)

Record(r) ==
    LET n == Len(Body(r))
    IN  (IF r.live THEN Wide(n) ELSE <<255, 255, 255, 256 - n>>) \o Body(r)

(* The bytes of a file of records rs, one after the other. *)
Bytes(rs) ==
    LET upto[i \in 0..Len(rs)] == IF i = 0 THEN <<5, 2>> ELSE upto[i - 1] \o Record(rs[i])
    IN  upto[Len(rs)]

(* What the live ones of the first n records say. *)
Said(rs, n) ==
    LET upto[i \in 0..n] ==
            IF i = 0 THEN <<>>
            ELSE IF ~rs[i].live THEN upto[i - 1]
            ELSE Append(upto[i - 1], [kvno |-> rs[i].kvno, etype |-> rs[i].etype])
    IN  upto[n]

(* A file of records rs parses to exactly its live records, and cut short  *)
(* after any number of bytes it is refused, except right behind a record,  *)
(* where the records before the cut are what it parses to.                 *)
Exact(rs) ==
    \A cut \in 0..Len(Bytes(rs)) :
        LET k == Parse(SubSeq(Bytes(rs), 1, cut))
            whole == {n \in 0..Len(rs) : Len(Bytes(SubSeq(rs, 1, n))) = cut}
        IN  IF whole = {} THEN k.err # "none"
            ELSE k.err = "none" /\ \A n \in whole : k.entries = Said(rs, n)
=============================================================================
