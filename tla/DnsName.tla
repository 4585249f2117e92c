------------------------------- MODULE DnsName -------------------------------
(***************************************************************************)
(* Names on the wire: parse_name and serialize_name (dns.rs).  parse_name  *)
(* moves the cursor of its reader through the packet, label by label, and  *)
(* follows compression pointers; the caller goes on reading where the name *)
(* ended, which is after the first pointer if there was one.               *)
(*                                                                         *)
(* Positions count from 0, as in the code.  A label is a sequence of bytes *)
(* and a name a sequence of labels; the String the code makes of them is   *)
(* in module Text.  Packets have no bytes from 194 to 244, with which the  *)
(* characters of UTF-8 begin that are not ASCII: without them, bytes above *)
(* 127 are in no text.                                                     *)
(***************************************************************************)
EXTENDS Text

CONSTANTS
    Packet,      \* the packets names are read from
    MaxJumps,    \* max_jumps
    Unreadable   \* what is read where there is no name

Byte == 0..193 \cup 245..255

ASSUME PacketAssumption == Packet \subseteq Seq(Byte) /\ MaxJumps \in Nat
ASSUME UnreadableAssumption ==
    Unreadable \notin [labels : Seq(Seq(0..127)), next : Nat]

VARIABLES
    packet,
    start,    \* where the cursor was when parse_name was called
    pos,      \* the cursor
    labels,
    jumps,
    jumped,
    jumpPos,  \* where reading goes on after the first pointer
    reading   \* "busy", then "read" or "failed"; "idle" for other reads

nameVars == <<packet, start, pos, labels, jumps, jumped, jumpPos, reading>>

NameInit ==
    /\ packet \in Packet
    /\ start \in 0..Len(packet)
    /\ pos = start
    /\ labels = <<>>
    /\ jumps = 0 /\ jumped = FALSE /\ jumpPos = 0
    /\ reading = "busy"

-----------------------------------------------------------------------------
(* What a byte of a packet starts *)

\* The byte at position i of p.
At(p, i) == p[i + 1]

IsRoot(b) == b = 0
IsPointer(b) == b >= 192
IsLength(b) == 0 < b /\ b < 192

\* The pointer at position i of p is there in full, and points into p.
Offset(p, i) == (At(p, i) - 192) * 256 + At(p, i + 1)
PointerOk(p, i) == i + 1 < Len(p) /\ Offset(p, i) < Len(p)

\* The label at position i of p, which is there in full and is text.
LabelEnd(p, i) == i + 1 + At(p, i)
Label(p, i) == SubSeq(p, i + 2, LabelEnd(p, i))
LabelOk(p, i) ==
    LabelEnd(p, i) <= Len(p) /\ \A k \in DOMAIN Label(p, i) : Label(p, i)[k] < 128

-----------------------------------------------------------------------------
(* parse_name: one action per branch of its loop *)

\* There is a byte under the cursor.
HasByte == reading = "busy" /\ pos < Len(packet)

Fail ==
    /\ reading' = "failed"
    /\ UNCHANGED <<packet, start, pos, labels, jumps, jumped, jumpPos>>

EndOfData == reading = "busy" /\ pos >= Len(packet) /\ Fail

\* The name ends here.
Root ==
    /\ HasByte /\ IsRoot(At(packet, pos))
    /\ pos' = IF jumped THEN jumpPos ELSE pos + 1
    /\ reading' = "read"
    /\ UNCHANGED <<packet, start, labels, jumps, jumped, jumpPos>>

\* Mutant of Jump: the limit is looked at before the jump is counted.
JumpLate ==
    /\ HasByte /\ IsPointer(At(packet, pos)) /\ PointerOk(packet, pos)
    /\ jumped' = TRUE
    /\ jumpPos' = IF jumped THEN jumpPos ELSE pos + 2
    /\ pos' = Offset(packet, pos)
    /\ jumps' = jumps + 1
    /\ reading' = IF jumps > MaxJumps THEN "failed" ELSE "busy"
    /\ UNCHANGED <<packet, start, labels>>

\* Mutant of Jump: reading goes on after the last pointer.
JumpLast ==
    /\ HasByte /\ IsPointer(At(packet, pos)) /\ PointerOk(packet, pos)
    /\ jumped' = TRUE
    /\ jumpPos' = pos + 2
    /\ pos' = Offset(packet, pos)
    /\ jumps' = jumps + 1
    /\ reading' = IF jumps' > MaxJumps THEN "failed" ELSE "busy"
    /\ UNCHANGED <<packet, start, labels>>

\* Mutant of Jump: jumps are not counted.
JumpFreely ==
    /\ HasByte /\ IsPointer(At(packet, pos)) /\ PointerOk(packet, pos)
    /\ jumped' = TRUE
    /\ jumpPos' = IF jumped THEN jumpPos ELSE pos + 2
    /\ pos' = Offset(packet, pos)
    /\ UNCHANGED <<packet, start, labels, jumps, reading>>

Jump ==
    /\ HasByte /\ IsPointer(At(packet, pos)) /\ PointerOk(packet, pos)
    /\ jumped' = TRUE
    /\ jumpPos' = IF jumped THEN jumpPos ELSE pos + 2
    /\ pos' = Offset(packet, pos)
    /\ jumps' = jumps + 1
    /\ reading' = IF jumps' > MaxJumps THEN "failed" ELSE "busy"
    /\ UNCHANGED <<packet, start, labels>>

BadPointer == HasByte /\ IsPointer(At(packet, pos)) /\ ~PointerOk(packet, pos) /\ Fail

TakeLabel ==
    /\ HasByte /\ IsLength(At(packet, pos)) /\ LabelOk(packet, pos)
    /\ labels' = Append(labels, Label(packet, pos))
    /\ pos' = LabelEnd(packet, pos)
    /\ UNCHANGED <<packet, start, jumps, jumped, jumpPos, reading>>

BadLabel == HasByte /\ IsLength(At(packet, pos)) /\ ~LabelOk(packet, pos) /\ Fail

NameNext ==
    \/ EndOfData \/ Root \/ Jump \/ BadPointer \/ TakeLabel \/ BadLabel

\* parse_name runs without a pause.
NameSpec == NameInit /\ [][NameNext]_nameVars /\ WF_nameVars(NameNext)

-----------------------------------------------------------------------------
(* serialize_name *)

\* A label as it is written: after its length.
Written(label) == <<Len(label) % 256>> \o label

\* Mutant of Encode: empty pieces are written, too.
EncodeEmpty(text) ==
    LET pieces == Pieces(text)
    IN  FlattenSeq([k \in DOMAIN pieces |-> Written(pieces[k])]) \o <<0>>

\* serialize_name: the pieces in turn, but for empty ones, and a 0.
Encode(text) ==
    LET pieces == Pieces(text)
    IN  FlattenSeq([k \in DOMAIN pieces |->
            IF pieces[k] = <<>> THEN <<>> ELSE Written(pieces[k])]) \o <<0>>

-----------------------------------------------------------------------------
(* Properties *)

\* A name by the definition of the format: what begins at position i of p, with
\* at most j pointers, if read[<<k, l>>] is what begins at k with at most l.
NameFrom(p, read, i, j) ==
    LET prepend(l, rest) ==
          IF rest = Unreadable THEN Unreadable
          ELSE [labels |-> <<l>> \o rest.labels, next |-> rest.next]
        endAt(k, rest) ==
          IF rest = Unreadable THEN Unreadable
          ELSE [labels |-> rest.labels, next |-> k]
    IN  IF i >= Len(p) THEN Unreadable
        ELSE IF IsRoot(At(p, i)) THEN [labels |-> <<>>, next |-> i + 1]
        ELSE IF IsPointer(At(p, i))
             THEN IF PointerOk(p, i) /\ j > 0
                  THEN endAt(i + 2, read[<<Offset(p, i), j - 1>>])
                  ELSE Unreadable
        ELSE IF LabelOk(p, i)
             THEN prepend(Label(p, i), read[<<LabelEnd(p, i), j>>])
             ELSE Unreadable

NamesIn(p, n) ==
    LET read[at \in Nat \X (0..n)] == NameFrom(p, read, at[1], at[2]) IN read

\* The name at a position of p, with at most n pointers: its labels and where
\* it ends.
NameAt(p, from, n) == NamesIn(p, n)[<<from, n>>]

\* Every variable stays in its type; the cursor stays within the packet or at
\* its end, so that no index is out of bounds (dns.rs:248-301).
NameTypeOK ==
    /\ packet \in Packet
    /\ start \in 0..Len(packet) /\ pos \in 0..Len(packet)
    /\ labels \in Seq(Seq(0..127) \ {<<>>})
    /\ jumps \in 0..(MaxJumps + 1) /\ jumped \in BOOLEAN
    /\ jumpPos \in 0..Len(packet)
    /\ reading \in {"idle", "busy", "read", "failed"}

\* parse_name reads the name that is there, fails if there is none or it takes
\* too many jumps, and leaves the cursor where the name ends in the packet,
\* also after a chain of pointers (dns.rs:274-278, 296-298).
NameRead ==
    LET name == NameAt(packet, start, MaxJumps)
    IN  /\ reading = "read" => name = [labels |-> labels, next |-> pos]
        /\ reading = "failed" => name = Unreadable

\* A name that was read asks for the same name when it is sent upstream or
\* back: serialize_name writes what parse_name reads as the same labels.  The
\* String loses the difference between a dot in a label and one between two.
RoundTrip ==
    reading = "read" /\ (\A k \in DOMAIN labels : Dot \notin ToSet(labels[k])) =>
       LET wire == Encode(Joined(labels))
       IN  NameAt(wire, 0, 0) = [labels |-> labels, next |-> Len(wire)]
=============================================================================
