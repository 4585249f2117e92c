------------------------------ MODULE DnsRecord ------------------------------
(***************************************************************************)
(* A resource record is read (DnsResourceRecord::parse, dns.rs): its name, *)
(* its fixed fields, and its data.  The data of a CNAME record are a name, *)
(* which may point anywhere in the packet; parse_name reads it from the    *)
(* same reader, and then the cursor goes back to skip the data, whatever   *)
(* has become of the name.                                                 *)
(*                                                                         *)
(* The fixed fields are FieldsLength bytes, the last of which is the length *)
(* of the data; the type is chosen freely.                                 *)
(***************************************************************************)
EXTENDS DnsName

CONSTANTS FieldsLength, NoTarget

ASSUME FieldsAssumption == FieldsLength \in Nat \ {0}

VARIABLES
    stage,    \* "name", "target", and then "read" or "failed"
    begin,    \* history: where the record begins
    cname,    \* rtype == 5
    saved,    \* where the data begin
    length,   \* rdlength
    target    \* cname_target

recordVars == <<nameVars, stage, begin, cname, saved, length, target>>

RecordInit ==
    /\ NameInit
    /\ stage = "name" /\ begin = start
    /\ cname = FALSE /\ saved = 0 /\ length = 0 /\ target = NoTarget

\* parse_name is under way, for the record's name or for the target.
ReadName ==
    /\ NameNext
    /\ UNCHANGED <<stage, begin, cname, saved, length, target>>

\* The cursor is at p, and no name is read.
Leave(p) ==
    /\ pos' = p
    /\ reading' = "idle"
    /\ UNCHANGED <<packet, start, labels, jumps, jumped, jumpPos>>

\* The cursor is at p, and parse_name is called.
Call(p) ==
    /\ start' = p /\ pos' = p
    /\ labels' = <<>> /\ jumps' = 0 /\ jumped' = FALSE /\ jumpPos' = 0
    /\ reading' = "busy"
    /\ UNCHANGED packet

FieldsFit == pos + FieldsLength <= Len(packet)

\* The fixed fields of a CNAME record.
CnameFields ==
    /\ stage = "name" /\ reading = "read" /\ FieldsFit
    /\ cname' = TRUE
    /\ saved' = pos + FieldsLength
    /\ length' = At(packet, pos + FieldsLength - 1)
    /\ Call(saved')
    /\ stage' = "target"
    /\ UNCHANGED <<begin, target>>

\* The data from position p on are skipped.
SkipData(p, n) ==
    IF p + n <= Len(packet) THEN stage' = "read" /\ Leave(p + n)
    ELSE stage' = "failed" /\ Leave(p)

\* The fixed fields and the data of another record.
OtherRecord ==
    /\ stage = "name" /\ reading = "read" /\ FieldsFit
    /\ saved' = pos + FieldsLength
    /\ length' = At(packet, pos + FieldsLength - 1)
    /\ SkipData(saved', length')
    /\ UNCHANGED <<begin, cname, target>>

\* Mutant of CnameData: the data are skipped from behind the target.
CnameDataOn ==
    /\ stage = "target" /\ reading \in {"read", "failed"}
    /\ target' = IF reading = "read" THEN labels ELSE NoTarget
    /\ SkipData(pos, length)
    /\ UNCHANGED <<begin, cname, saved, length>>

\* The target, or none if it cannot be read; set_position(saved); the data.
CnameData ==
    /\ stage = "target" /\ reading \in {"read", "failed"}
    /\ target' = IF reading = "read" THEN labels ELSE NoTarget
    /\ SkipData(saved, length)
    /\ UNCHANGED <<begin, cname, saved, length>>

\* The record has no name, or ends before its fixed fields do.
NoRecord ==
    /\ stage = "name"
    /\ reading = "failed" \/ (reading = "read" /\ ~FieldsFit)
    /\ stage' = "failed"
    /\ Leave(pos)
    /\ UNCHANGED <<begin, cname, saved, length, target>>

RecordNext == ReadName \/ CnameFields \/ OtherRecord \/ CnameData \/ NoRecord

\* parse runs without a pause.
RecordSpec ==
    RecordInit /\ [][RecordNext]_recordVars /\ WF_recordVars(RecordNext)

-----------------------------------------------------------------------------
(* Properties *)

\* A record is read if its data end within the packet, also if the target of a
\* CNAME record cannot be read.  The target is the name that its data begin
\* with, and the next record is looked for where these data end, wherever the
\* pointers in both names lead (dns.rs:77-82, 95-108).
RecordRead ==
    LET name == NameAt(packet, begin, MaxJumps)
        data == name.next + FieldsLength
        end == data + At(packet, data - 1)
        alias == NameAt(packet, data, MaxJumps)
        present == name # Unreadable /\ data <= Len(packet) /\ end <= Len(packet)
    IN  /\ stage = "read" =>
              /\ present /\ pos = end
              /\ target = IF cname /\ alias # Unreadable
                          THEN alias.labels ELSE NoTarget
        /\ stage = "failed" => ~present

\* Every record is read or rejected in the end (dns.rs:279-282).
RecordEnds == <>(stage \in {"read", "failed"})
=============================================================================
