------------------------------ MODULE DnsMessage ------------------------------
(***************************************************************************)
(* The messages that dns-ligase composes for one UDP query: the query it   *)
(* sends upstream, the refusal of a blocked name and the truncated reply   *)
(* (dns.rs, DnsMessage; upstream.rs).  Each is a parsed message changed    *)
(* in place and serialized, and what is read from it rests on the counts   *)
(* in its header.                                                          *)
(*                                                                         *)
(* On the wire a message is its header and the sequence of its questions   *)
(* and records, each a value of its own; what their bytes are is left out, *)
(* but for the size of a reply.                                            *)
(***************************************************************************)
EXTENDS Text

CONSTANTS
    ClientPacket,   \* what clients send: wire forms
    UpstreamReply,  \* what comes back: [wire |-> ..., bytes |-> ...]
    Question,
    Id,
    Data,           \* what records hold
    NoData          \* the data of an OPT record without options

EDNS_BUFFER_SIZE == 1232
DefaultLimit == 512

\* A resource record: for OPT, the class is the buffer size and a bit of the
\* TTL says DO.
Opt(size, do, data) == [opt |-> TRUE, size |-> size, do |-> do, data |-> data]
IsOpt(rr) == rr.opt

Record == [opt : BOOLEAN, size : Nat, do : BOOLEAN, data : Data]

\* The flags and codes that the code sets, and all others.
Flag == {"QR", "TC", "RD", "RA", "NXDOMAIN", "other"}

\* A header: the counts say how many items each section has.
Header == [id : Id, flags : SUBSET Flag, questions : Nat, answers : Nat,
           authorities : Nat, additionals : Nat]

ASSUME WireAssumption ==
    /\ Question \cap Record = {} /\ NoData \in Data
    /\ \A wire \in ClientPacket \cup {r.wire : r \in UpstreamReply} :
          /\ wire \in Seq(Header \cup Question \cup Record)
          /\ wire # <<>> =>
                /\ wire[1] \in Header
                /\ \A i \in 2..Len(wire) : wire[i] \in Question \cup Record
    /\ \A r \in UpstreamReply : r.bytes \in Nat

VARIABLES
    phase,     \* "new", "parsed", "sent", "back", and "ended"
    message,   \* msg, as parsed from the client's packet
    upward,    \* packet_to_send
    returned,  \* resp
    out        \* what goes to the client, [how |-> ..., wire |-> ...]

messageVars == <<phase, message, upward, returned, out>>

Nothing == [how |-> "nothing", wire |-> <<>>]

MessageInit ==
    /\ phase = "new"
    /\ message = <<>> /\ upward = <<>> /\ returned = <<>>
    /\ out = Nothing

-----------------------------------------------------------------------------
(* DnsMessage::parse and serialize *)

\* Mutant of Serialize: the header is written as it stands.
SerializeHeader(m) ==
    <<m.header>> \o m.questions \o m.answers \o m.authorities \o m.additionals

\* The header's counts go out as they are, but for the last one.
Serialize(m) ==
    <<[m.header EXCEPT !.additionals = Len(m.additionals)]>>
      \o m.questions \o m.answers \o m.authorities \o m.additionals

\* Where each section of a wire form begins, by the counts of its header; the
\* fifth place is the one behind the last section.
Begin(wire, k) ==
    LET h == wire[1]
        answers == 2 + h.questions
        authorities == answers + h.answers
        additionals == authorities + h.authorities
    IN  <<2, answers, authorities, additionals, additionals + h.additionals>>[k]

\* The part of the wire form that is read.
Extent(wire) == Begin(wire, 5) - 1

\* Section k of a wire form.
Items(wire, k) == SubSeq(wire, Begin(wire, k), Begin(wire, k + 1) - 1)

\* Parsing fails if the data end too early, or something is not what the
\* counts say that it is.  What follows the last section is not looked at.
Readable(wire) ==
    /\ wire # <<>> /\ Extent(wire) <= Len(wire)
    /\ ToSet(Items(wire, 1)) \subseteq Question
    /\ \A k \in 2..4 : ToSet(Items(wire, k)) \cap Question = {}

Read(wire) ==
    [header |-> wire[1],
     questions |-> Items(wire, 1), answers |-> Items(wire, 2),
     authorities |-> Items(wire, 3), additionals |-> Items(wire, 4)]

-----------------------------------------------------------------------------
(* What is composed *)

\* The places of OPT records among the additionals, and of the others.
Opts(m) == {i \in DOMAIN m.additionals : IsOpt(m.additionals[i])}
Others(m) == DOMAIN m.additionals \ Opts(m)
FirstOpt(m) == CHOOSE i \in Opts(m) : \A j \in Opts(m) : i <= j

WithOpt(m, size) ==
    [m EXCEPT !.additionals = Append(@, Opt(size, TRUE, NoData)),
              !.header.additionals = @ + 1]

\* Mutant of AddOptRecord: an OPT record is added in any case.
AddOptAlways(m, size) == WithOpt(m, size)

\* add_opt_record: the first OPT record is rewritten, or one is added.
AddOptRecord(m, size) ==
    IF Opts(m) # {}
    THEN [m EXCEPT !.additionals[FirstOpt(m)].size = size,
                   !.additionals[FirstOpt(m)].do = TRUE]
    ELSE WithOpt(m, size)

\* build_nxdomain.
BuildNxdomain(m) ==
    Serialize([m EXCEPT !.header.flags = {"QR", "RD", "RA", "NXDOMAIN"},
                        !.header.questions = 1, !.header.answers = 0,
                        !.header.authorities = 0,
                        !.answers = <<>>, !.authorities = <<>>,
                        !.additionals = <<>>])

\* Mutant of Cut: the number of answers stays in the header.
CutCounted(m) ==
    [m EXCEPT !.header.flags = @ \cup {"TC"},
              !.header.authorities = 0,
              !.answers = <<>>, !.authorities = <<>>,
              !.additionals = Retain(@, Opts(m))]

\* truncate_response, between parse and serialize.
Cut(m) ==
    [m EXCEPT !.header.flags = @ \cup {"TC"},
              !.header.answers = 0, !.header.authorities = 0,
              !.answers = <<>>, !.authorities = <<>>,
              !.additionals = Retain(@, Opts(m))]

\* Mutant of ClientLimit: any OPT record will do.
ClientLimitAny(m) ==
    IF Opts(m) = {} THEN DefaultLimit
    ELSE LET size == CHOOSE s \in {m.additionals[i].size : i \in Opts(m)} :
                        \A i \in Opts(m) : s >= m.additionals[i].size
         IN  IF size \in 1..4096 THEN size ELSE DefaultLimit

\* client_udp_size: what the first OPT record offers, if it is sensible.
ClientLimit(m) ==
    IF Opts(m) # {} /\ m.additionals[FirstOpt(m)].size \in 1..4096
    THEN m.additionals[FirstOpt(m)].size ELSE DefaultLimit

-----------------------------------------------------------------------------
(* The way of a query *)

Receive(packet) ==
    /\ phase = "new" /\ Readable(packet)
    /\ message' = Read(packet)
    /\ phase' = "parsed"
    /\ UNCHANGED <<upward, returned, out>>

Reject(packet) ==
    /\ phase = "new" /\ ~Readable(packet)
    /\ phase' = "ended"
    /\ UNCHANGED <<message, upward, returned, out>>

Send(how, wire) ==
    /\ out' = [how |-> how, wire |-> wire]
    /\ phase' = "ended"

\* The name is blocked, or later a CNAME target.
Refuse ==
    /\ \/ phase = "parsed"
       \/ /\ phase = "back" /\ Readable(returned.wire)
          /\ Read(returned.wire).answers # <<>>
    /\ message.questions # <<>>
    /\ Send("nxdomain", BuildNxdomain(message))
    /\ UNCHANGED <<message, upward, returned>>

Forward ==
    /\ phase = "parsed"
    /\ upward' = Serialize(AddOptRecord(message, EDNS_BUFFER_SIZE))
    /\ phase' = "sent"
    /\ UNCHANGED <<message, returned, out>>

Return(reply) ==
    /\ phase = "sent"
    /\ returned' = reply
    /\ phase' = "back"
    /\ UNCHANGED <<message, upward, out>>

Fits == returned.bytes <= ClientLimit(message)

Relay ==
    /\ phase = "back" /\ Fits
    /\ Send("whole", returned.wire)
    /\ UNCHANGED <<message, upward, returned>>

\* A reply that is too big must parse to be cut.
Truncate ==
    /\ phase = "back" /\ ~Fits
    /\ IF Readable(returned.wire)
       THEN Send("cut", Serialize(Cut(Read(returned.wire))))
       ELSE phase' = "ended" /\ UNCHANGED out
    /\ UNCHANGED <<message, upward, returned>>

MessageNext ==
    \/ \E p \in ClientPacket : Receive(p) \/ Reject(p)
    \/ Refuse \/ Forward
    \/ \E r \in UpstreamReply : Return(r)
    \/ Relay \/ Truncate

MessageSpec == MessageInit /\ [][MessageNext]_messageVars

-----------------------------------------------------------------------------
(* Properties *)

\* The upstream reads the client's own query, with one OPT record more at most:
\* the first one asks for DNSSEC data and offers 1232 bytes, and keeps the
\* client's options (README.md:83; upstream.rs:393-396).
QueryFaithful ==
    upward # <<>> =>
       LET m == Read(upward) IN
       /\ Readable(upward) /\ Extent(upward) = Len(upward)
       /\ [m EXCEPT !.header.additionals = 0, !.additionals = <<>>] =
             [message EXCEPT !.header.additionals = 0, !.additionals = <<>>]
       /\ Retain(m.additionals, Others(m)) =
             Retain(message.additionals, Others(message))
       /\ m.additionals[FirstOpt(m)].size = EDNS_BUFFER_SIZE
       /\ m.additionals[FirstOpt(m)].do
       /\ IF Opts(message) = {} THEN m.additionals[FirstOpt(m)].data = NoData
          ELSE /\ Opts(m) = Opts(message)
               /\ \A i \in Opts(m) :
                     m.additionals[i].data = message.additionals[i].data

\* A reply that was cut is read as the reply with TC, the same question and OPT
\* records, and nothing else, as the comment of truncate_response has it
\* (upstream.rs:657-659).  README.md:84 says otherwise: that the response is
\* "header-only".  It never is unless the reply had no question and no OPT.
CutReads ==
    out.how = "cut" =>
       LET m == Read(out.wire)
           full == Read(returned.wire)
       IN  /\ Readable(out.wire) /\ Extent(out.wire) = Len(out.wire)
           /\ "TC" \in m.header.flags
           /\ m.questions = full.questions
           /\ m.answers = <<>> /\ m.authorities = <<>>
           /\ m.additionals = Retain(full.additionals, Opts(full))

\* A refusal is read as NXDOMAIN to the first question, with no records; if the
\* query had one question, there is nothing left behind it (upstream.rs:618).
RefusalReads ==
    out.how = "nxdomain" =>
       LET m == Read(out.wire) IN
       /\ Readable(out.wire) /\ "NXDOMAIN" \in m.header.flags
       /\ m.header.id = message.header.id
       /\ m.questions = <<Head(message.questions)>>
       /\ m.answers = <<>> /\ m.authorities = <<>> /\ m.additionals = <<>>
       /\ Len(message.questions) = 1 => Extent(out.wire) = Len(out.wire)

\* No client gets more over UDP than 512 bytes or what its OPT record offers
\* (upstream.rs:380-381; README.md:84).
WithinOffer ==
    out.how = "whole" =>
       \/ returned.bytes <= DefaultLimit
       \/ /\ Opts(message) # {}
          /\ returned.bytes <= message.additionals[FirstOpt(message)].size
=============================================================================
