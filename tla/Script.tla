------------------------------- MODULE Script -------------------------------
(***************************************************************************)
(* The steps of the two programs that meet on a RemoteCL connection: what  *)
(* a function of the client library, or a handler of the server, does with *)
(* its PacketStream and with the OpenCL driver, as a sequence of steps.    *)
(*                                                                         *)
(* A packet is named by its PacketType.  Payload packets are further told  *)
(* apart by how their body is encoded, because both sides have to agree on *)
(* that too: "Pay8", "Pay16" and "Pay32" are Payload<uint8_t>, <uint16_t>  *)
(* and <uint32_t> (also PayloadPtr and PayloadInto), "U8", "U16", "U32",   *)
(* "U64" and "Char" are SimplePacket<PacketType::Payload, T>.              *)
(***************************************************************************)
EXTENDS Naturals, Sequences

\* The encodings of PacketType::Payload.
Payloads == {"Pay8", "Pay16", "Pay32", "U8", "U16", "U32", "U64", "Char"}

\* mStream.write<ty>(...)
W(ty) == [ty |-> ty, do |-> "write"]

\* mStream.read<ty>()
R(ty) == [ty |-> ty, do |-> "read"]

\* mStream.flush()
F == [ty |-> "-", do |-> "flush"]

\* A call of the driver, with the allocation of the buffers it fills.  If it
\* fails, the handler writes an ErrorPacket and returns (or std::bad_alloc
\* reaches run(), which writes the ErrorPacket).
Cl == [ty |-> "-", do |-> "call"]

\* A call of the driver whose failure is written to the client, after which
\* the handler goes on.
ClReport == [ty |-> "-", do |-> "report"]

\* A driver call that returns only when the user event is complete.
ClAwait == [ty |-> "-", do |-> "await"]

\* The driver call that completes the user event.
ClComplete == [ty |-> "-", do |-> "complete"]

\* The handler itself answers with an ErrorPacket (CL_INVALID_OPERATION).
Refuse == [ty |-> "-", do |-> "refuse"]

\* The steps that decide whether the requested command was carried out.
Commands == {"call", "report", "await", "complete", "refuse"}

Steps == [ty : STRING, do : {"write", "read", "flush"} \cup Commands]

When(condition, step) == IF condition THEN <<step>> ELSE << >>

Times(n, step) == [i \in 1..n |-> step]

\* No command is left in these steps.
NoCommand(steps) == \A i \in 1 .. Len(steps) : steps[i].do \notin Commands
=============================================================================
