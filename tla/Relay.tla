-------------------------------- MODULE Relay --------------------------------
(***************************************************************************)
(* The packets of the wifi_relay demo: sendpkt of demos/wifi-relay/        *)
(* start.sh writes the file again and again, each time as a frame of two   *)
(* length bytes, the bytes and a newline, to a connection, and             *)
(* services/wifi_relay/relay.c reads the frames and sends the bytes out.   *)
(*                                                                         *)
(* A byte has Radix values and uint16_t Radix * Radix.  fread blocks until *)
(* it has what it was asked for or the connection is at its end, so how    *)
(* the network cuts the stream does not show: a byte is one step.  A file  *)
(* that does not fit into the buffer of relay.c is left out.               *)
(***************************************************************************)
EXTENDS Integers, Sequences, SequencesExt

CONSTANTS
  Radix,      \* values of a byte, 256
  MTU,        \* bytes of the buffer pkt, 1500
  Packets,    \* files that are sent
  Newline,    \* what echo '' writes
  MaxFrames   \* bound: frames that are written

Bytes == 0 .. (Radix - 1)
Words == 0 .. (Radix * Radix - 1)

ASSUME RelayAssumption ==
  /\ Radix \in Nat \ {0, 1} /\ MaxFrames \in Nat
  /\ MTU \in 1 .. (Radix * Radix - 1)
  /\ Newline \in Bytes
  /\ \A p \in Packets : p \in Seq(Bytes) /\ Len(p) < MTU

VARIABLES
  packet,   \* the file
  frames,   \* frames that sendpkt has begun
  unsent,   \* what is left to write of the frame
  stream,   \* bytes on the connection
  closed,   \* sendpkt and nc are gone
  rpc,      \* the next step of the relay
  len, n,   \* locals of main
  got,      \* what fread has read so far
  relayed   \* packets that sendto was given

writer == <<packet, frames, unsent>>
locals == <<len, n>>
relayvars   == <<writer, stream, closed, rpc, locals, got, relayed>>

(* uint16_t in memory, on a machine that stores the low byte first. *)
Word(lo, hi) == hi * Radix + lo
ntohs_None(w) == w
ntohs(w)     == Word(w \div Radix, w % Radix)
Uint16(i)    == i % (Radix * Radix)

RelayInit ==
  /\ packet \in Packets
  /\ frames = 0 /\ unsent = <<>> /\ stream = <<>> /\ closed = FALSE
  /\ rpc = "length"
  /\ len \in Words /\ n = 0   \* len is not initialized
  /\ got = <<>> /\ relayed = <<>>

-----------------------------------------------------------------------------
(* sendpkt *)

(* printf '0000 %04x' "$size" | xxd -r; cat $pktfile; echo '' *)
Frame(p) ==
  LET size == Len(p) + 1 IN <<size \div Radix, size % Radix>> \o p \o <<Newline>>

SendPkt ==
  /\ ~closed /\ unsent = <<>> /\ frames < MaxFrames
  /\ unsent' = Frame(packet)
  /\ frames' = frames + 1
  /\ UNCHANGED <<packet, stream, closed, rpc, locals, got, relayed>>

WriteByte ==
  /\ ~closed /\ unsent # <<>>
  /\ stream' = Append(stream, Head(unsent))
  /\ unsent' = Tail(unsent)
  /\ UNCHANGED <<packet, frames, closed, rpc, locals, got, relayed>>

(* The script may be stopped anywhere, inside a frame too. *)
Close ==
  /\ ~closed
  /\ closed' = TRUE
  /\ UNCHANGED <<writer, stream, rpc, locals, got, relayed>>

-----------------------------------------------------------------------------
(* main *)

AtEnd == closed /\ stream = <<>>

Read(from) ==
  /\ rpc = from /\ stream # <<>>
  /\ got' = Append(got, Head(stream))
  /\ stream' = Tail(stream)

ReadLengthByte ==
  /\ Read("length") /\ Len(got) < 2
  /\ UNCHANGED <<writer, closed, rpc, locals, relayed>>

(* fread(&len, sizeof(len), 1, stdin) is done: it has both bytes, or the   *)
(* stream ended and what it has is in len, the other byte as it was.  Its  *)
(* result is no negative number then, and the program goes on.             *)
HaveLength ==
  /\ rpc = "length" /\ (Len(got) = 2 \/ AtEnd)
  /\ LET lo == IF Len(got) > 0 THEN got[1] ELSE len % Radix
         hi == IF Len(got) > 1 THEN got[2] ELSE len \div Radix
         l  == ntohs(Word(lo, hi))
     IN  /\ len' = l /\ n' = l
         /\ rpc' = IF l = 0 THEN "exit" ELSE "body"
  /\ got' = <<>>
  /\ UNCHANGED <<writer, stream, closed, relayed>>

ReadBodyByte ==
  /\ Read("body") /\ Len(got) < len
  /\ UNCHANGED <<writer, closed, rpc, locals, relayed>>

(* fread(pkt, sizeof(char), len, stdin) is done.  At the end of the stream *)
(* it has less, and the loop asks again for the rest, for ever.            *)
HaveBody ==
  /\ rpc = "body" /\ (Len(got) = len \/ AtEnd)
  /\ len' = len - Len(got)
  /\ rpc' = IF len' = 0 THEN "send" ELSE "body"
  /\ got' = IF len' = 0 THEN got ELSE <<>>
  /\ UNCHANGED <<writer, stream, closed, n, relayed>>

SendTo_All ==
  /\ rpc = "send"
  /\ relayed' = Append(relayed, got)
  /\ len' \in {n, Uint16(-1)}
  /\ rpc' = "length" /\ got' = <<>>
  /\ UNCHANGED <<writer, stream, closed, n>>

(* sendto(rawsock, pkt, n-1, ...): the newline stays behind.  The result,  *)
(* -1 too, goes into the unsigned len, so no error is seen.                *)
SendTo ==
  /\ rpc = "send"
  /\ relayed' = Append(relayed, SubSeq(got, 1, n - 1))
  /\ len' \in {n - 1, Uint16(-1)}
  /\ rpc' = "length" /\ got' = <<>>
  /\ UNCHANGED <<writer, stream, closed, n>>

-----------------------------------------------------------------------------

Main == ReadLengthByte \/ HaveLength \/ ReadBodyByte \/ HaveBody \/ SendTo

RelayNext == SendPkt \/ WriteByte \/ Close \/ Main

RelaySpec == RelayInit /\ [][RelayNext]_relayvars

(* The relay runs, and the script writes what it has begun. *)
FairRelaySpec == RelaySpec /\ WF_relayvars(Main) /\ WF_relayvars(WriteByte)

-----------------------------------------------------------------------------
(***************************************************************************)
(* Properties                                                              *)
(***************************************************************************)

(* Whatever bytes the file has, lengths and newlines among them, and       *)
(* wherever the stream ends, what goes out is the file, whole and once per *)
(* frame, and fread never gets more than len or the buffer holds: the      *)
(* lengths stay those that were written, at 16 bits.                       *)
RelaysFrames ==
  /\ n \in Words /\ Len(got) <= IF rpc = "length" THEN 2 ELSE MTU
  /\ Len(relayed) <= frames
  /\ \A i \in DOMAIN relayed : relayed[i] = packet

(* As long as the connection is open, every frame that was begun goes out. *)
FramesArrive == \A k \in 1 .. MaxFrames : frames >= k ~> closed \/ Len(relayed) >= k

(* The rest does not hold of the code: TLC finds counterexamples.          *)

(* "Failed to get length" ... exit(1): the relay ends with its input.      *)
EndsWithInput == closed ~> rpc = "exit"
=============================================================================
