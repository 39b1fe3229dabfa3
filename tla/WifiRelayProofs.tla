--------------------------- MODULE WifiRelayProofs ---------------------------
(***************************************************************************)
(* Proofs about the two halves of the wifi_relay service.  About Relay,    *)
(* for every file that fits into the buffer, whatever its bytes, and for   *)
(* every radix: the relay stays in step with the frames, and what it sends *)
(* is the file.  The proofs use no bound on the frames.                    *)
(*                                                                         *)
(* About UML, for any clients, files, reports and number of reports: a     *)
(* thread is left to watch, and what is shown is what the report says.     *)
(***************************************************************************)
EXTENDS Relay, UML, SumTheorems

-----------------------------------------------------------------------------
(* Two digits make a number. *)

LEMMA Division ==
  ASSUME NEW a \in Nat, NEW r \in Nat \ {0}
  PROVE  a = (a \div r) * r + (a % r) /\ a % r \in 0 .. (r - 1) /\ a \div r \in Nat
OBVIOUS

LEMMA Products ==
  ASSUME NEW a \in Int, NEW b \in Int, NEW r \in Nat, a < b
  PROVE  a * r + r <= b * r /\ a * r \in Int /\ b * r \in Int
<1>1. (b - a - 1) * r >= 0 /\ b - a - 1 >= 0
  OBVIOUS
<1>2. (b - a - 1) * r = b * r - a * r - r
  OBVIOUS
<1> QED
  BY <1>1, <1>2

LEMMA Digits ==
  ASSUME NEW r \in Nat \ {0}, NEW hi \in Nat, NEW lo \in 0 .. (r - 1)
  PROVE  hi * r + lo \in Nat /\ (hi * r + lo) \div r = hi /\ (hi * r + lo) % r = lo
<1> DEFINE a == hi * r + lo
           q == a \div r
           m == a % r
<1>1. a \in Nat
  OBVIOUS
<1>2. a = q * r + m /\ m \in 0 .. (r - 1) /\ q \in Nat
  BY <1>1, Division
<1>3. hi * r + lo = q * r + m
  BY <1>2
<1> HIDE DEF a, q, m
<1>4. hi * r \in Int /\ q * r \in Int
  BY <1>2
<1>5. ~(q < hi)
  <2>1. q < hi => q * r + r <= hi * r
    BY <1>2, Products
  <2> QED
    BY <2>1, <1>2, <1>3, <1>4
<1>6. ~(hi < q)
  <2>1. hi < q => hi * r + r <= q * r
    BY <1>2, Products
  <2> QED
    BY <2>1, <1>2, <1>3, <1>4
<1>7. q = hi
  BY <1>5, <1>6, <1>2
<1>8. m = lo
  BY <1>7, <1>2, <1>3, <1>4
<1> QED
  BY <1>1, <1>7, <1>8 DEF q, m, a

(* A number below Radix^2 has two digits, *)
LEMMA WordDigits ==
  ASSUME NEW w \in Words
  PROVE  w % Radix \in Bytes /\ w \div Radix \in Bytes
<1>1. w \in Nat /\ Radix \in Nat \ {0} /\ w < Radix * Radix /\ Radix * Radix \in Int
  BY RelayAssumption DEF Words
<1>2. w = (w \div Radix) * Radix + (w % Radix) /\ w % Radix \in 0 .. (Radix - 1) /\ w \div Radix \in Nat
  BY <1>1, Division
<1>3. ~(w \div Radix >= Radix)
  <2> DEFINE q == w \div Radix
             m == w % Radix
  <2>1. w = q * Radix + m /\ m \in 0 .. (Radix - 1) /\ q \in Nat
    BY <1>2
  <2> HIDE DEF q, m
  <2>2. q >= Radix => q * Radix >= Radix * Radix
    <3>1. Radix < q => Radix * Radix + Radix <= q * Radix /\ q * Radix \in Int
      BY <1>1, <2>1, Products
    <3> QED
      BY <3>1, <1>1, <2>1
  <2>3. q * Radix \in Int
    BY <1>1, <2>1
  <2>4. ~(q >= Radix)
    BY <1>1, <2>1, <2>2, <2>3
  <2> QED
    BY <2>4 DEF q
<1> QED
  BY <1>1, <1>2, <1>3 DEF Bytes

(* and two digits a number below Radix^2. *)
LEMMA WordOfDigits ==
  ASSUME NEW lo \in Bytes, NEW hi \in Bytes
  PROVE  Word(lo, hi) \in Words
<1>1. Radix \in Nat \ {0} /\ lo \in 0 .. (Radix - 1) /\ hi \in Nat /\ hi < Radix
  BY RelayAssumption DEF Bytes
<1>2. hi * Radix + Radix <= Radix * Radix /\ hi * Radix \in Int /\ Radix * Radix \in Int
  BY <1>1, Products
<1>3. hi * Radix >= 0
  BY <1>1
<1> QED
  BY <1>1, <1>2, <1>3 DEF Word, Words

(* What sendpkt writes high byte first is what ntohs makes of the two      *)
(* bytes in memory.                                                        *)
LEMMA LengthRead ==
  ASSUME NEW lo \in Bytes, NEW hi \in Bytes
  PROVE  ntohs(Word(lo, hi)) = Word(hi, lo)
<1>1. Radix \in Nat \ {0} /\ lo \in 0 .. (Radix - 1) /\ hi \in Nat
  BY RelayAssumption DEF Bytes
<1>2. Word(lo, hi) \div Radix = hi /\ Word(lo, hi) % Radix = lo
  BY <1>1, Digits DEF Word
<1> QED
  BY <1>2 DEF ntohs

-----------------------------------------------------------------------------
(* The frame of the file. *)

Whole == Frame(packet)
Size  == Len(packet) + 1
Long  == Len(packet) + 3

LEMMA FrameOf ==
  ASSUME packet \in Packets
  PROVE  /\ packet \in Seq(Bytes) /\ Len(packet) \in Nat
         /\ Size \in Words \ {0} /\ Size <= MTU /\ MTU \in Nat
         /\ Whole \in Seq(Bytes) /\ Len(Whole) = Long
         /\ Word(Whole[2], Whole[1]) = Size
         /\ Whole[1] \in Bytes /\ Whole[2] \in Bytes
         /\ \A i \in 1 .. Len(packet) : Whole[2 + i] = packet[i]
<1>1. packet \in Seq(Bytes) /\ Len(packet) \in Nat /\ Len(packet) < MTU
  BY RelayAssumption
<1>2. Radix \in Nat \ {0} /\ Radix * Radix \in Nat /\ MTU \in 1 .. (Radix * Radix - 1) /\ Newline \in Bytes
  BY RelayAssumption
<1>3. Size \in Words \ {0} /\ Size <= MTU /\ MTU \in Nat
  BY <1>1, <1>2 DEF Size, Words
<1> DEFINE hi == Size \div Radix
           lo == Size % Radix
<1>4. hi \in Bytes /\ lo \in Bytes
  BY <1>3, WordDigits
<1>5. Size = hi * Radix + lo
  BY <1>2, <1>3, Division DEF Words
<1>6. Whole = <<hi, lo>> \o packet \o <<Newline>>
  BY DEF Whole, Frame, Size
<1> HIDE DEF hi, lo
<1>7. /\ Whole \in Seq(Bytes) /\ Len(Whole) = Long
      /\ Whole[1] = hi /\ Whole[2] = lo
      /\ \A i \in 1 .. Len(packet) : Whole[2 + i] = packet[i]
  <2> DEFINE front == <<hi, lo>> \o packet
  <2>1. /\ front \in Seq(Bytes) /\ Len(front) = Len(packet) + 2
        /\ front[1] = hi /\ front[2] = lo
        /\ \A i \in 1 .. Len(packet) : front[2 + i] = packet[i]
    BY <1>1, <1>4
  <2>2. Whole = front \o <<Newline>>
    BY <1>6
  <2> HIDE DEF front
  <2>3. /\ Whole \in Seq(Bytes) /\ Len(Whole) = Long
        /\ \A i \in 1 .. (Len(packet) + 2) : Whole[i] = front[i]
    BY <2>1, <2>2, <1>1, <1>2 DEF Long
  <2> QED
    BY <2>1, <2>3, <1>1
<1> QED
  BY <1>1, <1>3, <1>4, <1>5, <1>7 DEF Word

-----------------------------------------------------------------------------
(* The place in a frame w that comes after the first k. *)
After(w, k) == IF k = Len(w) THEN 1 ELSE k + 1

(* The bytes s are those of frame after frame w, from the one after the    *)
(* first k to the one that is number l of its frame: at[i] is the place of *)
(* the (i+1)-st, and at the end that of the byte to come.                  *)
Runs(s, w, k, l) ==
  \E at \in [0 .. Len(s) -> 1 .. Len(w)] :
    /\ at[0] = After(w, k)
    /\ at[Len(s)] = After(w, l)
    /\ \A i \in 0 .. (Len(s) - 1) : s[i + 1] = w[at[i]] /\ at[i + 1] = After(w, at[i])

LEMMA RunsEmpty ==
  ASSUME NEW w \in Seq(Bytes), Len(w) > 0
  PROVE  Runs(<<>>, w, 0, Len(w))
<1> DEFINE at == [i \in 0 .. 0 |-> 1]
<1>1. at \in [0 .. Len(<<>>) -> 1 .. Len(w)] /\ at[0] = 1 /\ Len(<<>>) = 0
  OBVIOUS
<1>2. After(w, 0) = 1 /\ After(w, Len(w)) = 1
  BY DEF After
<1> HIDE DEF at
<1> QED
  BY <1>1, <1>2 DEF Runs

(* Between two frames is before the first byte of the second. *)
LEMMA RunsOn ==
  ASSUME NEW s, NEW w \in Seq(Bytes), Len(w) > 0, NEW k
  PROVE  /\ Runs(s, w, k, Len(w)) => Runs(s, w, k, 0)
         /\ Runs(s, w, Len(w), k) => Runs(s, w, 0, k)
<1>1. After(w, Len(w)) = After(w, 0)
  BY DEF After
<1> QED
  BY <1>1 DEF Runs

(* Whoever reads inside a frame reads the next byte of it. *)
LEMMA RunsRead ==
  ASSUME NEW s \in Seq(Bytes), s # <<>>, NEW w \in Seq(Bytes), NEW k \in 0 .. (Len(w) - 1), NEW l,
         Runs(s, w, k, l)
  PROVE  Head(s) = w[k + 1] /\ Runs(Tail(s), w, k + 1, l)
<1>1. PICK at \in [0 .. Len(s) -> 1 .. Len(w)] :
        /\ at[0] = After(w, k)
        /\ at[Len(s)] = After(w, l)
        /\ \A i \in 0 .. (Len(s) - 1) : s[i + 1] = w[at[i]] /\ at[i + 1] = After(w, at[i])
  BY DEF Runs
<1>2. Len(w) \in Nat \ {0} /\ Len(s) \in Nat \ {0}
  OBVIOUS
<1>3. at[0] = k + 1 /\ at[1] = After(w, k + 1)
  BY <1>1, <1>2 DEF After
<1>4. Head(s) = w[k + 1]
  BY <1>1, <1>2, <1>3
<1> DEFINE t == Tail(s)
           to == [i \in 0 .. (Len(s) - 1) |-> at[i + 1]]
<1>5. Len(t) = Len(s) - 1 /\ \A i \in 1 .. Len(t) : t[i] = s[i + 1]
  BY <1>2
<1>6. to \in [0 .. Len(t) -> 1 .. Len(w)]
  BY <1>2, <1>5
<1>7. to[0] = at[1] /\ to[Len(t)] = at[Len(s)]
  BY <1>2, <1>5
<1>8. ASSUME NEW i \in 0 .. (Len(t) - 1)
      PROVE  t[i + 1] = w[to[i]] /\ to[i + 1] = After(w, to[i])
  <2>1. i + 1 \in 0 .. (Len(s) - 1) /\ i + 1 \in 1 .. Len(t)
    BY <1>2, <1>5
  <2>2. to[i] = at[i + 1] /\ to[i + 1] = at[(i + 1) + 1]
    BY <1>2, <1>5, <2>1
  <2>3. t[i + 1] = s[(i + 1) + 1]
    BY <1>5, <2>1
  <2> QED
    BY <1>1, <2>1, <2>2, <2>3
<1> HIDE DEF t, to
<1>9. Runs(t, w, k + 1, l)
  BY <1>1, <1>3, <1>6, <1>7, <1>8 DEF Runs
<1> QED
  BY <1>4, <1>9 DEF t

(* Whoever writes the next byte of a frame goes on with it. *)
LEMMA RunsWritten ==
  ASSUME NEW s \in Seq(Bytes), NEW w \in Seq(Bytes), NEW k, NEW l \in 0 .. (Len(w) - 1),
         Runs(s, w, k, l)
  PROVE  Runs(Append(s, w[l + 1]), w, k, l + 1)
<1>1. PICK at \in [0 .. Len(s) -> 1 .. Len(w)] :
        /\ at[0] = After(w, k)
        /\ at[Len(s)] = After(w, l)
        /\ \A i \in 0 .. (Len(s) - 1) : s[i + 1] = w[at[i]] /\ at[i + 1] = After(w, at[i])
  BY DEF Runs
<1>2. Len(w) \in Nat \ {0} /\ Len(s) \in Nat
  OBVIOUS
<1> DEFINE t == Append(s, w[l + 1])
           to == [i \in 0 .. (Len(s) + 1) |->
                    IF i = Len(s) + 1 THEN After(w, l + 1) ELSE at[i]]
<1>3. Len(t) = Len(s) + 1 /\ t[Len(s) + 1] = w[l + 1] /\ \A i \in 1 .. Len(s) : t[i] = s[i]
  BY <1>2
<1>4. After(w, l + 1) \in 1 .. Len(w) /\ After(w, l) = l + 1
  BY <1>2 DEF After
<1>5. to \in [0 .. Len(t) -> 1 .. Len(w)]
  BY <1>2, <1>3, <1>4
<1>6. /\ to[0] = at[0] /\ to[Len(t)] = After(w, l + 1)
      /\ \A i \in 0 .. Len(s) : to[i] = at[i]
  BY <1>2, <1>3
<1> HIDE DEF t, to
<1>7. ASSUME NEW i \in 0 .. (Len(t) - 1)
      PROVE  t[i + 1] = w[to[i]] /\ to[i + 1] = After(w, to[i])
  <2>1. CASE i = Len(s)
    BY <1>1, <1>2, <1>3, <1>4, <1>6, <2>1
  <2>2. CASE i # Len(s)
    <3>1. i \in 0 .. (Len(s) - 1) /\ i \in 0 .. Len(s) /\ i + 1 \in 0 .. Len(s) /\ i + 1 \in 1 .. Len(s)
      BY <1>2, <1>3, <2>2
    <3> QED
      BY <1>1, <1>3, <1>6, <3>1
  <2> QED
    BY <2>1, <2>2
<1>8. Runs(t, w, k, l + 1)
  BY <1>1, <1>5, <1>6, <1>7 DEF Runs
<1> QED
  BY <1>8 DEF t

-----------------------------------------------------------------------------
(* Bytes of its frame that the relay has read, and that sendpkt has        *)
(* written.                                                                *)
Offset ==
  CASE rpc = "length" -> Len(got)
    [] rpc = "body"   -> 2 + Len(got)
    [] OTHER          -> Long
Written == Long - Len(unsent)

(* What is on the connection begins where the relay is, and ends where the *)
(* script is.                                                              *)
Aligned == Runs(stream, Whole, Offset, Written)

(* Every byte that was written is in a frame that was sent out, in the     *)
(* relay, or on its way.                                                   *)
Conserved == Len(relayed) * Long + Offset + Len(stream) + Len(unsent) = frames * Long

InFrame ==
  /\ rpc \in {"length", "body", "send"}
  /\ Offset \in 0 .. Long
  /\ rpc = "length" => Len(got) <= 2 /\ \A i \in 1 .. Len(got) : got[i] = Whole[i]
  /\ rpc # "length" => \A i \in 1 .. Len(got) : got[i] = Whole[2 + i]
  /\ rpc # "length" => n = Size /\ Len(got) <= Size
  /\ rpc = "body" => len = Size
  /\ rpc = "send" => Len(got) = Size
  /\ Aligned

(* The stream ended inside a frame, or before one: nothing goes out any    *)
(* more.                                                                   *)
Ended ==
  /\ AtEnd /\ got = <<>>
  /\ rpc = "exit" \/ (rpc = "body" /\ len # 0)

RelayTyped ==
  /\ packet \in Packets /\ frames \in Nat
  /\ unsent \in Seq(Bytes) /\ stream \in Seq(Bytes) /\ got \in Seq(Bytes)
  /\ len \in Words /\ n \in Words
  /\ relayed \in Seq(Seq(Bytes))
  /\ rpc \in {"length", "body", "send", "exit"}

Writing ==
  /\ Len(unsent) <= Long
  /\ \A i \in 1 .. Len(unsent) : unsent[i] = Whole[Written + i]

Faithful == \A i \in 1 .. Len(relayed) : relayed[i] = packet

RelayInv ==
  /\ RelayTyped /\ Writing /\ Faithful
  /\ \/ InFrame /\ Conserved
     \/ Ended /\ Len(relayed) <= frames

LEMMA LongType ==
  ASSUME packet \in Packets
  PROVE  Long \in Nat /\ Long >= 3 /\ Long = Size + 2 /\ Size \in Nat
BY FrameOf DEF Long, Size

LEMMA OffsetType ==
  ASSUME RelayTyped, Writing
  PROVE  /\ Offset \in Nat /\ Written \in 0 .. Long
         /\ Len(stream) \in Nat /\ Len(unsent) \in Nat /\ Len(got) \in Nat
         /\ Len(relayed) \in Nat /\ Len(relayed) * Long \in Int /\ frames * Long \in Int
BY LongType DEF RelayTyped, Writing, Offset, Written

LEMMA NotMoreThanFrames ==
  ASSUME RelayTyped, Writing, Conserved
  PROVE  Len(relayed) <= frames
<1>1. Len(relayed) \in Int /\ frames \in Int /\ Long \in Nat /\ Long >= 3
  BY LongType, OffsetType DEF RelayTyped
<1>2. frames < Len(relayed) => frames * Long + Long <= Len(relayed) * Long
  BY <1>1, Products
<1> QED
  BY <1>1, <1>2, OffsetType DEF Conserved

LEMMA InitRelay == RelayInit => RelayInv
<1> SUFFICES ASSUME RelayInit PROVE RelayInv
  OBVIOUS
<1>1. n \in Words
  BY RelayAssumption DEF RelayInit, Words
<1>2. RelayTyped /\ Faithful
  BY <1>1 DEF RelayInit, RelayTyped, Faithful
<1>3. Long \in Nat /\ Long >= 3
  BY <1>2, LongType DEF RelayTyped
<1>4. Writing /\ Offset = 0 /\ Written = Long
  BY <1>3 DEF RelayInit, Writing, Offset, Written
<1>5. Conserved
  BY <1>3, <1>4 DEF RelayInit, Conserved
<1>6. Aligned
  <2>1. Whole \in Seq(Bytes) /\ Len(Whole) = Long
    BY <1>2, FrameOf DEF RelayTyped
  <2>2. Runs(<<>>, Whole, 0, Len(Whole))
    BY <1>3, <2>1, RunsEmpty
  <2> QED
    BY <1>4, <2>1, <2>2 DEF Aligned, RelayInit
<1>7. InFrame
  BY <1>3, <1>4, <1>6 DEF RelayInit, InFrame
<1> QED
  BY <1>2, <1>4, <1>5, <1>7 DEF RelayInv

-----------------------------------------------------------------------------
LEMMA SendPktKeeps ==
  ASSUME RelayInv, SendPkt
  PROVE  RelayInv'
<1> USE DEF SendPkt, locals
<1>1. RelayTyped /\ Writing /\ Faithful /\ InFrame /\ Conserved
  BY DEF RelayInv, Ended, AtEnd
<1>2. Whole \in Seq(Bytes) /\ Len(Whole) = Long /\ Long \in Nat /\ Long >= 3 /\ Size \in Nat
  BY <1>1, FrameOf, LongType DEF RelayTyped
<1>3. Whole' = Whole /\ Long' = Long /\ Size' = Size /\ Offset' = Offset /\ unsent' = Whole
  BY DEF Whole, Long, Size, Offset
<1>4. RelayTyped' /\ Faithful'
  BY <1>1, <1>2, <1>3 DEF RelayTyped, Faithful
<1>5. Written = Long /\ Written' = 0
  BY <1>2, <1>3 DEF Written
<1>6. Writing'
  BY <1>2, <1>3, <1>5 DEF Writing
<1>7. Aligned'
  <2>1. Runs(stream, Whole, Offset, Len(Whole))
    BY <1>1, <1>2, <1>5 DEF InFrame, Aligned
  <2>2. Runs(stream, Whole, Offset, 0)
    BY <1>2, <2>1, RunsOn
  <2> QED
    BY <1>3, <1>5, <2>2 DEF Aligned
<1>8. Conserved'
  <2>1. (frames + 1) * Long = frames * Long + Long
    BY <1>1, <1>2 DEF RelayTyped
  <2>2. /\ Len(relayed)' = Len(relayed) /\ Len(stream)' = Len(stream)
        /\ Len(unsent) = 0 /\ Len(unsent)' = Long
        /\ frames' = frames + 1
    BY <1>2, <1>3
  <2>3. /\ Offset \in Nat /\ Len(stream) \in Nat
        /\ Len(relayed) * Long \in Int /\ frames * Long \in Int
    BY <1>1, OffsetType
  <2> QED
    BY <1>1, <1>2, <1>3, <2>1, <2>2, <2>3 DEF Conserved
<1>9. InFrame'
  BY <1>1, <1>2, <1>3, <1>7 DEF InFrame
<1> QED
  BY <1>4, <1>6, <1>8, <1>9 DEF RelayInv

LEMMA WriteByteKeeps ==
  ASSUME RelayInv, WriteByte
  PROVE  RelayInv'
<1> USE DEF WriteByte, locals
<1>1. RelayTyped /\ Writing /\ Faithful /\ InFrame /\ Conserved
  BY DEF RelayInv, Ended, AtEnd
<1>2. Long \in Nat /\ Long >= 3 /\ Size \in Nat
  BY <1>1, LongType DEF RelayTyped
<1>3. Whole' = Whole /\ Long' = Long /\ Size' = Size /\ Offset' = Offset
  BY DEF Whole, Long, Size, Offset
<1>4. /\ unsent' \in Seq(Bytes) /\ Len(unsent) \in Nat \ {0} /\ Len(unsent') = Len(unsent) - 1
      /\ Head(unsent) = unsent[1] /\ Head(unsent) \in Bytes
      /\ \A i \in 1 .. Len(unsent') : unsent'[i] = unsent[i + 1]
  BY <1>1 DEF RelayTyped
<1>5. /\ stream' \in Seq(Bytes) /\ Len(stream) \in Nat /\ Len(stream') = Len(stream) + 1
      /\ stream'[Len(stream) + 1] = Head(unsent)
      /\ \A i \in 1 .. Len(stream) : stream'[i] = stream[i]
  BY <1>1, <1>4 DEF RelayTyped
<1>6. RelayTyped' /\ Faithful'
  BY <1>1, <1>4, <1>5 DEF RelayTyped, Faithful
<1>7. Written \in 0 .. (Long - 1) /\ Written' = Written + 1
  BY <1>1, <1>2, <1>3, <1>4 DEF Written, Writing
<1>8. Writing' /\ Head(unsent) = Whole[Written + 1]
  <2>1. Len(unsent') <= Long /\ Head(unsent) = Whole[Written + 1]
    BY <1>1, <1>2, <1>4 DEF Writing
  <2>2. ASSUME NEW i \in 1 .. Len(unsent') PROVE unsent'[i] = Whole[Written + 1 + i]
    <3>1. i + 1 \in 1 .. Len(unsent) /\ Written + (i + 1) = Written + 1 + i
      BY <1>4, <1>7
    <3> QED
      BY <1>1, <1>4, <3>1 DEF Writing
  <2> QED
    BY <1>3, <1>7, <2>1, <2>2 DEF Writing
<1>9. Aligned'
  <2>1. Whole \in Seq(Bytes) /\ Len(Whole) = Long
    BY <1>1, FrameOf DEF RelayTyped
  <2>2. Runs(Append(stream, Whole[Written + 1]), Whole, Offset, Written + 1)
    BY <1>1, <1>2, <1>7, <2>1, RunsWritten DEF RelayTyped, InFrame, Aligned
  <2> QED
    BY <1>3, <1>7, <1>8, <2>2 DEF Aligned
<1>10. Conserved'
  <2>1. /\ Offset \in Nat /\ Len(unsent) \in Nat
        /\ Len(relayed) * Long \in Int /\ frames * Long \in Int
    BY <1>1, OffsetType
  <2> QED
    BY <1>1, <1>3, <1>4, <1>5, <2>1 DEF Conserved
<1>11. InFrame'
  BY <1>1, <1>3, <1>9 DEF InFrame
<1> QED
  BY <1>6, <1>8, <1>10, <1>11 DEF RelayInv

LEMMA CloseKeeps ==
  ASSUME RelayInv, Close
  PROVE  RelayInv'
<1>1. UNCHANGED <<packet, frames, unsent, stream, rpc, len, n, got, relayed>>
  BY DEF Close, writer, locals
<1>2. RelayTyped /\ Writing /\ Faithful /\ InFrame /\ Conserved
  BY DEF RelayInv, Ended, AtEnd, Close
<1>3. Whole' = Whole /\ Long' = Long /\ Size' = Size /\ Offset' = Offset /\ Written' = Written
  BY <1>1 DEF Whole, Long, Size, Offset, Written
<1>4. RelayTyped' /\ Writing' /\ Faithful'
  BY <1>1, <1>2, <1>3 DEF RelayTyped, Writing, Faithful
<1>5. InFrame' /\ Conserved'
  BY <1>1, <1>2, <1>3 DEF InFrame, Aligned, Conserved
<1> QED
  BY <1>4, <1>5 DEF RelayInv

(* One byte more of the length or of the body. *)
LEMMA ReadKeeps ==
  ASSUME RelayInv, ReadLengthByte \/ ReadBodyByte
  PROVE  RelayInv'
<1>1. /\ UNCHANGED <<packet, frames, unsent, closed, rpc, len, n, relayed>>
      /\ stream # <<>> /\ got' = Append(got, Head(stream)) /\ stream' = Tail(stream)
      /\ \/ rpc = "length" /\ Len(got) < 2
         \/ rpc = "body" /\ Len(got) < len
  BY DEF ReadLengthByte, ReadBodyByte, Read, writer, locals
<1>2. RelayTyped /\ Writing /\ Faithful /\ InFrame /\ Conserved
  BY <1>1 DEF RelayInv, Ended, AtEnd
<1>3. /\ Long \in Nat /\ Long >= 3 /\ Long = Size + 2 /\ Size \in Nat
      /\ Whole \in Seq(Bytes) /\ Len(Whole) = Long
  BY <1>2, FrameOf, LongType DEF RelayTyped
<1>4. /\ Whole' = Whole /\ Long' = Long /\ Size' = Size /\ Written' = Written
  BY <1>1 DEF Whole, Long, Size, Written
<1>5. /\ got' \in Seq(Bytes) /\ Len(got) \in Nat /\ Len(got') = Len(got) + 1
      /\ got'[Len(got) + 1] = Head(stream)
      /\ \A i \in 1 .. Len(got) : got'[i] = got[i]
      /\ stream' \in Seq(Bytes) /\ Len(stream) \in Nat /\ Len(stream') = Len(stream) - 1
  BY <1>1, <1>2 DEF RelayTyped
<1>6. Offset \in 0 .. (Long - 1) /\ Offset' = Offset + 1
  BY <1>1, <1>2, <1>3, <1>5 DEF Offset, InFrame
<1>7. Head(stream) = Whole[Offset + 1] /\ Runs(Tail(stream), Whole, Offset + 1, Written)
  BY <1>1, <1>2, <1>3, <1>6, RunsRead DEF RelayTyped, InFrame, Aligned
<1>8. RelayTyped' /\ Writing' /\ Faithful'
  BY <1>1, <1>2, <1>4, <1>5 DEF RelayTyped, Writing, Faithful
<1>9. Aligned'
  BY <1>1, <1>4, <1>6, <1>7 DEF Aligned
<1>10. Conserved'
  <2>1. Len(unsent) \in Nat /\ Len(relayed) * Long \in Int /\ frames * Long \in Int
    BY <1>2, OffsetType
  <2> QED
    BY <1>1, <1>2, <1>4, <1>5, <1>6, <2>1 DEF Conserved
<1>11. InFrame'
  <2>1. CASE rpc = "length"
    <3>1. Offset = Len(got)
      BY <2>1 DEF Offset
    <3>2. \A i \in 1 .. Len(got') : got'[i] = Whole[i]
      BY <1>2, <1>5, <1>7, <2>1, <3>1 DEF InFrame
    <3> QED
      BY <1>1, <1>2, <1>3, <1>4, <1>5, <1>6, <1>9, <2>1, <3>2 DEF InFrame
  <2>2. CASE rpc = "body"
    <3>1. Offset = 2 + Len(got)
      BY <2>2 DEF Offset
    <3>2. \A i \in 1 .. Len(got') : got'[i] = Whole[2 + i]
      <4>1. Head(stream) = Whole[2 + (Len(got) + 1)]
        BY <1>5, <1>7, <3>1
      <4>2. \A i \in 1 .. Len(got) : got[i] = Whole[2 + i]
        BY <1>2, <2>2 DEF InFrame
      <4>3. \A i \in 1 .. Len(got') : i \in 1 .. Len(got) \/ i = Len(got) + 1
        BY <1>5
      <4> QED
        BY <1>5, <4>1, <4>2, <4>3
    <3>3. Len(got') <= Size
      BY <1>1, <1>2, <1>3, <1>5, <2>2 DEF InFrame
    <3> QED
      BY <1>1, <1>2, <1>3, <1>4, <1>6, <1>9, <2>2, <3>2, <3>3 DEF InFrame
  <2> QED
    BY <1>1, <2>1, <2>2
<1> QED
  BY <1>8, <1>10, <1>11 DEF RelayInv

(* The whole length is the size of the file; at the end of the stream it   *)
(* is anything, and no packet follows.                                     *)
LEMMA HaveLengthKeeps ==
  ASSUME RelayInv, HaveLength
  PROVE  RelayInv'
<1> DEFINE lo == IF Len(got) > 0 THEN got[1] ELSE len % Radix
           hi == IF Len(got) > 1 THEN got[2] ELSE len \div Radix
           l  == ntohs(Word(lo, hi))
<1>1. /\ UNCHANGED <<packet, frames, unsent, stream, closed, relayed>>
      /\ rpc = "length" /\ (Len(got) = 2 \/ AtEnd)
      /\ len' = l /\ n' = l
      /\ rpc' = IF l = 0 THEN "exit" ELSE "body"
      /\ got' = <<>>
  BY DEF HaveLength, writer
<1>2. RelayTyped /\ Writing /\ Faithful /\ InFrame /\ Conserved
  BY <1>1 DEF RelayInv, Ended
<1>3. /\ Long \in Nat /\ Long >= 3 /\ Long = Size + 2 /\ Size \in Nat
      /\ Size \in Words \ {0} /\ Word(Whole[2], Whole[1]) = Size
      /\ Whole[1] \in Bytes /\ Whole[2] \in Bytes
  BY <1>2, FrameOf, LongType DEF RelayTyped
<1>4. Whole' = Whole /\ Long' = Long /\ Size' = Size /\ Written' = Written
  BY <1>1 DEF Whole, Long, Size, Written
<1>5. lo \in Bytes /\ hi \in Bytes
  <2>1. len % Radix \in Bytes /\ len \div Radix \in Bytes
    BY <1>2, WordDigits DEF RelayTyped
  <2> QED
    BY <1>2, <2>1 DEF RelayTyped
<1> HIDE DEF lo, hi
<1>6. l = Word(hi, lo) /\ l \in Words
  BY <1>5, LengthRead, WordOfDigits
<1> HIDE DEF l
<1>7. RelayTyped' /\ Writing' /\ Faithful'
  <2>1. got' \in Seq(Bytes)
    BY <1>1
  <2> QED
    BY <1>1, <1>2, <1>4, <1>6, <2>1 DEF RelayTyped, Writing, Faithful
<1>8. CASE Len(got) = 2
  <2>1. lo = Whole[1] /\ hi = Whole[2]
    BY <1>1, <1>2, <1>8 DEF InFrame, lo, hi
  <2>2. l = Size /\ rpc' = "body"
    BY <1>1, <1>3, <1>6, <2>1
  <2>3. Offset = 2 /\ Offset' = 2 /\ Len(got') = 0
    BY <1>1, <1>8, <2>2 DEF Offset
  <2>4. InFrame'
    BY <1>1, <1>2, <1>3, <1>4, <2>2, <2>3 DEF InFrame, Aligned
  <2>5. Conserved'
    BY <1>1, <1>2, <1>4, <2>3 DEF Conserved
  <2> QED
    BY <1>7, <2>4, <2>5 DEF RelayInv
<1>9. CASE AtEnd
  <2>1. Ended'
    BY <1>1, <1>9 DEF Ended, AtEnd
  <2>2. Len(relayed) <= frames
    BY <1>2, NotMoreThanFrames
  <2> QED
    BY <1>1, <1>7, <2>1, <2>2 DEF RelayInv
<1> QED
  BY <1>1, <1>8, <1>9

LEMMA HaveBodyKeeps ==
  ASSUME RelayInv, HaveBody
  PROVE  RelayInv'
<1>1. /\ UNCHANGED <<packet, frames, unsent, stream, closed, n, relayed>>
      /\ rpc = "body" /\ (Len(got) = len \/ AtEnd)
      /\ len' = len - Len(got)
      /\ rpc' = IF len' = 0 THEN "send" ELSE "body"
      /\ got' = IF len' = 0 THEN got ELSE <<>>
  BY DEF HaveBody, writer
<1>2. RelayTyped /\ Writing /\ Faithful
  BY DEF RelayInv
<1>3. Whole' = Whole /\ Long' = Long /\ Size' = Size /\ Written' = Written
  BY <1>1 DEF Whole, Long, Size, Written
<1>4. /\ Long \in Nat /\ Long = Size + 2 /\ Size \in Nat /\ len \in Nat
      /\ Radix * Radix \in Int /\ len < Radix * Radix
  BY <1>2, LongType, RelayAssumption DEF RelayTyped, Words
<1>5. CASE InFrame /\ Conserved
  <2>1. /\ len = Size /\ n = Size /\ Len(got) \in 0 .. Size
        /\ Offset = 2 + Len(got)
    BY <1>1, <1>2, <1>5 DEF InFrame, RelayTyped, Offset
  <2>2. len' \in Words /\ got' \in Seq(Bytes)
    BY <1>1, <1>2, <1>4, <2>1 DEF Words, RelayTyped
  <2>3. RelayTyped' /\ Writing' /\ Faithful'
    BY <1>1, <1>2, <1>3, <2>2 DEF RelayTyped, Writing, Faithful
  <2>4. CASE Len(got) = len
    <3>1. rpc' = "send" /\ got' = got
      BY <1>1, <1>4, <2>1, <2>4
    <3>2. Offset' = Offset /\ Offset = Long
      BY <1>3, <1>4, <2>1, <2>4, <3>1 DEF Offset
    <3>3. InFrame'
      BY <1>1, <1>3, <1>4, <1>5, <2>1, <2>4, <3>1, <3>2 DEF InFrame, Aligned
    <3>4. Conserved'
      BY <1>1, <1>3, <1>5, <3>2 DEF Conserved
    <3> QED
      BY <2>3, <3>3, <3>4 DEF RelayInv
  <2>5. CASE Len(got) # len
    <3>1. AtEnd /\ len' # 0 /\ rpc' = "body" /\ got' = <<>>
      BY <1>1, <1>4, <2>1, <2>5
    <3>2. Ended'
      BY <1>1, <3>1 DEF Ended, AtEnd
    <3>3. Len(relayed) <= frames
      BY <1>2, <1>5, NotMoreThanFrames
    <3> QED
      BY <1>1, <2>3, <3>2, <3>3 DEF RelayInv
  <2> QED
    BY <2>4, <2>5
<1>6. CASE Ended /\ Len(relayed) <= frames
  <2>1. len' = len /\ len # 0 /\ rpc' = "body" /\ got' = <<>> /\ got = <<>>
    BY <1>1, <1>4, <1>6 DEF Ended
  <2>2. Ended'
    BY <1>1, <1>6, <2>1 DEF Ended, AtEnd
  <2>3. RelayTyped' /\ Writing' /\ Faithful'
    BY <1>1, <1>2, <1>3, <2>1 DEF RelayTyped, Writing, Faithful
  <2> QED
    BY <1>1, <1>6, <2>2, <2>3 DEF RelayInv
<1> QED
  BY <1>5, <1>6 DEF RelayInv

(* What goes out is the file. *)
LEMMA SendToKeeps ==
  ASSUME RelayInv, SendTo
  PROVE  RelayInv'
<1>1. /\ UNCHANGED <<packet, frames, unsent, stream, closed, n>>
      /\ rpc = "send"
      /\ relayed' = Append(relayed, SubSeq(got, 1, n - 1))
      /\ len' \in {n - 1, Uint16(-1)}
      /\ rpc' = "length" /\ got' = <<>>
  BY DEF SendTo, writer
<1>2. RelayTyped /\ Writing /\ Faithful /\ InFrame /\ Conserved
  BY <1>1 DEF RelayInv, Ended
<1>3. /\ Long \in Nat /\ Long >= 3 /\ Long = Size + 2 /\ Size \in Nat \ {0} /\ Size = Len(packet) + 1
      /\ Size \in Words /\ packet \in Seq(Bytes) /\ Len(packet) \in Nat
      /\ Whole \in Seq(Bytes) /\ Len(Whole) = Long
      /\ \A i \in 1 .. Len(packet) : Whole[2 + i] = packet[i]
  BY <1>2, FrameOf, LongType DEF RelayTyped, Size
<1>4. Whole' = Whole /\ Long' = Long /\ Size' = Size /\ Written' = Written
  BY <1>1 DEF Whole, Long, Size, Written
<1>5. n = Size /\ Len(got) = Size /\ \A i \in 1 .. Size : got[i] = Whole[2 + i]
  BY <1>1, <1>2 DEF InFrame
<1>6. SubSeq(got, 1, n - 1) = packet
  <2> DEFINE out == SubSeq(got, 1, n - 1)
  <2>1. out \in Seq(Bytes) /\ Len(out) = Len(packet) /\ \A i \in 1 .. Len(packet) : out[i] = got[i]
    BY <1>2, <1>3, <1>5 DEF RelayTyped
  <2> HIDE DEF out
  <2>2. \A i \in 1 .. Len(packet) : out[i] = packet[i]
    BY <1>3, <1>5, <2>1
  <2>3. out = packet
    BY <1>3, <2>1, <2>2
  <2> QED
    BY <2>3 DEF out
<1>7. len' \in Words
  <2>1. Radix * Radix \in Nat /\ Radix * Radix > 0
    BY RelayAssumption
  <2>2. n - 1 \in Words
    BY <1>3, <1>5, <2>1 DEF Words
  <2>3. Uint16(-1) \in Words
    BY <2>1 DEF Uint16, Words
  <2> QED
    BY <1>1, <2>2, <2>3
<1>8. /\ relayed' \in Seq(Seq(Bytes)) /\ Len(relayed) \in Nat /\ Len(relayed') = Len(relayed) + 1
      /\ relayed'[Len(relayed) + 1] = packet
      /\ \A i \in 1 .. Len(relayed) : relayed'[i] = relayed[i]
  BY <1>1, <1>2, <1>3, <1>6 DEF RelayTyped
<1>9. Faithful'
  BY <1>1, <1>2, <1>8 DEF Faithful
<1>10. RelayTyped' /\ Writing'
  <2>1. got' \in Seq(Bytes)
    BY <1>1
  <2> QED
    BY <1>1, <1>2, <1>4, <1>7, <1>8, <2>1 DEF RelayTyped, Writing
<1>11. Offset = Long /\ Offset' = 0 /\ Len(got') = 0
  BY <1>1 DEF Offset
<1>12. Aligned'
  <2>1. Runs(stream, Whole, Len(Whole), Written)
    BY <1>2, <1>3, <1>11 DEF InFrame, Aligned
  <2>2. Runs(stream, Whole, 0, Written)
    BY <1>3, <2>1, RunsOn
  <2> QED
    BY <1>1, <1>4, <1>11, <2>2 DEF Aligned
<1>13. Conserved'
  <2>1. (Len(relayed) + 1) * Long = Len(relayed) * Long + Long
    BY <1>3, <1>8
  <2>2. /\ Len(stream) \in Nat /\ Len(unsent) \in Nat
        /\ Len(relayed) * Long \in Int /\ frames * Long \in Int
    BY <1>2, OffsetType
  <2> QED
    BY <1>1, <1>2, <1>3, <1>4, <1>8, <1>11, <2>1, <2>2 DEF Conserved
<1>14. InFrame'
  BY <1>1, <1>3, <1>4, <1>11, <1>12 DEF InFrame
<1> QED
  BY <1>9, <1>10, <1>13, <1>14 DEF RelayInv

-----------------------------------------------------------------------------

THEOREM RelayInvariance == RelaySpec => []RelayInv
<1>1. RelayInv /\ [RelayNext]_relayvars => RelayInv'
  <2> SUFFICES ASSUME RelayInv, [RelayNext]_relayvars
               PROVE  RelayInv'
    OBVIOUS
  <2>1. CASE RelayNext
    BY <2>1, SendPktKeeps, WriteByteKeeps, CloseKeeps, ReadKeeps, HaveLengthKeeps,
      HaveBodyKeeps, SendToKeeps DEF RelayNext, Main
  <2>2. CASE UNCHANGED relayvars
    <3>1. UNCHANGED <<packet, frames, unsent, stream, closed, rpc, len, n, got, relayed>>
      BY <2>2 DEF relayvars, writer, locals
    <3>2. Whole' = Whole /\ Long' = Long /\ Size' = Size /\ Written' = Written /\ Offset' = Offset
      BY <3>1 DEF Whole, Long, Size, Written, Offset
    <3> QED
      BY <3>1, <3>2 DEF RelayInv, RelayTyped, Writing, Faithful, InFrame, Aligned, Conserved, Ended, AtEnd
  <2> QED
    BY <2>1, <2>2
<1> QED
  BY <1>1, InitRelay, PTL DEF RelaySpec

(* What the relay sends out is the file, once per frame at most, and its   *)
(* reads stay in the buffer: for every file that fits, any bytes, and a    *)
(* stream that ends anywhere.                                              *)
THEOREM FramesRelayed == RelaySpec => []RelaysFrames
<1>1. RelayInv => RelaysFrames
  <2> SUFFICES ASSUME RelayInv PROVE RelaysFrames
    OBVIOUS
  <2>1. RelayTyped /\ Writing /\ Faithful
    BY DEF RelayInv
  <2>2. Len(relayed) <= frames
    BY <2>1, NotMoreThanFrames DEF RelayInv
  <2>3. Len(got) <= IF rpc = "length" THEN 2 ELSE MTU
    <3>1. Size \in Nat /\ Size <= MTU /\ MTU \in Nat
      BY <2>1, FrameOf, LongType DEF RelayTyped
    <3>2. CASE Ended
      BY <3>1, <3>2 DEF Ended
    <3>3. CASE InFrame
      <4>1. CASE rpc = "length"
        BY <3>3, <4>1 DEF InFrame
      <4>2. CASE rpc # "length"
        BY <2>1, <3>1, <3>3, <4>2 DEF InFrame, RelayTyped
      <4> QED
        BY <4>1, <4>2
    <3> QED
      BY <3>2, <3>3 DEF RelayInv
  <2> QED
    BY <2>1, <2>2, <2>3 DEF RelaysFrames, RelayTyped, Faithful
<1> QED
  BY <1>1, RelayInvariance, PTL

-----------------------------------------------------------------------------
(***************************************************************************)
(* Coverage: the module UML                                                *)
(***************************************************************************)

Text == Seq(Line \cup {Cut})

(* The types that TypeOK leaves out, what a thread that looks a file up    *)
(* has before it, and that a thread hears of nothing before it watches.    *)
Typed ==
  /\ TypeOK
  /\ lcov \in [exists : BOOLEAN, lines : Text]
  /\ pending \in [Conns -> Seq(Conns \cup {"lock"})]
  /\ text \in [Conns -> Text] /\ opened \in [Conns -> Text]
  /\ apart \subseteq Conns
  /\ \A c \in Conns :
       /\ pc[c] \in {"take", "make"} => text[c] # <<>> /\ Head(text[c]) \in [kind : {"SF"}, file : Files]
       /\ pc[c] \in {"none", "lock", "add_watch"} => pending[c] = <<>> /\ opened[c] = <<>>
       /\ pc[c] = "none" => kernel[c] = "off"

LEMMA WholeReport ==
  ASSUME NEW r \in Reports
  PROVE  /\ r \in Seq(Line) /\ r \in Text /\ r # <<>>
         /\ \A i \in 1 .. Len(r) :
              /\ r[i] \in Line /\ r[i] # Cut
              /\ i = 1 \/ r[i - 1].kind = "end_of_record" => r[i].kind = "SF"
<1>1. r \in Seq(Line)
  BY UMLAssumption
<1>2. \A i \in 1 .. Len(r) : r[i] \in Line /\ r[i] # Cut
  BY <1>1 DEF Line, Cut
<1> QED
  BY <1>1, <1>2, UMLAssumption DEF Text

LEMMA PartIsText ==
  ASSUME NEW r \in Reports, NEW ln \in DOMAIN r, NEW tail \in {<<>>, <<Cut>>}
  PROVE  SubSeq(r, 1, ln - 1) \o tail \in Text
<1>1. SubSeq(r, 1, ln - 1) \in Text
  BY WholeReport DEF Text
<1>2. tail \in Text
  <2>1. \A l \in Line \cup {Cut} : <<>> \in Text /\ Append(<<>>, l) \in Text /\ Append(<<>>, l) = <<l>>
    BY DEF Text
  <2> QED
    BY <2>1
<1> QED
  BY <1>1, <1>2 DEF Text

LEMMA TextLines ==
  ASSUME NEW t \in Text, t # <<>>
  PROVE  /\ Head(t) \in Line \cup {Cut} /\ Tail(t) \in Text
         /\ Head(t).kind = "SF" => Head(t) \in [kind : {"SF"}, file : Files]
         /\ Head(t).kind = "DA" => Head(t) \in [kind : {"DA"}, line : Lines, count : Nat]
BY DEF Text, Line, Cut

LEMMA FilledType ==
  ASSUME NEW e \in Entry, NEW ln \in Lines, NEW k \in Nat
  PROVE  Filled(e, ln, k) \in Entry
<1>1. PICK a \in SUBSET Lines, b \in [Lines -> Nat], c \in Nat, d \in Nat :
        e = [lines |-> a, count |-> b, total |-> c, executed |-> d]
  BY DEF Entry
<1>2. e.lines = a /\ e.count = b /\ e.total = c /\ e.executed = d
  BY <1>1
<1>3. /\ a \cup {ln} \in SUBSET Lines
      /\ [b EXCEPT ![ln] = IF ln \notin a THEN k ELSE @ + k] \in [Lines -> Nat]
      /\ c + (IF ln \notin a THEN 1 ELSE 0) \in Nat
      /\ d + (IF k > 0 /\ (ln \notin a \/ b[ln] = 0) THEN 1 ELSE 0) \in Nat
  OBVIOUS
<1> QED
  BY <1>2, <1>3 DEF Filled, Entry

LEMMA FreshType == Fresh \in Entry
BY DEF Fresh, Entry

Fills == {NoFile, Detached} \cup {Filling(f) : f \in Files}

LEMMA FillsAre ==
  /\ NoFile.is = "none" /\ Detached.is = "detached"
  /\ \A f \in Files : Filling(f).is = "entry" /\ Filling(f).file = f
BY DEF NoFile, Detached, Filling

LEMMA InitTyped == Init => Typed
<1> SUFFICES ASSUME Init PROVE Typed
  OBVIOUS
<1>1. Fresh \in Entry /\ MaxReports \in Nat /\ <<>> \in Text
  BY FreshType, UMLAssumption DEF Text
<1> QED
  BY <1>1, FillsAre DEF Init, Typed, TypeOK

LEMMA KernelTyped ==
  ASSUME Typed, NEW c \in Conns, Kernel(c)
  PROVE  Typed'
<1> USE DEF Typed, TypeOK, files, threads
<1>1. CASE Begin(c)
  <2>1. written' \in 0 .. MaxReports /\ <<>> \in Text
    BY <1>1, UMLAssumption DEF Begin, Text
  <2> QED
    BY <1>1, <2>1 DEF Begin
<1>2. CASE WritePart(c)
  <2>1. lcov' \in [exists : BOOLEAN, lines : Text]
    <3>1. PICK r \in Reports : \E ln \in DOMAIN r : \E tail \in {<<>>, <<Cut>>} :
            lcov' = [exists |-> TRUE, lines |-> SubSeq(r, 1, ln - 1) \o tail]
      BY <1>2 DEF WritePart
    <3>2. PICK ln \in DOMAIN r : \E tail \in {<<>>, <<Cut>>} :
            lcov' = [exists |-> TRUE, lines |-> SubSeq(r, 1, ln - 1) \o tail]
      BY <3>1
    <3>3. PICK tail \in {<<>>, <<Cut>>} : lcov' = [exists |-> TRUE, lines |-> SubSeq(r, 1, ln - 1) \o tail]
      BY <3>2
    <3>4. SubSeq(r, 1, ln - 1) \o tail \in Text
      BY PartIsText
    <3> QED
      BY <3>3, <3>4
  <2> QED
    BY <1>2, <2>1 DEF WritePart
<1>3. CASE Finish(c)
  <2>1. lcov' \in [exists : BOOLEAN, lines : Text]
    BY <1>3, WholeReport DEF Finish
  <2> QED
    BY <1>3, <2>1 DEF Finish
<1>4. CASE Touch(c)
  BY <1>4 DEF Touch, Closed, Watchers
<1> QED
  BY <1>1, <1>2, <1>3, <1>4 DEF Kernel

LEMMA ThreadTyped ==
  ASSUME Typed, NEW c \in Conns, Spawn(c) \/ Thread(c)
  PROVE  Typed'
<1> USE DEF Typed, TypeOK, Goto
<1>1. CASE Spawn(c)
  BY <1>1 DEF Spawn, files
<1>2. CASE CreateLock(c)
  BY <1>2 DEF CreateLock, Closed, Watchers, files
<1>3. CASE AddWatch(c)
  BY <1>3 DEF AddWatch, files
<1>4. CASE Event(c)
  BY <1>4 DEF Event, files
<1>5. CASE Reset(c)
  BY <1>5, FreshType, FillsAre DEF Reset, Begins
<1>6. CASE Open(c)
  BY <1>6 DEF Open, files
<1>7. CASE Data(c)
  <2>1. Head(text[c]) \in [kind : {"DA"}, line : Lines, count : Nat] /\ Tail(text[c]) \in Text /\ pc[c] = "parse"
    BY <1>7, TextLines DEF Data, NextLine
  <2>2. coverage' \in [Files -> Entry]
    <3>1. CASE curfile[c].is = "entry"
      <4>1. curfile[c].file \in Files
        BY <3>1
      <4> QED
        BY <1>7, <2>1, <3>1, <4>1, FilledType DEF Data
    <3> QED
      BY <1>7, <3>1 DEF Data
  <2> QED
    BY <1>7, <2>1, <2>2 DEF Data, Consume
<1>8. CASE EndOfRecord(c)
  BY <1>8, TextLines, FillsAre DEF EndOfRecord, NextLine, Consume, files
<1>9. CASE SourceTest(c)
  <2>1. /\ pc[c] = "parse" /\ text[c] # <<>> /\ Head(text[c]) \in [kind : {"SF"}, file : Files]
        /\ UNCHANGED <<coverage, known, lcov, kernel, written, pending, cause, text, opened, apart>>
        /\ curfile' = [curfile EXCEPT ![c] = NoFile]
    BY <1>9, TextLines DEF SourceTest, NextLine, files
  <2>2. \E to \in {"take", "make"} : pc' = [pc EXCEPT ![c] = to]
    BY <1>9 DEF SourceTest
  <2> QED
    BY <2>1, <2>2, FillsAre
<1>10. CASE SourceTake(c)
  BY <1>10, TextLines, FillsAre DEF SourceTake, Consume, files
<1>11. CASE SourceMake(c)
  BY <1>11, TextLines, FillsAre, FreshType DEF SourceMake, Consume
<1>12. CASE Malformed(c)
  BY <1>12 DEF Malformed, NextLine, files
<1>13. CASE EndOfFile(c) \/ Notify(c)
  <2>1. /\ UNCHANGED <<coverage, known, lcov, kernel, written, pending, cause, text, curfile, opened, apart>>
        /\ \E to \in {"notify", "watch"} : pc' = [pc EXCEPT ![c] = to]
    BY <1>13 DEF EndOfFile, Notify, files
  <2>2. pc[c] \in {"parse", "notify"}
    BY <1>13 DEF EndOfFile, Notify
  <2> QED
    BY <2>1, <2>2
<1> QED
  BY <1>1, <1>2, <1>3, <1>4, <1>5, <1>6, <1>7, <1>8, <1>9, <1>10, <1>11, <1>12, <1>13
  DEF Thread, Update

LEMMA NextTyped ==
  ASSUME Typed, [Next]_vars
  PROVE  Typed'
<1>1. CASE UNCHANGED vars
  BY <1>1 DEF Typed, TypeOK, vars, files, threads
<1> QED
  BY <1>1, KernelTyped, ThreadTyped DEF Next

(* The coverage, the threads and the kernels keep their types, and a       *)
(* thread fills only an entry that is in the coverage.                     *)
THEOREM TypeCorrect == Spec => []TypeOK
<1>1. Typed /\ [Next]_vars => Typed'
  BY NextTyped
<1>2. Typed => TypeOK
  BY DEF Typed
<1> QED
  BY <1>1, <1>2, InitTyped, PTL DEF Spec

-----------------------------------------------------------------------------
(* What a thread has read *)

Reads(c)    == pc[c] \in {"parse", "take", "make", "notify"}
Position(c) == Len(opened[c]) - Len(text[c])

(* What a thread has still to parse is the end of what it opened. *)
Rest(c) ==
  /\ Len(text[c]) <= Len(opened[c])
  /\ \A i \in 1 .. Len(text[c]) : text[c][i] = opened[c][Position(c) + i]

RestInv == \A c \in Conns : Reads(c) => Rest(c)

LEMMA TailRest ==
  ASSUME NEW t \in Text, NEW o \in Text, t # <<>>, Len(t) <= Len(o),
         \A i \in 1 .. Len(t) : t[i] = o[Len(o) - Len(t) + i]
  PROVE  /\ Tail(t) \in Text /\ Len(Tail(t)) = Len(t) - 1
         /\ Len(o) - Len(t) + 1 \in 1 .. Len(o) /\ Head(t) = o[Len(o) - Len(t) + 1]
         /\ \A i \in 1 .. Len(Tail(t)) : Tail(t)[i] = o[Len(o) - Len(Tail(t)) + i]
<1>1. Tail(t) \in Text /\ Len(Tail(t)) = Len(t) - 1 /\ Len(t) \in Nat /\ Len(t) > 0 /\ Len(o) \in Nat
  BY DEF Text
<1>2. Head(t) = t[1] /\ \A i \in 1 .. Len(t) - 1 : Tail(t)[i] = t[i + 1]
  BY DEF Text
<1> QED
  BY <1>1, <1>2

LEMMA NextRest ==
  ASSUME Typed, RestInv, [Next]_vars
  PROVE  RestInv'
<1> USE DEF Typed, TypeOK
<1>1. ASSUME NEW t \in Conns, UNCHANGED <<text, opened>>, Reads(t)' => Reads(t)
      PROVE  Reads(t)' => Rest(t)'
  BY <1>1 DEF RestInv, Rest, Position
<1>2. ASSUME NEW c \in Conns, text' = [text EXCEPT ![c] = Tail(@)], opened' = opened,
             text[c] # <<>>, Reads(c), NEW t \in Conns, Reads(t)' => Reads(t)
      PROVE  Reads(t)' => Rest(t)'
  <2>1. CASE t = c
    <3>1. Rest(c) /\ text'[c] = Tail(text[c]) /\ opened'[c] = opened[c]
      BY <1>2 DEF RestInv
    <3> QED
      BY <1>2, <2>1, <3>1, TailRest DEF Rest, Position
  <2>2. CASE t # c
    BY <1>2, <2>2 DEF RestInv, Rest, Position
  <2> QED
    BY <2>1, <2>2
<1>3. SUFFICES ASSUME NEW t \in Conns PROVE Reads(t)' => Rest(t)'
  BY DEF RestInv
<1>4. ASSUME NEW c \in Conns, Kernel(c)
      PROVE  UNCHANGED <<pc, text, opened>>
  BY <1>4 DEF Kernel, Begin, WritePart, Finish, Touch, threads
<1>5. ASSUME NEW c \in Conns, Spawn(c) \/ CreateLock(c) \/ AddWatch(c) \/ Event(c) \/ Reset(c)
      PROVE  UNCHANGED <<text, opened>> /\ (Reads(t)' => Reads(t))
  BY <1>5 DEF Spawn, CreateLock, AddWatch, Event, Reset, Goto, Reads
<1>6. ASSUME NEW c \in Conns, SourceTest(c) \/ Malformed(c) \/ EndOfFile(c) \/ Notify(c)
      PROVE  UNCHANGED <<text, opened>> /\ (Reads(t)' => Reads(t))
  BY <1>6 DEF SourceTest, Malformed, EndOfFile, Notify, Goto, NextLine, Reads
<1>7. ASSUME NEW c \in Conns, Open(c)
      PROVE  Reads(t)' => Rest(t)'
  <2>1. CASE t = c
    <3>1. text'[c] = opened'[c] /\ Len(text'[c]) \in Nat
      BY <1>7 DEF Open, Text
    <3> QED
      BY <2>1, <3>1 DEF Rest, Position
  <2>2. CASE t # c
    BY <1>7, <2>2 DEF Open, Goto, RestInv, Rest, Position, Reads
  <2> QED
    BY <2>1, <2>2
<1>8. ASSUME NEW c \in Conns, Data(c) \/ EndOfRecord(c) \/ SourceTake(c) \/ SourceMake(c)
      PROVE  /\ text' = [text EXCEPT ![c] = Tail(@)] /\ opened' = opened
             /\ text[c] # <<>> /\ Reads(c) /\ (Reads(t)' => Reads(t))
  BY <1>8 DEF Data, EndOfRecord, SourceTake, SourceMake, Consume, Goto, NextLine, Reads
<1>9. CASE UNCHANGED vars
  BY <1>1, <1>9 DEF vars, threads, Reads
<1> QED
  BY <1>1, <1>2, <1>4, <1>5, <1>6, <1>7, <1>8, <1>9 DEF Next, Thread, Update, Reads

-----------------------------------------------------------------------------
(* Someone watches *)

(* As long as there is no report, the thread that made the lock file last  *)
(* has heard of nothing; afterwards any thread goes on that does not wait  *)
(* to take a file that is in the coverage no more.                         *)
Safe(c) ==
  IF lcov.exists
  THEN pc[c] \notin {"none", "dead"} /\ (pc[c] = "take" => Head(text[c]).file \in known)
  ELSE pc[c] \in {"lock", "add_watch", "watch"} /\ pending[c] = <<>>

Unfinished == \E c \in Conns : opened[c] \notin Reports \cup {<<>>}

NoReport ==
  ~lcov.exists =>
    /\ lcov.lines = <<>>
    /\ \A c \in Conns : opened[c] = <<>> /\ kernel[c] \in {"off", "sleep"}

WatchInv ==
  /\ Typed /\ RestInv /\ NoReport
  /\ (\E c \in Conns : pc[c] # "none") => Unfinished \/ \E c \in Conns : Safe(c)

LEMMA NextNoReport ==
  ASSUME Typed, NoReport, [Next]_vars
  PROVE  NoReport'
<1> USE DEF Typed, TypeOK, NoReport
<1>1. ASSUME NEW c \in Conns, Kernel(c)
      PROVE  NoReport'
  BY <1>1 DEF Kernel, Begin, WritePart, Finish, Touch, threads
<1>2. ASSUME NEW c \in Conns, Spawn(c)
      PROVE  NoReport'
  BY <1>2 DEF Spawn
<1>3. ASSUME NEW c \in Conns, Open(c)
      PROVE  NoReport'
  BY <1>3 DEF Open
<1>4. ASSUME NEW c \in Conns, Thread(c), ~Open(c)
      PROVE  UNCHANGED <<lcov, kernel, opened>>
  BY <1>4 DEF Thread, Update, CreateLock, AddWatch, Event, Reset, Data, EndOfRecord,
    SourceTest, SourceTake, SourceMake, Malformed, EndOfFile, Notify
<1>5. CASE UNCHANGED vars
  BY <1>5 DEF vars, threads
<1> QED
  BY <1>1, <1>2, <1>3, <1>4, <1>5 DEF Next

(* A thread that is safe stays so, or another one becomes safe. *)
LEMMA NextWatch ==
  ASSUME WatchInv, [Next]_vars
  PROVE  (\E c \in Conns : pc'[c] # "none") => Unfinished' \/ (\E c \in Conns : Safe(c))'
<1> USE DEF WatchInv, Typed, TypeOK
<1>1. ASSUME NEW c \in Conns, Kernel(c), NEW s \in Conns, Safe(s)
      PROVE  Safe(s)'
  BY <1>1 DEF Kernel, Begin, WritePart, Finish, Touch, Closed, threads, files, Safe, NoReport
<1>2. ASSUME NEW c \in Conns, Spawn(c) \/ CreateLock(c) \/ AddWatch(c)
      PROVE  Safe(c)'
  BY <1>2 DEF Spawn, CreateLock, AddWatch, Goto, Closed, Watchers, Safe
<1>3. ASSUME NEW c \in Conns, Event(c), NEW s \in Conns, Safe(s)
      PROVE  Safe(s)'
  BY <1>3 DEF Event, Goto, files, Safe
<1>4. ASSUME NEW c \in Conns, Reset(c), NEW s \in Conns, Safe(s)
      PROVE  IF lcov.exists THEN Safe(c)' ELSE Safe(s)'
  BY <1>4 DEF Reset, Goto, Safe
<1>5. ASSUME NEW c \in Conns, Open(c), ~Unfinished
      PROVE  \A s \in Conns : Safe(s) => Safe(s)'
  BY <1>5 DEF Open, Goto, files, Safe
<1>6. ASSUME NEW c \in Conns, Open(c), Unfinished
      PROVE  Safe(c)'
  <2>1. lcov.exists
    BY <1>6 DEF Unfinished, NoReport
  <2> QED
    BY <1>6, <2>1 DEF Open, Goto, Safe
<1>7. ASSUME NEW c \in Conns, Data(c) \/ EndOfRecord(c) \/ SourceTest(c) \/ EndOfFile(c) \/ Notify(c)
      PROVE  \A s \in Conns : Safe(s) => Safe(s)'
  BY <1>7 DEF Data, EndOfRecord, SourceTest, EndOfFile, Notify, Consume, NextLine, Goto, files, Safe
<1>8. ASSUME NEW c \in Conns, SourceTake(c) \/ SourceMake(c)
      PROVE  \A s \in Conns : Safe(s) => Safe(s)'
  <2>1. CASE SourceTake(c)
    BY <2>1 DEF SourceTake, Consume, Goto, files, Safe
  <2>2. CASE SourceMake(c)
    <3>1. /\ UNCHANGED <<lcov, pending>> /\ known \subseteq known'
          /\ text' = [text EXCEPT ![c] = Tail(@)]
          /\ pc[c] = "make" /\ pc' = [pc EXCEPT ![c] = "parse"]
      BY <2>2 DEF SourceMake, Consume, Goto
    <3> QED
      BY <3>1 DEF Safe
  <2> QED
    BY <1>8, <2>1, <2>2
<1>9. ASSUME NEW c \in Conns, Malformed(c)
      PROVE  Unfinished'
  <2>1. Reads(c) /\ text[c] # <<>> /\ Head(text[c]).kind = "cut" /\ opened' = opened
    BY <1>9 DEF Malformed, NextLine, Reads
  <2>2. PICK i \in 1 .. Len(opened[c]) : opened[c][i].kind = "cut"
    <3>1. Rest(c) /\ text[c] \in Text /\ opened[c] \in Text
      BY <2>1 DEF RestInv
    <3>2. /\ Position(c) + 1 \in 1 .. Len(opened[c])
          /\ opened[c][Position(c) + 1] = Head(text[c])
      BY <2>1, <3>1, TailRest DEF Rest, Position
    <3> QED
      BY <2>1, <3>2
  <2>3. opened[c] \notin Reports
    BY <2>2, WholeReport DEF Line
  <2>4. opened[c] # <<>>
    BY <2>2
  <2> QED
    BY <2>1, <2>3, <2>4 DEF Unfinished
<1>10. ASSUME UNCHANGED opened
       PROVE  Unfinished' = Unfinished
  BY <1>10 DEF Unfinished
<1>11. ASSUME NEW c \in Conns, Thread(c), ~Open(c)
       PROVE  UNCHANGED opened
  BY <1>11 DEF Thread, Update, CreateLock, AddWatch, Event, Reset, Data, EndOfRecord,
    SourceTest, SourceTake, SourceMake, Malformed, EndOfFile, Notify
<1>12. CASE UNCHANGED vars
  BY <1>10, <1>12 DEF vars, threads, files, Safe
<1>13. ASSUME NEW c \in Conns, Kernel(c)
       PROVE  UNCHANGED <<pc, opened>>
  BY <1>13 DEF Kernel, Begin, WritePart, Finish, Touch, threads
<1>14. ASSUME NEW c \in Conns, Spawn(c)
       PROVE  UNCHANGED opened
  BY <1>14 DEF Spawn
<1>15. ASSUME NEW c \in Conns, Thread(c)
       PROVE  pc[c] # "none"
  BY <1>15 DEF Thread, Update, CreateLock, AddWatch, Event, Reset, Open, Data, EndOfRecord,
    SourceTest, SourceTake, SourceMake, Malformed, EndOfFile, Notify, Goto, NextLine
<1>16. ASSUME NEW c \in Conns, Kernel(c)
       PROVE  (\E s \in Conns : pc'[s] # "none") => Unfinished' \/ (\E s \in Conns : Safe(s)')
  BY <1>1, <1>10, <1>13, <1>16
<1>17. ASSUME NEW c \in Conns, Spawn(c)
       PROVE  \E s \in Conns : Safe(s)'
  BY <1>2, <1>17
<1>18. ASSUME NEW c \in Conns, Thread(c)
       PROVE  Unfinished' \/ (\E s \in Conns : Safe(s)')
  <2>1. Unfinished \/ \E s \in Conns : Safe(s)
    BY <1>15, <1>18
  <2>2. CASE Open(c)
    BY <1>5, <1>6, <2>1, <2>2
  <2>3. CASE CreateLock(c) \/ AddWatch(c)
    BY <1>2, <2>3
  <2>4. CASE Event(c)
    BY <1>3, <1>10, <1>11, <1>18, <2>1, <2>2, <2>4
  <2>5. CASE Reset(c)
    BY <1>4, <1>10, <1>11, <1>18, <2>1, <2>2, <2>5
  <2>6. CASE Malformed(c)
    BY <1>9, <2>6
  <2>7. CASE Data(c) \/ EndOfRecord(c) \/ SourceTest(c) \/ EndOfFile(c) \/ Notify(c)
    BY <1>7, <1>10, <1>11, <1>18, <2>1, <2>2, <2>7
  <2>8. CASE SourceTake(c) \/ SourceMake(c)
    BY <1>8, <1>10, <1>11, <1>18, <2>1, <2>2, <2>8
  <2> QED
    BY <1>18, <2>2, <2>3, <2>4, <2>5, <2>6, <2>7, <2>8 DEF Thread, Update
<1>19. CASE \E c \in Conns : Kernel(c) \/ Spawn(c) \/ Thread(c)
  BY <1>16, <1>17, <1>18, <1>19
<1>20. CASE UNCHANGED vars
  BY <1>12, <1>10, <1>20 DEF vars, threads
<1> QED
  BY <1>19, <1>20 DEF Next

(* However many clients there are and whenever each of them ends another   *)
(* one's thread, one is left to watch while every report that was read was *)
(* done.                                                                   *)
THEOREM OneWatches == Spec => []SomeoneWatches
<1>1. Init => WatchInv
  BY InitTyped DEF Init, WatchInv, RestInv, Reads, NoReport
<1>2. WatchInv /\ [Next]_vars => WatchInv'
  <2>1. Typed /\ [Next]_vars => Typed'
    BY NextTyped
  <2> QED
    BY <2>1, NextRest, NextNoReport, NextWatch DEF WatchInv
<1>3. WatchInv => SomeoneWatches
  BY DEF WatchInv, SomeoneWatches, Safe, Unfinished
<1> QED
  BY <1>1, <1>2, <1>3, PTL DEF Spec

-----------------------------------------------------------------------------
(* What the first k lines of a report say, and how the next one adds to it *)

Upto(r, k, f)        == {i \in About(r, f) : i <= k}
CountOf(r, f)        == [i \in About(r, f) |-> r[i].count]
On(r, k, f, ln)       == {i \in Upto(r, k, f) : r[i].line = ln}
HitsUpto(r, k, f, ln) == SumOf(CountOf(r, f), On(r, k, f, ln))
ListedUpto(r, k, f)  == {r[i].line : i \in Upto(r, k, f)}
NamedUpto(r, k)      == {r[i].file : i \in {j \in 1 .. k : r[j].kind = "SF"}}

ExpectedUpto(r, k, f) ==
  [lines    |-> ListedUpto(r, k, f),
   count    |-> [ln \in Lines |-> HitsUpto(r, k, f, ln)],
   total    |-> Cardinality(ListedUpto(r, k, f)),
   executed |-> Cardinality({ln \in ListedUpto(r, k, f) : HitsUpto(r, k, f, ln) > 0})]

LEMMA MaxExists ==
  ASSUME NEW ln \in Nat, NEW S \in SUBSET (1 .. ln), S # {}
  PROVE  Max(S) \in S /\ \A y \in S : Max(S) >= y
<1> DEFINE G == {T \in SUBSET S : T # {} => \E m \in T : \A y \in T : m >= y}
<1>1. IsFiniteSet(S)
  <2>1. PICK one \in Int : one = 1
    OBVIOUS
  <2>2. IsFiniteSet(one .. ln)
    BY FS_Interval
  <2> QED
    BY <2>1, <2>2, FS_Subset
<1>2. {} \in G
  OBVIOUS
<1>3. ASSUME NEW T \in SUBSET S, NEW x \in S \ T, T \in G
      PROVE  T \cup {x} \in G
  <2>1. CASE T = {}
    BY <2>1
  <2>2. CASE T # {}
    <3>1. PICK m \in T : \A y \in T : m >= y
      BY <1>3, <2>2
    <3>2. m \in Int /\ x \in Int /\ \A y \in T : y \in Int
      OBVIOUS
    <3>3. CASE m >= x
      BY <3>1, <3>3
    <3>4. CASE ~(m >= x)
      BY <3>1, <3>2, <3>4
    <3> QED
      BY <3>3, <3>4
  <2> QED
    BY <2>1, <2>2
<1> HIDE DEF G
<1>4. S \in G
  BY <1>1, <1>2, <1>3, SubsetInduction
<1>5. \E m \in S : \A y \in S : m >= y
  BY <1>4 DEF G
<1> QED
  BY <1>5 DEF Max

LEMMA FileAtIs ==
  ASSUME NEW r \in Reports, NEW i \in 1 .. Len(r)
  PROVE  \E j \in 1 .. i : /\ r[j].kind = "SF" /\ FileAt(r, i) = r[j].file
                          /\ \A m \in 1 .. i : r[m].kind = "SF" => m <= j
<1> DEFINE S == {j \in 1 .. i : r[j].kind = "SF"}
<1>1. i \in Nat /\ S \in SUBSET (1 .. i) /\ 1 \in S
  BY WholeReport
<1>2. Max(S) \in S /\ \A y \in S : Max(S) >= y
  BY <1>1, MaxExists
<1> QED
  BY <1>2 DEF FileAt

LEMMA FileAtName ==
  ASSUME NEW r \in Reports, NEW i \in 1 .. Len(r), r[i].kind = "SF"
  PROVE  FileAt(r, i) = r[i].file
<1>1. PICK j \in 1 .. i : /\ r[j].kind = "SF" /\ FileAt(r, i) = r[j].file
                          /\ \A m \in 1 .. i : r[m].kind = "SF" => m <= j
  BY FileAtIs
<1>2. i \in 1 .. i
  OBVIOUS
<1>3. i <= j
  BY <1>1, <1>2
<1>4. i = j
  BY <1>3
<1> QED
  BY <1>1, <1>4

LEMMA FileAtGoesOn ==
  ASSUME NEW r \in Reports, NEW i \in 1 .. Len(r), i + 1 \in 1 .. Len(r), r[i + 1].kind # "SF"
  PROVE  FileAt(r, i + 1) = FileAt(r, i)
<1>1. {j \in 1 .. i + 1 : r[j].kind = "SF"} = {j \in 1 .. i : r[j].kind = "SF"}
  OBVIOUS
<1> QED
  BY <1>1 DEF FileAt

LEMMA FileAtNamed ==
  ASSUME NEW r \in Reports, NEW i \in 1 .. Len(r)
  PROVE  FileAt(r, i) \in NamedUpto(r, i) /\ FileAt(r, i) \in Files
<1>1. PICK j \in 1 .. i : r[j].kind = "SF" /\ FileAt(r, i) = r[j].file
  BY FileAtIs
<1>2. j \in 1 .. Len(r) /\ r[j] \in Line
  BY WholeReport
<1> QED
  BY <1>1, <1>2 DEF NamedUpto, Line

LEMMA NamedSteps ==
  ASSUME NEW r \in Reports, NEW k \in Nat, k + 1 \in 1 .. Len(r)
  PROVE  NamedUpto(r, k + 1) = IF r[k + 1].kind = "SF" THEN NamedUpto(r, k) \cup {r[k + 1].file}
                               ELSE NamedUpto(r, k)
<1>1. 1 .. k + 1 = (1 .. k) \cup {k + 1}
  OBVIOUS
<1> QED
  BY <1>1 DEF NamedUpto

LEMMA UptoSteps ==
  ASSUME NEW r \in Reports, NEW k \in Nat, k + 1 \in 1 .. Len(r), NEW f
  PROVE  Upto(r, k + 1, f) = IF r[k + 1].kind = "DA" /\ FileAt(r, k + 1) = f
                             THEN Upto(r, k, f) \cup {k + 1} ELSE Upto(r, k, f)
<1>1. DOMAIN r = 1 .. Len(r)
  BY WholeReport
<1>2. \A i \in DOMAIN r : i <= k + 1 <=> i <= k \/ i = k + 1
  BY <1>1, WholeReport
<1> QED
  BY <1>1, <1>2 DEF Upto, About

LEMMA UptoIs ==
  ASSUME NEW r \in Reports, NEW k \in Nat, NEW f
  PROVE  /\ IsFiniteSet(Upto(r, k, f))
         /\ \A i \in Upto(r, k, f) : /\ i \in About(r, f) /\ i \in 1 .. k /\ i \in 1 .. Len(r)
                                     /\ r[i].line \in Lines /\ CountOf(r, f)[i] = r[i].count /\ r[i].count \in Nat
<1>1. DOMAIN r = 1 .. Len(r) /\ Len(r) \in Nat
  BY WholeReport
<1>2. IsFiniteSet(1 .. Len(r)) /\ Upto(r, k, f) \subseteq 1 .. Len(r)
  BY <1>1, FS_Interval DEF Upto, About
<1>3. IsFiniteSet(Upto(r, k, f))
  BY <1>2, FS_Subset
<1>4. ASSUME NEW i \in Upto(r, k, f)
      PROVE  /\ i \in About(r, f) /\ i \in 1 .. k /\ i \in 1 .. Len(r)
             /\ r[i].line \in Lines /\ CountOf(r, f)[i] = r[i].count /\ r[i].count \in Nat
  <2>1. i \in About(r, f) /\ i <= k /\ i \in 1 .. Len(r) /\ r[i].kind = "DA"
    BY <1>1 DEF Upto, About
  <2>2. r[i] \in Line
    BY <2>1, WholeReport
  <2> QED
    BY <2>1, <2>2 DEF CountOf, Line
<1> QED
  BY <1>3, <1>4

LEMMA HitsAre ==
  ASSUME NEW r \in Reports, NEW k \in Nat, NEW f, NEW ln
  PROVE  /\ IsFiniteSet(On(r, k, f, ln))
         /\ HitsUpto(r, k, f, ln) \in Nat
         /\ ln \notin ListedUpto(r, k, f) => HitsUpto(r, k, f, ln) = 0
<1>1. IsFiniteSet(On(r, k, f, ln))
  BY UptoIs, FS_Subset DEF On
<1>2. \A i \in On(r, k, f, ln) : CountOf(r, f)[i] \in Nat
  BY UptoIs DEF On
<1>3. ln \notin ListedUpto(r, k, f) => On(r, k, f, ln) = {}
  BY DEF On, ListedUpto
<1>4. HitsUpto(r, k, f, ln) \in Nat
  BY <1>1, <1>2, SumNat DEF HitsUpto
<1>5. On(r, k, f, ln) = {} => HitsUpto(r, k, f, ln) = 0
  BY SumEmpty DEF HitsUpto
<1> QED
  BY <1>1, <1>3, <1>4, <1>5

LEMMA ListedAre ==
  ASSUME NEW r \in Reports, NEW k \in Nat, NEW f
  PROVE  ListedUpto(r, k, f) \subseteq Lines /\ IsFiniteSet(ListedUpto(r, k, f))
<1>1. ListedUpto(r, k, f) \subseteq Lines
  BY UptoIs DEF ListedUpto
<1>2. IsFiniteSet(ListedUpto(r, k, f))
  <2> DEFINE line == [i \in Upto(r, k, f) |-> r[i].line]
  <2>1. line \in Surjection(Upto(r, k, f), ListedUpto(r, k, f))
    BY DEF Surjection, ListedUpto
  <2> QED
    BY <2>1, UptoIs, FS_Surjection
<1> QED
  BY <1>1, <1>2

LEMMA ExpectedType ==
  ASSUME NEW r \in Reports, NEW k \in Nat, NEW f
  PROVE  ExpectedUpto(r, k, f) \in Entry
<1>1. \A ln \in Lines : HitsUpto(r, k, f, ln) \in Nat
  BY HitsAre
<1>2. Cardinality(ListedUpto(r, k, f)) \in Nat
  BY ListedAre, FS_CardinalityType
<1>3. Cardinality({ln \in ListedUpto(r, k, f) : HitsUpto(r, k, f, ln) > 0}) \in Nat
  BY ListedAre, FS_Subset, FS_CardinalityType
<1> QED
  BY <1>1, <1>2, <1>3, ListedAre DEF ExpectedUpto, Entry

(* A line that is no count of the file changes nothing of it. *)
LEMMA ExpectedKept ==
  ASSUME NEW r \in Reports, NEW k \in Nat, k + 1 \in 1 .. Len(r), NEW f,
         r[k + 1].kind # "DA" \/ FileAt(r, k + 1) # f
  PROVE  ExpectedUpto(r, k + 1, f) = ExpectedUpto(r, k, f)
<1>1. Upto(r, k + 1, f) = Upto(r, k, f)
  BY UptoSteps
<1> QED
  BY <1>1 DEF ExpectedUpto, ListedUpto, HitsUpto, On

(* Before a file is named nothing is said of it. *)
LEMMA ExpectedFresh ==
  ASSUME NEW r \in Reports, NEW k \in Nat, NEW f, f \notin NamedUpto(r, k)
  PROVE  ExpectedUpto(r, k, f) = Fresh
<1>1. Upto(r, k, f) = {}
  <2>1. ASSUME NEW i \in Upto(r, k, f) PROVE FALSE
    <3>1. i \in 1 .. k /\ i \in 1 .. Len(r) /\ FileAt(r, i) = f
      BY UptoIs DEF Upto, About
    <3>2. f \in NamedUpto(r, i)
      BY <3>1, FileAtNamed
    <3> QED
      BY <3>1, <3>2 DEF NamedUpto
  <2> QED
    BY <2>1
<1>2. ListedUpto(r, k, f) = {} /\ \A ln \in Lines : HitsUpto(r, k, f, ln) = 0
  BY <1>1, HitsAre DEF ListedUpto
<1>3. {ln \in ListedUpto(r, k, f) : HitsUpto(r, k, f, ln) > 0} = {}
  BY <1>2
<1> QED
  BY <1>2, <1>3, FS_EmptySet DEF ExpectedUpto, Fresh

LEMMA ExpectedWhole ==
  ASSUME NEW r \in Reports
  PROVE  NamedUpto(r, Len(r)) = Named(r) /\ \A f : ExpectedUpto(r, Len(r), f) = Expected(r, f)
<1>1. DOMAIN r = 1 .. Len(r) /\ Len(r) \in Nat
  BY WholeReport
<1>2. NamedUpto(r, Len(r)) = Named(r)
  BY <1>1 DEF NamedUpto, Named
<1>3. ASSUME NEW f PROVE ExpectedUpto(r, Len(r), f) = Expected(r, f)
  <2>1. Upto(r, Len(r), f) = About(r, f)
    BY <1>1 DEF Upto, About
  <2>2. \A ln : HitsUpto(r, Len(r), f, ln) = Hits(r, f, ln)
    BY <2>1 DEF HitsUpto, On, Hits, SumOf, CountOf
  <2>3. ListedUpto(r, Len(r), f) = {r[i].line : i \in About(r, f)}
    BY <2>1 DEF ListedUpto
  <2>4. [ln \in Lines |-> HitsUpto(r, Len(r), f, ln)] = [ln \in Lines |-> Hits(r, f, ln)]
    BY <2>2
  <2>5. {ln \in ListedUpto(r, Len(r), f) : HitsUpto(r, Len(r), f, ln) > 0}
          = {ln \in {r[i].line : i \in About(r, f)} : Hits(r, f, ln) > 0}
    BY <2>2, <2>3
  <2> QED
    BY <2>3, <2>4, <2>5 DEF ExpectedUpto, Expected
<1> QED
  BY <1>2, <1>3

(* A count is added to its line of its file, as Filled adds it. *)
LEMMA ExpectedData ==
  ASSUME NEW r \in Reports, NEW k \in Nat, k + 1 \in 1 .. Len(r), r[k + 1].kind = "DA",
         NEW f, f = FileAt(r, k + 1)
  PROVE  ExpectedUpto(r, k + 1, f) = Filled(ExpectedUpto(r, k, f), r[k + 1].line, r[k + 1].count)
<1> DEFINE line   == r[k + 1].line
           count  == r[k + 1].count
           listed == ListedUpto(r, k, f)
           now    == ListedUpto(r, k + 1, f)
           E      == {ln \in listed : HitsUpto(r, k, f, ln) > 0}
           EE     == {ln \in now : HitsUpto(r, k + 1, f, ln) > 0}
           first  == count > 0 /\ HitsUpto(r, k, f, line) = 0
<1>1. Upto(r, k + 1, f) = Upto(r, k, f) \cup {k + 1} /\ k + 1 \notin Upto(r, k, f)
  BY UptoSteps DEF Upto
<1>2. line \in Lines /\ count \in Nat /\ CountOf(r, f)[k + 1] = count
  BY <1>1, UptoIs
<1>3. now = listed \cup {line}
  BY <1>1 DEF ListedUpto
<1>4. /\ On(r, k + 1, f, line) = On(r, k, f, line) \cup {k + 1} /\ k + 1 \notin On(r, k, f, line)
      /\ \A ln : ln # line => On(r, k + 1, f, ln) = On(r, k, f, ln)
  BY <1>1 DEF On
<1>5. HitsUpto(r, k + 1, f, line) = count + HitsUpto(r, k, f, line)
  <2>1. \A i \in On(r, k, f, line) : CountOf(r, f)[i] \in Nat
    BY UptoIs DEF On
  <2>2. \A i \in On(r, k, f, line) \cup {k + 1} : CountOf(r, f)[i] \in Int
    BY <1>2, <2>1
  <2> QED
    BY <1>2, <1>4, <2>2, HitsAre, SumAdd DEF HitsUpto
<1>6. \A ln : ln # line => HitsUpto(r, k + 1, f, ln) = HitsUpto(r, k, f, ln)
  BY <1>4 DEF HitsUpto
<1>7. /\ \A ln : HitsUpto(r, k, f, ln) \in Nat /\ (ln \notin listed => HitsUpto(r, k, f, ln) = 0)
      /\ listed \subseteq Lines /\ IsFiniteSet(listed)
  BY HitsAre, ListedAre
<1>8. Cardinality(now) = Cardinality(listed) + (IF line \notin listed THEN 1 ELSE 0)
  <2>1. CASE line \in listed
    <3>1. now = listed /\ Cardinality(listed) \in Nat
      BY <1>3, <1>7, <2>1, FS_CardinalityType
    <3> QED
      BY <2>1, <3>1
  <2>2. CASE line \notin listed
    BY <1>3, <1>7, <2>2, FS_AddElement
  <2> QED
    BY <2>1, <2>2
<1>9. Cardinality(EE) = Cardinality(E) + (IF first THEN 1 ELSE 0)
  <2>1. IsFiniteSet(E) /\ Cardinality(E) \in Nat
    BY <1>7, FS_Subset, FS_CardinalityType
  <2>2. CASE first
    <3>1. EE = E \cup {line} /\ line \notin E
      BY <1>2, <1>3, <1>5, <1>6, <1>7, <2>2
    <3> QED
      BY <2>1, <2>2, <3>1, FS_AddElement
  <2>3. CASE ~first
    <3>1. HitsUpto(r, k + 1, f, line) > 0 <=> HitsUpto(r, k, f, line) > 0
      BY <1>2, <1>5, <1>7, <2>3
    <3>2. \A ln : ln \in EE <=> ln \in now /\ HitsUpto(r, k, f, ln) > 0
      BY <1>6, <3>1
    <3>3. \A ln : ln \in now /\ HitsUpto(r, k, f, ln) > 0 <=> ln \in E
      <4>1. HitsUpto(r, k, f, line) > 0 => line \in listed
        BY <1>7
      <4> QED
        BY <1>3, <4>1
    <3>4. EE = E
      <4>1. \A ln : ln \in EE <=> ln \in E
        BY <3>2, <3>3
      <4> HIDE DEF EE, E
      <4> QED
        BY <4>1
    <3> HIDE DEF EE, E, first
    <3> QED
      BY <2>1, <2>3, <3>4
  <2> QED
    BY <2>2, <2>3
<1>10. [ln \in Lines |-> HitsUpto(r, k + 1, f, ln)]
         = [[ln \in Lines |-> HitsUpto(r, k, f, ln)] EXCEPT ![line] = IF line \notin listed THEN count ELSE @ + count]
  BY <1>2, <1>5, <1>6, <1>7
<1>11. first <=> count > 0 /\ (line \notin listed \/ [ln \in Lines |-> HitsUpto(r, k, f, ln)][line] = 0)
  BY <1>2, <1>7
<1> HIDE DEF first
<1> QED
  BY <1>3, <1>8, <1>9, <1>10, <1>11 DEF ExpectedUpto, Filled

-----------------------------------------------------------------------------
(* What is shown is the report *)

(* A thread whose update met no other has put into the coverage what the   *)
(* lines say that it has parsed.                                           *)
Reading(c) ==
  /\ known = NamedUpto(opened[c], Position(c))
  /\ \A f \in known : coverage[f] = ExpectedUpto(opened[c], Position(c), f)
  /\ pc[c] = "parse" =>
       curfile[c] = IF Position(c) = 0 \/ opened[c][Position(c)].kind = "end_of_record"
                    THEN NoFile ELSE Filling(FileAt(opened[c], Position(c)))
  /\ pc[c] = "take" => Head(text[c]).file \in known
  /\ pc[c] = "make" => Head(text[c]).file \notin known

Exact(c) ==
  /\ Updating \subseteq {c}
  /\ pc[c] = "open" => known = {} /\ curfile[c] = NoFile
  /\ opened[c] \in Reports =>
       /\ pc[c] \in {"parse", "take", "make"} => Reading(c)
       /\ pc[c] \in {"notify", "watch", "reset"} => ShowsReport(opened[c])

ExactInv == \A c \in apart : Exact(c)

LEMMA Advance ==
  ASSUME Typed, RestInv, NEW c \in Conns, Reads(c)
  PROVE  /\ Position(c) \in Nat /\ Position(c) <= Len(opened[c])
         /\ text[c] = <<>> => Position(c) = Len(opened[c])
         /\ text[c] # <<>> =>
              /\ Position(c) + 1 \in 1 .. Len(opened[c]) /\ Head(text[c]) = opened[c][Position(c) + 1]
              /\ opened' = opened /\ text' = [text EXCEPT ![c] = Tail(@)] => Position(c)' = Position(c) + 1
<1>1. text[c] \in Text /\ opened[c] \in Text /\ Rest(c)
  BY DEF Typed, RestInv
<1>2. Len(text[c]) \in Nat /\ Len(opened[c]) \in Nat /\ (text[c] = <<>> => Len(text[c]) = 0)
  BY <1>1 DEF Text
<1>3. CASE text[c] = <<>>
  BY <1>1, <1>2, <1>3 DEF Rest, Position
<1>4. CASE text[c] # <<>>
  <2>1. /\ Len(Tail(text[c])) = Len(text[c]) - 1
        /\ Position(c) + 1 \in 1 .. Len(opened[c]) /\ Head(text[c]) = opened[c][Position(c) + 1]
    BY <1>1, <1>4, TailRest DEF Rest, Position
  <2>2. ASSUME opened' = opened, text' = [text EXCEPT ![c] = Tail(@)]
        PROVE  Position(c)' = Position(c) + 1
    <3>1. text'[c] = Tail(text[c])
      BY <2>2 DEF Typed
    <3>2. Len(text'[c]) = Len(text[c]) - 1 /\ Len(opened'[c]) = Len(opened[c])
      BY <2>1, <2>2, <3>1
    <3>3. Position(c)' = Len(opened'[c]) - Len(text'[c])
      BY DEF Position
    <3> QED
      BY <1>2, <3>2, <3>3 DEF Position
  <2>3. Position(c) \in Nat /\ Position(c) <= Len(opened[c])
    <3>1. Len(text[c]) <= Len(opened[c])
      BY <1>1 DEF Rest
    <3>2. \A m, ln \in Nat : m <= ln => ln - m \in Nat /\ ln - m <= ln
      OBVIOUS
    <3> QED
      BY <1>2, <3>1, <3>2 DEF Position
  <2> QED
    BY <1>4, <2>1, <2>2, <2>3
<1> QED
  BY <1>3, <1>4

(* Steps of a thread that do not touch the coverage. *)
LEMMA ExactKept ==
  ASSUME Typed, NEW c \in Conns, Exact(c),
         UNCHANGED <<coverage, known, text, curfile, opened>>,
         NEW d \in Conns, NEW to, pc' = [pc EXCEPT ![d] = to],
         \/ pc[d] = "watch" /\ to = "reset"
         \/ pc[d] \in {"none", "lock", "add_watch"} /\ to \in {"lock", "add_watch", "watch"}
  PROVE  Exact(c)'
<1> USE DEF Typed, TypeOK
<1>1. Updating' = Updating
  BY DEF Updating
<1>2. CASE d = c
  <2>1. opened[c] \notin Reports \/ pc[c] = "watch"
    <3>1. <<>> \notin Reports
      BY WholeReport
    <3> QED
      BY <1>2, <3>1
  <2> QED
    BY <1>1, <1>2, <2>1 DEF Exact, ShowsReport
<1>3. CASE d # c
  <2>1. pc'[c] = pc[c]
    BY <1>3
  <2> QED
    BY <1>1, <2>1 DEF Exact, ShowsReport, Reading, Position
<1> QED
  BY <1>2, <1>3

LEMMA ExactUnchanged ==
  ASSUME NEW c \in Conns, Exact(c), UNCHANGED <<coverage, known, text, curfile, opened, pc>>
  PROVE  Exact(c)'
BY DEF Exact, ShowsReport, Reading, Position, Updating

(* Steps that read the next line. *)
LEMMA ExactReads ==
  ASSUME Typed, RestInv, NEW c \in Conns, Exact(c), opened[c] \in Reports,
         Data(c) \/ EndOfRecord(c) \/ SourceTake(c) \/ SourceMake(c)
  PROVE  pc'[c] = "parse" => Reading(c)'
<1> DEFINE r == opened[c]
           k == Position(c)
           l == Head(text[c])
<1> USE DEF Typed, TypeOK
<1>1. Reads(c) /\ text[c] # <<>> /\ pc[c] \in {"parse", "take", "make"}
  BY DEF Data, EndOfRecord, SourceTake, SourceMake, NextLine, Goto, Reads
<1>2. Reading(c)
  BY <1>1 DEF Exact
<1>3. opened' = opened /\ text' = [text EXCEPT ![c] = Tail(@)]
  BY DEF Data, EndOfRecord, SourceTake, SourceMake, Consume
<1>4. k \in Nat /\ k + 1 \in 1 .. Len(r) /\ l = r[k + 1] /\ Position(c)' = k + 1
  BY <1>1, <1>3, Advance
<1>5. known' = NamedUpto(r, k + 1) /\ (\A f \in known' : coverage'[f] = ExpectedUpto(r, k + 1, f))
        /\ (pc'[c] = "parse" => curfile'[c] = IF r[k + 1].kind = "end_of_record" THEN NoFile ELSE Filling(FileAt(r, k + 1)))
      => (pc'[c] = "parse" => Reading(c)')
  BY <1>3, <1>4 DEF Reading
<1> HIDE DEF k, l
<1>6. CASE EndOfRecord(c)
  <2>1. r[k + 1].kind = "end_of_record" /\ UNCHANGED files /\ curfile' = [curfile EXCEPT ![c] = NoFile]
    BY <1>4, <1>6 DEF EndOfRecord, NextLine, l
  <2>2. NamedUpto(r, k + 1) = NamedUpto(r, k)
    BY <1>4, <2>1, NamedSteps
  <2>3. \A f : ExpectedUpto(r, k + 1, f) = ExpectedUpto(r, k, f)
    BY <1>4, <2>1, ExpectedKept
  <2> QED
    BY <1>2, <1>5, <2>1, <2>2, <2>3 DEF Reading, files, k
<1>7. CASE SourceTake(c)
  <2>1. /\ l \in [kind : {"SF"}, file : Files] /\ l.file \in known /\ UNCHANGED files
        /\ curfile' = [curfile EXCEPT ![c] = Filling(l.file)]
    BY <1>2, <1>7 DEF SourceTake, Goto, Reading, l
  <2>2. r[k + 1].kind = "SF" /\ r[k + 1].file = l.file
    BY <1>4, <2>1
  <2>3. FileAt(r, k + 1) = l.file
    BY <1>4, <2>2, FileAtName
  <2>4. \A f : ExpectedUpto(r, k + 1, f) = ExpectedUpto(r, k, f)
    BY <1>4, <2>2, ExpectedKept
  <2>5. NamedUpto(r, k + 1) = NamedUpto(r, k) \cup {l.file}
    BY <1>4, <2>2, NamedSteps
  <2>6. known = NamedUpto(r, k) /\ \A f \in known : coverage[f] = ExpectedUpto(r, k, f)
    BY <1>2 DEF Reading, k
  <2>7. known' = NamedUpto(r, k + 1)
    <3> HIDE DEF Typed, TypeOK
    <3>1. \A S, f : f \in S => S \cup {f} = S
      OBVIOUS
    <3>2. l.file \in NamedUpto(r, k)
      BY <2>1, <2>6
    <3>3. NamedUpto(r, k + 1) = known /\ known' = known
      BY <2>1, <2>5, <2>6, <3>1, <3>2 DEF files
    <3> QED
      BY <3>3
  <2>8. \A f \in known' : coverage'[f] = ExpectedUpto(r, k + 1, f)
    BY <2>1, <2>4, <2>6 DEF files
  <2>9. curfile'[c] = Filling(FileAt(r, k + 1)) /\ r[k + 1].kind # "end_of_record"
    BY <2>1, <2>2, <2>3
  <2> QED
    BY <1>5, <2>7, <2>8, <2>9
<1>8. CASE SourceMake(c)
  <2>1. /\ l \in [kind : {"SF"}, file : Files] /\ l.file \notin known /\ known' = known \cup {l.file}
        /\ coverage' = [coverage EXCEPT ![l.file] = Fresh] /\ curfile'[c] = Filling(l.file)
    BY <1>2, <1>8 DEF SourceMake, Goto, Reading, l
  <2>2. r[k + 1].kind = "SF" /\ r[k + 1].file = l.file
    BY <1>4, <2>1
  <2>3. FileAt(r, k + 1) = l.file
    BY <1>4, <2>2, FileAtName
  <2>4. \A f : ExpectedUpto(r, k + 1, f) = ExpectedUpto(r, k, f)
    BY <1>4, <2>2, ExpectedKept
  <2>5. NamedUpto(r, k + 1) = NamedUpto(r, k) \cup {l.file}
    BY <1>4, <2>2, NamedSteps
  <2>6. known = NamedUpto(r, k) /\ \A f \in known : coverage[f] = ExpectedUpto(r, k, f)
    BY <1>2 DEF Reading, k
  <2>7. ExpectedUpto(r, k, l.file) = Fresh
    BY <1>4, <2>1, <2>6, ExpectedFresh
  <2>8. known' = NamedUpto(r, k + 1)
    BY <2>1, <2>5, <2>6
  <2>9. \A f \in known' : coverage'[f] = ExpectedUpto(r, k + 1, f)
    BY <2>1, <2>4, <2>6, <2>7
  <2>10. curfile'[c] = Filling(FileAt(r, k + 1)) /\ r[k + 1].kind # "end_of_record"
    BY <2>1, <2>2, <2>3
  <2> QED
    BY <1>5, <2>8, <2>9, <2>10
<1>9. CASE Data(c)
  <2>1. /\ r[k + 1].kind = "DA" /\ UNCHANGED <<known, pc, curfile>> /\ pc[c] = "parse"
        /\ coverage' = IF curfile[c].is = "entry"
                        THEN [coverage EXCEPT ![curfile[c].file] = Filled(@, l.line, l.count)] ELSE coverage
    BY <1>4, <1>9 DEF Data, NextLine, l
  <2>2. k # 0 /\ k \in 1 .. Len(r) /\ r[k].kind # "end_of_record"
    BY <1>4, <2>1, WholeReport
  <2>3. FileAt(r, k + 1) = FileAt(r, k) /\ FileAt(r, k) \in Files
    BY <1>4, <2>1, <2>2, FileAtGoesOn, FileAtNamed
  <2>4. curfile[c] = Filling(FileAt(r, k))
    BY <1>2, <2>1, <2>2 DEF Reading, k
  <2>5. curfile[c].is = "entry" /\ curfile[c].file = FileAt(r, k) /\ FileAt(r, k) \in known
    BY <2>3, <2>4, FillsAre
  <2>6. NamedUpto(r, k + 1) = known
    BY <1>2, <1>4, <2>1, NamedSteps DEF Reading, k
  <2>7. \A f : f # FileAt(r, k) => ExpectedUpto(r, k + 1, f) = ExpectedUpto(r, k, f)
    BY <1>4, <2>1, <2>3, ExpectedKept
  <2>8. ExpectedUpto(r, k + 1, FileAt(r, k)) = Filled(ExpectedUpto(r, k, FileAt(r, k)), l.line, l.count)
    BY <1>4, <2>1, <2>3, ExpectedData
  <2>9. \A f \in known : coverage[f] = ExpectedUpto(r, k, f)
    BY <1>2 DEF Reading, k
  <2>10. \A f \in known : coverage'[f] = ExpectedUpto(r, k + 1, f)
    BY <2>1, <2>5, <2>7, <2>8, <2>9
  <2> QED
    BY <1>5, <2>1, <2>3, <2>4, <2>6, <2>10
<1> QED
  BY <1>6, <1>7, <1>8, <1>9

(* A thread has the coverage for itself while it updates. *)
LEMMA ExactUpdate ==
  ASSUME Typed, RestInv, NEW c \in Conns, Exact(c), Update(c), ~Reset(c)
  PROVE  Exact(c)'
<1> USE DEF Typed, TypeOK
<1>1. pc[c] \in {"open", "parse", "take", "make", "notify"} /\ \A d \in Conns : d # c => pc'[d] = pc[d]
  BY DEF Update, Open, Data, EndOfRecord, SourceTest, SourceTake, SourceMake, Malformed, EndOfFile,
         Notify, NextLine, Goto
<1>2. Updating' \subseteq {c}
  BY <1>1 DEF Exact, Updating
<1>3. CASE Open(c)
  <2>1. known' = {} /\ curfile'[c] = NoFile /\ pc'[c] \in {"parse", "dead"}
    BY <1>3 DEF Open, Goto, Exact, files
  <2>2. opened'[c] = lcov.lines /\ text'[c] = lcov.lines /\ lcov.lines \in Text
    BY <1>3 DEF Open
  <2>3. Position(c)' = 0
    <3>1. Len(opened'[c]) \in Nat /\ Position(c)' = Len(opened'[c]) - Len(text'[c])
      BY <2>2 DEF Text, Position
    <3> QED
      BY <2>2, <3>1
  <2>4. NamedUpto(opened'[c], 0) = {}
    BY DEF NamedUpto
  <2>5. Reading(c)' \/ pc'[c] = "dead"
    BY <2>1, <2>3, <2>4 DEF Reading
  <2> QED
    BY <1>2, <2>1, <2>5 DEF Exact
<1>4. CASE Data(c) \/ EndOfRecord(c) \/ SourceTake(c) \/ SourceMake(c)
  <2>1. opened' = opened /\ pc'[c] \in {"parse", "dead"}
    BY <1>4 DEF Data, EndOfRecord, SourceTake, SourceMake, NextLine, Goto
  <2>2. opened[c] \in Reports /\ pc'[c] = "parse" => Reading(c)'
    BY <1>4, ExactReads
  <2> QED
    BY <1>2, <2>1, <2>2 DEF Exact
<1>5. CASE SourceTest(c)
  <2>1. pc[c] = "parse" /\ UNCHANGED <<coverage, known, text, opened>>
    BY <1>5 DEF SourceTest, NextLine, files
  <2>2. \/ pc'[c] = "take" /\ Head(text[c]).file \in known
        \/ pc'[c] = "make" /\ Head(text[c]).file \notin known
    BY <1>5 DEF SourceTest, NextLine
  <2>3. opened[c] \in Reports => Reading(c)'
    BY <2>1, <2>2 DEF Exact, Reading, Position
  <2> QED
    BY <1>2, <2>1, <2>2, <2>3 DEF Exact
<1>6. CASE Malformed(c)
  BY <1>2, <1>6 DEF Malformed, Exact
<1>7. CASE EndOfFile(c)
  <2>1. pc[c] = "parse" /\ pc'[c] = "notify" /\ text[c] = <<>> /\ UNCHANGED <<coverage, known, opened>>
    BY <1>7 DEF EndOfFile, Goto, files
  <2>2. Position(c) = Len(opened[c])
    BY <2>1, Advance DEF Reads
  <2>3. ASSUME opened[c] \in Reports PROVE ShowsReport(opened[c])
    <3>1. Reading(c)
      BY <2>1, <2>3 DEF Exact
    <3> QED
      BY <2>2, <2>3, <3>1, ExpectedWhole DEF Reading, ShowsReport
  <2> QED
    BY <1>2, <2>1, <2>3 DEF Exact, ShowsReport
<1>8. CASE Notify(c)
  BY <1>2, <1>8 DEF Notify, Goto, Exact, ShowsReport, files
<1> QED
  BY <1>3, <1>4, <1>5, <1>6, <1>7, <1>8 DEF Update

LEMMA NextExact ==
  ASSUME Typed, RestInv, ExactInv, [Next]_vars
  PROVE  ExactInv'
<1> SUFFICES ASSUME NEW c \in apart' PROVE Exact(c)'
  BY DEF ExactInv
<1> USE DEF Typed, TypeOK
<1>1. CASE UNCHANGED vars
  <2>1. c \in apart /\ c \in Conns
    BY <1>1 DEF vars, threads
  <2> QED
    BY <1>1, <2>1, ExactUnchanged DEF vars, threads, files, ExactInv
<1>2. ASSUME NEW d \in Conns, Reset(d) PROVE Exact(c)'
  <2>1. c = d /\ Updating = {}
    BY <1>2 DEF Reset, Begins
  <2>2. pc' = [pc EXCEPT ![c] = "open"] /\ known' = {} /\ curfile'[c] = NoFile
    BY <1>2, <2>1 DEF Reset, Goto
  <2>3. Updating' \subseteq {c}
    BY <2>1, <2>2 DEF Updating
  <2> QED
    BY <1>2, <2>1, <2>2, <2>3 DEF Exact
<1>3. ASSUME NEW d \in Conns, Update(d), ~Reset(d) PROVE Exact(c)'
  <2>1. c \in apart /\ d \in Updating
    BY <1>3 DEF Update, Open, Data, EndOfRecord, SourceTest, SourceTake, SourceMake, Malformed,
                EndOfFile, Notify, NextLine, Goto, Updating
  <2>2. Exact(c) /\ d = c
    BY <2>1 DEF ExactInv, Exact
  <2> QED
    BY <1>3, <2>2, ExactUpdate
<1>4. ASSUME NEW d \in Conns, Kernel(d) PROVE Exact(c)'
  <2>1. c \in apart /\ UNCHANGED <<coverage, known, text, curfile, opened, pc>>
    BY <1>4 DEF Kernel, Begin, WritePart, Finish, Touch, files, threads
  <2> QED
    BY <2>1, ExactUnchanged DEF ExactInv
<1>5. ASSUME NEW d \in Conns, Spawn(d) \/ CreateLock(d) \/ AddWatch(d) \/ Event(d) PROVE Exact(c)'
  <2>1. c \in apart /\ UNCHANGED <<coverage, known, text, curfile, opened>>
    BY <1>5 DEF Spawn, CreateLock, AddWatch, Event, files
  <2>2. PICK to : /\ pc' = [pc EXCEPT ![d] = to]
                  /\ \/ pc[d] = "watch" /\ to = "reset"
                     \/ pc[d] \in {"none", "lock", "add_watch"} /\ to \in {"lock", "add_watch", "watch"}
    BY <1>5 DEF Spawn, CreateLock, AddWatch, Event, Goto
  <2> QED
    BY <2>1, <2>2, ExactKept DEF ExactInv
<1> QED
  BY <1>1, <1>2, <1>3, <1>4, <1>5 DEF Next, Thread, Update

(* What is shown when the listeners are told, whatever the clients do. *)
THEOREM ReportShown == Spec => []ReportExact
<1>1. Init => Typed /\ RestInv /\ ExactInv
  BY InitTyped DEF Init, RestInv, Reads, ExactInv
<1>2. Typed /\ RestInv /\ ExactInv /\ [Next]_vars => (Typed /\ RestInv /\ ExactInv)'
  <2>1. Typed /\ [Next]_vars => Typed'
    BY NextTyped
  <2> QED
    BY <2>1, NextRest, NextExact
<1>3. Typed /\ RestInv /\ ExactInv => ReportExact
  BY DEF ExactInv, Exact, ReportExact
<1> QED
  BY <1>1, <1>2, <1>3, PTL DEF Spec

-----------------------------------------------------------------------------
(* The report that was written last *)

(* A thread whose report is not the last one hears of a later one, or will *)
(* when the kernel that writes it is done.                                 *)
News(c) ==
  \/ opened[c] \in {<<>>, lcov.lines}
  \/ pending[c] # <<>> \/ pc[c] \in {"reset", "open"}
  \/ \E x \in Conns : kernel[x] \in {"lcov", "touch"}

NewsInv == \A c \in Watchers : News(c)

LEMMA AddedEvent ==
  ASSUME NEW s \in Seq(Conns \cup {"lock"}), NEW e \in Conns \cup {"lock"}
  PROVE  Append(s, e) # <<>>
<1>1. Len(Append(s, e)) = Len(s) + 1 /\ Len(s) \in Nat
  OBVIOUS
<1>2. Len(<<>>) = 0
  OBVIOUS
<1> QED
  BY <1>1, <1>2

LEMMA NextNews ==
  ASSUME Typed, NewsInv, [Next]_vars
  PROVE  NewsInv'
<1> SUFFICES ASSUME NEW c \in Watchers' PROVE News(c)'
  BY DEF NewsInv
<1> USE DEF Typed, TypeOK
<1>c. c \in Conns
  BY DEF Watchers
<1>1. CASE UNCHANGED vars
  BY <1>1 DEF vars, threads, News, NewsInv, Watchers
<1>2. ASSUME NEW d \in Conns, Begin(d) \/ WritePart(d) \/ Finish(d) PROVE News(c)'
  <2>1. kernel'[d] \in {"lcov", "touch"}
    BY <1>2 DEF Begin, WritePart, Finish
  <2> QED
    BY <2>1 DEF News
<1>3. ASSUME NEW d \in Conns, Touch(d) PROVE News(c)'
  <2>1. c \in Watchers /\ pending'[c] = Append(pending[c], d)
    BY <1>c, <1>3 DEF Touch, Closed, Watchers
  <2>2. pending[c] \in Seq(Conns \cup {"lock"}) /\ d \in Conns \cup {"lock"}
    BY <1>c
  <2>3. Append(pending[c], d) # <<>>
    BY <2>2, AddedEvent
  <2> QED
    BY <2>1, <2>3 DEF News
<1>4. ASSUME NEW d \in Conns, Spawn(d) PROVE News(c)'
  <2>1. c \in Watchers /\ UNCHANGED <<lcov, pending, opened>> /\ pc'[c] = pc[c]
    BY <1>c, <1>4 DEF Spawn, Goto, Watchers
  <2>2. \A x \in Conns : kernel[x] \in {"lcov", "touch"} => kernel'[x] = kernel[x]
    BY <1>4 DEF Spawn, Goto
  <2> QED
    BY <2>1, <2>2 DEF News, NewsInv
<1>5. ASSUME NEW d \in Conns, CreateLock(d) PROVE News(c)'
  <2>1. c \in Watchers /\ pending'[c] = Append(pending[c], "lock")
    BY <1>c, <1>5 DEF CreateLock, Goto, Closed, Watchers
  <2>2. pending'[c] # <<>>
    BY <1>c, <2>1, AddedEvent
  <2> QED
    BY <2>2 DEF News
<1>6. ASSUME NEW d \in Conns, AddWatch(d) PROVE News(c)'
  <2>1. CASE d = c
    BY <1>c, <1>6, <2>1 DEF AddWatch, Goto, News
  <2>2. CASE d # c
    BY <1>c, <1>6, <2>2 DEF AddWatch, Goto, News, NewsInv, Watchers
  <2> QED
    BY <2>1, <2>2
<1>7. ASSUME NEW d \in Conns, Event(d) PROVE News(c)'
  <2>1. CASE d = c
    BY <1>c, <1>7, <2>1 DEF Event, Goto, News
  <2>2. CASE d # c
    BY <1>c, <1>7, <2>2 DEF Event, Goto, News, NewsInv, Watchers
  <2> QED
    BY <2>1, <2>2
<1>8. ASSUME NEW d \in Conns, Open(d) PROVE News(c)'
  <2>1. CASE d = c
    BY <1>c, <1>8, <2>1 DEF Open, News
  <2>2. CASE d # c
    BY <1>c, <1>8, <2>2 DEF Open, Goto, News, NewsInv, Watchers
  <2> QED
    BY <2>1, <2>2
<1>9. ASSUME NEW d \in Conns, Update(d), ~Open(d) PROVE News(c)'
  <2>1. /\ UNCHANGED <<lcov, kernel, pending, opened>> /\ c \in Watchers
        /\ pc[c] \in {"reset", "open"} => pc'[c] \in {"reset", "open"}
    BY <1>c, <1>9 DEF Update, Reset, Data, EndOfRecord, SourceTest, SourceTake, SourceMake, Malformed,
                      EndOfFile, Notify, NextLine, Goto, Watchers
  <2> QED
    BY <2>1 DEF News, NewsInv
<1> QED
  BY <1>1, <1>2, <1>3, <1>4, <1>5, <1>6, <1>7, <1>8, <1>9 DEF Next, Kernel, Thread

(* No report is lost while a thread parses, and none taken for another. *)
THEOREM LastReportShown == Spec => []LastShown
<1> DEFINE Inv == Typed /\ RestInv /\ ExactInv /\ NewsInv
<1>1. Init => Inv
  BY InitTyped DEF Init, RestInv, Reads, ExactInv, NewsInv, Watchers
<1>2. Inv /\ [Next]_vars => Inv'
  <2>1. Typed /\ [Next]_vars => Typed'
    BY NextTyped
  <2> QED
    BY <2>1, NextRest, NextExact, NextNews
<1>3. Inv => LastShown
  <2> SUFFICES ASSUME Inv, AtRest, NEW c \in apart, pc[c] = "watch", opened[c] \in Reports
               PROVE  ShowsReport(lcov.lines)
    BY DEF LastShown
  <2>1. c \in Conns /\ c \in Watchers /\ pending[c] = <<>>
    BY DEF Typed, Watchers, AtRest
  <2>2. News(c)
    BY <2>1 DEF NewsInv
  <2>3. opened[c] \in {<<>>, lcov.lines}
    BY <2>1, <2>2 DEF News, AtRest
  <2>4. ShowsReport(opened[c])
    BY DEF ExactInv, Exact
  <2> QED
    BY <2>3, <2>4, WholeReport
<1> QED
  BY <1>1, <1>2, <1>3, PTL DEF Spec
=============================================================================
