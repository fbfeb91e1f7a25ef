---------------------------- MODULE EscDlf_proofs ----------------------------
(***************************************************************************)
(* Proofs about EscDlf: whatever the request, the answer, the way the      *)
(* network cuts the input and the sizes of the buffers, the command        *)
(* handler reads the request as it was sent, the client reads the answer   *)
(* as it was written, and no byte behind the request is lost.              *)
(*                                                                         *)
(* The invariant relates the input block to a position of the whole stream *)
(* of the client where the automaton could start anew, and the printer to  *)
(* a position of the answer; what happens to a block is the content of     *)
(* LastBlock, MiddleBlock and EscapeIs.                                    *)
(***************************************************************************)
EXTENDS EscDlf, InputBlock_proofs

\* All the client sends, and where the marker starts.
Stream(j) == Escaped(j.request) \o Marker \o j.rest
DataLen(j) == Len(Escaped(j.request))

\* The requests and answers a data phase may have to do with.
Exchange == [request : Seq(Chars), answer : Seq(Chars), rest : Seq(Chars)]

\* How much of it is read when u is not read yet.
ReadLen(u) == Len(Stream(job)) - Len(u)

\* Block blk continues the reading of the stream at S, where data is found.
Continues(j, S, blk, data) ==
    \E p \in 0..DataLen(j) : ReadTo(Stream(j), p, S, blk) /\ Found(Stream(j))[p] = data

Resumes(j, S, blk) == \E p \in 0..DataLen(j) : ReadTo(Stream(j), p, S, blk)

\* What the block keeps from next on and what is not read yet is what was sent
\* behind the request.
Leaves(j, blk, next, unread) ==
    /\ SubSeq(blk.buf, next + 1, blk.pos) \in Seq(Chars)
    /\ SubSeq(blk.buf, next + 1, blk.pos) \o unread = j.rest

\* After a call of getEoD() that has read up to S, when data was found before: the
\* request is complete, or the reading continues.
Received(j, S, r, data, unread) ==
    IF r.blk.gotEoD
    THEN data \o SubSeq(r.blk.buf, 1, r.eod) = j.request /\ Leaves(j, r.blk, r.blk.nextpos, unread)
    ELSE Continues(j, S, r.blk, data \o SubSeq(r.blk.buf, 1, r.eod))

(***************************************************************************)
(* The invariant of a data phase. It has three parameters, since the       *)
(* handler also runs inside the dialogue of module MainProtocol, where its *)
(* caller passes on what it reads and writes: o is the operation its       *)
(* caller has to perform, x what it has printed and its caller has taken,  *)
(* u what its caller has not given to it yet.                              *)
(***************************************************************************)

\* Types: the input side and the rest.
InputType ==
    /\ m_input \in Blocks(Chars)
    /\ m_eoD \in Nat
    /\ m_nextmsg \in Nat
    /\ m_unconsumedInput \in BOOLEAN
    /\ m_gotEoD \in BOOLEAN
    /\ taken \in Seq(Chars)
    /\ told \in BOOLEAN

OtherType(o, x, u) ==
    /\ job \in Exchange
    /\ u \in Seq(Chars)
    /\ x \in Seq(Chars)
    /\ o \in {"START", "READ", "WRITE", "CLOSE", "none"}
    /\ m_state \in {"StartProcessing", "Processing", "FlushingOutput", "DiscardInput", "Terminated"}
    /\ m_esc_stm \in [state : {"SRC", "LF", "LFdot"}, blk : Seq(Chars)]
    /\ m_writedata \in Seq(Chars)
    /\ cmdh \in {"none", "open", "closed"}
    /\ given \in 0..Len(job.answer)

PhaseType(o, x, u) == InputType /\ OtherType(o, x, u)

\* What is not read yet is the rest of the stream.
NetInv(u) ==
    /\ Len(u) <= Len(Stream(job))
    /\ u = SubSeq(Stream(job), ReadLen(u) + 1, Len(Stream(job)))

\* What nextOperation() has returned tells about the state.
OpInv(o, u) ==
    /\ o = "START" => /\ m_state = "StartProcessing" /\ m_input = EmptyBlock /\ taken = <<>>
                      /\ Len(u) = Len(Stream(job))
    /\ o = "READ" => m_state \in {"Processing", "DiscardInput"}
    /\ o \in {"START", "READ"} => ~m_unconsumedInput /\ ~m_gotEoD
    /\ o = "WRITE" <=> m_writedata # <<>>
    /\ o = "WRITE" => m_state \in {"FlushingOutput", "Terminated"}
    /\ o = "CLOSE" => m_state = "Terminated"
    /\ m_state = "Terminated" => m_gotEoD

\* The command handler is still given what is read.
Handing == cmdh # "none" /\ m_state # "DiscardInput"

InputInv(u) ==
    /\ m_unconsumedInput =>
         /\ ~m_gotEoD /\ taken = <<>> /\ ~told
         /\ Received(job, ReadLen(u), [blk |-> m_input, eod |-> m_eoD], <<>>, u)
    /\ ~m_unconsumedInput => ~m_input.gotEoD
    /\ ~m_unconsumedInput /\ ~m_gotEoD =>
         /\ ~told
         /\ Resumes(job, ReadLen(u), m_input)
         /\ Handing => Continues(job, ReadLen(u), m_input, taken)
    /\ m_gotEoD => Leaves(job, m_input, m_nextmsg, u)

\* The printer is at byte k of the answer, behind which nothing is written, unless
\* the marker is written as well.
OutputInv(x) ==
    /\ m_state # "FlushingOutput" => m_esc_stm.blk = <<>>
    /\ \E k \in 0..given :
         /\ AtByte(m_esc_stm, job.answer, k, given)
         /\ x \o m_writedata = IF m_state = "Terminated" THEN Printed(m_esc_stm.state, job.answer, k) \o Marker
                               ELSE Printed(m_esc_stm.state, job.answer, k)

PhaseInv(o, x, u) ==
    PhaseType(o, x, u) /\ NetInv(u) /\ OpInv(o, u) /\ InputInv(u) /\ RequestExact /\ OutputInv(x)

\* In the specification of module EscDlf the caller is the network.
Inv == PhaseInv(op, wire, net) /\ outsize = OutSize

TypeOK == PhaseType(op, wire, net)

-----------------------------------------------------------------------------
(* The stream of the client *)

LEMMA ExchangeType ==
    ASSUME NEW j \in Exchange
    PROVE  /\ j.request \in Seq(Chars) /\ j.answer \in Seq(Chars) /\ j.rest \in Seq(Chars)
           /\ CR \in Chars /\ LF \in Chars /\ DOT \in Chars
  BY CharsAssumption DEF Exchange

LEMMA EscapedType ==
    ASSUME NEW data \in Seq(Chars)
    PROVE  Escaped(data) \in Seq(Chars) /\ Len(Escaped(data)) \in Nat
<1>1. DOT \in Chars
  BY CharsAssumption
<1>2. EscapedTo(data) \in [0..Len(data) -> Seq(Chars)] /\ Len(data) \in 0..Len(data)
  BY <1>1, EscapedToDef
<1>3. Escaped(data) \in Seq(Chars)
  BY <1>2 DEF Escaped
<1> QED BY <1>3

\* v is s, t and u, one behind the other.
Parts(v, s, t, u) ==
    /\ Len(v) = Len(s) + Len(t) + Len(u)
    /\ \A i \in 1..Len(s) : v[i] = s[i]
    /\ \A i \in 1..Len(t) : v[Len(s) + i] = t[i]
    /\ SubSeq(v, (Len(s) + Len(t)) + 1, Len(v)) = u

LEMMA ThreeParts ==
    ASSUME NEW C, NEW s \in Seq(C), NEW t \in Seq(C), NEW u \in Seq(C)
    PROVE  s \o t \o u \in Seq(C) /\ Parts(s \o t \o u, s, t, u)
<1> DEFINE v == s \o t \o u
           x == Len(s) + Len(t)
<1>1. v \in Seq(C) /\ Len(v) = Len(s) + Len(t) + Len(u) /\ Len(s) \in Nat /\ Len(t) \in Nat /\ Len(u) \in Nat
  OBVIOUS
<1>2. \A i \in 1..Len(s) : v[i] = s[i]
  OBVIOUS
<1>3. \A i \in 1..Len(t) : v[Len(s) + i] = t[i]
  OBVIOUS
<1>4. \A i \in 1..Len(u) : v[x + i] = u[i]
  OBVIOUS
<1> HIDE DEF v, x
<1>5. SubSeq(v, x + 1, Len(v)) = u
  <2>1. x \in 0..Len(v) /\ Len(v) \in x..Len(v) /\ Len(v) - x = Len(u)
    BY <1>1 DEF x
  <2> DEFINE z == SubSeq(v, x + 1, Len(v))
  <2>2. z \in Seq(C) /\ Len(z) = Len(u) /\ \A i \in 1..Len(u) : z[i] = v[x + i]
    BY <1>1, <2>1, SubSeqIs
  <2> HIDE DEF z
  <2>3. \A i \in 1..Len(z) : z[i] = u[i]
    BY <1>4, <2>2
  <2>4. z = u
    BY <2>2, <2>3, SeqEq
  <2> QED BY <2>4 DEF z
<1> QED BY <1>1, <1>2, <1>3, <1>5 DEF v, x, Parts

LEMMA StreamFacts ==
    ASSUME NEW j \in Exchange
    PROVE  /\ Stream(j) \in Seq(Chars) /\ Len(Stream(j)) \in Nat
           /\ DataLen(j) \in Nat /\ DataLen(j) + 5 <= Len(Stream(j))
           /\ IsStream(Stream(j), j.request)
           /\ SubSeq(Stream(j), DataLen(j) + 6, Len(Stream(j))) = j.rest
<1> DEFINE s == Escaped(j.request)
           u == j.rest
           w == Stream(j)
           v == s \o Marker \o u
<1>1. s \in Seq(Chars) /\ u \in Seq(Chars) /\ Marker \in Seq(Chars) /\ Len(Marker) = 5 /\ Len(s) \in Nat
  BY ExchangeType, EscapedType DEF Marker
<1>2. w = v /\ DataLen(j) = Len(s)
  BY DEF Stream, DataLen
<1> HIDE DEF s, u, w
<1>3. /\ v \in Seq(Chars)
      /\ Len(v) = Len(s) + 5 + Len(u)
      /\ \A i \in 1..Len(s) : v[i] = s[i]
      /\ \A i \in 1..5 : v[Len(s) + i] = Marker[i]
      /\ SubSeq(v, (Len(s) + 5) + 1, Len(v)) = u
  <2>1. v \in Seq(Chars) /\ Parts(v, s, Marker, u)
    BY <1>1, ThreeParts
  <2> HIDE DEF v
  <2> QED BY <1>1, <2>1 DEF Parts
<1>4. Len(s) + 5 <= Len(v) /\ (Len(s) + 5) + 1 = Len(s) + 6 /\ Len(v) \in Nat
  <2>1. Len(u) \in Nat
    BY <1>1
  <2> HIDE DEF v
  <2> QED BY <1>1, <1>3, <2>1
<1> HIDE DEF v
<1>5. IsStream(w, j.request)
  BY <1>2, <1>3, <1>4 DEF IsStream, s
<1> QED BY <1>1, <1>2, <1>3, <1>4, <1>5 DEF w, u, s

Joined(v, a, b) ==
    /\ Len(v) = Len(a) + Len(b)
    /\ \A i \in 1..Len(a) : v[i] = a[i]
    /\ \A i \in 1..Len(b) : v[Len(a) + i] = b[i]

LEMMA ConcatIs ==
    ASSUME NEW C, NEW a \in Seq(C), NEW b \in Seq(C)
    PROVE  a \o b \in Seq(C) /\ Joined(a \o b, a, b)
  BY DEF Joined

LEMMA SubSeqJoin ==
    ASSUME NEW C, NEW w \in Seq(C), NEW x \in 0..Len(w), NEW y \in x..Len(w), NEW z \in y..Len(w)
    PROVE  SubSeq(w, x + 1, y) \o SubSeq(w, y + 1, z) = SubSeq(w, x + 1, z)
<1> DEFINE a == SubSeq(w, x + 1, y)
           b == SubSeq(w, y + 1, z)
           c == SubSeq(w, x + 1, z)
           v == a \o b
<1>1. x \in Nat /\ y \in Nat /\ z \in Nat /\ x <= y /\ y <= z /\ y \in 0..Len(w) /\ z \in x..Len(w)
  OBVIOUS
<1>2. a \in Seq(C) /\ Len(a) = y - x /\ \A i \in 1..(y - x) : a[i] = w[x + i]
  BY <1>1, SubSeqIs
<1>3. b \in Seq(C) /\ Len(b) = z - y /\ \A i \in 1..(z - y) : b[i] = w[y + i]
  BY <1>1, SubSeqIs
<1>4. c \in Seq(C) /\ Len(c) = z - x /\ \A i \in 1..(z - x) : c[i] = w[x + i]
  BY <1>1, SubSeqIs
<1> HIDE DEF a, b, c
<1>5. /\ v \in Seq(C) /\ Len(v) = Len(a) + Len(b) /\ \A i \in 1..Len(a) : v[i] = a[i]
      /\ \A i \in 1..Len(b) : v[Len(a) + i] = b[i]
  <2>1. v \in Seq(C) /\ Joined(v, a, b)
    BY <1>2, <1>3, ConcatIs
  <2> HIDE DEF v
  <2> QED BY <2>1 DEF Joined
<1> HIDE DEF v
<1>6. ASSUME NEW i \in 1..(z - x) PROVE v[i] = c[i]
  <2>1. CASE i \in 1..(y - x)
    BY <1>2, <1>4, <1>5, <2>1
  <2>2. CASE i \notin 1..(y - x)
    <3> DEFINE d == i - (y - x)
    <3>1. d \in 1..(z - y) /\ Len(a) + d = i /\ y + d = x + i
      BY <1>1, <1>2, <2>2
    <3> HIDE DEF d
    <3>2. v[Len(a) + d] = b[d] /\ b[d] = w[y + d]
      BY <1>3, <1>5, <3>1
    <3> QED BY <1>4, <3>1, <3>2
  <2> QED BY <2>1, <2>2
<1>7. Len(v) = z - x
  BY <1>1, <1>2, <1>3, <1>5
<1>8. v = c
  BY <1>4, <1>5, <1>6, <1>7, SeqEq
<1> QED BY <1>8 DEF v, a, b, c

LEMMA SubSeqOf ==
    ASSUME NEW C, NEW w \in Seq(C), NEW S \in 0..Len(w), NEW x \in 0..(Len(w) - S), NEW y \in x..(Len(w) - S)
    PROVE  SubSeq(SubSeq(w, S + 1, Len(w)), x + 1, y) = SubSeq(w, (S + x) + 1, S + y)
<1> DEFINE N == Len(w)
           tail == SubSeq(w, S + 1, N)
           a == SubSeq(tail, x + 1, y)
           b == SubSeq(w, (S + x) + 1, S + y)
<1>1. /\ N \in Nat /\ S \in Nat /\ x \in Nat /\ y \in Nat /\ S <= N /\ x <= y /\ y <= N - S /\ N \in S..N
      /\ S + x \in 0..N /\ S + y \in (S + x)..N /\ (S + y) - (S + x) = y - x
  OBVIOUS
<1>2. tail \in Seq(C) /\ Len(tail) = N - S /\ \A i \in 1..(N - S) : tail[i] = w[S + i]
  BY <1>1, SubSeqIs
<1> HIDE DEF tail
<1>3. a \in Seq(C) /\ Len(a) = y - x /\ \A i \in 1..(y - x) : a[i] = tail[x + i]
  <2>1. x \in 0..Len(tail) /\ y \in x..Len(tail)
    BY <1>1, <1>2
  <2> QED BY <1>2, <2>1, SubSeqIs
<1>4. b \in Seq(C) /\ Len(b) = y - x /\ \A i \in 1..(y - x) : b[i] = w[(S + x) + i]
  BY <1>1, SubSeqIs
<1> HIDE DEF a, b, N
<1>5. ASSUME NEW i \in 1..(y - x) PROVE a[i] = b[i]
  <2>1. x + i \in 1..(N - S) /\ S + (x + i) = (S + x) + i
    BY <1>1
  <2> QED BY <1>2, <1>3, <1>4, <2>1
<1>6. a = b
  BY <1>3, <1>4, <1>5, SeqEq
<1> QED BY <1>6 DEF a, b, tail, N

\* buf is the part of w from p that takes n more of the bytes not read at S.
CarriedTo(C, w, S, p, unread, n, buf) ==
    /\ Len(unread) = Len(w) - S
    /\ buf \in Seq(C) /\ p + Len(buf) = S + n /\ S + n <= Len(w)
    /\ \A i \in 1..Len(buf) : buf[i] = w[p + i]
    /\ SubSeq(unread, n + 1, Len(unread)) = SubSeq(w, (S + n) + 1, Len(w))
    /\ Len(SubSeq(unread, n + 1, Len(unread))) = Len(unread) - n

\* The bytes carried over and the next n of the network are a block of the stream.
LEMMA Carried ==
    ASSUME NEW C, NEW w \in Seq(C), NEW S \in 0..Len(w), NEW p \in 0..S,
           NEW unread, unread = SubSeq(w, S + 1, Len(w)), NEW n \in 0..Len(unread),
           NEW buf, buf = SubSeq(w, p + 1, S) \o SubSeq(unread, 1, n)
    PROVE  CarriedTo(C, w, S, p, unread, n, buf)
<1> DEFINE N == Len(w)
<1>1. N \in Nat /\ S \in Nat /\ p \in Nat /\ S <= N /\ p <= S /\ N \in S..N
  OBVIOUS
<1>2. unread \in Seq(C) /\ Len(unread) = N - S
  BY <1>1, SubSeqIs
<1>3. n \in Nat /\ n <= N - S /\ 0 \in 0..(N - S) /\ n \in 0..(N - S) /\ N - S \in n..(N - S)
  BY <1>1, <1>2
<1>4. SubSeq(unread, 0 + 1, n) = SubSeq(w, (S + 0) + 1, S + n)
  BY <1>3, SubSeqOf
<1>5. SubSeq(unread, n + 1, N - S) = SubSeq(w, (S + n) + 1, S + (N - S))
  BY <1>3, SubSeqOf
<1>6. 0 + 1 = 1 /\ S + 0 = S /\ S + (N - S) = N
  BY <1>1
<1>7. p \in 0..N /\ S \in p..N /\ S + n \in S..N /\ S + n \in p..N /\ S + n \in 0..N
  BY <1>1, <1>3
<1>8. buf = SubSeq(w, p + 1, S + n)
  <2>1. SubSeq(w, p + 1, S) \o SubSeq(w, S + 1, S + n) = SubSeq(w, p + 1, S + n)
    BY <1>7, SubSeqJoin
  <2> QED BY <1>4, <1>6, <2>1
<1>9. buf \in Seq(C) /\ Len(buf) = (S + n) - p /\ \A i \in 1..((S + n) - p) : buf[i] = w[p + i]
  BY <1>7, <1>8, SubSeqIs, ZenonT(40)
<1>10. Len(SubSeq(w, (S + n) + 1, N)) = N - (S + n)
  <2>1. N \in (S + n)..N
    BY <1>1, <1>3
  <2> QED BY <1>7, <2>1, SubSeqIs
<1>11. p + ((S + n) - p) = S + n /\ S + n <= N /\ N - (S + n) = (N - S) - n
  BY <1>1, <1>3
<1> HIDE DEF N
<1> QED BY <1>2, <1>5, <1>6, <1>9, <1>10, <1>11 DEF N, CarriedTo

LEMMA BlockEmptied ==
    ASSUME NEW C, NEW blk \in Blocks(C)
    PROVE  /\ [blk EXCEPT !.eodcharbuf = <<>>] \in Blocks(C)
           /\ [blk EXCEPT !.eodcharbuf = <<>>].gotEoD = blk.gotEoD
           /\ [blk EXCEPT !.eodcharbuf = <<>>].eodcharbuf = <<>>
<1>1. <<>> \in Seq(C)
  OBVIOUS
<1> QED BY <1>1 DEF Blocks

LEMMA Ranges ==
    ASSUME NEW e \in Nat, NEW x \in Nat, NEW n \in Nat, e + 5 <= x, x <= n
    PROVE  e + 5 \in 0..n /\ x \in (e + 5)..n /\ n \in x..n /\ (e + 5) + 1 = e + 6
  OBVIOUS

LEMMA ReadRanges ==
    ASSUME NEW N, NEW S, NEW e, NEW p, NEW n, NEW m, N \in Nat, e \in Nat, m \in Nat,
           S \in 0..N, p \in 0..e, p <= S, n \in 1..m
    PROVE  S \in Nat /\ p \in Nat /\ p \in 0..S /\ n \in 0..m
  OBVIOUS

\* The block read next continues the reading or ends it.
LEMMA ReceiveBlock ==
    ASSUME NEW j \in Exchange, NEW S \in 0..Len(Stream(j)),
           NEW unread, unread = SubSeq(Stream(j), S + 1, Len(Stream(j))), NEW n \in 1..Len(unread),
           NEW inb \in Blocks(Chars), inb.gotEoD = FALSE, NEW data, Continues(j, S, inb, data),
           NEW r, r = GetEoD([inb EXCEPT !.eodcharbuf = <<>>], inb.eodcharbuf \o SubSeq(unread, 1, n))
    PROVE  /\ r.blk \in Blocks(Chars) /\ r.eod \in Nat
           /\ Received(j, S + n, r, data, SubSeq(unread, n + 1, Len(unread)))
<1> DEFINE w == Stream(j)
           N == Len(w)
           e == DataLen(j)
           blk == [inb EXCEPT !.eodcharbuf = <<>>]
           buf == inb.eodcharbuf \o SubSeq(unread, 1, n)
           left == SubSeq(unread, n + 1, Len(unread))
           found == SubSeq(r.blk.buf, 1, r.eod)
<1>1. /\ w \in Seq(Chars) /\ N \in Nat /\ e \in Nat /\ e + 5 <= N /\ IsStream(w, j.request)
      /\ SubSeq(w, e + 6, N) = j.rest
  BY StreamFacts
<1>2. j.request \in Seq(Chars) /\ {CR, LF, DOT} \subseteq Chars
  BY ExchangeType
<1>3. PICK p \in 0..e : ReadTo(w, p, S, inb) /\ Found(w)[p] = data
  BY DEF Continues
<1>4. e = Len(Escaped(j.request))
  BY DEF DataLen
<1>5. /\ Sync(w, p) /\ p <= S /\ inb.eodcharbuf = SubSeq(w, p + 1, S)
  BY <1>3 DEF ReadTo
<1>6. blk \in Blocks(Chars) /\ blk.gotEoD = FALSE /\ blk.eodcharbuf = <<>>
  BY BlockEmptied
<1>7. unread = SubSeq(w, S + 1, N) /\ S \in 0..N /\ r = GetEoD(blk, buf)
  OBVIOUS
<1> HIDE DEF w, N, e, blk
<1>8. S \in Nat /\ p \in Nat /\ p \in 0..S /\ n \in 0..Len(unread)
  <2>1. unread \in Seq(Chars)
    <3>1. S \in 0..Len(w) /\ Len(w) \in S..Len(w)
      BY <1>1, <1>7 DEF N
    <3> QED BY <1>1, <1>7, <3>1, SubSeqIs DEF N
  <2>2. Len(unread) \in Nat
    BY ONLY <2>1
  <2>3. p \in 0..e /\ n \in 1..Len(unread)
    OBVIOUS
  <2>4. N \in Nat /\ e \in Nat /\ S \in 0..N /\ p <= S
    BY <1>1, <1>5, <1>7
  <2> QED BY ONLY <2>2, <2>3, <2>4, ReadRanges
<1>9. /\ Len(unread) = N - S
      /\ buf \in Seq(Chars) /\ p + Len(buf) = S + n /\ S + n <= N
      /\ \A i \in 1..Len(buf) : buf[i] = w[p + i]
      /\ left = SubSeq(w, (S + n) + 1, N)
  <2>1. S \in 0..Len(w) /\ unread = SubSeq(w, S + 1, Len(w))
    BY <1>7 DEF N
  <2>2. buf = SubSeq(w, p + 1, S) \o SubSeq(unread, 1, n)
    BY <1>5
  <2> HIDE DEF buf
  <2>3. CarriedTo(Chars, w, S, p, unread, n, buf)
    BY <1>1, <1>8, <2>1, <2>2, Carried
  <2> QED BY <2>3, Zenon DEF N, CarriedTo
<1> HIDE DEF buf, left
<1>10. IsBlock(buf, w, p)
  <2>1. Len(buf) \in Nat /\ Len(buf) >= 1
    <3>1. Len(buf) \in Nat
      BY <1>9
    <3> QED BY <1>5, <1>8, <1>9, <3>1
  <2>2. p + Len(buf) <= Len(w)
    BY <1>9 DEF N
  <2> QED BY <1>5, <1>9, <2>1, <2>2 DEF IsBlock
<1> DEFINE X == S + n
<1>x. X \in Nat /\ X <= N /\ X = p + Len(buf)
  BY <1>8, <1>9, SMTT(30)
<1> HIDE DEF X
<1>11. CASE e + 5 <= X
  <2>1. FindsEnd(Chars, w, e, p, X, blk, buf, r, j.request)
    BY <1>1, <1>2, <1>4, <1>6, <1>7, <1>9, <1>10, <1>11, <1>x, LastBlock
  <2>2. data \o found = j.request /\ r.blk \in Blocks(Chars) /\ r.eod \in Nat /\ r.blk.gotEoD = TRUE
    BY <1>3, <2>1 DEF FindsEnd
  <2>3. SubSeq(w, e + 6, X) \o left = j.rest
    <3>1. e + 5 \in 0..Len(w) /\ X \in (e + 5)..Len(w) /\ Len(w) \in X..Len(w) /\ (e + 5) + 1 = e + 6
      <4>1. e + 5 \in 0..N /\ X \in (e + 5)..N /\ N \in X..N /\ (e + 5) + 1 = e + 6
        <5>1. e \in Nat /\ X \in Nat /\ N \in Nat /\ e + 5 <= X /\ X <= N
          BY <1>1, <1>11, <1>x
        <5> QED BY <5>1, Ranges
      <4> QED BY <4>1 DEF N
    <3>2. SubSeq(w, (e + 5) + 1, X) \o SubSeq(w, X + 1, Len(w)) = SubSeq(w, (e + 5) + 1, Len(w))
      BY <1>1, <3>1, SubSeqJoin
    <3>3. left = SubSeq(w, X + 1, N)
      BY <1>9 DEF X
    <3> QED BY <1>1, <3>1, <3>2, <3>3 DEF N
  <2>4. Leaves(j, r.blk, r.blk.nextpos, left)
    <3>1. SubSeq(r.blk.buf, r.blk.nextpos + 1, r.blk.pos) = SubSeq(w, e + 6, X)
      BY <2>1 DEF FindsEnd
    <3>2. SubSeq(w, e + 6, X) \in Seq(Chars)
      <4>1. e + 5 \in 0..Len(w) /\ X \in (e + 5)..Len(w) /\ (e + 5) + 1 = e + 6
        <5>1. e \in Nat /\ X \in Nat /\ N \in Nat /\ e + 5 <= X /\ X <= N
          BY <1>1, <1>11, <1>x
        <5> QED BY <5>1, Ranges DEF N
      <4>2. SubSeq(w, (e + 5) + 1, X) \in Seq(Chars)
        BY <1>1, <4>1, SubSeqIs
      <4> QED BY <4>1, <4>2
    <3> QED BY <2>3, <3>1, <3>2 DEF Leaves
  <2> QED BY <2>2, <2>4 DEF Received, left
<1>12. CASE ~(e + 5 <= X)
  <2>1. FindsMore(Chars, w, e, p, X, blk, buf, r, j.request)
    <3>1. X < e + 5
      BY <1>1, <1>12, <1>x, SMTT(30)
    <3> QED BY <1>1, <1>2, <1>4, <1>6, <1>7, <1>9, <1>10, <1>x, <3>1, MiddleBlock
  <2>2. PICK o \in p..e : ReadTo(w, o, X, r.blk) /\ Found(w)[o] = Found(w)[p] \o found
    BY <2>1 DEF FindsMore
  <2>3. o \in 0..e
    BY <1>1, <1>8
  <2>4. Continues(j, X, r.blk, data \o found)
    BY <1>3, <2>2, <2>3 DEF Continues, w, e
  <2>5. r.blk \in Blocks(Chars) /\ r.eod \in Nat /\ r.blk.gotEoD = FALSE
    BY <1>6, <2>1 DEF FindsMore
  <2> QED BY <2>4, <2>5 DEF Received, X
<1> QED BY <1>11, <1>12

\* The data found so far is a beginning of the request.
LEMMA ContinuesPrefix ==
    ASSUME NEW j \in Exchange, NEW S, NEW blk, NEW data, Continues(j, S, blk, data)
    PROVE  data \in Seq(Chars) /\ IsPrefix(data, j.request)
<1> DEFINE w == Stream(j)
           e == DataLen(j)
           q == j.request
<1>1. PICK p \in 0..e : Found(w)[p] = data
  BY DEF Continues
<1>2. /\ w \in Seq(Chars) /\ IsStream(w, q) /\ q \in Seq(Chars) /\ {CR, LF, DOT} \subseteq Chars
      /\ e = Len(Escaped(q))
  BY StreamFacts, ExchangeType DEF DataLen
<1> HIDE DEF w, e, q
<1>3. \A i \in 0..Len(Escaped(q)) : \E m \in 0..Len(q) : Found(w)[i] = SubSeq(q, 1, m)
  BY <1>2, StreamData
<1>4. PICK m \in 0..Len(q) : data = SubSeq(q, 1, m)
  BY <1>1, <1>2, <1>3
<1>5. data \in Seq(Chars) /\ Len(data) = m /\ m \in Nat /\ m <= Len(q)
  BY <1>2, <1>4
<1>6. SubSeq(data, 1, Len(data)) = data
  BY <1>5
<1>7. IsPrefix(data, q)
  BY <1>4, <1>5, <1>6 DEF IsPrefix
<1> QED BY <1>5, <1>7 DEF q

LEMMA StartContinues ==
    ASSUME NEW j \in Exchange
    PROVE  EmptyBlock \in Blocks(Chars) /\ Continues(j, 0, EmptyBlock, <<>>)
<1> DEFINE w == Stream(j)
<1>1. w \in Seq(Chars) /\ DataLen(j) \in Nat
  BY StreamFacts
<1>2. <<>> \in Seq(Chars)
  OBVIOUS
<1>3. EmptyBlock \in Blocks(Chars) /\ EmptyBlock.eodcharbuf = <<>>
  BY <1>2 DEF EmptyBlock, Blocks
<1> HIDE DEF w
<1>4. EoDStates(w)[0] = "SRC" /\ Found(w)[0] = <<>>
  BY <1>1, EoDStatesDef, KeptToDef DEF Found
<1>5. SubSeq(w, 0 + 1, 0) = <<>>
  BY <1>1
<1>6. ReadTo(w, 0, 0, EmptyBlock)
  BY <1>3, <1>4, <1>5 DEF ReadTo, Sync
<1>7. 0 \in 0..DataLen(j)
  BY <1>1
<1> QED BY <1>3, <1>4, <1>6, <1>7 DEF Continues, w

LEMMA PrefixOfItself ==
    ASSUME NEW s \in Seq(Chars)
    PROVE  IsPrefix(s, s)
  BY DEF IsPrefix

-----------------------------------------------------------------------------
(* Input *)

\* consumeInput() of a block that continues the reading or ends it.
LEMMA ConsumeStep ==
    ASSUME job \in Exchange, InputType, RequestExact, ~told, ~m_gotEoD,
           NEW r, r.blk \in Blocks(Chars), r.eod \in Nat, NEW st, Consume(r.blk, r.eod, st),
           job' = job, cmdh' = cmdh, m_state' # "DiscardInput" => st # "DiscardInput",
           NEW data, cmdh # "none" /\ st # "DiscardInput" => data = taken,
           NEW u, Received(job, ReadLen(u), r, data, u)
    PROVE  InputType' /\ InputInv(u)' /\ RequestExact' /\ ~m_unconsumedInput'
<1> DEFINE given_ == cmdh # "none" /\ st # "DiscardInput"
           found == SubSeq(r.blk.buf, 1, r.eod)
           S == ReadLen(u)
<1>1. job.request \in Seq(Chars)
  BY ExchangeType
<1>s. ReadLen(u)' = S
  BY DEF ReadLen
<1>2. /\ m_unconsumedInput' = FALSE /\ m_eoD' = r.eod
      /\ given_ => taken' = taken \o found /\ told' = (told \/ r.blk.gotEoD)
      /\ ~given_ => taken' = taken /\ told' = told
  BY DEF Consume
<1>3. Handing' => given_
  BY DEF Handing
<1>4. r.blk.buf \in Seq(Chars) /\ r.blk.gotEoD \in BOOLEAN /\ r.blk.nextpos \in Nat
  BY DEF Blocks
<1>5. taken \in Seq(Chars) /\ told = FALSE /\ m_gotEoD = FALSE
  BY DEF InputType
<1>6. CASE r.blk.gotEoD
  <2>1. m_gotEoD' = TRUE /\ m_nextmsg' = r.blk.nextpos /\ m_input' = [r.blk EXCEPT !.gotEoD = FALSE]
    BY <1>6 DEF Consume
  <2>2. /\ m_input' \in Blocks(Chars) /\ m_input'.gotEoD = FALSE /\ m_input'.buf = r.blk.buf
        /\ m_input'.pos = r.blk.pos
    BY <2>1 DEF Blocks
  <2>3. data \o found = job.request /\ Leaves(job, r.blk, r.blk.nextpos, u)
    BY <1>6 DEF Received
  <2>4. Leaves(job', m_input', m_nextmsg', u)
    BY <2>1, <2>2, <2>3 DEF Leaves
  <2>5. CASE given_
    <3>1. taken' = job.request /\ told' = TRUE
      BY <1>2, <1>6, <2>3, <2>5
    <3>2. IsPrefix(taken', job'.request)
      BY <1>1, <3>1, PrefixOfItself
    <3>3. RequestExact'
      BY <3>1, <3>2 DEF RequestExact
    <3>4. InputInv(u)'
      BY <1>2, <2>1, <2>2, <2>4 DEF InputInv
    <3>5. InputType'
      BY <1>1, <1>2, <1>4, <2>1, <2>2, <3>1 DEF InputType
    <3> QED BY <1>2, <3>3, <3>4, <3>5
  <2>6. CASE ~given_
    <3>1. taken' = taken /\ told' = told
      BY <1>2, <2>6
    <3>2. RequestExact'
      BY <3>1 DEF RequestExact
    <3>3. InputInv(u)'
      BY <1>2, <2>1, <2>2, <2>4 DEF InputInv
    <3>4. InputType'
      BY <1>2, <1>4, <1>5, <2>1, <2>2, <3>1 DEF InputType
    <3> QED BY <1>2, <3>2, <3>3, <3>4
  <2> QED BY <2>5, <2>6
<1>7. CASE ~r.blk.gotEoD
  <2>1. m_gotEoD' = m_gotEoD /\ m_nextmsg' = r.eod /\ m_input' = r.blk
    BY <1>7 DEF Consume
  <2>2. Continues(job, S, r.blk, data \o found)
    BY <1>7 DEF Received
  <2>3. data \o found \in Seq(Chars) /\ IsPrefix(data \o found, job.request)
    BY <2>2, ContinuesPrefix
  <2>4. Resumes(job, S, r.blk)
    BY <2>2 DEF Continues, Resumes
  <2>5. CASE given_
    <3>1. taken' = data \o found /\ told' = FALSE
      BY <1>2, <1>5, <1>7, <2>5
    <3>2. RequestExact'
      BY <2>3, <3>1 DEF RequestExact
    <3>3. InputInv(u)'
      BY <1>2, <1>5, <1>7, <1>s, <2>1, <2>2, <2>4, <3>1 DEF InputInv
    <3>4. InputType'
      BY <1>2, <1>5, <2>1, <2>3, <3>1 DEF InputType
    <3> QED BY <1>2, <3>2, <3>3, <3>4
  <2>6. CASE ~given_
    <3>1. taken' = taken /\ told' = FALSE
      BY <1>2, <1>5, <2>6
    <3>2. RequestExact'
      BY <1>5, <3>1 DEF RequestExact
    <3>3. InputInv(u)'
      BY <1>2, <1>3, <1>5, <1>7, <1>s, <2>1, <2>4, <2>6, <3>1 DEF InputInv
    <3>4. InputType'
      BY <1>2, <1>5, <2>1, <3>1 DEF InputType
    <3> QED BY <1>2, <3>2, <3>3, <3>4
  <2> QED BY <2>5, <2>6
<1> QED BY <1>4, <1>6, <1>7

\* The rest of the stream, when n more bytes are read.
LEMMA NetStep ==
    ASSUME job \in Exchange, NEW v \in Seq(Chars), NetInv(v),
           NEW n \in 0..Len(v), NEW u, u = SubSeq(v, n + 1, Len(v))
    PROVE  /\ NetInv(u) /\ u \in Seq(Chars)
           /\ ReadLen(v) \in 0..Len(Stream(job)) /\ ReadLen(u) = ReadLen(v) + n
           /\ v = SubSeq(Stream(job), ReadLen(v) + 1, Len(Stream(job)))
           /\ Len(u) = Len(v) - n
<1> DEFINE w == Stream(job)
           N == Len(w)
           S == ReadLen(v)
           buf == SubSeq(w, S + 1, S) \o SubSeq(v, 1, n)
<1>1. w \in Seq(Chars) /\ N \in Nat
  BY StreamFacts
<1>2. v = SubSeq(w, S + 1, N) /\ Len(v) <= N /\ S = N - Len(v)
  BY DEF NetInv, ReadLen
<1>3. n \in Nat /\ n <= Len(v) /\ Len(v) \in Nat
  OBVIOUS
<1>4. S \in 0..N /\ S \in 0..S
  BY <1>1, <1>2, <1>3
<1>5. ReadLen(u) = N - Len(u)
  BY DEF ReadLen
<1>6. Len(v) \in n..Len(v) /\ n \in 0..Len(v)
  BY <1>3
<1>7. u \in Seq(Chars)
  BY <1>6, SubSeqIs
<1> HIDE DEF w, S
<1>8. CarriedTo(Chars, w, S, S, v, n, buf)
  <2> HIDE DEF buf
  <2>1. buf = SubSeq(w, S + 1, S) \o SubSeq(v, 1, n) /\ v = SubSeq(w, S + 1, Len(w)) /\ S \in 0..Len(w)
    BY <1>2, <1>4 DEF buf
  <2> QED BY <1>1, <1>4, <2>1, Carried
<1> HIDE DEF buf
<1>9. u = SubSeq(w, (S + n) + 1, N) /\ Len(u) = Len(v) - n
  BY <1>8 DEF CarriedTo
<1> HIDE DEF N
<1>10. N - Len(u) = S + n /\ Len(u) <= N
  BY <1>1, <1>2, <1>3, <1>4, <1>9
<1>11. u = SubSeq(w, ReadLen(u) + 1, Len(w)) /\ Len(u) <= Len(w)
  BY <1>5, <1>9, <1>10 DEF N
<1>12. NetInv(u)
  BY <1>5, <1>11 DEF NetInv, w
<1> QED BY <1>2, <1>4, <1>5, <1>7, <1>9, <1>10, <1>12 DEF w, N, S

-----------------------------------------------------------------------------
(* What a step leaves alone *)

LEMMA InputSame ==
    ASSUME NEW u, InputType, InputInv(u), RequestExact, UNCHANGED <<job, inputVars>>,
           Handing' => Handing \/ m_gotEoD
    PROVE  InputType' /\ InputInv(u)' /\ RequestExact'
<1>1. /\ job' = job /\ m_input' = m_input /\ m_eoD' = m_eoD /\ m_nextmsg' = m_nextmsg
      /\ m_unconsumedInput' = m_unconsumedInput /\ m_gotEoD' = m_gotEoD /\ taken' = taken /\ told' = told
  BY DEF inputVars
<1>2. ReadLen(u)' = ReadLen(u)
  BY <1>1 DEF ReadLen
<1> QED BY <1>1, <1>2 DEF InputType, InputInv, RequestExact

LEMMA NetSame ==
    ASSUME NEW u, NetInv(u), job' = job
    PROVE  NetInv(u)'
  BY DEF NetInv, ReadLen

LEMMA OutputSame ==
    ASSUME NEW x, OutputInv(x), UNCHANGED <<job, m_esc_stm, given, m_writedata>>,
           m_state' = "Terminated" <=> m_state = "Terminated", m_state' # "FlushingOutput" => m_esc_stm.blk = <<>>
    PROVE  OutputInv(x)'
  BY DEF OutputInv

-----------------------------------------------------------------------------
(* putInput() *)

\* A block without a byte leaves everything as it is.
LEMMA ReceivedNothing ==
    ASSUME NEW j \in Exchange, NEW S, NEW blk \in Blocks(Chars), blk.gotEoD = FALSE, NEW data,
           Continues(j, S, blk, data), NEW unread, NEW r, r = GetEoD(blk, <<>>)
    PROVE  r.blk \in Blocks(Chars) /\ r.eod \in Nat /\ Received(j, S, r, data, unread)
<1>1. r.blk = [blk EXCEPT !.buf = <<>>, !.pos = 0] /\ r.eod = 0
  BY DEF GetEoD
<1>2. <<>> \in Seq(Chars)
  OBVIOUS
<1>3. /\ r.blk \in Blocks(Chars) /\ r.eod \in Nat /\ r.blk.gotEoD = FALSE /\ r.blk.buf = <<>>
      /\ r.blk.eodcharbuf = blk.eodcharbuf
  <2> DEFINE b == [blk EXCEPT !.buf = <<>>, !.pos = 0]
  <2>1. b \in Blocks(Chars) /\ b.gotEoD = blk.gotEoD /\ b.buf = <<>> /\ b.eodcharbuf = blk.eodcharbuf
    BY <1>2 DEF Blocks
  <2>2. r.blk = b
    BY <1>1
  <2> HIDE DEF b
  <2> QED BY <1>1, <2>1, <2>2
<1>4. data \in Seq(Chars)
  BY ContinuesPrefix
<1>5. data \o SubSeq(r.blk.buf, 1, r.eod) = data
  <2>1. SubSeq(r.blk.buf, 1, r.eod) = <<>>
    BY <1>1, <1>3
  <2>2. data \o <<>> = data
    BY <1>4
  <2> QED BY <2>1, <2>2, Zenon
<1>6. Continues(j, S, r.blk, data)
  BY <1>3 DEF Continues, ReadTo
<1>7. Continues(j, S, r.blk, data \o SubSeq(r.blk.buf, 1, r.eod))
  BY <1>5, <1>6, Zenon
<1> QED BY <1>3, <1>7 DEF Received

\* What the next n bytes of v make of the block. A block that gets no byte may not
\* hold a part of a marker.
LEMMA ReceivedNext ==
    ASSUME job \in Exchange, NEW blk \in Blocks(Chars), blk.gotEoD = FALSE,
           NEW v \in Seq(Chars), NetInv(v), NEW data, Continues(job, ReadLen(v), blk, data),
           NEW n \in 0..Len(v), NEW u, u = SubSeq(v, n + 1, Len(v)), n = 0 => blk.eodcharbuf = <<>>,
           NEW r, r = GetEoD([blk EXCEPT !.eodcharbuf = <<>>], blk.eodcharbuf \o SubSeq(v, 1, n))
    PROVE  r.blk \in Blocks(Chars) /\ r.eod \in Nat /\ Received(job, ReadLen(u), r, data, u)
<1>1. Len(v) \in Nat /\ n \in Nat /\ (n # 0 => n \in 1..Len(v))
  OBVIOUS
<1>2. /\ ReadLen(v) \in 0..Len(Stream(job)) /\ ReadLen(u) = ReadLen(v) + n
      /\ v = SubSeq(Stream(job), ReadLen(v) + 1, Len(Stream(job)))
  BY NetStep
<1>3. CASE n # 0
  <2>1. n \in 1..Len(v)
    BY <1>1, <1>3
  <2> QED BY <1>2, <2>1, ReceiveBlock
<1>4. CASE n = 0
  <2>1. SubSeq(v, 1, n) = <<>>
    BY <1>4
  <2>2. blk.eodcharbuf = <<>>
    BY <1>4
  <2>3. blk.eodcharbuf \o SubSeq(v, 1, n) = <<>>
    <3>1. <<>> \o <<>> = <<>>
      OBVIOUS
    <3> QED BY <2>1, <2>2, <3>1, Zenon
  <2>4. [blk EXCEPT !.eodcharbuf = <<>>] = blk
    BY <2>2 DEF Blocks
  <2>5. r = GetEoD(blk, <<>>)
    BY <2>3, <2>4, Zenon
  <2>6. ReadLen(u) = ReadLen(v)
    <3>1. ReadLen(v) \in Nat
      BY <1>2, StreamFacts
    <3> QED BY <1>2, <1>4, <3>1
  <2>7. Received(job, ReadLen(v), r, data, u) /\ r.blk \in Blocks(Chars) /\ r.eod \in Nat
    BY <2>5, ReceivedNothing
  <2> QED BY <2>6, <2>7
<1> QED BY <1>3, <1>4

\* The state has what putInput() needs: the handler waits for input.
Waits(v) ==
    /\ ~m_unconsumedInput /\ ~m_gotEoD /\ ~told /\ m_input.gotEoD = FALSE /\ m_writedata = <<>>
    /\ m_state \in {"StartProcessing", "Processing", "DiscardInput"}
    /\ m_state = "StartProcessing" => taken = <<>> /\ Continues(job, ReadLen(v), m_input, <<>>)
    /\ Resumes(job, ReadLen(v), m_input)
    /\ Handing => Continues(job, ReadLen(v), m_input, taken)

LEMMA WaitsAtRead ==
    ASSUME NEW o \in {"START", "READ"}, NEW x, NEW v, PhaseInv(o, x, v)
    PROVE  Waits(v)
<1>1. /\ PhaseType(o, x, v) /\ NetInv(v) /\ OpInv(o, v) /\ InputInv(v)
      /\ InputType /\ job \in Exchange /\ v \in Seq(Chars) /\ m_input.gotEoD \in BOOLEAN
  BY DEF PhaseInv, PhaseType, OtherType, InputType, Blocks
<1>2. m_state = "StartProcessing" => taken = <<>> /\ Continues(job, ReadLen(v), m_input, <<>>)
  <2> SUFFICES ASSUME m_state = "StartProcessing"
               PROVE  taken = <<>> /\ Continues(job, ReadLen(v), m_input, <<>>)
    OBVIOUS
  <2>1. m_input = EmptyBlock /\ taken = <<>> /\ Len(v) = Len(Stream(job))
    BY <1>1 DEF OpInv
  <2>2. ReadLen(v) = 0
    BY <1>1, <2>1, StreamFacts DEF ReadLen
  <2> QED BY <1>1, <2>1, <2>2, StartContinues
<1>3. m_writedata = <<>> /\ m_state \in {"StartProcessing", "Processing", "DiscardInput"}
  BY <1>1 DEF OpInv
<1> QED BY <1>1, <1>2, <1>3 DEF OpInv, InputInv, Waits

\* putInput() of a block that continues the reading or ends it, and after which u is
\* not read.
LEMMA PutInputInv ==
    ASSUME NEW o, NEW x, NEW v, PhaseInv(o, x, v), Waits(v),
           NEW blk, NEW buf, PutInput(blk, buf), NEW r, r = GetEoD(blk, buf),
           NEW u \in Seq(Chars), NetInv(u),
           \A data : Continues(job, ReadLen(v), m_input, data)
                      => r.blk \in Blocks(Chars) /\ r.eod \in Nat /\ Received(job, ReadLen(u), r, data, u),
           UNCHANGED <<job, m_state, m_esc_stm, m_writedata, given, cmdh>>
    PROVE  PhaseInv("none", x, u)'
<1>1. UNCHANGED job /\ UNCHANGED <<m_state, m_esc_stm, m_writedata, given, cmdh>>
  OBVIOUS
<1>2. /\ PhaseType(o, x, v) /\ OpInv(o, v) /\ InputInv(v) /\ RequestExact /\ OutputInv(x)
      /\ OtherType(o, x, v) /\ InputType /\ job \in Exchange
  BY DEF PhaseInv, PhaseType, OtherType
<1>3. /\ ~m_unconsumedInput /\ ~m_gotEoD /\ ~told /\ m_writedata = <<>>
      /\ m_state \in {"StartProcessing", "Processing", "DiscardInput"}
  BY DEF Waits
<1>4. NetInv(u)'
  BY <1>1, NetSame
<1>5. OutputInv(x)'
  <2>1. m_state' # "FlushingOutput" => m_esc_stm.blk = <<>>
    BY <1>1, <1>2 DEF OutputInv
  <2> QED BY <1>1, <1>2, <2>1, OutputSame
<1>6. OtherType("none", x, u)'
  BY <1>1, <1>2 DEF OtherType
<1>7. InputType' /\ InputInv(u)' /\ RequestExact'
  <2>1. CASE m_state = "StartProcessing"
    <3>1. taken = <<>> /\ Continues(job, ReadLen(v), m_input, <<>>)
      BY <2>1 DEF Waits
    <3>2. r.blk \in Blocks(Chars) /\ r.eod \in Nat /\ Received(job, ReadLen(u), r, <<>>, u)
      BY <3>1
    <3>3. /\ m_input' = r.blk /\ m_eoD' = r.eod /\ m_nextmsg' = r.eod /\ m_unconsumedInput' = TRUE
          /\ UNCHANGED <<m_gotEoD, taken, told>>
      BY <2>1 DEF PutInput
    <3>4. r.blk = [blk |-> m_input', eod |-> m_eoD'].blk /\ r.eod = [blk |-> m_input', eod |-> m_eoD'].eod
      BY <3>3
    <3>5. Received(job, ReadLen(u), [blk |-> m_input', eod |-> m_eoD'], <<>>, u)
      BY <3>2, <3>4 DEF Received
    <3>6. ReadLen(u)' = ReadLen(u)
      BY <1>1 DEF ReadLen
    <3>7. InputInv(u)'
      BY <1>1, <1>3, <3>1, <3>3, <3>5, <3>6 DEF InputInv
    <3>8. InputType' /\ RequestExact'
      BY <1>1, <1>2, <3>2, <3>3 DEF InputType, RequestExact
    <3> QED BY <3>7, <3>8
  <2>2. CASE m_state # "StartProcessing"
    <3>1. PICK data : Continues(job, ReadLen(v), m_input, data) /\ (Handing => data = taken)
      <4>1. CASE Handing
        BY <4>1 DEF Waits
      <4>2. CASE ~Handing
        BY <4>2 DEF Waits, Resumes, Continues
      <4> QED BY <4>1, <4>2
    <3>2. r.blk \in Blocks(Chars) /\ r.eod \in Nat /\ Received(job, ReadLen(u), r, data, u)
      BY <3>1
    <3>3. Consume(r.blk, r.eod, m_state)
      BY <2>2 DEF PutInput
    <3>4. cmdh # "none" /\ m_state # "DiscardInput" => data = taken
      BY <3>1 DEF Handing
    <3>5. m_state' # "DiscardInput" => m_state # "DiscardInput"
      BY <1>1
    <3> QED BY <1>1, <1>2, <1>3, <3>2, <3>3, <3>4, <3>5, ConsumeStep
  <2> QED BY <2>1, <2>2
<1>8. OpInv("none", u)'
  BY <1>1, <1>3 DEF OpInv
<1> QED BY <1>4, <1>5, <1>6, <1>7, <1>8 DEF PhaseInv, PhaseType

\* putInput() of the bytes the last block has kept and of the next n of v.
LEMMA PutNextInv ==
    ASSUME NEW o \in {"START", "READ"}, NEW x, NEW v, PhaseInv(o, x, v),
           NEW n \in 0..Len(v), n = 0 => m_input.eodcharbuf = <<>>, NEW u, u = SubSeq(v, n + 1, Len(v)),
           PutInput([m_input EXCEPT !.eodcharbuf = <<>>], m_input.eodcharbuf \o SubSeq(v, 1, n)),
           UNCHANGED <<job, m_state, m_esc_stm, m_writedata, given, cmdh>>
    PROVE  PhaseInv("none", x, u)'
<1> DEFINE blk == [m_input EXCEPT !.eodcharbuf = <<>>]
           buf == m_input.eodcharbuf \o SubSeq(v, 1, n)
           r == GetEoD(blk, buf)
<1>1. Waits(v)
  BY WaitsAtRead
<1>2. job \in Exchange /\ v \in Seq(Chars) /\ NetInv(v) /\ m_input \in Blocks(Chars) /\ m_input.gotEoD = FALSE
  BY <1>1 DEF PhaseInv, PhaseType, OtherType, InputType, Waits
<1>3. u \in Seq(Chars) /\ NetInv(u)
  BY <1>2, NetStep
<1>4. \A data : Continues(job, ReadLen(v), m_input, data)
                  => r.blk \in Blocks(Chars) /\ r.eod \in Nat /\ Received(job, ReadLen(u), r, data, u)
  <2> SUFFICES ASSUME NEW data, Continues(job, ReadLen(v), m_input, data)
               PROVE  r.blk \in Blocks(Chars) /\ r.eod \in Nat /\ Received(job, ReadLen(u), r, data, u)
    OBVIOUS
  <2> HIDE DEF r
  <2>1. r = GetEoD([m_input EXCEPT !.eodcharbuf = <<>>], m_input.eodcharbuf \o SubSeq(v, 1, n))
    BY DEF r
  <2> QED BY <1>2, <2>1, ReceivedNext
<1>5. PutInput(blk, buf)
  OBVIOUS
<1> HIDE DEF r, blk, buf
<1>6. r = GetEoD(blk, buf)
  BY DEF r
<1> QED BY <1>1, <1>3, <1>4, <1>5, <1>6, PutInputInv

\* putInput() of no byte at all, of a handler that waits for input.
LEMMA PutNothingInv ==
    ASSUME NEW x, NEW u, PhaseInv("none", x, u), ~m_unconsumedInput, ~m_gotEoD,
           m_state \in {"Processing", "DiscardInput"}, PutInput(m_input, <<>>),
           UNCHANGED <<job, m_state, m_esc_stm, m_writedata, given, cmdh>>
    PROVE  /\ PhaseInv("none", x, u)' /\ m_input'.buf = <<>>
           /\ ~m_unconsumedInput' /\ ~m_gotEoD'
<1> DEFINE r == GetEoD(m_input, <<>>)
<1>1. /\ PhaseType("none", x, u) /\ OpInv("none", u) /\ InputInv(u) /\ NetInv(u)
      /\ InputType /\ job \in Exchange /\ u \in Seq(Chars) /\ m_input \in Blocks(Chars)
  BY DEF PhaseInv, PhaseType, OtherType, InputType
<1>2. m_input.gotEoD = FALSE /\ m_writedata = <<>>
  BY <1>1 DEF InputInv, Blocks, OpInv
<1>3. Waits(u)
  BY <1>1, <1>2 DEF Waits, InputInv
<1>4. \A data : Continues(job, ReadLen(u), m_input, data)
                  => r.blk \in Blocks(Chars) /\ r.eod \in Nat /\ Received(job, ReadLen(u), r, data, u)
  BY <1>1, <1>2, ReceivedNothing
<1>5. PhaseInv("none", x, u)'
  <2> DEFINE none == <<>>
  <2>1. PutInput(m_input, none) /\ r = GetEoD(m_input, none)
    OBVIOUS
  <2> HIDE DEF r, none
  <2> QED BY <1>1, <1>3, <1>4, <2>1, PutInputInv
<1>6. r.blk = [m_input EXCEPT !.buf = <<>>, !.pos = 0]
  BY DEF GetEoD
<1>7. r.blk.buf = <<>> /\ r.blk.gotEoD = FALSE
  BY <1>1, <1>2, <1>6 DEF Blocks
<1>8. Consume(r.blk, r.eod, m_state)
  BY DEF PutInput
<1> HIDE DEF r
<1>9. m_input' = r.blk /\ m_unconsumedInput' = FALSE /\ m_gotEoD' = m_gotEoD
  BY <1>7, <1>8 DEF Consume
<1> QED BY <1>5, <1>7, <1>9

\* consumeInput() of the block put at the start.
LEMMA ConsumePending ==
    ASSUME NEW o, NEW x, NEW u, PhaseInv(o, x, u), m_unconsumedInput, NEW st, Consume(m_input, m_eoD, st),
           UNCHANGED <<job, cmdh>>, m_state' # "DiscardInput" => st # "DiscardInput"
    PROVE  InputType' /\ InputInv(u)' /\ RequestExact' /\ ~m_unconsumedInput'
<1> DEFINE r == [blk |-> m_input, eod |-> m_eoD]
<1>1. r.blk = m_input /\ r.eod = m_eoD
  OBVIOUS
<1> HIDE DEF r
<1>2. job \in Exchange /\ InputType /\ RequestExact /\ r.blk \in Blocks(Chars) /\ r.eod \in Nat
  BY <1>1 DEF PhaseInv, PhaseType, OtherType, InputType
<1>3. ~m_gotEoD /\ ~told /\ taken = <<>> /\ Received(job, ReadLen(u), r, <<>>, u)
  BY DEF PhaseInv, InputInv, r
<1>4. Consume(r.blk, r.eod, st)
  BY <1>1
<1> QED BY <1>2, <1>3, <1>4, ConsumeStep

-----------------------------------------------------------------------------
(* Output: what is printed is taken *)

LEMMA TakeOutputInv ==
    ASSUME NEW x, NEW u, PhaseInv("WRITE", x, u), NEW y, y = x \o m_writedata,
           m_writedata' = <<>>, UNCHANGED <<job, inputVars>>, UNCHANGED <<m_state, m_esc_stm, given, cmdh>>
    PROVE  PhaseInv("none", y, u)'
<1>1. /\ PhaseType("WRITE", x, u) /\ NetInv(u) /\ OpInv("WRITE", u) /\ InputInv(u) /\ RequestExact /\ OutputInv(x)
      /\ OtherType("WRITE", x, u) /\ InputType
  BY DEF PhaseInv, PhaseType
<1>2. x \in Seq(Chars) /\ m_writedata \in Seq(Chars)
  BY <1>1 DEF OtherType
<1>3. y \in Seq(Chars) /\ y \o <<>> = x \o m_writedata /\ <<>> \in Seq(Chars)
  BY <1>2
<1>4. NetInv(u)'
  BY <1>1, NetSame
<1>5. OutputInv(y)'
  <2>1. m_state' # "FlushingOutput" => m_esc_stm'.blk = <<>>
    BY <1>1 DEF OutputInv
  <2>2. y \o m_writedata' = x \o m_writedata
    BY <1>3
  <2> QED BY <1>1, <2>1, <2>2 DEF OutputInv
<1>6. InputType' /\ InputInv(u)' /\ RequestExact'
  <2>1. Handing' => Handing
    BY DEF Handing
  <2> QED BY <1>1, <2>1, InputSame
<1>7. OtherType("none", y, u)'
  BY <1>1, <1>3 DEF OtherType
<1>8. OpInv("none", u)'
  BY <1>1 DEF OpInv, inputVars
<1> QED BY <1>4, <1>5, <1>6, <1>7, <1>8 DEF PhaseInv, PhaseType

-----------------------------------------------------------------------------
(* The turns of nextOperation() *)

LEMMA NoCommandHandlerInv ==
    ASSUME NEW x, NEW u, PhaseInv(op, x, u), NoCommandHandler
    PROVE  PhaseInv(op, x, u)'
<1>1. /\ op = "none" /\ m_state \in {"StartProcessing", "Processing"} /\ m_state' = "DiscardInput" /\ op' = op
      /\ UNCHANGED <<job, inputVars>>
      /\ UNCHANGED <<m_esc_stm, outsize, m_writedata, given, lastError, cmdh>>
  BY DEF NoCommandHandler, InProcess, Turn, netVars, outputVars
<1>2. /\ PhaseType(op, x, u) /\ NetInv(u) /\ OpInv(op, u) /\ InputInv(u) /\ RequestExact /\ OutputInv(x)
      /\ OtherType(op, x, u) /\ InputType
  BY DEF PhaseInv, PhaseType
<1>3. NetInv(u)'
  BY <1>1, <1>2, NetSame
<1>4. OutputInv(x)'
  <2>1. m_esc_stm.blk = <<>>
    BY <1>1, <1>2 DEF OutputInv
  <2> QED BY <1>1, <1>2, <2>1, OutputSame
<1>5. InputType' /\ InputInv(u)' /\ RequestExact'
  <2>1. ~Handing'
    BY <1>1 DEF Handing
  <2> QED BY <1>1, <1>2, <2>1, InputSame
<1>6. OtherType(op, x, u)'
  BY <1>1, <1>2 DEF OtherType
<1>7. OpInv(op, u)'
  BY <1>1, <1>2 DEF OpInv, inputVars
<1> QED BY <1>3, <1>4, <1>5, <1>6, <1>7 DEF PhaseInv, PhaseType

LEMMA HandlerClosesInv ==
    ASSUME NEW x, NEW u, PhaseInv(op, x, u), HandlerCloses
    PROVE  PhaseInv(op, x, u)'
<1>1. /\ op = "none" /\ m_state \in {"StartProcessing", "Processing"} /\ m_state' = "DiscardInput" /\ op' = op
      /\ cmdh' = "closed"
      /\ UNCHANGED <<job, inputVars>>
      /\ UNCHANGED <<m_esc_stm, outsize, m_writedata, given>>
  BY DEF HandlerCloses, InProcess, Turn, netVars, outputVars
<1>2. /\ PhaseType(op, x, u) /\ NetInv(u) /\ OpInv(op, u) /\ InputInv(u) /\ RequestExact /\ OutputInv(x)
      /\ OtherType(op, x, u) /\ InputType
  BY DEF PhaseInv, PhaseType
<1>3. NetInv(u)'
  BY <1>1, <1>2, NetSame
<1>4. OutputInv(x)'
  <2>1. m_esc_stm.blk = <<>>
    BY <1>1, <1>2 DEF OutputInv
  <2> QED BY <1>1, <1>2, <2>1, OutputSame
<1>5. InputType' /\ InputInv(u)' /\ RequestExact'
  <2>1. ~Handing'
    BY <1>1 DEF Handing
  <2> QED BY <1>1, <1>2, <2>1, InputSame
<1>6. OtherType(op, x, u)'
  BY <1>1, <1>2 DEF OtherType
<1>7. OpInv(op, u)'
  BY <1>1, <1>2 DEF OpInv, inputVars
<1> QED BY <1>3, <1>4, <1>5, <1>6, <1>7 DEF PhaseInv, PhaseType

LEMMA HandlerReadsInv ==
    ASSUME NEW x, NEW u, PhaseInv(op, x, u), HandlerReads
    PROVE  PhaseInv(op, x, u)'
<1>1. /\ op = "none" /\ m_state \in {"StartProcessing", "Processing"}
      /\ UNCHANGED <<job, m_esc_stm, outsize, m_writedata, given, lastError, cmdh>>
  BY DEF HandlerReads, InProcess, Turn, netVars, outputVars
<1>2. /\ PhaseType(op, x, u) /\ NetInv(u) /\ OpInv(op, u) /\ InputInv(u) /\ RequestExact /\ OutputInv(x)
      /\ OtherType(op, x, u) /\ InputType
  BY DEF PhaseInv, PhaseType
<1>3. NetInv(u)'
  BY <1>1, <1>2, NetSame
<1>4. m_esc_stm.blk = <<>> /\ m_writedata = <<>>
  BY <1>1, <1>2 DEF OutputInv, OpInv
<1>5. CASE m_unconsumedInput
  <2>1. m_state' = "Processing" /\ op' = "none" /\ Consume(m_input, m_eoD, "Processing")
    BY <1>5 DEF HandlerReads
  <2>2. InputType' /\ InputInv(u)' /\ RequestExact' /\ ~m_unconsumedInput'
    BY <1>1, <1>5, <2>1, ConsumePending
  <2>3. OutputInv(x)'
    BY <1>1, <1>2, <1>4, <2>1, OutputSame
  <2>4. OtherType(op, x, u)'
    BY <1>1, <1>2, <2>1 DEF OtherType
  <2>5. OpInv(op, u)'
    BY <1>1, <1>4, <2>1 DEF OpInv
  <2> QED BY <1>3, <2>2, <2>3, <2>4, <2>5 DEF PhaseInv, PhaseType
<1>6. CASE ~m_unconsumedInput
  <2>1. /\ m_state' = IF m_gotEoD THEN "DiscardInput" ELSE "Processing"
        /\ op' = IF m_gotEoD THEN "none" ELSE "READ"
        /\ UNCHANGED inputVars
    BY <1>6 DEF HandlerReads
  <2>2. InputType' /\ InputInv(u)' /\ RequestExact'
    <3>1. Handing' => Handing
      BY <1>1, <2>1 DEF Handing
    <3> QED BY <1>1, <1>2, <2>1, <3>1, InputSame
  <2>3. OutputInv(x)'
    BY <1>1, <1>2, <1>4, <2>1, OutputSame
  <2>4. OtherType(op, x, u)'
    BY <1>1, <1>2, <2>1 DEF OtherType
  <2>5. OpInv(op, u)'
    BY <1>1, <1>4, <1>6, <2>1 DEF OpInv, inputVars
  <2> QED BY <1>3, <2>2, <2>3, <2>4, <2>5 DEF PhaseInv, PhaseType
<1> QED BY <1>5, <1>6

\* What is left to write, in the units of Remaining, with the printer e and g bytes
\* of the answer a given.
Unwritten(a, e, g) == 6 * ((Len(a) - g) + Len(e.blk)) - (IF e.state = "LFdot" THEN 3 ELSE 0)

\* Printing leaves less to write.
LEMMA PrintLess ==
    ASSUME NEW a \in Seq(Chars), NEW g \in 0..Len(a), NEW k \in 0..g, NEW m \in k..g,
           NEW e, AtByte(e, a, k, g), NEW r, AtByte(r, a, m, g), Advances(e.state, k, r.state, m)
    PROVE  Unwritten(a, r, g) + 3 <= Unwritten(a, e, g)
<1>1. Len(a) \in Nat /\ g \in Nat /\ k \in Nat /\ m \in Nat /\ k <= m /\ m <= g /\ g <= Len(a)
  OBVIOUS
<1>2. k \in 0..Len(a) /\ g \in k..Len(a) /\ m \in 0..Len(a) /\ g \in m..Len(a)
  BY <1>1
<1>3. Len(e.blk) = g - k
  <2>1. Len(SubSeq(a, k + 1, g)) = g - k
    BY <1>2, SubSeqIs
  <2> QED BY <2>1 DEF AtByte
<1>4. Len(r.blk) = g - m
  <2>1. Len(SubSeq(a, m + 1, g)) = g - m
    BY <1>2, SubSeqIs
  <2> QED BY <2>1 DEF AtByte
<1>5. m > k \/ (m = k /\ r.state = "LFdot" /\ e.state # "LFdot")
  BY DEF Advances
<1> QED BY <1>1, <1>3, <1>4, <1>5 DEF Unwritten

\* A call of process() on the printer e, which stands at byte k of the answer.
LEMMA PrintStep ==
    ASSUME NEW x, NEW u, OtherType(op, x, u), outsize = OutSize, m_writedata = <<>>, NEW g \in 0..Len(job.answer), NEW k \in 0..g,
           NEW e, e.state \in {"SRC", "LF", "LFdot"}, e.blk \in Seq(Chars), AtByte(e, job.answer, k, g),
           x \o m_writedata = Printed(e.state, job.answer, k), NEW r, r = Escape(e, outsize),
           job' = job, given' = g, m_writedata' = r.out,
           m_esc_stm' = [state |-> r.state, blk |-> r.blk],
           m_state' # "Terminated", m_state' # "FlushingOutput" => r.out = <<>>
    PROVE  /\ OutputInv(x)' /\ m_esc_stm' \in [state : {"SRC", "LF", "LFdot"}, blk : Seq(Chars)]
           /\ m_writedata' \in Seq(Chars)
           /\ e.blk # <<>> => Unwritten(job.answer, m_esc_stm', g) + 3 <= Unwritten(job.answer, e, g)
           /\ e.blk = <<>> => r.out = <<>> /\ r.state = e.state /\ r.blk = e.blk
           /\ e.blk # <<>> => r.out # <<>>
<1> DEFINE a == job.answer
<1>1. a \in Seq(Chars) /\ x \in Seq(Chars) /\ outsize \in Nat \ {0} /\ {CR, LF, DOT} \subseteq Chars
  BY ExchangeType, BufferSizes DEF OtherType
<1> HIDE DEF a
<1>2. Prints(Chars, e, k, r, a, g)
  <2>1. g \in 0..Len(a) /\ AtByte(e, a, k, g) /\ k \in 0..g /\ r = Escape(e, outsize)
    BY DEF a
  <2> QED BY <1>1, <2>1, EscapeIs
<1>3. PICK m \in k..g : /\ AtByte(r, a, m, g) /\ Printed(e.state, a, k) \o r.out = Printed(r.state, a, m)
                        /\ e.blk # <<>> => Advances(e.state, k, r.state, m)
  BY <1>2 DEF Prints
<1>4. r.state \in {"SRC", "LF", "LFdot"} /\ r.blk \in Seq(Chars) /\ r.out \in Seq(Chars)
  BY <1>2 DEF Prints, Printers
<1>5. m_esc_stm'.state = r.state /\ m_esc_stm'.blk = r.blk
  OBVIOUS
<1>6. AtByte(m_esc_stm', a, m, g)
  BY <1>3, <1>5 DEF AtByte
<1>7. x \o m_writedata' = Printed(m_esc_stm'.state, a, m)
  <2>1. x \o m_writedata = x
    BY <1>1
  <2>2. Printed(e.state, a, k) = x
    BY <2>1 DEF a
  <2> QED BY <1>3, <1>5, <2>2
<1>8. m \in 0..g
  OBVIOUS
<1>9. m_state' # "FlushingOutput" => m_esc_stm'.blk = <<>>
  BY <1>2, <1>5 DEF Prints
<1>10. OutputInv(x)'
  BY <1>6, <1>7, <1>8, <1>9 DEF OutputInv, a
<1>11. e.blk # <<>> => Unwritten(a, m_esc_stm', g) + 3 <= Unwritten(a, e, g)
  <2>1. SUFFICES ASSUME e.blk # <<>> PROVE Unwritten(a, m_esc_stm', g) + 3 <= Unwritten(a, e, g)
    OBVIOUS
  <2>2. g \in 0..Len(a) /\ AtByte(e, a, k, g) /\ Advances(e.state, k, r.state, m)
    BY <1>3, <2>1 DEF a
  <2>3. Unwritten(a, r, g) + 3 <= Unwritten(a, e, g)
    BY <1>1, <1>3, <2>2, PrintLess
  <2>4. Unwritten(a, m_esc_stm', g) = Unwritten(a, r, g)
    BY <1>5 DEF Unwritten
  <2> QED BY <2>3, <2>4
<1>12. /\ e.blk = <<>> => r.out = <<>> /\ r.state = e.state /\ r.blk = e.blk
       /\ e.blk # <<>> => r.out # <<>>
  BY <1>2 DEF Prints
<1> QED BY <1>4, <1>10, <1>11, <1>12 DEF a

\* The printer e at byte k has printed all it was given up to g, and f is the same
\* printer with the next n bytes, up to h.
TakesBlock(a, k, g, e, n, h, f) ==
    /\ k = g /\ h \in 0..Len(a) /\ g \in 0..h
    /\ f.state = e.state /\ f.blk \in Seq(Chars) /\ f.blk # <<>> /\ Len(f.blk) = n
    /\ e.state # "LFdot" /\ AtByte(f, a, g, h)

\* A printer without a block stands at the end of what it was given, and takes the
\* next block there.
LEMMA NextBlock ==
    ASSUME NEW a \in Seq(Chars), NEW g \in 0..Len(a), NEW k \in 0..g,
           NEW e \in [state : {"SRC", "LF", "LFdot"}, blk : Seq(Chars)], e.blk = <<>>, AtByte(e, a, k, g),
           NEW n \in 1..(Len(a) - g), NEW h, h = g + n,
           NEW f, f.state = e.state, f.blk = SubSeq(a, g + 1, h)
    PROVE  TakesBlock(a, k, g, e, n, h, f)
<1>1. Len(a) \in Nat /\ g \in Nat /\ k \in Nat /\ k <= g /\ n \in Nat /\ n >= 1 /\ g + n <= Len(a)
  OBVIOUS
<1>2. k \in 0..Len(a) /\ g \in k..Len(a) /\ g + n \in g..Len(a) /\ g + n \in 0..Len(a) /\ g \in 0..(g + n)
  BY <1>1
<1>3. Len(SubSeq(a, k + 1, g)) = g - k
  BY <1>1, <1>2, SubSeqIs
<1>4. k = g
  <2>1. SubSeq(a, k + 1, g) = <<>>
    BY DEF AtByte
  <2>2. Len(<<>>) = 0
    OBVIOUS
  <2>3. g - k = 0
    BY <1>3, <2>1, <2>2
  <2> QED BY <1>1, <2>3
<1>5. SubSeq(a, g + 1, g + n) \in Seq(Chars) /\ Len(SubSeq(a, g + 1, g + n)) = n
  <2>1. Len(SubSeq(a, g + 1, g + n)) = (g + n) - g /\ SubSeq(a, g + 1, g + n) \in Seq(Chars)
    BY <1>2, SubSeqIs
  <2> QED BY <1>1, <2>1
<1>6. f.state = e.state /\ f.blk = SubSeq(a, g + 1, g + n)
  OBVIOUS
<1>7. f.blk # <<>> /\ Len(f.blk) = n
  <2>1. Len(f.blk) = n /\ n # 0
    BY <1>1, <1>5, <1>6
  <2>2. Len(<<>>) = 0
    OBVIOUS
  <2> QED BY <2>1, <2>2, Zenon
<1>8. e.state # "LFdot"
  BY <1>1, <1>4 DEF AtByte
<1>9. AtByte(f, a, g, g + n)
  BY <1>4, <1>6, <1>8 DEF AtByte
<1> QED BY <1>2, <1>4, <1>5, <1>6, <1>7, <1>8, <1>9 DEF TakesBlock

\* The handler's write always prints something: it goes on to FlushingOutput.
LEMMA HandlerWritesInv ==
    ASSUME NEW x, NEW u, PhaseInv(op, x, u), outsize = OutSize, HandlerWrites
    PROVE  /\ PhaseInv(op, x, u)' /\ m_state' = "FlushingOutput" /\ op' = "WRITE"
           /\ Unwritten(job.answer, m_esc_stm', given') + 3 <= Unwritten(job.answer, m_esc_stm, given)
<1>1. /\ op = "none" /\ m_state \in {"StartProcessing", "Processing"}
      /\ UNCHANGED <<job, inputVars>> /\ UNCHANGED <<outsize, cmdh>>
  BY DEF HandlerWrites, InProcess, Turn, netVars
<1>2. /\ PhaseType(op, x, u) /\ NetInv(u) /\ OpInv(op, u) /\ InputInv(u) /\ RequestExact /\ OutputInv(x)
      /\ OtherType(op, x, u) /\ InputType
  BY DEF PhaseInv, PhaseType
<1>3. m_esc_stm.blk = <<>> /\ m_writedata = <<>> /\ m_state # "Terminated"
  BY <1>1, <1>2 DEF OutputInv, OpInv
<1>4. PICK k \in 0..given : /\ AtByte(m_esc_stm, job.answer, k, given)
                            /\ x \o m_writedata = Printed(m_esc_stm.state, job.answer, k)
  BY <1>2, <1>3 DEF OutputInv
<1>5. PICK n \in 1..(Len(job.answer) - given) :
        LET w == WriteData(SubSeq(job.answer, given + 1, given + n))
        IN /\ given' = given + n /\ m_esc_stm' = w.stm /\ m_writedata' = w.out
           /\ IF w.out # <<>>
              THEN m_state' = "FlushingOutput" /\ op' = "WRITE" /\ UNCHANGED lastError
              ELSE m_state' = "Terminated" /\ op' = "CLOSE" /\ lastError' = TRUE
  BY DEF HandlerWrites
<1> DEFINE e == [m_esc_stm EXCEPT !.blk = SubSeq(job.answer, given + 1, given + n)]
           r == Escape(e, outsize)
           g == given + n
<1>6. /\ given' = g /\ m_esc_stm' = [state |-> r.state, blk |-> r.blk] /\ m_writedata' = r.out
      /\ r.out # <<>> => m_state' = "FlushingOutput" /\ op' = "WRITE"
  BY <1>3, <1>5 DEF WriteData
<1>7. /\ job \in Exchange /\ m_esc_stm \in [state : {"SRC", "LF", "LFdot"}, blk : Seq(Chars)]
      /\ given \in 0..Len(job.answer) /\ job.answer \in Seq(Chars)
  BY <1>2, ExchangeType DEF OtherType
<1>8. /\ k = given /\ g \in 0..Len(job.answer) /\ given \in 0..g
      /\ e.state = m_esc_stm.state /\ e.blk \in Seq(Chars) /\ e.blk # <<>> /\ AtByte(e, job.answer, given, g)
      /\ Len(e.blk) = n /\ n \in Nat
  <2> HIDE DEF e
  <2>1. e.state = m_esc_stm.state /\ e.blk = SubSeq(job.answer, given + 1, g) /\ g = given + n
    BY <1>7 DEF e
  <2> HIDE DEF g
  <2>2. TakesBlock(job.answer, k, given, m_esc_stm, n, g, e)
    BY <1>3, <1>4, <1>7, <2>1, NextBlock
  <2>3. n \in Nat
    BY <1>7
  <2> QED BY <2>2, <2>3 DEF TakesBlock
<1>9. e.state \in {"SRC", "LF", "LFdot"}
  BY <1>7, <1>8
<1>10. outsize \in Nat \ {0} /\ {CR, LF, DOT} \subseteq Chars
  BY <1>2, <1>7, BufferSizes, ExchangeType DEF OtherType
<1>g. g = given + n
  OBVIOUS
<1> HIDE DEF e, g
<1>11. r.out # <<>>
  <2>1. Prints(Chars, e, given, r, job.answer, g)
    <3> HIDE DEF r
    <3>1. r = Escape(e, outsize)
      BY DEF r
    <3> QED BY <1>7, <1>8, <1>9, <1>10, <3>1, EscapeIs
  <2> QED BY <1>8, <2>1 DEF Prints
<1>12. m_state' = "FlushingOutput" /\ op' = "WRITE"
  BY <1>6, <1>11
<1>13. /\ OutputInv(x)' /\ m_esc_stm' \in [state : {"SRC", "LF", "LFdot"}, blk : Seq(Chars)]
       /\ m_writedata' \in Seq(Chars)
       /\ Unwritten(job.answer, m_esc_stm', g) + 3 <= Unwritten(job.answer, e, g)
  <2> HIDE DEF r
  <2>1. r = Escape(e, outsize)
    BY DEF r
  <2>2. x \o m_writedata = Printed(e.state, job.answer, given)
    BY <1>4, <1>8
  <2> QED BY <1>1, <1>2, <1>3, <1>6, <1>8, <1>9, <1>12, <2>1, <2>2, PrintStep
<1>14. NetInv(u)'
  BY <1>1, <1>2, NetSame
<1>15. InputType' /\ InputInv(u)' /\ RequestExact'
  <2>1. Handing' => Handing
    BY <1>1, <1>12 DEF Handing
  <2> QED BY <1>1, <1>2, <2>1, InputSame
<1>16. OtherType(op, x, u)'
  BY <1>1, <1>2, <1>6, <1>8, <1>12, <1>13 DEF OtherType
<1>17. OpInv(op, u)'
  BY <1>1, <1>2, <1>6, <1>11, <1>12 DEF OpInv, inputVars
<1>18. Unwritten(job.answer, e, g) = Unwritten(job.answer, m_esc_stm, given)
  <2>1. Len(job.answer) \in Nat /\ given \in Nat /\ Len(m_esc_stm.blk) = 0
    BY <1>3, <1>7
  <2>2. (Len(job.answer) - g) + Len(e.blk) = (Len(job.answer) - given) + Len(m_esc_stm.blk)
    BY <1>8, <1>g, <2>1
  <2> QED BY <1>8, <2>2 DEF Unwritten
<1>19. Unwritten(job.answer, m_esc_stm', given') + 3 <= Unwritten(job.answer, m_esc_stm, given)
  BY <1>6, <1>13, <1>18
<1> QED BY <1>12, <1>13, <1>14, <1>15, <1>16, <1>17, <1>19 DEF PhaseInv, PhaseType

LEMMA FlushOutputInv ==
    ASSUME NEW x, NEW u, PhaseInv(op, x, u), outsize = OutSize, FlushOutput
    PROVE  /\ PhaseInv(op, x, u)'
           /\ IF m_writedata' = <<>> THEN m_esc_stm' = m_esc_stm
              ELSE Unwritten(job.answer, m_esc_stm', given') + 3 <= Unwritten(job.answer, m_esc_stm, given)
<1>1. /\ op = "none" /\ m_state = "FlushingOutput"
      /\ UNCHANGED <<job, inputVars>> /\ UNCHANGED <<outsize, given, lastError, cmdh>>
  BY DEF FlushOutput, Turn, netVars
<1>2. /\ PhaseType(op, x, u) /\ NetInv(u) /\ OpInv(op, u) /\ InputInv(u) /\ RequestExact /\ OutputInv(x)
      /\ OtherType(op, x, u) /\ InputType
  BY DEF PhaseInv, PhaseType
<1>3. m_writedata = <<>> /\ m_state # "Terminated"
  BY <1>1, <1>2 DEF OpInv
<1>4. PICK k \in 0..given : /\ AtByte(m_esc_stm, job.answer, k, given)
                            /\ x \o m_writedata = Printed(m_esc_stm.state, job.answer, k)
  BY <1>2, <1>3 DEF OutputInv
<1>5. /\ m_esc_stm \in [state : {"SRC", "LF", "LFdot"}, blk : Seq(Chars)]
      /\ given \in 0..Len(job.answer) /\ m_esc_stm.state \in {"SRC", "LF", "LFdot"} /\ m_esc_stm.blk \in Seq(Chars)
  BY <1>2 DEF OtherType
<1> DEFINE r == Escape(m_esc_stm, outsize)
<1>6. /\ m_esc_stm' = [state |-> r.state, blk |-> r.blk] /\ m_writedata' = r.out
      /\ op' = IF r.out # <<>> THEN "WRITE" ELSE "none"
      /\ m_state' = IF r.out # <<>> THEN "FlushingOutput" ELSE "Processing"
  <2>1. (IF m_esc_stm.blk = <<>> THEN [m_esc_stm EXCEPT !.blk = <<>>] ELSE m_esc_stm) = m_esc_stm
    BY <1>5
  <2>2. WriteData(<<>>) = [stm |-> [state |-> r.state, blk |-> r.blk], out |-> r.out]
    BY <2>1 DEF WriteData
  <2> HIDE DEF r
  <2>3. WriteData(<<>>).stm = [state |-> r.state, blk |-> r.blk] /\ WriteData(<<>>).out = r.out
    BY <2>2
  <2> QED BY <2>3 DEF FlushOutput
<1>7. r = Escape(m_esc_stm, outsize)
  OBVIOUS
<1> HIDE DEF r
<1>8. m_state' # "Terminated" /\ (m_state' # "FlushingOutput" => r.out = <<>>)
  BY <1>6
<1>9. /\ OutputInv(x)' /\ m_esc_stm' \in [state : {"SRC", "LF", "LFdot"}, blk : Seq(Chars)]
      /\ m_writedata' \in Seq(Chars)
      /\ IF m_writedata' = <<>> THEN r.state = m_esc_stm.state /\ r.blk = m_esc_stm.blk
         ELSE Unwritten(job.answer, m_esc_stm', given) + 3 <= Unwritten(job.answer, m_esc_stm, given)
  BY <1>1, <1>2, <1>3, <1>4, <1>5, <1>6, <1>7, <1>8, PrintStep
<1>10. NetInv(u)'
  BY <1>1, <1>2, NetSame
<1>11. InputType' /\ InputInv(u)' /\ RequestExact'
  <2>1. Handing' => Handing
    BY <1>1, <1>6 DEF Handing
  <2> QED BY <1>1, <1>2, <2>1, InputSame
<1>12. OtherType(op, x, u)'
  BY <1>1, <1>2, <1>6, <1>9 DEF OtherType
<1>13. OpInv(op, u)'
  BY <1>1, <1>2, <1>6 DEF OpInv, inputVars
<1>14. r.state = m_esc_stm.state /\ r.blk = m_esc_stm.blk => m_esc_stm' = m_esc_stm
  BY <1>5, <1>6
<1> QED BY <1>1, <1>9, <1>10, <1>11, <1>12, <1>13, <1>14 DEF PhaseInv, PhaseType

LEMMA DiscardInv ==
    ASSUME NEW x, NEW u, PhaseInv(op, x, u), Discard
    PROVE  PhaseInv(op, x, u)'
<1>1. /\ op = "none" /\ m_state = "DiscardInput"
      /\ UNCHANGED <<job, m_esc_stm, outsize, given, lastError, cmdh>>
  BY DEF Discard, Turn, netVars
<1>2. /\ PhaseType(op, x, u) /\ NetInv(u) /\ OpInv(op, u) /\ InputInv(u) /\ RequestExact /\ OutputInv(x)
      /\ OtherType(op, x, u) /\ InputType
  BY DEF PhaseInv, PhaseType
<1>3. m_esc_stm.blk = <<>> /\ m_writedata = <<>>
  BY <1>1, <1>2 DEF OutputInv, OpInv
<1>4. NetInv(u)'
  BY <1>1, <1>2, NetSame
<1>5. CASE m_gotEoD
  <2>1. m_writedata' = Marker /\ m_state' = "Terminated" /\ op' = "WRITE" /\ UNCHANGED inputVars
    BY <1>5 DEF Discard
  <2>2. InputType' /\ InputInv(u)' /\ RequestExact'
    BY <1>1, <1>2, <1>5, <2>1, InputSame
  <2>3. Marker \in Seq(Chars) /\ Marker # <<>>
    <3>1. CR \in Chars /\ LF \in Chars /\ DOT \in Chars
      BY CharsAssumption
    <3> QED BY <3>1 DEF Marker
  <2>4. OutputInv(x)'
    <3>1. PICK k \in 0..given : /\ AtByte(m_esc_stm, job.answer, k, given)
                                /\ x \o m_writedata = Printed(m_esc_stm.state, job.answer, k)
      BY <1>1, <1>2 DEF OutputInv
    <3>2. x \o m_writedata = x
      <4>1. x \in Seq(Chars)
        BY <1>2 DEF OtherType
      <4> QED BY <1>3, <4>1
    <3>3. x \o m_writedata' = Printed(m_esc_stm.state, job.answer, k) \o Marker
      BY <1>1, <2>1, <3>1, <3>2
    <3> QED BY <1>1, <1>3, <2>1, <3>1, <3>3 DEF OutputInv
  <2>5. OtherType(op, x, u)'
    BY <1>1, <1>2, <2>1, <2>3 DEF OtherType
  <2>6. OpInv(op, u)'
    BY <1>5, <2>1, <2>3 DEF OpInv, inputVars
  <2> QED BY <1>4, <2>2, <2>4, <2>5, <2>6 DEF PhaseInv, PhaseType
<1>6. CASE ~m_gotEoD /\ m_unconsumedInput
  <2>1. m_state' = m_state /\ m_writedata' = m_writedata /\ op' = "none" /\ Consume(m_input, m_eoD, "DiscardInput")
    BY <1>6 DEF Discard
  <2>2. InputType' /\ InputInv(u)' /\ RequestExact' /\ ~m_unconsumedInput'
    BY <1>1, <1>6, <2>1, ConsumePending
  <2>3. OutputInv(x)'
    BY <1>1, <1>2, <1>3, <2>1, OutputSame
  <2>4. OtherType(op, x, u)'
    BY <1>1, <1>2, <2>1 DEF OtherType
  <2>5. OpInv(op, u)'
    BY <1>1, <1>3, <2>1 DEF OpInv
  <2> QED BY <1>4, <2>2, <2>3, <2>4, <2>5 DEF PhaseInv, PhaseType
<1>7. CASE ~m_gotEoD /\ ~m_unconsumedInput
  <2>1. m_state' = m_state /\ m_writedata' = m_writedata /\ op' = "READ" /\ UNCHANGED inputVars
    BY <1>7 DEF Discard
  <2>2. InputType' /\ InputInv(u)' /\ RequestExact'
    <3>1. Handing' => Handing
      BY <1>1, <2>1 DEF Handing
    <3> QED BY <1>1, <1>2, <2>1, <3>1, InputSame
  <2>3. OutputInv(x)'
    BY <1>1, <1>2, <1>3, <2>1, OutputSame
  <2>4. OtherType(op, x, u)'
    BY <1>1, <1>2, <2>1 DEF OtherType
  <2>5. OpInv(op, u)'
    BY <1>1, <1>3, <1>7, <2>1 DEF OpInv, inputVars
  <2> QED BY <1>4, <2>2, <2>3, <2>4, <2>5 DEF PhaseInv, PhaseType
<1> QED BY <1>5, <1>6, <1>7

LEMMA CloseInv ==
    ASSUME NEW x, NEW u, PhaseInv(op, x, u), Close
    PROVE  PhaseInv(op, x, u)'
<1>1. /\ op = "none" /\ m_state = "Terminated" /\ op' = "CLOSE"
      /\ UNCHANGED <<job, inputVars>>
      /\ UNCHANGED <<m_state, m_esc_stm, outsize, m_writedata, given, lastError, cmdh>>
  BY DEF Close, Turn, netVars, outputVars
<1>2. /\ PhaseType(op, x, u) /\ NetInv(u) /\ OpInv(op, u) /\ InputInv(u) /\ RequestExact /\ OutputInv(x)
      /\ OtherType(op, x, u) /\ InputType
  BY DEF PhaseInv, PhaseType
<1>3. NetInv(u)'
  BY <1>1, <1>2, NetSame
<1>4. OutputInv(x)'
  <2>1. m_esc_stm.blk = <<>>
    BY <1>1, <1>2 DEF OutputInv
  <2> QED BY <1>1, <1>2, <2>1, OutputSame
<1>5. InputType' /\ InputInv(u)' /\ RequestExact'
  <2>1. Handing' => Handing
    BY <1>1 DEF Handing
  <2> QED BY <1>1, <1>2, <2>1, InputSame
<1>6. OtherType(op, x, u)'
  BY <1>1, <1>2 DEF OtherType
<1>7. OpInv(op, u)'
  BY <1>1, <1>2 DEF OpInv, inputVars
<1> QED BY <1>3, <1>4, <1>5, <1>6, <1>7 DEF PhaseInv, PhaseType

\* A turn keeps the invariant, and what the caller has to do with.
LEMMA TurnInv ==
    ASSUME NEW x, NEW u, PhaseInv(op, x, u), outsize = OutSize, NextOperation
    PROVE  PhaseInv(op, x, u)' /\ UNCHANGED <<netVars, outsize>>
<1>1. CASE NoCommandHandler
  BY <1>1, NoCommandHandlerInv DEF NoCommandHandler, outputVars
<1>2. CASE HandlerReads
  BY <1>2, HandlerReadsInv DEF HandlerReads, outputVars
<1>3. CASE HandlerWrites
  BY <1>3, HandlerWritesInv DEF HandlerWrites
<1>4. CASE HandlerCloses
  BY <1>4, HandlerClosesInv DEF HandlerCloses, outputVars
<1>5. CASE FlushOutput
  BY <1>5, FlushOutputInv DEF FlushOutput
<1>6. CASE Discard
  BY <1>6, DiscardInv DEF Discard
<1>7. CASE Close
  BY <1>7, CloseInv DEF Close, outputVars
<1> QED BY <1>1, <1>2, <1>3, <1>4, <1>5, <1>6, <1>7 DEF NextOperation

-----------------------------------------------------------------------------
(* The specification *)

\* A new handler, of which nothing is read.
Fresh(u) ==
    /\ job \in Exchange /\ m_state = "StartProcessing" /\ m_input = EmptyBlock
    /\ m_eoD = 0 /\ m_nextmsg = 0 /\ m_unconsumedInput = FALSE /\ m_gotEoD = FALSE
    /\ m_esc_stm = [state |-> "SRC", blk |-> <<>>] /\ m_writedata = <<>>
    /\ cmdh \in {"open", "none"} /\ taken = <<>> /\ told = FALSE /\ given = 0
    /\ u = Stream(job)

LEMMA FreshInv ==
    ASSUME NEW o \in {"START", "none"}, NEW u, Fresh(u)
    PROVE  PhaseInv(o, <<>>, u)
<1>1. /\ job \in Exchange /\ m_state = "StartProcessing" /\ m_input = EmptyBlock
      /\ m_eoD = 0 /\ m_nextmsg = 0 /\ m_unconsumedInput = FALSE /\ m_gotEoD = FALSE
      /\ m_esc_stm = [state |-> "SRC", blk |-> <<>>] /\ m_writedata = <<>>
      /\ cmdh \in {"open", "none"} /\ taken = <<>> /\ told = FALSE /\ given = 0
      /\ u = Stream(job)
  BY DEF Fresh
<1>2. /\ Stream(job) \in Seq(Chars) /\ Len(Stream(job)) \in Nat
      /\ job.answer \in Seq(Chars) /\ job.request \in Seq(Chars) /\ DOT \in Chars
  BY <1>1, StreamFacts, ExchangeType
<1>3. ReadLen(u) = 0
  BY <1>1, <1>2 DEF ReadLen
<1>4. EmptyBlock \in Blocks(Chars) /\ Continues(job, 0, EmptyBlock, <<>>) /\ EmptyBlock.gotEoD = FALSE
  BY <1>1, StartContinues DEF EmptyBlock
<1>5. <<>> \in Seq(Chars)
  OBVIOUS
<1>6. InputType
  BY <1>1, <1>4, <1>5 DEF InputType
<1>7. OtherType(o, <<>>, u)
  <2>1. 0 \in 0..Len(job.answer)
    BY <1>2
  <2> QED BY <1>1, <1>2, <1>5, <2>1 DEF OtherType
<1>8. NetInv(u)
  <2>1. SubSeq(Stream(job), 0 + 1, Len(Stream(job))) = Stream(job)
    BY <1>2
  <2> QED BY <1>1, <1>2, <1>3, <2>1 DEF NetInv
<1>9. OpInv(o, u)
  BY <1>1, <1>2 DEF OpInv
<1>10. InputInv(u)
  <2>1. Resumes(job, 0, EmptyBlock)
    BY <1>4 DEF Continues, Resumes
  <2> QED BY <1>1, <1>3, <1>4, <2>1 DEF InputInv
<1>11. RequestExact
  <2>1. Len(<<>>) = 0 /\ Len(job.request) \in Nat
    BY <1>2
  <2>2. SubSeq(<<>>, 1, 0) = SubSeq(job.request, 1, 0)
    BY <1>2
  <2> QED BY <1>1, <2>1, <2>2 DEF RequestExact, IsPrefix
<1>12. OutputInv(<<>>)
  <2>1. EscapedTo(job.answer)[0] = <<>>
    BY <1>2, EscapedToDef
  <2>2. m_esc_stm.state = "SRC" /\ m_esc_stm.blk = <<>>
    BY <1>1
  <2>3. AtByte(m_esc_stm, job.answer, 0, given)
    <3>1. SubSeq(job.answer, 0 + 1, 0) = <<>>
      BY <1>2
    <3> QED BY <1>1, <2>2, <3>1 DEF AtByte
  <2>4. <<>> \o m_writedata = Printed(m_esc_stm.state, job.answer, 0)
    <3>1. <<>> \o <<>> = <<>>
      OBVIOUS
    <3> QED BY <1>1, <2>1, <2>2, <3>1 DEF Printed
  <2>5. 0 \in 0..given
    BY <1>1
  <2> QED BY <1>1, <2>2, <2>3, <2>4, <2>5 DEF OutputInv
<1> QED BY <1>6, <1>7, <1>8, <1>9, <1>10, <1>11, <1>12 DEF PhaseInv, PhaseType

LEMMA InitInv == Init => Inv
<1> SUFFICES ASSUME Init PROVE Inv
  OBVIOUS
<1>1. job \in Exchange
  BY ExchangesAssumption DEF Init, Exchange
<1>2. Fresh(net) /\ wire = <<>> /\ op = "START" /\ outsize = OutSize
  BY <1>1 DEF Init, Fresh, Stream
<1>3. PhaseInv(op, <<>>, net)
  BY <1>2, FreshInv
<1> QED BY <1>2, <1>3 DEF Inv

LEMMA ReceiveInv ==
    ASSUME Inv, Receive
    PROVE  Inv'
<1>1. PICK n \in (IF op = "START" THEN 0 ELSE 1)..Len(net) :
        /\ PutInput([m_input EXCEPT !.eodcharbuf = <<>>], m_input.eodcharbuf \o SubSeq(net, 1, n))
        /\ net' = SubSeq(net, n + 1, Len(net))
  BY DEF Receive
<1>2. PICK x, v, u : x = wire /\ v = net /\ u = SubSeq(net, n + 1, Len(net))
  OBVIOUS
<1>3. /\ op' = "none" /\ op \in {"START", "READ"} /\ wire' = wire /\ outsize' = outsize
      /\ UNCHANGED <<job, m_state, m_esc_stm, m_writedata, given, cmdh>>
  BY DEF Receive, outputVars
<1>4. PhaseInv(op, x, v) /\ v \in Seq(Chars)
  BY <1>2 DEF Inv, PhaseInv, PhaseType, OtherType
<1>5. Len(v) \in Nat
  BY <1>4
<1>6. n \in 0..Len(v)
  BY <1>2, <1>5
<1>7. n = 0 => m_input.eodcharbuf = <<>>
  <2>1. n = 0 => op = "START"
    BY <1>2, <1>5
  <2> QED BY <1>4, <2>1 DEF PhaseInv, OpInv, EmptyBlock
<1>8. /\ PutInput([m_input EXCEPT !.eodcharbuf = <<>>], m_input.eodcharbuf \o SubSeq(v, 1, n))
      /\ u = SubSeq(v, n + 1, Len(v))
  BY <1>1, <1>2
<1>9. PhaseInv("none", x, u)'
  BY <1>3, <1>4, <1>6, <1>7, <1>8, PutNextInv
<1>10. op' = "none" /\ wire' = x /\ net' = u
  BY <1>1, <1>2, <1>3
<1>11. PhaseInv(op, wire, net)'
  BY <1>9, <1>10
<1> QED BY <1>3, <1>11 DEF Inv

LEMMA SendInv ==
    ASSUME Inv, Send
    PROVE  Inv'
<1>1. /\ op = "WRITE" /\ wire' = wire \o m_writedata /\ m_writedata' = <<>> /\ op' = "none" /\ net' = net
      /\ UNCHANGED <<job, inputVars>> /\ UNCHANGED <<m_state, m_esc_stm, given, cmdh>> /\ outsize' = outsize
  BY DEF Send
<1>2. PICK x, y, u : x = wire /\ y = wire \o m_writedata /\ u = net
  OBVIOUS
<1>3. PhaseInv("WRITE", x, u) /\ y = x \o m_writedata
  BY <1>1, <1>2 DEF Inv
<1>4. PhaseInv("none", y, u)'
  BY <1>1, <1>3, TakeOutputInv
<1>5. op' = "none" /\ wire' = y /\ net' = u
  BY <1>1, <1>2
<1>6. PhaseInv(op, wire, net)'
  BY <1>4, <1>5
<1> QED BY <1>1, <1>6 DEF Inv

LEMMA NextInv == Inv /\ [Next]_vars => Inv'
<1> SUFFICES ASSUME Inv, [Next]_vars PROVE Inv'
  OBVIOUS
<1>1. CASE Receive
  BY <1>1, ReceiveInv
<1>2. CASE Send
  BY <1>2, SendInv
<1>3. CASE NextOperation
  <2>1. PICK x, u : x = wire /\ u = net
    OBVIOUS
  <2>2. PhaseInv(op, x, u) /\ outsize = OutSize
    BY <2>1 DEF Inv
  <2>3. PhaseInv(op, x, u)' /\ UNCHANGED <<netVars, outsize>>
    BY <1>3, <2>2, TurnInv
  <2>4. wire' = x /\ net' = u /\ outsize' = OutSize
    BY <2>1, <2>2, <2>3 DEF netVars
  <2>5. PhaseInv(op, wire, net)'
    BY <2>3, <2>4
  <2> QED BY <2>4, <2>5 DEF Inv
<1>4. CASE UNCHANGED vars
  BY <1>4, ZenonT(40) DEF Inv, vars, netVars, inputVars, outputVars, PhaseInv, PhaseType, InputType, OtherType, NetInv,
              ReadLen, OpInv, InputInv, Handing, RequestExact, OutputInv
<1> QED BY <1>1, <1>2, <1>3, <1>4 DEF Next, Closed

-----------------------------------------------------------------------------
(* The properties *)

\* The inductive invariant of the data phase.
THEOREM Invariant == Spec => []Inv
<1>1. Init => Inv
  BY InitInv
<1>2. Inv /\ [Next]_vars => Inv'
  BY NextInv
<1> QED BY <1>1, <1>2, PTL DEF Spec

\* For every request, every way to cut it into blocks and every size of the input
\* buffer, the command handler is given the request as the client wrote it
\* (getEoDpos(), consumeInput()).
THEOREM RequestIsExact == Spec => []RequestExact
<1>1. Inv => RequestExact
  BY DEF Inv, PhaseInv
<1> QED BY <1>1, Invariant, PTL

\* When the handler closes, the data it leaves to its caller and the bytes not read
\* yet are what the client sent behind the request (skipEoD(), getDataLeft()).
THEOREM LeftIsExact == Spec => []LeftExact
<1>1. Inv => LeftExact
  BY DEF Inv, PhaseInv, OpInv, InputInv, Leaves, LeftExact, DataLeft
<1> QED BY <1>1, Invariant, PTL

LEMMA PrefixIs ==
    ASSUME NEW C, NEW s \in Seq(C), NEW t \in Seq(C), Begins(s, t)
    PROVE  IsPrefix(s, t)
<1>1. Len(s) \in Nat /\ Len(t) \in Nat /\ Len(s) <= Len(t) /\ \A i \in 1..Len(s) : t[i] = s[i]
  BY DEF Begins
<1>2. SubSeq(s, 1, Len(s)) = s
  OBVIOUS
<1>3. SubSeq(t, 1, Len(s)) \in Seq(C) /\ Len(SubSeq(t, 1, Len(s))) = Len(s)
  BY <1>1
<1>4. \A i \in 1..Len(s) : s[i] = SubSeq(t, 1, Len(s))[i]
  BY <1>1
<1>5. s = SubSeq(t, 1, Len(s))
  BY <1>3, <1>4, SeqEq
<1> QED BY <1>1, <1>2, <1>5 DEF IsPrefix

LEMMA BeginsOn ==
    ASSUME NEW C, NEW s \in Seq(C), NEW t \in Seq(C), NEW u \in Seq(C), Begins(s, t), Begins(t, u)
    PROVE  Begins(s, u)
  BY DEF Begins

\* What is printed is a beginning of the escaped answer.
LEMMA PrintedBegins ==
    ASSUME NEW a \in Seq(Chars), NEW g \in 0..Len(a), NEW k \in 0..g, NEW e, AtByte(e, a, k, g)
    PROVE  /\ EscapedTo(a)[g] \in Seq(Chars) /\ Printed(e.state, a, k) \in Seq(Chars)
           /\ Begins(Printed(e.state, a, k), EscapedTo(a)[g])
<1> DEFINE esc == EscapedTo(a)
<1>1. DOT \in Chars /\ k \in 0..Len(a) /\ Len(a) \in Nat /\ g \in k..Len(a) /\ k \in Nat /\ g \in Nat
  BY CharsAssumption
<1>2. esc \in [0..Len(a) -> Seq(Chars)]
  BY <1>1, EscapedToDef
<1>3. esc[g] \in Seq(Chars) /\ esc[k] \in Seq(Chars)
  BY <1>1, <1>2
<1>4. CASE e.state # "LFdot"
  <2>1. Begins(esc[k], esc[g])
    BY <1>1, EscapedPrefix DEF Begins
  <2> QED BY <1>3, <1>4, <2>1 DEF Printed
<1>5. CASE e.state = "LFdot"
  <2>1. k > 0 /\ a[k] = LF /\ k < g /\ a[k + 1] = DOT
    BY <1>5 DEF AtByte
  <2>2. k \in 0..(Len(a) - 1) /\ k + 1 \in 0..Len(a) /\ g \in (k + 1)..Len(a)
    BY <1>1, <2>1
  <2>3. esc[k + 1] = Append(Append(esc[k], DOT), DOT) /\ esc[k + 1] \in Seq(Chars)
    BY <1>1, <1>2, <2>1, <2>2, NextEscaped
  <2>4. Begins(esc[k + 1], esc[g])
    BY <1>1, <2>2, EscapedPrefix DEF Begins
  <2> DEFINE s == Append(esc[k], DOT)
  <2>5. s \in Seq(Chars)
    BY <1>1, <1>3
  <2> HIDE DEF s, esc
  <2>6. Begins(s, Append(s, DOT))
    BY <1>1, <2>5 DEF Begins
  <2>7. Begins(s, esc[g])
    <3>1. esc[k + 1] = Append(s, DOT)
      BY <2>3 DEF s
    <3> QED BY <1>3, <2>3, <2>4, <2>5, <2>6, <3>1, BeginsOn
  <2>8. Printed(e.state, a, k) = s
    BY <1>5 DEF Printed, s, esc
  <2> QED BY <1>3, <2>5, <2>7, <2>8 DEF esc
<1> QED BY <1>4, <1>5

\* What a phase has printed: the answer up to where the printer stands, all that is
\* given when the printer has no block, and then the marker.
LEMMA PhasePrints ==
    ASSUME NEW o, NEW x, NEW u, PhaseInv(o, x, u),
           NEW whole, whole = Escaped(SubSeq(job.answer, 1, given)), NEW printed, printed = x \o m_writedata
    PROVE  /\ whole \in Seq(Chars) /\ whole = EscapedTo(job.answer)[given] /\ printed \in Seq(Chars)
           /\ m_state # "Terminated" => Begins(printed, whole)
           /\ m_state \notin {"FlushingOutput", "Terminated"} => printed = whole
           /\ m_state = "Terminated" => printed = whole \o Marker
<1> DEFINE a == job.answer
<1>1. /\ a \in Seq(Chars) /\ given \in 0..Len(a) /\ x \in Seq(Chars) /\ m_writedata \in Seq(Chars)
      /\ DOT \in Chars
  BY ExchangeType DEF PhaseInv, PhaseType, OtherType
<1>2. PICK k \in 0..given : /\ AtByte(m_esc_stm, a, k, given)
                            /\ printed = IF m_state = "Terminated" THEN Printed(m_esc_stm.state, a, k) \o Marker
                                         ELSE Printed(m_esc_stm.state, a, k)
  BY DEF PhaseInv, OutputInv
<1>3. m_state # "FlushingOutput" => m_esc_stm.blk = <<>>
  BY DEF PhaseInv, OutputInv
<1>4. printed \in Seq(Chars)
  BY <1>1
<1>5. whole = EscapedTo(a)[given]
  BY <1>1, EscapedPart
<1> HIDE DEF a
<1>6. /\ whole \in Seq(Chars) /\ Printed(m_esc_stm.state, a, k) \in Seq(Chars)
      /\ Begins(Printed(m_esc_stm.state, a, k), whole)
  BY <1>1, <1>2, <1>5, PrintedBegins
<1>7. m_state # "FlushingOutput" => Printed(m_esc_stm.state, a, k) = whole
  <2> SUFFICES ASSUME m_state # "FlushingOutput" PROVE Printed(m_esc_stm.state, a, k) = whole
    OBVIOUS
  <2>1. SubSeq(a, k + 1, given) = <<>>
    BY <1>2, <1>3 DEF AtByte
  <2>2. k = given
    <3>1. Len(a) \in Nat /\ given \in Nat /\ k \in Nat /\ k <= given /\ k \in 0..Len(a) /\ given \in k..Len(a)
      BY <1>1
    <3>2. Len(SubSeq(a, k + 1, given)) = given - k
      BY <1>1, <3>1, SubSeqIs
    <3>3. Len(<<>>) = 0
      OBVIOUS
    <3>4. given - k = 0
      BY <2>1, <3>2, <3>3
    <3> QED BY <3>1, <3>4
  <2>3. m_esc_stm.state # "LFdot"
    <3>1. ~(k < given)
      BY <1>1, <2>2
    <3> QED BY <1>2, <3>1 DEF AtByte
  <2> QED BY <1>5, <2>2, <2>3 DEF Printed
<1> QED BY <1>2, <1>4, <1>5, <1>6, <1>7 DEF a

LEMMA AnswerInv == Inv => AnswerExact
<1> SUFFICES ASSUME Inv PROVE AnswerExact
  OBVIOUS
<1> DEFINE whole == Escaped(SubSeq(job.answer, 1, given))
           printed == wire \o m_writedata
<1>1. PhaseInv(op, wire, net)
  BY DEF Inv
<1>2. /\ whole \in Seq(Chars) /\ printed \in Seq(Chars)
      /\ m_state # "Terminated" => Begins(printed, whole)
      /\ m_state = "Terminated" => printed = whole \o Marker
  <2> HIDE DEF whole, printed
  <2>1. whole = Escaped(SubSeq(job.answer, 1, given)) /\ printed = wire \o m_writedata
    BY DEF whole, printed
  <2> QED BY <1>1, <2>1, PhasePrints
<1>3. wire \in Seq(Chars) /\ Marker \in Seq(Chars) /\ (op = "CLOSE" => m_state = "Terminated" /\ m_writedata = <<>>)
  BY <1>1, CharsAssumption DEF PhaseInv, PhaseType, OtherType, OpInv, Marker
<1>4. op = "CLOSE" => printed = wire
  BY <1>3
<1> HIDE DEF whole, printed
<1>5. whole \o Marker \in Seq(Chars) /\ Begins(whole, whole \o Marker)
  BY <1>2, <1>3 DEF Begins
<1>6. IsPrefix(printed, whole \o Marker)
  <2>1. CASE m_state = "Terminated"
    BY <1>2, <1>5, <2>1, PrefixOfItself
  <2>2. CASE m_state # "Terminated"
    <3>1. Begins(printed, whole \o Marker)
      BY <1>2, <1>5, <2>2, BeginsOn
    <3> QED BY <1>2, <1>5, <3>1, PrefixIs
  <2> QED BY <2>1, <2>2
<1> QED BY <1>2, <1>3, <1>4, <1>6 DEF AnswerExact, whole, printed

\* For every answer, every way the command handler hands it out and every size of
\* the output buffer, the client reads the answer, escaped and ended by one marker
\* (EscapeSTM::process(), getCommandHandlerWriteData()).
THEOREM AnswerIsExact == Spec => []AnswerExact
  BY AnswerInv, Invariant, PTL

-----------------------------------------------------------------------------
(* Every step leaves less to do *)

StageOf(st) ==
    IF st \in {"StartProcessing", "Processing"} THEN 6
    ELSE IF st = "FlushingOutput" THEN 7 ELSE IF st = "DiscardInput" THEN 3 ELSE 0

PendingOf(o) == IF o = "START" THEN 4 ELSE IF o = "WRITE" THEN 2 ELSE IF o = "none" THEN 1 ELSE 0

\* The sum for l bytes unread, w left to write, state s and operation o.
Amount(l, w, s, o, unconsumed) ==
    3 * l + w + StageOf(s) + PendingOf(o) + (IF unconsumed THEN 1 ELSE 0)

LEMMA RemainingIs ==
    TypeOK => /\ Remaining = Amount(Len(net), Unwritten(job.answer, m_esc_stm, given), m_state, op, m_unconsumedInput)
              /\ Len(net) \in Nat /\ Unwritten(job.answer, m_esc_stm, given) \in Int
<1> SUFFICES ASSUME TypeOK
             PROVE  /\ Remaining = Amount(Len(net), Unwritten(job.answer, m_esc_stm, given), m_state, op, m_unconsumedInput)
                    /\ Len(net) \in Nat /\ Unwritten(job.answer, m_esc_stm, given) \in Int
  OBVIOUS
<1> DEFINE stage == [StartProcessing |-> 6, Processing |-> 6, FlushingOutput |-> 7,
                     DiscardInput |-> 3, Terminated |-> 0]
           pending == [START |-> 4, WRITE |-> 2, none |-> 1, READ |-> 0, CLOSE |-> 0]
           A == Len(job.answer)
           B == Len(m_esc_stm.blk)
           L == Len(net)
           d == IF m_esc_stm.state = "LFdot" THEN 3 ELSE 0
           u == IF m_unconsumedInput THEN 1 ELSE 0
<1>1. stage[m_state] = StageOf(m_state)
  BY DEF TypeOK, PhaseType, OtherType, StageOf
<1>2. pending[op] = PendingOf(op)
  BY DEF TypeOK, PhaseType, OtherType, PendingOf
<1>3. A \in Nat /\ B \in Nat /\ L \in Nat /\ given \in Nat /\ d \in Nat /\ u \in Nat
  <2>1. job.answer \in Seq(Chars) /\ m_esc_stm.blk \in Seq(Chars) /\ net \in Seq(Chars) /\ given \in Nat
    BY ExchangeType DEF TypeOK, PhaseType, OtherType
  <2> QED BY <2>1
<1>4. Remaining = 3 * L + 3 * (2 * (A - given + B)) - d + stage[m_state] + pending[op] + u
  BY DEF Remaining
<1>5. Unwritten(job.answer, m_esc_stm, given) = 6 * ((A - given) + B) - d
  BY DEF Unwritten
<1>6. StageOf(m_state) \in Nat /\ PendingOf(op) \in Nat
  BY DEF StageOf, PendingOf
<1> HIDE DEF stage, pending, A, B, L, d, u
<1>7. 3 * (2 * (A - given + B)) = 6 * ((A - given) + B)
  BY <1>3
<1>8. Remaining = 3 * L + (6 * ((A - given) + B) - d) + StageOf(m_state) + PendingOf(op) + u
  BY <1>1, <1>2, <1>3, <1>4, <1>6, <1>7
<1>9. Unwritten(job.answer, m_esc_stm, given) \in Int
  BY <1>3, <1>5
<1> QED BY <1>3, <1>5, <1>8, <1>9 DEF L, u, Amount

LEMMA AmountLess ==
    ASSUME NEW l \in Nat, NEW w \in Int, NEW v \in Int, v + 3 <= w, NEW s, NEW o, NEW t, NEW p,
           StageOf(t) + PendingOf(p) <= StageOf(s) + PendingOf(o) + 2, NEW u
    PROVE  Amount(l, v, t, p, u) < Amount(l, w, s, o, u)
<1> DEFINE c == IF u THEN 1 ELSE 0
<1>1. StageOf(t) \in Nat /\ PendingOf(p) \in Nat /\ StageOf(s) \in Nat /\ PendingOf(o) \in Nat /\ c \in Nat
  BY DEF StageOf, PendingOf
<1> HIDE DEF c
<1>2. 3 * l + v + StageOf(t) + PendingOf(p) + c < 3 * l + w + StageOf(s) + PendingOf(o) + c
  BY <1>1
<1> QED BY <1>2 DEF Amount, c

LEMMA StepLess ==
    ASSUME Inv, Next, vars' # vars
    PROVE  Remaining' < Remaining
<1> DEFINE W == Unwritten(job.answer, m_esc_stm, given)
           L == Len(net)
<1>1. Inv'
  BY NextInv
<1>2. /\ Remaining = Amount(L, W, m_state, op, m_unconsumedInput)
      /\ Remaining' = Amount(L', W', m_state', op', m_unconsumedInput')
      /\ L \in Nat /\ L' \in Nat /\ W \in Int /\ W' \in Int
  <2>1. TypeOK /\ TypeOK'
    BY <1>1 DEF Inv, PhaseInv, TypeOK
  <2>2. (TypeOK => /\ Remaining = Amount(L, W, m_state, op, m_unconsumedInput)
                   /\ L \in Nat /\ W \in Int)'
    BY RemainingIs, PTL
  <2> QED BY <2>1, <2>2, RemainingIs
<1>3. /\ job \in Exchange /\ net \in Seq(Chars)
      /\ NetInv(net) /\ OpInv(op, net) /\ InputInv(net) /\ PhaseInv(op, wire, net) /\ outsize = OutSize
  BY DEF Inv, PhaseInv, PhaseType, OtherType
<1>4. (job' = job /\ m_esc_stm' = m_esc_stm /\ given' = given => W' = W) /\ (net' = net => L' = L)
  OBVIOUS
<1> USE <1>2 DEF Amount, StageOf, PendingOf
<1> HIDE DEF W, L
<1>5. CASE Receive
  <2>1. PICK n \in (IF op = "START" THEN 0 ELSE 1)..Len(net) :
          /\ PutInput([m_input EXCEPT !.eodcharbuf = <<>>], m_input.eodcharbuf \o SubSeq(net, 1, n))
          /\ net' = SubSeq(net, n + 1, Len(net))
    BY <1>5 DEF Receive
  <2>2. /\ op \in {"START", "READ"} /\ op' = "none" /\ m_state' = m_state /\ job' = job
        /\ m_esc_stm' = m_esc_stm /\ given' = given
    BY <1>5 DEF Receive, outputVars
  <2>3. L' = L - n /\ n \in Nat /\ (op = "READ" => n >= 1)
    <3>1. Len(net) \in Nat
      BY DEF L
    <3>2. n \in 0..Len(net) /\ n \in Nat /\ (op = "READ" => n >= 1)
      BY <3>1
    <3>3. Len(net') = Len(net) - n
      BY <1>3, <2>1, <2>2, <3>2, NetStep
    <3> QED BY <3>2, <3>3 DEF L
  <2>4. op = "READ" => m_unconsumedInput' = FALSE
    <3>1. op = "READ" => m_state # "StartProcessing"
      BY <1>3 DEF OpInv
    <3> QED BY <2>1, <3>1 DEF PutInput, Consume
  <2>5. W' = W
    BY <1>4, <2>2
  <2> QED BY <2>2, <2>3, <2>4, <2>5
<1>6. CASE Send
  <2>1. /\ op = "WRITE" /\ op' = "none" /\ m_state' = m_state /\ m_unconsumedInput' = m_unconsumedInput
        /\ W' = W /\ L' = L
    BY <1>4, <1>6 DEF Send, inputVars
  <2> QED BY <2>1
<1>7. CASE NoCommandHandler
  <2>1. /\ op' = op /\ m_state \in {"StartProcessing", "Processing"} /\ m_state' = "DiscardInput"
        /\ m_unconsumedInput' = m_unconsumedInput /\ W' = W /\ L' = L
    BY <1>4, <1>7 DEF NoCommandHandler, InProcess, Turn, netVars, inputVars, outputVars
  <2> QED BY <2>1
<1>8. CASE HandlerReads
  <2>1. op = "none" /\ m_state \in {"StartProcessing", "Processing"} /\ W' = W /\ L' = L
    BY <1>4, <1>8 DEF HandlerReads, InProcess, Turn, netVars, outputVars
  <2>2. CASE m_unconsumedInput
    <3>1. m_state' = "Processing" /\ op' = "none" /\ m_unconsumedInput' = FALSE
      BY <1>8, <2>2 DEF HandlerReads, Consume
    <3> QED BY <2>1, <2>2, <3>1
  <2>3. CASE ~m_unconsumedInput
    <3>1. /\ m_state' = IF m_gotEoD THEN "DiscardInput" ELSE "Processing"
          /\ op' = IF m_gotEoD THEN "none" ELSE "READ"
          /\ m_unconsumedInput' = m_unconsumedInput
      BY <1>8, <2>3 DEF HandlerReads, inputVars
    <3> QED BY <2>1, <2>3, <3>1
  <2> QED BY <2>2, <2>3
<1>9. CASE HandlerWrites
  <2>1. /\ op = "none" /\ m_state \in {"StartProcessing", "Processing"}
        /\ m_unconsumedInput' = m_unconsumedInput /\ L' = L /\ job' = job
    BY <1>4, <1>9 DEF HandlerWrites, InProcess, Turn, netVars, inputVars
  <2>2. m_state' = "FlushingOutput" /\ op' = "WRITE" /\ W' + 3 <= W
    <3>1. PICK x, u : x = wire /\ u = net
      OBVIOUS
    <3>2. PhaseInv(op, x, u) /\ outsize = OutSize
      BY <1>3, <3>1
    <3> QED BY <1>9, <2>1, <3>2, HandlerWritesInv DEF W
  <2>3. StageOf(m_state') + PendingOf(op') <= StageOf(m_state) + PendingOf(op) + 2
    BY <2>1, <2>2
  <2> HIDE DEF Amount, StageOf, PendingOf
  <2>4. Amount(L, W', m_state', op', m_unconsumedInput) < Amount(L, W, m_state, op, m_unconsumedInput)
    BY <2>2, <2>3, AmountLess
  <2> QED BY <2>1, <2>4
<1>10. CASE HandlerCloses
  <2>1. /\ op' = op /\ m_state \in {"StartProcessing", "Processing"} /\ m_state' = "DiscardInput"
        /\ m_unconsumedInput' = m_unconsumedInput /\ W' = W /\ L' = L
    BY <1>4, <1>10 DEF HandlerCloses, InProcess, Turn, netVars, inputVars, outputVars
  <2> QED BY <2>1
<1>11. CASE FlushOutput
  <2>1. /\ op = "none" /\ m_state = "FlushingOutput"
        /\ m_unconsumedInput' = m_unconsumedInput /\ L' = L /\ job' = job /\ given' = given
        /\ op' = IF m_writedata' # <<>> THEN "WRITE" ELSE "none"
        /\ m_state' = IF m_writedata' # <<>> THEN "FlushingOutput" ELSE "Processing"
    BY <1>4, <1>11 DEF FlushOutput, Turn, netVars, inputVars
  <2>2. IF m_writedata' = <<>> THEN W' = W ELSE W' + 3 <= W
    <3>1. PICK x, u : x = wire /\ u = net
      OBVIOUS
    <3>2. PhaseInv(op, x, u) /\ outsize = OutSize
      BY <1>3, <3>1
    <3> QED BY <1>11, <2>1, <3>2, FlushOutputInv DEF W
  <2>3. CASE m_writedata' = <<>>
    BY <2>1, <2>2, <2>3
  <2>4. CASE m_writedata' # <<>>
    <3>1. StageOf(m_state') + PendingOf(op') <= StageOf(m_state) + PendingOf(op) + 2
      BY <2>1, <2>4
    <3> HIDE DEF Amount, StageOf, PendingOf
    <3>2. Amount(L, W', m_state', op', m_unconsumedInput) < Amount(L, W, m_state, op, m_unconsumedInput)
      BY <2>2, <2>4, <3>1, AmountLess
    <3> QED BY <2>1, <3>2
  <2> QED BY <2>3, <2>4
<1>12. CASE Discard
  <2>1. op = "none" /\ m_state = "DiscardInput" /\ W' = W /\ L' = L
    BY <1>4, <1>12 DEF Discard, Turn, netVars
  <2>2. CASE m_gotEoD
    <3>1. m_state' = "Terminated" /\ op' = "WRITE" /\ m_unconsumedInput' = m_unconsumedInput
      BY <1>12, <2>2 DEF Discard, inputVars
    <3> QED BY <2>1, <3>1
  <2>3. CASE ~m_gotEoD /\ m_unconsumedInput
    <3>1. m_state' = m_state /\ op' = "none" /\ m_unconsumedInput' = FALSE
      BY <1>12, <2>3 DEF Discard, Consume
    <3> QED BY <2>1, <2>3, <3>1
  <2>4. CASE ~m_gotEoD /\ ~m_unconsumedInput
    <3>1. m_state' = m_state /\ op' = "READ" /\ m_unconsumedInput' = m_unconsumedInput
      BY <1>12, <2>4 DEF Discard, inputVars
    <3> QED BY <2>1, <2>4, <3>1
  <2> QED BY <2>2, <2>3, <2>4
<1>13. CASE Close
  <2>1. /\ op = "none" /\ op' = "CLOSE" /\ m_state' = m_state
        /\ m_unconsumedInput' = m_unconsumedInput /\ W' = W /\ L' = L
    BY <1>4, <1>13 DEF Close, Turn, netVars, inputVars, outputVars
  <2> QED BY <2>1
<1> QED BY <1>5, <1>6, <1>7, <1>8, <1>9, <1>10, <1>11, <1>12, <1>13 DEF Next, NextOperation, Closed

\* Whatever the command handler does and however the network cuts the data, every
\* step of the data phase leaves less to do (nextOperation()).
THEOREM EveryStepLeavesLess == Spec => PhaseEnds
<1>1. Inv /\ [Next]_vars => [Remaining' < Remaining]_vars
  BY StepLess
<1> QED BY <1>1, Invariant, PTL DEF Spec, PhaseEnds

\* What is left to do is never below zero, so that a data phase has no more steps
\* than Remaining at its start: with EveryStepLeavesLess, it ends.
THEOREM RemainingIsBounded == Spec => [](Remaining \in Nat)
<1>1. Inv => Remaining \in Nat
  <2> SUFFICES ASSUME Inv PROVE Remaining \in Nat
    OBVIOUS
  <2> DEFINE a == job.answer
             W == Unwritten(a, m_esc_stm, given)
  <2>1. TypeOK /\ a \in Seq(Chars) /\ given \in 0..Len(a) /\ m_esc_stm.blk \in Seq(Chars)
    BY ExchangeType DEF Inv, PhaseInv, PhaseType, TypeOK, OtherType
  <2>2. Remaining = Amount(Len(net), W, m_state, op, m_unconsumedInput) /\ Len(net) \in Nat
    BY <2>1, RemainingIs
  <2>3. PICK k \in 0..given : AtByte(m_esc_stm, a, k, given)
    BY DEF Inv, PhaseInv, OutputInv
  <2> HIDE DEF a
  <2>4. Len(a) \in Nat /\ given \in Nat /\ given <= Len(a) /\ k \in Nat /\ k <= given /\ Len(m_esc_stm.blk) \in Nat
    BY <2>1
  <2>5. m_esc_stm.state = "LFdot" => Len(m_esc_stm.blk) >= 1
    <3>1. k \in 0..Len(a) /\ given \in k..Len(a)
      BY <2>4
    <3>2. Len(SubSeq(a, k + 1, given)) = given - k
      BY <2>1, <3>1, SubSeqIs
    <3>3. Len(m_esc_stm.blk) = given - k /\ (m_esc_stm.state = "LFdot" => k < given)
      BY <2>3, <3>2 DEF AtByte
    <3> QED BY <2>4, <3>3
  <2>6. W \in Nat
    BY <2>4, <2>5 DEF Unwritten
  <2>7. StageOf(m_state) \in Nat /\ PendingOf(op) \in Nat
    BY DEF StageOf, PendingOf
  <2> HIDE DEF W
  <2> QED BY <2>2, <2>6, <2>7 DEF Amount
<1> QED BY <1>1, Invariant, PTL
=============================================================================
