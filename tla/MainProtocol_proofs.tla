------------------------ MODULE MainProtocol_proofs ------------------------
(***************************************************************************)
(* Proofs about MainProtocol, for all scripts of the clients, all ways the *)
(* network cuts what they send into blocks and all orders in which command *)
(* handlers read, write and close, writing first included: every message   *)
(* gets its reply in order and exactly once, a command handler reads its   *)
(* request as it was sent, and while the server reads an interrupted data  *)
(* session is ended for exactly the clients that wait for its end. Replies *)
(* are what ReplyPrinted says: none to a line behind one that starts with  *)
(* a space, and an answer without the output that a command handler wrote  *)
(* before its first read, which the code loses.                            *)
(*                                                                         *)
(* The invariant says, for every state the line handler can be in, how     *)
(* many messages are dealt with, where in the next one it reads, and that  *)
(* what is printed is the replies to them. While a request is served it    *)
(* uses the invariant of the data phase, PhaseInv of module EscDlf_proofs, *)
(* with what the caller of the data handler has taken and has not given.   *)
(***************************************************************************)
EXTENDS MainProtocol, EscDlf_proofs

\* What the server prints.
CommandReplies == {"MECHS", "OK no authentication", "ERR denied", "BYE", "OK capabilities", "ERR arguments"}
LineErrors == {"ERR unknown command", "ERR bad command line", "ERR command line starting with spaces"}
Statuses == {"ERR doctype", "ERR REQUEST", "OK REQUEST"}

Tokens == Chars \cup CommandReplies \cup LineErrors \cup Statuses \cup {"ANSWER"}

\* The bytes of the messages of s from i + 1 to k.
BytesOf(s, i, k) == SubSeq(BytesTo(s)[k], Len(BytesTo(s)[i]) + 1, Len(BytesTo(s)[k]))

\* The bytes of these messages behind the line of message i + 1.
Behind(s, i, k) == Data(s[i + 1]) \o BytesOf(s, i + 1, k)

Stands(i) == Standing(script)[i]
Replied(i) == RepliesTo(script, served)[i]

\* The line behind the first i messages.
LineOf(i) == script[i + 1].line
IsJob(i) == script[i].job # NoJob

-----------------------------------------------------------------------------
(* The invariant *)

LineStates == {"EnterCommand", "ParseArgs", "ParseArgsEOL", "ProtocolError"}
Endings == {"endRequest", "endErrDocumentType"}
ProtocolStates == {"Unauthenticated", "Authentication", "Authenticated"}

MainType ==
    /\ script \in Scripts /\ sent \in 0..Len(script)
    /\ net \in Seq(Chars) /\ inp \in Seq(Chars) /\ dbuf \in Seq(Chars)
    /\ wire \in Seq(Tokens) /\ m_output \in Seq(Tokens) /\ m_resultstr \in Seq(Tokens)
    /\ m_buffer \in Seq(Chars) /\ m_cmd \in Seq(Chars)
    /\ m_cmdstateidx \in LineStates \cup {"Init", "ProcessOutput", "ProcessingDelegation", "Terminate"}
    /\ m_stateidx \in ProtocolStates
    /\ m_refuseInputFlag \in BOOLEAN
    /\ m_delegateHandler \in Endings \cup {"none", "doctype"}
    /\ caller \in {"none", "prefetch", "redirect", "delegate"}
    /\ op \in {"none", "READ", "WRITE", "CLOSE"}

\* What is returned to whom, and who calls whom, in which state.
Control ==
    /\ m_output # <<>> => op = "WRITE" /\ caller = "none"
    /\ caller = "none" =>
         /\ op = "READ" => \/ m_cmdstateidx \in LineStates /\ inp = <<>>
                           \/ m_cmdstateidx = "ProcessingDelegation"
         /\ op = "WRITE" => m_cmdstateidx \in {"ProtocolError", "ProcessOutput"}
         /\ op = "CLOSE" <=> m_cmdstateidx = "Terminate"
         /\ m_cmdstateidx = "ProcessingDelegation" => m_delegateHandler = "doctype"
         /\ m_cmdstateidx \in LineStates \cup {"Terminate"} => m_delegateHandler = "none"
         /\ m_delegateHandler \in {"none", "doctype"} => m_state = "Terminated"
         /\ m_delegateHandler \in Endings => m_delegateHandler = ending
    /\ caller = "delegate" => /\ m_cmdstateidx = "ProcessingDelegation"
                              /\ ending \in Endings /\ m_delegateHandler = ending
    /\ caller \in {"prefetch", "redirect"} => /\ m_cmdstateidx = "ProcessOutput"
                                              /\ ending \in Endings /\ m_delegateHandler = "none"

\* The first i messages are dealt with; of the others that are sent one may be a
\* request.
Progress(i) ==
    /\ i \in 0..sent
    /\ DOMAIN served = {k \in 1..i : IsJob(k)}
    /\ \A k, l \in (i + 1)..sent : IsJob(k) /\ IsJob(l) => k = l
    /\ \A k \in DOMAIN served : /\ served[k].given \in 0..Len(script[k].job.answer)
                                /\ served[k].status \in Statuses

\* What is not read when p bytes of line i + 1 are read.
Unread(i, p) == IF i = sent THEN <<>> ELSE From(LineOf(i), p + 1) \o Behind(script, i, sent)

\* The next byte to read is byte p + 1 of line i + 1, if it is sent.
AtLine(i, p) ==
    /\ IF i = sent THEN p = 0 ELSE p < Len(LineOf(i))
    /\ inp \o net = Unread(i, p)

\* A command is read in the state after i messages.
InCommand(i, p) ==
    /\ AtLine(i, p)
    /\ Stands(i) = [st |-> m_stateidx, skip |-> FALSE]
    /\ wire \o m_output = Replied(i)

Entering(i) ==
    \E p \in Nat :
        /\ InCommand(i, p)
        /\ IF i = sent THEN m_buffer = <<>>
           ELSE m_buffer = SubSeq(LineOf(i), 1, p) /\ p <= Span(LineOf(i), EOL \cup {SP})

\* The command is found, its arguments are read.
HasCommand(i, p) ==
    /\ i < sent
    /\ InCommand(i, p)
    /\ m_cmd = Word(LineOf(i)) /\ Known(m_stateidx, m_cmd)
    /\ ~m_refuseInputFlag

Parsing(i) ==
    \E p \in Nat :
        /\ HasCommand(i, p)
        /\ Len(Word(LineOf(i))) <= p /\ p <= Span(LineOf(i), EOL)
        /\ m_buffer = Words(SubSeq(LineOf(i), Len(Word(LineOf(i))) + 1, p))

EndingLine(i) ==
    \E p \in Nat :
        /\ HasCommand(i, p)
        /\ \/ p = Span(LineOf(i), EOL)
           \/ p = Span(LineOf(i), EOL) + 1 /\ LineOf(i)[p] = CR
        /\ m_buffer = Args(LineOf(i))

\* The rest of the line is skipped, or the next one.
Skipping(i) ==
    \E p \in Nat :
        /\ AtLine(i, p)
        /\ IF i = sent
           THEN Stands(i) = [st |-> m_stateidx, skip |-> TRUE] /\ wire \o m_output = Replied(i)
           ELSE /\ EndsLine(From(LineOf(i), p + 1)) /\ ~IsJob(i + 1)
                /\ Stands(i + 1) = [st |-> m_stateidx, skip |-> FALSE]
                /\ wire \o m_output = Replied(i + 1)

\* The state a command, or a sub-protocol, has returned is st.
Returned(st) ==
    /\ m_cmdstateidx = "ProcessOutput" => m_resultstate = st
    /\ m_cmdstateidx = "Init" => m_stateidx = st /\ m_resultstr = <<>>

Printing(i) ==
    /\ AtLine(i, 0)
    /\ ~Stands(i).skip /\ Returned(Stands(i).st)
    /\ wire \o m_output \o m_resultstr = Replied(i)

Terminating(i) ==
    /\ Stands(i) = [st |-> "none", skip |-> FALSE]
    /\ wire = Replied(i)

\* Message i + 1 is a request, and job is what it asks.
Asking(i) ==
    /\ i < sent /\ IsJob(i + 1)
    /\ job = [request |-> script[i + 1].job.request, answer |-> script[i + 1].job.answer,
              rest |-> BytesOf(script, i + 1, sent)]
    /\ m_stateidx = Stands(i).st

\* doRequest() has been called, and the filter for document types waits for data.
Delegating(i) ==
    /\ Asking(i)
    /\ Returned(m_stateidx) /\ m_resultstr = <<>>
    /\ ~m_refuseInputFlag /\ dbuf = <<>>
    /\ inp \o net = Stream(job)
    /\ wire \o m_output = Replied(i)

Detecting(i) ==
    /\ Asking(i)
    /\ ~m_refuseInputFlag
    /\ dbuf \o net = Stream(job)
    /\ wire = Replied(i)
    /\ op = "READ" => ~LineWithDot

\* The first operation of the command handler is fetched. When it is WRITE the data
\* handler has closed, and its output is lost.
Prefetching(i) ==
    /\ Asking(i)
    /\ Returned(m_stateidx) /\ m_resultstr = <<"ANSWER">>
    /\ ~m_refuseInputFlag
    /\ wire = Replied(i)
    /\ dbuf \o net = Stream(job)
    /\ outsize = 0
    /\ \/ /\ PhaseInv(op, <<>>, dbuf \o net)
          /\ op \in {"none", "READ"}
          /\ m_state \in {"StartProcessing", "Processing", "DiscardInput"}
          /\ m_input = EmptyBlock /\ ~m_unconsumedInput /\ ~m_gotEoD
       \/ op = "CLOSE" /\ m_state = "Terminated"

\* The data handler has printed x, which goes to the result.
Redirecting(i) ==
    /\ Asking(i)
    /\ Returned(m_stateidx)
    /\ ~m_refuseInputFlag
    /\ wire = Replied(i)
    /\ outsize = OutSize
    /\ \E x \in Seq(Chars) : m_resultstr = <<"ANSWER">> \o x /\ PhaseInv(op, x, net)

\* All the data handler prints.
Whole == Escaped(SubSeq(job.answer, 1, given)) \o Marker

\* The result is printed before the data handler is called again: it waits for
\* input, or has closed.
Holding(i) ==
    /\ Asking(i)
    /\ Returned(m_stateidx)
    /\ IF m_state = "Terminated"
       THEN /\ InputType /\ given \in 0..Len(job.answer)
            /\ inp \o net = job.rest /\ m_refuseInputFlag = (inp # <<>>)
            /\ wire \o m_output \o m_resultstr = Replied(i) \o <<"ANSWER">> \o Whole
       ELSE /\ inp = <<>> /\ ~m_refuseInputFlag
            /\ m_state \in {"Processing", "DiscardInput"} /\ ~m_unconsumedInput /\ ~m_gotEoD
            /\ \E x \in Seq(Chars) : /\ PhaseInv("none", x, net)
                                     /\ wire \o m_output \o m_resultstr = Replied(i) \o <<"ANSWER">> \o x

\* The data handler is called by the line handler. A handler that has closed before
\* closes again.
Delegated(i) ==
    /\ Asking(i)
    /\ \/ /\ ~m_refuseInputFlag /\ outsize = OutSize
          /\ \E x \in Seq(Chars) : PhaseInv(op, x, net) /\ wire = Replied(i) \o <<"ANSWER">> \o x
       \/ /\ m_state = "Terminated" /\ op \in {"none", "CLOSE"} /\ given \in 0..Len(job.answer)
          /\ (IF m_refuseInputFlag THEN inp ELSE DataLeft) \in Seq(Chars)
          /\ (IF m_refuseInputFlag THEN inp ELSE DataLeft) \o net = job.rest
          /\ wire = Replied(i) \o <<"ANSWER">> \o Whole

Mode(i) ==
    /\ caller = "none" /\ m_cmdstateidx = "EnterCommand" => Entering(i)
    /\ caller = "none" /\ m_cmdstateidx = "ParseArgs" => Parsing(i)
    /\ caller = "none" /\ m_cmdstateidx = "ParseArgsEOL" => EndingLine(i)
    /\ caller = "none" /\ m_cmdstateidx = "ProtocolError" => Skipping(i)
    /\ caller = "none" /\ m_cmdstateidx = "Terminate" => Terminating(i)
    /\ caller = "none" /\ m_cmdstateidx = "ProcessingDelegation" => Detecting(i)
    /\ caller = "none" /\ m_cmdstateidx \in {"ProcessOutput", "Init"} =>
         /\ m_delegateHandler = "none" => Printing(i)
         /\ m_delegateHandler = "doctype" => Delegating(i)
         /\ m_delegateHandler \in Endings => Holding(i)
    /\ caller = "prefetch" => Prefetching(i)
    /\ caller = "redirect" => Redirecting(i)
    /\ caller = "delegate" => Delegated(i)

DialogueInv == MainType /\ Control /\ \E i \in 0..sent : Progress(i) /\ Mode(i)

-----------------------------------------------------------------------------
(* Sequences and lines *)

LEMMA Assoc ==
    ASSUME NEW C, NEW a \in Seq(C), NEW b \in Seq(C), NEW c \in Seq(C)
    PROVE  (a \o b) \o c = a \o (b \o c) /\ a \o b \in Seq(C) /\ b \o c \in Seq(C) /\ a \o (b \o c) \in Seq(C)
<1>1. a \o b \in Seq(C) /\ b \o c \in Seq(C)
  OBVIOUS
<1>2. (a \o b) \o c \in Seq(C) /\ a \o (b \o c) \in Seq(C)
  BY <1>1
<1>3. Len((a \o b) \o c) = Len(a \o (b \o c))
  OBVIOUS
<1>4. \A i \in 1..Len((a \o b) \o c) : ((a \o b) \o c)[i] = (a \o (b \o c))[i]
  OBVIOUS
<1> QED BY <1>1, <1>2, <1>3, <1>4, SeqEq

LEMMA NoBytes ==
    ASSUME NEW C, NEW a \in Seq(C), NEW b \in Seq(C)
    PROVE  /\ <<>> \o a = a /\ a \o <<>> = a /\ <<>> \in Seq(C)
           /\ a \o b = <<>> => a = <<>> /\ b = <<>>
           /\ Len(a) = 0 <=> a = <<>>
  OBVIOUS

\* What From() leaves, and what it leaves out.
LEMMA FromIs ==
    ASSUME NEW C, NEW s \in Seq(C), NEW n \in 0..Len(s)
    PROVE  /\ From(s, n + 1) \in Seq(C) /\ Len(From(s, n + 1)) = Len(s) - n
           /\ \A i \in 1..(Len(s) - n) : From(s, n + 1)[i] = s[n + i]
           /\ SubSeq(s, 1, n) \in Seq(C) /\ Len(SubSeq(s, 1, n)) = n
           /\ \A i \in 1..n : SubSeq(s, 1, n)[i] = s[i]
           /\ From(s, 1) = s
           /\ From(s, n + 1) = <<>> <=> n = Len(s)
<1>1. Len(s) \in Nat /\ n \in Nat /\ n <= Len(s)
  OBVIOUS
<1>2. /\ From(s, n + 1) \in Seq(C) /\ Len(From(s, n + 1)) = Len(s) - n
      /\ \A i \in 1..(Len(s) - n) : From(s, n + 1)[i] = s[n + i]
  <2>1. Len(s) \in n..Len(s)
    BY <1>1
  <2> QED BY <2>1, SubSeqIs DEF From
<1>3. /\ SubSeq(s, 1, n) \in Seq(C) /\ Len(SubSeq(s, 1, n)) = n
      /\ \A i \in 1..n : SubSeq(s, 1, n)[i] = s[i]
  BY <1>1
<1>4. From(s, 1) = s
  BY DEF From
<1>5. From(s, n + 1) = <<>> <=> n = Len(s)
  <2>1. From(s, n + 1) = <<>> <=> Len(From(s, n + 1)) = 0
    BY <1>2, NoBytes
  <2> QED BY <1>1, <1>2, <2>1
<1> QED BY <1>2, <1>3, <1>4, <1>5

LEMMA FromConcat ==
    ASSUME NEW C, NEW s \in Seq(C), NEW t \in Seq(C), NEW n \in 0..Len(s)
    PROVE  /\ From(s \o t, n + 1) = From(s, n + 1) \o t
           /\ SubSeq(s \o t, 1, n) = SubSeq(s, 1, n)
<1> DEFINE v == s \o t
           f == From(s, n + 1)
           g == From(v, n + 1)
           h == f \o t
<1>1. v \in Seq(C) /\ Joined(v, s, t)
  BY ConcatIs
<1> HIDE DEF v
<1>2. Len(s) \in Nat /\ Len(t) \in Nat /\ Len(v) = Len(s) + Len(t) /\ n \in Nat /\ n <= Len(s) /\ n \in 0..Len(v)
  BY <1>1 DEF Joined
<1>3. f \in Seq(C) /\ Len(f) = Len(s) - n /\ \A i \in 1..(Len(s) - n) : f[i] = s[n + i]
  BY FromIs
<1>4. g \in Seq(C) /\ Len(g) = Len(v) - n /\ \A i \in 1..(Len(v) - n) : g[i] = v[n + i]
  BY <1>1, <1>2, FromIs, ZenonT(40)
<1> HIDE DEF f, g
<1>5. h \in Seq(C) /\ Joined(h, f, t)
  BY <1>3, ConcatIs
<1> HIDE DEF h
<1>6. Len(h) = Len(g)
  BY <1>2, <1>3, <1>4, <1>5 DEF Joined
<1>7. ASSUME NEW i \in 1..Len(g) PROVE g[i] = h[i]
  <2>1. g[i] = v[n + i]
    BY <1>4
  <2>2. CASE i \in 1..(Len(s) - n)
    <3>1. n + i \in 1..Len(s)
      BY <1>2, <2>2
    <3> QED BY <1>1, <1>3, <1>5, <2>1, <2>2, <3>1 DEF Joined
  <2>3. CASE i \notin 1..(Len(s) - n)
    <3> DEFINE d == i - (Len(s) - n)
    <3>1. d \in 1..Len(t) /\ n + i = Len(s) + d /\ i = Len(f) + d
      BY <1>2, <1>3, <1>4, <2>3
    <3> HIDE DEF d
    <3> QED BY <1>1, <1>5, <2>1, <3>1 DEF Joined
  <2> QED BY <2>2, <2>3
<1>8. g = h
  BY <1>4, <1>5, <1>6, <1>7, SeqEq
<1>9. SubSeq(v, 1, n) = SubSeq(s, 1, n)
  <2>1. SubSeq(v, 1, n) \in Seq(C) /\ Len(SubSeq(v, 1, n)) = n /\ \A i \in 1..n : SubSeq(v, 1, n)[i] = v[i]
    BY <1>1, <1>2, FromIs
  <2>2. SubSeq(s, 1, n) \in Seq(C) /\ Len(SubSeq(s, 1, n)) = n /\ \A i \in 1..n : SubSeq(s, 1, n)[i] = s[i]
    BY FromIs
  <2>3. \A i \in 1..n : i \in 1..Len(s)
    BY <1>2
  <2>4. \A i \in 1..n : v[i] = s[i]
    BY <1>1, <2>3 DEF Joined
  <2> QED BY <2>1, <2>2, <2>4, SeqEq
<1> QED BY <1>8, <1>9 DEF v, f, g, h

\* The first n bytes of the same bytes, cut in two ways.
SplitAt(s, t, a, b, n) == SubSeq(s, 1, n) = SubSeq(a, 1, n) /\ From(s, n + 1) \o t = From(a, n + 1) \o b

LEMMA SplitEq ==
    ASSUME NEW C, NEW s \in Seq(C), NEW t \in Seq(C), NEW a \in Seq(C), NEW b \in Seq(C), s \o t = a \o b,
           NEW n \in 0..Len(s), n <= Len(a)
    PROVE  SplitAt(s, t, a, b, n)
<1>1. n \in 0..Len(a)
  OBVIOUS
<1>2. From(s \o t, n + 1) = From(s, n + 1) \o t /\ SubSeq(s \o t, 1, n) = SubSeq(s, 1, n)
  BY FromConcat
<1>3. From(a \o b, n + 1) = From(a, n + 1) \o b /\ SubSeq(a \o b, 1, n) = SubSeq(a, 1, n)
  BY <1>1, FromConcat
<1> QED BY <1>2, <1>3, Zenon DEF SplitAt

\* What is left of a rest.
LEMMA FromFrom ==
    ASSUME NEW C, NEW s \in Seq(C), NEW p \in 0..Len(s), NEW n \in 0..(Len(s) - p)
    PROVE  /\ From(From(s, p + 1), n + 1) = From(s, p + n + 1)
           /\ SubSeq(From(s, p + 1), 1, n) = SubSeq(s, p + 1, p + n)
           /\ SubSeq(s, 1, p) \o SubSeq(s, p + 1, p + n) = SubSeq(s, 1, p + n)
           /\ p + n \in 0..Len(s)
<1>1. Len(s) \in Nat /\ p \in Nat /\ n \in Nat /\ p + n \in 0..Len(s) /\ p + n \in p..Len(s)
  OBVIOUS
<1>2. From(s, p + 1) = SubSeq(s, p + 1, Len(s)) /\ Len(From(s, p + 1)) = Len(s) - p
  BY FromIs DEF From
<1>3. SubSeq(SubSeq(s, p + 1, Len(s)), n + 1, Len(s) - p) = SubSeq(s, (p + n) + 1, p + (Len(s) - p))
  <2>1. Len(s) - p \in n..(Len(s) - p)
    BY <1>1
  <2> QED BY <2>1, SubSeqOf
<1>4. SubSeq(SubSeq(s, p + 1, Len(s)), 0 + 1, n) = SubSeq(s, (p + 0) + 1, p + n)
  <2>1. 0 \in 0..(Len(s) - p) /\ n \in 0..(Len(s) - p)
    BY <1>1
  <2> QED BY <2>1, SubSeqOf
<1>5. SubSeq(s, 0 + 1, p) \o SubSeq(s, p + 1, p + n) = SubSeq(s, 0 + 1, p + n)
  <2>1. 0 \in 0..Len(s) /\ p \in 0..Len(s)
    BY <1>1
  <2> QED BY <1>1, <2>1, SubSeqJoin
<1>6. p + (Len(s) - p) = Len(s) /\ 0 + 1 = 1 /\ p + 0 = p /\ (p + n) + 1 = p + n + 1
  BY <1>1
<1> QED BY <1>1, <1>2, <1>3, <1>4, <1>5, <1>6 DEF From

LEMMA SpanIs ==
    ASSUME NEW C, NEW s \in Seq(C), NEW chars, NEW n, n = Span(s, chars)
    PROVE  /\ n \in 0..Len(s) /\ \A j \in 1..n : s[j] \notin chars
           /\ n < Len(s) => s[n + 1] \in chars
<1> DEFINE T == {i \in 1..Len(s) : s[i] \in chars}
<1>1. n = IF T = {} THEN Len(s) ELSE Min(T) - 1
  BY DEF Span
<1>2. CASE T = {}
  BY <1>1, <1>2
<1>3. CASE T # {}
  <2>1. T \subseteq Nat
    OBVIOUS
  <2>2. PICK c \in T : \A y \in T : c <= y
    <3> HIDE DEF T
    <3> QED BY <1>3, <2>1, Smallest
  <2>3. Min(T) = c
    <3> HIDE DEF T
    <3> QED BY <2>1, <2>2, MinIs
  <2>4. n = c - 1 /\ c \in 1..Len(s) /\ s[c] \in chars
    BY <1>1, <1>3, <2>2, <2>3
  <2>5. n \in 0..Len(s) /\ n + 1 = c
    BY <2>4
  <2>6. ASSUME NEW j \in 1..n PROVE s[j] \notin chars
    <3>1. j \in 1..Len(s) /\ ~(c <= j)
      BY <2>4
    <3> QED BY <2>2, <3>1
  <2> QED BY <2>4, <2>5, <2>6
<1> QED BY <1>2, <1>3

\* No other position has these properties.
LEMMA SpanAt ==
    ASSUME NEW C, NEW s \in Seq(C), NEW chars, NEW m \in 0..Len(s), \A j \in 1..m : s[j] \notin chars,
           m < Len(s) => s[m + 1] \in chars
    PROVE  Span(s, chars) = m
<1> DEFINE n == Span(s, chars)
<1>1. /\ n \in 0..Len(s) /\ \A j \in 1..n : s[j] \notin chars
      /\ n < Len(s) => s[n + 1] \in chars
  BY SpanIs
<1> HIDE DEF n
<1>2. ~(n < m)
  <2> SUFFICES ASSUME n < m PROVE FALSE
    OBVIOUS
  <2>1. n + 1 \in 1..m /\ n < Len(s)
    BY <1>1
  <2> QED BY <1>1, <2>1
<1>3. ~(m < n)
  <2> SUFFICES ASSUME m < n PROVE FALSE
    OBVIOUS
  <2>1. m + 1 \in 1..n /\ m < Len(s)
    BY <1>1
  <2> QED BY <1>1, <2>1
<1>4. n = m
  BY <1>1, <1>2, <1>3
<1> QED BY <1>4 DEF n

LEMMA NextBelow ==
    ASSUME NEW p \in Nat, NEW n \in Nat, NEW m \in Nat, NEW k \in Nat, NEW l \in Nat,
           p + n <= m, p + n # m, n <= k, n # k, m < l
    PROVE  n + 1 \in 1..k /\ n < k /\ p + (n + 1) \in 1..m /\ p + (n + 1) <= l
  OBVIOUS

\* Of line l, with b behind it, p bytes are read, s is the block at hand and t comes
\* behind it.
Reads(l, p, b, s, t) == s \o t = From(l, p + 1) \o b

\* n bytes of the block are read on.
LEMMA Drop ==
    ASSUME NEW C, NEW l \in Seq(C), NEW b \in Seq(C), NEW s \in Seq(C), NEW t \in Seq(C), NEW p \in Nat,
           Reads(l, p, b, s, t), NEW n \in 0..Len(s), p + n <= Len(l)
    PROVE  /\ Reads(l, p + n, b, From(s, n + 1), t)
           /\ SubSeq(s, 1, n) = SubSeq(l, p + 1, p + n)
<1> DEFINE r == From(l, p + 1)
<1>1. Len(l) \in Nat /\ p \in 0..Len(l) /\ n \in 0..(Len(l) - p)
  OBVIOUS
<1>2. r \in Seq(C) /\ Len(r) = Len(l) - p
  BY <1>1, FromIs
<1>3. n <= Len(r)
  BY <1>1, <1>2
<1>4. From(r, n + 1) = From(l, p + n + 1) /\ SubSeq(r, 1, n) = SubSeq(l, p + 1, p + n)
  BY <1>1, FromFrom
<1>5. s \o t = r \o b
  BY DEF Reads
<1> HIDE DEF r
<1>6. SplitAt(s, t, r, b, n)
  BY <1>2, <1>3, <1>5, SplitEq
<1> QED BY <1>4, <1>6 DEF SplitAt, Reads

LEMMA SameByte ==
    ASSUME NEW C, NEW l \in Seq(C), NEW b \in Seq(C), NEW s \in Seq(C), NEW t \in Seq(C), NEW p \in Nat,
           Reads(l, p, b, s, t), NEW i \in 1..Len(s), p + i <= Len(l)
    PROVE  s[i] = l[p + i]
<1> DEFINE r == From(l, p + 1)
           v == s \o t
<1>1. p \in 0..Len(l) /\ i \in 1..(Len(l) - p)
  OBVIOUS
<1>2. r \in Seq(C) /\ Len(r) = Len(l) - p /\ \A k \in 1..(Len(l) - p) : r[k] = l[p + k]
  BY <1>1, FromIs
<1>3. v \in Seq(C) /\ Joined(v, s, t)
  BY ConcatIs
<1>4. v = r \o b
  BY DEF Reads
<1> HIDE DEF r, v
<1>5. Joined(v, r, b)
  BY <1>2, <1>4, ConcatIs
<1> QED BY <1>1, <1>2, <1>3, <1>5 DEF Joined

LEMMA ReadsAll ==
    ASSUME NEW C, NEW l \in Seq(C), NEW b \in Seq(C), NEW s, NEW t
    PROVE  Reads(l, Len(l), b, s, t) <=> s \o t = b
<1>1. Len(l) \in 0..Len(l)
  OBVIOUS
<1>2. From(l, Len(l) + 1) = <<>>
  BY <1>1, FromIs
<1>3. <<>> \o b = b
  BY NoBytes
<1> QED BY <1>2, <1>3, Zenon DEF Reads

Scanned(l, p, b, s, t, chars, n) ==
    /\ n \in 0..Len(s) /\ p + n <= Span(l, chars) /\ (n # Len(s) => p + n = Span(l, chars))
    /\ SubSeq(s, 1, n) = SubSeq(l, p + 1, p + n)
    /\ Reads(l, p + n, b, From(s, n + 1), t)

\* The search for chars in the block finds the end of the search in the line, which
\* has a member of chars behind p, or the end of the block.
LEMMA Scans ==
    ASSUME NEW C, NEW l \in Seq(C), NEW b \in Seq(C), NEW s \in Seq(C), NEW t \in Seq(C), NEW p \in Nat, NEW chars,
           p <= Span(l, chars), Span(l, chars) < Len(l), Reads(l, p, b, s, t),
           NEW n, n = Span(s, chars)
    PROVE  Scanned(l, p, b, s, t, chars, n)
<1> DEFINE m == Span(l, chars)
<1>1. /\ m \in 0..Len(l) /\ \A j \in 1..m : l[j] \notin chars
      /\ m < Len(l) => l[m + 1] \in chars
  BY SpanIs
<1>2. /\ n \in 0..Len(s) /\ \A j \in 1..n : s[j] \notin chars
      /\ n < Len(s) => s[n + 1] \in chars
  BY SpanIs
<1>3. /\ p <= m /\ m < Len(l) /\ Len(s) \in Nat /\ Len(l) \in Nat
      /\ m \in Nat /\ n \in Nat /\ n <= Len(s)
  BY <1>1, <1>2
<1> HIDE DEF m
<1>6. \A i \in 1..Len(s) : p + i <= Len(l) => s[i] = l[p + i]
  BY SameByte
<1>7. p + n <= m
  <2> SUFFICES ASSUME ~(p + n <= m) PROVE FALSE
    OBVIOUS
  <2> DEFINE i == (m - p) + 1
  <2>1. i \in 1..n /\ i \in 1..Len(s) /\ p + i = m + 1 /\ m + 1 <= Len(l)
    BY <1>3
  <2> HIDE DEF i
  <2> QED BY <1>1, <1>2, <1>3, <1>6, <2>1
<1>8. n # Len(s) => p + n = m
  <2> SUFFICES ASSUME n # Len(s), p + n # m PROVE FALSE
    OBVIOUS
  <2>1. n + 1 \in 1..Len(s) /\ n < Len(s) /\ p + (n + 1) \in 1..m /\ p + (n + 1) <= Len(l)
    BY <1>3, <1>7, NextBelow
  <2> QED BY <1>1, <1>2, <1>6, <2>1
<1>9. p + n <= Len(l)
  BY <1>3, <1>7
<1>10. SubSeq(s, 1, n) = SubSeq(l, p + 1, p + n) /\ Reads(l, p + n, b, From(s, n + 1), t)
  BY <1>2, <1>9, Drop, SMTT(30)
<1> QED BY <1>2, <1>7, <1>8, <1>10 DEF m, Scanned

\* What consumeEOL() does, by the first two bytes.
LEMMA ConsumeEOLIs ==
    ASSUME NEW C, NEW s \in Seq(C)
    PROVE  /\ s = <<>> => ConsumeEOL(s) = [rest |-> <<>>, found |-> FALSE]
           /\ s # <<>> /\ s[1] = LF => ConsumeEOL(s) = [rest |-> From(s, 2), found |-> TRUE]
           /\ s # <<>> /\ s[1] = CR /\ Len(s) >= 2 /\ s[2] = LF
                => ConsumeEOL(s) = [rest |-> From(s, 3), found |-> TRUE]
           /\ s # <<>> /\ s[1] = CR /\ (Len(s) >= 2 => s[2] # LF)
                => ConsumeEOL(s) = [rest |-> From(s, 2), found |-> FALSE]
           /\ s # <<>> /\ s[1] \notin EOL => ConsumeEOL(s) = [rest |-> s, found |-> FALSE]
<1>1. s # <<>> => Head(s) = s[1] /\ Tail(s) = From(s, 2) /\ Len(s) >= 1 /\ Len(s) \in Nat
  BY DEF From
<1>2. s = <<>> => ConsumeEOL(s) = [rest |-> <<>>, found |-> FALSE]
  BY DEF ConsumeEOL
<1>3. s # <<>> /\ s[1] # CR => ConsumeEOL(s) = IF s[1] = LF THEN [rest |-> Tail(s), found |-> TRUE]
                                              ELSE [rest |-> s, found |-> FALSE]
  BY <1>1 DEF ConsumeEOL
<1> DEFINE t == Tail(s)
<1>4. s # <<>> => t \in Seq(C) /\ Len(t) = Len(s) - 1 /\ (Len(s) >= 2 => t # <<>> /\ Head(t) = s[2] /\ Tail(t) = From(s, 3))
  <2> SUFFICES ASSUME s # <<>> PROVE t \in Seq(C) /\ Len(t) = Len(s) - 1 /\ (Len(s) >= 2 => t # <<>> /\ Head(t) = s[2] /\ Tail(t) = From(s, 3))
    OBVIOUS
  <2>1. t \in Seq(C) /\ Len(t) = Len(s) - 1 /\ \A i \in 1..(Len(s) - 1) : t[i] = s[i + 1]
    OBVIOUS
  <2>2. ASSUME Len(s) >= 2 PROVE t # <<>> /\ Head(t) = s[2] /\ Tail(t) = From(s, 3)
    <3>1. t # <<>> /\ Head(t) = t[1] /\ t[1] = s[2]
      <4>1. 1 \in 1..(Len(s) - 1) /\ Len(t) # 0
        BY <1>1, <2>1, <2>2
      <4> HIDE DEF t
      <4> QED BY <2>1, <4>1
    <3>2. t = From(s, 1 + 1) /\ Tail(t) = From(t, 1 + 1)
      BY <1>1, <3>1, <2>1 DEF From
    <3>3. 1 \in 0..Len(s) /\ 1 \in 0..(Len(s) - 1)
      BY <1>1, <2>2
    <3>4. From(From(s, 1 + 1), 1 + 1) = From(s, 1 + 1 + 1)
      BY <3>3, FromFrom
    <3>5. 1 + 1 = 2 /\ 2 + 1 = 3
      OBVIOUS
    <3> QED BY <3>1, <3>2, <3>4, <3>5
  <2> QED BY <2>1, <2>2
<1> HIDE DEF t
<1>5. s # <<>> /\ s[1] = CR => ConsumeEOL(s) = IF t # <<>> /\ Head(t) = LF THEN [rest |-> Tail(t), found |-> TRUE]
                                              ELSE [rest |-> t, found |-> FALSE]
  BY <1>1, Zenon DEF ConsumeEOL, t
<1>6. s # <<>> => (t # <<>> <=> Len(s) >= 2)
  BY <1>1, <1>4
<1>7. s # <<>> /\ s[1] = CR /\ Len(s) >= 2 /\ s[2] = LF
                => ConsumeEOL(s) = [rest |-> From(s, 3), found |-> TRUE]
  BY <1>4, <1>5, <1>6
<1>8. s # <<>> /\ s[1] = CR /\ (Len(s) >= 2 => s[2] # LF)
                => ConsumeEOL(s) = [rest |-> From(s, 2), found |-> FALSE]
  <2>1. s # <<>> => t = From(s, 2)
    BY <1>1 DEF t
  <2> QED BY <1>4, <1>5, <1>6, <2>1
<1> QED BY <1>1, <1>2, <1>3, <1>7, <1>8, CharsDiffer DEF EOL

\* How a line ends, by positions.
Ended(s) ==
    LET e == Span(s, EOL)
    IN \/ Len(s) = e + 1 /\ s[e + 1] = LF
       \/ Len(s) = e + 2 /\ s[e + 1] = CR /\ s[e + 2] = LF

LEMMA EndsLineIs ==
    ASSUME NEW C, {CR, LF} \subseteq C, NEW s \in Seq(C)
    PROVE  EndsLine(s) <=> Ended(s)
<1> DEFINE e == Span(s, EOL)
           r == From(s, e + 1)
<1>1. e \in 0..Len(s) /\ e \in Nat /\ Len(s) \in Nat
  BY SpanIs
<1> HIDE DEF e
<1>2. r \in Seq(C) /\ Len(r) = Len(s) - e /\ \A i \in 1..(Len(s) - e) : r[i] = s[e + i]
  BY <1>1, FromIs
<1> HIDE DEF r
<1>3. r = <<LF>> <=> Len(s) = e + 1 /\ s[e + 1] = LF
  <2>1. r = <<LF>> <=> Len(r) = 1 /\ r[1] = LF
    BY <1>2
  <2> QED BY <1>1, <1>2, <2>1
<1>4. r = <<CR, LF>> <=> Len(s) = e + 2 /\ s[e + 1] = CR /\ s[e + 2] = LF
  <2>1. r = <<CR, LF>> <=> Len(r) = 2 /\ r[1] = CR /\ r[2] = LF
    <3>1. <<CR, LF>> \in Seq(C) /\ Len(<<CR, LF>>) = 2 /\ <<CR, LF>>[1] = CR /\ <<CR, LF>>[2] = LF
      OBVIOUS
    <3>2. ASSUME Len(r) = 2, r[1] = CR, r[2] = LF PROVE r = <<CR, LF>>
      <4> DEFINE q == <<CR, LF>>
      <4>1. q \in Seq(C) /\ Len(q) = 2 /\ q[1] = CR /\ q[2] = LF
        BY <3>1
      <4> HIDE DEF q
      <4>2. \A i \in 1..Len(r) : r[i] = q[i]
        BY <3>2, <4>1
      <4>3. r = q
        BY <1>2, <3>2, <4>1, <4>2, SeqEq
      <4> QED BY <4>3 DEF q
    <3> QED BY <3>1, <3>2
  <2> QED BY <1>1, <1>2, <2>1
<1> QED BY <1>3, <1>4 DEF EndsLine, Ended, e, r

\* What is left of such a line ends in the same way.
LEMMA EndsLater ==
    ASSUME NEW C, {CR, LF} \subseteq C, NEW s \in Seq(C), EndsLine(s), NEW n \in 0..(Len(s) - 1)
    PROVE  EndsLine(From(s, n + 1))
<1> DEFINE e == Span(s, EOL)
           r == From(s, n + 1)
<1>1. /\ e \in 0..Len(s) /\ e \in Nat /\ Len(s) \in Nat /\ n \in Nat /\ n < Len(s) /\ n \in 0..Len(s)
      /\ \A j \in 1..e : s[j] \notin EOL
  BY SpanIs
<1>2. \/ Len(s) = e + 1 /\ s[e + 1] = LF
      \/ Len(s) = e + 2 /\ s[e + 1] = CR /\ s[e + 2] = LF
  BY EndsLineIs DEF Ended
<1> HIDE DEF e
<1>3. r \in Seq(C) /\ Len(r) = Len(s) - n /\ \A i \in 1..(Len(s) - n) : r[i] = s[n + i]
  BY <1>1, FromIs
<1> HIDE DEF r
<1>4. CASE n <= e
  <2>1. e - n \in 0..Len(r) /\ e - n \in Nat /\ n + (e - n) = e /\ n + ((e - n) + 1) = e + 1 /\ n + ((e - n) + 2) = e + 2
    BY <1>1, <1>3, <1>4
  <2>2. ASSUME NEW j \in 1..(e - n) PROVE r[j] \notin EOL
    <3>1. n + j \in 1..e /\ j \in 1..(Len(s) - n)
      BY <1>1, <1>4
    <3> QED BY <1>1, <1>3, <3>1
  <2>3. (e - n) + 1 \in 1..(Len(s) - n)
    BY <1>1, <1>2, <1>4
  <2>4. r[(e - n) + 1] = s[e + 1] /\ s[e + 1] \in EOL
    BY <1>2, <1>3, <2>1, <2>3 DEF EOL
  <2>5. Span(r, EOL) = e - n
    BY <1>3, <2>1, <2>2, <2>4, SpanAt
  <2>6. CASE Len(s) = e + 1 /\ s[e + 1] = LF
    <3>1. Len(r) = (e - n) + 1 /\ r[(e - n) + 1] = LF
      BY <1>1, <1>3, <2>4, <2>6
    <3>2. Ended(r)
      BY <2>5, <3>1 DEF Ended
    <3> QED BY <1>3, <3>2, EndsLineIs DEF r
  <2>7. CASE Len(s) = e + 2 /\ s[e + 1] = CR /\ s[e + 2] = LF
    <3>1. Len(r) = (e - n) + 2 /\ r[(e - n) + 1] = CR
      BY <1>1, <1>3, <2>4, <2>7
    <3>2. (e - n) + 2 \in 1..(Len(s) - n)
      BY <1>1, <1>4, <2>7
    <3>3. r[(e - n) + 2] = LF
      BY <1>3, <2>1, <2>7, <3>2, SMTT(30)
    <3>4. Ended(r)
      BY <2>5, <3>1, <3>3 DEF Ended
    <3> QED BY <1>3, <3>4, EndsLineIs DEF r
  <2> QED BY <1>2, <2>6, <2>7
<1>5. CASE ~(n <= e)
  <2>1. Len(s) = e + 2 /\ s[e + 2] = LF /\ n = e + 1
    BY <1>1, <1>2, <1>5
  <2>2. Len(r) = 1 /\ 1 \in 1..(Len(s) - n) /\ n + 1 = e + 2 /\ 0 \in 0..Len(r)
    BY <1>1, <1>3, <2>1
  <2>3. r[1] = LF /\ LF \in EOL
    BY <1>3, <2>1, <2>2 DEF EOL
  <2>4. Span(r, EOL) = 0
    BY <1>3, <2>2, <2>3, SpanAt
  <2>5. Ended(r)
    BY <2>2, <2>3, <2>4 DEF Ended
  <2> QED BY <1>3, <2>5, EndsLineIs DEF r
<1> QED BY <1>4, <1>5

\* The only line feed is at the end.
LEMMA EndsAtLF ==
    ASSUME NEW C, {CR, LF} \subseteq C, NEW s \in Seq(C), EndsLine(s)
    PROVE  /\ Span(s, EOL) < Len(s) /\ s[Span(s, EOL) + 1] \in EOL
           /\ \A j \in 1..Len(s) : s[j] = LF <=> j = Len(s)
<1> DEFINE e == Span(s, EOL)
<1>1. e \in 0..Len(s) /\ e \in Nat /\ Len(s) \in Nat /\ \A j \in 1..e : s[j] \notin EOL
  BY SpanIs
<1>2. \/ Len(s) = e + 1 /\ s[e + 1] = LF
      \/ Len(s) = e + 2 /\ s[e + 1] = CR /\ s[e + 2] = LF
  BY EndsLineIs DEF Ended
<1> HIDE DEF e
<1>3. CR \in EOL /\ LF \in EOL
  BY DEF EOL
<1>4. e < Len(s) /\ s[e + 1] \in EOL
  BY <1>1, <1>2, <1>3
<1>5. ASSUME NEW j \in 1..Len(s) PROVE s[j] = LF <=> j = Len(s)
  <2>1. CASE j \in 1..e
    BY <1>1, <1>3, <1>4, <2>1
  <2>2. CASE j \notin 1..e
    <3>1. j = e + 1 \/ (j = e + 2 /\ Len(s) = e + 2)
      BY <1>1, <1>2, <2>2
    <3>2. e + 1 # e + 2
      BY <1>1
    <3> QED BY <1>2, <3>1, <3>2, CharsDiffer
  <2> QED BY <2>1, <2>2
<1> QED BY <1>4, <1>5 DEF e

\* The parts of the line of a message.
Shaped(l) ==
    LET e == Span(l, EOL)
        w == Span(l, EOL \cup {SP})
    IN /\ e \in Nat /\ e < Len(l) /\ l[e + 1] \in EOL
       /\ w \in Nat /\ w <= e
       /\ \A j \in 1..Len(l) : l[j] = LF <=> j = Len(l)
       /\ Complete(l) <=> EndsLine(l)
       /\ ~EndsLine(l) => e + 2 <= Len(l) /\ l[e + 1] = CR /\ l[e + 2] \notin EOL /\ EndsLine(From(l, e + 2))

LEMMA LineShape ==
    ASSUME NEW C, {CR, LF} \subseteq C, NEW l \in Seq(C), EndsLine(l) \/ StrayCR(l)
    PROVE  Shaped(l)
<1> DEFINE e == Span(l, EOL)
           w == Span(l, EOL \cup {SP})
           r == From(l, e + 1)
           u == From(l, e + 2)
<1>1. e \in 0..Len(l) /\ e \in Nat /\ Len(l) \in Nat /\ \A j \in 1..e : l[j] \notin EOL
  BY SpanIs
<1>2. w \in 0..Len(l) /\ w \in Nat /\ \A j \in 1..w : l[j] \notin EOL \cup {SP}
  BY SpanIs
<1>3. StrayCR(l) => e + 2 <= Len(l) /\ l[e + 1] = CR /\ l[e + 2] \notin EOL /\ EndsLine(u)
  BY DEF StrayCR
<1>4. EndsLine(l) => e < Len(l) /\ l[e + 1] \in EOL /\ \A j \in 1..Len(l) : l[j] = LF <=> j = Len(l)
  BY EndsAtLF
<1>6. Complete(l) <=> ConsumeEOL(r).found
  BY DEF Complete
<1>7. EndsLine(l) => \/ Len(l) = e + 1 /\ l[e + 1] = LF
                     \/ Len(l) = e + 2 /\ l[e + 1] = CR /\ l[e + 2] = LF
  BY EndsLineIs DEF Ended
<1> HIDE DEF e
<1>5. r \in Seq(C) /\ Len(r) = Len(l) - e /\ \A i \in 1..(Len(l) - e) : r[i] = l[e + i]
  BY <1>1, FromIs
<1>8. e + 1 <= Len(l) => u \in Seq(C) /\ Len(u) = Len(l) - (e + 1) /\ \A i \in 1..(Len(l) - (e + 1)) : u[i] = l[(e + 1) + i]
  <2> SUFFICES ASSUME e + 1 <= Len(l)
               PROVE  u \in Seq(C) /\ Len(u) = Len(l) - (e + 1) /\ \A i \in 1..(Len(l) - (e + 1)) : u[i] = l[(e + 1) + i]
    OBVIOUS
  <2> DEFINE k == e + 1
  <2>1. u = From(l, k + 1) /\ k \in 0..Len(l)
    BY <1>1
  <2> HIDE DEF u, k
  <2>2. u \in Seq(C) /\ Len(u) = Len(l) - k /\ \A i \in 1..(Len(l) - k) : u[i] = l[k + i]
    <3>1. \A n \in 0..Len(l) : /\ From(l, n + 1) \in Seq(C) /\ Len(From(l, n + 1)) = Len(l) - n
                               /\ \A i \in 1..(Len(l) - n) : From(l, n + 1)[i] = l[n + i]
      BY FromIs
    <3> QED BY <2>1, <3>1, Zenon
  <2> QED BY <2>2 DEF k
<1> HIDE DEF w, r, u
<1>9. e < Len(l) /\ l[e + 1] \in EOL
  <2>1. CR \in EOL
    BY DEF EOL
  <2> QED BY <1>1, <1>3, <1>4, <2>1
<1>10. w <= e
  <2> SUFFICES ASSUME ~(w <= e) PROVE FALSE
    OBVIOUS
  <2>1. e + 1 \in 1..w
    BY <1>1, <1>2
  <2>2. l[e + 1] \notin EOL \cup {SP}
    BY <1>2, <2>1
  <2> QED BY <1>9, <2>2
<1>11. ASSUME EndsLine(l) PROVE ConsumeEOL(r).found = TRUE
  <2>1. CASE Len(l) = e + 1 /\ l[e + 1] = LF
    <3>1. r # <<>> /\ r[1] = LF
      BY <1>1, <1>5, <2>1
    <3>2. ConsumeEOL(r) = [rest |-> From(r, 2), found |-> TRUE]
      BY <1>5, <3>1, ConsumeEOLIs
    <3> QED BY <3>2
  <2>2. CASE Len(l) = e + 2 /\ l[e + 1] = CR /\ l[e + 2] = LF
    <3>1. r # <<>> /\ r[1] = CR /\ Len(r) >= 2 /\ r[2] = LF
      <4>1. 1 \in 1..(Len(l) - e) /\ 2 \in 1..(Len(l) - e) /\ Len(r) = 2
        BY <1>1, <1>5, <2>2
      <4>2. r[1] = CR /\ r[2] = LF
        BY <1>5, <2>2, <4>1
      <4> QED BY <1>5, <4>1, <4>2
    <3>2. ConsumeEOL(r) = [rest |-> From(r, 3), found |-> TRUE]
      BY <1>5, <3>1, ConsumeEOLIs
    <3> QED BY <3>2
  <2> QED BY <1>7, <1>11, <2>1, <2>2
<1>12. ASSUME StrayCR(l) PROVE ConsumeEOL(r).found = FALSE /\ ~EndsLine(l)
  <2>1. r # <<>> /\ r[1] = CR /\ Len(r) >= 2 /\ r[2] # LF
    <3>1. 1 \in 1..(Len(l) - e) /\ 2 \in 1..(Len(l) - e) /\ Len(r) >= 2
      BY <1>1, <1>3, <1>5, <1>12
    <3>2. LF \in EOL
      BY DEF EOL
    <3>3. r[1] = CR /\ r[2] # LF
      BY <1>3, <1>5, <1>12, <3>1, <3>2
    <3>4. r # <<>>
      BY <1>5, <3>1
    <3> QED BY <3>1, <3>3, <3>4
  <2>2. ConsumeEOL(r) = [rest |-> From(r, 2), found |-> FALSE]
    BY <1>5, <2>1, ConsumeEOLIs
  <2>3. ConsumeEOL(r).found = FALSE
    BY <2>2
  <2> QED BY <1>11, <2>3
<1>13. ASSUME StrayCR(l), NEW j \in 1..Len(l) PROVE l[j] = LF <=> j = Len(l)
  <2>1. e + 2 <= Len(l) /\ l[e + 1] = CR /\ EndsLine(u) /\ e + 1 <= Len(l)
    BY <1>1, <1>3, <1>13
  <2>2. u \in Seq(C) /\ Len(u) = Len(l) - (e + 1) /\ \A i \in 1..(Len(l) - (e + 1)) : u[i] = l[(e + 1) + i]
    BY <1>8, <2>1
  <2>3. \A i \in 1..Len(u) : u[i] = LF <=> i = Len(u)
    BY <2>1, <2>2, EndsAtLF
  <2>4. CASE j <= e
    <3>1. j \in 1..e /\ j # Len(l)
      BY <1>1, <2>1, <2>4
    <3> QED BY <1>1, <3>1 DEF EOL
  <2>5. CASE j = e + 1
    <3>1. j # Len(l)
      BY <1>1, <2>1, <2>5
    <3> QED BY <2>1, <2>5, <3>1, CharsDiffer
  <2>6. CASE j > e + 1
    <3> DEFINE i == j - (e + 1)
    <3>1. i \in 1..Len(u) /\ i \in 1..(Len(l) - (e + 1)) /\ (e + 1) + i = j /\ (i = Len(u) <=> j = Len(l))
      BY <1>1, <2>2, <2>6
    <3> HIDE DEF i
    <3> QED BY <2>2, <2>3, <3>1
  <2> QED BY <1>1, <2>4, <2>5, <2>6
<1>14. Complete(l) <=> EndsLine(l)
  BY <1>6, <1>11, <1>12
<1> QED BY <1>1, <1>2, <1>3, <1>4, <1>9, <1>10, <1>13, <1>14 DEF Shaped, e, w, u

\* At the end of a line, when c is what consumeEOL() gives: the line has ended, or
\* the block, or there is a carriage return in the line.
LineEnds(l, b, t, c) == c.found = TRUE /\ EndsLine(l) /\ c.rest \o t = b

AtEnd(l, q) == q \in Nat /\ q < Len(l) /\ (q = Span(l, EOL) \/ (q = Span(l, EOL) + 1 /\ l[q] = CR))

BlockEnds(l, b, t, c) ==
    c.found = FALSE /\ c.rest = <<>> /\ \E q \in Nat : AtEnd(l, q) /\ Reads(l, q, b, <<>>, t)

LineGoesOn(l, b, t, c) ==
    /\ c.found = FALSE /\ c.rest # <<>> /\ ~EndsLine(l)
    /\ Span(l, EOL) + 1 < Len(l) /\ Reads(l, Span(l, EOL) + 1, b, c.rest, t)

LEMMA OneOrMore ==
    ASSUME NEW n \in Nat, n >= 1
    PROVE  n = 1 \/ n >= 2
  OBVIOUS

LEMMA OneMore ==
    ASSUME NEW p \in Nat, NEW e \in Nat, NEW n \in Nat, p = e + 1, p < n
    PROVE  p + 1 = e + 2 /\ n # e + 1 /\ (e + 2 <= n => e + 1 < n)
  OBVIOUS

LEMMA EOLAt ==
    ASSUME NEW C, {CR, LF} \subseteq C, NEW l \in Seq(C), Shaped(l),
           NEW b \in Seq(C), NEW s \in Seq(C), NEW t \in Seq(C), NEW p, AtEnd(l, p),
           Reads(l, p, b, s, t), NEW c, c = ConsumeEOL(s)
    PROVE  /\ c.rest \in Seq(C)
           /\ LineEnds(l, b, t, c) \/ BlockEnds(l, b, t, c) \/ LineGoesOn(l, b, t, c)
<1> DEFINE e == Span(l, EOL)
<1>1. /\ e \in Nat /\ e < Len(l) /\ (p = e \/ (p = e + 1 /\ l[p] = CR))
      /\ Len(l) \in Nat /\ Len(s) \in Nat /\ p \in Nat /\ p < Len(l)
  BY DEF Shaped, AtEnd
<1>2. \/ EndsLine(l) /\ Len(l) = e + 1 /\ l[e + 1] = LF
      \/ EndsLine(l) /\ Len(l) = e + 2 /\ l[e + 1] = CR /\ l[e + 2] = LF
      \/ ~EndsLine(l) /\ e + 2 <= Len(l) /\ l[e + 1] = CR /\ l[e + 2] \notin EOL
  BY EndsLineIs DEF Ended, Shaped
<1>3. AtEnd(l, p)
  OBVIOUS
<1>4. \A q : AtEnd(l, q) <=> q \in Nat /\ q < Len(l) /\ (q = e \/ (q = e + 1 /\ l[q] = CR))
  BY DEF AtEnd
<1> HIDE DEF e
<1>5. CASE s = <<>>
  <2>1. c = [rest |-> <<>>, found |-> FALSE]
    BY <1>5, ConsumeEOLIs
  <2>2. Reads(l, p, b, <<>>, t) /\ <<>> \in Seq(C)
    BY <1>5
  <2>3. BlockEnds(l, b, t, c)
    BY <1>1, <1>3, <2>1, <2>2 DEF BlockEnds
  <2> QED BY <2>1, <2>2, <2>3
<1>6. CASE s # <<>>
  <2>1. Len(s) >= 1 /\ 1 \in 1..Len(s) /\ 1 \in 0..Len(s) /\ p + 1 <= Len(l)
    BY <1>1, <1>6
  <2>2. s[1] = l[p + 1]
    BY <1>1, <2>1, SameByte
  <2>3. Reads(l, p + 1, b, From(s, 2), t) /\ From(s, 2) \in Seq(C) /\ (From(s, 2) = <<>> <=> 1 = Len(s))
    <3>1. Reads(l, p + 1, b, From(s, 1 + 1), t)
      BY <1>1, <2>1, Drop
    <3>2. From(s, 1 + 1) \in Seq(C) /\ (From(s, 1 + 1) = <<>> <=> 1 = Len(s))
      BY <2>1, FromIs
    <3>3. 1 + 1 = 2
      OBVIOUS
    <3> QED BY <3>1, <3>2, <3>3
  <2>4. ASSUME Len(s) >= 2, p + 2 <= Len(l)
        PROVE  s[2] = l[p + 2] /\ Reads(l, p + 2, b, From(s, 3), t) /\ From(s, 3) \in Seq(C)
    <3>1. 2 \in 1..Len(s) /\ 2 \in 0..Len(s)
      BY <1>1, <2>4
    <3>2. Reads(l, p + 2, b, From(s, 2 + 1), t)
      BY <1>1, <2>4, <3>1, Drop
    <3>3. From(s, 2 + 1) \in Seq(C)
      BY <3>1, FromIs
    <3>4. s[2] = l[p + 2]
      BY <1>1, <2>4, <3>1, SameByte
    <3>5. 2 + 1 = 3
      OBVIOUS
    <3> QED BY <3>2, <3>3, <3>4, <3>5
  <2>5. ASSUME EndsLine(l), Len(l) = p + 1, l[p + 1] = LF
        PROVE  c.rest \in Seq(C) /\ LineEnds(l, b, t, c)
    <3>1. c = [rest |-> From(s, 2), found |-> TRUE]
      BY <1>6, <2>2, <2>5, ConsumeEOLIs
    <3>2. From(s, 2) \o t = b
      BY <2>3, <2>5, ReadsAll
    <3> QED BY <2>3, <2>5, <3>1, <3>2 DEF LineEnds
  <2>6. CASE p = e /\ l[e + 1] = CR /\ Len(s) = 1
    <3>1. c = [rest |-> From(s, 2), found |-> FALSE] /\ From(s, 2) = <<>>
      <4>1. ~(Len(s) >= 2)
        BY <2>6
      <4> QED BY <1>6, <2>2, <2>3, <2>6, <4>1, ConsumeEOLIs
    <3>2. p + 1 < Len(l) /\ p + 1 \in Nat
      BY <1>1, <1>2, <2>6, CharsDiffer
    <3>3. AtEnd(l, p + 1)
      BY <1>4, <2>6, <3>2
    <3>4. BlockEnds(l, b, t, c)
      BY <2>3, <3>1, <3>2, <3>3 DEF BlockEnds
    <3> QED BY <2>3, <3>1, <3>4
  <2>7. CASE p = e /\ l[e + 1] = CR /\ Len(s) >= 2 /\ EndsLine(l)
    <3>1. Len(l) = p + 2 /\ l[p + 2] = LF /\ p + 2 <= Len(l)
      BY <1>1, <1>2, <2>7, CharsDiffer
    <3>2. s[2] = LF /\ Reads(l, p + 2, b, From(s, 3), t) /\ From(s, 3) \in Seq(C)
      BY <2>4, <2>7, <3>1
    <3>3. c = [rest |-> From(s, 3), found |-> TRUE]
      BY <1>6, <2>2, <2>7, <3>2, ConsumeEOLIs
    <3>4. From(s, 3) \o t = b
      BY <3>1, <3>2, ReadsAll
    <3> QED BY <2>7, <3>2, <3>3, <3>4 DEF LineEnds
  <2>8. CASE p = e /\ l[e + 1] = CR /\ Len(s) >= 2 /\ ~EndsLine(l)
    <3>1. p + 2 <= Len(l) /\ l[p + 2] \notin EOL /\ e + 1 < Len(l) /\ e + 1 = p + 1
      BY <1>1, <1>2, <2>8
    <3>2. s[2] # LF /\ 1 # Len(s)
      BY <1>1, <2>4, <2>8, <3>1 DEF EOL
    <3>3. c = [rest |-> From(s, 2), found |-> FALSE] /\ From(s, 2) # <<>>
      BY <1>6, <2>2, <2>3, <2>8, <3>2, ConsumeEOLIs
    <3>4. Reads(l, e + 1, b, c.rest, t)
      BY <2>3, <3>1, <3>3
    <3> QED BY <2>3, <2>8, <3>1, <3>3, <3>4 DEF LineGoesOn, e
  <2>9. CASE p = e + 1 /\ ~EndsLine(l)
    <3>1. l[p + 1] \notin EOL /\ e + 1 < Len(l)
      <4>1. p + 1 = e + 2 /\ (e + 2 <= Len(l) => e + 1 < Len(l))
        BY <1>1, <2>9, OneMore
      <4> QED BY <1>2, <2>9, <4>1
    <3>2. c = [rest |-> s, found |-> FALSE]
      BY <1>6, <2>2, <3>1, ConsumeEOLIs
    <3>3. Reads(l, e + 1, b, c.rest, t)
      BY <2>9, <3>2
    <3> QED BY <1>6, <2>9, <3>1, <3>2, <3>3 DEF LineGoesOn, e
  <2>10. CASE p = e + 1 /\ EndsLine(l)
    <3>1. Len(l) = p + 1 /\ l[p + 1] = LF
      <4>1. p + 1 = e + 2 /\ Len(l) # e + 1
        BY <1>1, <2>10, OneMore
      <4> QED BY <1>2, <2>10, <4>1
    <3> QED BY <2>5, <2>10, <3>1
  <2>11. CASE p = e /\ l[e + 1] = LF
    <3>1. EndsLine(l) /\ Len(l) = p + 1
      BY <1>2, <2>11, CharsDiffer
    <3> QED BY <2>5, <2>11, <3>1
  <2>12. p = e => l[e + 1] = CR \/ l[e + 1] = LF
    BY <1>2
  <2>13. Len(s) = 1 \/ Len(s) >= 2
    BY <1>1, <2>1, OneOrMore
  <2> QED BY <1>1, <2>6, <2>7, <2>8, <2>9, <2>10, <2>11, <2>12, <2>13
<1> QED BY <1>5, <1>6

-----------------------------------------------------------------------------
(* Words *)

\* The words of a line satisfy their recursion.
LEMMA WordsToDef ==
    ASSUME NEW C, NEW s \in Seq(C)
    PROVE  /\ WordsTo(s) \in [0..Len(s) -> Seq(C)]
           /\ WordsTo(s)[0] = <<>>
           /\ \A i \in 1..Len(s) : WordsTo(s)[i] = IF s[i] = SP THEN WordsTo(s)[i - 1] ELSE Append(WordsTo(s)[i - 1], s[i])
<1> DEFINE n == Len(s)
           T == Seq(C)
           a == <<>>
           K(i, s0) == IF s[i] = SP THEN s0 ELSE Append(s0, s[i])
           h == [p \in (1..n) \X T |-> K(p[1], p[2])]
           Eq(g) == g = [i \in 0..n |-> IF i = 0 THEN a ELSE K(i, g[i - 1])]
           f == WordsTo(s)
<1>1. n \in Nat /\ a \in T
  OBVIOUS
<1>2. \A i \in 1..n : \A s0 \in T : K(i, s0) \in T
  OBVIOUS
<1>3. \E g : Eq(g)
  <2> HIDE DEF n, T, a, K
  <2>1. h \in [(1..n) \X T -> T]
    BY <1>2
  <2>2. PICK g \in [0..n -> T] : Solves(g, n, a, h)
    <3> HIDE DEF h
    <3> QED BY <1>1, <2>1, Recursion
  <2>3. ASSUME NEW i \in 1..n PROVE g[i] = K(i, g[i - 1])
    <3>1. <<i, g[i - 1]>> \in (1..n) \X T
      BY <1>1
    <3> QED BY <2>2, <3>1 DEF Solves
  <2>4. g[0] = a
    BY <2>2 DEF Solves
  <2>5. Eq(g)
    BY <1>1, <2>3, <2>4
  <2> QED BY <2>5
<1>4. Eq(f)
  BY <1>3, Zenon DEF WordsTo
<1> HIDE DEF n, T, a, K, f
<1>5. f[0] = a /\ \A i \in 1..n : f[i] = K(i, f[i - 1])
  BY <1>1, <1>4
<1>6. \A i \in 0..n : f[i] \in T
  <2> DEFINE S == {i \in 0..n : f[i] \in T}
  <2>1. 0 \in S
    BY <1>1, <1>5
  <2>2. ASSUME NEW i \in 0..(n - 1), i \in S PROVE i + 1 \in S
    <3>1. i + 1 \in 1..n /\ (i + 1) - 1 = i
      BY <1>1
    <3>2. f[i + 1] = K(i + 1, f[i])
      BY <1>5, <3>1
    <3> QED BY <1>1, <1>2, <2>2, <3>1, <3>2
  <2>3. \A i \in 0..n : i \in S
    <3> HIDE DEF S
    <3> QED BY <1>1, <2>1, <2>2, Induction
  <2> QED BY <2>3
<1>7. f \in [0..n -> T]
  BY <1>4, <1>6
<1> QED BY <1>5, <1>7, Zenon DEF f, n, T, a, K

\* The words of a line read in two parts.
LEMMA WordsJoin ==
    ASSUME NEW C, NEW s \in Seq(C), NEW t \in Seq(C)
    PROVE  Words(s \o t) = Words(s) \o Words(t) /\ Words(s) \in Seq(C)
<1> DEFINE v == s \o t
           n == Len(s)
           m == Len(t)
           a == WordsTo(s)
           b == WordsTo(t)
           w == WordsTo(v)
<1>1. v \in Seq(C) /\ Joined(v, s, t)
  BY ConcatIs
<1> HIDE DEF v
<1>2. /\ n \in Nat /\ m \in Nat /\ Len(v) = n + m
      /\ \A i \in 1..n : v[i] = s[i]
      /\ \A i \in 1..m : v[n + i] = t[i]
  BY <1>1 DEF Joined
<1>3. a \in [0..n -> Seq(C)] /\ a[0] = <<>> /\ \A i \in 1..n : a[i] = IF s[i] = SP THEN a[i - 1] ELSE Append(a[i - 1], s[i])
  BY WordsToDef
<1>4. b \in [0..m -> Seq(C)] /\ b[0] = <<>> /\ \A i \in 1..m : b[i] = IF t[i] = SP THEN b[i - 1] ELSE Append(b[i - 1], t[i])
  BY WordsToDef
<1>5. /\ w \in [0..(n + m) -> Seq(C)] /\ w[0] = <<>>
      /\ \A i \in 1..(n + m) : w[i] = IF v[i] = SP THEN w[i - 1] ELSE Append(w[i - 1], v[i])
  BY <1>1, <1>2, WordsToDef
<1> HIDE DEF n, m, a, b, w
<1>6. \A i \in 0..n : w[i] = a[i]
  <2> DEFINE S == {i \in 0..n : w[i] = a[i]}
  <2>1. 0 \in S
    BY <1>2, <1>3, <1>5
  <2>2. ASSUME NEW i \in 0..(n - 1), i \in S PROVE i + 1 \in S
    <3>1. i + 1 \in 1..n /\ (i + 1) - 1 = i /\ i + 1 \in 1..(n + m) /\ i + 1 \in 0..n
      BY <1>2
    <3>2. w[i] = a[i] /\ v[i + 1] = s[i + 1]
      BY <1>2, <2>2, <3>1
    <3>3. w[i + 1] = a[i + 1]
      BY <1>3, <1>5, <3>1, <3>2
    <3> QED BY <3>1, <3>3
  <2>3. \A i \in 0..n : i \in S
    <3> HIDE DEF S
    <3> QED BY <1>2, <2>1, <2>2, Induction
  <2> QED BY <2>3
<1>7. \A j \in 0..m : w[n + j] = a[n] \o b[j]
  <2> DEFINE S == {j \in 0..m : w[n + j] = a[n] \o b[j]}
  <2>1. n \in 0..n /\ a[n] \in Seq(C)
    BY <1>2, <1>3
  <2>2. 0 \in S
    <3>1. w[n] = a[n]
      BY <1>6, <2>1
    <3>2. a[n] \o <<>> = a[n]
      BY <2>1, NoBytes
    <3>3. w[n + 0] = a[n] \o b[0] /\ 0 \in 0..m
      BY <1>2, <1>4, <3>1, <3>2
    <3> QED BY <3>3
  <2>3. ASSUME NEW j \in 0..(m - 1), j \in S PROVE j + 1 \in S
    <3>1. /\ j + 1 \in 1..m /\ (j + 1) - 1 = j /\ n + (j + 1) \in 1..(n + m) /\ (n + (j + 1)) - 1 = n + j
          /\ j + 1 \in 0..m /\ j \in 0..m
      BY <1>2
    <3>2. w[n + j] = a[n] \o b[j] /\ v[n + (j + 1)] = t[j + 1] /\ b[j] \in Seq(C) /\ t[j + 1] \in C
      <4>1. w[n + j] = a[n] \o b[j]
        BY <2>3
      <4>2. v[n + (j + 1)] = t[j + 1]
        BY <1>2, <3>1
      <4>3. b[j] \in Seq(C)
        BY <1>4, <3>1
      <4>4. t[j + 1] \in C
        BY <3>1 DEF m
      <4> QED BY <4>1, <4>2, <4>3, <4>4
    <3>3. w[n + (j + 1)] = IF t[j + 1] = SP THEN w[n + j] ELSE Append(w[n + j], t[j + 1])
      BY <1>5, <3>1, <3>2
    <3>4. b[j + 1] = IF t[j + 1] = SP THEN b[j] ELSE Append(b[j], t[j + 1])
      BY <1>4, <3>1
    <3>5. a[n] \o Append(b[j], t[j + 1]) = Append(a[n] \o b[j], t[j + 1])
      <4> DEFINE x == a[n]
                 y == b[j]
                 z == t[j + 1]
      <4>1. x \in Seq(C) /\ y \in Seq(C) /\ z \in C
        BY <2>1, <3>2
      <4> HIDE DEF x, y, z
      <4>2. x \o Append(y, z) = Append(x \o y, z)
        BY <4>1, ConcatAppend
      <4> QED BY <4>2 DEF x, y, z
    <3>6. w[n + (j + 1)] = a[n] \o b[j + 1]
      BY <3>2, <3>3, <3>4, <3>5
    <3> QED BY <3>1, <3>6
  <2>4. \A j \in 0..m : j \in S
    <3> HIDE DEF S
    <3> QED BY <1>2, <2>2, <2>3, Induction
  <2> QED BY <2>4
<1>8. w[n + m] = a[n] \o b[m] /\ a[n] \in Seq(C)
  BY <1>2, <1>3, <1>7, SMTT(30)
<1> QED BY <1>2, <1>8 DEF Words, v, n, m, a, b, w

\* More of the arguments is read.
LEMMA WordsOn ==
    ASSUME NEW C, NEW l \in Seq(C), NEW x \in 0..Len(l), NEW p \in x..Len(l), NEW q \in p..Len(l)
    PROVE  /\ Words(SubSeq(l, x + 1, p)) \o Words(SubSeq(l, p + 1, q)) = Words(SubSeq(l, x + 1, q))
           /\ Words(SubSeq(l, x + 1, p)) \in Seq(C)
           /\ Words(SubSeq(l, x + 1, x)) = <<>>
<1>1. p \in 0..Len(l) /\ q \in x..Len(l) /\ x \in x..Len(l) /\ x - x = 0
  OBVIOUS
<1>2. SubSeq(l, x + 1, p) \in Seq(C) /\ SubSeq(l, p + 1, q) \in Seq(C)
  BY <1>1, SubSeqIs
<1>3. SubSeq(l, x + 1, p) \o SubSeq(l, p + 1, q) = SubSeq(l, x + 1, q)
  BY <1>1, SubSeqJoin
<1>4. SubSeq(l, x + 1, x) \in Seq(C) /\ Len(SubSeq(l, x + 1, x)) = 0
  BY <1>1, SubSeqIs
<1>5. WordsTo(SubSeq(l, x + 1, x))[0] = <<>>
  BY <1>4, WordsToDef
<1>6. Words(SubSeq(l, x + 1, x)) = <<>>
  BY <1>4, <1>5 DEF Words
<1>7. /\ Words(SubSeq(l, x + 1, p) \o SubSeq(l, p + 1, q)) = Words(SubSeq(l, x + 1, p)) \o Words(SubSeq(l, p + 1, q))
      /\ Words(SubSeq(l, x + 1, p)) \in Seq(C)
  BY <1>2, WordsJoin
<1> QED BY <1>3, <1>6, <1>7

-----------------------------------------------------------------------------
(* The messages of a client *)

Message == [line : Seq(Chars), job : Jobs \cup {NoJob}]

LEMMA MessageType ==
    ASSUME NEW m \in Message
    PROVE  /\ m.line \in Seq(Chars) /\ Data(m) \in Seq(Chars)
           /\ m.job # NoJob => m.job.request \in Seq(Chars) /\ m.job.answer \in Seq(Chars)
           /\ m.job # NoJob => Data(m) = Escaped(m.job.request) \o Marker
           /\ m.job = NoJob => Data(m) = <<>>
<1>1. m.line \in Seq(Chars) /\ m.job \in Jobs \cup {NoJob}
  BY DEF Message
<1>2. m.job # NoJob => m.job.request \in Seq(Chars) /\ m.job.answer \in Seq(Chars)
  BY <1>1 DEF Jobs
<1>3. m.job # NoJob => Escaped(m.job.request) \in Seq(Chars)
  BY <1>2, EscapedType
<1>4. Marker \in Seq(Chars)
  BY CharsAssumption DEF Marker
<1>5. m.job # NoJob => Escaped(m.job.request) \o Marker \in Seq(Chars)
  BY <1>3, <1>4
<1> QED BY <1>1, <1>2, <1>5 DEF Data

LEMMA ScriptType ==
    ASSUME NEW s \in Scripts
    PROVE  /\ s \in Seq(Message) /\ Len(s) \in Nat
           /\ \A i \in 1..Len(s) : s[i] \in Message /\ Proper(Standing(s)[i - 1], s[i])
<1>1. s \in Seq(Message)
  BY ScriptsAssumption DEF Message
<1>2. \A i \in 1..Len(s) : Proper(Standing(s)[i - 1], s[i])
  BY ScriptsAssumption
<1> QED BY <1>1, <1>2

\* The bytes of the messages satisfy their recursion.
LEMMA BytesToDef ==
    ASSUME NEW s \in Seq(Message)
    PROVE  /\ BytesTo(s) \in [0..Len(s) -> Seq(Chars)]
           /\ BytesTo(s)[0] = <<>>
           /\ \A i \in 1..Len(s) : BytesTo(s)[i] = BytesTo(s)[i - 1] \o s[i].line \o Data(s[i])
<1> DEFINE n == Len(s)
           T == Seq(Chars)
           a == <<>>
           K(i, b0) == b0 \o s[i].line \o Data(s[i])
           h == [p \in (1..n) \X T |-> K(p[1], p[2])]
           Eq(g) == g = [i \in 0..n |-> IF i = 0 THEN a ELSE K(i, g[i - 1])]
           f == BytesTo(s)
<1>1. n \in Nat /\ a \in T
  OBVIOUS
<1>2. \A i \in 1..n : \A b0 \in T : K(i, b0) \in T
  <2>1. ASSUME NEW i \in 1..n, NEW b0 \in T PROVE K(i, b0) \in T
    <3>1. s[i] \in Message
      OBVIOUS
    <3>2. s[i].line \in Seq(Chars) /\ Data(s[i]) \in Seq(Chars)
      BY <3>1, MessageType
    <3> QED BY <3>2
  <2> QED BY <2>1
<1>3. \E g : Eq(g)
  <2> HIDE DEF n, T, a, K
  <2>1. h \in [(1..n) \X T -> T]
    BY <1>2
  <2>2. PICK g \in [0..n -> T] : Solves(g, n, a, h)
    <3> HIDE DEF h
    <3> QED BY <1>1, <2>1, Recursion
  <2>3. ASSUME NEW i \in 1..n PROVE g[i] = K(i, g[i - 1])
    <3>1. <<i, g[i - 1]>> \in (1..n) \X T
      BY <1>1
    <3> QED BY <2>2, <3>1 DEF Solves
  <2>4. g[0] = a
    BY <2>2 DEF Solves
  <2>5. Eq(g)
    BY <1>1, <2>3, <2>4
  <2> QED BY <2>5
<1>4. Eq(f)
  BY <1>3, Zenon DEF BytesTo
<1> HIDE DEF n, T, a, K, f
<1>5. f[0] = a /\ \A i \in 1..n : f[i] = K(i, f[i - 1])
  BY <1>1, <1>4
<1>6. \A i \in 0..n : f[i] \in T
  <2> DEFINE S == {i \in 0..n : f[i] \in T}
  <2>1. 0 \in S
    BY <1>1, <1>5
  <2>2. ASSUME NEW i \in 0..(n - 1), i \in S PROVE i + 1 \in S
    <3>1. i + 1 \in 1..n /\ (i + 1) - 1 = i
      BY <1>1
    <3>2. f[i + 1] = K(i + 1, f[i])
      BY <1>5, <3>1
    <3> QED BY <1>1, <1>2, <2>2, <3>1, <3>2
  <2>3. \A i \in 0..n : i \in S
    <3> HIDE DEF S
    <3> QED BY <1>1, <2>1, <2>2, Induction
  <2> QED BY <2>3
<1>7. f \in [0..n -> T]
  BY <1>4, <1>6
<1> QED BY <1>5, <1>7, Zenon DEF f, n, T, a, K

LEMMA Cancel ==
    ASSUME NEW C, NEW a \in Seq(C), NEW x \in Seq(C), NEW y \in Seq(C), a \o x = a \o y
    PROVE  x = y
<1> DEFINE v == a \o x
<1>1. v \in Seq(C) /\ Joined(v, a, x) /\ Joined(v, a, y)
  BY ConcatIs
<1> HIDE DEF v
<1>2. Len(a) \in Nat /\ Len(x) \in Nat /\ Len(y) \in Nat /\ Len(a) + Len(x) = Len(a) + Len(y)
  BY <1>1 DEF Joined
<1>3. Len(x) = Len(y)
  BY <1>2
<1>4. \A i \in 1..Len(x) : x[i] = y[i]
  BY <1>1, <1>3, SMTT(30) DEF Joined
<1> QED BY <1>3, <1>4, SeqEq

\* What begins w, and the rest of w.
LEMMA BeginsRest ==
    ASSUME NEW C, NEW a \in Seq(C), NEW w \in Seq(C), Begins(a, w)
    PROVE  From(w, Len(a) + 1) \in Seq(C) /\ a \o From(w, Len(a) + 1) = w
<1>1. Len(a) \in Nat /\ Len(a) <= Len(w) /\ \A i \in 1..Len(a) : w[i] = a[i]
  BY DEF Begins
<1>2. Len(a) \in 0..Len(w) /\ Len(w) \in Nat
  BY <1>1
<1>3. /\ From(w, Len(a) + 1) \in Seq(C) /\ SubSeq(w, 1, Len(a)) \in Seq(C) /\ Len(SubSeq(w, 1, Len(a))) = Len(a)
      /\ \A i \in 1..Len(a) : SubSeq(w, 1, Len(a))[i] = w[i]
  BY <1>2, FromIs
<1>4. SubSeq(w, 1, Len(a)) = a
  BY <1>1, <1>3, SeqEq
<1>5. SubSeq(w, 0 + 1, Len(a)) \o SubSeq(w, Len(a) + 1, Len(w)) = SubSeq(w, 0 + 1, Len(w))
  <2>1. 0 \in 0..Len(w) /\ Len(a) \in 0..Len(w) /\ Len(w) \in Len(a)..Len(w)
    BY <1>2
  <2> QED BY <2>1, SubSeqJoin
<1>6. SubSeq(w, 1, Len(w)) = w /\ 0 + 1 = 1
  OBVIOUS
<1> QED BY <1>3, <1>4, <1>5, <1>6 DEF From

LEMMA BytesPrefix ==
    ASSUME NEW s \in Seq(Message), NEW i \in 0..Len(s), NEW k \in i..Len(s)
    PROVE  Begins(BytesTo(s)[i], BytesTo(s)[k])
<1> DEFINE n == Len(s)
           b == BytesTo(s)
           S == {x \in 0..(n - i) : Begins(b[i], b[i + x])}
<1>1. n \in Nat /\ i \in Nat /\ k \in Nat /\ i <= k /\ k <= n /\ k - i \in 0..(n - i) /\ i + (k - i) = k /\ n - i \in Nat
  OBVIOUS
<1>2. b \in [0..n -> Seq(Chars)] /\ \A j \in 1..n : b[j] = b[j - 1] \o s[j].line \o Data(s[j])
  BY BytesToDef
<1> HIDE DEF b
<1>3. 0 \in S
  <2>1. i + 0 = i /\ 0 \in 0..(n - i)
    BY <1>1
  <2>2. Begins(b[i], b[i])
    BY <1>1, <1>2 DEF Begins
  <2> QED BY <2>1, <2>2
<1>4. ASSUME NEW x \in 0..((n - i) - 1), x \in S PROVE x + 1 \in S
  <2> DEFINE j == i + x
  <2>1. j + 1 \in 1..n /\ (j + 1) - 1 = j /\ j \in 0..n /\ i + (x + 1) = j + 1 /\ x + 1 \in 0..(n - i) /\ j + 1 \in 0..n
    BY <1>1
  <2>2. Begins(b[i], b[j])
    BY <1>4
  <2> HIDE DEF j
  <2>3. b[j + 1] = b[j] \o s[j + 1].line \o Data(s[j + 1])
    BY <1>2, <2>1
  <2> DEFINE u == s[j + 1].line
             d == Data(s[j + 1])
  <2>4. u \in Seq(Chars) /\ d \in Seq(Chars)
    <3>1. s[j + 1] \in Message
      BY <2>1
    <3> QED BY <3>1, MessageType
  <2>5. b[i] \in Seq(Chars) /\ b[j] \in Seq(Chars)
    BY <1>1, <1>2, <2>1
  <2> HIDE DEF u, d
  <2>6. Begins(b[j], b[j] \o u \o d) /\ b[j] \o u \o d \in Seq(Chars)
    BY <2>4, <2>5 DEF Begins
  <2> DEFINE v == b[j] \o u \o d
  <2>7. b[j + 1] = v
    BY <2>3 DEF u, d
  <2> HIDE DEF v
  <2>8. Begins(b[i], v)
    BY <2>2, <2>5, <2>6, BeginsOn DEF v
  <2> QED BY <2>1, <2>7, <2>8
<1>5. \A x \in 0..(n - i) : x \in S
  <2> HIDE DEF S
  <2> QED BY <1>1, <1>3, <1>4, Induction
<1>6. Begins(b[i], b[i + (k - i)])
  BY <1>1, <1>5
<1> QED BY <1>1, <1>6 DEF b

\* The bytes of some messages, behind those before them.
LEMMA BytesOfIs ==
    ASSUME NEW s \in Seq(Message), NEW i \in 0..Len(s), NEW k \in i..Len(s)
    PROVE  /\ BytesOf(s, i, k) \in Seq(Chars) /\ BytesTo(s)[i] \in Seq(Chars) /\ BytesTo(s)[k] \in Seq(Chars)
           /\ BytesTo(s)[i] \o BytesOf(s, i, k) = BytesTo(s)[k]
<1>1. i \in 0..Len(s) /\ k \in 0..Len(s)
  OBVIOUS
<1>2. BytesTo(s)[i] \in Seq(Chars) /\ BytesTo(s)[k] \in Seq(Chars)
  <2>1. BytesTo(s) \in [0..Len(s) -> Seq(Chars)]
    BY BytesToDef
  <2> QED BY <1>1, <2>1
<1>3. Begins(BytesTo(s)[i], BytesTo(s)[k])
  BY BytesPrefix
<1>4. BytesOf(s, i, k) = From(BytesTo(s)[k], Len(BytesTo(s)[i]) + 1)
  BY DEF BytesOf, From
<1> QED BY <1>2, <1>3, <1>4, BeginsRest

LEMMA BytesJoin ==
    ASSUME NEW s \in Seq(Message), NEW i \in 0..Len(s), NEW k \in i..Len(s), NEW m \in k..Len(s)
    PROVE  BytesOf(s, i, k) \o BytesOf(s, k, m) = BytesOf(s, i, m)
<1> DEFINE a == BytesTo(s)[i]
           x == BytesOf(s, i, k)
           y == BytesOf(s, k, m)
           z == BytesOf(s, i, m)
<1>1. k \in 0..Len(s) /\ m \in i..Len(s)
  OBVIOUS
<1>2. x \in Seq(Chars) /\ a \in Seq(Chars) /\ a \o x = BytesTo(s)[k]
  BY BytesOfIs
<1>3. y \in Seq(Chars) /\ BytesTo(s)[k] \o y = BytesTo(s)[m]
  BY <1>1, BytesOfIs
<1>4. z \in Seq(Chars) /\ a \o z = BytesTo(s)[m]
  BY <1>1, BytesOfIs
<1> HIDE DEF a, x, y, z
<1>5. (a \o x) \o y = a \o (x \o y) /\ x \o y \in Seq(Chars)
  <2>1. a \in Seq(Chars) /\ x \in Seq(Chars) /\ y \in Seq(Chars)
    BY <1>2, <1>3
  <2> QED BY <2>1, Assoc, SMTT(30)
<1>6. a \o (x \o y) = a \o z
  BY <1>2, <1>3, <1>4, <1>5
<1>7. x \o y = z
  BY <1>2, <1>4, <1>5, <1>6, Cancel
<1> QED BY <1>7 DEF x, y, z

LEMMA NoMessage ==
    ASSUME NEW s \in Seq(Message), NEW i \in 0..Len(s)
    PROVE  BytesOf(s, i, i) = <<>>
<1> DEFINE a == BytesTo(s)[i]
           x == BytesOf(s, i, i)
<1>1. i \in i..Len(s)
  OBVIOUS
<1>2. x \in Seq(Chars) /\ a \in Seq(Chars) /\ a \o x = a
  BY <1>1, BytesOfIs
<1> HIDE DEF a, x
<1>3. a \o <<>> = a /\ <<>> \in Seq(Chars)
  BY <1>2, NoBytes
<1>4. x = <<>>
  BY <1>2, <1>3, Cancel
<1> QED BY <1>4 DEF x

\* The first of these messages: its line and what is behind it.
LEMMA FirstMessage ==
    ASSUME NEW s \in Seq(Message), NEW i \in 0..Len(s), NEW k \in (i + 1)..Len(s)
    PROVE  /\ s[i + 1].line \in Seq(Chars) /\ Behind(s, i, k) \in Seq(Chars)
           /\ BytesOf(s, i + 1, k) \in Seq(Chars) /\ Data(s[i + 1]) \in Seq(Chars)
           /\ BytesOf(s, i, k) = s[i + 1].line \o Behind(s, i, k)
<1> DEFINE a == BytesTo(s)[i]
           l == s[i + 1].line
           d == Data(s[i + 1])
           y == BytesOf(s, i + 1, k)
           x == BytesOf(s, i, i + 1)
<1>1. i + 1 \in 1..Len(s) /\ i + 1 \in 0..Len(s) /\ i + 1 \in i..Len(s) /\ (i + 1) - 1 = i
  OBVIOUS
<1>2. l \in Seq(Chars) /\ d \in Seq(Chars)
  <2>1. s[i + 1] \in Message
    BY <1>1
  <2> QED BY <2>1, MessageType
<1>3. y \in Seq(Chars)
  BY <1>1, BytesOfIs
<1>4. x \in Seq(Chars) /\ a \in Seq(Chars) /\ a \o x = BytesTo(s)[i + 1]
  BY <1>1, BytesOfIs
<1>5. BytesTo(s)[i + 1] = a \o l \o d
  BY <1>1, BytesToDef
<1>6. x \o y = BytesOf(s, i, k)
  BY <1>1, BytesJoin
<1> HIDE DEF a, l, d, y, x
<1>7. a \o l \o d = a \o (l \o d) /\ l \o d \in Seq(Chars)
  BY <1>2, <1>4, Assoc, SMTT(30)
<1>8. x = l \o d
  <2>1. a \o x = a \o (l \o d)
    BY <1>4, <1>5, <1>7
  <2> QED BY <1>4, <1>7, <2>1, Cancel
<1>9. (l \o d) \o y = l \o (d \o y) /\ d \o y \in Seq(Chars)
  BY <1>2, <1>3, Assoc, SMTT(30)
<1>10. Behind(s, i, k) = d \o y
  BY DEF Behind, d, y
<1>11. BytesOf(s, i, k) = l \o Behind(s, i, k)
  BY <1>6, <1>8, <1>9, <1>10
<1> QED BY <1>2, <1>3, <1>9, <1>10, <1>11 DEF l, d, y

LEMMA BehindMore ==
    ASSUME NEW s \in Seq(Message), NEW i \in 0..Len(s), NEW k \in (i + 1)..Len(s), NEW m \in k..Len(s)
    PROVE  Behind(s, i, k) \o BytesOf(s, k, m) = Behind(s, i, m)
<1> DEFINE d == Data(s[i + 1])
           y == BytesOf(s, i + 1, k)
           z == BytesOf(s, k, m)
<1>1. i + 1 \in 0..Len(s) /\ k \in 0..Len(s)
  OBVIOUS
<1>2. d \in Seq(Chars) /\ y \in Seq(Chars)
  BY FirstMessage
<1>3. z \in Seq(Chars)
  BY <1>1, BytesOfIs
<1>4. y \o z = BytesOf(s, i + 1, m)
  BY <1>1, BytesJoin
<1>5. Behind(s, i, k) = d \o y /\ Behind(s, i, m) = d \o BytesOf(s, i + 1, m)
  BY DEF Behind
<1> HIDE DEF d, y, z
<1>6. (d \o y) \o z = d \o (y \o z)
  BY <1>2, <1>3, Assoc, SMTT(30)
<1>7. Behind(s, i, k) \o z = Behind(s, i, m)
  BY <1>4, <1>5, <1>6
<1> QED BY <1>7 DEF z

-----------------------------------------------------------------------------
(* How the protocol stands after a message, and what is replied to it *)

Standings == [st : ProtocolStates \cup {"none"}, skip : BOOLEAN]

LEMMA CommandsIs ==
    /\ Commands["Unauthenticated"] = {"AUTH", "QUIT", "CAPABILITIES"}
    /\ Commands["Authentication"] = {"MECH", "QUIT", "CAPABILITIES"}
    /\ Commands["Authenticated"] = {"REQUEST", "AUTH", "QUIT", "CAPABILITIES"}
  BY DEF Commands

\* What commands return.
LEMMA OutcomeIs ==
    ASSUME NEW st \in ProtocolStates, NEW cmd, NEW args, NEW o, o = Outcome(st, cmd, args)
    PROVE  /\ o.state \in ProtocolStates \cup {"none"}
           /\ o.str \in Seq(Tokens) /\ \A j \in 1..Len(o.str) : o.str[j] # "ANSWER"
           /\ o.str = <<>> <=> cmd = "REQUEST" /\ RequestArgs(args)
           /\ cmd = "REQUEST" /\ RequestArgs(args) => o.state = st
<1>1. \/ o = [str |-> <<"MECHS">>, state |-> "Authentication"] /\ cmd = "AUTH"
      \/ o = [str |-> <<"OK no authentication">>, state |-> "Authenticated"] /\ cmd = "MECH"
      \/ o = [str |-> <<"ERR denied", "MECHS">>, state |-> st] /\ cmd = "MECH"
      \/ o = [str |-> <<"BYE">>, state |-> "none"] /\ cmd = "QUIT"
      \/ o = [str |-> <<"OK capabilities">>, state |-> st] /\ cmd = "CAPABILITIES"
      \/ o = [str |-> <<>>, state |-> st] /\ cmd = "REQUEST" /\ RequestArgs(args)
      \/ o = [str |-> <<"ERR arguments">>, state |-> st] /\ ~(cmd = "REQUEST" /\ RequestArgs(args))
  BY ZenonT(40) DEF Outcome
<1>2. ASSUME NEW s, NEW t, o = [str |-> s, state |-> t] PROVE o.str = s /\ o.state = t
  BY <1>2
<1>3. \/ o.str = <<"MECHS">> /\ o.state = "Authentication" /\ cmd = "AUTH"
      \/ o.str = <<"OK no authentication">> /\ o.state = "Authenticated" /\ cmd = "MECH"
      \/ o.str = <<"ERR denied", "MECHS">> /\ o.state = st /\ cmd = "MECH"
      \/ o.str = <<"BYE">> /\ o.state = "none" /\ cmd = "QUIT"
      \/ o.str = <<"OK capabilities">> /\ o.state = st /\ cmd = "CAPABILITIES"
      \/ o.str = <<>> /\ o.state = st /\ cmd = "REQUEST" /\ RequestArgs(args)
      \/ o.str = <<"ERR arguments">> /\ o.state = st /\ ~(cmd = "REQUEST" /\ RequestArgs(args))
  BY <1>1, <1>2, Zenon
<1>4. o.state \in ProtocolStates \cup {"none"}
  BY <1>3 DEF ProtocolStates
<1>5. <<"MECHS">> # <<>> /\ <<"OK no authentication">> # <<>> /\ <<"ERR denied", "MECHS">> # <<>> /\ <<"BYE">> # <<>>
      /\ <<"OK capabilities">> # <<>> /\ <<"ERR arguments">> # <<>>
  OBVIOUS
<1>6. /\ o.str = <<>> <=> cmd = "REQUEST" /\ RequestArgs(args)
      /\ cmd = "REQUEST" /\ RequestArgs(args) => o.state = st
  BY <1>3, <1>5
<1>7. ASSUME NEW x \in CommandReplies, x # "ANSWER" PROVE <<x>> \in Seq(Tokens) /\ \A j \in 1..Len(<<x>>) : <<x>>[j] # "ANSWER"
  BY <1>7 DEF Tokens
<1>8. ASSUME NEW x \in CommandReplies, x # "ANSWER", NEW y \in CommandReplies, y # "ANSWER"
      PROVE  <<x, y>> \in Seq(Tokens) /\ \A j \in 1..Len(<<x, y>>) : <<x, y>>[j] # "ANSWER"
  <2>1. x \in Tokens /\ y \in Tokens
    BY DEF Tokens
  <2>2. Len(<<x, y>>) = 2 /\ <<x, y>>[1] = x /\ <<x, y>>[2] = y
    OBVIOUS
  <2>3. \A j \in 1..2 : j = 1 \/ j = 2
    OBVIOUS
  <2>4. <<x, y>> \in Seq(Tokens)
    <3> HIDE DEF Tokens
    <3> QED BY <2>1
  <2> QED BY <1>8, <2>2, <2>3, <2>4
<1>9. <<>> \in Seq(Tokens) /\ \A j \in 1..Len(<<>>) : <<>>[j] # "ANSWER"
  OBVIOUS
<1>10. /\ "MECHS" \in CommandReplies /\ "OK no authentication" \in CommandReplies
       /\ "ERR denied" \in CommandReplies /\ "BYE" \in CommandReplies
       /\ "OK capabilities" \in CommandReplies /\ "ERR arguments" \in CommandReplies
       /\ "MECHS" # "ANSWER" /\ "OK no authentication" # "ANSWER" /\ "ERR denied" # "ANSWER" /\ "BYE" # "ANSWER"
       /\ "OK capabilities" # "ANSWER" /\ "ERR arguments" # "ANSWER"
  BY DEF CommandReplies
<1>11. o.str \in Seq(Tokens) /\ \A j \in 1..Len(o.str) : o.str[j] # "ANSWER"
  BY <1>3, <1>7, <1>8, <1>9, <1>10, Zenon
<1> QED BY <1>4, <1>6, <1>11

LEMMA KnownStates ==
    ASSUME NEW a \in Standings, a.st # "none"
    PROVE  a.st \in ProtocolStates
  BY DEF Standings

LEMMA AfterType ==
    ASSUME NEW a \in Standings, NEW line
    PROVE  After(a, line) \in Standings
<1>1. a = [st |-> a.st, skip |-> a.skip] /\ a.st \in ProtocolStates \cup {"none"} /\ a.skip \in BOOLEAN
  BY DEF Standings
<1>2. [a EXCEPT !.skip = FALSE] \in Standings
  BY <1>1 DEF Standings
<1>3. ASSUME NEW x \in BOOLEAN PROVE [a EXCEPT !.skip = x] \in Standings
  BY <1>1 DEF Standings
<1>4. ASSUME NEW x \in ProtocolStates \cup {"none"} PROVE [a EXCEPT !.st = x] \in Standings
  BY <1>1 DEF Standings
<1>5. Executed(a, line) => Outcome(a.st, Word(line)[1], Args(line)).state \in ProtocolStates \cup {"none"}
  BY KnownStates, OutcomeIs DEF Executed
<1>6. (Args(line) # <<>>) \in BOOLEAN
  OBVIOUS
<1> QED BY <1>2, <1>3, <1>4, <1>5, <1>6 DEF After

\* How the protocol stands satisfies its recursion.
LEMMA StandingDef ==
    ASSUME NEW s \in Seq(Message)
    PROVE  /\ Standing(s) \in [0..Len(s) -> Standings]
           /\ Standing(s)[0] = [st |-> "Unauthenticated", skip |-> FALSE]
           /\ \A i \in 1..Len(s) : Standing(s)[i] = After(Standing(s)[i - 1], s[i].line)
<1> DEFINE n == Len(s)
           T == Standings
           a == [st |-> "Unauthenticated", skip |-> FALSE]
           K(i, a0) == After(a0, s[i].line)
           h == [p \in (1..n) \X T |-> K(p[1], p[2])]
           Eq(g) == g = [i \in 0..n |-> IF i = 0 THEN a ELSE K(i, g[i - 1])]
           f == Standing(s)
<1>1. n \in Nat /\ a \in T
  BY DEF Standings, ProtocolStates
<1>2. \A i \in 1..n : \A a0 \in T : K(i, a0) \in T
  BY AfterType
<1>3. \E g : Eq(g)
  <2> HIDE DEF n, T, a, K
  <2>1. h \in [(1..n) \X T -> T]
    BY <1>2
  <2>2. PICK g \in [0..n -> T] : Solves(g, n, a, h)
    <3> HIDE DEF h
    <3> QED BY <1>1, <2>1, Recursion
  <2>3. ASSUME NEW i \in 1..n PROVE g[i] = K(i, g[i - 1])
    <3>1. <<i, g[i - 1]>> \in (1..n) \X T
      BY <1>1
    <3> QED BY <2>2, <3>1 DEF Solves
  <2>4. g[0] = a
    BY <2>2 DEF Solves
  <2>5. Eq(g)
    BY <1>1, <2>3, <2>4
  <2> QED BY <2>5
<1>4. Eq(f)
  BY <1>3, Zenon DEF Standing
<1> HIDE DEF n, T, a, K, f
<1>5. f[0] = a /\ \A i \in 1..n : f[i] = K(i, f[i - 1])
  BY <1>1, <1>4
<1>6. \A i \in 0..n : f[i] \in T
  <2> DEFINE S == {i \in 0..n : f[i] \in T}
  <2>1. 0 \in S
    BY <1>1, <1>5
  <2>2. ASSUME NEW i \in 0..(n - 1), i \in S PROVE i + 1 \in S
    <3>1. i + 1 \in 1..n /\ (i + 1) - 1 = i
      BY <1>1
    <3>2. f[i + 1] = K(i + 1, f[i])
      BY <1>5, <3>1
    <3> QED BY <1>1, <1>2, <2>2, <3>1, <3>2
  <2>3. \A i \in 0..n : i \in S
    <3> HIDE DEF S
    <3> QED BY <1>1, <2>1, <2>2, Induction
  <2> QED BY <2>3
<1>7. f \in [0..n -> T]
  BY <1>4, <1>6
<1> QED BY <1>5, <1>7, Zenon DEF f, n, T, a, K

(***************************************************************************)
(* Message m that comes when the protocol stands at a: the line is skipped *)
(* or refused, empty, executed, or a request.                              *)
(***************************************************************************)

\* The line is skipped.
LEMMA SkippedLine ==
    ASSUME NEW a \in Standings, NEW m, Proper(a, m), a.skip, NEW r
    PROVE  /\ After(a, m.line) = [st |-> a.st, skip |-> FALSE] /\ ReplyPrinted(a, m, r) = <<>>
           /\ m.job = NoJob /\ EndsLine(m.line)
<1>1. a = [st |-> a.st, skip |-> a.skip]
  BY DEF Standings
<1>2. ~Executed(a, m.line)
  BY DEF Executed
<1>3. After(a, m.line) = [st |-> a.st, skip |-> FALSE]
  BY <1>1, <1>2 DEF After
<1> QED BY <1>2, <1>3 DEF ReplyPrinted, ReplyTo, Proper, IsRequest

LEMMA UnknownLine ==
    ASSUME NEW a \in Standings, NEW m, Proper(a, m), ~a.skip, a.st # "none", ~Known(a.st, Word(m.line)), NEW r
    PROVE  /\ After(a, m.line) = [st |-> a.st, skip |-> FALSE] /\ ReplyPrinted(a, m, r) = <<"ERR unknown command">>
           /\ m.job = NoJob /\ EndsLine(m.line)
<1>1. a = [st |-> a.st, skip |-> a.skip]
  BY DEF Standings
<1>2. ~Executed(a, m.line)
  BY DEF Executed
<1>3. After(a, m.line) = [st |-> a.st, skip |-> FALSE]
  BY <1>1, <1>2 DEF After
<1> QED BY <1>2, <1>3 DEF ReplyPrinted, ReplyTo, Proper, IsRequest

LEMMA BadLine ==
    ASSUME NEW a \in Standings, NEW m, Proper(a, m), ~a.skip, a.st # "none", Known(a.st, Word(m.line)),
           ~Complete(m.line), NEW r
    PROVE  /\ After(a, m.line) = [st |-> a.st, skip |-> FALSE] /\ ReplyPrinted(a, m, r) = <<"ERR bad command line">>
           /\ m.job = NoJob
<1>1. a = [st |-> a.st, skip |-> a.skip]
  BY DEF Standings
<1>2. ~Executed(a, m.line)
  BY DEF Executed
<1>3. After(a, m.line) = [st |-> a.st, skip |-> FALSE]
  BY <1>1, <1>2 DEF After
<1> QED BY <1>2, <1>3 DEF ReplyPrinted, ReplyTo, Proper, IsRequest

\* The line has no command; with words behind spaces the next one is skipped.
LEMMA EmptyLine ==
    ASSUME NEW a \in Standings, NEW m, Proper(a, m), ~a.skip, a.st # "none", Complete(m.line),
           Word(m.line) = <<>>, NEW r
    PROVE  /\ After(a, m.line) = [st |-> a.st, skip |-> (Args(m.line) # <<>>)]
           /\ ReplyPrinted(a, m, r) = IF Args(m.line) = <<>> THEN <<>> ELSE <<"ERR command line starting with spaces">>
           /\ m.job = NoJob
<1>1. a = [st |-> a.st, skip |-> a.skip]
  BY DEF Standings
<1>2. Known(a.st, Word(m.line))
  BY DEF Known
<1>3. Executed(a, m.line)
  BY <1>2 DEF Executed
<1>4. After(a, m.line) = [st |-> a.st, skip |-> (Args(m.line) # <<>>)]
  BY <1>1, <1>3 DEF After
<1>5. ~IsRequest(a, m.line)
  BY DEF IsRequest
<1> QED BY <1>2, <1>4, <1>5 DEF ReplyPrinted, ReplyTo, Proper

\* A command that is no request.
LEMMA CommandLine ==
    ASSUME NEW a \in Standings, NEW m \in Message, Proper(a, m), ~a.skip, a.st # "none", Known(a.st, Word(m.line)),
           Complete(m.line), Word(m.line) # <<>>, m.job = NoJob, NEW r,
           NEW o, o = Outcome(a.st, Word(m.line)[1], Args(m.line))
    PROVE  /\ After(a, m.line) = [st |-> o.state, skip |-> FALSE] /\ ReplyPrinted(a, m, r) = o.str
           /\ o.str # <<>>
<1>1. a = [st |-> a.st, skip |-> a.skip]
  BY DEF Standings
<1>2. Executed(a, m.line)
  BY DEF Executed
<1>3. After(a, m.line) = [st |-> o.state, skip |-> FALSE]
  <2>1. After(a, m.line) = [a EXCEPT !.st = o.state]
    BY <1>2 DEF After
  <2>2. a.skip = FALSE
    BY DEF Standings
  <2> QED BY <1>1, <2>1, <2>2
<1>4. ReplyPrinted(a, m, r) = o.str
  BY DEF ReplyPrinted, ReplyTo
<1>5. ~(Word(m.line)[1] = "REQUEST" /\ RequestArgs(Args(m.line)))
  <2>1. ~IsRequest(a, m.line)
    BY DEF Proper
  <2>2. Len(Word(m.line)) = 1
    BY DEF Known
  <2>3. Word(m.line) \in Seq(Chars)
    <3>1. m.line \in Seq(Chars)
      BY MessageType
    <3>2. Span(m.line, EOL \cup {SP}) \in 0..Len(m.line)
      BY <3>1, SpanIs
    <3> QED BY <3>1, <3>2, FromIs DEF Word
  <2>4. ASSUME NEW w \in Seq(Chars), Len(w) = 1 PROVE w = <<w[1]>>
    BY <2>4
  <2>5. Word(m.line)[1] = "REQUEST" => Word(m.line) = <<"REQUEST">>
    BY <2>2, <2>3, <2>4
  <2> QED BY <1>2, <2>1, <2>5 DEF IsRequest
<1>6. o.str # <<>>
  BY <1>5, KnownStates, OutcomeIs
<1> QED BY <1>3, <1>4, <1>6

\* A request.
LEMMA RequestLine ==
    ASSUME NEW a \in Standings, NEW m, Proper(a, m), m.job # NoJob, NEW r
    PROVE  /\ ~a.skip /\ a.st = "Authenticated" /\ Known(a.st, Word(m.line)) /\ Complete(m.line)
           /\ Word(m.line) = <<"REQUEST">> /\ RequestArgs(Args(m.line))
           /\ After(a, m.line) = a
           /\ ReplyPrinted(a, m, r) = <<"ANSWER">> \o Escaped(SubSeq(m.job.answer, 1, r.given)) \o Marker \o <<r.status>>
<1>1. a = [st |-> a.st, skip |-> a.skip] /\ a.skip \in BOOLEAN
  BY DEF Standings
<1>2. Executed(a, m.line) /\ Word(m.line) = <<"REQUEST">> /\ RequestArgs(Args(m.line))
  BY DEF Proper, IsRequest
<1>3. ~a.skip /\ a.st # "none" /\ Known(a.st, Word(m.line)) /\ Complete(m.line)
  BY <1>2 DEF Executed
<1>4. Word(m.line) # <<>> /\ Word(m.line)[1] = "REQUEST"
  BY <1>2
<1>5. a.st = "Authenticated"
  <2>1. "REQUEST" \in Commands[a.st]
    BY <1>3, <1>4 DEF Known
  <2> QED BY <1>3, <2>1, KnownStates, CommandsIs DEF ProtocolStates
<1> DEFINE o == Outcome(a.st, Word(m.line)[1], Args(m.line))
<1>6. o.state = a.st
  BY <1>2, <1>3, <1>4, KnownStates, OutcomeIs
<1>7. After(a, m.line) = [a EXCEPT !.st = o.state]
  BY <1>2, <1>4 DEF After
<1>8. After(a, m.line) = a
  BY <1>1, <1>6, <1>7
<1> QED BY <1>2, <1>3, <1>4, <1>5, <1>8 DEF ReplyPrinted, ReplyTo

\* Nothing follows a QUIT.
LEMMA LineAfterQuit ==
    ASSUME NEW a \in Standings, NEW m, Proper(a, m), a = [st |-> "none", skip |-> FALSE], NEW r
    PROVE  After(a, m.line) = a /\ ReplyPrinted(a, m, r) = <<>> /\ m.job = NoJob
<1>1. ~Executed(a, m.line) /\ a.st = "none" /\ a.skip = FALSE
  BY DEF Executed
<1>2. After(a, m.line) = a
  BY <1>1 DEF After
<1> QED BY <1>1, <1>2 DEF ReplyPrinted, ReplyTo, Proper, IsRequest

-----------------------------------------------------------------------------
(* Escaped data and the end of an answer *)

\* In s a dot behind a line feed is followed by another.
DotsDoubled(s) ==
    \A p \in 1..(Len(s) - 1) : s[p] = LF /\ s[p + 1] = DOT => p + 2 <= Len(s) /\ s[p + 2] = DOT

LEMMA LastPair ==
    ASSUME NEW n \in Nat, NEW p \in 1..n, ~(p \in 1..(n - 1))
    PROVE  p = n
  OBVIOUS

LEMMA DoubledOne ==
    ASSUME NEW C, NEW s \in Seq(C), NEW c \in C, DotsDoubled(s), s # <<>> => ~(s[Len(s)] = LF /\ c = DOT)
    PROVE  /\ DotsDoubled(Append(s, c))
           /\ Append(s, c) # <<>> /\ Append(s, c)[Len(Append(s, c))] = c /\ Append(s, c) \in Seq(C)
<1> DEFINE t == Append(s, c)
<1>1. /\ t \in Seq(C) /\ Len(s) \in Nat /\ Len(t) = Len(s) + 1 /\ t[Len(s) + 1] = c /\ t # <<>>
      /\ \A p \in 1..Len(s) : t[p] = s[p]
  <2>1. t \in Seq(C) /\ Len(s) \in Nat /\ Len(t) = Len(s) + 1 /\ t # <<>>
    BY AppendIs
  <2>2. t[Len(s) + 1] = c /\ \A p \in 1..Len(s) : t[p] = s[p]
    OBVIOUS
  <2> QED BY <2>1, <2>2
<1> HIDE DEF t
<1>2. ASSUME NEW p \in 1..(Len(t) - 1), t[p] = LF, t[p + 1] = DOT PROVE p + 2 <= Len(t) /\ t[p + 2] = DOT
  <2>1. p \in 1..Len(s) /\ t[p] = s[p]
    BY <1>1
  <2>2. CASE p \in 1..(Len(s) - 1)
    <3>1. p + 1 \in 1..Len(s) /\ t[p + 1] = s[p + 1]
      BY <1>1, <2>2
    <3>2. p + 2 <= Len(s) /\ s[p + 2] = DOT
      BY <1>2, <2>1, <2>2, <3>1 DEF DotsDoubled
    <3>3. p + 2 \in 1..Len(s) /\ p + 2 <= Len(t)
      BY <1>1, <3>2, <2>2
    <3> QED BY <1>1, <3>2, <3>3
  <2>3. CASE ~(p \in 1..(Len(s) - 1))
    <3>1. p = Len(s)
      BY <1>1, <2>1, <2>3, LastPair
    <3>2. s # <<>> /\ s[Len(s)] = LF /\ c = DOT
      BY <1>1, <1>2, <2>1, <3>1
    <3> QED BY <3>2
  <2> QED BY <2>2, <2>3
<1>3. DotsDoubled(t)
  BY <1>2 DEF DotsDoubled
<1> QED BY <1>1, <1>3 DEF t

LEMMA DoubledTwo ==
    ASSUME NEW C, DOT \in C, NEW s \in Seq(C), DotsDoubled(s)
    PROVE  /\ DotsDoubled(Append(Append(s, DOT), DOT))
           /\ Append(Append(s, DOT), DOT)[Len(Append(Append(s, DOT), DOT))] = DOT
<1> DEFINE t == Append(Append(s, DOT), DOT)
<1>1. /\ t \in Seq(C) /\ Len(s) \in Nat /\ Len(t) = Len(s) + 2 /\ t[Len(s) + 1] = DOT /\ t[Len(s) + 2] = DOT
      /\ \A p \in 1..Len(s) : t[p] = s[p]
  <2>1. /\ Append(s, DOT) \in Seq(C) /\ Len(s) \in Nat /\ Len(Append(s, DOT)) = Len(s) + 1
        /\ Append(s, DOT)[Len(s) + 1] = DOT /\ \A p \in 1..Len(s) : Append(s, DOT)[p] = s[p]
    OBVIOUS
  <2> DEFINE u == Append(s, DOT)
  <2> HIDE DEF u
  <2>2. ASSUME u \in Seq(C) PROVE /\ Append(u, DOT) \in Seq(C) /\ Len(Append(u, DOT)) = Len(u) + 1
                                  /\ Append(u, DOT)[Len(u) + 1] = DOT /\ \A p \in 1..Len(u) : Append(u, DOT)[p] = u[p]
    BY <2>2
  <2>3. Len(s) + 1 \in 1..(Len(s) + 1) /\ \A p \in 1..Len(s) : p \in 1..(Len(s) + 1)
    BY <2>1
  <2>4. (Len(s) + 1) + 1 = Len(s) + 2
    BY <2>1
  <2> QED BY <2>1, <2>2, <2>3, <2>4 DEF u
<1> HIDE DEF t
<1>2. ASSUME NEW p \in 1..(Len(t) - 1), t[p] = LF, t[p + 1] = DOT PROVE p + 2 <= Len(t) /\ t[p + 2] = DOT
  <2>1. p \in 1..(Len(s) + 1)
    BY <1>1
  <2>2. CASE p \in 1..(Len(s) - 1)
    <3>1. p \in 1..Len(s) /\ p + 1 \in 1..Len(s) /\ t[p + 1] = s[p + 1] /\ t[p] = s[p]
      BY <1>1, <2>2
    <3>2. p + 2 <= Len(s) /\ s[p + 2] = DOT
      BY <1>2, <2>2, <3>1 DEF DotsDoubled
    <3>3. p + 2 \in 1..Len(s) /\ p + 2 <= Len(t)
      BY <1>1, <3>2, <2>2
    <3> QED BY <1>1, <3>2, <3>3
  <2>3. CASE p = Len(s)
    BY <1>1, <2>3
  <2>4. CASE p = Len(s) + 1
    BY <1>1, <1>2, <2>4, CharsDiffer
  <2> QED BY <1>1, <2>1, <2>2, <2>3, <2>4
<1>3. DotsDoubled(t)
  BY <1>2 DEF DotsDoubled
<1> QED BY <1>1, <1>3 DEF t

\* Escaped data has no other dots behind a line feed.
LEMMA EscapedDoubled ==
    ASSUME NEW data \in Seq(Chars)
    PROVE  DotsDoubled(Escaped(data)) /\ Escaped(data) \in Seq(Chars)
<1>1. DOT \in Chars /\ LF \in Chars /\ Len(data) \in Nat
  BY CharsAssumption
<1>2. /\ EscapedTo(data) \in [0..Len(data) -> Seq(Chars)] /\ EscapedTo(data)[0] = <<>>
  BY <1>1, EscapedToDef
<1> DEFINE E(k) == EscapedTo(data)[k]
           Good(k) == DotsDoubled(E(k)) /\ (E(k) # <<>> => k > 0 /\ E(k)[Len(E(k))] = data[k])
           S == {k \in 0..Len(data) : Good(k)}
<1>3. 0 \in S
  <2>1. DotsDoubled(<<>>)
    BY DEF DotsDoubled
  <2> QED BY <1>1, <1>2, <2>1
<1>4. ASSUME NEW k \in 0..(Len(data) - 1), k \in S PROVE k + 1 \in S
  <2>1. /\ E(k) \in Seq(Chars)
        /\ E(k + 1) = IF data[k + 1] = DOT /\ k > 0 /\ data[k] = LF
                      THEN Append(Append(E(k), DOT), DOT) ELSE Append(E(k), data[k + 1])
    BY <1>1, NextEscaped
  <2>2. Good(k) /\ k + 1 \in 0..Len(data) /\ k + 1 \in 1..Len(data) /\ k + 1 > 0
    BY <1>1, <1>4
  <2>3. data[k + 1] \in Chars
    BY <2>2
  <2> HIDE DEF E
  <2>4. CASE data[k + 1] = DOT /\ k > 0 /\ data[k] = LF
    <3>1. E(k + 1) = Append(Append(E(k), DOT), DOT)
      BY <2>1, <2>4
    <3>2. DotsDoubled(E(k + 1)) /\ E(k + 1)[Len(E(k + 1))] = DOT
      BY <1>1, <2>1, <2>2, <3>1, DoubledTwo
    <3> QED BY <2>2, <2>4, <3>2
  <2>5. CASE ~(data[k + 1] = DOT /\ k > 0 /\ data[k] = LF)
    <3>1. E(k + 1) = Append(E(k), data[k + 1])
      BY <2>1, <2>5
    <3>2. E(k) # <<>> => ~(E(k)[Len(E(k))] = LF /\ data[k + 1] = DOT)
      BY <2>2, <2>5
    <3>3. DotsDoubled(Append(E(k), data[k + 1]))
          /\ Append(E(k), data[k + 1])[Len(Append(E(k), data[k + 1]))] = data[k + 1]
      <4> DEFINE c == data[k + 1]
                 s == E(k)
      <4>1. c \in Chars /\ s \in Seq(Chars) /\ DotsDoubled(s) /\ (s # <<>> => ~(s[Len(s)] = LF /\ c = DOT))
        BY <2>1, <2>2, <2>3, <3>2
      <4> HIDE DEF c, s
      <4>2. DotsDoubled(Append(s, c)) /\ Append(s, c)[Len(Append(s, c))] = c
        BY <4>1, DoubledOne
      <4> QED BY <4>2 DEF c, s
    <3>4. DotsDoubled(E(k + 1)) /\ E(k + 1)[Len(E(k + 1))] = data[k + 1]
      BY <3>1, <3>3
    <3> QED BY <2>2, <3>4
  <2> QED BY <2>4, <2>5
<1>5. \A k \in 0..Len(data) : k \in S
  <2> HIDE DEF S
  <2> QED BY <1>1, <1>3, <1>4, Induction
<1>6. Len(data) \in 0..Len(data)
  BY <1>1
<1>7. DotsDoubled(E(Len(data))) /\ E(Len(data)) \in Seq(Chars)
  BY <1>2, <1>5, <1>6
<1> QED BY <1>7 DEF Escaped

\* Behind every ANSWER in s there is the marker that ends it.
Settled(s) ==
    \A i \in 1..Len(s) : s[i] = "ANSWER" =>
        \E j \in i..(Len(s) - 2) : s[j] = LF /\ s[j + 1] = DOT /\ s[j + 2] # DOT

LEMMA SettledJoin ==
    ASSUME NEW C, NEW s \in Seq(C), NEW t \in Seq(C), Settled(s), Settled(t)
    PROVE  Settled(s \o t)
<1> DEFINE v == s \o t
<1>1. v \in Seq(C) /\ Joined(v, s, t) /\ Len(s) \in Nat /\ Len(t) \in Nat
  BY ConcatIs
<1> HIDE DEF v
<1>2. Len(v) = Len(s) + Len(t)
  BY <1>1 DEF Joined
<1>3. ASSUME NEW i \in 1..Len(v), v[i] = "ANSWER"
      PROVE  \E j \in i..(Len(v) - 2) : v[j] = LF /\ v[j + 1] = DOT /\ v[j + 2] # DOT
  <2>1. CASE i \in 1..Len(s)
    <3>1. s[i] = "ANSWER"
      BY <1>1, <1>3, <2>1 DEF Joined
    <3>2. PICK j \in i..(Len(s) - 2) : s[j] = LF /\ s[j + 1] = DOT /\ s[j + 2] # DOT
      BY <2>1, <3>1 DEF Settled
    <3>3. j \in 1..Len(s) /\ j + 1 \in 1..Len(s) /\ j + 2 \in 1..Len(s) /\ j \in i..(Len(v) - 2)
      BY <1>1, <1>2, <2>1
    <3>4. v[j] = s[j] /\ v[j + 1] = s[j + 1] /\ v[j + 2] = s[j + 2]
      BY <1>1, <3>3 DEF Joined
    <3> QED BY <3>2, <3>3, <3>4
  <2>2. CASE i \notin 1..Len(s)
    <3> DEFINE m == i - Len(s)
    <3>1. m \in 1..Len(t) /\ i = Len(s) + m
      BY <1>1, <1>2, <2>2
    <3> HIDE DEF m
    <3>2. t[m] = "ANSWER"
      BY <1>1, <1>3, <3>1 DEF Joined
    <3>3. PICK j \in m..(Len(t) - 2) : t[j] = LF /\ t[j + 1] = DOT /\ t[j + 2] # DOT
      BY <3>1, <3>2 DEF Settled
    <3>4. j \in 1..Len(t) /\ j + 1 \in 1..Len(t) /\ j + 2 \in 1..Len(t) /\ Len(s) + j \in i..(Len(v) - 2)
      BY <1>1, <1>2, <3>1
    <3>5. /\ (Len(s) + j) + 1 = Len(s) + (j + 1) /\ (Len(s) + j) + 2 = Len(s) + (j + 2)
      BY <1>1, <3>4
    <3>6. v[Len(s) + j] = t[j] /\ v[Len(s) + (j + 1)] = t[j + 1] /\ v[Len(s) + (j + 2)] = t[j + 2]
      BY <1>1, <3>4 DEF Joined
    <3> QED BY <3>3, <3>4, <3>5, <3>6
  <2> QED BY <2>1, <2>2
<1>4. Settled(v)
  BY <1>3 DEF Settled
<1> QED BY <1>4 DEF v

LEMMA NoAnswerSettled ==
    ASSUME NEW s, \A j \in 1..Len(s) : s[j] # "ANSWER"
    PROVE  Settled(s)
  BY DEF Settled

\* The reply to a request.
LEMMA RequestReply ==
    ASSUME NEW s \in Seq(Chars), NEW z \in Statuses, NEW r, r = <<"ANSWER">> \o s \o Marker \o <<z>>
    PROVE  r \in Seq(Tokens) /\ Settled(r)
<1> DEFINE a == <<"ANSWER">>
           b == a \o s
           c == b \o Marker
           y == <<z>>
           n == Len(s)
<1>1. /\ CR \in Tokens /\ LF \in Tokens /\ DOT \in Tokens /\ Chars \subseteq Tokens /\ z \in Tokens /\ "ANSWER" \in Tokens
      /\ z # "ANSWER" /\ CR # "ANSWER" /\ LF # "ANSWER" /\ DOT # "ANSWER"
  BY CharsAssumption, TokensAssumption DEF Tokens, Statuses
<1> HIDE DEF Tokens
<1>2. /\ s \in Seq(Tokens) /\ n \in Nat
      /\ Marker \in Seq(Tokens) /\ Len(Marker) = 5 /\ Marker[1] = CR /\ Marker[2] = LF /\ Marker[3] = DOT
      /\ Marker[4] = CR /\ Marker[5] = LF
  <2>1. s \in Seq(Tokens)
    BY <1>1
  <2>2. Marker \in Seq(Tokens)
    BY <1>1 DEF Marker
  <2>3. Len(Marker) = 5 /\ Marker[1] = CR /\ Marker[2] = LF /\ Marker[3] = DOT /\ Marker[4] = CR /\ Marker[5] = LF
    BY DEF Marker
  <2> QED BY <2>1, <2>2, <2>3
<1>3. a \in Seq(Tokens) /\ Len(a) = 1 /\ a[1] = "ANSWER" /\ y \in Seq(Tokens) /\ Len(y) = 1 /\ y[1] = z
  BY <1>1
<1> HIDE DEF a, y
<1>4. b \in Seq(Tokens) /\ Joined(b, a, s)
  BY <1>2, <1>3, ConcatIs
<1> HIDE DEF b
<1>5. c \in Seq(Tokens) /\ Joined(c, b, Marker)
  BY <1>2, <1>4, ConcatIs
<1> HIDE DEF c
<1>6. r = c \o y
  BY DEF a, b, c, y
<1>7. r \in Seq(Tokens) /\ Joined(r, c, y)
  BY <1>3, <1>5, <1>6, ConcatIs
<1> HIDE DEF n
<1>8. Len(s) = n
  BY DEF n
<1>9. Len(b) = n + 1 /\ Len(c) = n + 6 /\ Len(r) = n + 7
  BY <1>2, <1>3, <1>4, <1>5, <1>7, <1>8 DEF Joined
<1>10. /\ r[n + 3] = LF /\ r[n + 4] = DOT /\ r[n + 5] = CR
  <2>1. 2 \in 1..5 /\ 3 \in 1..5 /\ 4 \in 1..5 /\ Len(b) + 2 = n + 3 /\ Len(b) + 3 = n + 4 /\ Len(b) + 4 = n + 5
    BY <1>2, <1>9
  <2>2. c[n + 3] = LF /\ c[n + 4] = DOT /\ c[n + 5] = CR
    BY <1>2, <1>5, <2>1 DEF Joined
  <2>3. n + 3 \in 1..Len(c) /\ n + 4 \in 1..Len(c) /\ n + 5 \in 1..Len(c)
    BY <1>2, <1>9
  <2> QED BY <1>7, <2>2, <2>3 DEF Joined
<1>11. ASSUME NEW i \in 1..Len(r), r[i] = "ANSWER" PROVE i = 1
  <2> SUFFICES ASSUME i # 1 PROVE FALSE
    OBVIOUS
  <2>1. CASE i = n + 7
    <3>1. Len(c) + 1 = n + 7 /\ 1 \in 1..Len(y)
      BY <1>2, <1>3, <1>9
    <3>2. r[i] = y[1]
      BY <1>7, <2>1, <3>1 DEF Joined
    <3> QED BY <1>1, <1>3, <1>11, <3>2
  <2>2. CASE i # n + 7
    <3>1. i \in 1..Len(c) /\ r[i] = c[i]
      <4>1. i \in 1..Len(c)
        BY <1>2, <1>9, <2>2
      <4> QED BY <4>1, <1>7 DEF Joined
    <3>2. CASE i \in 1..Len(b)
      <4> DEFINE m == i - 1
      <4>1. m \in 1..n /\ i = Len(a) + m
        BY <1>2, <1>3, <1>9, <3>2
      <4> HIDE DEF m
      <4>2. c[i] = b[i] /\ b[i] = s[m]
        BY <1>4, <1>5, <1>8, <3>2, <4>1 DEF Joined
      <4>3. s[m] \in Chars
        BY <1>8, <4>1
      <4> QED BY <1>11, <3>1, <4>2, <4>3, TokensAssumption
    <3>3. CASE i \notin 1..Len(b)
      <4> DEFINE m == i - Len(b)
      <4>1. m \in 1..5 /\ i = Len(b) + m
        BY <1>2, <1>9, <3>1, <3>3
      <4> HIDE DEF m
      <4>2. c[i] = Marker[m]
        BY <1>2, <1>5, <4>1 DEF Joined
      <4>3. m = 1 \/ m = 2 \/ m = 3 \/ m = 4 \/ m = 5
        BY <4>1
      <4>4. Marker[m] # "ANSWER"
        BY <1>1, <1>2, <4>3
      <4> QED BY <1>11, <3>1, <4>2, <4>4
    <3> QED BY <3>2, <3>3
  <2> QED BY <2>1, <2>2
<1>12. ASSUME NEW i \in 1..Len(r), r[i] = "ANSWER"
       PROVE  \E j \in i..(Len(r) - 2) : r[j] = LF /\ r[j + 1] = DOT /\ r[j + 2] # DOT
  <2>1. n + 3 \in i..(Len(r) - 2) /\ (n + 3) + 1 = n + 4 /\ (n + 3) + 2 = n + 5
    BY <1>2, <1>9, <1>11, <1>12
  <2> QED BY <1>10, <2>1, CharsDiffer
<1> QED BY <1>7, <1>12 DEF Settled

\* How a request was served.
ServedAs(m, r) == r.given \in 0..Len(m.job.answer) /\ r.status \in Statuses

LEMMA ReplyFacts ==
    ASSUME NEW a \in Standings, NEW m \in Message, Proper(a, m), NEW r, m.job # NoJob => ServedAs(m, r)
    PROVE  ReplyPrinted(a, m, r) \in Seq(Tokens) /\ Settled(ReplyPrinted(a, m, r))
<1> DEFINE t == ReplyPrinted(a, m, r)
<1>1. CASE m.job # NoJob
  <2>1. t = <<"ANSWER">> \o Escaped(SubSeq(m.job.answer, 1, r.given)) \o Marker \o <<r.status>>
    BY <1>1, RequestLine
  <2>2. m.job.answer \in Seq(Chars)
    BY <1>1, MessageType
  <2>3. SubSeq(m.job.answer, 1, r.given) \in Seq(Chars)
    BY <1>1, <2>2, FromIs DEF ServedAs
  <2>4. Escaped(SubSeq(m.job.answer, 1, r.given)) \in Seq(Chars)
    BY <2>3, EscapedDoubled
  <2> HIDE DEF t
  <2>5. t \in Seq(Tokens) /\ Settled(t)
    BY <1>1, <2>1, <2>4, RequestReply DEF ServedAs
  <2> QED BY <2>5 DEF t
<1>2. CASE m.job = NoJob
  <2>1. \/ t = <<>> \/ (\E x \in LineErrors : t = <<x>>)
        \/ (~a.skip /\ a.st # "none" /\ t = Outcome(a.st, Word(m.line)[1], Args(m.line)).str)
    BY <1>2 DEF ReplyPrinted, ReplyTo, LineErrors
  <2> HIDE DEF t
  <2>2. t \in Seq(Tokens) /\ \A j \in 1..Len(t) : t[j] # "ANSWER"
    <3>1. CASE t = <<>>
      BY <3>1
    <3>2. ASSUME NEW x \in LineErrors, t = <<x>> PROVE t \in Seq(Tokens) /\ \A j \in 1..Len(t) : t[j] # "ANSWER"
      <4>1. x \in Tokens /\ x # "ANSWER"
        BY DEF LineErrors, Tokens
      <4> HIDE DEF Tokens
      <4> QED BY <3>2, <4>1
    <3>3. CASE ~a.skip /\ a.st # "none" /\ t = Outcome(a.st, Word(m.line)[1], Args(m.line)).str
      BY <3>3, KnownStates, OutcomeIs
    <3> QED BY <2>1, <3>1, <3>2, <3>3
  <2>3. Settled(t)
    BY <2>2, NoAnswerSettled
  <2> QED BY <2>2, <2>3 DEF t
<1> QED BY <1>1, <1>2

LEMMA ReplySame ==
    ASSUME NEW a, NEW m, m.job = NoJob, NEW r, NEW q
    PROVE  ReplyPrinted(a, m, r) = ReplyPrinted(a, m, q)
  BY DEF ReplyPrinted, ReplyTo

\* The requests among the first n messages of s that are answered were served as res
\* says.
Results(s, res) == \A k \in 1..Len(s) : s[k].job # NoJob /\ k \in DOMAIN res => ServedAs(s[k], res[k])

LEMMA ReplyAt ==
    ASSUME NEW s \in Scripts, NEW res, Results(s, res), NEW i \in 1..Len(s), s[i].job = NoJob \/ i \in DOMAIN res
    PROVE  /\ ReplyPrinted(Standing(s)[i - 1], s[i], res[i]) \in Seq(Tokens)
           /\ Settled(ReplyPrinted(Standing(s)[i - 1], s[i], res[i]))
<1>1. s[i] \in Message /\ Proper(Standing(s)[i - 1], s[i]) /\ s \in Seq(Message) /\ Len(s) \in Nat
  BY ScriptType
<1>2. Standing(s)[i - 1] \in Standings
  <2>1. i - 1 \in 0..Len(s)
    BY <1>1
  <2> QED BY <1>1, <2>1, StandingDef
<1>3. s[i].job # NoJob => ServedAs(s[i], res[i])
  BY DEF Results
<1> QED BY <1>1, <1>2, <1>3, ReplyFacts

\* The replies satisfy their recursion.
LEMMA RepliesToDef ==
    ASSUME NEW s \in Scripts, NEW res, Results(s, res)
    PROVE  /\ RepliesTo(s, res) \in [0..Len(s) -> Seq(Tokens)]
           /\ RepliesTo(s, res)[0] = <<>>
           /\ \A i \in 1..Len(s) : RepliesTo(s, res)[i] = IF s[i].job # NoJob /\ i \notin DOMAIN res THEN RepliesTo(s, res)[i - 1]
                 ELSE RepliesTo(s, res)[i - 1] \o ReplyPrinted(Standing(s)[i - 1], s[i], res[i])
<1> DEFINE n == Len(s)
           T == Seq(Tokens)
           a == <<>>
           K(i, s0) == IF s[i].job # NoJob /\ i \notin DOMAIN res THEN s0 ELSE s0 \o ReplyPrinted(Standing(s)[i - 1], s[i], res[i])
           h == [p \in (1..n) \X T |-> K(p[1], p[2])]
           Eq(g) == g = [i \in 0..n |-> IF i = 0 THEN a ELSE K(i, g[i - 1])]
           f == RepliesTo(s, res)
<1>1. n \in Nat /\ a \in T
  BY ScriptType
<1>2. \A i \in 1..n : \A s0 \in T : K(i, s0) \in T
  <2>1. ASSUME NEW i \in 1..n, NEW s0 \in T PROVE K(i, s0) \in T
    <3>1. CASE s[i].job # NoJob /\ i \notin DOMAIN res
      BY <3>1
    <3>2. CASE ~(s[i].job # NoJob /\ i \notin DOMAIN res)
      <4> DEFINE t == ReplyPrinted(Standing(s)[i - 1], s[i], res[i])
      <4>1. t \in Seq(Tokens)
        BY <3>2, ReplyAt
      <4>2. K(i, s0) = s0 \o t
        BY <3>2
      <4> HIDE DEF t, K
      <4>3. s0 \o t \in Seq(Tokens)
        BY <4>1
      <4> QED BY <4>2, <4>3
    <3> QED BY <3>1, <3>2
  <2> QED BY <2>1, Zenon
<1>3. \E g : Eq(g)
  <2> HIDE DEF n, T, a, K
  <2>1. h \in [(1..n) \X T -> T]
    BY <1>2
  <2>2. PICK g \in [0..n -> T] : Solves(g, n, a, h)
    <3> HIDE DEF h
    <3> QED BY <1>1, <2>1, Recursion
  <2>3. ASSUME NEW i \in 1..n PROVE g[i] = K(i, g[i - 1])
    <3>1. <<i, g[i - 1]>> \in (1..n) \X T
      BY <1>1
    <3> QED BY <2>2, <3>1 DEF Solves
  <2>4. g[0] = a
    BY <2>2 DEF Solves
  <2>5. Eq(g)
    BY <1>1, <2>3, <2>4
  <2> QED BY <2>5
<1>4. Eq(f)
  BY <1>3, Zenon DEF RepliesTo
<1> HIDE DEF n, T, a, K, f
<1>5. f[0] = a /\ \A i \in 1..n : f[i] = K(i, f[i - 1])
  BY <1>1, <1>4
<1>6. \A i \in 0..n : f[i] \in T
  <2> DEFINE S == {i \in 0..n : f[i] \in T}
  <2>1. 0 \in S
    BY <1>1, <1>5
  <2>2. ASSUME NEW i \in 0..(n - 1), i \in S PROVE i + 1 \in S
    <3>1. i + 1 \in 1..n /\ (i + 1) - 1 = i
      BY <1>1
    <3>2. f[i + 1] = K(i + 1, f[i])
      BY <1>5, <3>1
    <3> QED BY <1>1, <1>2, <2>2, <3>1, <3>2
  <2>3. \A i \in 0..n : i \in S
    <3> HIDE DEF S
    <3> QED BY <1>1, <2>1, <2>2, Induction
  <2> QED BY <2>3
<1>7. f \in [0..n -> T]
  BY <1>4, <1>6
<1> QED BY <1>5, <1>7, Zenon DEF f, n, T, a, K

\* What is replied ends every answer it starts.
LEMMA RepliesSettled ==
    ASSUME NEW s \in Scripts, NEW res, Results(s, res), NEW k \in 0..Len(s)
    PROVE  RepliesTo(s, res)[k] \in Seq(Tokens) /\ Settled(RepliesTo(s, res)[k])
<1> DEFINE n == Len(s)
           f == RepliesTo(s, res)
           t(i) == ReplyPrinted(Standing(s)[i - 1], s[i], res[i])
           S == {i \in 0..n : Settled(f[i])}
<1>1. n \in Nat
  BY ScriptType
<1>2. /\ \A i \in 0..n : f[i] \in Seq(Tokens)
      /\ f[0] = <<>>
      /\ \A i \in 1..n : f[i] = IF s[i].job # NoJob /\ i \notin DOMAIN res THEN f[i - 1] ELSE f[i - 1] \o t(i)
  BY RepliesToDef
<1>3. \A i \in 1..n : s[i].job = NoJob \/ i \in DOMAIN res => t(i) \in Seq(Tokens) /\ Settled(t(i))
  BY ReplyAt
<1> HIDE DEF n, f, t
<1>4. 0 \in S
  <2>1. Settled(<<>>)
    BY DEF Settled
  <2> QED BY <1>1, <1>2, <2>1
<1>5. ASSUME NEW i \in 0..(n - 1), i \in S PROVE i + 1 \in S
  <2>1. i + 1 \in 1..n /\ (i + 1) - 1 = i /\ i + 1 \in 0..n /\ i \in 0..n
    BY <1>1
  <2>2. f[i + 1] = IF s[i + 1].job # NoJob /\ i + 1 \notin DOMAIN res THEN f[i] ELSE f[i] \o t(i + 1)
    BY <1>2, <2>1
  <2>3. f[i] \in Seq(Tokens) /\ Settled(f[i])
    BY <1>2, <1>5, <2>1
  <2>4. CASE s[i + 1].job # NoJob /\ i + 1 \notin DOMAIN res
    BY <2>1, <2>2, <2>3, <2>4
  <2>5. CASE ~(s[i + 1].job # NoJob /\ i + 1 \notin DOMAIN res)
    <3>1. t(i + 1) \in Seq(Tokens) /\ Settled(t(i + 1))
      BY <1>3, <2>1, <2>5
    <3>2. Settled(f[i] \o t(i + 1))
      BY <2>3, <3>1, SettledJoin
    <3> QED BY <2>1, <2>2, <2>5, <3>2
  <2> QED BY <2>4, <2>5
<1>6. \A i \in 0..n : i \in S
  <2> HIDE DEF S
  <2> QED BY <1>1, <1>4, <1>5, Induction
<1> QED BY <1>2, <1>6 DEF n, f

\* The replies to the first messages do not depend on what is answered behind them.
LEMMA RepliesSame ==
    ASSUME NEW s \in Scripts, NEW res, Results(s, res), NEW new, Results(s, new), NEW k \in 0..Len(s),
           \A i \in 1..k : s[i].job # NoJob => (i \in DOMAIN res <=> i \in DOMAIN new) /\ new[i] = res[i]
    PROVE  RepliesTo(s, new)[k] = RepliesTo(s, res)[k]
<1> DEFINE f == RepliesTo(s, res)
           g == RepliesTo(s, new)
           t(i) == ReplyPrinted(Standing(s)[i - 1], s[i], res[i])
           u(i) == ReplyPrinted(Standing(s)[i - 1], s[i], new[i])
           S == {i \in 0..k : g[i] = f[i]}
<1>1. k \in Nat /\ Len(s) \in Nat
  BY ScriptType
<1>2. /\ f[0] = <<>> /\ g[0] = <<>>
      /\ \A i \in 1..Len(s) : f[i] = IF s[i].job # NoJob /\ i \notin DOMAIN res THEN f[i - 1] ELSE f[i - 1] \o t(i)
      /\ \A i \in 1..Len(s) : g[i] = IF s[i].job # NoJob /\ i \notin DOMAIN new THEN g[i - 1] ELSE g[i - 1] \o u(i)
  BY RepliesToDef
<1>3. \A i \in 1..k : t(i) = u(i)
  BY ReplySame
<1> HIDE DEF f, g, t, u
<1>4. 0 \in S
  BY <1>1, <1>2
<1>5. ASSUME NEW i \in 0..(k - 1), i \in S PROVE i + 1 \in S
  <2>1. i + 1 \in 1..k /\ (i + 1) - 1 = i /\ i + 1 \in 0..k /\ i + 1 \in 1..Len(s)
    BY <1>1
  <2>2. f[i + 1] = IF s[i + 1].job # NoJob /\ i + 1 \notin DOMAIN res THEN f[i] ELSE f[i] \o t(i + 1)
    BY <1>2, <2>1
  <2>3. g[i + 1] = IF s[i + 1].job # NoJob /\ i + 1 \notin DOMAIN new THEN g[i] ELSE g[i] \o u(i + 1)
    BY <1>2, <2>1
  <2>4. g[i] = f[i] /\ t(i + 1) = u(i + 1)
    BY <1>3, <1>5, <2>1
  <2>5. s[i + 1].job # NoJob => (i + 1 \in DOMAIN res <=> i + 1 \in DOMAIN new)
    BY <2>1
  <2> QED BY <2>1, <2>2, <2>3, <2>4, <2>5
<1>6. \A i \in 0..k : i \in S
  <2> HIDE DEF S
  <2> QED BY <1>1, <1>4, <1>5, Induction
<1> QED BY <1>1, <1>6 DEF f, g

\* Behind a QUIT nothing is asked and nothing is replied.
LEMMA AfterQuit ==
    ASSUME NEW s \in Scripts, NEW res, Results(s, res), NEW i \in 0..Len(s),
           Standing(s)[i] = [st |-> "none", skip |-> FALSE], NEW k \in i..Len(s)
    PROVE  /\ RepliesTo(s, res)[k] = RepliesTo(s, res)[i]
           /\ \A l \in (i + 1)..k : s[l].job = NoJob
<1> DEFINE f == RepliesTo(s, res)
           n == Len(s) - i
           a == [st |-> "none", skip |-> FALSE]
           Same(d) == Standing(s)[i + d] = a /\ f[i + d] = f[i] /\ \A l \in (i + 1)..(i + d) : s[l].job = NoJob
           S == {d \in 0..n : Same(d)}
<1>1. i \in Nat /\ Len(s) \in Nat /\ n \in Nat /\ s \in Seq(Message)
  BY ScriptType
<1>2. /\ \A j \in 0..Len(s) : f[j] \in Seq(Tokens)
      /\ \A j \in 1..Len(s) : f[j] = IF s[j].job # NoJob /\ j \notin DOMAIN res THEN f[j - 1]
                                     ELSE f[j - 1] \o ReplyPrinted(Standing(s)[j - 1], s[j], res[j])
  BY RepliesToDef
<1>3. /\ \A j \in 0..Len(s) : Standing(s)[j] \in Standings
      /\ \A j \in 1..Len(s) : Standing(s)[j] = After(Standing(s)[j - 1], s[j].line)
  BY <1>1, StandingDef
<1>4. \A j \in 1..Len(s) : Proper(Standing(s)[j - 1], s[j])
  BY ScriptType
<1> HIDE DEF f
<1>5. 0 \in S
  BY <1>1
<1>6. ASSUME NEW d \in 0..(n - 1), d \in S PROVE d + 1 \in S
  <2> DEFINE j == i + (d + 1)
  <2>1. j \in 1..Len(s) /\ j - 1 = i + d /\ d + 1 \in 0..n /\ i + d \in 0..Len(s) /\ i + d \in Nat
    BY <1>1, SMTT(30)
  <2>2. Same(d)
    BY <1>6
  <2> HIDE DEF j
  <2>3. Standing(s)[j - 1] = a /\ f[j - 1] = f[i] /\ Standing(s)[j - 1] \in Standings /\ f[j - 1] \in Seq(Tokens)
    BY <1>2, <1>3, <2>1, <2>2
  <2>4. After(Standing(s)[j - 1], s[j].line) = a /\ ReplyPrinted(Standing(s)[j - 1], s[j], res[j]) = <<>> /\ s[j].job = NoJob
    BY <1>4, <2>1, <2>3, LineAfterQuit
  <2>5. Standing(s)[j] = a
    BY <1>3, <2>1, <2>4
  <2>6. f[j] = f[i]
    <3>1. f[j] = f[j - 1] \o <<>>
      BY <1>2, <2>1, <2>4
    <3> QED BY <2>3, <3>1
  <2>7. ASSUME NEW l \in (i + 1)..j PROVE s[l].job = NoJob
    <3>1. l \in (i + 1)..(i + d) \/ l = j
      BY <1>1, <2>1, SMTT(30)
    <3> QED BY <2>2, <2>4, <3>1
  <2> QED BY <2>1, <2>5, <2>6, <2>7 DEF j
<1>7. \A d \in 0..n : d \in S
  <2> HIDE DEF S, n
  <2> QED BY <1>1, <1>5, <1>6, Induction
<1>8. k - i \in 0..n /\ i + (k - i) = k
  BY <1>1
<1>9. Same(k - i)
  BY <1>7, <1>8
<1> QED BY <1>8, <1>9 DEF f

-----------------------------------------------------------------------------
(* What is sent between requests *)

\* No line of s starts with a dot, but for the first.
NoDotLine(s) == \A p \in 1..(Len(s) - 1) : ~(s[p] = LF /\ s[p + 1] = DOT)

LEMMA DotLineLater ==
    ASSUME NEW C, NEW s \in Seq(C), NEW t \in Seq(C), NoDotLine(s), NoDotLine(t), t # <<>> => t[1] # DOT
    PROVE  NoDotLine(s \o t)
<1> DEFINE v == s \o t
<1>1. v \in Seq(C) /\ Joined(v, s, t) /\ Len(s) \in Nat /\ Len(t) \in Nat
  BY ConcatIs
<1> HIDE DEF v
<1>2. ASSUME NEW p \in 1..(Len(v) - 1), v[p] = LF, v[p + 1] = DOT PROVE FALSE
  <2>1. Len(v) = Len(s) + Len(t)
    BY <1>1 DEF Joined
  <2>2. CASE p \in 1..(Len(s) - 1)
    <3>1. p \in 1..Len(s) /\ p + 1 \in 1..Len(s)
      BY <1>1, <2>2
    <3>2. v[p] = s[p] /\ v[p + 1] = s[p + 1]
      BY <1>1, <3>1 DEF Joined
    <3> QED BY <1>2, <2>2, <3>2 DEF NoDotLine
  <2>3. CASE p = Len(s)
    <3>1. 1 \in 1..Len(t) /\ p + 1 = Len(s) + 1
      BY <1>1, <2>1, <2>3
    <3>2. v[p + 1] = t[1]
      BY <1>1, <3>1 DEF Joined
    <3>3. t # <<>>
      BY <3>1
    <3> QED BY <1>2, <3>2, <3>3
  <2>4. CASE p > Len(s)
    <3> DEFINE q == p - Len(s)
    <3>1. q \in 1..(Len(t) - 1) /\ q \in 1..Len(t) /\ q + 1 \in 1..Len(t) /\ p = Len(s) + q /\ p + 1 = Len(s) + (q + 1)
      BY <1>1, <2>1, <2>4
    <3> HIDE DEF q
    <3>2. v[p] = t[q] /\ v[p + 1] = t[q + 1]
      BY <1>1, <3>1 DEF Joined
    <3> QED BY <1>2, <3>1, <3>2 DEF NoDotLine
  <2> QED BY <1>1, <2>1, <2>2, <2>3, <2>4
<1>3. NoDotLine(v)
  BY <1>2 DEF NoDotLine
<1> QED BY <1>3 DEF v

LEMMA DotLineBefore ==
    ASSUME NEW C, NEW s \in Seq(C), NEW t \in Seq(C), NoDotLine(s \o t)
    PROVE  NoDotLine(s)
<1> DEFINE v == s \o t
<1>1. v \in Seq(C) /\ Joined(v, s, t) /\ Len(s) \in Nat /\ Len(t) \in Nat
  BY ConcatIs
<1>2. NoDotLine(v)
  OBVIOUS
<1> HIDE DEF v
<1>3. ASSUME NEW p \in 1..(Len(s) - 1), s[p] = LF, s[p + 1] = DOT PROVE FALSE
  <2>1. Len(v) = Len(s) + Len(t)
    BY <1>1 DEF Joined
  <2>2. p \in 1..Len(s) /\ p + 1 \in 1..Len(s) /\ p \in 1..(Len(v) - 1)
    BY <1>1, <2>1
  <2>3. v[p] = s[p] /\ v[p + 1] = s[p + 1]
    BY <1>1, <2>2 DEF Joined
  <2> QED BY <1>2, <1>3, <2>2, <2>3 DEF NoDotLine
<1> QED BY <1>3 DEF NoDotLine

\* The line of a message.
LEMMA ProperLine ==
    ASSUME NEW a, NEW m \in Message, Proper(a, m)
    PROVE  /\ m.line \in Seq(Chars) /\ m.line # <<>> /\ Shaped(m.line)
           /\ m.line[1] # DOT /\ NoDotLine(m.line) /\ {CR, LF} \subseteq Chars /\ Len(m.line) \in Nat /\ Len(m.line) > 0
<1>1. m.line \in Seq(Chars) /\ {CR, LF} \subseteq Chars /\ Len(m.line) \in Nat
  BY MessageType, CharsAssumption
<1>2. EndsLine(m.line) \/ StrayCR(m.line)
  BY DEF Proper
<1>3. Shaped(m.line)
  BY <1>1, <1>2, LineShape
<1>4. m.line[1] # DOT
  BY DEF Proper
<1>5. (\A j \in 1..Len(m.line) : m.line[j] = LF <=> j = Len(m.line)) /\ Span(m.line, EOL) \in Nat /\ Span(m.line, EOL) < Len(m.line)
  BY <1>3 DEF Shaped
<1>6. NoDotLine(m.line)
  <2>1. \A p \in 1..(Len(m.line) - 1) : p \in 1..Len(m.line) /\ p # Len(m.line)
    BY <1>1
  <2>2. \A p \in 1..(Len(m.line) - 1) : m.line[p] # LF
    BY <1>5, <2>1
  <2> QED BY <2>2 DEF NoDotLine
<1>7. m.line # <<>> /\ Len(m.line) > 0
  BY <1>1, <1>5
<1> QED BY <1>1, <1>3, <1>4, <1>6, <1>7

\* Without requests no line starts with a dot.
LEMMA PlainBytes ==
    ASSUME NEW s \in Scripts, NEW i \in 0..Len(s), NEW k \in i..Len(s), \A l \in (i + 1)..k : s[l].job = NoJob
    PROVE  NoDotLine(BytesOf(s, i, k))
<1> DEFINE n == k - i
           S == {d \in 0..n : NoDotLine(BytesOf(s, i, i + d))}
<1>1. i \in Nat /\ k \in Nat /\ Len(s) \in Nat /\ n \in Nat /\ s \in Seq(Message) /\ i + 0 = i
  BY ScriptType
<1>2. 0 \in S
  <2>1. BytesOf(s, i, i) = <<>>
    BY <1>1, NoMessage
  <2>2. NoDotLine(<<>>)
    BY DEF NoDotLine
  <2> QED BY <1>1, <2>1, <2>2
<1>3. ASSUME NEW d \in 0..(n - 1), d \in S PROVE d + 1 \in S
  <2> DEFINE j == i + d
  <2>1. j \in i..Len(s) /\ j \in 0..Len(s) /\ j + 1 \in j..Len(s) /\ j + 1 \in (j + 1)..Len(s) /\ j + 1 \in 1..Len(s)
        /\ j + 1 \in (i + 1)..k /\ d + 1 \in 0..n /\ i + (d + 1) = j + 1 /\ (j + 1) - 1 = j /\ j + 1 \in 0..Len(s)
    BY <1>1
  <2>2. NoDotLine(BytesOf(s, i, j))
    BY <1>3
  <2> HIDE DEF j
  <2>3. BytesOf(s, i, j) \in Seq(Chars)
    BY <1>1, <2>1, BytesOfIs
  <2>4. s[j + 1] \in Message /\ Proper(Standing(s)[j], s[j + 1]) /\ s[j + 1].job = NoJob
    <3>1. s[j + 1] \in Message /\ Proper(Standing(s)[(j + 1) - 1], s[j + 1])
      BY <2>1, ScriptType
    <3> QED BY <2>1, <3>1
  <2> DEFINE l == s[j + 1].line
  <2>5. BytesOf(s, j, j + 1) = l
    <3>1. BytesOf(s, j, j + 1) = l \o Behind(s, j, j + 1) /\ l \in Seq(Chars)
      BY <1>1, <2>1, FirstMessage
    <3>2. BytesOf(s, j + 1, j + 1) = <<>>
      BY <1>1, <2>1, NoMessage
    <3>3. Data(s[j + 1]) = <<>>
      BY <2>4, MessageType
    <3>4. Behind(s, j, j + 1) = <<>>
      BY <3>2, <3>3 DEF Behind
    <3> HIDE DEF l
    <3>5. l \o <<>> = l
      BY <3>1, NoBytes
    <3> QED BY <3>1, <3>4, <3>5
  <2>6. l \in Seq(Chars) /\ l[1] # DOT /\ NoDotLine(l)
    BY <2>4, ProperLine
  <2>7. BytesOf(s, i, j + 1) = BytesOf(s, i, j) \o l
    <3>1. BytesOf(s, i, j) \o BytesOf(s, j, j + 1) = BytesOf(s, i, j + 1)
      BY <1>1, <2>1, BytesJoin
    <3> QED BY <2>5, <3>1
  <2> HIDE DEF l
  <2>8. NoDotLine(BytesOf(s, i, j) \o l)
    BY <2>2, <2>3, <2>6, DotLineLater
  <2> QED BY <2>1, <2>7, <2>8
<1>4. \A d \in 0..n : d \in S
  <2> HIDE DEF S, n
  <2> QED BY <1>1, <1>2, <1>3, Induction
<1>5. n \in 0..n /\ i + n = k
  BY <1>1
<1> QED BY <1>4, <1>5

\* A block without such a line is left as it is by a data handler that is given it.
LEMMA NothingRemoved ==
    ASSUME NEW C, NEW buf \in Seq(C), NoDotLine(buf), NEW blk \in Blocks(C), NEW r, r = GetEoD(blk, buf)
    PROVE  r.blk.buf = buf
<1> DEFINE n == Len(buf)
<1>1. n \in Nat
  OBVIOUS
<1>2. Dots(buf) = {}
  <2> SUFFICES ASSUME NEW d \in Dots(buf) PROVE FALSE
    OBVIOUS
  <2>1. d \in 0..(n - 1) /\ EoDStates(buf)[d + 1] = "CR_LF_DOT"
    BY DEF Dots
  <2>2. /\ EoDStates(buf) \in [0..n -> States]
        /\ EoDStates(buf)[0] = "SRC"
        /\ \A i \in 1..n : EoDStates(buf)[i] = EoDStep(EoDStates(buf)[i - 1], buf[i])
    BY EoDStatesDef
  <2>3. d + 1 \in 1..n /\ (d + 1) - 1 = d /\ d \in 0..n
    BY <2>1
  <2>4. EoDStep(EoDStates(buf)[d], buf[d + 1]) = "CR_LF_DOT" /\ EoDStates(buf)[d] \in States
    BY <2>1, <2>2, <2>3
  <2>5. buf[d + 1] = DOT /\ EoDStates(buf)[d] = "CR_LF"
    BY <2>4, StepTo
  <2>6. d # 0
    BY <2>2, <2>5
  <2>7. d \in 1..n /\ d - 1 \in 0..n /\ d \in 1..(n - 1)
    BY <2>1, <2>6
  <2>8. EoDStep(EoDStates(buf)[d - 1], buf[d]) = "CR_LF" /\ EoDStates(buf)[d - 1] \in States
    BY <2>2, <2>5, <2>7
  <2>9. buf[d] = LF
    BY <2>8, StepTo
  <2> QED BY <2>5, <2>7, <2>9 DEF NoDotLine
<1>3. RemoveChars(buf, {}) = buf
  <2> DEFINE k == KeptTo(buf, {})[n]
  <2>1. KeptTo(buf, {}) \in [0..n -> Seq(C)] /\ KeptTo(buf, {})[0] = <<>>
    BY KeptToDef
  <2>2. 0 \in 0..n /\ \A d \in {} : d \in Nat /\ d < 0
    BY <1>1
  <2>3. /\ Len(k) = Len(KeptTo(buf, {})[0]) + (n - 0)
        /\ \A i \in 1..(n - 0) : k[Len(KeptTo(buf, {})[0]) + i] = buf[0 + i]
    BY <2>2, KeptTail, ZenonT(40)
  <2>4. n \in 0..n /\ n - 0 = n /\ \A i \in 1..n : 0 + i = i
    BY <1>1
  <2>5. k \in Seq(C)
    BY <2>1, <2>4
  <2>6. Len(k) = n /\ \A i \in 1..n : k[i] = buf[i]
    BY <2>1, <2>3, <2>4
  <2>7. k = buf
    <3> HIDE DEF k
    <3> QED BY <2>5, <2>6, SeqEq
  <2>8. SubSeq(buf, n + 1, n) = <<>>
    <3>1. SubSeq(buf, n + 1, n) \in Seq(C) /\ Len(SubSeq(buf, n + 1, n)) = n - n
      BY <1>1, <2>4, SubSeqIs
    <3> QED BY <1>1, <3>1
  <2>9. RemoveChars(buf, {}) = buf \o <<>>
    BY <2>7, <2>8 DEF RemoveChars
  <2> QED BY <2>9
<1>4. Scan(buf).delchrs = {}
  BY <1>2, ScanIs
<1>5. ASSUME NEW b PROVE [blk EXCEPT !.buf = b, !.pos = 0].buf = b
  BY DEF Blocks
<1>6. CASE buf = <<>>
  BY <1>6 DEF GetEoD, Blocks
<1>7. CASE buf # <<>>
  <2> DEFINE data == RemoveChars(buf, Scan(buf).delchrs)
  <2>1. data = buf
    BY <1>3, <1>4
  <2>2. r.blk.buf = data
    <3> HIDE DEF data
    <3> QED BY <1>7 DEF GetEoD, Blocks, data
  <2> QED BY <2>1, <2>2
<1> QED BY <1>6, <1>7

\* A stream has a line that starts with a dot: its marker.
LEMMA StreamDot ==
    ASSUME NEW j \in Exchange
    PROVE  \E p \in 1..(Len(Stream(j)) - 1) : Stream(j)[p] = LF /\ Stream(j)[p + 1] = DOT
<1> DEFINE w == Stream(j)
           e == Len(Escaped(j.request))
<1>1. w \in Seq(Chars) /\ Len(w) \in Nat /\ e \in Nat /\ e + 5 <= Len(w) /\ IsStream(w, j.request)
  BY StreamFacts DEF DataLen
<1>2. \A i \in 1..5 : w[e + i] = Marker[i]
  BY <1>1 DEF IsStream
<1>3. Marker[2] = LF /\ Marker[3] = DOT
  BY DEF Marker
<1> HIDE DEF w, e
<1>4. 2 \in 1..5 /\ 3 \in 1..5 /\ e + 2 \in 1..(Len(w) - 1) /\ (e + 2) + 1 = e + 3
  BY <1>1
<1>5. w[e + 2] = LF /\ w[(e + 2) + 1] = DOT
  BY <1>2, <1>3, <1>4
<1>6. \E p \in 1..(Len(w) - 1) : w[p] = LF /\ w[p + 1] = DOT
  BY <1>4, <1>5
<1> QED BY <1>6 DEF w

\* A data handler does not wait for input that is not sent.
LEMMA ReadsBeforeEnd ==
    ASSUME NEW x, NEW u, PhaseInv("READ", x, u)
    PROVE  u # <<>>
<1> SUFFICES ASSUME u = <<>> PROVE FALSE
  OBVIOUS
<1>1. job \in Exchange
  BY DEF PhaseInv, PhaseType, OtherType
<1>2. Len(Stream(job)) \in Nat /\ DataLen(job) \in Nat /\ DataLen(job) + 5 <= Len(Stream(job))
  BY <1>1, StreamFacts
<1>3. Resumes(job, ReadLen(u), m_input)
  BY WaitsAtRead DEF Waits
<1>4. PICK p \in 0..DataLen(job) : ReadLen(u) <= p + 4
  BY <1>3 DEF Resumes, ReadTo
<1>5. ReadLen(u) = Len(Stream(job))
  BY <1>2 DEF ReadLen
<1> QED BY <1>2, <1>4, <1>5

LEMMA OneToken ==
    ASSUME NEW e \in Tokens, NEW o, o = <<>>
    PROVE  Append(o, e) = <<e>> /\ <<e>> \in Seq(Tokens)
<1> HIDE DEF Tokens
<1> QED OBVIOUS

\* The client that has read a settled s does not wait for the end of an answer.
LEMMA SettledOut ==
    ASSUME NEW s \in Seq(Tokens), Settled(s)
    PROVE  ~InAnswer(s)
  BY DEF InAnswer, Settled

\* The client that has read the beginning y of an escaped answer waits for its end.
LEMMA AnswerOpen ==
    ASSUME NEW r \in Seq(Tokens), NEW w \in Seq(Chars), DotsDoubled(w), NEW y \in Seq(Chars), Begins(y, w),
           NEW s, s = (r \o <<"ANSWER">>) \o y
    PROVE  InAnswer(s)
<1> DEFINE q == r \o <<"ANSWER">>
           i == Len(r) + 1
<1>1. Chars \subseteq Tokens /\ "ANSWER" \in Tokens /\ LF # "ANSWER"
  BY CharsAssumption, TokensAssumption DEF Tokens
<1> HIDE DEF Tokens
<1>2. q \in Seq(Tokens) /\ Len(r) \in Nat /\ Len(q) = i /\ q[i] = "ANSWER"
  BY <1>1, ConcatOne
<1> HIDE DEF q
<1>3. y \in Seq(Tokens) /\ Len(y) \in Nat /\ Len(w) \in Nat
  BY <1>1
<1>4. s = q \o y
  BY DEF q
<1>5. Joined(s, q, y)
  BY <1>2, <1>3, <1>4, ConcatIs
<1>6. i \in 1..Len(q) /\ Len(s) = i + Len(y) /\ i \in 1..Len(s)
  BY <1>2, <1>3, <1>5 DEF Joined
<1>7. s[i] = "ANSWER"
  BY <1>2, <1>5, <1>6 DEF Joined
<1>8. ASSUME NEW j \in i..(Len(s) - 2), s[j] = LF, s[j + 1] = DOT, s[j + 2] # DOT
      PROVE  FALSE
  <2> DEFINE p == j - i
  <2>1. j # i
    BY <1>1, <1>7, <1>8
  <2>2. /\ p \in 1..Len(y) /\ p + 1 \in 1..Len(y) /\ p + 2 \in 1..Len(y)
        /\ j = i + p /\ j + 1 = i + (p + 1) /\ j + 2 = i + (p + 2)
    BY <1>2, <1>3, <1>6, <2>1
  <2> HIDE DEF p
  <2>3. y[p] = LF /\ y[p + 1] = DOT /\ s[j + 2] = y[p + 2]
    BY <1>2, <1>5, <1>8, <2>2 DEF Joined
  <2>4. Len(y) <= Len(w) /\ w[p] = y[p] /\ w[p + 1] = y[p + 1] /\ w[p + 2] = y[p + 2]
    BY <1>3, <2>2 DEF Begins
  <2>5. p \in 1..(Len(w) - 1)
    BY <1>3, <2>2, <2>4
  <2>6. w[p + 2] = DOT
    BY <2>3, <2>4, <2>5 DEF DotsDoubled
  <2> QED BY <1>8, <2>3, <2>4, <2>6
<1> HIDE DEF i
<1>9. \A j \in i..(Len(s) - 2) : ~(s[j] = LF /\ s[j + 1] = DOT /\ s[j + 2] # DOT)
  BY <1>8
<1> QED BY <1>6, <1>7, <1>9 DEF InAnswer

-----------------------------------------------------------------------------
(* The invariant implies the properties *)

LEMMA ProgressFacts ==
    ASSUME MainType, NEW i, Progress(i)
    PROVE  /\ script \in Scripts /\ script \in Seq(Message) /\ Len(script) \in Nat
           /\ sent \in Nat /\ sent \in 0..Len(script) /\ i \in Nat /\ i <= sent /\ i \in 0..sent /\ i \in 0..Len(script)
           /\ Results(script, served)
<1>1. script \in Scripts /\ sent \in 0..Len(script) /\ i \in 0..sent
  BY DEF MainType, Progress
<1>2. script \in Seq(Message) /\ Len(script) \in Nat
  BY <1>1, ScriptType
<1>3. Results(script, served)
  BY DEF Progress, Results, ServedAs
<1> QED BY <1>1, <1>2, <1>3

\* How the protocol stands, and what is replied, after k messages.
LEMMA StandsFacts ==
    ASSUME MainType, NEW i, Progress(i), NEW k \in 0..Len(script)
    PROVE  Stands(k) \in Standings /\ Replied(k) \in Seq(Tokens) /\ Settled(Replied(k))
<1>1. script \in Scripts /\ script \in Seq(Message) /\ Results(script, served)
  BY ProgressFacts
<1> QED BY <1>1, StandingDef, RepliesSettled DEF Stands, Replied

\* The message behind the first i.
LEMMA NextMessage ==
    ASSUME MainType, NEW i, Progress(i), i < sent
    PROVE  /\ i + 1 \in 0..sent /\ i + 1 \in 0..Len(script) /\ i + 1 \in 1..Len(script) /\ sent \in (i + 1)..Len(script)
           /\ script[i + 1] \in Message /\ Proper(Stands(i), script[i + 1]) /\ Stands(i) \in Standings
           /\ LineOf(i) \in Seq(Chars) /\ Shaped(LineOf(i)) /\ Len(LineOf(i)) \in Nat /\ Len(LineOf(i)) > 0
           /\ Stands(i + 1) = After(Stands(i), LineOf(i))
           /\ Behind(script, i, sent) \in Seq(Chars) /\ BytesOf(script, i + 1, sent) \in Seq(Chars)
<1>1. /\ script \in Scripts /\ script \in Seq(Message) /\ Len(script) \in Nat
      /\ sent \in Nat /\ i \in Nat /\ i \in 0..Len(script) /\ sent <= Len(script)
  BY ProgressFacts
<1>2. i + 1 \in 0..sent /\ i + 1 \in 0..Len(script) /\ i + 1 \in 1..Len(script) /\ sent \in (i + 1)..Len(script) /\ (i + 1) - 1 = i
  BY <1>1
<1>3. script[i + 1] \in Message /\ Proper(Standing(script)[(i + 1) - 1], script[i + 1])
  BY <1>1, <1>2, ScriptType
<1>4. Proper(Stands(i), script[i + 1])
  BY <1>2, <1>3 DEF Stands
<1>5. LineOf(i) \in Seq(Chars) /\ Shaped(LineOf(i)) /\ Len(LineOf(i)) \in Nat /\ Len(LineOf(i)) > 0
  BY <1>3, <1>4, ProperLine DEF LineOf
<1>6. Standing(script)[i + 1] = After(Standing(script)[(i + 1) - 1], script[i + 1].line)
  BY <1>1, <1>2, StandingDef
<1>7. Stands(i + 1) = After(Stands(i), LineOf(i))
  BY <1>2, <1>6 DEF Stands, LineOf
<1>8. Behind(script, i, sent) \in Seq(Chars) /\ BytesOf(script, i + 1, sent) \in Seq(Chars)
  BY <1>1, <1>2, FirstMessage
<1>9. Stands(i) \in Standings
  BY <1>1, StandsFacts
<1> QED BY <1>2, <1>3, <1>4, <1>5, <1>7, <1>8, <1>9

\* The line handler has not read all that was sent when it is in a line.
LEMMA AtLineEnd ==
    ASSUME MainType, NEW i, Progress(i), NEW p \in Nat, AtLine(i, p), inp = <<>>, net = <<>>
    PROVE  i = sent
<1> SUFFICES ASSUME i # sent PROVE FALSE
  OBVIOUS
<1>1. i < sent
  BY ProgressFacts
<1>2. LineOf(i) \in Seq(Chars) /\ Len(LineOf(i)) \in Nat /\ Behind(script, i, sent) \in Seq(Chars)
  BY <1>1, NextMessage
<1>3. p < Len(LineOf(i)) /\ inp \o net = From(LineOf(i), p + 1) \o Behind(script, i, sent)
  BY DEF AtLine, Unread
<1>4. p \in 0..Len(LineOf(i)) /\ p # Len(LineOf(i))
  BY <1>2, <1>3
<1>5. From(LineOf(i), p + 1) \in Seq(Chars) /\ From(LineOf(i), p + 1) # <<>>
  BY <1>2, <1>4, FromIs
<1>6. inp \o net = <<>>
  OBVIOUS
<1> QED BY <1>2, <1>3, <1>5, <1>6, NoBytes

LEMMA AskingType ==
    ASSUME MainType, NEW i, Progress(i), Asking(i)
    PROVE  job \in Exchange /\ IsJob(i + 1) /\ i < sent
<1>1. i < sent /\ IsJob(i + 1) /\ script[i + 1].job # NoJob
  BY DEF Asking, IsJob
<1>2. script[i + 1] \in Message /\ BytesOf(script, i + 1, sent) \in Seq(Chars)
  BY <1>1, NextMessage
<1>3. script[i + 1].job.request \in Seq(Chars) /\ script[i + 1].job.answer \in Seq(Chars)
  BY <1>1, <1>2, MessageType
<1> QED BY <1>1, <1>2, <1>3 DEF Asking, Exchange

LEMMA AnsweredInv == DialogueInv => EverythingAnswered
<1> SUFFICES ASSUME DialogueInv PROVE EverythingAnswered
  OBVIOUS
<1>1. MainType /\ Control
  BY DEF DialogueInv
<1>2. PICK i \in 0..sent : Progress(i) /\ Mode(i)
  BY DEF DialogueInv
<1>3. script \in Scripts /\ Results(script, served) /\ i \in Nat /\ sent \in Nat /\ Len(script) \in Nat
      /\ i <= sent /\ sent <= Len(script) /\ i \in 0..Len(script) /\ sent \in 0..Len(script)
  BY <1>1, <1>2, ProgressFacts
<1>4. DOMAIN served = {k \in 1..i : IsJob(k)}
  BY <1>2 DEF Progress
<1>5. Requests = {k \in 1..sent : IsJob(k)}
  BY DEF Requests, IsJob
<1>6. wire \in Seq(Tokens)
  BY <1>1 DEF MainType
<1>7. ASSUME Reading, net = <<>>
      PROVE  /\ IF Standing(script)[sent].skip THEN m_cmdstateidx = "ProtocolError"
                ELSE m_cmdstateidx = "EnterCommand" /\ m_buffer = <<>>
             /\ DOMAIN served = Requests
             /\ wire = RepliesTo(script, served)[sent]
  <2>1. op = "READ" /\ caller \in {"none", "delegate"}
    BY <1>7 DEF Reading
  <2>2. m_output = <<>>
    BY <1>1, <2>1 DEF Control
  <2>3. wire \o m_output = wire
    BY <1>6, <2>2
  <2>4. CASE caller = "none" /\ m_cmdstateidx \in LineStates
    <3>1. inp = <<>>
      BY <1>1, <2>1, <2>4 DEF Control, LineStates
    <3>2. i = sent => DOMAIN served = Requests
      BY <1>4, <1>5
    <3>3. CASE m_cmdstateidx = "EnterCommand"
      <4>1. PICK p \in Nat : InCommand(i, p) /\ (i = sent => m_buffer = <<>>)
        BY <1>2, <2>4, <3>3 DEF Mode, Entering
      <4>2. i = sent
        BY <1>1, <1>2, <1>7, <3>1, <4>1, AtLineEnd DEF InCommand
      <4>3. Stands(i).skip = FALSE /\ wire = Replied(i)
        BY <2>3, <4>1 DEF InCommand
      <4> QED BY <3>2, <3>3, <4>1, <4>2, <4>3 DEF Stands, Replied
    <3>4. CASE m_cmdstateidx = "ParseArgs" \/ m_cmdstateidx = "ParseArgsEOL"
      <4>1. PICK p \in Nat : HasCommand(i, p)
        BY <1>2, <2>4, <3>4 DEF Mode, Parsing, EndingLine
      <4>2. i < sent /\ AtLine(i, p)
        BY <4>1 DEF HasCommand, InCommand
      <4>3. i = sent
        BY <1>1, <1>2, <1>7, <3>1, <4>2, AtLineEnd
      <4> QED BY <1>3, <4>2, <4>3
    <3>5. CASE m_cmdstateidx = "ProtocolError"
      <4>1. PICK p \in Nat : AtLine(i, p) /\ (i = sent => Stands(i) = [st |-> m_stateidx, skip |-> TRUE] /\ wire \o m_output = Replied(i))
        BY <1>2, <2>4, <3>5 DEF Mode, Skipping
      <4>2. i = sent
        BY <1>1, <1>2, <1>7, <3>1, <4>1, AtLineEnd
      <4>3. Stands(i).skip = TRUE /\ wire = Replied(i)
        BY <2>3, <4>1, <4>2
      <4> QED BY <3>2, <3>5, <4>2, <4>3 DEF Stands, Replied
    <3> QED BY <2>4, <3>3, <3>4, <3>5 DEF LineStates
  <2>5. CASE caller = "none" /\ m_cmdstateidx \notin LineStates
    <3>1. m_cmdstateidx = "ProcessingDelegation"
      BY <1>1, <2>1, <2>5 DEF Control
    <3>2. Detecting(i)
      BY <1>2, <2>5, <3>1 DEF Mode
    <3>3. Asking(i) /\ dbuf \o net = Stream(job) /\ ~LineWithDot
      BY <2>1, <3>2 DEF Detecting
    <3>4. job \in Exchange
      BY <1>1, <1>2, <3>3, AskingType
    <3>5. dbuf = Stream(job)
      BY <1>1, <1>7, <3>3 DEF MainType
    <3>6. LineWithDot
      BY <3>4, <3>5, StreamDot DEF LineWithDot
    <3> QED BY <3>3, <3>6
  <2>6. CASE caller = "delegate"
    <3>1. Delegated(i)
      BY <1>2, <2>6 DEF Mode
    <3>2. \E x \in Seq(Chars) : PhaseInv(op, x, net)
      BY <2>1, <3>1 DEF Delegated
    <3>3. net # <<>>
      BY <2>1, <3>2, ReadsBeforeEnd
    <3> QED BY <1>7, <3>3
  <2> QED BY <2>1, <2>4, <2>5, <2>6
<1>8. ASSUME m_cmdstateidx = "Terminate" PROVE DOMAIN served = Requests /\ wire = RepliesTo(script, served)[sent]
  <2>1. caller = "none"
    BY <1>1, <1>8 DEF Control, MainType
  <2>2. Terminating(i)
    BY <1>2, <1>8, <2>1 DEF Mode
  <2>3. Standing(script)[i] = [st |-> "none", skip |-> FALSE] /\ wire = RepliesTo(script, served)[i]
    BY <2>2 DEF Terminating, Stands, Replied
  <2>4. sent \in i..Len(script)
    BY <1>3
  <2>5. RepliesTo(script, served)[sent] = RepliesTo(script, served)[i] /\ \A l \in (i + 1)..sent : script[l].job = NoJob
    BY <1>3, <2>3, <2>4, AfterQuit
  <2>6. \A k \in 1..sent : k \in 1..i \/ k \in (i + 1)..sent
    BY <1>3
  <2>7. \A k \in 1..i : k \in 1..sent
    BY <1>3
  <2>8. DOMAIN served = Requests
    BY <1>4, <1>5, <2>5, <2>6, <2>7 DEF IsJob
  <2> QED BY <2>3, <2>5, <2>8
<1> QED BY <1>7, <1>8 DEF EverythingAnswered

LEMMA ReadInv == DialogueInv => RequestReadExactly
<1> SUFFICES ASSUME DialogueInv, m_state # "Terminated" PROVE RequestExact
  BY DEF RequestReadExactly
<1>1. MainType /\ Control
  BY DEF DialogueInv
<1>2. PICK i \in 0..sent : Progress(i) /\ Mode(i)
  BY DEF DialogueInv
<1>3. \E o, x, u : PhaseInv(o, x, u)
  <2>1. CASE caller = "none"
    <3>1. m_delegateHandler \in Endings
      BY <1>1, <2>1 DEF Control, MainType
    <3>2. m_cmdstateidx \in {"ProcessOutput", "Init"}
      BY <1>1, <2>1, <3>1 DEF Control, MainType, Endings
    <3>3. Holding(i)
      BY <1>2, <2>1, <3>1, <3>2 DEF Mode
    <3> QED BY <3>3 DEF Holding
  <2>2. CASE caller = "prefetch"
    BY <1>2, <2>2 DEF Mode, Prefetching
  <2>3. CASE caller = "redirect"
    BY <1>2, <2>3 DEF Mode, Redirecting
  <2>4. CASE caller = "delegate"
    BY <1>2, <2>4 DEF Mode, Delegated
  <2> QED BY <1>1, <2>1, <2>2, <2>3, <2>4 DEF MainType
<1> QED BY <1>3 DEF PhaseInv

\* What the client reads of a data phase before the handler terminates.
LEMMA PhaseOpen ==
    ASSUME NEW r \in Seq(Tokens), NEW x \in Seq(Chars), NEW o, NEW u, PhaseInv(o, x, u), m_state # "Terminated",
           NEW y, y = x \o m_writedata, NEW s, s = (r \o <<"ANSWER">>) \o y
    PROVE  InAnswer(s)
<1>1. PICK whole : whole = Escaped(SubSeq(job.answer, 1, given))
  OBVIOUS
<1>2. y \in Seq(Chars) /\ whole \in Seq(Chars) /\ Begins(y, whole)
  BY <1>1, PhasePrints
<1>3. job \in Exchange /\ given \in 0..Len(job.answer)
  BY DEF PhaseInv, PhaseType, OtherType
<1>4. job.answer \in Seq(Chars)
  BY <1>3, ExchangeType
<1>5. SubSeq(job.answer, 1, given) \in Seq(Chars)
  BY <1>3, <1>4, FromIs
<1>6. DotsDoubled(whole)
  BY <1>1, <1>5, EscapedDoubled
<1> QED BY <1>2, <1>6, AnswerOpen

LEMMA InterruptInv == DialogueInv => InterruptMatchesClient
<1> SUFFICES ASSUME DialogueInv
             PROVE  /\ Reading => (InterruptMarker = Marker <=> InAnswer(wire))
                    /\ Writing => (InterruptMarker = Marker => InAnswer(Underway))
  BY DEF InterruptMatchesClient
<1>1. MainType /\ Control
  BY DEF DialogueInv
<1>2. PICK i \in 0..sent : Progress(i) /\ Mode(i)
  BY DEF DialogueInv
<1>3. wire \in Seq(Tokens)
  BY <1>1 DEF MainType
<1>5. Marker # <<>>
  BY DEF Marker
<1>6. i \in 0..Len(script) /\ i \in Nat /\ sent \in Nat /\ i <= sent
  BY <1>1, <1>2, ProgressFacts
<1>7. ASSUME op = "READ", caller = "none" PROVE InterruptMarker = Marker <=> InAnswer(wire)
  <2>0. m_output = <<>> /\ wire \o m_output = wire
    BY <1>1, <1>3, <1>7 DEF Control
  <2>1. InterruptMarker = <<>>
    BY <1>1, <1>7 DEF InterruptMarker, Control, LineStates, Endings
  <2>2. \E k \in 0..Len(script) : wire = Replied(k)
    <3>1. CASE m_cmdstateidx = "EnterCommand" \/ m_cmdstateidx = "ParseArgs" \/ m_cmdstateidx = "ParseArgsEOL"
      <4>1. PICK p \in Nat : InCommand(i, p)
        BY <1>2, <1>7, <3>1 DEF Mode, Entering, Parsing, EndingLine, HasCommand
      <4> QED BY <1>3, <2>0, <1>6, <4>1 DEF InCommand
    <3>2. CASE m_cmdstateidx = "ProtocolError"
      <4>1. IF i = sent THEN wire \o m_output = Replied(i) ELSE wire \o m_output = Replied(i + 1)
        BY <1>2, <1>7, <3>2 DEF Mode, Skipping
      <4>2. i # sent => i + 1 \in 0..Len(script)
        BY <1>1, <1>2, <1>6, NextMessage
      <4> QED BY <1>3, <2>0, <1>6, <4>1, <4>2
    <3>3. CASE m_cmdstateidx = "ProcessingDelegation"
      BY <1>2, <1>6, <1>7, <3>3 DEF Mode, Detecting
    <3> QED BY <1>1, <1>7, <3>1, <3>2, <3>3 DEF Control, LineStates
  <2>3. ~InAnswer(wire)
    BY <1>1, <1>2, <1>3, <2>0, <2>2, StandsFacts, SettledOut
  <2> QED BY <1>5, <2>1, <2>3
<1>8. ASSUME caller = "delegate", op \in {"READ", "WRITE"}, m_state # "Terminated"
      PROVE  InAnswer(wire \o m_writedata)
  <2>1. Delegated(i)
    BY <1>2, <1>8 DEF Mode
  <2>2. PICK x \in Seq(Chars) : PhaseInv(op, x, net) /\ wire = Replied(i) \o <<"ANSWER">> \o x
    BY <1>8, <2>1 DEF Delegated
  <2>3. Replied(i) \in Seq(Tokens)
    BY <1>1, <1>2, <1>6, StandsFacts
  <2>4. wire \o m_writedata = (Replied(i) \o <<"ANSWER">>) \o (x \o m_writedata)
    <3>1. Replied(i) \o <<"ANSWER">> \in Seq(Tokens) /\ x \in Seq(Tokens) /\ m_writedata \in Seq(Tokens)
      <4>1. m_writedata \in Seq(Chars) /\ Chars \subseteq Tokens /\ <<"ANSWER">> \in Seq(Tokens)
        BY <2>2, OneToken DEF PhaseInv, PhaseType, OtherType, Tokens
      <4> HIDE DEF Tokens
      <4> QED BY <2>3, <4>1
    <3> QED BY <2>2, <3>1, Assoc
  <2> QED BY <1>8, <2>2, <2>3, <2>4, PhaseOpen
<1>9. ASSUME caller = "delegate", op = "READ" PROVE InterruptMarker = Marker <=> InAnswer(wire)
  <2>1. PICK x \in Seq(Chars) : PhaseInv("READ", x, net)
    BY <1>2, <1>9 DEF Mode, Delegated
  <2>2. m_writedata = <<>> /\ m_state \in {"StartProcessing", "Processing", "DiscardInput"}
    BY <2>1, WaitsAtRead DEF Waits
  <2>3. InterruptMarker = Marker
    BY <1>1, <1>9, <2>2 DEF Control, InterruptMarker, Endings
  <2>4. wire \o m_writedata = wire
    BY <1>3, <2>2
  <2> QED BY <1>8, <1>9, <2>2, <2>3, <2>4
<1>10. ASSUME Writing, InterruptMarker = Marker PROVE InAnswer(Underway)
  <2>1. op = "WRITE" /\ caller \in {"none", "delegate"} /\ m_cmdstateidx = "ProcessingDelegation" /\ m_state # "Terminated"
    BY <1>5, <1>10 DEF Writing, InterruptMarker
  <2>2. caller = "delegate"
    BY <1>1, <2>1 DEF Control
  <2> QED BY <1>8, <2>1, <2>2 DEF Underway
<1> QED BY <1>7, <1>9, <1>10 DEF Reading

-----------------------------------------------------------------------------
(* What steps keep *)

LEMMA ClientSame ==
    ASSUME UNCHANGED <<script, sent, served>>, NEW i, NEW p
    PROVE  /\ Stands(i)' = Stands(i) /\ Replied(i)' = Replied(i) /\ LineOf(i)' = LineOf(i)
           /\ IsJob(i)' <=> IsJob(i)
           /\ Progress(i)' <=> Progress(i)
           /\ Unread(i, p)' = Unread(i, p)
<1>1. script' = script /\ sent' = sent /\ served' = served
  OBVIOUS
<1>2. Stands(i)' = Stands(i) /\ Replied(i)' = Replied(i) /\ LineOf(i)' = LineOf(i)
  BY <1>1 DEF Stands, Replied, LineOf
<1>3. IsJob(i)' <=> IsJob(i)
  BY <1>1 DEF IsJob
<1>4. Progress(i)' <=> Progress(i)
  BY <1>1 DEF Progress, IsJob
<1>5. Unread(i, p)' = Unread(i, p)
  BY <1>1, <1>2 DEF Unread
<1> QED BY <1>2, <1>3, <1>4, <1>5

LEMMA PhaseSame ==
    ASSUME NEW o, NEW x, NEW u, PhaseInv(o, x, u), UNCHANGED <<job, m_state, inputVars, cmdh>>,
           UNCHANGED <<m_esc_stm, m_writedata, given>>
    PROVE  PhaseInv(o, x, u)'
<1>1. NetInv(u)' /\ OpInv(o, u)'
  BY NetSame DEF PhaseInv, OpInv, inputVars
<1>2. InputType' /\ InputInv(u)' /\ RequestExact'
  BY InputSame DEF PhaseInv, PhaseType, Handing
<1>3. OtherType(o, x, u)'
  BY DEF PhaseInv, PhaseType, OtherType
<1>4. OutputInv(x)'
  BY OutputSame DEF PhaseInv, OutputInv
<1> QED BY <1>1, <1>2, <1>3, <1>4 DEF PhaseInv, PhaseType

\* At the start of a line everything behind the first k messages is to be read.
LEMMA UnreadAll ==
    ASSUME MainType, NEW i, Progress(i), NEW k \in 0..sent
    PROVE  /\ Unread(k, 0) = BytesOf(script, k, sent) /\ BytesOf(script, k, sent) \in Seq(Chars)
           /\ IF k = sent THEN 0 = 0 ELSE 0 < Len(LineOf(k))
<1>1. /\ script \in Scripts /\ script \in Seq(Message) /\ Len(script) \in Nat /\ sent \in Nat /\ sent <= Len(script)
  BY ProgressFacts
<1>2. k \in 0..Len(script) /\ k \in Nat /\ sent \in k..Len(script)
  BY <1>1
<1>3. BytesOf(script, k, sent) \in Seq(Chars)
  BY <1>1, <1>2, BytesOfIs
<1>4. CASE k = sent
  BY <1>1, <1>2, <1>3, <1>4, NoMessage DEF Unread
<1>5. CASE k # sent
  <2>1. sent \in (k + 1)..Len(script) /\ k + 1 \in 1..Len(script) /\ 0 + 1 = 1 /\ (k + 1) - 1 = k
    BY <1>1, <1>2, <1>5
  <2>2. LineOf(k) \in Seq(Chars) /\ BytesOf(script, k, sent) = LineOf(k) \o Behind(script, k, sent)
    BY <1>1, <1>2, <2>1, FirstMessage DEF LineOf
  <2>3. From(LineOf(k), 1) = LineOf(k)
    <3>1. 0 \in 0..Len(LineOf(k))
      BY <2>2
    <3> QED BY <2>2, <3>1, FromIs
  <2>4. script[k + 1] \in Message /\ Proper(Standing(script)[(k + 1) - 1], script[k + 1])
    BY <1>1, <2>1, ScriptType
  <2>5. Len(LineOf(k)) > 0 /\ Len(LineOf(k)) \in Nat
    BY <2>4, ProperLine DEF LineOf
  <2> QED BY <1>3, <1>5, <2>1, <2>2, <2>3, <2>5 DEF Unread
<1> QED BY <1>4, <1>5

\* A message that is no request is dealt with.
LEMMA ProgressNext ==
    ASSUME MainType, NEW i, Progress(i), i < sent, ~IsJob(i + 1)
    PROVE  /\ Progress(i + 1)
           /\ Replied(i + 1) = Replied(i) \o ReplyPrinted(Stands(i), script[i + 1], served[i + 1])
           /\ Behind(script, i, sent) = BytesOf(script, i + 1, sent)
<1>1. /\ script \in Scripts /\ script \in Seq(Message) /\ Len(script) \in Nat /\ sent \in Nat /\ i \in Nat /\ i <= sent
      /\ Results(script, served)
  BY ProgressFacts
<1>2. i + 1 \in 0..sent /\ i + 1 \in 1..Len(script) /\ script[i + 1] \in Message /\ (i + 1) - 1 = i
      /\ BytesOf(script, i + 1, sent) \in Seq(Chars)
  BY <1>1, NextMessage
<1>3. Progress(i + 1)
  <2>1. {k \in 1..i : IsJob(k)} = {k \in 1..(i + 1) : IsJob(k)}
    <3>1. \A k \in 1..(i + 1) : k \in 1..i \/ k = i + 1
      BY <1>1
    <3>2. \A k \in 1..i : k \in 1..(i + 1)
      BY <1>1
    <3> QED BY <3>1, <3>2
  <2>2. \A k \in ((i + 1) + 1)..sent : k \in (i + 1)..sent
    BY <1>1
  <2> QED BY <1>2, <2>1, <2>2 DEF Progress
<1>4. script[i + 1].job = NoJob
  BY DEF IsJob
<1>5. Replied(i + 1) = Replied(i) \o ReplyPrinted(Stands(i), script[i + 1], served[i + 1])
  BY <1>1, <1>2, <1>4, RepliesToDef DEF Replied, Stands
<1>6. Behind(script, i, sent) = BytesOf(script, i + 1, sent)
  <2>1. Data(script[i + 1]) = <<>>
    BY <1>2, <1>4, MessageType
  <2> QED BY <1>2, <2>1, NoBytes DEF Behind
<1> QED BY <1>3, <1>5, <1>6

\* The line behind one that starts with a space is skipped.
LEMMA SkipsLine ==
    ASSUME MainType, NEW i, Progress(i), i < sent, NEW st, Stands(i) = [st |-> st, skip |-> TRUE]
    PROVE  /\ EndsLine(LineOf(i)) /\ ~IsJob(i + 1)
           /\ Stands(i + 1) = [st |-> st, skip |-> FALSE] /\ Replied(i + 1) = Replied(i)
<1>1. /\ i + 1 \in 0..Len(script) /\ script[i + 1] \in Message /\ Proper(Stands(i), script[i + 1]) /\ Stands(i) \in Standings
      /\ Stands(i + 1) = After(Stands(i), LineOf(i))
  BY NextMessage
<1>2. Stands(i).st = st /\ Stands(i).skip = TRUE
  OBVIOUS
<1>3. /\ After(Stands(i), script[i + 1].line) = [st |-> Stands(i).st, skip |-> FALSE]
      /\ ReplyPrinted(Stands(i), script[i + 1], served[i + 1]) = <<>>
      /\ script[i + 1].job = NoJob /\ EndsLine(script[i + 1].line)
  BY <1>1, <1>2, SkippedLine
<1>4. ~IsJob(i + 1)
  BY <1>3 DEF IsJob
<1>5. Replied(i) \in Seq(Tokens)
  BY StandsFacts, ProgressFacts
<1>6. Replied(i + 1) = Replied(i) \o <<>>
  BY <1>3, <1>4, ProgressNext
<1>7. Replied(i + 1) = Replied(i)
  BY <1>5, <1>6
<1> QED BY <1>1, <1>2, <1>3, <1>4, <1>7 DEF LineOf

\* What the line handler has in a turn of its loop.
LEMMA TurnFacts ==
    ASSUME DialogueInv, NEW st, LineTurn(st)
    PROVE  /\ MainType /\ Control /\ op = "none" /\ caller = "none" /\ m_cmdstateidx = st
           /\ m_output = <<>> /\ wire \in Seq(Tokens) /\ wire \o m_output = wire /\ inp \in Seq(Chars) /\ net \in Seq(Chars)
           /\ \E i \in 0..sent : Progress(i) /\ Mode(i)
<1>1. MainType /\ Control /\ op = "none" /\ caller = "none" /\ m_cmdstateidx = st
  BY DEF DialogueInv, LineTurn
<1>2. m_output = <<>>
  BY <1>1 DEF Control
<1>3. wire \in Seq(Tokens) /\ inp \in Seq(Chars) /\ net \in Seq(Chars)
  BY <1>1 DEF MainType
<1>4. wire \o m_output = wire
  BY <1>2, <1>3
<1> QED BY <1>1, <1>2, <1>3, <1>4 DEF DialogueInv

LEMMA InitDialogue == MainInit => DialogueInv
<1> SUFFICES ASSUME MainInit PROVE DialogueInv
  OBVIOUS
<1>1. script \in Scripts /\ sent = 0 /\ Len(script) \in Nat
  BY ScriptType DEF MainInit
<1>2. MainType
  <2>1. <<>> \in Seq(Chars) /\ <<>> \in Seq(Tokens)
    OBVIOUS
  <2>2. /\ net \in Seq(Chars) /\ inp \in Seq(Chars) /\ dbuf \in Seq(Chars)
        /\ wire \in Seq(Tokens) /\ m_output \in Seq(Tokens) /\ m_resultstr \in Seq(Tokens)
        /\ m_buffer \in Seq(Chars) /\ m_cmd \in Seq(Chars)
    BY <2>1 DEF MainInit
  <2>3. /\ m_cmdstateidx = "Init" /\ m_stateidx = "Unauthenticated" /\ m_refuseInputFlag = FALSE
        /\ m_delegateHandler = "none" /\ caller = "none" /\ op = "none"
    BY DEF MainInit
  <2>4. sent \in 0..Len(script)
    BY <1>1
  <2> QED BY <1>1, <2>2, <2>3, <2>4 DEF MainType, ProtocolStates
<1>3. Control
  BY DEF MainInit, Control, LineStates, Endings
<1>4. Progress(0)
  <2>1. DOMAIN served = {} /\ {k \in 1..0 : IsJob(k)} = {}
    BY DEF MainInit
  <2>2. \A k \in (0 + 1)..sent : FALSE
    BY <1>1
  <2>3. 0 \in 0..sent
    BY <1>1
  <2> QED BY <2>1, <2>2, <2>3 DEF Progress
<1>5. Printing(0)
  <2>1. Stands(0) = [st |-> "Unauthenticated", skip |-> FALSE] /\ Replied(0) = <<>>
    BY <1>1, <1>2, <1>4, ProgressFacts, StandingDef, RepliesToDef DEF Stands, Replied
  <2>2. AtLine(0, 0)
    BY <1>1 DEF AtLine, Unread, MainInit
  <2>3. Returned(Stands(0).st)
    BY <2>1 DEF Returned, MainInit
  <2>4. wire \o m_output \o m_resultstr = <<>>
    BY DEF MainInit
  <2> QED BY <2>1, <2>2, <2>3, <2>4 DEF Printing
<1>6. Mode(0)
  BY <1>5 DEF Mode, MainInit, Endings
<1> QED BY <1>1, <1>2, <1>3, <1>4, <1>6 DEF DialogueInv

-----------------------------------------------------------------------------
(* The steps of the line handler *)

\* A line of which p bytes are read, and the block.
LEMMA InLine ==
    ASSUME MainType, NEW i, Progress(i), i < sent, NEW p \in Nat
    PROVE  AtLine(i, p) <=> p < Len(LineOf(i)) /\ Reads(LineOf(i), p, Behind(script, i, sent), inp, net)
<1>1. i # sent
  BY ProgressFacts
<1> QED BY <1>1 DEF AtLine, Unread, Reads

LEMMA InLineNext ==
    ASSUME MainType, NEW i, Progress(i), i < sent, UNCHANGED <<script, sent, served, net>>, NEW p,
           p < Len(LineOf(i)), Reads(LineOf(i), p, Behind(script, i, sent), inp', net)
    PROVE  AtLine(i, p)'
<1>1. i # sent
  BY ProgressFacts
<1>2. Unread(i, p)' = Unread(i, p) /\ LineOf(i)' = LineOf(i)
  BY ClientSame
<1> QED BY <1>1, <1>2 DEF AtLine, Unread, Reads

\* The line handler is at the start of the line behind the first i messages.
LEMMA NextLineStart ==
    ASSUME MainType, NEW k, Progress(k), NEW i \in 0..sent, UNCHANGED <<script, sent, served>>,
           inp' \o net' = BytesOf(script, i, sent)
    PROVE  AtLine(i, 0)'
<1>1. /\ Unread(i, 0) = BytesOf(script, i, sent)
      /\ IF i = sent THEN 0 = 0 ELSE 0 < Len(LineOf(i))
  BY UnreadAll
<1>2. Unread(i, 0)' = Unread(i, 0) /\ LineOf(i)' = LineOf(i)
  BY ClientSame
<1> QED BY <1>1, <1>2 DEF AtLine

\* The command of a state that is not "none" is read.
LEMMA CommandState ==
    ASSUME MainType, NEW i, NEW p, InCommand(i, p)
    PROVE  Stands(i).st = m_stateidx /\ Stands(i).st # "none" /\ ~Stands(i).skip
  BY DEF MainType, InCommand, ProtocolStates

LEMMA EnterCommandInv ==
    ASSUME DialogueInv, EnterCommand
    PROVE  DialogueInv'
<1> DEFINE n == Span(inp, EOL \cup {SP})
           word == m_buffer \o SubSeq(inp, 1, n)
<1>1. LineTurn("EnterCommand")
  BY DEF EnterCommand
<1>2. /\ MainType /\ Control /\ op = "none" /\ caller = "none" /\ m_cmdstateidx = "EnterCommand"
      /\ m_output = <<>> /\ wire \in Seq(Tokens) /\ wire \o m_output = wire /\ inp \in Seq(Chars) /\ net \in Seq(Chars)
  BY <1>1, TurnFacts
<1>3. PICK i \in 0..sent : Progress(i) /\ Mode(i)
  BY <1>1, TurnFacts
<1>4. PICK p \in Nat : /\ InCommand(i, p)
                       /\ IF i = sent THEN m_buffer = <<>>
                          ELSE m_buffer = SubSeq(LineOf(i), 1, p) /\ p <= Span(LineOf(i), EOL \cup {SP})
  BY <1>2, <1>3 DEF Mode, Entering
<1>5. /\ m_refuseInputFlag' = FALSE /\ inp' = From(inp, n + 1)
      /\ UNCHANGED <<script, sent, served, m_stateidx, m_resultstr, m_resultstate, m_delegateHandler, caller, dbuf>>
      /\ UNCHANGED <<ending, job, net, wire, m_state>>
  BY DEF EnterCommand, clientVars, netVars, handlerVars
<1>6. /\ IF n = Len(inp) THEN op' = "READ" /\ m_buffer' = word /\ UNCHANGED <<m_cmdstateidx, m_cmd, m_output>>
         ELSE /\ m_buffer' = <<>>
              /\ IF Known(m_stateidx, word)
                 THEN m_cmdstateidx' = "ParseArgs" /\ m_cmd' = word /\ UNCHANGED <<op, m_output>>
                 ELSE /\ m_output' = Append(m_output, "ERR unknown command") /\ m_cmdstateidx' = "ProtocolError"
                      /\ op' = "WRITE" /\ m_cmd' = m_cmd
  BY DEF EnterCommand, Refuse
<1>7. n \in 0..Len(inp)
  BY <1>2, SpanIs
<1>8. From(inp, n + 1) \in Seq(Chars) /\ (From(inp, n + 1) = <<>> <=> n = Len(inp)) /\ SubSeq(inp, 1, n) \in Seq(Chars)
  BY <1>2, <1>7, FromIs, ZenonT(40)
<1> HIDE DEF n
<1>9. word \in Seq(Chars) /\ m_buffer \in Seq(Chars)
  BY <1>2, <1>8 DEF MainType
<1> HIDE DEF word
<1>10. "ERR unknown command" \in Tokens /\ Append(m_output, "ERR unknown command") \in Seq(Tokens)
  <2>1. "ERR unknown command" \in Tokens
    BY DEF Tokens, LineErrors
  <2> QED BY <1>2, <2>1, OneToken
<1>11. MainType'
  <2>1. <<>> \in Seq(Chars)
    OBVIOUS
  <2> QED BY <1>2, <1>5, <1>6, <1>8, <1>9, <1>10, <2>1 DEF MainType, LineStates
<1>12. Control'
  BY <1>2, <1>5, <1>6, <1>8 DEF Control, LineStates
<1>13. \A k, q : /\ Stands(k)' = Stands(k) /\ Replied(k)' = Replied(k) /\ LineOf(k)' = LineOf(k)
                 /\ (IsJob(k)' <=> IsJob(k)) /\ (Progress(k)' <=> Progress(k)) /\ Unread(k, q)' = Unread(k, q)
  BY <1>5, ClientSame
<1>14. /\ i \in Nat /\ sent \in Nat /\ i <= sent /\ sent' = sent /\ script' = script
       /\ Replied(i) \in Seq(Tokens)
  BY <1>2, <1>3, <1>5, ProgressFacts, StandsFacts
<1>15. Mode(i)'
  <2>1. CASE i = sent
    <3>1. p = 0 /\ inp \o net = <<>>
      BY <1>4, <2>1 DEF InCommand, AtLine, Unread
    <3>2. inp = <<>> /\ net = <<>> /\ Len(inp) = 0
      BY <1>2, <3>1, NoBytes
    <3>3. n = Len(inp) /\ SubSeq(inp, 1, n) = <<>>
      BY <1>7, <3>2
    <3>4. op' = "READ" /\ m_buffer' = <<>> /\ inp' = <<>> /\ m_cmdstateidx' = "EnterCommand" /\ m_output' = m_output
      BY <1>2, <1>4, <1>5, <1>6, <1>8, <2>1, <3>3 DEF word
    <3>5. InCommand(i, 0)'
      BY <1>4, <1>5, <1>13, <1>14, <2>1, <3>1, <3>2, <3>4 DEF InCommand, AtLine, Unread
    <3>6. Entering(i)'
      BY <1>14, <2>1, <3>4, <3>5 DEF Entering
    <3> QED BY <1>2, <1>5, <3>4, <3>6 DEF Mode
  <2>2. CASE i # sent
    <3> DEFINE l == LineOf(i)
               b == Behind(script, i, sent)
               m == script[i + 1]
               chars == EOL \cup {SP}
    <3>1. i < sent
      BY <1>14, <2>2
    <3>2. /\ l \in Seq(Chars) /\ b \in Seq(Chars) /\ Shaped(l) /\ m \in Message /\ Proper(Stands(i), m) /\ Len(l) \in Nat
          /\ Stands(i) \in Standings /\ Stands(i + 1) = After(Stands(i), l) /\ l = m.line
      BY <1>2, <1>3, <3>1, NextMessage DEF LineOf
    <3>3. p < Len(l) /\ Reads(l, p, b, inp, net)
      BY <1>2, <1>3, <1>4, <3>1, InLine DEF InCommand
    <3>4. p <= Span(l, chars) /\ m_buffer = SubSeq(l, 1, p)
      BY <1>4, <2>2
    <3> HIDE DEF l, b, m
    <3>5. Span(l, chars) \in Nat /\ Span(l, EOL) \in Nat /\ Span(l, chars) <= Span(l, EOL) /\ Span(l, EOL) < Len(l)
      BY <3>2 DEF Shaped
    <3>6. Span(l, chars) < Len(l)
      BY <3>2, <3>5
    <3>7. n = Span(inp, chars)
      BY DEF n
    <3> HIDE DEF chars
    <3>8. PICK q : q = p + n
      OBVIOUS
    <3>80. /\ q <= Span(l, chars) /\ (n # Len(inp) => q = Span(l, chars))
          /\ SubSeq(inp, 1, n) = SubSeq(l, p + 1, q) /\ Reads(l, q, b, From(inp, n + 1), net)
      <4>1. inp \in Seq(Chars) /\ net \in Seq(Chars)
        BY <1>2
      <4>2. Scanned(l, p, b, inp, net, chars, n)
        BY <3>2, <3>3, <3>4, <3>6, <3>7, <4>1, Scans
      <4> QED BY <3>8, <4>2 DEF Scanned
    <3>9. q \in Nat /\ q < Len(l) /\ p \in 0..Len(l) /\ n \in 0..(Len(l) - p) /\ q \in 0..(Len(l) - 1)
          /\ Len(inp) \in Nat /\ n \in Nat
      BY <1>2, <1>7, <3>2, <3>3, <3>5, <3>6, <3>8, <3>80, SMTT(30)
    <3>10. word = SubSeq(l, 1, q)
      BY <3>2, <3>4, <3>8, <3>80, <3>9, FromFrom, ZenonT(40) DEF word
    <3>11. AtLine(i, q)'
      BY <1>2, <1>3, <1>5, <3>1, <3>80, <3>9, InLineNext DEF l, b
    <3>12. m_output' = m_output => InCommand(i, q)'
      BY <1>4, <1>5, <1>13, <3>11 DEF InCommand
    <3>13. CASE n = Len(inp)
      <4>1. op' = "READ" /\ m_buffer' = word /\ m_cmdstateidx' = "EnterCommand" /\ m_output' = m_output
        BY <1>2, <1>6, <3>13
      <4>2. m_buffer' = SubSeq(LineOf(i)', 1, q) /\ q <= Span(LineOf(i)', EOL \cup {SP})
        BY <1>13, <3>80, <3>10, <4>1 DEF l, chars
      <4>3. Entering(i)'
        BY <1>14, <2>2, <3>9, <3>12, <4>1, <4>2 DEF Entering
      <4> QED BY <1>2, <1>5, <4>1, <4>3 DEF Mode
    <3>14. CASE n # Len(inp)
      <4>1. word = Word(l) /\ q = Span(l, chars) /\ Len(Word(l)) = q
        <5>1. word = Word(l) /\ q = Span(l, chars)
          BY <3>80, <3>10, <3>14 DEF Word, chars
        <5>2. q \in 0..Len(l)
          BY <3>2, <3>9
        <5>3. Len(SubSeq(l, 1, q)) = q
          BY <3>2, <5>2, FromIs
        <5> QED BY <3>10, <5>1, <5>3
      <4>2. Stands(i).st = m_stateidx /\ Stands(i).st # "none" /\ ~Stands(i).skip
        BY <1>2, <1>4, CommandState
      <4>3. CASE Known(m_stateidx, word)
        <5>1. m_cmdstateidx' = "ParseArgs" /\ m_cmd' = word /\ op' = op /\ m_output' = m_output /\ m_buffer' = <<>>
          BY <1>6, <3>14, <4>3
        <5>2. Words(SubSeq(l, q + 1, q)) = <<>>
          <6>1. q \in 0..Len(l) /\ q \in q..Len(l) /\ Len(l) \in q..Len(l)
            BY <3>2, <3>9
          <6> QED BY <3>2, <6>1, WordsOn
        <5>3. HasCommand(i, q)'
          BY <1>5, <1>13, <1>14, <3>1, <3>12, <4>1, <4>3, <5>1 DEF HasCommand, l
        <5>4. /\ Len(Word(LineOf(i)')) <= q /\ q <= Span(LineOf(i)', EOL)
              /\ m_buffer' = Words(SubSeq(LineOf(i)', Len(Word(LineOf(i)')) + 1, q))
          BY <1>13, <3>5, <3>80, <3>9, <4>1, <5>1, <5>2, SMTT(30) DEF l
        <5>5. Parsing(i)'
          BY <3>9, <5>3, <5>4 DEF Parsing
        <5> QED BY <1>2, <1>5, <5>1, <5>5 DEF Mode
      <4>4. CASE ~Known(m_stateidx, word)
        <5>1. /\ m_output' = Append(m_output, "ERR unknown command") /\ m_cmdstateidx' = "ProtocolError"
              /\ op' = "WRITE"
          BY <1>6, <3>14, <4>4
        <5>2. /\ After(Stands(i), m.line) = [st |-> Stands(i).st, skip |-> FALSE]
              /\ ReplyPrinted(Stands(i), m, served[i + 1]) = <<"ERR unknown command">> /\ m.job = NoJob /\ EndsLine(m.line)
          BY <3>2, <4>1, <4>2, <4>4, UnknownLine
        <5>3. ~IsJob(i + 1)
          BY <5>2 DEF IsJob, m
        <5>4. Replied(i + 1) = Replied(i) \o <<"ERR unknown command">>
          BY <1>2, <1>3, <3>1, <5>2, <5>3, ProgressNext DEF m
        <5>5. wire \o m_output' = Replied(i + 1)
          <6>1. wire \o m_output = Replied(i)
            BY <1>4 DEF InCommand
          <6>2. wire = Replied(i)
            BY <1>2, <6>1
          <6>3. m_output' = <<"ERR unknown command">>
            BY <1>2, <1>10, <5>1, OneToken
          <6> QED BY <5>4, <6>2, <6>3
        <5>6. EndsLine(From(l, q + 1))
          BY <3>2, <3>9, <5>2, EndsLater, CharsAssumption
        <5>7. Stands(i + 1) = [st |-> m_stateidx, skip |-> FALSE]
          BY <3>2, <4>2, <5>2
        <5>8. Skipping(i)'
          BY <1>5, <1>13, <1>14, <2>2, <3>9, <3>11, <5>3, <5>5, <5>6, <5>7 DEF Skipping, l
        <5> QED BY <1>2, <1>5, <5>1, <5>8 DEF Mode
      <4> QED BY <4>3, <4>4
    <3> QED BY <3>13, <3>14
  <2> QED BY <2>1, <2>2
<1> QED BY <1>3, <1>11, <1>12, <1>13, <1>14, <1>15 DEF DialogueInv

LEMMA ParseArgsInv ==
    ASSUME DialogueInv, ParseArgs
    PROVE  DialogueInv'
<1> DEFINE n == Span(inp, EOL)
           args == Words(SubSeq(inp, 1, n))
<1>1. LineTurn("ParseArgs")
  BY DEF ParseArgs
<1>2. /\ MainType /\ Control /\ op = "none" /\ caller = "none" /\ m_cmdstateidx = "ParseArgs"
      /\ m_output = <<>> /\ inp \in Seq(Chars) /\ net \in Seq(Chars)
  BY <1>1, TurnFacts
<1>3. PICK i \in 0..sent : Progress(i) /\ Mode(i)
  BY <1>1, TurnFacts
<1>4. PICK p \in Nat : /\ HasCommand(i, p)
                       /\ Len(Word(LineOf(i))) <= p /\ p <= Span(LineOf(i), EOL)
                       /\ m_buffer = Words(SubSeq(LineOf(i), Len(Word(LineOf(i))) + 1, p))
  BY <1>2, <1>3 DEF Mode, Parsing
<1>5. /\ m_buffer' = m_buffer \o args /\ inp' = From(inp, n + 1)
      /\ UNCHANGED <<script, sent, served, m_stateidx, m_cmd, m_output, m_resultstr, m_resultstate, m_refuseInputFlag>>
      /\ UNCHANGED <<m_delegateHandler, caller, dbuf, ending, job, net, wire, m_state>>
  BY DEF ParseArgs, clientVars, netVars, handlerVars
<1>6. IF n = Len(inp) THEN op' = "READ" /\ m_cmdstateidx' = m_cmdstateidx
      ELSE m_cmdstateidx' = "ParseArgsEOL" /\ op' = op
  BY DEF ParseArgs
<1>7. n \in 0..Len(inp)
  BY <1>2, SpanIs
<1>8. From(inp, n + 1) \in Seq(Chars) /\ (From(inp, n + 1) = <<>> <=> n = Len(inp)) /\ SubSeq(inp, 1, n) \in Seq(Chars)
  BY <1>2, <1>7, FromIs
<1> HIDE DEF n
<1>9. args \in Seq(Chars) /\ m_buffer \in Seq(Chars) /\ m_buffer \o args \in Seq(Chars)
  <2>1. args \in Seq(Chars)
    BY <1>8, WordsJoin
  <2> QED BY <1>2, <2>1 DEF MainType
<1> HIDE DEF args
<1>11. MainType'
  BY <1>2, <1>5, <1>6, <1>8, <1>9 DEF MainType, LineStates
<1>12. Control'
  BY <1>2, <1>5, <1>6, <1>8 DEF Control, LineStates
<1>13. \A k, q : /\ Stands(k)' = Stands(k) /\ Replied(k)' = Replied(k) /\ LineOf(k)' = LineOf(k)
                 /\ (IsJob(k)' <=> IsJob(k)) /\ (Progress(k)' <=> Progress(k)) /\ Unread(k, q)' = Unread(k, q)
  BY <1>5, ClientSame
<1>14. Mode(i)'
  <2> DEFINE l == LineOf(i)
             b == Behind(script, i, sent)
             w == Len(Word(l))
  <2>1. i < sent /\ AtLine(i, p) /\ sent' = sent
    BY <1>4, <1>5 DEF HasCommand, InCommand
  <2>2. l \in Seq(Chars) /\ b \in Seq(Chars) /\ Shaped(l) /\ Len(l) \in Nat
    BY <1>2, <1>3, <2>1, NextMessage
  <2>3. Reads(l, p, b, inp, net)
    BY <1>2, <1>3, <2>1, InLine
  <2>4. p <= Span(l, EOL) /\ w <= p /\ m_buffer = Words(SubSeq(l, w + 1, p))
    BY <1>4
  <2> HIDE DEF l, b
  <2>5. Span(l, EOL) \in Nat /\ Span(l, EOL) < Len(l)
    BY <2>2 DEF Shaped
  <2>6. w \in Nat
    <3>1. Span(l, EOL \cup {SP}) \in 0..Len(l)
      BY <2>2, SpanIs
    <3> QED BY <2>2, <3>1, FromIs DEF Word
  <2> HIDE DEF w
  <2>7. n = Span(inp, EOL)
    BY DEF n
  <2>8. PICK q : q = p + n
    OBVIOUS
  <2>9. Scanned(l, p, b, inp, net, EOL, n)
    BY <1>2, <2>2, <2>3, <2>4, <2>5, <2>7, Scans
  <2>10. /\ q <= Span(l, EOL) /\ (n # Len(inp) => q = Span(l, EOL)) /\ SubSeq(inp, 1, n) = SubSeq(l, p + 1, q)
         /\ Reads(l, q, b, From(inp, n + 1), net)
    BY <2>8, <2>9 DEF Scanned
  <2>11. /\ q \in Nat /\ q < Len(l) /\ w \in 0..Len(l) /\ p \in w..Len(l) /\ q \in p..Len(l) /\ w <= q
    BY <1>2, <1>7, <2>2, <2>4, <2>5, <2>6, <2>8, <2>10
  <2>12. m_buffer' = Words(SubSeq(l, w + 1, q))
    BY <1>5, <2>2, <2>4, <2>10, <2>11, WordsOn, ZenonT(40) DEF args
  <2>13. AtLine(i, q)'
    BY <1>2, <1>3, <1>5, <2>1, <2>10, <2>11, InLineNext DEF l, b
  <2>14. HasCommand(i, q)'
    BY <1>4, <1>5, <1>13, <2>1, <2>13 DEF HasCommand, InCommand
  <2>15. LineOf(i)' = l /\ w = Len(Word(l))
    BY <1>13 DEF l, w
  <2>16. CASE n = Len(inp)
    <3>1. Parsing(i)'
      BY <2>10, <2>11, <2>12, <2>14, <2>15 DEF Parsing
    <3> QED BY <1>2, <1>5, <1>6, <2>16, <3>1 DEF Mode
  <2>17. CASE n # Len(inp)
    <3>1. q = Span(l, EOL) /\ m_buffer' = Args(l)
      BY <2>10, <2>12, <2>15, <2>17 DEF Args
    <3>2. EndingLine(i)'
      BY <2>11, <2>14, <2>15, <3>1, SMTT(30) DEF EndingLine
    <3> QED BY <1>2, <1>5, <1>6, <2>17, <3>2 DEF Mode
  <2> QED BY <2>16, <2>17
<1> QED BY <1>3, <1>5, <1>11, <1>12, <1>13, <1>14 DEF DialogueInv

\* The request that is asked is the message behind the first i.
LEMMA AskedIs ==
    ASSUME MainType, NEW i, Progress(i), i < sent, IsJob(i + 1)
    PROVE  /\ Asked = [request |-> script[i + 1].job.request, answer |-> script[i + 1].job.answer,
                       rest |-> BytesOf(script, i + 1, sent)]
           /\ Behind(script, i, sent) = Stream(Asked)
<1> DEFINE m == script[i + 1]
<1>1. i \in Nat /\ sent \in Nat /\ i <= sent
  BY ProgressFacts
<1>2. Max(Requests) = i + 1
  <2>1. Requests \subseteq Nat /\ i + 1 \in Requests
    BY <1>1 DEF Requests, IsJob
  <2>2. ASSUME NEW k \in Requests PROVE k <= i + 1
    <3>1. k \in 1..sent /\ IsJob(k)
      BY DEF Requests, IsJob
    <3>2. CASE k <= i
      BY <1>1, <3>1, <3>2
    <3>3. CASE ~(k <= i)
      <4>1. k \in (i + 1)..sent /\ i + 1 \in (i + 1)..sent
        BY <1>1, <3>1, <3>3
      <4>2. k = i + 1
        BY <3>1, <4>1 DEF Progress
      <4> QED BY <1>1, <4>2
    <3> QED BY <3>2, <3>3
  <2> QED BY <2>1, <2>2, MaxIs
<1>3. Bytes(i + 1, sent) = BytesOf(script, i + 1, sent)
  BY DEF Bytes, BytesOf
<1>4. Asked = [request |-> m.job.request, answer |-> m.job.answer, rest |-> BytesOf(script, i + 1, sent)]
  BY <1>2, <1>3 DEF Asked
<1>5. m \in Message /\ m.job # NoJob
  BY NextMessage DEF IsJob
<1>6. Data(m) = Escaped(m.job.request) \o Marker
  BY <1>5, MessageType
<1>7. Behind(script, i, sent) = (Escaped(m.job.request) \o Marker) \o BytesOf(script, i + 1, sent)
  BY <1>6 DEF Behind
<1>8. Stream(Asked) = (Escaped(m.job.request) \o Marker) \o BytesOf(script, i + 1, sent)
  BY <1>4 DEF Stream
<1> QED BY <1>4, <1>7, <1>8

\* The words of a line, and the tokens printed.
LEMMA ErrorTokens ==
    /\ "ERR unknown command" \in Tokens /\ "ERR bad command line" \in Tokens
    /\ "ERR command line starting with spaces" \in Tokens
  BY DEF Tokens, LineErrors

LEMMA ArgsType ==
    ASSUME NEW l \in Seq(Chars), Shaped(l)
    PROVE  Args(l) \in Seq(Chars)
<1> DEFINE w == Span(l, EOL \cup {SP})
           e == Span(l, EOL)
<1>1. w \in Nat /\ e \in Nat /\ w <= e /\ e < Len(l) /\ Len(l) \in Nat
  BY DEF Shaped
<1> HIDE DEF w, e
<1>2. w \in 0..Len(l) /\ e \in w..Len(l) /\ e \in e..Len(l)
  BY <1>1
<1>3. Len(SubSeq(l, 1, w)) = w
  BY <1>2, FromIs
<1>4. Words(SubSeq(l, w + 1, e)) \in Seq(Chars)
  BY <1>2, WordsOn
<1> QED BY <1>3, <1>4 DEF Args, Word, w, e

LEMMA ParseArgsEOLInv ==
    ASSUME DialogueInv, ParseArgsEOL
    PROVE  DialogueInv'
<1>1. LineTurn("ParseArgsEOL")
  BY DEF ParseArgsEOL
<1>2. /\ MainType /\ Control /\ op = "none" /\ caller = "none" /\ m_cmdstateidx = "ParseArgsEOL"
      /\ m_output = <<>> /\ wire \in Seq(Tokens) /\ wire \o m_output = wire /\ inp \in Seq(Chars) /\ net \in Seq(Chars)
  BY <1>1, TurnFacts
<1>3. PICK i \in 0..sent : Progress(i) /\ Mode(i)
  BY <1>1, TurnFacts
<1>4. PICK p \in Nat : /\ HasCommand(i, p)
                       /\ \/ p = Span(LineOf(i), EOL)
                          \/ p = Span(LineOf(i), EOL) + 1 /\ LineOf(i)[p] = CR
                       /\ m_buffer = Args(LineOf(i))
  BY <1>2, <1>3 DEF Mode, EndingLine
<1>5. PICK c : c = ConsumeEOL(inp)
  OBVIOUS
<1>6. PICK o : o = Outcome(m_stateidx, m_cmd[1], m_buffer)
  OBVIOUS
<1>7. /\ inp' = c.rest
      /\ UNCHANGED <<script, sent, served, m_stateidx, m_buffer, m_cmd, m_refuseInputFlag>>
      /\ UNCHANGED <<caller, ending, net, wire, m_state>>
  BY <1>5 DEF ParseArgsEOL, clientVars, handlerVars
<1>8. c.found /\ m_cmd # <<>> =>
        /\ m_cmdstateidx' = "ProcessOutput" /\ m_resultstr' = o.str /\ m_resultstate' = o.state /\ op' = op /\ m_output' = m_output
        /\ IF m_cmd[1] = "REQUEST" /\ o.str = <<>>
           THEN m_delegateHandler' = "doctype" /\ dbuf' = <<>> /\ job' = Asked
           ELSE UNCHANGED <<m_delegateHandler, dbuf, job>>
  BY <1>5, <1>6 DEF ParseArgsEOL, RunCommand
<1>9. ~(c.found /\ m_cmd # <<>>) => UNCHANGED <<m_resultstr, m_resultstate, m_delegateHandler, dbuf, job>>
  BY <1>5 DEF ParseArgsEOL
<1>10. c.found /\ m_cmd = <<>> =>
         IF m_buffer # <<>>
         THEN /\ m_output' = Append(m_output, "ERR command line starting with spaces") /\ m_cmdstateidx' = "ProtocolError"
              /\ op' = "WRITE"
         ELSE m_cmdstateidx' = "EnterCommand" /\ op' = op /\ m_output' = m_output
  BY <1>5 DEF ParseArgsEOL, Refuse
<1>11. ~c.found =>
         IF c.rest = <<>> THEN op' = "READ" /\ m_cmdstateidx' = m_cmdstateidx /\ m_output' = m_output
         ELSE m_output' = Append(m_output, "ERR bad command line") /\ m_cmdstateidx' = "ProtocolError" /\ op' = "WRITE"
  BY <1>5 DEF ParseArgsEOL, Refuse
<1> DEFINE l == LineOf(i)
           b == Behind(script, i, sent)
           m == script[i + 1]
<1>12. \A k, q : /\ Stands(k)' = Stands(k) /\ Replied(k)' = Replied(k) /\ LineOf(k)' = LineOf(k)
                 /\ (IsJob(k)' <=> IsJob(k)) /\ (Progress(k)' <=> Progress(k)) /\ Unread(k, q)' = Unread(k, q)
  BY <1>7, ClientSame
<1>13. /\ i < sent /\ i \in Nat /\ sent \in Nat /\ i # sent /\ i + 1 \in 0..sent /\ script' = script /\ sent' = sent
       /\ Replied(i) \in Seq(Tokens)
  <2>1. i < sent
    BY <1>4 DEF HasCommand
  <2> QED BY <1>2, <1>3, <1>7, <2>1, ProgressFacts, StandsFacts, NextMessage
<1>14. /\ l \in Seq(Chars) /\ b \in Seq(Chars) /\ Shaped(l) /\ m \in Message /\ Proper(Stands(i), m) /\ Len(l) \in Nat
       /\ Stands(i) \in Standings /\ Stands(i + 1) = After(Stands(i), l) /\ l = m.line
  BY <1>2, <1>3, <1>13, NextMessage DEF LineOf
<1>15. /\ AtLine(i, p) /\ Stands(i) = [st |-> m_stateidx, skip |-> FALSE] /\ wire = Replied(i)
       /\ m_cmd = Word(l) /\ Known(m_stateidx, m_cmd) /\ ~m_refuseInputFlag /\ m_buffer = Args(l)
  BY <1>2, <1>4 DEF HasCommand, InCommand
<1>16. Stands(i).st = m_stateidx /\ Stands(i).st # "none" /\ ~Stands(i).skip
  BY <1>2, <1>4, CommandState DEF HasCommand
<1>17. p < Len(l) /\ Reads(l, p, b, inp, net)
  BY <1>2, <1>3, <1>13, <1>15, InLine
<1>18. AtEnd(l, p)
  BY <1>4, <1>17 DEF AtEnd
<1> HIDE DEF b
<1>19. {CR, LF} \subseteq Chars
  BY CharsAssumption
<1>20. c.rest \in Seq(Chars) /\ (LineEnds(l, b, net, c) \/ BlockEnds(l, b, net, c) \/ LineGoesOn(l, b, net, c))
  <2> HIDE DEF l
  <2> QED BY <1>2, <1>5, <1>14, <1>17, <1>18, <1>19, EOLAt
<1>21. m_stateidx \in ProtocolStates
  BY <1>2 DEF MainType
<1>22. /\ o.state \in ProtocolStates \cup {"none"} /\ o.str \in Seq(Tokens)
       /\ o.str = <<>> <=> m_cmd[1] = "REQUEST" /\ RequestArgs(m_buffer)
       /\ m_cmd[1] = "REQUEST" /\ RequestArgs(m_buffer) => o.state = m_stateidx
  BY <1>6, <1>21, OutcomeIs
<1>23. MainType'
  <2>1. <<>> \in Seq(Chars)
    OBVIOUS
  <2>2. m_output' \in Seq(Tokens)
    <3>1. \A e \in Tokens : Append(m_output, e) \in Seq(Tokens)
      BY <1>2, OneToken
    <3>2. m_output \in Seq(Tokens)
      BY <1>2 DEF MainType
    <3> QED BY <1>8, <1>10, <1>11, <3>1, <3>2, ErrorTokens
  <2>3. m_resultstr' \in Seq(Tokens) /\ m_delegateHandler' \in Endings \cup {"none", "doctype"} /\ dbuf' \in Seq(Chars)
    BY <1>2, <1>8, <1>9, <1>22, <2>1 DEF MainType
  <2>4. /\ m_cmdstateidx' \in LineStates \cup {"Init", "ProcessOutput", "ProcessingDelegation", "Terminate"}
        /\ op' \in {"none", "READ", "WRITE", "CLOSE"}
    BY <1>2, <1>8, <1>10, <1>11 DEF LineStates
  <2> QED BY <1>2, <1>7, <1>20, <2>2, <2>3, <2>4 DEF MainType
<1>24. Control'
  <2>1. m_delegateHandler = "none" /\ m_state = "Terminated"
    BY <1>2 DEF Control, LineStates
  <2>2. m_output' # <<>> => op' = "WRITE"
    BY <1>2, <1>8, <1>10, <1>11
  <2>3. c.found /\ m_cmd # <<>> => op' = "none" /\ m_cmdstateidx' = "ProcessOutput" /\ m_delegateHandler' \in {"none", "doctype"}
    BY <1>2, <1>8, <2>1
  <2>4. ~(c.found /\ m_cmd # <<>>) => /\ m_delegateHandler' = "none" /\ m_cmdstateidx' \in LineStates
                                      /\ op' = "READ" => inp' = <<>>
                                      /\ op' = "WRITE" => m_cmdstateidx' = "ProtocolError"
                                      /\ op' # "CLOSE"
    BY <1>2, <1>7, <1>9, <1>10, <1>11, <2>1 DEF LineStates
  <2> QED BY <1>2, <1>7, <2>1, <2>2, <2>3, <2>4 DEF Control, LineStates, Endings
<1>25. ASSUME NEW k \in 0..sent, Progress(k), Mode(k)' PROVE DialogueInv'
  BY <1>12, <1>13, <1>23, <1>24, <1>25 DEF DialogueInv
<1>26. CASE LineEnds(l, b, net, c)
  <2>1. c.found /\ EndsLine(l) /\ c.rest \o net = b /\ Complete(l)
    BY <1>14, <1>26 DEF LineEnds, Shaped
  <2>2. ASSUME ~IsJob(i + 1)
        PROVE  /\ Progress(i + 1) /\ AtLine(i + 1, 0)'
               /\ Replied(i + 1) = Replied(i) \o ReplyPrinted(Stands(i), m, served[i + 1])
    <3>1. /\ Progress(i + 1) /\ Behind(script, i, sent) = BytesOf(script, i + 1, sent)
          /\ Replied(i + 1) = Replied(i) \o ReplyPrinted(Stands(i), m, served[i + 1])
      BY <1>2, <1>3, <1>13, <2>2, ProgressNext
    <3>2. inp' \o net' = BytesOf(script, i + 1, sent)
      BY <1>7, <2>1, <3>1 DEF b
    <3> QED BY <1>2, <1>3, <1>7, <1>13, <3>1, <3>2, NextLineStart
  <2> HIDE DEF m
  <2>3. CASE m_cmd # <<>> /\ IsJob(i + 1)
    <3>1. Word(l) = <<"REQUEST">> /\ RequestArgs(Args(l))
      BY <1>14, <2>3, RequestLine DEF IsJob, m
    <3>2. m_cmd[1] = "REQUEST" /\ RequestArgs(m_buffer)
      BY <1>15, <3>1
    <3>3. /\ m_cmdstateidx' = "ProcessOutput" /\ m_resultstr' = <<>> /\ m_resultstate' = m_stateidx /\ m_output' = m_output
          /\ m_delegateHandler' = "doctype" /\ dbuf' = <<>> /\ job' = Asked
      BY <1>8, <1>22, <2>1, <2>3, <3>2
    <3>4. /\ Asked = [request |-> script[i + 1].job.request, answer |-> script[i + 1].job.answer,
                      rest |-> BytesOf(script, i + 1, sent)]
          /\ b = Stream(Asked)
      BY <1>2, <1>3, <1>13, <2>3, AskedIs DEF b
    <3>5. Asking(i)'
      BY <1>7, <1>12, <1>13, <1>16, <2>3, <3>3, <3>4 DEF Asking
    <3>6. Returned(m_stateidx)'
      BY <1>7, <3>3 DEF Returned
    <3>7. inp' \o net' = Stream(job')
      BY <1>7, <2>1, <3>3, <3>4
    <3>8. Delegating(i)'
      BY <1>2, <1>7, <1>12, <1>15, <3>3, <3>5, <3>6, <3>7 DEF Delegating
    <3>9. Mode(i)'
      BY <1>2, <1>7, <3>3, <3>8 DEF Mode, Endings
    <3> QED BY <1>3, <1>25, <3>9
  <2>4. CASE m_cmd # <<>> /\ ~IsJob(i + 1)
    <3>1. o = Outcome(Stands(i).st, Word(m.line)[1], Args(m.line))
      BY <1>6, <1>14, <1>15, <1>16
    <3>2. m.job = NoJob
      BY <2>4 DEF IsJob, m
    <3>3. /\ After(Stands(i), m.line) = [st |-> o.state, skip |-> FALSE] /\ ReplyPrinted(Stands(i), m, served[i + 1]) = o.str
          /\ o.str # <<>>
      BY <1>14, <1>15, <1>16, <2>1, <2>4, <3>1, <3>2, CommandLine
    <3>4. /\ m_cmdstateidx' = "ProcessOutput" /\ m_resultstr' = o.str /\ m_resultstate' = o.state /\ m_output' = m_output
          /\ m_delegateHandler' = "none"
      BY <1>2, <1>8, <2>1, <2>4, <3>3 DEF Control, LineStates
    <3>5. Stands(i + 1) = [st |-> o.state, skip |-> FALSE]
      BY <1>14, <3>3
    <3>6. ~Stands(i + 1)'.skip /\ Returned(Stands(i + 1).st)'
      BY <1>12, <3>4, <3>5 DEF Returned
    <3>7. wire' \o m_output' \o m_resultstr' = Replied(i + 1)'
      <4>1. wire' \o m_output' = Replied(i)
        BY <1>2, <1>7, <1>15, <3>4
      <4> QED BY <1>12, <2>2, <2>4, <3>3, <3>4, <4>1
    <3>8. Printing(i + 1)'
      BY <2>2, <2>4, <3>6, <3>7 DEF Printing
    <3>9. Mode(i + 1)'
      BY <1>2, <1>7, <3>4, <3>8 DEF Mode, Endings
    <3> QED BY <1>13, <1>25, <2>2, <2>4, <3>9
  <2>5. CASE m_cmd = <<>>
    <3>1. Word(m.line) = <<>>
      BY <1>14, <1>15, <2>5
    <3>2. /\ After(Stands(i), m.line) = [st |-> Stands(i).st, skip |-> (Args(m.line) # <<>>)]
          /\ ReplyPrinted(Stands(i), m, served[i + 1]) = IF Args(m.line) = <<>> THEN <<>> ELSE <<"ERR command line starting with spaces">>
          /\ m.job = NoJob
      BY <1>14, <1>16, <2>1, <3>1, EmptyLine
    <3>3. ~IsJob(i + 1)
      BY <3>2 DEF IsJob, m
    <3>4. CASE m_buffer = <<>>
      <4>1. Stands(i + 1) = [st |-> m_stateidx, skip |-> FALSE] /\ Replied(i + 1) = Replied(i)
        <5>1. Args(m.line) = <<>>
          BY <1>14, <1>15, <3>4
        <5>2. ReplyPrinted(Stands(i), m, served[i + 1]) = <<>> /\ After(Stands(i), m.line) = [st |-> Stands(i).st, skip |-> FALSE]
          BY <3>2, <5>1
        <5>3. Replied(i + 1) = Replied(i) \o <<>>
          BY <2>2, <3>3, <5>2
        <5> QED BY <1>13, <1>14, <1>16, <5>2, <5>3, NoBytes
      <4>2. m_cmdstateidx' = "EnterCommand" /\ m_output' = m_output /\ m_buffer' = <<>>
        BY <1>7, <1>10, <2>1, <2>5, <3>4
      <4>3. InCommand(i + 1, 0)'
        BY <1>2, <1>7, <1>12, <1>15, <2>2, <3>3, <4>1, <4>2 DEF InCommand
      <4>4. i + 1 # sent => /\ SubSeq(LineOf(i + 1)', 1, 0) = <<>>
                            /\ 0 <= Span(LineOf(i + 1)', EOL \cup {SP})
        <5> SUFFICES ASSUME i + 1 # sent PROVE SubSeq(LineOf(i + 1), 1, 0) = <<>> /\ 0 <= Span(LineOf(i + 1), EOL \cup {SP})
          BY <1>12
        <5>1. i + 1 < sent
          BY <1>13
        <5>2. LineOf(i + 1) \in Seq(Chars)
          BY <1>2, <2>2, <3>3, <5>1, NextMessage
        <5>3. Span(LineOf(i + 1), EOL \cup {SP}) \in 0..Len(LineOf(i + 1))
          BY <5>2, SpanIs
        <5> QED BY <5>2, <5>3
      <4>5. Entering(i + 1)'
        <5>1. 0 \in Nat
          OBVIOUS
        <5> QED BY <1>13, <4>2, <4>3, <4>4, <5>1 DEF Entering
      <4>6. Mode(i + 1)'
        BY <1>2, <1>7, <4>2, <4>5 DEF Mode
      <4> QED BY <1>13, <1>25, <2>2, <3>3, <4>6
    <3>5. CASE m_buffer # <<>>
      <4>1. Stands(i + 1) = [st |-> m_stateidx, skip |-> TRUE]
            /\ Replied(i + 1) = Replied(i) \o <<"ERR command line starting with spaces">>
        <5>1. Args(m.line) # <<>>
          BY <1>14, <1>15, <3>5
        <5>2. /\ ReplyPrinted(Stands(i), m, served[i + 1]) = <<"ERR command line starting with spaces">>
              /\ After(Stands(i), m.line) = [st |-> Stands(i).st, skip |-> TRUE]
          BY <3>2, <5>1
        <5> QED BY <1>14, <1>16, <2>2, <3>3, <5>2
      <4>2. /\ m_output' = Append(m_output, "ERR command line starting with spaces") /\ m_cmdstateidx' = "ProtocolError"
        BY <1>10, <2>1, <2>5, <3>5
      <4>3. wire' \o m_output' = Replied(i + 1)
        <5>1. m_output' = <<"ERR command line starting with spaces">>
          BY <1>2, <4>2, OneToken, ErrorTokens
        <5> QED BY <1>7, <1>15, <4>1, <5>1
      <4>4. CASE i + 1 = sent
        <5>1. Skipping(i + 1)'
          <6>1. 0 \in Nat
            OBVIOUS
          <6> QED BY <1>7, <1>12, <1>13, <2>2, <3>3, <4>1, <4>3, <4>4, <6>1 DEF Skipping
        <5>2. Mode(i + 1)'
          BY <1>2, <1>7, <4>2, <5>1 DEF Mode
        <5> QED BY <1>13, <1>25, <2>2, <3>3, <5>2
      <4>5. CASE i + 1 # sent
        <5>1. i + 1 < sent
          BY <1>13, <4>5
        <5>2. /\ EndsLine(LineOf(i + 1)) /\ ~IsJob((i + 1) + 1)
              /\ Stands((i + 1) + 1) = [st |-> m_stateidx, skip |-> FALSE] /\ Replied((i + 1) + 1) = Replied(i + 1)
          BY <1>2, <2>2, <3>3, <4>1, <5>1, SkipsLine
        <5>3. EndsLine(From(LineOf(i + 1), 0 + 1))
          <6>1. LineOf(i + 1) \in Seq(Chars) /\ 0 \in 0..Len(LineOf(i + 1)) /\ 0 + 1 = 1
            BY <1>2, <2>2, <3>3, <5>1, NextMessage
          <6>2. From(LineOf(i + 1), 1) = LineOf(i + 1)
            BY <6>1, FromIs
          <6> QED BY <5>2, <6>1, <6>2
        <5>4. Skipping(i + 1)'
          <6>1. 0 \in Nat
            OBVIOUS
          <6> QED BY <1>7, <1>12, <1>13, <2>2, <3>3, <4>3, <4>5, <5>2, <5>3, <6>1 DEF Skipping
        <5>5. Mode(i + 1)'
          BY <1>2, <1>7, <4>2, <5>4 DEF Mode
        <5> QED BY <1>13, <1>25, <2>2, <3>3, <5>5
      <4> QED BY <4>4, <4>5
    <3> QED BY <3>4, <3>5
  <2> QED BY <2>3, <2>4, <2>5
<1>27. CASE BlockEnds(l, b, net, c)
  <2>1. c.found = FALSE /\ c.rest = <<>>
    BY <1>27 DEF BlockEnds
  <2>2. PICK q \in Nat : AtEnd(l, q) /\ Reads(l, q, b, <<>>, net)
    BY <1>27 DEF BlockEnds
  <2>3. op' = "READ" /\ m_cmdstateidx' = "ParseArgsEOL" /\ m_output' = m_output
    BY <1>2, <1>11, <2>1
  <2>4. q < Len(l) /\ (q = Span(l, EOL) \/ (q = Span(l, EOL) + 1 /\ l[q] = CR))
    BY <2>2 DEF AtEnd
  <2>5. AtLine(i, q)'
    BY <1>2, <1>3, <1>7, <1>13, <2>1, <2>2, <2>4, InLineNext DEF b
  <2>6. HasCommand(i, q)'
    BY <1>4, <1>7, <1>12, <1>13, <2>3, <2>5 DEF HasCommand, InCommand
  <2>7. EndingLine(i)'
    BY <1>7, <1>12, <1>15, <2>4, <2>6 DEF EndingLine
  <2>8. Mode(i)'
    BY <1>2, <1>7, <2>3, <2>7 DEF Mode
  <2> QED BY <1>3, <1>25, <2>8
<1>28. CASE LineGoesOn(l, b, net, c)
  <2>1. c.found = FALSE /\ c.rest # <<>> /\ ~EndsLine(l) /\ Span(l, EOL) + 1 < Len(l) /\ Reads(l, Span(l, EOL) + 1, b, c.rest, net)
    BY <1>28 DEF LineGoesOn
  <2>2. PICK q : q = Span(l, EOL) + 1
    OBVIOUS
  <2>3. /\ ~Complete(l) /\ Span(l, EOL) \in Nat /\ EndsLine(From(l, Span(l, EOL) + 2))
    BY <1>14, <2>1 DEF Shaped
  <2>4. q \in Nat /\ q < Len(l) /\ Reads(l, q, b, c.rest, net) /\ EndsLine(From(l, q + 1))
    <3>1. Span(l, EOL) + 2 = q + 1
      BY <2>2, <2>3
    <3> QED BY <2>1, <2>2, <2>3, <3>1
  <2> HIDE DEF m
  <2>5. /\ After(Stands(i), m.line) = [st |-> Stands(i).st, skip |-> FALSE]
        /\ ReplyPrinted(Stands(i), m, served[i + 1]) = <<"ERR bad command line">> /\ m.job = NoJob
    BY <1>14, <1>15, <1>16, <2>3, BadLine
  <2>6. ~IsJob(i + 1)
    BY <2>5 DEF IsJob, m
  <2>7. Replied(i + 1) = Replied(i) \o <<"ERR bad command line">>
    BY <1>2, <1>3, <1>13, <2>5, <2>6, ProgressNext DEF m
  <2>8. m_output' = Append(m_output, "ERR bad command line") /\ m_cmdstateidx' = "ProtocolError"
    BY <1>11, <2>1
  <2>9. wire' \o m_output' = Replied(i + 1)
    <3>1. m_output' = <<"ERR bad command line">>
      BY <1>2, <2>8, OneToken, ErrorTokens
    <3> QED BY <1>7, <1>15, <2>7, <3>1
  <2>10. Stands(i + 1) = [st |-> m_stateidx, skip |-> FALSE]
    BY <1>14, <1>16, <2>5
  <2>11. AtLine(i, q)'
    BY <1>2, <1>3, <1>7, <1>13, <2>4, InLineNext DEF b
  <2>12. Skipping(i)'
    BY <1>7, <1>12, <1>13, <2>4, <2>6, <2>9, <2>10, <2>11 DEF Skipping
  <2>13. Mode(i)'
    BY <1>2, <1>7, <2>8, <2>12 DEF Mode
  <2> QED BY <1>3, <1>25, <2>13
<1> QED BY <1>20, <1>26, <1>27, <1>28

\* The line handler waits for the command behind the first k messages.
LEMMA EntersNext ==
    ASSUME MainType, NEW k, Progress(k), UNCHANGED <<script, sent, served>>, InCommand(k, 0)', m_buffer' = <<>>
    PROVE  Entering(k)'
<1>1. k # sent => SubSeq(LineOf(k), 1, 0) = <<>> /\ 0 <= Span(LineOf(k), EOL \cup {SP})
  <2> SUFFICES ASSUME k # sent PROVE SubSeq(LineOf(k), 1, 0) = <<>> /\ 0 <= Span(LineOf(k), EOL \cup {SP})
    OBVIOUS
  <2>1. k < sent
    BY ProgressFacts
  <2>2. LineOf(k) \in Seq(Chars)
    BY <2>1, NextMessage
  <2>3. Span(LineOf(k), EOL \cup {SP}) \in 0..Len(LineOf(k))
    BY <2>2, SpanIs
  <2> QED BY <2>2, <2>3
<1>2. LineOf(k)' = LineOf(k)
  BY ClientSame
<1>3. 0 \in Nat /\ sent' = sent
  OBVIOUS
<1> QED BY <1>1, <1>2, <1>3 DEF Entering

\* The line handler skips n more bytes of the rest of a line.
LEMMA SkipsOn ==
    ASSUME MainType, NEW i, Progress(i), i < sent, NEW p \in Nat, p < Len(LineOf(i)),
           NEW rest, rest = From(LineOf(i), p + 1), EndsLine(rest), ~IsJob(i + 1),
           Stands(i + 1) = [st |-> m_stateidx, skip |-> FALSE], wire \o m_output = Replied(i + 1),
           NEW n \in Nat, n < Len(rest), Reads(rest, n, Behind(script, i, sent), inp', net),
           UNCHANGED <<script, sent, served, net, m_stateidx, wire, m_output>>
    PROVE  Skipping(i)'
<1> DEFINE l == LineOf(i)
<1>1. l \in Seq(Chars) /\ Len(l) \in Nat /\ i # sent /\ sent' = sent
  BY NextMessage, ProgressFacts
<1>2. rest = From(l, p + 1)
  OBVIOUS
<1> HIDE DEF l
<1>3. p \in 0..Len(l) /\ p < Len(l)
  BY <1>1 DEF l
<1>4. rest \in Seq(Chars) /\ Len(rest) = Len(l) - p
  BY <1>1, <1>2, <1>3, FromIs
<1>5. n \in 0..(Len(l) - p) /\ n \in 0..(Len(rest) - 1) /\ p + n \in Nat /\ p + n < Len(l)
  BY <1>1, <1>3, <1>4
<1>6. From(rest, n + 1) = From(l, p + n + 1)
  BY <1>1, <1>2, <1>3, <1>5, FromFrom
<1>7. EndsLine(From(rest, n + 1))
  BY <1>4, <1>5, EndsLater, CharsAssumption
<1>8. PICK q : q = p + n
  OBVIOUS
<1>9. Reads(l, q, Behind(script, i, sent), inp', net) /\ EndsLine(From(l, q + 1)) /\ q \in Nat /\ q < Len(l)
  BY <1>5, <1>6, <1>7, <1>8 DEF Reads
<1>10. AtLine(i, q)'
  BY <1>9, InLineNext DEF l
<1>11. /\ Stands(i + 1)' = Stands(i + 1) /\ Replied(i + 1)' = Replied(i + 1) /\ LineOf(i)' = l /\ (IsJob(i + 1)' <=> IsJob(i + 1))
  BY ClientSame DEF l
<1> QED BY <1>1, <1>9, <1>10, <1>11 DEF Skipping

LEMMA ProtocolErrorInv ==
    ASSUME DialogueInv, ProtocolError
    PROVE  DialogueInv'
<1>1. LineTurn("ProtocolError")
  BY DEF ProtocolError
<1>2. /\ MainType /\ Control /\ op = "none" /\ caller = "none" /\ m_cmdstateidx = "ProtocolError"
      /\ m_output = <<>> /\ inp \in Seq(Chars) /\ net \in Seq(Chars)
  BY <1>1, TurnFacts
<1>3. PICK i \in 0..sent : Progress(i) /\ Mode(i)
  BY <1>1, TurnFacts
<1>4. PICK p \in Nat :
        /\ AtLine(i, p)
        /\ IF i = sent
           THEN Stands(i) = [st |-> m_stateidx, skip |-> TRUE] /\ wire \o m_output = Replied(i)
           ELSE /\ EndsLine(From(LineOf(i), p + 1)) /\ ~IsJob(i + 1)
                /\ Stands(i + 1) = [st |-> m_stateidx, skip |-> FALSE]
                /\ wire \o m_output = Replied(i + 1)
  BY <1>2, <1>3 DEF Mode, Skipping
<1>5. PICK n : n = Span(inp, EOL)
  OBVIOUS
<1>6. PICK s : s = From(inp, n + 1)
  OBVIOUS
<1>7. PICK c : c = ConsumeEOL(s)
  OBVIOUS
<1>8. /\ inp' = c.rest
      /\ IF c.found THEN m_cmdstateidx' = "EnterCommand" /\ m_buffer' = <<>> /\ op' = op
         ELSE op' = "READ" /\ m_cmdstateidx' = m_cmdstateidx /\ m_buffer' = m_buffer
      /\ UNCHANGED <<script, sent, served, m_stateidx, m_cmd, m_output, m_resultstr, m_resultstate, m_refuseInputFlag>>
      /\ UNCHANGED <<m_delegateHandler, caller, dbuf, ending, job, net, wire, m_state>>
  BY <1>5, <1>6, <1>7 DEF ProtocolError, clientVars, netVars, handlerVars
<1>9. n \in 0..Len(inp) /\ n \in Nat
  BY <1>2, <1>5, SpanIs
<1>10. s \in Seq(Chars) /\ (s = <<>> <=> n = Len(inp))
  BY <1>2, <1>6, <1>9, FromIs
<1>11. s = <<>> => c.rest = <<>> /\ c.found = FALSE
  <2>1. s = <<>> => ConsumeEOL(s) = [rest |-> <<>>, found |-> FALSE]
    BY <1>10, ConsumeEOLIs, Zenon
  <2>2. [rest |-> <<>>, found |-> FALSE].rest = <<>> /\ [rest |-> <<>>, found |-> FALSE].found = FALSE
    OBVIOUS
  <2> QED BY <1>7, <2>1, <2>2, Zenon
<1>12. \A k, q : /\ Stands(k)' = Stands(k) /\ Replied(k)' = Replied(k) /\ LineOf(k)' = LineOf(k)
                 /\ (IsJob(k)' <=> IsJob(k)) /\ (Progress(k)' <=> Progress(k)) /\ Unread(k, q)' = Unread(k, q)
  BY <1>8, ClientSame
<1>13. i \in Nat /\ sent \in Nat /\ i <= sent /\ sent' = sent
  BY <1>2, <1>3, <1>8, ProgressFacts
<1>14. ASSUME NEW k \in 0..sent, Progress(k), Mode(k)', c.rest \in Seq(Chars), ~c.found => c.rest = <<>>
       PROVE  DialogueInv'
  <2>1. <<>> \in Seq(Chars)
    OBVIOUS
  <2>2. MainType'
    BY <1>2, <1>8, <1>14, <2>1 DEF MainType, LineStates
  <2>3. Control'
    BY <1>2, <1>8, <1>14 DEF Control, LineStates
  <2> QED BY <1>12, <1>13, <1>14, <2>2, <2>3 DEF DialogueInv
<1>15. CASE i = sent
  <2>1. p = 0 /\ inp \o net = <<>>
    BY <1>4, <1>15 DEF AtLine, Unread
  <2>2. inp = <<>> /\ net = <<>> /\ Len(inp) = 0
    BY <1>2, <2>1, NoBytes
  <2>3. n = Len(inp)
    BY <1>9, <2>2
  <2>4. c.rest = <<>> /\ c.found = FALSE /\ <<>> \in Seq(Chars)
    BY <1>10, <1>11, <2>3
  <2>5. AtLine(i, 0)'
    BY <1>8, <1>12, <1>13, <1>15, <2>1, <2>2, <2>4 DEF AtLine, Unread
  <2>6. Skipping(i)'
    <3>1. 0 \in Nat
      OBVIOUS
    <3> QED BY <1>4, <1>8, <1>12, <1>13, <1>15, <2>5, <3>1 DEF Skipping
  <2>7. Mode(i)'
    BY <1>2, <1>8, <2>4, <2>6 DEF Mode
  <2> QED BY <1>3, <1>14, <2>4, <2>7
<1>16. CASE i # sent
  <2>1. i < sent
    BY <1>13, <1>16
  <2> DEFINE b == Behind(script, i, sent)
  <2>2. PICK rest : rest = From(LineOf(i), p + 1)
    OBVIOUS
  <2>3. LineOf(i) \in Seq(Chars) /\ b \in Seq(Chars) /\ p < Len(LineOf(i)) /\ Reads(LineOf(i), p, b, inp, net)
    BY <1>2, <1>3, <1>4, <2>1, NextMessage, InLine
  <2>4. p \in 0..Len(LineOf(i)) /\ {CR, LF} \subseteq Chars
    BY <2>3, CharsAssumption
  <2>5. rest \in Seq(Chars) /\ EndsLine(rest)
    BY <1>4, <1>16, <2>2, <2>3, <2>4, FromIs
  <2>6. Shaped(rest) /\ 0 \in 0..Len(rest) /\ 0 + 1 = 1
    BY <2>4, <2>5, LineShape
  <2>7. Span(rest, EOL) \in Nat /\ Span(rest, EOL) < Len(rest)
    BY <2>6 DEF Shaped
  <2>8. Reads(rest, 0, b, inp, net)
    <3>1. From(rest, 1) = rest
      BY <2>5, <2>6, FromIs
    <3> QED BY <2>2, <2>3, <2>6, <3>1 DEF Reads
  <2> HIDE DEF b
  <2>9. Scanned(rest, 0, b, inp, net, EOL, n)
    <3>1. 0 \in Nat /\ 0 <= Span(rest, EOL)
      BY <2>7
    <3> QED BY <1>2, <1>5, <2>3, <2>5, <2>7, <2>8, <3>1, Scans
  <2>10. n <= Span(rest, EOL) /\ (n # Len(inp) => n = Span(rest, EOL)) /\ Reads(rest, n, b, s, net) /\ n < Len(rest)
    <3>1. 0 + n = n
      BY <1>9
    <3>2. n <= Span(rest, EOL) /\ (n # Len(inp) => n = Span(rest, EOL)) /\ Reads(rest, n, b, s, net)
      BY <1>6, <2>9, <3>1 DEF Scanned
    <3> QED BY <1>9, <2>5, <2>7, <3>2
  <2>11. ASSUME NEW q \in Nat, q < Len(rest), Reads(rest, q, b, <<>>, net), c.rest = <<>>, c.found = FALSE
         PROVE  DialogueInv'
    <3>1. Reads(rest, q, b, inp', net)
      BY <1>8, <2>11
    <3>2. /\ ~IsJob(i + 1) /\ Stands(i + 1) = [st |-> m_stateidx, skip |-> FALSE] /\ wire \o m_output = Replied(i + 1)
      BY <1>4, <1>16
    <3>3. Skipping(i)'
      BY <1>2, <1>3, <1>8, <2>1, <2>2, <2>3, <2>5, <2>11, <3>1, <3>2, SkipsOn DEF b
    <3>4. Mode(i)'
      BY <1>2, <1>8, <2>11, <3>3 DEF Mode
    <3> QED BY <1>3, <1>14, <2>11, <3>4
  <2>12. CASE s = <<>>
    BY <1>9, <1>11, <2>10, <2>11, <2>12
  <2>13. CASE s # <<>>
    <3>1. AtEnd(rest, n)
      BY <1>9, <1>10, <2>10, <2>13 DEF AtEnd
    <3>2. c.rest \in Seq(Chars) /\ (LineEnds(rest, b, net, c) \/ BlockEnds(rest, b, net, c) \/ LineGoesOn(rest, b, net, c))
      BY <1>2, <1>7, <1>10, <2>3, <2>4, <2>5, <2>6, <2>10, <3>1, EOLAt
    <3>3. CASE LineEnds(rest, b, net, c)
      <4>1. c.found = TRUE /\ c.rest \o net = b
        BY <3>3 DEF LineEnds
      <4>2. ~IsJob(i + 1) /\ Stands(i + 1) = [st |-> m_stateidx, skip |-> FALSE] /\ wire \o m_output = Replied(i + 1)
        BY <1>4, <1>16
      <4>3. Progress(i + 1) /\ b = BytesOf(script, i + 1, sent) /\ i + 1 \in 0..sent
        BY <1>2, <1>3, <2>1, <4>2, ProgressNext, NextMessage DEF b
      <4>4. AtLine(i + 1, 0)'
        <5>1. inp' \o net' = BytesOf(script, i + 1, sent)
          BY <1>8, <4>1, <4>3
        <5> QED BY <1>2, <1>3, <1>8, <4>3, <5>1, NextLineStart
      <4>5. InCommand(i + 1, 0)'
        BY <1>8, <1>12, <4>2, <4>4 DEF InCommand
      <4>6. m_buffer' = <<>> /\ m_cmdstateidx' = "EnterCommand"
        BY <1>8, <4>1
      <4>7. Entering(i + 1)'
        BY <1>2, <1>8, <4>3, <4>5, <4>6, EntersNext
      <4>8. Mode(i + 1)'
        BY <1>2, <1>8, <4>6, <4>7 DEF Mode
      <4> QED BY <1>14, <3>2, <4>1, <4>3, <4>8
    <3>4. CASE BlockEnds(rest, b, net, c)
      <4>1. c.found = FALSE /\ c.rest = <<>>
        BY <3>4 DEF BlockEnds
      <4>2. PICK q \in Nat : AtEnd(rest, q) /\ Reads(rest, q, b, <<>>, net)
        BY <3>4 DEF BlockEnds
      <4>3. q < Len(rest)
        BY <4>2 DEF AtEnd
      <4> QED BY <2>11, <4>1, <4>2, <4>3
    <3>5. CASE LineGoesOn(rest, b, net, c)
      BY <2>5, <3>5, SMTT(30) DEF LineGoesOn
    <3> QED BY <3>2, <3>3, <3>4, <3>5
  <2> QED BY <2>12, <2>13
<1> QED BY <1>15, <1>16

\* What is read of the bytes that are not read.
LEMMA Taken ==
    ASSUME NEW v \in Seq(Chars), NEW n \in 0..Len(v), NEW h, h = SubSeq(v, 1, n), NEW t, t = SubSeq(v, n + 1, Len(v))
    PROVE  h \in Seq(Chars) /\ t \in Seq(Chars) /\ h \o t = v
<1>1. 0 \in 0..Len(v) /\ n \in 0..Len(v) /\ Len(v) \in n..Len(v) /\ 0 + 1 = 1 /\ Len(v) \in Nat
  OBVIOUS
<1>2. SubSeq(v, 1, n) \in Seq(Chars) /\ SubSeq(v, n + 1, Len(v)) \in Seq(Chars)
  BY <1>1, FromIs DEF From
<1>3. SubSeq(v, 1, n) \o SubSeq(v, n + 1, Len(v)) = SubSeq(v, 1, Len(v))
  BY <1>1, SubSeqJoin
<1>4. SubSeq(v, 1, Len(v)) = v
  BY <1>1
<1> QED BY <1>2, <1>3, <1>4

LEMMA LineReceivesInv ==
    ASSUME DialogueInv, LineReceives
    PROVE  DialogueInv'
<1>1. MainType /\ Control /\ op = "READ" /\ caller = "none" /\ net \in Seq(Chars) /\ dbuf \in Seq(Chars) /\ inp \in Seq(Chars)
  BY DEF DialogueInv, LineReceives, MainType
<1>2. PICK i \in 0..sent : Progress(i) /\ Mode(i)
  BY DEF DialogueInv
<1>3. PICK n \in 1..Len(net) :
        /\ net' = SubSeq(net, n + 1, Len(net))
        /\ IF m_delegateHandler = "doctype"
           THEN dbuf' = dbuf \o SubSeq(net, 1, n) /\ inp' = inp
           ELSE inp' = SubSeq(net, 1, n) /\ dbuf' = dbuf
  BY DEF LineReceives
<1>4. /\ op' = "none"
      /\ UNCHANGED <<script, sent, served, m_cmdstateidx, m_stateidx, m_buffer, m_cmd, m_output, m_resultstr, m_resultstate>>
      /\ UNCHANGED <<m_refuseInputFlag, m_delegateHandler, caller, ending, job, wire, m_state>>
  BY DEF LineReceives, clientVars, lineVars, handlerVars
<1>5. \A k, q : /\ Stands(k)' = Stands(k) /\ Replied(k)' = Replied(k) /\ LineOf(k)' = LineOf(k)
                /\ (IsJob(k)' <=> IsJob(k)) /\ (Progress(k)' <=> Progress(k)) /\ Unread(k, q)' = Unread(k, q)
  BY <1>4, ClientSame
<1>6. n \in 0..Len(net) /\ Len(net) \in Nat
  BY <1>1
<1>70. PICK h : h = SubSeq(net, 1, n)
  OBVIOUS
<1>71. net' \in Seq(Chars) /\ h \in Seq(Chars) /\ h \o net' = net
  BY <1>1, <1>3, <1>6, <1>70, Taken
<1>7. IF m_delegateHandler = "doctype" THEN dbuf' = dbuf \o h /\ inp' = inp ELSE inp' = h /\ dbuf' = dbuf
  BY <1>3, <1>70
<1>8. MainType'
  <2>1. dbuf \o h \in Seq(Chars)
    BY <1>1, <1>71
  <2> QED BY <1>1, <1>4, <1>7, <1>71, <2>1 DEF MainType
<1>9. Control'
  BY <1>1, <1>4 DEF Control
<1>10. Mode(i)'
  <2>1. CASE m_cmdstateidx \in LineStates
    <3>1. m_delegateHandler = "none" /\ inp = <<>>
      BY <1>1, <2>1 DEF Control, LineStates
    <3>2. inp' \o net' = inp \o net
      <4>1. inp' \o net' = net
        BY <1>7, <1>71, <3>1
      <4>2. inp \o net = net
        BY <1>1, <3>1
      <4> QED BY <4>1, <4>2
    <3>3. \A q : AtLine(i, q)' <=> AtLine(i, q)
      BY <1>4, <1>5, <3>2 DEF AtLine
    <3>4. \A q : InCommand(i, q)' <=> InCommand(i, q)
      BY <1>4, <1>5, <3>3 DEF InCommand
    <3>5. \A q : HasCommand(i, q)' <=> HasCommand(i, q)
      BY <1>4, <1>5, <3>4 DEF HasCommand
    <3>6. Entering(i) => Entering(i)'
      BY <1>4, <1>5, <3>4 DEF Entering
    <3>7. Parsing(i) => Parsing(i)'
      BY <1>4, <1>5, <3>5 DEF Parsing
    <3>8. EndingLine(i) => EndingLine(i)'
      BY <1>4, <1>5, <3>5 DEF EndingLine
    <3>9. Skipping(i) => Skipping(i)'
      BY <1>4, <1>5, <3>3, SMTT(30) DEF Skipping
    <3> QED BY <1>1, <1>2, <1>4, <2>1, <3>6, <3>7, <3>8, <3>9 DEF Mode, LineStates
  <2>2. CASE m_cmdstateidx \notin LineStates
    <3>1. m_cmdstateidx = "ProcessingDelegation" /\ m_delegateHandler = "doctype"
      BY <1>1, <2>2 DEF Control
    <3>2. Detecting(i)
      BY <1>1, <1>2, <3>1 DEF Mode
    <3>3. dbuf' \o net' = dbuf \o net
      <4>1. PICK t : t = net'
        OBVIOUS
      <4>2. dbuf \in Seq(Chars) /\ h \in Seq(Chars) /\ t \in Seq(Chars)
        BY <1>1, <1>71, <4>1
      <4>3. (dbuf \o h) \o t = dbuf \o (h \o t)
        BY <4>2, Assoc, SMTT(30)
      <4> QED BY <1>7, <1>71, <3>1, <4>1, <4>3
    <3>4. Asking(i)'
      BY <1>4, <1>5, <3>2 DEF Detecting, Asking
    <3>5. Detecting(i)'
      BY <1>4, <1>5, <3>2, <3>3, <3>4 DEF Detecting
    <3> QED BY <1>1, <1>4, <3>1, <3>5 DEF Mode
  <2> QED BY <2>1, <2>2
<1> QED BY <1>2, <1>4, <1>5, <1>8, <1>9, <1>10 DEF DialogueInv

LEMMA LineSendsInv ==
    ASSUME DialogueInv, LineSends
    PROVE  DialogueInv'
<1>1. MainType /\ Control /\ op = "WRITE" /\ caller = "none" /\ wire \in Seq(Tokens) /\ m_output \in Seq(Tokens)
  BY DEF DialogueInv, LineSends, MainType
<1>2. PICK i \in 0..sent : Progress(i) /\ Mode(i)
  BY DEF DialogueInv
<1>3. /\ wire' = wire \o m_output /\ m_output' = <<>> /\ op' = "none"
      /\ UNCHANGED <<script, sent, served, m_cmdstateidx, m_stateidx, m_buffer, m_cmd, m_resultstr, m_resultstate>>
      /\ UNCHANGED <<inp, m_refuseInputFlag, m_delegateHandler, caller, dbuf, ending, job, net>>
      /\ UNCHANGED <<m_state, inputVars, cmdh>> /\ UNCHANGED <<m_esc_stm, m_writedata, given>>
  BY DEF LineSends, clientVars, delegateVars, handlerVars, outputVars
<1>4. \A k, q : /\ Stands(k)' = Stands(k) /\ Replied(k)' = Replied(k) /\ LineOf(k)' = LineOf(k)
                /\ (IsJob(k)' <=> IsJob(k)) /\ (Progress(k)' <=> Progress(k)) /\ Unread(k, q)' = Unread(k, q)
  BY <1>3, ClientSame
<1>5. wire \o m_output \in Seq(Tokens) /\ <<>> \in Seq(Tokens) /\ (wire \o m_output) \o <<>> = wire \o m_output
  <2> HIDE DEF Tokens
  <2> QED BY <1>1
<1>6. wire' \o m_output' = wire \o m_output
  BY <1>3, <1>5
<1>7. MainType'
  BY <1>1, <1>3, <1>5 DEF MainType
<1>8. Control'
  BY <1>1, <1>3 DEF Control
<1>9. Mode(i)'
  <2>1. \A q : AtLine(i, q)' <=> AtLine(i, q)
    BY <1>3, <1>4 DEF AtLine
  <2>2. Asking(i) => Asking(i)'
    BY <1>3, <1>4 DEF Asking
  <2>3. \A st : Returned(st)' <=> Returned(st)
    BY <1>3 DEF Returned
  <2>4. CASE m_cmdstateidx = "ProtocolError"
    <3>1. Skipping(i)
      BY <1>1, <1>2, <2>4 DEF Mode
    <3>2. Skipping(i)'
      BY <1>3, <1>4, <1>6, <2>1, <3>1, SMTT(30) DEF Skipping
    <3> QED BY <1>1, <1>3, <2>4, <3>2 DEF Mode
  <2>5. CASE m_cmdstateidx = "ProcessOutput"
    <3>1. m_delegateHandler = "none" => Printing(i)'
      <4> SUFFICES ASSUME m_delegateHandler = "none" PROVE Printing(i)'
        OBVIOUS
      <4>1. Printing(i)
        BY <1>1, <1>2, <2>5 DEF Mode
      <4>2. Returned(Stands(i).st)' /\ ~Stands(i)'.skip
        BY <1>3, <1>4, <4>1 DEF Printing, Returned
      <4> QED BY <1>3, <1>4, <1>6, <2>1, <4>1, <4>2 DEF Printing
    <3>2. m_delegateHandler = "doctype" => Delegating(i)'
      <4> SUFFICES ASSUME m_delegateHandler = "doctype" PROVE Delegating(i)'
        OBVIOUS
      <4>1. Delegating(i)
        BY <1>1, <1>2, <2>5 DEF Mode
      <4>2. Returned(m_stateidx)'
        BY <1>3, <4>1 DEF Delegating, Returned
      <4> QED BY <1>3, <1>4, <1>6, <2>2, <4>1, <4>2 DEF Delegating
    <3>3. m_delegateHandler \in Endings => Holding(i)'
      <4> SUFFICES ASSUME m_delegateHandler \in Endings PROVE Holding(i)'
        OBVIOUS
      <4>1. Holding(i)
        BY <1>1, <1>2, <2>5 DEF Mode
      <4>2. Returned(m_stateidx)' /\ Asking(i)'
        BY <1>3, <2>2, <4>1 DEF Holding, Returned
      <4>3. \A x \in Seq(Chars) : PhaseInv("none", x, net) => PhaseInv("none", x, net)'
        BY <1>3, PhaseSame
      <4>4. InputType => InputType'
        BY <1>3 DEF InputType, inputVars
      <4>5. Whole' = Whole /\ job' = job /\ given' = given
        BY <1>3 DEF Whole
      <4>6. CASE m_state = "Terminated"
        BY <1>3, <1>4, <1>6, <4>1, <4>2, <4>4, <4>5, <4>6 DEF Holding
      <4>7. CASE m_state # "Terminated"
        <5>1. PICK x \in Seq(Chars) : /\ PhaseInv("none", x, net)
                                      /\ wire \o m_output \o m_resultstr = Replied(i) \o <<"ANSWER">> \o x
          BY <4>1, <4>7 DEF Holding
        <5>2. PhaseInv("none", x, net)'
          BY <4>3, <5>1
        <5>3. wire' \o m_output' \o m_resultstr' = Replied(i)' \o <<"ANSWER">> \o x
          BY <1>3, <1>4, <1>6, <5>1
        <5>4. /\ inp' = <<>> /\ ~m_refuseInputFlag' /\ m_state' # "Terminated"
              /\ m_state' \in {"Processing", "DiscardInput"} /\ ~m_unconsumedInput' /\ ~m_gotEoD'
          BY <1>3, <4>1, <4>7 DEF Holding, inputVars
        <5> QED BY <1>3, <4>2, <5>2, <5>3, <5>4 DEF Holding
      <4> QED BY <4>6, <4>7
    <3> QED BY <1>1, <1>3, <2>5, <3>1, <3>2, <3>3 DEF Mode
  <2> QED BY <1>1, <2>4, <2>5 DEF Control
<1> QED BY <1>2, <1>3, <1>4, <1>7, <1>8, <1>9 DEF DialogueInv

LEMMA DoctypeReadsInv ==
    ASSUME DialogueInv, DoctypeReads
    PROVE  DialogueInv'
<1>1. LineTurn("ProcessingDelegation")
  BY DEF DoctypeReads, InDetection
<1>2. /\ MainType /\ Control /\ op = "none" /\ caller = "none" /\ m_cmdstateidx = "ProcessingDelegation" /\ m_output = <<>>
  BY <1>1, TurnFacts
<1>3. PICK i \in 0..sent : Progress(i) /\ Mode(i)
  BY <1>1, TurnFacts
<1>4. /\ op' = "READ" /\ ~LineWithDot
      /\ UNCHANGED <<script, sent, served, m_cmdstateidx, m_stateidx, m_buffer, m_cmd, m_output, m_resultstr, m_resultstate>>
      /\ UNCHANGED <<inp, m_refuseInputFlag, m_delegateHandler, caller, dbuf, ending, job, net, wire, m_state>>
  BY DEF DoctypeReads, mainVars, clientVars, lineVars, delegateVars, netVars, handlerVars
<1>5. \A k, q : /\ Stands(k)' = Stands(k) /\ Replied(k)' = Replied(k) /\ (IsJob(k)' <=> IsJob(k)) /\ (Progress(k)' <=> Progress(k))
  BY <1>4, ClientSame
<1>6. MainType' /\ Control'
  BY <1>2, <1>4 DEF MainType, Control
<1>7. Mode(i)'
  <2>1. Detecting(i)
    BY <1>2, <1>3 DEF Mode
  <2>2. Asking(i)'
    BY <1>4, <1>5, <2>1 DEF Detecting, Asking
  <2>3. ~LineWithDot'
    BY <1>4 DEF LineWithDot
  <2>4. Detecting(i)'
    BY <1>4, <1>5, <2>1, <2>2, <2>3 DEF Detecting
  <2> QED BY <1>2, <1>4, <2>4 DEF Mode
<1> QED BY <1>3, <1>4, <1>5, <1>6, <1>7 DEF DialogueInv

\* The line behind one that starts with a space, sent or not.
LEMMA SkipsLater ==
    ASSUME NEW s \in Scripts, NEW res, Results(s, res), NEW i \in 0..Len(s), i < Len(s),
           NEW st, Standing(s)[i] = [st |-> st, skip |-> TRUE]
    PROVE  /\ s[i + 1].line \in Seq(Chars) /\ EndsLine(From(s[i + 1].line, 0 + 1)) /\ s[i + 1].job = NoJob
           /\ Standing(s)[i + 1] = [st |-> st, skip |-> FALSE] /\ RepliesTo(s, res)[i + 1] = RepliesTo(s, res)[i]
<1> DEFINE m == s[i + 1]
           a == Standing(s)[i]
<1>1. s \in Seq(Message) /\ Len(s) \in Nat /\ \A k \in 1..Len(s) : s[k] \in Message /\ Proper(Standing(s)[k - 1], s[k])
  BY ScriptType
<1>2. i + 1 \in 1..Len(s) /\ (i + 1) - 1 = i
  BY <1>1
<1>3. m \in Message /\ Proper(a, m) /\ m.line \in Seq(Chars)
  BY <1>1, <1>2, MessageType
<1>4. a \in Standings /\ Standing(s)[i + 1] = After(a, m.line)
  BY <1>1, <1>2, StandingDef
<1>5. a.st = st /\ a.skip = TRUE
  OBVIOUS
<1> HIDE DEF a
<1>6. After(a, m.line) = [st |-> a.st, skip |-> FALSE] /\ ReplyPrinted(a, m, res[i + 1]) = <<>> /\ m.job = NoJob /\ EndsLine(m.line)
  BY <1>3, <1>4, <1>5, SkippedLine
<1>7. RepliesTo(s, res)[i + 1] = RepliesTo(s, res)[i] \o <<>> /\ RepliesTo(s, res)[i] \in Seq(Tokens)
  <2>1. RepliesTo(s, res)[i] \in Seq(Tokens)
    BY RepliesSettled
  <2>2. RepliesTo(s, res)[i + 1] = IF m.job # NoJob /\ i + 1 \notin DOMAIN res THEN RepliesTo(s, res)[(i + 1) - 1]
                 ELSE RepliesTo(s, res)[(i + 1) - 1] \o ReplyPrinted(Standing(s)[(i + 1) - 1], m, res[i + 1])
    BY <1>2, RepliesToDef
  <2> QED BY <1>2, <1>6, <2>1, <2>2 DEF a
<1>8. RepliesTo(s, res)[i + 1] = RepliesTo(s, res)[i]
  BY <1>7
<1>9. EndsLine(From(m.line, 0 + 1))
  <2>1. 0 \in 0..Len(m.line) /\ 0 + 1 = 1
    BY <1>3
  <2>2. From(m.line, 1) = m.line
    BY <1>3, <2>1, FromIs
  <2> QED BY <1>6, <2>1, <2>2
<1> QED BY <1>3, <1>4, <1>5, <1>6, <1>8, <1>9

LEMMA ClientSendsInv ==
    ASSUME DialogueInv, ClientSends
    PROVE  DialogueInv'
<1>1. MainType /\ Control /\ op = "READ" /\ caller \in {"none", "delegate"} /\ net \in Seq(Chars) /\ inp \in Seq(Chars)
  BY DEF DialogueInv, ClientSends, Reading, MainType
<1>2. PICK i \in 0..sent : Progress(i) /\ Mode(i)
  BY DEF DialogueInv
<1>3. PICK k \in (sent + 1)..Len(script) :
        /\ \A a, b \in (sent + 1)..k : script[a].job # NoJob /\ script[b].job # NoJob => a = b
        /\ sent' = k
        /\ net' = net \o Bytes(sent, k)
  BY DEF ClientSends
<1>4. /\ UNCHANGED <<script, served, m_cmdstateidx, m_stateidx, m_buffer, m_cmd, m_output, m_resultstr, m_resultstate>>
      /\ UNCHANGED <<inp, m_refuseInputFlag, m_delegateHandler, caller, dbuf, ending, job, wire, op, m_state>>
      /\ DOMAIN served = Requests
  BY DEF ClientSends, lineVars, delegateVars, handlerVars
<1>5. /\ script \in Scripts /\ script \in Seq(Message) /\ Len(script) \in Nat /\ sent \in Nat /\ i \in Nat /\ i <= sent
      /\ sent <= Len(script) /\ Results(script, served)
  BY <1>1, <1>2, ProgressFacts
<1>6. k \in Nat /\ sent < k /\ k <= Len(script) /\ i < k /\ i < Len(script) /\ sent \in 0..Len(script) /\ k \in sent..Len(script)
      /\ i \in 0..Len(script) /\ k \in (i + 1)..Len(script) /\ i # k
  BY <1>3, <1>5
<1>7. \A j \in (i + 1)..sent : ~IsJob(j)
  <2> SUFFICES ASSUME NEW j \in (i + 1)..sent, IsJob(j) PROVE FALSE
    OBVIOUS
  <2>1. j \in 1..sent
    BY <1>5
  <2>2. j \in DOMAIN served
    BY <1>4, <2>1 DEF Requests, IsJob
  <2>3. j \in 1..i
    BY <1>2, <2>2 DEF Progress
  <2> QED BY <1>5, <2>3
<1>8. ~Asking(i)
  <2>1. i < sent => i + 1 \in (i + 1)..sent
    BY <1>5
  <2> QED BY <1>7, <2>1 DEF Asking
<1>9. caller = "none" /\ m_cmdstateidx \in LineStates /\ inp = <<>>
  BY <1>1, <1>2, <1>8 DEF Mode, Control, Delegated, Detecting
<1>10. BytesOf(script, sent, k) \in Seq(Chars) /\ net' = net \o BytesOf(script, sent, k)
  BY <1>3, <1>5, <1>6, BytesOfIs DEF Bytes, BytesOf
<1>11. MainType'
  <2>1. net' \in Seq(Chars)
    BY <1>1, <1>10
  <2>2. sent' \in 0..Len(script)
    BY <1>3, <1>5, <1>6
  <2> QED BY <1>1, <1>4, <2>1, <2>2 DEF MainType
<1>12. Control'
  BY <1>1, <1>4 DEF Control
<1>13. \A j : Stands(j)' = Stands(j) /\ Replied(j)' = Replied(j) /\ LineOf(j)' = LineOf(j) /\ (IsJob(j)' <=> IsJob(j))
  BY <1>4 DEF Stands, Replied, LineOf, IsJob
<1>14. Progress(i)' /\ i \in 0..sent'
  <2>1. i \in 0..k
    BY <1>5, <1>6
  <2>2. ASSUME NEW a \in (i + 1)..k, NEW b \in (i + 1)..k, IsJob(a), IsJob(b) PROVE a = b
    <3>1. a \in (i + 1)..sent \/ a \in (sent + 1)..k
      BY <1>5, <1>6
    <3>2. b \in (i + 1)..sent \/ b \in (sent + 1)..k
      BY <1>5, <1>6
    <3>3. a \in (sent + 1)..k /\ b \in (sent + 1)..k
      BY <1>7, <2>2, <3>1, <3>2
    <3> QED BY <1>3, <2>2, <3>3 DEF IsJob
  <2>3. /\ DOMAIN served = {j \in 1..i : IsJob(j)}
        /\ \A j \in DOMAIN served : served[j].given \in 0..Len(script[j].job.answer) /\ served[j].status \in Statuses
    BY <1>2 DEF Progress
  <2>4. {j \in 1..i : IsJob(j)} = {j \in 1..i : IsJob(j)'}
    BY <1>13
  <2> QED BY <1>3, <1>4, <1>13, <2>1, <2>2, <2>3, <2>4 DEF Progress
<1>15. ASSUME NEW p \in Nat, AtLine(i, p) PROVE AtLine(i, p)'
  <2> DEFINE l == LineOf(i)
  <2>1. l \in Seq(Chars) /\ BytesOf(script, i, k) = l \o Behind(script, i, k) /\ Behind(script, i, k) \in Seq(Chars)
    BY <1>5, <1>6, FirstMessage DEF LineOf
  <2>2. Len(l) > 0 /\ Len(l) \in Nat
    <3>1. i + 1 \in 1..Len(script)
      BY <1>5, <1>6
    <3>2. script[i + 1] \in Message /\ Proper(Standing(script)[(i + 1) - 1], script[i + 1])
      BY <1>5, <3>1, ScriptType
    <3> QED BY <3>2, ProperLine DEF LineOf
  <2>3. PICK v : v = BytesOf(script, sent, k)
    OBVIOUS
  <2>4. v \in Seq(Chars) /\ net' = net \o v
    BY <1>10, <2>3
  <2>5. (inp \o net) \o v = inp \o (net \o v)
    <3>1. inp \in Seq(Chars) /\ net \in Seq(Chars) /\ v \in Seq(Chars)
      BY <1>1, <2>4
    <3> QED BY <3>1, Assoc, SMTT(30)
  <2>6. CASE i = sent
    <3>1. p = 0 /\ inp \o net = <<>>
      BY <1>15, <2>6 DEF AtLine, Unread
    <3>2. inp \o net' = v
      BY <2>4, <2>5, <3>1
    <3>3. From(l, 0 + 1) = l
      <4>1. 0 \in 0..Len(l) /\ 0 + 1 = 1
        BY <2>2
      <4> QED BY <2>1, <4>1, FromIs
    <3>4. inp \o net' = From(l, p + 1) \o Behind(script, i, k)
      BY <2>1, <2>3, <2>6, <3>1, <3>2, <3>3
    <3> QED BY <1>3, <1>4, <1>6, <1>13, <2>2, <3>1, <3>4 DEF AtLine, Unread
  <2>7. CASE i # sent
    <3>1. p < Len(l) /\ inp \o net = From(l, p + 1) \o Behind(script, i, sent)
      BY <1>15, <2>7 DEF AtLine, Unread
    <3>2. sent \in (i + 1)..Len(script)
      BY <1>5, <2>7
    <3>3. Behind(script, i, sent) \o BytesOf(script, sent, k) = Behind(script, i, k) /\ Behind(script, i, sent) \in Seq(Chars)
      BY <1>5, <1>6, <3>2, BehindMore, FirstMessage
    <3>4. PICK f : f = From(l, p + 1)
      OBVIOUS
    <3>5. PICK h : h = Behind(script, i, sent)
      OBVIOUS
    <3>6. f \in Seq(Chars) /\ h \in Seq(Chars)
      <4>1. p \in 0..Len(l)
        BY <2>2, <3>1
      <4> QED BY <2>1, <3>3, <3>4, <3>5, <4>1, FromIs
    <3>7. (f \o h) \o v = f \o (h \o v)
      BY <2>4, <3>6, Assoc, SMTT(30)
    <3>8. inp \o net' = From(l, p + 1) \o Behind(script, i, k)
      BY <2>3, <2>4, <2>5, <3>1, <3>3, <3>4, <3>5, <3>7
    <3> QED BY <1>3, <1>4, <1>6, <1>13, <3>1, <3>8 DEF AtLine, Unread
  <2> QED BY <2>6, <2>7
<1>16. \A p \in Nat : InCommand(i, p) => InCommand(i, p)'
  BY <1>4, <1>13, <1>15 DEF InCommand
<1>17. \A p \in Nat : HasCommand(i, p) => HasCommand(i, p)'
  BY <1>3, <1>4, <1>6, <1>13, <1>16 DEF HasCommand
<1>18. Mode(i)'
  <2>1. CASE m_cmdstateidx = "EnterCommand"
    <3>1. PICK p \in Nat : /\ InCommand(i, p)
                           /\ IF i = sent THEN m_buffer = <<>>
                              ELSE m_buffer = SubSeq(LineOf(i), 1, p) /\ p <= Span(LineOf(i), EOL \cup {SP})
      BY <1>2, <1>9, <2>1 DEF Mode, Entering
    <3>2. m_buffer = SubSeq(LineOf(i), 1, p) /\ p <= Span(LineOf(i), EOL \cup {SP})
      <4>1. CASE i = sent
        <5>1. p = 0
          BY <3>1, <4>1 DEF InCommand, AtLine
        <5>2. LineOf(i) \in Seq(Chars)
          BY <1>5, <1>6, FirstMessage DEF LineOf
        <5>3. SubSeq(LineOf(i), 1, 0) = <<>>
          BY <5>2
        <5>4. Span(LineOf(i), EOL \cup {SP}) \in 0..Len(LineOf(i))
          BY <5>2, SpanIs
        <5>5. 0 <= Span(LineOf(i), EOL \cup {SP})
          BY <5>4
        <5> QED BY <3>1, <4>1, <5>1, <5>3, <5>5
      <4>2. CASE i # sent
        BY <3>1, <4>2
      <4> QED BY <4>1, <4>2
    <3>3. Entering(i)'
      BY <1>3, <1>4, <1>6, <1>13, <1>16, <3>1, <3>2 DEF Entering
    <3> QED BY <1>4, <1>9, <2>1, <3>3 DEF Mode
  <2>2. CASE m_cmdstateidx = "ParseArgs"
    <3>1. Parsing(i)
      BY <1>2, <1>9, <2>2 DEF Mode
    <3>2. Parsing(i)'
      BY <1>4, <1>13, <1>17, <3>1 DEF Parsing
    <3> QED BY <1>4, <1>9, <2>2, <3>2 DEF Mode
  <2>3. CASE m_cmdstateidx = "ParseArgsEOL"
    <3>1. EndingLine(i)
      BY <1>2, <1>9, <2>3 DEF Mode
    <3>2. EndingLine(i)'
      BY <1>4, <1>13, <1>17, <3>1 DEF EndingLine
    <3> QED BY <1>4, <1>9, <2>3, <3>2 DEF Mode
  <2>4. CASE m_cmdstateidx = "ProtocolError"
    <3>1. PICK p \in Nat :
            /\ AtLine(i, p)
            /\ IF i = sent
               THEN Stands(i) = [st |-> m_stateidx, skip |-> TRUE] /\ wire \o m_output = Replied(i)
               ELSE /\ EndsLine(From(LineOf(i), p + 1)) /\ ~IsJob(i + 1)
                    /\ Stands(i + 1) = [st |-> m_stateidx, skip |-> FALSE]
                    /\ wire \o m_output = Replied(i + 1)
      BY <1>2, <1>9, <2>4 DEF Mode, Skipping
    <3>2. /\ EndsLine(From(LineOf(i), p + 1)) /\ ~IsJob(i + 1)
          /\ Stands(i + 1) = [st |-> m_stateidx, skip |-> FALSE]
          /\ wire \o m_output = Replied(i + 1)
      <4>1. CASE i = sent
        <5>1. p = 0 /\ Stands(i) = [st |-> m_stateidx, skip |-> TRUE] /\ wire \o m_output = Replied(i)
          BY <3>1, <4>1 DEF AtLine
        <5>2. /\ EndsLine(From(script[i + 1].line, 0 + 1)) /\ script[i + 1].job = NoJob
              /\ Standing(script)[i + 1] = [st |-> m_stateidx, skip |-> FALSE]
              /\ RepliesTo(script, served)[i + 1] = RepliesTo(script, served)[i]
          BY <1>5, <1>6, <5>1, SkipsLater DEF Stands
        <5> QED BY <5>1, <5>2 DEF LineOf, IsJob, Stands, Replied
      <4>2. CASE i # sent
        BY <3>1, <4>2
      <4> QED BY <4>1, <4>2
    <3>3. AtLine(i, p)'
      BY <1>15, <3>1
    <3>4. Skipping(i)'
      BY <1>3, <1>4, <1>6, <1>13, <3>2, <3>3 DEF Skipping
    <3> QED BY <1>4, <1>9, <2>4, <3>4 DEF Mode
  <2> QED BY <1>9, <2>1, <2>2, <2>3, <2>4 DEF LineStates
<1> QED BY <1>11, <1>12, <1>14, <1>18 DEF DialogueInv

\* The result of a sub-protocol is printed on.
LEMMA HoldingSame ==
    ASSUME NEW i, Holding(i), UNCHANGED <<script, sent, served, job, net, inp, m_stateidx, m_refuseInputFlag>>,
           UNCHANGED <<m_state, inputVars, cmdh>>, UNCHANGED <<m_esc_stm, m_writedata, given>>, Returned(m_stateidx)',
           wire' \o m_output' \o m_resultstr' = wire \o m_output \o m_resultstr
    PROVE  Holding(i)'
<1>1. Replied(i)' = Replied(i) /\ Stands(i)' = Stands(i) /\ (IsJob(i + 1)' <=> IsJob(i + 1))
  BY ClientSame
<1>2. Asking(i)'
  BY <1>1 DEF Holding, Asking
<1>3. CASE m_state = "Terminated"
  <2>1. InputType'
    BY <1>3 DEF InputType, inputVars, Holding
  <2>2. Whole' = Whole /\ job' = job /\ given' = given
    BY DEF Whole
  <2> QED BY <1>1, <1>2, <1>3, <2>1, <2>2 DEF Holding
<1>4. CASE m_state # "Terminated"
  <2>1. PICK x \in Seq(Chars) : /\ PhaseInv("none", x, net)
                                /\ wire \o m_output \o m_resultstr = Replied(i) \o <<"ANSWER">> \o x
    BY <1>4 DEF Holding
  <2>2. PhaseInv("none", x, net)'
    BY <2>1, PhaseSame
  <2>3. wire' \o m_output' \o m_resultstr' = Replied(i)' \o <<"ANSWER">> \o x
    BY <1>1, <2>1
  <2>4. /\ inp' = <<>> /\ ~m_refuseInputFlag' /\ m_state' # "Terminated"
        /\ m_state' \in {"Processing", "DiscardInput"} /\ ~m_unconsumedInput' /\ ~m_gotEoD'
    BY <1>4 DEF Holding, inputVars
  <2> QED BY <1>2, <2>2, <2>3, <2>4 DEF Holding
<1> QED BY <1>3, <1>4

LEMMA ProcessOutputInv ==
    ASSUME DialogueInv, ProcessOutput
    PROVE  DialogueInv'
<1>1. LineTurn("ProcessOutput")
  BY DEF ProcessOutput
<1>2. /\ MainType /\ Control /\ op = "none" /\ caller = "none" /\ m_cmdstateidx = "ProcessOutput"
      /\ m_output = <<>> /\ wire \in Seq(Tokens) /\ wire \o m_output = wire
  BY <1>1, TurnFacts
<1>3. PICK i \in 0..sent : Progress(i) /\ Mode(i)
  BY <1>1, TurnFacts
<1>4. PICK n : n = Min({OutSize - Len(m_output), Len(m_resultstr)})
  OBVIOUS
<1>5. /\ UNCHANGED <<script, sent, served, m_buffer, m_cmd, m_resultstate>>
      /\ UNCHANGED <<inp, m_refuseInputFlag, m_delegateHandler, caller, dbuf, ending, job, net, wire>>
      /\ UNCHANGED <<m_state, inputVars, cmdh>> /\ UNCHANGED <<m_esc_stm, m_writedata, given>>
  BY DEF ProcessOutput, clientVars, delegateVars, netVars, handlerVars, outputVars
<1>6. /\ m_resultstr # <<>> => /\ m_output' = m_output \o SubSeq(m_resultstr, 1, n) /\ m_resultstr' = From(m_resultstr, n + 1)
                               /\ op' = "WRITE" /\ m_cmdstateidx' = m_cmdstateidx /\ m_stateidx' = m_stateidx
      /\ m_resultstr = <<>> /\ m_resultstate = "none" =>
           /\ m_cmdstateidx' = "Terminate" /\ op' = "CLOSE"
           /\ m_stateidx' = m_stateidx /\ m_output' = m_output /\ m_resultstr' = m_resultstr
      /\ m_resultstr = <<>> /\ m_resultstate # "none" =>
           /\ m_stateidx' = m_resultstate /\ m_cmdstateidx' = "Init"
           /\ op' = op /\ m_output' = m_output /\ m_resultstr' = m_resultstr
  BY <1>4 DEF ProcessOutput
<1>7. \A k, q : /\ Stands(k)' = Stands(k) /\ Replied(k)' = Replied(k) /\ LineOf(k)' = LineOf(k)
                /\ (IsJob(k)' <=> IsJob(k)) /\ (Progress(k)' <=> Progress(k)) /\ Unread(k, q)' = Unread(k, q)
  BY <1>5, ClientSame
<1>8. /\ m_delegateHandler = "none" => Printing(i)
      /\ m_delegateHandler = "doctype" => Delegating(i)
      /\ m_delegateHandler \in Endings => Holding(i)
      /\ m_delegateHandler \in Endings \cup {"none", "doctype"}
      /\ m_resultstr \in Seq(Tokens)
      /\ m_stateidx \in ProtocolStates /\ m_stateidx # "none"
  BY <1>2, <1>3 DEF Mode, MainType, ProtocolStates
<1>9. Stands(i) \in Standings /\ Replied(i) \in Seq(Tokens)
  BY <1>2, <1>3, ProgressFacts, StandsFacts
<1>10. /\ m_delegateHandler = "none" => m_resultstate = Stands(i).st
       /\ m_delegateHandler # "none" => m_resultstate = m_stateidx
  BY <1>2, <1>8 DEF Printing, Delegating, Holding, Returned
<1>11. AtLine(i, 0)' <=> AtLine(i, 0)
  BY <1>5, <1>7 DEF AtLine
<1>12. CASE m_resultstr # <<>>
  <2>1. n \in 0..Len(m_resultstr)
    <3>1. PICK z : z = Len(m_resultstr)
      OBVIOUS
    <3>2. PICK S : S = {OutSize, z}
      OBVIOUS
    <3>3. OutSize \in Nat /\ z \in Nat /\ n = Min(S)
      <4>1. Len(m_output) = 0 /\ OutSize - 0 = OutSize /\ OutSize \in Nat /\ Len(m_resultstr) \in Nat
        BY <1>2, <1>8, BufferSizes
      <4> QED BY <1>4, <3>1, <3>2, <4>1
    <3>4. S \subseteq Nat /\ OutSize \in S /\ z \in S
      BY <3>2, <3>3
    <3>5. OutSize <= z => Min(S) = OutSize
      <4> SUFFICES ASSUME OutSize <= z PROVE Min(S) = OutSize
        OBVIOUS
      <4>1. \A k \in S : OutSize <= k
        BY <3>2, <3>3
      <4> QED BY <3>4, <4>1, MinIs
    <3>6. ~(OutSize <= z) => Min(S) = z
      <4> SUFFICES ASSUME ~(OutSize <= z) PROVE Min(S) = z
        OBVIOUS
      <4>1. \A k \in S : z <= k
        BY <3>2, <3>3
      <4> QED BY <3>4, <4>1, MinIs
    <3> QED BY <3>1, <3>3, <3>5, <3>6
  <2>2. PICK h : h = SubSeq(m_resultstr, 1, n)
    OBVIOUS
  <2>3. PICK t : t = From(m_resultstr, n + 1)
    OBVIOUS
  <2>4. h \in Seq(Tokens) /\ t \in Seq(Tokens) /\ h \o t = m_resultstr
    <3>1. 0 \in 0..Len(m_resultstr) /\ Len(m_resultstr) \in n..Len(m_resultstr) /\ 0 + 1 = 1
      BY <1>8, <2>1
    <3>2. h \in Seq(Tokens) /\ t \in Seq(Tokens)
      BY <1>8, <2>1, <2>2, <2>3, FromIs
    <3>3. SubSeq(m_resultstr, 1, n) \o SubSeq(m_resultstr, n + 1, Len(m_resultstr)) = SubSeq(m_resultstr, 1, Len(m_resultstr))
      BY <1>8, <2>1, <3>1, SubSeqJoin
    <3>4. SubSeq(m_resultstr, 1, Len(m_resultstr)) = m_resultstr
      BY <1>8
    <3> QED BY <2>2, <2>3, <3>2, <3>3, <3>4 DEF From
  <2>5. m_output' = h /\ m_resultstr' = t /\ op' = "WRITE" /\ m_cmdstateidx' = "ProcessOutput" /\ m_stateidx' = m_stateidx
    <3>1. m_output \o h = h
      BY <1>2, <2>4
    <3> QED BY <1>2, <1>6, <1>12, <2>2, <2>3, <3>1
  <2>6. wire' \o m_output' \o m_resultstr' = wire \o m_output \o m_resultstr
    <3>1. (wire \o h) \o t = wire \o (h \o t)
      <4>1. wire \in Seq(Tokens) /\ h \in Seq(Tokens) /\ t \in Seq(Tokens)
        BY <1>2, <2>4
      <4> QED BY <4>1, Assoc
    <3>2. (wire \o m_output) \o m_resultstr = wire \o m_resultstr
      BY <1>2
    <3> QED BY <1>5, <2>4, <2>5, <3>1, <3>2
  <2>7. MainType'
    BY <1>2, <1>5, <2>4, <2>5 DEF MainType
  <2>8. Control'
    BY <1>2, <1>5, <2>5 DEF Control
  <2>9. Mode(i)'
    <3>1. CASE m_delegateHandler = "none"
      <4>1. Returned(Stands(i).st)' /\ ~Stands(i)'.skip
        BY <1>5, <1>7, <1>8, <1>10, <2>5, <3>1 DEF Returned, Printing
      <4>2. Printing(i)'
        BY <1>7, <1>8, <1>11, <2>6, <3>1, <4>1 DEF Printing
      <4> QED BY <1>2, <1>5, <2>5, <3>1, <4>2 DEF Mode, Endings
    <3>2. CASE m_delegateHandler = "doctype"
      BY <1>8, <1>12, <3>2 DEF Delegating
    <3>3. CASE m_delegateHandler \in Endings
      <4>1. Returned(m_stateidx)'
        BY <1>5, <1>10, <2>5, <3>3 DEF Returned, Endings
      <4>2. Holding(i)'
        BY <1>5, <1>8, <2>5, <2>6, <3>3, <4>1, HoldingSame
      <4> QED BY <1>2, <1>5, <2>5, <3>3, <4>2 DEF Mode, Endings
    <3> QED BY <1>8, <3>1, <3>2, <3>3
  <2> QED BY <1>3, <1>5, <1>7, <2>7, <2>8, <2>9 DEF DialogueInv
<1>13. CASE m_resultstr = <<>> /\ m_resultstate = "none"
  <2>1. /\ m_cmdstateidx' = "Terminate" /\ op' = "CLOSE"
        /\ m_stateidx' = m_stateidx /\ m_output' = m_output /\ m_resultstr' = m_resultstr
    BY <1>6, <1>13
  <2>2. m_delegateHandler = "none" /\ Stands(i).st = "none"
    BY <1>8, <1>10, <1>13
  <2>3. Printing(i)
    BY <1>8, <2>2
  <2>4. Stands(i) = [st |-> "none", skip |-> FALSE]
    BY <1>9, <2>2, <2>3 DEF Standings, Printing
  <2>5. wire = Replied(i)
    BY <1>2, <1>13, <2>3 DEF Printing
  <2>6. Terminating(i)'
    BY <1>5, <1>7, <2>4, <2>5 DEF Terminating
  <2>7. Mode(i)'
    BY <1>2, <1>5, <2>1, <2>6 DEF Mode
  <2>8. MainType'
    BY <1>2, <1>5, <2>1 DEF MainType
  <2>9. Control'
    BY <1>2, <1>5, <2>1, <2>2 DEF Control, LineStates
  <2> QED BY <1>3, <1>5, <1>7, <2>7, <2>8, <2>9 DEF DialogueInv
<1>14. CASE m_resultstr = <<>> /\ m_resultstate # "none"
  <2>1. /\ m_stateidx' = m_resultstate /\ m_cmdstateidx' = "Init"
        /\ op' = op /\ m_output' = m_output /\ m_resultstr' = m_resultstr
    BY <1>6, <1>14
  <2>2. m_resultstate \in ProtocolStates
    BY <1>8, <1>9, <1>10, <1>14 DEF Standings
  <2>3. MainType'
    BY <1>2, <1>5, <2>1, <2>2 DEF MainType
  <2>4. Control'
    BY <1>2, <1>5, <2>1 DEF Control, LineStates
  <2>5. Mode(i)'
    <3>1. CASE m_delegateHandler = "none"
      <4>1. Returned(Stands(i).st)' /\ ~Stands(i)'.skip
        BY <1>5, <1>7, <1>8, <1>10, <1>14, <2>1, <3>1 DEF Returned, Printing
      <4>2. Printing(i)'
        BY <1>5, <1>7, <1>8, <1>11, <2>1, <3>1, <4>1 DEF Printing
      <4> QED BY <1>2, <1>5, <2>1, <3>1, <4>2 DEF Mode, Endings
    <3>2. CASE m_delegateHandler = "doctype"
      <4>1. m_stateidx' = m_stateidx
        BY <1>10, <2>1, <3>2
      <4>2. Returned(m_stateidx)'
        BY <1>14, <2>1 DEF Returned
      <4>3. Asking(i)'
        BY <1>5, <1>7, <1>8, <3>2, <4>1 DEF Delegating, Asking
      <4>4. Delegating(i)'
        BY <1>5, <1>7, <1>8, <2>1, <3>2, <4>2, <4>3 DEF Delegating
      <4> QED BY <1>2, <1>5, <2>1, <3>2, <4>4 DEF Mode, Endings
    <3>3. CASE m_delegateHandler \in Endings
      <4>1. Returned(m_stateidx)' /\ m_stateidx' = m_stateidx
        BY <1>10, <1>14, <2>1, <3>3 DEF Returned, Endings
      <4>2. wire' \o m_output' \o m_resultstr' = wire \o m_output \o m_resultstr
        BY <1>5, <2>1
      <4>3. Holding(i)'
        BY <1>5, <1>8, <3>3, <4>1, <4>2, HoldingSame
      <4> QED BY <1>2, <1>5, <2>1, <3>3, <4>3 DEF Mode, Endings
    <3> QED BY <1>8, <3>1, <3>2, <3>3
  <2> QED BY <1>3, <1>5, <1>7, <2>3, <2>4, <2>5 DEF DialogueInv
<1> QED BY <1>12, <1>13, <1>14

\* The block a handler that has terminated is given.
LEMMA BlockGiven ==
    ASSUME NEW blk \in Blocks(Chars), NEW buf, NEW r, r = GetEoD(blk, buf)
    PROVE  /\ [r.blk EXCEPT !.gotEoD = FALSE].buf = r.blk.buf
           /\ buf = <<>> => /\ r.blk.buf = <<>> /\ r.blk.pos = 0 /\ r.eod = 0 /\ r.blk.nextpos \in Nat
                            /\ [r.blk EXCEPT !.gotEoD = FALSE].pos = 0
<1> DEFINE a == Scan(buf)
           data == RemoveChars(buf, a.delchrs)
           size == Len(buf) - Cardinality(a.delchrs)
           next == NextPos(a)
           end == DataEnd(a)
           chars == SubSeq(buf, a.srcendpos + 1, Len(buf))
           st == a.st
<1>1. CASE buf = <<>>
  <2>1. r = [blk |-> [blk EXCEPT !.buf = <<>>, !.pos = 0], eod |-> 0]
    BY <1>1 DEF GetEoD
  <2>2. r.blk = [blk EXCEPT !.buf = <<>>, !.pos = 0] /\ r.eod = 0
    BY <2>1
  <2>3. r.blk.buf = <<>> /\ r.blk.pos = 0 /\ r.blk.nextpos \in Nat
    BY <2>2 DEF Blocks
  <2>4. [r.blk EXCEPT !.gotEoD = FALSE].buf = <<>> /\ [r.blk EXCEPT !.gotEoD = FALSE].pos = 0
    BY <2>2 DEF Blocks
  <2> QED BY <2>2, <2>3, <2>4
<1>2. CASE buf # <<>>
  <2>1. r = IF st = "EoD"
            THEN [blk |-> [blk EXCEPT !.buf = data, !.pos = size, !.nextpos = next, !.gotEoD = TRUE], eod |-> end]
            ELSE [blk |-> [blk EXCEPT !.buf = data, !.pos = end, !.eodcharbuf = IF st = "SRC" THEN @ ELSE chars], eod |-> end]
    BY <1>2 DEF GetEoD
  <2> HIDE DEF data, size, next, end, chars, st
  <2>2. CASE st = "EoD"
    <3>1. r.blk = [blk EXCEPT !.buf = data, !.pos = size, !.nextpos = next, !.gotEoD = TRUE]
      BY <2>1, <2>2
    <3> QED BY <1>2, <3>1 DEF Blocks
  <2>3. CASE st # "EoD"
    <3>1. r.blk = [blk EXCEPT !.buf = data, !.pos = end, !.eodcharbuf = IF st = "SRC" THEN blk.eodcharbuf ELSE chars]
      BY <2>1, <2>3
    <3> QED BY <1>2, <3>1 DEF Blocks
  <2> QED BY <2>2, <2>3
<1> QED BY <1>1, <1>2

\* A handler that has terminated is given the input of the line handler again.
LEMMA GivenAgain ==
    ASSUME MainType, NEW i, Progress(i), Asking(i), InputType, inp \o net = job.rest, m_state = "Terminated",
           PutInput(m_input, inp)
    PROVE  m_input'.buf = inp /\ (inp = <<>> => DataLeft' = <<>>)
<1>1. PICK r : r = GetEoD(m_input, inp)
  OBVIOUS
<1>2. Consume(r.blk, r.eod, m_state)
  BY <1>1 DEF PutInput
<1>3. m_input \in Blocks(Chars) /\ inp \in Seq(Chars) /\ net \in Seq(Chars)
  BY DEF InputType, MainType
<1>4. /\ m_input' = r.blk \/ m_input' = [r.blk EXCEPT !.gotEoD = FALSE]
      /\ m_nextmsg' = r.eod \/ m_nextmsg' = r.blk.nextpos
  BY <1>2 DEF Consume
<1>5. /\ [r.blk EXCEPT !.gotEoD = FALSE].buf = r.blk.buf
      /\ inp = <<>> => /\ r.blk.buf = <<>> /\ r.blk.pos = 0 /\ r.eod = 0 /\ r.blk.nextpos \in Nat
                       /\ [r.blk EXCEPT !.gotEoD = FALSE].pos = 0
  BY <1>1, <1>3, BlockGiven
<1>6. NoDotLine(inp)
  <2>1. /\ script \in Scripts /\ sent \in Nat /\ i \in Nat /\ i < sent /\ i + 1 \in 0..Len(script) /\ sent \in (i + 1)..Len(script)
    BY ProgressFacts, NextMessage DEF Asking
  <2>2. \A k \in ((i + 1) + 1)..sent : script[k].job = NoJob
    <3> SUFFICES ASSUME NEW k \in ((i + 1) + 1)..sent, IsJob(k) PROVE FALSE
      BY DEF IsJob
    <3>1. k \in (i + 1)..sent /\ i + 1 \in (i + 1)..sent /\ k # i + 1
      BY <2>1
    <3>2. IsJob(i + 1)
      BY DEF Asking
    <3> QED BY <3>1, <3>2 DEF Progress
  <2>3. NoDotLine(BytesOf(script, i + 1, sent))
    BY <2>1, <2>2, PlainBytes
  <2>4. job.rest = BytesOf(script, i + 1, sent)
    BY DEF Asking
  <2>5. NoDotLine(inp \o net)
    BY <2>3, <2>4
  <2> QED BY <1>3, <2>5, DotLineBefore
<1>7. r.blk.buf = inp
  BY <1>1, <1>3, <1>6, NothingRemoved
<1>8. m_input'.buf = inp
  BY <1>4, <1>5, <1>7
<1>9. ASSUME inp = <<>> PROVE DataLeft' = <<>>
  <2>1. m_input'.buf = <<>> /\ m_input'.pos = 0 /\ m_nextmsg' \in Nat
    <3>1. /\ r.blk.buf = <<>> /\ r.blk.pos = 0 /\ r.eod = 0 /\ r.blk.nextpos \in Nat
          /\ [r.blk EXCEPT !.gotEoD = FALSE].pos = 0 /\ [r.blk EXCEPT !.gotEoD = FALSE].buf = r.blk.buf
      BY <1>5, <1>9
    <3>2. m_input'.buf = <<>> /\ m_input'.pos = 0
      BY <1>4, <3>1, Zenon
    <3>3. m_nextmsg' \in Nat
      BY <1>4, <3>1
    <3> QED BY <3>2, <3>3
  <2>2. SubSeq(m_input'.buf, m_nextmsg' + 1, m_input'.pos) = SubSeq(<<>>, m_nextmsg' + 1, 0)
    BY <2>1
  <2>3. SubSeq(<<>>, m_nextmsg' + 1, 0) = <<>>
    BY <2>1
  <2> QED BY <2>2, <2>3 DEF DataLeft
<1> QED BY <1>8, <1>9

\* Facts about the printed result when everything of it is written.
LEMMA AllPrinted ==
    ASSUME NEW w \in Seq(Tokens), NEW o, NEW r, o = <<>>, r = <<>>
    PROVE  w \o o \o r = w
  OBVIOUS

LEMMA InitCommandInv ==
    ASSUME DialogueInv, InitCommand
    PROVE  DialogueInv'
<1>1. LineTurn("Init")
  BY DEF InitCommand
<1>2. /\ MainType /\ Control /\ op = "none" /\ caller = "none" /\ m_cmdstateidx = "Init"
      /\ m_output = <<>> /\ wire \in Seq(Tokens) /\ wire \o m_output = wire
      /\ inp \in Seq(Chars) /\ net \in Seq(Chars)
  BY <1>1, TurnFacts
<1>3. PICK i \in 0..sent : Progress(i) /\ Mode(i)
  BY <1>1, TurnFacts
<1>4. /\ UNCHANGED <<script, sent, served, m_stateidx, m_output>>
      /\ UNCHANGED <<m_refuseInputFlag, m_delegateHandler, ending, job, net, wire, op>>
      /\ m_buffer' = <<>> /\ m_cmd' = <<>> /\ m_resultstr' = <<>> /\ m_resultstate' = "none"
  BY DEF InitCommand, clientVars, netVars
<1>5. \A k, q : /\ Stands(k)' = Stands(k) /\ Replied(k)' = Replied(k) /\ LineOf(k)' = LineOf(k)
                /\ (IsJob(k)' <=> IsJob(k)) /\ (Progress(k)' <=> Progress(k)) /\ Unread(k, q)' = Unread(k, q)
  BY <1>4, ClientSame
<1>6. /\ m_delegateHandler = "none" => Printing(i)
      /\ m_delegateHandler = "doctype" => Delegating(i)
      /\ m_delegateHandler \in Endings => Holding(i)
      /\ m_delegateHandler \in Endings \cup {"none", "doctype"}
  BY <1>2, <1>3 DEF Mode, MainType
<1>7. <<>> \in Seq(Tokens) /\ <<>> \in Seq(Chars)
  OBVIOUS
<1>8. CASE m_delegateHandler = "none"
  <2>1. m_cmdstateidx' = "EnterCommand" /\ UNCHANGED <<inp, caller, dbuf, m_state>>
    BY <1>8 DEF InitCommand, handlerVars
  <2>2. /\ AtLine(i, 0) /\ ~Stands(i).skip /\ m_stateidx = Stands(i).st /\ m_resultstr = <<>>
        /\ wire \o m_output \o m_resultstr = Replied(i)
    BY <1>2, <1>6, <1>8 DEF Printing, Returned
  <2>3. wire = Replied(i)
    BY <1>2, <2>2, AllPrinted
  <2>4. Stands(i) = [st |-> m_stateidx, skip |-> FALSE]
    <3>1. Stands(i) \in Standings
      BY <1>2, <1>3, ProgressFacts, StandsFacts
    <3> QED BY <2>2, <3>1 DEF Standings
  <2>5. AtLine(i, 0)'
    BY <1>4, <1>5, <2>1, <2>2 DEF AtLine
  <2>6. InCommand(i, 0)'
    BY <1>2, <1>4, <1>5, <2>3, <2>4, <2>5 DEF InCommand
  <2>7. Entering(i)'
    BY <1>2, <1>3, <1>4, <2>6, EntersNext
  <2>8. Mode(i)'
    BY <1>2, <2>1, <2>7 DEF Mode
  <2>9. MainType'
    BY <1>2, <1>4, <1>7, <2>1 DEF MainType, LineStates
  <2>10. Control'
    BY <1>2, <1>4, <1>8, <2>1 DEF Control, LineStates, Endings
  <2> QED BY <1>3, <1>4, <1>5, <2>8, <2>9, <2>10 DEF DialogueInv
<1>9. CASE m_delegateHandler = "doctype"
  <2>1. m_cmdstateidx' = "ProcessingDelegation" /\ dbuf' = dbuf \o inp /\ UNCHANGED <<inp, caller, m_state>>
    BY <1>9 DEF InitCommand, Delegate, handlerVars
  <2>2. /\ Asking(i) /\ ~m_refuseInputFlag /\ dbuf = <<>>
        /\ inp \o net = Stream(job) /\ wire \o m_output = Replied(i)
    BY <1>6, <1>9 DEF Delegating
  <2>3. dbuf' = inp
    BY <1>2, <2>1, <2>2
  <2>4. Asking(i)'
    BY <1>4, <1>5, <2>2 DEF Asking
  <2>5. (dbuf \o net = Stream(job))'
    BY <1>4, <2>2, <2>3 DEF Stream
  <2>6. Detecting(i)'
    BY <1>2, <1>4, <1>5, <2>2, <2>4, <2>5 DEF Detecting
  <2>7. Mode(i)'
    BY <1>2, <2>1, <2>6 DEF Mode
  <2>8. MainType'
    BY <1>2, <1>4, <1>7, <2>1, <2>3 DEF MainType, LineStates
  <2>9. Control'
    BY <1>2, <1>4, <1>9, <2>1 DEF Control, LineStates, Endings
  <2> QED BY <1>3, <1>4, <1>5, <2>7, <2>8, <2>9 DEF DialogueInv
<1>10. CASE m_delegateHandler \in Endings
  <2>1. /\ m_cmdstateidx' = "ProcessingDelegation" /\ PutInput(m_input, inp) /\ inp' = m_input'.buf
        /\ outsize' = OutSize /\ caller' = "delegate"
        /\ UNCHANGED <<dbuf, m_state, m_esc_stm, m_writedata, given, lastError, cmdh>>
    BY <1>10 DEF InitCommand, Delegate, Endings
  <2>2. Asking(i) /\ Holding(i) /\ m_resultstr = <<>>
    BY <1>2, <1>6, <1>10 DEF Holding, Returned
  <2>3. Asking(i)'
    BY <1>4, <1>5, <2>2 DEF Asking
  <2>4. wire \o m_output \o m_resultstr = wire
    BY <1>2, <2>2, AllPrinted
  <2>5. Control'
    BY <1>2, <1>4, <1>10, <2>1 DEF Control, LineStates, Endings
  <2>6. inp' \in Seq(Chars) /\ Delegated(i)'
    <3>1. CASE m_state = "Terminated"
      <4>1. /\ InputType /\ given \in 0..Len(job.answer)
            /\ inp \o net = job.rest /\ m_refuseInputFlag = (inp # <<>>)
            /\ wire = Replied(i) \o <<"ANSWER">> \o Whole
        BY <2>2, <2>4, <3>1 DEF Holding
      <4>2. m_input'.buf = inp /\ (inp = <<>> => DataLeft' = <<>>)
        BY <1>2, <1>3, <2>1, <2>2, <3>1, <4>1, GivenAgain
      <4>3. (Whole)' = Whole
        BY <1>4, <2>1 DEF Whole
      <4>4. (IF m_refuseInputFlag THEN inp ELSE DataLeft)' = inp
        BY <1>4, <2>1, <4>1, <4>2
      <4>5. /\ ((IF m_refuseInputFlag THEN inp ELSE DataLeft) \in Seq(Chars))'
            /\ ((IF m_refuseInputFlag THEN inp ELSE DataLeft) \o net = job.rest)'
        BY <1>2, <1>4, <4>1, <4>4
      <4> QED BY <1>2, <1>4, <1>5, <2>1, <2>3, <3>1, <4>1, <4>2, <4>3, <4>5 DEF Delegated
    <3>2. CASE m_state # "Terminated"
      <4>1. /\ inp = <<>> /\ ~m_refuseInputFlag
            /\ m_state \in {"Processing", "DiscardInput"} /\ ~m_unconsumedInput /\ ~m_gotEoD
        BY <2>2, <3>2 DEF Holding
      <4>2. PICK x \in Seq(Chars) : PhaseInv("none", x, net) /\ wire = Replied(i) \o <<"ANSWER">> \o x
        BY <2>2, <2>4, <3>2 DEF Holding
      <4>3. PICK u : u = net
        OBVIOUS
      <4>4. PhaseInv("none", x, u)' /\ m_input'.buf = <<>>
        BY <1>4, <2>1, <4>1, <4>2, <4>3, PutNothingInv
      <4>5. u = net' /\ op' = "none"
        BY <1>2, <1>4, <4>3
      <4>6. PhaseInv(op, x, net)'
        BY <4>4, <4>5
      <4> QED BY <1>4, <1>5, <1>7, <2>1, <2>3, <4>1, <4>2, <4>4, <4>6 DEF Delegated
    <3> QED BY <3>1, <3>2
  <2>7. MainType'
    BY <1>2, <1>4, <1>7, <2>1, <2>6 DEF MainType, LineStates
  <2>8. Mode(i)'
    BY <2>1, <2>6 DEF Mode
  <2> QED BY <1>3, <1>4, <1>5, <2>5, <2>7, <2>8 DEF DialogueInv
<1> QED BY <1>6, <1>8, <1>9, <1>10

LEMMA SplitBack ==
    ASSUME NEW C, NEW s \in Seq(C), NEW t \in Seq(C), NEW v, v = s \o t
    PROVE  /\ v \in Seq(C) /\ Len(s) \in 0..Len(v)
           /\ SubSeq(v, 1, Len(s)) = s /\ SubSeq(v, Len(s) + 1, Len(v)) = t
<1>1. v \in Seq(C) /\ Joined(v, s, t)
  BY ConcatIs
<1>2. Len(s) \in Nat /\ Len(t) \in Nat /\ Len(v) = Len(s) + Len(t) /\ Len(s) \in 0..Len(s) /\ Len(s) \in 0..Len(v)
  BY <1>1 DEF Joined
<1>3. From(v, Len(s) + 1) = From(s, Len(s) + 1) \o t /\ SubSeq(v, 1, Len(s)) = SubSeq(s, 1, Len(s))
  BY <1>2, FromConcat
<1>4. From(s, Len(s) + 1) = <<>>
  BY <1>2, FromIs
<1>5. SubSeq(s, 1, Len(s)) = s /\ <<>> \o t = t
  OBVIOUS
<1> QED BY <1>1, <1>2, <1>3, <1>4, <1>5 DEF From

\* The invariant of the data phase for a new handler, in the next state.
LEMMA FreshAny == \A o \in {"START", "none"} : \A u : Fresh(u) => PhaseInv(o, <<>>, u)
  BY FreshInv

LEMMA FreshNext == (\A o \in {"START", "none"} : \A u : Fresh(u) => PhaseInv(o, <<>>, u))'
  BY FreshAny, PTL

\* A new handler that is given its first input before it is called.
FreshGiven(u) ==
    /\ job \in Exchange /\ m_state = "StartProcessing" /\ u \in Seq(Chars) /\ NetInv(u)
    /\ m_input \in Blocks(Chars) /\ m_eoD \in Nat /\ m_nextmsg \in Nat /\ m_unconsumedInput = TRUE /\ m_gotEoD = FALSE
    /\ Received(job, ReadLen(u), [blk |-> m_input, eod |-> m_eoD], <<>>, u)
    /\ m_esc_stm = [state |-> "SRC", blk |-> <<>>] /\ m_writedata = <<>>
    /\ cmdh = "none" /\ taken = <<>> /\ told = FALSE /\ given = 0

LEMMA FreshGivenInv == \A u : FreshGiven(u) => PhaseInv("none", <<>>, u)
<1> SUFFICES ASSUME NEW u, FreshGiven(u) PROVE PhaseInv("none", <<>>, u)
  OBVIOUS
<1>1. /\ job \in Exchange /\ m_state = "StartProcessing" /\ u \in Seq(Chars) /\ NetInv(u)
      /\ m_input \in Blocks(Chars) /\ m_eoD \in Nat /\ m_nextmsg \in Nat /\ m_unconsumedInput = TRUE /\ m_gotEoD = FALSE
      /\ Received(job, ReadLen(u), [blk |-> m_input, eod |-> m_eoD], <<>>, u)
      /\ m_esc_stm = [state |-> "SRC", blk |-> <<>>] /\ m_writedata = <<>>
      /\ cmdh = "none" /\ taken = <<>> /\ told = FALSE /\ given = 0
  BY DEF FreshGiven
<1>2. job.answer \in Seq(Chars) /\ job.request \in Seq(Chars) /\ DOT \in Chars /\ <<>> \in Seq(Chars)
  BY <1>1, ExchangeType
<1>3. InputType
  BY <1>1, <1>2 DEF InputType
<1>4. OtherType("none", <<>>, u)
  <2>1. 0 \in 0..Len(job.answer)
    BY <1>2
  <2> QED BY <1>1, <1>2, <2>1 DEF OtherType
<1>5. OpInv("none", u)
  BY <1>1 DEF OpInv
<1>6. InputInv(u)
  BY <1>1 DEF InputInv
<1>7. RequestExact
  <2>1. Len(<<>>) = 0 /\ Len(job.request) \in Nat
    BY <1>2
  <2>2. SubSeq(<<>>, 1, 0) = SubSeq(job.request, 1, 0)
    BY <1>2
  <2> QED BY <1>1, <2>1, <2>2 DEF RequestExact, IsPrefix
<1>8. OutputInv(<<>>)
  <2>1. EscapedTo(job.answer)[0] = <<>>
    BY <1>2, EscapedToDef
  <2>2. m_esc_stm.state = "SRC" /\ m_esc_stm.blk = <<>>
    BY <1>1
  <2>3. AtByte(m_esc_stm, job.answer, 0, given)
    <3>1. SubSeq(job.answer, 0 + 1, 0) = <<>>
      BY <1>2
    <3> QED BY <1>1, <2>2, <3>1 DEF AtByte
  <2>4. <<>> \o m_writedata = Printed(m_esc_stm.state, job.answer, 0)
    <3>1. <<>> \o <<>> = <<>>
      OBVIOUS
    <3> QED BY <1>1, <2>1, <2>2, <3>1 DEF Printed
  <2>5. 0 \in 0..given
    BY <1>1
  <2> QED BY <1>1, <2>2, <2>3, <2>4, <2>5 DEF OutputInv
<1> QED BY <1>1, <1>3, <1>4, <1>5, <1>6, <1>7, <1>8 DEF PhaseInv, PhaseType

LEMMA FreshGivenNext == (\A u : FreshGiven(u) => PhaseInv("none", <<>>, u))'
  BY FreshGivenInv, PTL

\* What both ends of the detection have in common.
LEMMA EndDetectionIs ==
    ASSUME DialogueInv, NEW end \in Endings, NEW who \in {"prefetch", "redirect"}, EndDetection(end, who)
    PROVE  /\ MainType' /\ Control'
           /\ \E i \in 0..sent : /\ MainType /\ Progress(i) /\ Progress(i)' /\ i \in 0..sent'
                                 /\ Detecting(i) /\ Asking(i)' /\ Returned(m_stateidx)' /\ ~m_refuseInputFlag'
                                 /\ (wire = Replied(i))'
           /\ m_resultstr' = <<"ANSWER">> /\ op' = "none" /\ caller' = who /\ m_cmdstateidx' = "ProcessOutput"
           /\ UNCHANGED <<job, net, dbuf>> /\ taken' = <<>> /\ told' = FALSE /\ given' = 0
<1>1. LineTurn("ProcessingDelegation")
  BY DEF EndDetection, InDetection
<1>2. /\ MainType /\ Control /\ op = "none" /\ caller = "none" /\ m_cmdstateidx = "ProcessingDelegation"
      /\ m_output = <<>> /\ wire \in Seq(Tokens)
  BY <1>1, TurnFacts
<1>3. PICK i \in 0..sent : Progress(i) /\ Mode(i)
  BY <1>1, TurnFacts
<1>4. /\ UNCHANGED <<script, sent, served, m_stateidx, m_buffer, m_cmd, m_output>>
      /\ UNCHANGED <<inp, m_refuseInputFlag, dbuf, job, net, wire, op>>
      /\ m_cmdstateidx' = "ProcessOutput" /\ m_resultstate' = m_stateidx /\ m_resultstr' = <<"ANSWER">>
      /\ m_delegateHandler' = "none" /\ ending' = end /\ caller' = who
      /\ taken' = <<>> /\ told' = FALSE /\ given' = 0
  BY DEF EndDetection, clientVars, netVars
<1>5. \A k : /\ Stands(k)' = Stands(k) /\ Replied(k)' = Replied(k)
             /\ (IsJob(k)' <=> IsJob(k)) /\ (Progress(k)' <=> Progress(k))
  BY <1>4, ClientSame
<1>6. Detecting(i)
  BY <1>2, <1>3 DEF Mode
<1>7. Asking(i)'
  BY <1>4, <1>5, <1>6 DEF Detecting, Asking
<1>8. Returned(m_stateidx)' /\ ~m_refuseInputFlag' /\ (wire = Replied(i))'
  BY <1>4, <1>5, <1>6 DEF Detecting, Returned
<1>9. MainType'
  <2>1. <<"ANSWER">> \in Seq(Tokens)
    BY OneToken DEF Tokens
  <2> QED BY <1>2, <1>4, <2>1 DEF MainType
<1>10. Control'
  BY <1>2, <1>4 DEF Control, Endings
<1>11. Progress(i)' /\ i \in 0..sent'
  BY <1>3, <1>4, <1>5
<1> QED BY <1>2, <1>3, <1>4, <1>6, <1>7, <1>8, <1>9, <1>10, <1>11

LEMMA DoctypeServedInv ==
    ASSUME DialogueInv, DoctypeServed
    PROVE  DialogueInv'
<1>1. EndDetection("endRequest", "prefetch") /\ HandlerCreated("open", FALSE, 0, EmptyBlock, 0, FALSE)
  BY DEF DoctypeServed
<1>2. "endRequest" \in Endings /\ "prefetch" \in {"prefetch", "redirect"}
  BY DEF Endings
<1>3. /\ MainType' /\ Control'
      /\ m_resultstr' = <<"ANSWER">> /\ op' = "none" /\ caller' = "prefetch" /\ m_cmdstateidx' = "ProcessOutput"
      /\ UNCHANGED <<job, net, dbuf>> /\ taken' = <<>> /\ told' = FALSE /\ given' = 0
  BY <1>1, <1>2, EndDetectionIs
<1>4. PICK i \in 0..sent : /\ MainType /\ Progress(i) /\ Progress(i)' /\ i \in 0..sent'
                           /\ Detecting(i) /\ Asking(i)' /\ Returned(m_stateidx)' /\ ~m_refuseInputFlag'
                           /\ (wire = Replied(i))'
  BY <1>1, <1>2, EndDetectionIs
<1>5. job \in Exchange /\ dbuf \o net = Stream(job)
  BY <1>4, AskingType DEF Detecting
<1>6. /\ m_state' = "StartProcessing" /\ m_input' = EmptyBlock /\ m_eoD' = 0 /\ m_nextmsg' = 0
      /\ m_unconsumedInput' = FALSE /\ m_gotEoD' = FALSE
      /\ m_esc_stm' = [state |-> "SRC", blk |-> <<>>] /\ m_writedata' = <<>> /\ cmdh' = "open" /\ outsize' = 0
  BY <1>1 DEF HandlerCreated
<1>7. PICK u : u = dbuf \o net
  OBVIOUS
<1>8. Fresh(u)'
  <2>1. u = Stream(job') /\ job' \in Exchange
    BY <1>3, <1>5, <1>7
  <2> QED BY <1>3, <1>6, <2>1 DEF Fresh
<1>9. PhaseInv("none", <<>>, u)'
  BY <1>8, FreshNext
<1>10. (PhaseInv(op, <<>>, dbuf \o net))'
  <2>1. u = dbuf' \o net' /\ op' = "none"
    BY <1>3, <1>7
  <2> QED BY <1>9, <2>1
<1>11. Prefetching(i)'
  <2>1. (dbuf \o net = Stream(job))'
    BY <1>3, <1>5
  <2> QED BY <1>3, <1>4, <1>6, <1>10, <2>1 DEF Prefetching
<1>12. Mode(i)'
  BY <1>3, <1>11 DEF Mode
<1> QED BY <1>3, <1>4, <1>12 DEF DialogueInv

\* A new data handler without a command handler is given all that the filter has read.
LEMMA GivenAtOnce ==
    ASSUME job \in Exchange, dbuf \o net = Stream(job), dbuf \in Seq(Chars), net \in Seq(Chars),
           NEW error, NEW r, r = GetEoD(EmptyBlock, dbuf),
           HandlerCreated("none", error, OutSize, r.blk, r.eod, TRUE),
           UNCHANGED <<job, net>>, op' = "none", taken' = <<>>, told' = FALSE, given' = 0
    PROVE  PhaseInv(op, <<>>, net)' /\ outsize' = OutSize
<1>1. /\ m_state' = "StartProcessing" /\ m_input' = r.blk /\ m_eoD' = r.eod /\ m_nextmsg' = r.eod
      /\ m_unconsumedInput' = TRUE /\ m_gotEoD' = FALSE /\ outsize' = OutSize
      /\ m_esc_stm' = [state |-> "SRC", blk |-> <<>>] /\ m_writedata' = <<>> /\ cmdh' = "none"
  BY DEF HandlerCreated
<1>2. PICK v : v = dbuf \o net
  OBVIOUS
<1>3. PICK u : u = net
  OBVIOUS
<1>4. PICK n : n = Len(dbuf)
  OBVIOUS
<1>5. v \in Seq(Chars) /\ n \in 0..Len(v) /\ SubSeq(v, 1, n) = dbuf /\ u = SubSeq(v, n + 1, Len(v))
  <2>1. /\ v \in Seq(Chars) /\ Len(dbuf) \in 0..Len(v)
        /\ SubSeq(v, 1, Len(dbuf)) = dbuf /\ SubSeq(v, Len(dbuf) + 1, Len(v)) = net
    <3>1. dbuf \in Seq(Chars) /\ net \in Seq(Chars)
      OBVIOUS
    <3> QED BY ONLY <1>2, <3>1, SplitBack
  <2> QED BY <1>3, <1>4, <2>1
<1>6. NetInv(v) /\ ReadLen(v) = 0
  <2>1. v = Stream(job) /\ Len(v) \in Nat
    BY <1>2, <1>5
  <2>2. ReadLen(v) = 0
    BY <2>1 DEF ReadLen
  <2>3. SubSeq(v, 0 + 1, Len(v)) = v
    BY <1>5
  <2> QED BY <2>1, <2>2, <2>3 DEF NetInv
<1>7. r.blk \in Blocks(Chars) /\ r.eod \in Nat /\ Received(job, ReadLen(u), r, <<>>, u)
  <2>1. /\ EmptyBlock \in Blocks(Chars) /\ Continues(job, ReadLen(v), EmptyBlock, <<>>) /\ EmptyBlock.gotEoD = FALSE
        /\ EmptyBlock.eodcharbuf = <<>>
    BY <1>6, StartContinues DEF EmptyBlock
  <2>2. [EmptyBlock EXCEPT !.eodcharbuf = <<>>] = EmptyBlock
    BY DEF EmptyBlock
  <2>3. EmptyBlock.eodcharbuf \o SubSeq(v, 1, n) = dbuf
    BY <1>5, <2>1
  <2>4. r = GetEoD([EmptyBlock EXCEPT !.eodcharbuf = <<>>], EmptyBlock.eodcharbuf \o SubSeq(v, 1, n))
    BY <2>2, <2>3
  <2> QED BY <1>5, <1>6, <2>1, <2>4, ReceivedNext
<1>8. NetInv(u) /\ u \in Seq(Chars)
  BY <1>5, <1>6, NetStep
<1>9. FreshGiven(u)'
  <2>1. NetInv(u)' /\ ReadLen(u)' = ReadLen(u)
    BY <1>8, NetSame DEF ReadLen
  <2>2. Received(job, ReadLen(u), [blk |-> m_input', eod |-> m_eoD'], <<>>, u)
    <3>1. r.blk = [blk |-> m_input', eod |-> m_eoD'].blk /\ r.eod = [blk |-> m_input', eod |-> m_eoD'].eod
      BY <1>1
    <3> QED BY <1>7, <3>1 DEF Received
  <2>3. Received(job, ReadLen(u), [blk |-> m_input, eod |-> m_eoD], <<>>, u)'
    BY <2>1, <2>2
  <2> QED BY <1>1, <1>7, <1>8, <2>1, <2>3 DEF FreshGiven
<1>10. PhaseInv("none", <<>>, u)'
  BY <1>9, FreshGivenNext
<1>11. u = net'
  BY <1>3
<1> QED BY <1>1, <1>10, <1>11

LEMMA DoctypeRefusedInv ==
    ASSUME DialogueInv, DoctypeRefused
    PROVE  DialogueInv'
<1>1. PICK r : r = GetEoD(EmptyBlock, dbuf)
  OBVIOUS
<1>2. EndDetection("endErrDocumentType", "redirect") /\ HandlerCreated("none", TRUE, OutSize, r.blk, r.eod, TRUE)
  BY <1>1 DEF DoctypeRefused
<1>3. "endErrDocumentType" \in Endings /\ "redirect" \in {"prefetch", "redirect"}
  BY DEF Endings
<1>4. /\ MainType' /\ Control'
      /\ m_resultstr' = <<"ANSWER">> /\ op' = "none" /\ caller' = "redirect" /\ m_cmdstateidx' = "ProcessOutput"
      /\ UNCHANGED <<job, net, dbuf>> /\ taken' = <<>> /\ told' = FALSE /\ given' = 0
  BY <1>2, <1>3, EndDetectionIs
<1>5. PICK i \in 0..sent : /\ MainType /\ Progress(i) /\ Progress(i)' /\ i \in 0..sent'
                           /\ Detecting(i) /\ Asking(i)' /\ Returned(m_stateidx)' /\ ~m_refuseInputFlag'
                           /\ (wire = Replied(i))'
  BY <1>2, <1>3, EndDetectionIs
<1>6. job \in Exchange /\ dbuf \o net = Stream(job) /\ dbuf \in Seq(Chars) /\ net \in Seq(Chars)
  BY <1>5, AskingType DEF Detecting, MainType
<1>7. PhaseInv(op, <<>>, net)' /\ outsize' = OutSize
  BY <1>1, <1>2, <1>4, <1>6, GivenAtOnce
<1>8. Redirecting(i)'
  <2>1. <<>> \in Seq(Chars) /\ <<"ANSWER">> \o <<>> = <<"ANSWER">>
    OBVIOUS
  <2> QED BY <1>4, <1>5, <1>7, <2>1 DEF Redirecting
<1>9. Mode(i)'
  BY <1>4, <1>8 DEF Mode
<1> QED BY <1>4, <1>5, <1>9 DEF DialogueInv

\* What is known when the data handler is called.
LEMMA CallFacts ==
    ASSUME DialogueInv, caller # "none"
    PROVE  /\ MainType /\ Control /\ m_output = <<>> /\ ending \in Endings
           /\ wire \in Seq(Tokens) /\ net \in Seq(Chars)
           /\ \E i \in 0..sent : /\ Progress(i)
                                 /\ caller = "prefetch" => Prefetching(i)
                                 /\ caller = "redirect" => Redirecting(i)
                                 /\ caller = "delegate" => Delegated(i)
<1>1. MainType /\ Control
  BY DEF DialogueInv
<1>2. PICK i \in 0..sent : Progress(i) /\ Mode(i)
  BY DEF DialogueInv
<1>3. m_output = <<>>
  BY <1>1 DEF Control
<1>4. ending \in Endings
  BY <1>1 DEF MainType, Control
<1> QED BY <1>1, <1>2, <1>3, <1>4 DEF MainType, Mode

LEMMA RedirectInv ==
    ASSUME DialogueInv, Redirect
    PROVE  DialogueInv'
<1>1. caller = "prefetch" /\ op = "READ"
  BY DEF Redirect
<1>2. /\ MainType /\ Control /\ m_output = <<>> /\ ending \in Endings
      /\ wire \in Seq(Tokens) /\ net \in Seq(Chars) /\ dbuf \in Seq(Chars)
  BY <1>1, CallFacts DEF MainType
<1>3. PICK i \in 0..sent : Progress(i) /\ Prefetching(i)
  BY <1>1, CallFacts
<1>4. /\ UNCHANGED <<script, sent, served, m_cmdstateidx, m_stateidx, m_buffer, m_cmd, m_output, m_resultstr, m_resultstate>>
      /\ UNCHANGED <<inp, m_refuseInputFlag, m_delegateHandler, dbuf, ending, job, net, wire>>
      /\ UNCHANGED <<m_state, m_esc_stm, m_writedata, given, lastError, cmdh>>
      /\ PutInput(m_input, dbuf) /\ outsize' = OutSize /\ caller' = "redirect" /\ op' = "none"
  BY DEF Redirect, clientVars, lineVars, netVars
<1>5. \A k : /\ Stands(k)' = Stands(k) /\ Replied(k)' = Replied(k)
             /\ (IsJob(k)' <=> IsJob(k)) /\ (Progress(k)' <=> Progress(k))
  BY <1>4, ClientSame
<1>6. MainType'
  BY <1>2, <1>4 DEF MainType
<1>7. Control'
  BY <1>1, <1>2, <1>4 DEF Control
<1>8. PICK v : v = dbuf \o net
  OBVIOUS
<1>9. PICK u : u = net
  OBVIOUS
<1>10. PICK n : n = Len(dbuf)
  OBVIOUS
<1>11. v \in Seq(Chars) /\ n \in 0..Len(v) /\ SubSeq(v, 1, n) = dbuf /\ u = SubSeq(v, n + 1, Len(v))
  <2>1. dbuf \in Seq(Chars) /\ net \in Seq(Chars)
    BY <1>2
  <2>2. /\ v \in Seq(Chars) /\ Len(dbuf) \in 0..Len(v)
        /\ SubSeq(v, 1, Len(dbuf)) = dbuf /\ SubSeq(v, Len(dbuf) + 1, Len(v)) = net
    BY <1>8, <2>1, SplitBack
  <2> QED BY <1>9, <1>10, <2>2
<1>12. PhaseInv("READ", <<>>, v) /\ m_input = EmptyBlock
  BY <1>1, <1>3, <1>8 DEF Prefetching
<1>13. PhaseInv("none", <<>>, u)'
  <2>1. m_input.eodcharbuf = <<>> /\ [m_input EXCEPT !.eodcharbuf = <<>>] = m_input
    BY <1>12 DEF EmptyBlock
  <2>2. m_input.eodcharbuf \o SubSeq(v, 1, n) = dbuf
    BY <1>2, <1>11, <2>1
  <2>3. PutInput([m_input EXCEPT !.eodcharbuf = <<>>], m_input.eodcharbuf \o SubSeq(v, 1, n))
    BY <1>4, <2>1, <2>2
  <2>4. "READ" \in {"START", "READ"} /\ (n = 0 => m_input.eodcharbuf = <<>>)
    BY <2>1
  <2>5. UNCHANGED <<job, m_state, m_esc_stm, m_writedata, given, cmdh>>
    BY <1>4
  <2> QED BY <1>11, <1>12, <2>3, <2>4, <2>5, PutNextInv
<1>14. Redirecting(i)'
  <2>1. Asking(i)'
    BY <1>3, <1>4, <1>5 DEF Prefetching, Asking
  <2>2. Returned(m_stateidx)' /\ ~m_refuseInputFlag' /\ (wire = Replied(i))' /\ m_resultstr' = <<"ANSWER">>
    BY <1>3, <1>4, <1>5 DEF Prefetching, Returned
  <2>3. PhaseInv(op, <<>>, net)'
    <3>1. u = net' /\ op' = "none"
      BY <1>4, <1>9
    <3> QED BY <1>13, <3>1
  <2>4. <<>> \in Seq(Chars) /\ <<"ANSWER">> \o <<>> = <<"ANSWER">>
    OBVIOUS
  <2> QED BY <1>4, <2>1, <2>2, <2>3, <2>4 DEF Redirecting
<1>15. Mode(i)'
  BY <1>4, <1>14 DEF Mode
<1> QED BY <1>3, <1>4, <1>5, <1>6, <1>7, <1>15 DEF DialogueInv

LEMMA PrefetchClosesInv ==
    ASSUME DialogueInv, PrefetchCloses
    PROVE  DialogueInv'
<1>1. caller = "prefetch" /\ op = "CLOSE"
  BY DEF PrefetchCloses
<1>2. /\ MainType /\ Control /\ m_output = <<>> /\ ending \in Endings
      /\ wire \in Seq(Tokens) /\ net \in Seq(Chars) /\ dbuf \in Seq(Chars)
  BY <1>1, CallFacts DEF MainType
<1>3. PICK i \in 0..sent : Progress(i) /\ Prefetching(i)
  BY <1>1, CallFacts
<1>4. PICK r : r = GetEoD(EmptyBlock, dbuf)
  OBVIOUS
<1>5. /\ UNCHANGED <<script, sent, served, m_cmdstateidx, m_stateidx, m_buffer, m_cmd, m_output, m_resultstr, m_resultstate>>
      /\ UNCHANGED <<inp, m_refuseInputFlag, m_delegateHandler, dbuf, ending, job, net, wire>>
      /\ HandlerCreated("none", FALSE, OutSize, r.blk, r.eod, TRUE) /\ caller' = "redirect" /\ op' = "none"
      /\ taken' = <<>> /\ told' = FALSE /\ given' = 0
  BY <1>4 DEF PrefetchCloses, clientVars, lineVars, netVars
<1>6. \A k : /\ Stands(k)' = Stands(k) /\ Replied(k)' = Replied(k)
             /\ (IsJob(k)' <=> IsJob(k)) /\ (Progress(k)' <=> Progress(k))
  BY <1>5, ClientSame
<1>7. MainType'
  BY <1>2, <1>5 DEF MainType
<1>8. Control'
  BY <1>1, <1>2, <1>5 DEF Control
<1>9. job \in Exchange /\ dbuf \o net = Stream(job)
  BY <1>2, <1>3, AskingType DEF Prefetching
<1>10. PhaseInv(op, <<>>, net)' /\ outsize' = OutSize
  BY <1>2, <1>4, <1>5, <1>9, GivenAtOnce
<1>11. Redirecting(i)'
  <2>1. Asking(i)'
    BY <1>3, <1>5, <1>6 DEF Prefetching, Asking
  <2>2. Returned(m_stateidx)' /\ ~m_refuseInputFlag' /\ (wire = Replied(i))' /\ m_resultstr' = <<"ANSWER">>
    BY <1>3, <1>5, <1>6 DEF Prefetching, Returned
  <2>3. <<>> \in Seq(Chars) /\ <<"ANSWER">> \o <<>> = <<"ANSWER">>
    OBVIOUS
  <2> QED BY <1>10, <2>1, <2>2, <2>3 DEF Redirecting
<1>12. Mode(i)'
  BY <1>5, <1>11 DEF Mode
<1> QED BY <1>3, <1>5, <1>6, <1>7, <1>8, <1>12 DEF DialogueInv

LEMMA RedirectWritesInv ==
    ASSUME DialogueInv, RedirectWrites
    PROVE  DialogueInv'
<1>1. caller = "redirect" /\ op = "WRITE"
  BY DEF RedirectWrites
<1>2. /\ MainType /\ Control /\ m_output = <<>> /\ ending \in Endings
      /\ wire \in Seq(Tokens) /\ net \in Seq(Chars)
  BY <1>1, CallFacts
<1>3. PICK i \in 0..sent : Progress(i) /\ Redirecting(i)
  BY <1>1, CallFacts
<1>4. /\ UNCHANGED <<script, sent, served, m_cmdstateidx, m_stateidx, m_buffer, m_cmd, m_output, m_resultstate>>
      /\ UNCHANGED <<inp, m_refuseInputFlag, m_delegateHandler, dbuf, ending, caller, job, net, wire>>
      /\ UNCHANGED <<m_state, inputVars, m_esc_stm, outsize, given, lastError, cmdh>>
      /\ m_resultstr' = m_resultstr \o m_writedata /\ m_writedata' = <<>> /\ op' = "none"
  BY DEF RedirectWrites, clientVars, delegateVars, netVars
<1>5. \A k : /\ Stands(k)' = Stands(k) /\ Replied(k)' = Replied(k)
             /\ (IsJob(k)' <=> IsJob(k)) /\ (Progress(k)' <=> Progress(k))
  BY <1>4, ClientSame
<1>6. PICK x \in Seq(Chars) : m_resultstr = <<"ANSWER">> \o x /\ PhaseInv("WRITE", x, net)
  BY <1>1, <1>3 DEF Redirecting
<1>7. PICK y : y = x \o m_writedata
  OBVIOUS
<1>8. m_writedata \in Seq(Chars) /\ y \in Seq(Chars)
  <2>1. m_writedata \in Seq(Chars)
    BY <1>6 DEF PhaseInv, PhaseType, OtherType
  <2> QED BY <1>7, <2>1
<1>9. m_resultstr' = <<"ANSWER">> \o y
  <2> HIDE DEF Tokens
  <2>1. Chars \subseteq Tokens /\ "ANSWER" \in Tokens
    BY DEF Tokens
  <2>2. /\ <<"ANSWER">> \in Seq(Tokens) /\ x \in Seq(Tokens) /\ m_writedata \in Seq(Tokens)
    BY <1>8, <2>1
  <2>3. \A a \in Seq(Tokens), b \in Seq(Tokens), c \in Seq(Tokens) : (a \o b) \o c = a \o (b \o c)
    BY Assoc
  <2>4. (<<"ANSWER">> \o x) \o m_writedata = <<"ANSWER">> \o (x \o m_writedata)
    BY <2>2, <2>3, Zenon
  <2> QED BY <1>4, <1>6, <1>7, <2>4
<1>10. PhaseInv("none", y, net)'
  <2>1. PICK u : u = net
    OBVIOUS
  <2>2. PhaseInv("none", y, u)'
    <3>1. UNCHANGED <<job, inputVars>> /\ UNCHANGED <<m_state, m_esc_stm, given, cmdh>>
      BY <1>4
    <3> QED BY <1>4, <1>6, <1>7, <2>1, <3>1, TakeOutputInv
  <2> QED BY <1>4, <2>1, <2>2
<1>11. MainType'
  <2>1. m_resultstr' \in Seq(Tokens)
    <3>1. Chars \subseteq Tokens
      BY DEF Tokens
    <3>2. m_resultstr \in Seq(Tokens) /\ m_writedata \in Seq(Tokens)
      BY <1>2, <1>8, <3>1 DEF MainType
    <3> QED BY <1>4, <3>2
  <2> QED BY <1>2, <1>4, <2>1 DEF MainType
<1>12. Control'
  BY <1>1, <1>2, <1>4 DEF Control
<1>13. Redirecting(i)'
  <2>1. Asking(i)'
    BY <1>3, <1>4, <1>5 DEF Redirecting, Asking
  <2>2. Returned(m_stateidx)' /\ ~m_refuseInputFlag' /\ (wire = Replied(i))' /\ outsize' = OutSize
    BY <1>1, <1>2, <1>3, <1>4, <1>5 DEF Redirecting, Returned, Control
  <2>3. PhaseInv(op, y, net)'
    BY <1>4, <1>10
  <2> QED BY <1>8, <1>9, <2>1, <2>2, <2>3 DEF Redirecting
<1>14. Mode(i)'
  BY <1>1, <1>4, <1>13 DEF Mode
<1> QED BY <1>3, <1>4, <1>5, <1>11, <1>12, <1>14 DEF DialogueInv

\* Three pieces of output, one behind the other.
Glued(x, y, z) == (x \o y) \o z = x \o (y \o z) /\ x \o y \in Seq(Tokens) /\ y \o z \in Seq(Tokens)

LEMMA AssocTokens ==
    ASSUME NEW x, NEW y, NEW z, x \in Seq(Tokens), y \in Seq(Tokens), z \in Seq(Tokens)
    PROVE  Glued(x, y, z)
  BY Assoc DEF Glued

\* The reply to a request, as it is put together.
AsReply(r, a, e, m, s) ==
    /\ r \o (((a \o e) \o m) \o s) = ((r \o a) \o (e \o m)) \o s
    /\ r \o ((a \o (e \o m)) \o s) = ((r \o a) \o (e \o m)) \o s
    /\ r \o (a \o e) = (r \o a) \o e

LEMMA JoinReply ==
    ASSUME NEW r, NEW a, NEW e, NEW m, NEW s, r \in Seq(Tokens), a \in Seq(Tokens), e \in Seq(Tokens),
           m \in Seq(Tokens), s \in Seq(Tokens)
    PROVE  AsReply(r, a, e, m, s)
<1>1. Glued(a, e, m) /\ Glued(r, a, e)
  BY AssocTokens
<1>2. e \o m \in Seq(Tokens)
  BY <1>1 DEF Glued
<1>3. Glued(r, a, e \o m)
  BY <1>2, AssocTokens
<1>4. a \o (e \o m) \in Seq(Tokens)
  BY <1>3 DEF Glued
<1>5. Glued(r, a \o (e \o m), s)
  BY <1>4, AssocTokens
<1> QED BY <1>1, <1>3, <1>5, Zenon DEF Glued, AsReply

\* What the data handler prints is typed.
LEMMA WholeType ==
    ASSUME job \in Exchange, given \in 0..Len(job.answer)
    PROVE  /\ Escaped(SubSeq(job.answer, 1, given)) \in Seq(Tokens) /\ Marker \in Seq(Tokens)
           /\ Whole \in Seq(Tokens) /\ Whole \in Seq(Chars) /\ <<"ANSWER">> \in Seq(Tokens)
<1>1. job.answer \in Seq(Chars) /\ {CR, LF, DOT} \subseteq Chars
  BY ExchangeType
<1>2. SubSeq(job.answer, 1, given) \in Seq(Chars)
  BY <1>1, FromIs
<1>3. Escaped(SubSeq(job.answer, 1, given)) \in Seq(Chars)
  BY <1>2, EscapedType
<1>4. Marker \in Seq(Chars)
  BY <1>1 DEF Marker
<1>5. Whole \in Seq(Chars)
  BY <1>3, <1>4 DEF Whole
<1>6. Chars \subseteq Tokens /\ "ANSWER" \in Tokens
  BY DEF Tokens
<1> HIDE DEF Tokens
<1>7. \A s : s \in Seq(Chars) => s \in Seq(Tokens)
  BY <1>6
<1>8. <<"ANSWER">> \in Seq(Tokens)
  BY <1>6
<1> QED BY <1>3, <1>4, <1>5, <1>7, <1>8

LEMMA StatusType ==
    ASSUME NEW end \in Endings, NEW error
    PROVE  /\ Status(end, error) \in Statuses /\ Status(end, error) \in Tokens
           /\ error => Status(end, error) = Status(end, TRUE)
  BY DEF Endings, Status, Statuses, Tokens

\* A request is answered: the messages dealt with are one more, and it is replied to.
LEMMA AnsweredNext ==
    ASSUME MainType, NEW i, Progress(i), Asking(i), Answered, UNCHANGED <<script, sent>>,
           given \in 0..Len(job.answer), ending \in Endings
    PROVE  /\ i + 1 \in 0..sent' /\ Progress(i + 1)'
           /\ Replied(i + 1)' = ((Replied(i) \o <<"ANSWER">>) \o Whole) \o <<Status(ending, lastError)>>
           /\ Stands(i + 1)' = Stands(i) /\ ~Stands(i).skip
<1> DEFINE r == [given |-> given, lost |-> lost, status |-> Status(ending, lastError)]
           new == [k \in Requests |-> IF k \in DOMAIN served THEN served[k] ELSE r]
           m == script[i + 1]
<1>1. /\ script \in Scripts /\ script \in Seq(Message) /\ Len(script) \in Nat
      /\ sent \in Nat /\ i \in Nat /\ i <= sent /\ sent <= Len(script) /\ Results(script, served)
  BY ProgressFacts DEF MainType
<1>2. /\ i < sent /\ IsJob(i + 1) /\ m.job.answer = job.answer
      /\ i + 1 \in 0..sent /\ i + 1 \in 0..Len(script) /\ i + 1 \in 1..Len(script)
      /\ m \in Message /\ Proper(Stands(i), m) /\ Stands(i) \in Standings /\ Stands(i + 1) = After(Stands(i), LineOf(i))
      /\ m.line = LineOf(i) /\ i \in 0..Len(script)
  <2>1. i < sent /\ IsJob(i + 1) /\ job = [request |-> m.job.request, answer |-> m.job.answer, rest |-> BytesOf(script, i + 1, sent)]
    BY DEF Asking
  <2>2. i \in 0..Len(script)
    BY <1>1
  <2> QED BY <2>1, <2>2, NextMessage DEF LineOf
<1>3. r.given = given /\ r.status = Status(ending, lastError) /\ Status(ending, lastError) \in Statuses
  BY StatusType
<1> HIDE DEF r
<1>4. DOMAIN served = {k \in 1..i : IsJob(k)}
  BY DEF Progress
<1>5. Requests = {k \in 1..(i + 1) : IsJob(k)}
  <2>1. ASSUME NEW k, k \in 1..sent, IsJob(k) PROVE k \in 1..(i + 1)
    <3> SUFFICES ASSUME ~(k \in 1..(i + 1)) PROVE FALSE
      OBVIOUS
    <3>1. k \in (i + 1)..sent /\ i + 1 \in (i + 1)..sent /\ k # i + 1
      BY <1>1, <1>2, <2>1
    <3> QED BY <1>2, <2>1, <3>1 DEF Progress
  <2>2. \A k : k \in 1..(i + 1) => k \in 1..sent
    BY <1>1, <1>2
  <2> QED BY <2>1, <2>2 DEF Requests, IsJob
<1>6. DOMAIN new = {k \in 1..(i + 1) : IsJob(k)}
  BY <1>5
<1>7. i + 1 \in DOMAIN new /\ i + 1 \notin DOMAIN served
  <2>1. i + 1 \in 1..(i + 1) /\ ~(i + 1 \in 1..i)
    BY <1>1
  <2> QED BY <1>2, <1>4, <1>6, <2>1
<1>8. new[i + 1] = r
  BY <1>6, <1>7, <1>5
<1>9. \A k \in 1..i : /\ IsJob(k) => (k \in DOMAIN served <=> k \in DOMAIN new)
                      /\ k \in DOMAIN served => new[k] = served[k]
  <2> SUFFICES ASSUME NEW k \in 1..i
               PROVE  /\ IsJob(k) => (k \in DOMAIN served <=> k \in DOMAIN new)
                      /\ k \in DOMAIN served => new[k] = served[k]
    OBVIOUS
  <2>1. k \in 1..(i + 1)
    BY <1>1
  <2>2. k \in DOMAIN served => k \in DOMAIN new
    BY <1>4, <1>6, <2>1
  <2> QED BY <1>4, <1>5, <1>6, <2>1, <2>2
<1>10. \A k \in DOMAIN new : k \in DOMAIN served \/ k = i + 1
  <2> SUFFICES ASSUME NEW k \in DOMAIN new, k # i + 1 PROVE k \in DOMAIN served
    OBVIOUS
  <2>1. k \in 1..(i + 1) /\ IsJob(k)
    BY <1>6
  <2>2. k \in 1..i
    BY <1>1, <2>1
  <2> QED BY <1>4, <2>1, <2>2
<1>11. \A k \in DOMAIN new : new[k].given \in 0..Len(script[k].job.answer) /\ new[k].status \in Statuses
  <2> SUFFICES ASSUME NEW k \in DOMAIN new
               PROVE  new[k].given \in 0..Len(script[k].job.answer) /\ new[k].status \in Statuses
    OBVIOUS
  <2>1. CASE k \in DOMAIN served
    <3>1. new[k] = served[k]
      BY <1>6, <2>1, <1>5
    <3>2. served[k].given \in 0..Len(script[k].job.answer) /\ served[k].status \in Statuses
      BY <2>1 DEF Progress
    <3> QED BY <3>1, <3>2
  <2>2. CASE k = i + 1
    BY <1>2, <1>3, <1>8, <2>2
  <2> QED BY <1>10, <2>1, <2>2
<1>12. served' = new
  BY DEF Answered, r
<1> HIDE DEF new
<1>13. Results(script, new)
  <2> SUFFICES ASSUME NEW k \in 1..Len(script), k \in DOMAIN new PROVE ServedAs(script[k], new[k])
    BY DEF Results
  <2> QED BY <1>11 DEF ServedAs
<1>14. (\A k : IsJob(k)' <=> IsJob(k)) /\ Stands(i)' = Stands(i) /\ Stands(i + 1)' = Stands(i + 1)
  BY DEF IsJob, Stands
<1>15. i + 1 \in 0..sent' /\ Progress(i + 1)'
  <2>1. \A k, l \in ((i + 1) + 1)..sent : IsJob(k) /\ IsJob(l) => k = l
    <3>1. \A k \in ((i + 1) + 1)..sent : k \in (i + 1)..sent
      BY <1>1
    <3> QED BY <3>1 DEF Progress
  <2>2. (DOMAIN served)' = {k \in 1..(i + 1) : IsJob(k)'}
    BY <1>6, <1>12, <1>14
  <2>3. \A k \in (DOMAIN served)' : /\ served'[k].given \in 0..Len(script'[k].job.answer)
                                    /\ served'[k].status \in Statuses
    BY <1>11, <1>12
  <2> QED BY <1>2, <1>14, <2>1, <2>2, <2>3 DEF Progress
<1>16. /\ ~Stands(i).skip /\ After(Stands(i), m.line) = Stands(i)
       /\ ReplyPrinted(Stands(i), m, r) = <<"ANSWER">> \o Escaped(SubSeq(job.answer, 1, given)) \o Marker \o <<Status(ending, lastError)>>
  <2>1. m.job # NoJob
    BY <1>2 DEF IsJob
  <2>2. /\ ~Stands(i).skip /\ After(Stands(i), m.line) = Stands(i)
        /\ ReplyPrinted(Stands(i), m, r) = <<"ANSWER">> \o Escaped(SubSeq(m.job.answer, 1, r.given)) \o Marker \o <<r.status>>
    BY <1>2, <2>1, RequestLine
  <2> QED BY <1>2, <1>3, <2>2
<1>17. RepliesTo(script, new)[i + 1] = Replied(i) \o ReplyPrinted(Stands(i), m, r)
  <2>1. RepliesTo(script, new)[i] = RepliesTo(script, served)[i]
    <3>1. \A k \in 1..i : script[k].job # NoJob => (k \in DOMAIN served <=> k \in DOMAIN new) /\ new[k] = served[k]
      BY <1>4, <1>9 DEF IsJob
    <3> QED BY <1>1, <1>2, <1>13, <3>1, RepliesSame
  <2>2. RepliesTo(script, new)[i + 1] = RepliesTo(script, new)[(i + 1) - 1] \o ReplyPrinted(Standing(script)[(i + 1) - 1], m, new[i + 1])
    BY <1>1, <1>2, <1>7, <1>13, RepliesToDef
  <2>3. (i + 1) - 1 = i
    BY <1>1
  <2> QED BY <1>8, <2>1, <2>2, <2>3 DEF Replied, Stands
<1>18. Replied(i + 1)' = RepliesTo(script, new)[i + 1]
  BY <1>12 DEF Replied
<1>19. Replied(i) \o (((<<"ANSWER">> \o Escaped(SubSeq(job.answer, 1, given))) \o Marker) \o <<Status(ending, lastError)>>)
         = ((Replied(i) \o <<"ANSWER">>) \o Whole) \o <<Status(ending, lastError)>>
  <2>1. job \in Exchange
    BY AskingType
  <2>2. <<Status(ending, lastError)>> \in Seq(Tokens)
    BY StatusType, OneToken
  <2>3. Replied(i) \in Seq(Tokens)
    BY <1>2, StandsFacts
  <2>4. /\ Escaped(SubSeq(job.answer, 1, given)) \in Seq(Tokens) /\ Marker \in Seq(Tokens) /\ <<"ANSWER">> \in Seq(Tokens)
    BY <2>1, WholeType
  <2>5. AsReply(Replied(i), <<"ANSWER">>, Escaped(SubSeq(job.answer, 1, given)), Marker, <<Status(ending, lastError)>>)
    BY <2>2, <2>3, <2>4, JoinReply
  <2> QED BY <2>5, Zenon DEF Whole, AsReply
<1> QED BY <1>2, <1>14, <1>15, <1>16, <1>17, <1>18, <1>19

\* ... and its reply is printed.
LEMMA PrintsAnswer ==
    ASSUME MainType, NEW i, Progress(i), Asking(i), Answered, UNCHANGED <<script, sent, m_stateidx>>,
           given \in 0..Len(job.answer), ending \in Endings, inp' \o net' = job.rest,
           m_cmdstateidx' = "ProcessOutput", m_resultstate' = m_stateidx,
           wire' \o m_output' \o m_resultstr' = ((Replied(i) \o <<"ANSWER">>) \o Whole) \o <<Status(ending, lastError)>>
    PROVE  i + 1 \in 0..sent' /\ Progress(i + 1)' /\ Printing(i + 1)'
<1>1. /\ i + 1 \in 0..sent' /\ Progress(i + 1)'
      /\ Replied(i + 1)' = ((Replied(i) \o <<"ANSWER">>) \o Whole) \o <<Status(ending, lastError)>>
      /\ Stands(i + 1)' = Stands(i) /\ ~Stands(i).skip
  BY AnsweredNext
<1>2. i + 1 \in 0..sent /\ m_stateidx = Stands(i).st /\ job.rest = BytesOf(script, i + 1, sent)
  BY <1>1 DEF Asking
<1>3. /\ Unread(i + 1, 0) = BytesOf(script, i + 1, sent)
      /\ IF i + 1 = sent THEN 0 = 0 ELSE 0 < Len(LineOf(i + 1))
  BY <1>2, UnreadAll
<1>4. Unread(i + 1, 0)' = Unread(i + 1, 0) /\ LineOf(i + 1)' = LineOf(i + 1) /\ sent' = sent
  <2>1. Behind(script, i + 1, sent)' = Behind(script, i + 1, sent) /\ LineOf(i + 1)' = LineOf(i + 1)
    BY DEF LineOf, Behind, BytesOf, BytesTo, Data
  <2> QED BY <2>1 DEF Unread
<1>5. AtLine(i + 1, 0)'
  BY <1>2, <1>3, <1>4 DEF AtLine
<1>6. Returned(Stands(i + 1).st)'
  BY <1>1, <1>2 DEF Returned
<1> QED BY <1>1, <1>5, <1>6 DEF Printing

LEMMA AppendJoins ==
    ASSUME NEW C, NEW s, NEW e, s \in Seq(C), e \in C
    PROVE  Append(s, e) = s \o <<e>> /\ Append(s, e) \in Seq(C)
  OBVIOUS

\* A token is printed behind s.
LEMMA PrintsToken ==
    ASSUME NEW s, NEW e, s \in Seq(Tokens), e \in Tokens
    PROVE  Append(s, e) = s \o <<e>> /\ Append(s, e) \in Seq(Tokens)
  BY AppendJoins

\* The data handler has closed: what it has printed and what it leaves.
LEMMA ClosedFacts ==
    ASSUME NEW x, NEW u, PhaseInv("CLOSE", x, u)
    PROVE  /\ m_state = "Terminated" /\ InputType /\ job \in Exchange /\ given \in 0..Len(job.answer)
           /\ DataLeft \in Seq(Chars) /\ DataLeft \o u = job.rest /\ x = Whole
<1>1. OpInv("CLOSE", u) /\ InputInv(u) /\ InputType /\ OtherType("CLOSE", x, u)
  BY DEF PhaseInv, PhaseType
<1>2. m_state = "Terminated" /\ m_gotEoD /\ m_writedata = <<>>
  BY <1>1 DEF OpInv
<1>3. DataLeft \in Seq(Chars) /\ DataLeft \o u = job.rest
  BY <1>1, <1>2 DEF InputInv, Leaves, DataLeft
<1>4. PICK whole : whole = Escaped(SubSeq(job.answer, 1, given))
  OBVIOUS
<1>5. PICK printed : printed = x \o m_writedata
  OBVIOUS
<1>6. printed = whole \o Marker
  BY <1>2, <1>4, <1>5, PhasePrints
<1>7. printed = x
  BY <1>1, <1>2, <1>5 DEF OtherType
<1> QED BY <1>1, <1>2, <1>3, <1>4, <1>6, <1>7 DEF OtherType, Whole

LEMMA RedirectReadsInv ==
    ASSUME DialogueInv, RedirectReads
    PROVE  DialogueInv'
<1>1. caller = "redirect" /\ op = "READ"
  BY DEF RedirectReads
<1>2. /\ MainType /\ Control /\ m_output = <<>> /\ ending \in Endings
      /\ wire \in Seq(Tokens) /\ net \in Seq(Chars) /\ m_cmdstateidx = "ProcessOutput"
  BY <1>1, CallFacts DEF Control
<1>3. PICK i \in 0..sent : Progress(i) /\ Redirecting(i)
  BY <1>1, CallFacts
<1>4. /\ UNCHANGED <<script, sent, served, m_cmdstateidx, m_stateidx, m_buffer, m_cmd, m_output, m_resultstr, m_resultstate>>
      /\ UNCHANGED <<m_refuseInputFlag, dbuf, ending, job, net, wire>>
      /\ UNCHANGED <<m_state, m_input, m_eoD, m_unconsumedInput, m_gotEoD, taken, told, m_esc_stm, m_writedata, given, cmdh>>
      /\ m_delegateHandler' = ending /\ m_nextmsg' = 0 /\ inp' = <<>> /\ caller' = "none" /\ op' = "none"
  BY DEF RedirectReads, clientVars, lineVars, netVars, outputVars
<1>5. \A k : /\ Stands(k)' = Stands(k) /\ Replied(k)' = Replied(k)
             /\ (IsJob(k)' <=> IsJob(k)) /\ (Progress(k)' <=> Progress(k))
  BY <1>4, ClientSame
<1>6. MainType'
  <2>1. <<>> \in Seq(Chars)
    OBVIOUS
  <2> QED BY <1>2, <1>4, <2>1 DEF MainType
<1>7. Control'
  BY <1>2, <1>4 DEF Control, LineStates, Endings
<1>8. PICK x \in Seq(Chars) : m_resultstr = <<"ANSWER">> \o x /\ PhaseInv("READ", x, net)
  BY <1>1, <1>3 DEF Redirecting
<1>9. PICK u : u = net
  OBVIOUS
<1>10. /\ OtherType("READ", x, u) /\ InputType /\ NetInv(u) /\ OpInv("READ", u) /\ InputInv(u) /\ RequestExact /\ OutputInv(x)
  BY <1>8, <1>9 DEF PhaseInv, PhaseType
<1>11. m_state \in {"Processing", "DiscardInput"} /\ ~m_unconsumedInput /\ ~m_gotEoD /\ m_writedata = <<>>
  BY <1>10 DEF OpInv
<1>12. PhaseInv("none", x, u)'
  <2>1. OtherType("none", x, u)' /\ OpInv("none", u)'
    BY <1>4, <1>10, <1>11 DEF OtherType, OpInv
  <2>2. InputType' /\ RequestExact'
    BY <1>4, <1>10 DEF InputType, RequestExact
  <2>3. NetInv(u)' /\ ReadLen(u)' = ReadLen(u)
    BY <1>4, <1>10, NetSame DEF ReadLen
  <2>4. OutputInv(x)'
    <3>1. m_state' # "FlushingOutput" => m_esc_stm.blk = <<>>
      BY <1>4, <1>10 DEF OutputInv
    <3> QED BY <1>4, <1>10, <3>1, OutputSame
  <2>5. InputInv(u)'
    BY <1>4, <1>10, <1>11, <2>3 DEF InputInv, Handing
  <2> QED BY <2>1, <2>2, <2>3, <2>4, <2>5 DEF PhaseInv, PhaseType
<1>13. (wire \o m_output \o m_resultstr)' = (Replied(i) \o <<"ANSWER">>) \o x
  <2>1. wire = Replied(i) /\ wire \o m_output = wire
    BY <1>2, <1>3 DEF Redirecting
  <2>2. Glued(wire, <<"ANSWER">>, x)
    <3>1. Chars \subseteq Tokens /\ "ANSWER" \in Tokens
      BY DEF Tokens
    <3>2. <<"ANSWER">> \in Seq(Tokens) /\ x \in Seq(Tokens)
      <4> HIDE DEF Tokens
      <4> QED BY <1>8, <3>1
    <3> QED BY <1>2, <3>2, AssocTokens
  <2>3. (wire \o <<"ANSWER">>) \o x = wire \o m_resultstr
    BY <1>8, <2>2 DEF Glued
  <2> QED BY <1>4, <2>1, <2>3, Zenon
<1>14. Holding(i)'
  <2>1. Asking(i)'
    BY <1>3, <1>4, <1>5 DEF Redirecting, Asking
  <2>2. Returned(m_stateidx)' /\ ~m_refuseInputFlag'
    BY <1>2, <1>3, <1>4 DEF Redirecting, Returned
  <2>3. PhaseInv("none", x, net)'
    BY <1>4, <1>9, <1>12
  <2>4. (wire \o m_output \o m_resultstr = Replied(i) \o <<"ANSWER">> \o x)'
    BY <1>5, <1>13
  <2> QED BY <1>4, <1>8, <1>11, <2>1, <2>2, <2>3, <2>4 DEF Holding
<1>15. Mode(i)'
  BY <1>2, <1>4, <1>14 DEF Mode, Endings
<1> QED BY <1>3, <1>4, <1>5, <1>6, <1>7, <1>15 DEF DialogueInv

LEMMA RedirectClosesInv ==
    ASSUME DialogueInv, RedirectCloses
    PROVE  DialogueInv'
<1>1. caller = "redirect" /\ op = "CLOSE"
  BY DEF RedirectCloses
<1>2. /\ MainType /\ Control /\ m_output = <<>> /\ ending \in Endings
      /\ wire \in Seq(Tokens) /\ net \in Seq(Chars) /\ m_cmdstateidx = "ProcessOutput" /\ m_delegateHandler = "none"
  BY <1>1, CallFacts DEF Control
<1>3. PICK i \in 0..sent : Progress(i) /\ Redirecting(i)
  BY <1>1, CallFacts
<1>4. /\ UNCHANGED <<script, sent, m_cmdstateidx, m_stateidx, m_buffer, m_cmd, m_output, m_resultstate>>
      /\ UNCHANGED <<dbuf, ending, job, net, wire>>
      /\ UNCHANGED <<m_state, inputVars, m_esc_stm, m_writedata, given, lastError, cmdh>>
      /\ inp' = DataLeft /\ m_refuseInputFlag' = (DataLeft # <<>>) /\ caller' = "none" /\ op' = "none"
      /\ lastError => m_resultstr' = Append(m_resultstr, Status(ending, TRUE)) /\ Answered /\ m_delegateHandler' = m_delegateHandler
      /\ ~lastError => m_delegateHandler' = ending /\ m_resultstr' = m_resultstr /\ served' = served
  BY DEF RedirectCloses, clientVars, netVars, handlerVars, outputVars
<1>5. PICK x \in Seq(Chars) : m_resultstr = <<"ANSWER">> \o x /\ PhaseInv("CLOSE", x, net)
  BY <1>1, <1>3 DEF Redirecting
<1>6. /\ m_state = "Terminated" /\ InputType /\ job \in Exchange /\ given \in 0..Len(job.answer)
      /\ DataLeft \in Seq(Chars) /\ DataLeft \o net = job.rest /\ x = Whole
  BY <1>5, ClosedFacts
<1>7. Asking(i) /\ m_resultstate = m_stateidx /\ wire = Replied(i) /\ wire \o m_output = wire
  BY <1>2, <1>3 DEF Redirecting, Returned
<1>8. /\ Escaped(SubSeq(job.answer, 1, given)) \in Seq(Tokens) /\ Marker \in Seq(Tokens)
      /\ Whole \in Seq(Tokens) /\ <<"ANSWER">> \in Seq(Tokens)
  BY <1>6, WholeType
<1>9. m_resultstr = <<"ANSWER">> \o Whole
  BY <1>5, <1>6
<1>10. inp' \o net' = job.rest
  BY <1>4, <1>6
<1>11. CASE lastError
  <2>1. PICK z : z = Status(ending, lastError)
    OBVIOUS
  <2>2. z = Status(ending, TRUE) /\ z \in Tokens
    BY <1>2, <1>11, <2>1, StatusType
  <2>3. <<z>> \in Seq(Tokens)
    BY <2>2, OneToken
  <2>4. m_resultstr' = (<<"ANSWER">> \o Whole) \o <<z>> /\ m_resultstr' \in Seq(Tokens)
    <3>1. m_resultstr \in Seq(Tokens)
      BY <1>2 DEF MainType
    <3>2. z \in Tokens
      BY <2>2
    <3>3. Append(m_resultstr, z) = m_resultstr \o <<z>> /\ Append(m_resultstr, z) \in Seq(Tokens)
      BY <3>1, <3>2, PrintsToken
    <3> QED BY <1>4, <1>9, <1>11, <2>2, <3>3
  <2>5. AsReply(Replied(i), <<"ANSWER">>, Escaped(SubSeq(job.answer, 1, given)), Marker, <<z>>)
    BY <1>2, <1>7, <1>8, <2>3, JoinReply
  <2>6. Replied(i) \o ((<<"ANSWER">> \o Whole) \o <<z>>) = ((Replied(i) \o <<"ANSWER">>) \o Whole) \o <<z>>
    BY <2>5, Zenon DEF AsReply, Whole
  <2>7. wire' \o m_output' \o m_resultstr' = ((Replied(i) \o <<"ANSWER">>) \o Whole) \o <<Status(ending, lastError)>>
    BY <1>4, <1>7, <2>1, <2>4, <2>6, Zenon
  <2>8. i + 1 \in 0..sent' /\ Progress(i + 1)' /\ Printing(i + 1)'
    <3>1. UNCHANGED <<script, sent, m_stateidx>> /\ m_cmdstateidx' = "ProcessOutput" /\ m_resultstate' = m_stateidx /\ Answered
      BY <1>2, <1>4, <1>7, <1>11
    <3> QED BY <1>2, <1>3, <1>6, <1>7, <1>10, <2>7, <3>1, PrintsAnswer
  <2>9. m_delegateHandler' = "none"
    BY <1>2, <1>4, <1>11
  <2>10. Mode(i + 1)'
    BY <1>2, <1>4, <2>8, <2>9 DEF Mode, Endings
  <2>11. MainType'
    BY <1>2, <1>4, <1>6, <2>4, <2>9 DEF MainType
  <2>12. Control'
    BY <1>2, <1>4, <1>6, <2>9 DEF Control, LineStates, Endings
  <2> QED BY <2>8, <2>10, <2>11, <2>12 DEF DialogueInv
<1>12. CASE ~lastError
  <2>1. m_delegateHandler' = ending /\ m_resultstr' = m_resultstr /\ served' = served
    BY <1>4, <1>12
  <2>2. \A k : /\ Stands(k)' = Stands(k) /\ Replied(k)' = Replied(k)
               /\ (IsJob(k)' <=> IsJob(k)) /\ (Progress(k)' <=> Progress(k))
    BY <1>4, <2>1, ClientSame
  <2>3. Glued(wire, <<"ANSWER">>, Whole)
    BY <1>2, <1>8, AssocTokens
  <2>4. wire' \o m_output' \o m_resultstr' = (Replied(i) \o <<"ANSWER">>) \o Whole
    <3>1. (wire \o <<"ANSWER">>) \o Whole = wire \o m_resultstr
      BY <1>9, <2>3 DEF Glued
    <3> QED BY <1>4, <1>7, <2>1, <3>1, Zenon
  <2>5. (Whole)' = Whole /\ InputType'
    BY <1>4, <1>6 DEF Whole, InputType, inputVars
  <2>6. Asking(i)' /\ Returned(m_stateidx)'
    BY <1>2, <1>4, <1>7, <2>2 DEF Asking, Returned
  <2>7. (wire \o m_output \o m_resultstr = Replied(i) \o <<"ANSWER">> \o Whole)'
    BY <2>2, <2>4, <2>5
  <2>8. Holding(i)'
    BY <1>4, <1>6, <1>10, <2>5, <2>6, <2>7 DEF Holding
  <2>9. Mode(i)'
    BY <1>2, <1>4, <2>1, <2>8 DEF Mode, Endings
  <2>10. MainType'
    BY <1>2, <1>4, <1>6, <2>1 DEF MainType
  <2>11. Control'
    BY <1>2, <1>4, <2>1 DEF Control, LineStates, Endings
  <2> QED BY <1>3, <1>4, <2>2, <2>9, <2>10, <2>11 DEF DialogueInv
<1> QED BY <1>11, <1>12

LEMMA DelegateReceivesInv ==
    ASSUME DialogueInv, DelegateReceives
    PROVE  DialogueInv'
<1>1. caller = "delegate" /\ op = "READ"
  BY DEF DelegateReceives, Receive, DialogueInv, MainType
<1>2. /\ MainType /\ Control /\ m_output = <<>> /\ ending \in Endings
      /\ wire \in Seq(Tokens) /\ net \in Seq(Chars)
  BY <1>1, CallFacts
<1>3. PICK i \in 0..sent : Progress(i) /\ Delegated(i)
  BY <1>1, CallFacts
<1>4. PICK n \in 1..Len(net) :
         /\ PutInput([m_input EXCEPT !.eodcharbuf = <<>>], m_input.eodcharbuf \o SubSeq(net, 1, n))
         /\ net' = SubSeq(net, n + 1, Len(net))
  BY <1>1 DEF DelegateReceives, Receive
<1>5. /\ UNCHANGED <<script, sent, served, m_cmdstateidx, m_stateidx, m_buffer, m_cmd, m_output, m_resultstr, m_resultstate>>
      /\ UNCHANGED <<inp, m_refuseInputFlag, m_delegateHandler, caller, dbuf, ending, job, wire>>
      /\ UNCHANGED <<m_state, m_esc_stm, m_writedata, given, cmdh>> /\ UNCHANGED outsize /\ op' = "none"
  BY DEF DelegateReceives, Receive, mainVars, clientVars, lineVars, delegateVars, outputVars
<1>6. \A k : /\ Stands(k)' = Stands(k) /\ Replied(k)' = Replied(k)
             /\ (IsJob(k)' <=> IsJob(k)) /\ (Progress(k)' <=> Progress(k))
  BY <1>5, ClientSame
<1>7. Asking(i) /\ ~m_refuseInputFlag /\ outsize = OutSize
  BY <1>1, <1>3 DEF Delegated
<1>8. PICK x \in Seq(Chars) : PhaseInv("READ", x, net) /\ wire = Replied(i) \o <<"ANSWER">> \o x
  BY <1>1, <1>3 DEF Delegated
<1>9. PICK v : v = net
  OBVIOUS
<1>10. PICK u : u = SubSeq(v, n + 1, Len(v))
  OBVIOUS
<1>11. PhaseInv("none", x, u)'
  <2>1. "READ" \in {"START", "READ"} /\ n \in 0..Len(v) /\ (n = 0 => m_input.eodcharbuf = <<>>)
    BY <1>2, <1>4, <1>9
  <2>2. PutInput([m_input EXCEPT !.eodcharbuf = <<>>], m_input.eodcharbuf \o SubSeq(v, 1, n))
    BY <1>4, <1>9
  <2>3. PhaseInv("READ", x, v)
    BY <1>8, <1>9
  <2>4. UNCHANGED <<job, m_state, m_esc_stm, m_writedata, given, cmdh>>
    BY <1>5
  <2> QED BY <1>10, <2>1, <2>2, <2>3, <2>4, PutNextInv
<1>12. u = net'
  BY <1>4, <1>9, <1>10
<1>13. MainType'
  <2>1. u \in Seq(Chars)
    BY <1>11 DEF PhaseInv, PhaseType, OtherType
  <2> QED BY <1>2, <1>5, <1>12, <2>1 DEF MainType
<1>14. Control'
  BY <1>1, <1>2, <1>5 DEF Control
<1>15. Delegated(i)'
  <2>1. Asking(i)'
    BY <1>5, <1>6, <1>7 DEF Asking
  <2>2. PhaseInv(op, x, net)' /\ (wire = Replied(i) \o <<"ANSWER">> \o x)'
    BY <1>5, <1>6, <1>8, <1>11, <1>12
  <2> QED BY <1>5, <1>7, <1>8, <2>1, <2>2 DEF Delegated
<1>16. Mode(i)'
  BY <1>1, <1>5, <1>15 DEF Mode
<1> QED BY <1>3, <1>5, <1>6, <1>13, <1>14, <1>16 DEF DialogueInv

LEMMA DelegateSendsInv ==
    ASSUME DialogueInv, DelegateSends
    PROVE  DialogueInv'
<1>1. caller = "delegate" /\ op = "WRITE"
  BY DEF DelegateSends, Send
<1>2. /\ MainType /\ Control /\ m_output = <<>> /\ ending \in Endings
      /\ wire \in Seq(Tokens) /\ net \in Seq(Chars)
  BY <1>1, CallFacts
<1>3. PICK i \in 0..sent : Progress(i) /\ Delegated(i)
  BY <1>1, CallFacts
<1>4. /\ UNCHANGED <<script, sent, served, m_cmdstateidx, m_stateidx, m_buffer, m_cmd, m_output, m_resultstr, m_resultstate>>
      /\ UNCHANGED <<inp, m_refuseInputFlag, m_delegateHandler, caller, dbuf, ending, job, net>>
      /\ UNCHANGED <<m_state, inputVars, m_esc_stm, outsize, given, cmdh>>
      /\ wire' = wire \o m_writedata /\ m_writedata' = <<>> /\ op' = "none"
  BY DEF DelegateSends, Send, mainVars, clientVars, lineVars, delegateVars
<1>5. \A k : /\ Stands(k)' = Stands(k) /\ Replied(k)' = Replied(k)
             /\ (IsJob(k)' <=> IsJob(k)) /\ (Progress(k)' <=> Progress(k))
  BY <1>4, ClientSame
<1>6. Asking(i) /\ ~m_refuseInputFlag /\ outsize = OutSize
  BY <1>1, <1>3 DEF Delegated
<1>7. PICK x \in Seq(Chars) : PhaseInv("WRITE", x, net) /\ wire = Replied(i) \o <<"ANSWER">> \o x
  BY <1>1, <1>3 DEF Delegated
<1>8. PICK y : y = x \o m_writedata
  OBVIOUS
<1>9. m_writedata \in Seq(Chars) /\ y \in Seq(Chars)
  <2>1. m_writedata \in Seq(Chars)
    BY <1>7 DEF PhaseInv, PhaseType, OtherType
  <2> QED BY <1>7, <1>8, <2>1
<1>10. /\ x \in Seq(Tokens) /\ m_writedata \in Seq(Tokens) /\ <<"ANSWER">> \in Seq(Tokens) /\ Replied(i) \in Seq(Tokens)
  <2>1. Chars \subseteq Tokens /\ "ANSWER" \in Tokens
    BY DEF Tokens
  <2>2. Replied(i) \in Seq(Tokens)
    BY <1>2, <1>3, ProgressFacts, StandsFacts
  <2>3. x \in Seq(Tokens) /\ m_writedata \in Seq(Tokens) /\ <<"ANSWER">> \in Seq(Tokens)
    <3> HIDE DEF Tokens
    <3> QED BY <1>7, <1>9, <2>1
  <2> QED BY <2>2, <2>3
<1>11. Glued(Replied(i), <<"ANSWER">>, x)
  BY <1>10, AssocTokens
<1>12. Glued(Replied(i) \o <<"ANSWER">>, x, m_writedata)
  <2>1. Replied(i) \o <<"ANSWER">> \in Seq(Tokens)
    BY <1>11 DEF Glued
  <2> QED BY <1>10, <2>1, AssocTokens
<1>13. wire' = (Replied(i) \o <<"ANSWER">>) \o y
  BY <1>4, <1>7, <1>8, <1>12, Zenon DEF Glued
<1>14. PhaseInv("none", y, net)'
  <2>1. PICK u : u = net
    OBVIOUS
  <2>2. PhaseInv("none", y, u)'
    <3>1. UNCHANGED <<job, inputVars>> /\ UNCHANGED <<m_state, m_esc_stm, given, cmdh>>
      BY <1>4
    <3> QED BY <1>4, <1>7, <1>8, <2>1, <3>1, TakeOutputInv
  <2> QED BY <1>4, <2>1, <2>2
<1>15. MainType'
  <2>1. wire' \in Seq(Tokens)
    <3>1. wire \in Seq(Tokens) /\ m_writedata \in Seq(Tokens)
      BY <1>2, <1>10
    <3> QED BY <1>4, <3>1
  <2> QED BY <1>2, <1>4, <2>1 DEF MainType
<1>16. Control'
  BY <1>1, <1>2, <1>4 DEF Control
<1>17. Delegated(i)'
  <2>1. Asking(i)'
    BY <1>4, <1>5, <1>6 DEF Asking
  <2>2. PhaseInv(op, y, net)' /\ (wire = Replied(i) \o <<"ANSWER">> \o y)'
    BY <1>4, <1>5, <1>13, <1>14
  <2> QED BY <1>4, <1>6, <1>9, <2>1, <2>2 DEF Delegated
<1>18. Mode(i)'
  BY <1>1, <1>4, <1>17 DEF Mode
<1> QED BY <1>3, <1>4, <1>5, <1>15, <1>16, <1>18 DEF DialogueInv

LEMMA DelegateClosesInv ==
    ASSUME DialogueInv, DelegateCloses
    PROVE  DialogueInv'
<1>1. caller = "delegate" /\ op = "CLOSE"
  BY DEF DelegateCloses
<1>2. /\ MainType /\ Control /\ m_output = <<>> /\ ending \in Endings
      /\ wire \in Seq(Tokens) /\ net \in Seq(Chars)
  BY <1>1, CallFacts
<1>3. PICK i \in 0..sent : Progress(i) /\ Delegated(i)
  BY <1>1, CallFacts
<1>4. PICK left : left = IF m_refuseInputFlag THEN inp ELSE DataLeft
  OBVIOUS
<1>5. /\ UNCHANGED <<script, sent, m_stateidx, m_buffer, m_cmd, m_output, m_refuseInputFlag, dbuf, ending>>
      /\ UNCHANGED <<job, net, wire, m_state>>
      /\ m_cmdstateidx' = "ProcessOutput" /\ m_resultstate' = m_stateidx
      /\ m_resultstr' = <<Status(ending, lastError)>> /\ Answered
      /\ m_delegateHandler' = "none" /\ inp' = left /\ caller' = "none" /\ op' = "none"
  BY <1>4 DEF DelegateCloses, clientVars, netVars, handlerVars
<1>6. /\ Asking(i) /\ m_state = "Terminated" /\ given \in 0..Len(job.answer)
      /\ left \in Seq(Chars) /\ left \o net = job.rest
      /\ wire = Replied(i) \o <<"ANSWER">> \o Whole
  <2>1. Asking(i)
    BY <1>3 DEF Delegated
  <2>2. CASE ~m_refuseInputFlag /\ \E x \in Seq(Chars) : PhaseInv(op, x, net) /\ wire = Replied(i) \o <<"ANSWER">> \o x
    <3>1. PICK x \in Seq(Chars) : PhaseInv("CLOSE", x, net) /\ wire = Replied(i) \o <<"ANSWER">> \o x
      BY <1>1, <2>2
    <3>2. /\ m_state = "Terminated" /\ given \in 0..Len(job.answer)
          /\ DataLeft \in Seq(Chars) /\ DataLeft \o net = job.rest /\ x = Whole
      BY <3>1, ClosedFacts
    <3> QED BY <1>4, <2>1, <2>2, <3>1, <3>2
  <2>3. CASE /\ m_state = "Terminated" /\ given \in 0..Len(job.answer)
             /\ (IF m_refuseInputFlag THEN inp ELSE DataLeft) \in Seq(Chars)
             /\ (IF m_refuseInputFlag THEN inp ELSE DataLeft) \o net = job.rest
             /\ wire = Replied(i) \o <<"ANSWER">> \o Whole
    BY <1>4, <2>1, <2>3
  <2> QED BY <1>3, <2>2, <2>3 DEF Delegated
<1>7. PICK z : z = Status(ending, lastError)
  OBVIOUS
<1>8. <<z>> \in Seq(Tokens)
  BY <1>2, <1>7, StatusType, OneToken
<1>9. wire' \o m_output' \o m_resultstr' = ((Replied(i) \o <<"ANSWER">>) \o Whole) \o <<Status(ending, lastError)>>
  <2>1. wire \o m_output = wire
    BY <1>2
  <2> QED BY <1>5, <1>6, <2>1, Zenon
<1>10. i + 1 \in 0..sent' /\ Progress(i + 1)' /\ Printing(i + 1)'
  <2>1. UNCHANGED <<script, sent, m_stateidx>> /\ inp' \o net' = job.rest
    BY <1>5, <1>6
  <2> QED BY <1>2, <1>3, <1>5, <1>6, <1>9, <2>1, PrintsAnswer
<1>11. Mode(i + 1)'
  BY <1>5, <1>10 DEF Mode, Endings
<1>12. MainType'
  BY <1>2, <1>5, <1>6, <1>7, <1>8 DEF MainType
<1>13. Control'
  BY <1>2, <1>5, <1>6 DEF Control, LineStates, Endings
<1> QED BY <1>10, <1>11, <1>12, <1>13 DEF DialogueInv

\* A turn of the data handler leaves its surroundings alone.
LEMMA TurnIs ==
    ASSUME HandlerTurn
    PROVE  /\ NextOperation /\ op = "none" /\ op' \in {"none", "READ", "WRITE", "CLOSE"}
           /\ UNCHANGED <<script, sent, served, m_cmdstateidx, m_stateidx, m_buffer, m_cmd, m_output, m_resultstr, m_resultstate>>
           /\ UNCHANGED <<inp, m_refuseInputFlag, m_delegateHandler, caller, dbuf, ending, job, net, wire, outsize>>
<1>1. NextOperation
  BY DEF HandlerTurn, NextOperation
<1>2. /\ UNCHANGED <<script, sent, served, m_cmdstateidx, m_stateidx, m_buffer, m_cmd, m_output, m_resultstr, m_resultstate>>
      /\ UNCHANGED <<inp, m_refuseInputFlag, m_delegateHandler, caller, dbuf, ending>>
  BY DEF HandlerTurn, mainVars, clientVars, lineVars, delegateVars
<1>3. op = "none" /\ op' \in {"none", "READ", "WRITE", "CLOSE"} /\ UNCHANGED <<job, net, wire, outsize>>
  <2>1. CASE NoCommandHandler
    BY <2>1 DEF NoCommandHandler, InProcess, Turn, netVars, outputVars
  <2>2. CASE HandlerReads
    BY <2>2 DEF HandlerReads, InProcess, Turn, netVars, outputVars
  <2>3. CASE HandlerWrites
    BY <2>3 DEF HandlerWrites, InProcess, Turn, netVars
  <2>4. CASE HandlerCloses
    BY <2>4 DEF HandlerCloses, InProcess, Turn, netVars, outputVars
  <2>5. CASE FlushOutput
    BY <2>5 DEF FlushOutput, Turn, netVars
  <2>6. CASE Discard
    BY <2>6 DEF Discard, Turn, netVars
  <2>7. CASE Close
    BY <2>7 DEF Close, Turn, netVars, outputVars
  <2> QED BY <1>1, <2>1, <2>2, <2>3, <2>4, <2>5, <2>6, <2>7 DEF NextOperation
<1> QED BY <1>1, <1>2, <1>3

\* The first operation of a data handler is fetched: it has no input to consume, and
\* nowhere to write.
LEMMA PrefetchTurn ==
    ASSUME NEW u, PhaseInv(op, <<>>, u), HandlerTurn, caller = "prefetch", outsize = 0,
           m_state \in {"StartProcessing", "Processing", "DiscardInput"},
           m_input = EmptyBlock, ~m_unconsumedInput, ~m_gotEoD
    PROVE  \/ /\ PhaseInv(op, <<>>, u)' /\ op' \in {"none", "READ"}
              /\ m_state' \in {"StartProcessing", "Processing", "DiscardInput"}
              /\ m_input' = EmptyBlock /\ ~m_unconsumedInput' /\ ~m_gotEoD'
           \/ op' = "CLOSE" /\ m_state' = "Terminated"
<1>1. op = "none"
  BY TurnIs
<1>2. CASE NoCommandHandler
  <2>1. PhaseInv(op, <<>>, u)'
    BY <1>2, NoCommandHandlerInv
  <2>2. op' = "none" /\ m_state' = "DiscardInput" /\ UNCHANGED <<m_input, m_unconsumedInput, m_gotEoD>>
    BY <1>1, <1>2 DEF NoCommandHandler, inputVars
  <2> QED BY <2>1, <2>2
<1>3. CASE HandlerReads
  <2>1. PhaseInv(op, <<>>, u)'
    BY <1>3, HandlerReadsInv
  <2>2. op' = "READ" /\ m_state' = "Processing" /\ UNCHANGED <<m_input, m_unconsumedInput, m_gotEoD>>
    BY <1>1, <1>3 DEF HandlerReads, inputVars
  <2> QED BY <2>1, <2>2
<1>4. CASE HandlerCloses
  <2>1. PhaseInv(op, <<>>, u)'
    BY <1>4, HandlerClosesInv
  <2>2. op' = "none" /\ m_state' = "DiscardInput" /\ UNCHANGED <<m_input, m_unconsumedInput, m_gotEoD>>
    BY <1>1, <1>4 DEF HandlerCloses, inputVars
  <2> QED BY <2>1, <2>2
<1>5. CASE Discard
  <2>1. PhaseInv(op, <<>>, u)'
    BY <1>5, DiscardInv
  <2>2. op' = "READ" /\ m_state' = m_state /\ UNCHANGED <<m_input, m_unconsumedInput, m_gotEoD>>
    BY <1>1, <1>5 DEF Discard, inputVars
  <2> QED BY <2>1, <2>2
<1>6. ~FlushOutput /\ ~Close
  BY DEF FlushOutput, Close, Turn
<1>7. CASE HandlerWrites
  <2>1. PICK n \in 1..(Len(job.answer) - given) :
          WriteData(SubSeq(job.answer, given + 1, given + n)).out = <<>> => m_state' = "Terminated" /\ op' = "CLOSE"
    BY <1>7 DEF HandlerWrites
  <2>2. /\ m_esc_stm \in [state : {"SRC", "LF", "LFdot"}, blk : Seq(Chars)] /\ job.answer \in Seq(Chars)
        /\ given \in 0..Len(job.answer) /\ DOT \in Chars
    BY ExchangeType DEF PhaseInv, PhaseType, OtherType
  <2>3. PICK b : b = SubSeq(job.answer, given + 1, given + n)
    OBVIOUS
  <2>4. b \in Seq(Chars)
    <3>1. given \in 0..Len(job.answer) /\ given + n \in given..Len(job.answer)
      BY <2>2
    <3> QED BY <2>2, <2>3, <3>1, SubSeqIs
  <2>5. PICK e : e = IF m_esc_stm.blk = <<>> THEN [m_esc_stm EXCEPT !.blk = b] ELSE m_esc_stm
    OBVIOUS
  <2>6. e.state \in {"SRC", "LF", "LFdot"} /\ e.blk \in Seq(Chars)
    BY <2>2, <2>4, <2>5
  <2>7. EscapeTurns(e, 0)[0].out = <<>>
    <3>1. 0 \in Nat
      OBVIOUS
    <3>2. EscapeTurns(e, 0)[0] = [state |-> e.state, blk |-> e.blk, out |-> <<>>]
      BY <2>2, <2>6, <3>1, EscapeTurnsDef
    <3> QED BY <3>2
  <2>8. WriteData(b).out = Escape(e, outsize).out
    BY <2>5 DEF WriteData
  <2> QED BY <2>1, <2>3, <2>7, <2>8 DEF Escape
<1> QED BY <1>2, <1>3, <1>4, <1>5, <1>6, <1>7 DEF HandlerTurn, NextOperation

LEMMA HandlerTurnInv ==
    ASSUME DialogueInv, HandlerTurn
    PROVE  DialogueInv'
<1>1. caller # "none"
  BY DEF HandlerTurn
<1>2. /\ MainType /\ Control /\ m_output = <<>> /\ ending \in Endings
  BY <1>1, CallFacts
<1>3. PICK i \in 0..sent : /\ Progress(i)
                           /\ caller = "prefetch" => Prefetching(i)
                           /\ caller = "redirect" => Redirecting(i)
                           /\ caller = "delegate" => Delegated(i)
  BY <1>1, CallFacts
<1>4. /\ NextOperation /\ op = "none" /\ op' \in {"none", "READ", "WRITE", "CLOSE"}
      /\ UNCHANGED <<script, sent, served, m_cmdstateidx, m_stateidx, m_buffer, m_cmd, m_output, m_resultstr, m_resultstate>>
      /\ UNCHANGED <<inp, m_refuseInputFlag, m_delegateHandler, caller, dbuf, ending, job, net, wire, outsize>>
  BY TurnIs
<1>5. \A k : /\ Stands(k)' = Stands(k) /\ Replied(k)' = Replied(k)
             /\ (IsJob(k)' <=> IsJob(k)) /\ (Progress(k)' <=> Progress(k))
  BY <1>4, ClientSame
<1>6. MainType'
  BY <1>2, <1>4 DEF MainType
<1>7. Control'
  BY <1>1, <1>2, <1>4 DEF Control
<1>8. Asking(i) /\ Asking(i)'
  <2>1. Asking(i)
    BY <1>1, <1>2, <1>3 DEF MainType, Prefetching, Redirecting, Delegated
  <2> QED BY <1>4, <1>5, <2>1 DEF Asking
<1>9. CASE caller = "prefetch"
  <2>1. PICK u : u = dbuf \o net
    OBVIOUS
  <2>2. u = dbuf' \o net'
    BY <1>4, <2>1
  <2>3. \/ /\ PhaseInv(op, <<>>, u)' /\ op' \in {"none", "READ"}
           /\ m_state' \in {"StartProcessing", "Processing", "DiscardInput"}
           /\ m_input' = EmptyBlock /\ ~m_unconsumedInput' /\ ~m_gotEoD'
        \/ op' = "CLOSE" /\ m_state' = "Terminated"
    <3>1. /\ PhaseInv(op, <<>>, u) /\ outsize = 0 /\ m_state \in {"StartProcessing", "Processing", "DiscardInput"}
          /\ m_input = EmptyBlock /\ ~m_unconsumedInput /\ ~m_gotEoD
      BY <1>3, <1>4, <1>9, <2>1 DEF Prefetching
    <3> QED BY <1>9, <3>1, PrefetchTurn
  <2>4. \/ /\ (PhaseInv(op, <<>>, dbuf \o net))' /\ op' \in {"none", "READ"}
           /\ m_state' \in {"StartProcessing", "Processing", "DiscardInput"}
           /\ m_input' = EmptyBlock /\ ~m_unconsumedInput' /\ ~m_gotEoD'
        \/ op' = "CLOSE" /\ m_state' = "Terminated"
    BY <2>2, <2>3
  <2>5. /\ Returned(m_stateidx)' /\ m_resultstr' = <<"ANSWER">> /\ ~m_refuseInputFlag' /\ (wire = Replied(i))'
        /\ outsize' = 0 /\ (dbuf \o net = Stream(job))'
    BY <1>3, <1>4, <1>5, <1>9 DEF Prefetching, Returned
  <2>6. Prefetching(i)'
    BY <1>8, <2>4, <2>5 DEF Prefetching
  <2>7. Mode(i)'
    BY <1>4, <1>9, <2>6 DEF Mode
  <2> QED BY <1>3, <1>4, <1>5, <1>6, <1>7, <2>7 DEF DialogueInv
<1>10. CASE caller = "redirect"
  <2>1. PICK x \in Seq(Chars) : m_resultstr = <<"ANSWER">> \o x /\ PhaseInv(op, x, net)
    BY <1>3, <1>10 DEF Redirecting
  <2>2. PICK u : u = net
    OBVIOUS
  <2>3. outsize = OutSize
    BY <1>3, <1>10 DEF Redirecting
  <2>4. PhaseInv(op, x, u)'
    BY <1>4, <2>1, <2>2, <2>3, TurnInv
  <2>5. PhaseInv(op, x, net)'
    BY <1>4, <2>2, <2>4
  <2>6. /\ Returned(m_stateidx)' /\ ~m_refuseInputFlag' /\ (wire = Replied(i))' /\ outsize' = OutSize
        /\ m_resultstr' = <<"ANSWER">> \o x
    BY <1>3, <1>4, <1>5, <1>10, <2>1, <2>3 DEF Redirecting, Returned
  <2>7. Redirecting(i)'
    BY <1>8, <2>1, <2>5, <2>6 DEF Redirecting
  <2>8. Mode(i)'
    BY <1>4, <1>10, <2>7 DEF Mode
  <2> QED BY <1>3, <1>4, <1>5, <1>6, <1>7, <2>8 DEF DialogueInv
<1>11. CASE caller = "delegate"
  <2>1. Delegated(i)'
    <3>1. CASE /\ ~m_refuseInputFlag /\ outsize = OutSize
               /\ \E x \in Seq(Chars) : PhaseInv(op, x, net) /\ wire = Replied(i) \o <<"ANSWER">> \o x
      <4>1. PICK x \in Seq(Chars) : PhaseInv(op, x, net) /\ wire = Replied(i) \o <<"ANSWER">> \o x
        BY <3>1
      <4>2. PICK u : u = net
        OBVIOUS
      <4>3. PhaseInv(op, x, u)'
        BY <1>4, <3>1, <4>1, <4>2, TurnInv
      <4>4. PhaseInv(op, x, net)' /\ (wire = Replied(i) \o <<"ANSWER">> \o x)'
        BY <1>4, <1>5, <4>1, <4>2, <4>3
      <4> QED BY <1>4, <1>8, <3>1, <4>1, <4>4 DEF Delegated
    <3>2. CASE /\ m_state = "Terminated" /\ op \in {"none", "CLOSE"} /\ given \in 0..Len(job.answer)
               /\ (IF m_refuseInputFlag THEN inp ELSE DataLeft) \in Seq(Chars)
               /\ (IF m_refuseInputFlag THEN inp ELSE DataLeft) \o net = job.rest
               /\ wire = Replied(i) \o <<"ANSWER">> \o Whole
      <4>1. Close
        BY <1>4, <3>2 DEF NextOperation, NoCommandHandler, HandlerReads, HandlerWrites, HandlerCloses, InProcess,
                          FlushOutput, Discard, Turn
      <4>2. op' = "CLOSE" /\ m_state' = "Terminated" /\ given' = given /\ m_input' = m_input /\ m_nextmsg' = m_nextmsg
        BY <3>2, <4>1 DEF Close, inputVars, outputVars
      <4>3. (DataLeft)' = DataLeft /\ (Whole)' = Whole
        BY <1>4, <4>2 DEF DataLeft, Whole
      <4>4. /\ ((IF m_refuseInputFlag THEN inp ELSE DataLeft) \in Seq(Chars))'
            /\ ((IF m_refuseInputFlag THEN inp ELSE DataLeft) \o net = job.rest)'
            /\ (wire = Replied(i) \o <<"ANSWER">> \o Whole)' /\ (given \in 0..Len(job.answer))'
        BY <1>4, <1>5, <3>2, <4>2, <4>3
      <4> QED BY <1>8, <4>2, <4>4 DEF Delegated
    <3> QED BY <1>3, <1>11, <3>1, <3>2 DEF Delegated
  <2>2. Mode(i)'
    BY <1>4, <1>11, <2>1 DEF Mode
  <2> QED BY <1>3, <1>4, <1>5, <1>6, <1>7, <2>2 DEF DialogueInv
<1> QED BY <1>1, <1>2, <1>9, <1>10, <1>11 DEF MainType

\* Nothing happens.
LEMMA StutterInv ==
    ASSUME DialogueInv, UNCHANGED allVars
    PROVE  DialogueInv'
<1>1. /\ UNCHANGED <<script, sent, served, m_cmdstateidx, m_stateidx, m_buffer, m_cmd, m_output, m_resultstr, m_resultstate>>
      /\ UNCHANGED <<inp, m_refuseInputFlag, m_delegateHandler, caller, dbuf, ending, job, net, wire, op>>
      /\ UNCHANGED <<m_state, inputVars, cmdh>> /\ UNCHANGED <<m_esc_stm, m_writedata, given>> /\ UNCHANGED outsize
  BY DEF allVars, mainVars, clientVars, lineVars, delegateVars, netVars, handlerVars, outputVars
<1>2. PICK i \in 0..sent : Progress(i) /\ Mode(i)
  BY DEF DialogueInv
<1>3. \A k, q : /\ Stands(k)' = Stands(k) /\ Replied(k)' = Replied(k) /\ LineOf(k)' = LineOf(k)
                /\ (IsJob(k)' <=> IsJob(k)) /\ (Progress(k)' <=> Progress(k)) /\ Unread(k, q)' = Unread(k, q)
  BY <1>1, ClientSame
<1>4. MainType' /\ Control'
  <2>1. m_state' = m_state
    BY <1>1
  <2> QED BY <1>1, <2>1 DEF DialogueInv, MainType, Control
<1>5. /\ m_state' = m_state /\ m_input' = m_input /\ m_nextmsg' = m_nextmsg /\ m_unconsumedInput' = m_unconsumedInput
      /\ m_gotEoD' = m_gotEoD /\ DataLeft' = DataLeft /\ Whole' = Whole /\ Stream(job)' = Stream(job)
      /\ (LineWithDot' <=> LineWithDot)
  BY <1>1 DEF inputVars, DataLeft, Whole, Stream, LineWithDot
<1>6. \A o, x, u : PhaseInv(o, x, u) => PhaseInv(o, x, u)'
  BY <1>1, PhaseSame
<1>7. \A p : (AtLine(i, p)' <=> AtLine(i, p)) /\ (InCommand(i, p)' <=> InCommand(i, p))
  BY <1>1, <1>3 DEF AtLine, InCommand
<1>8. \A p : HasCommand(i, p) => HasCommand(i, p)'
  BY <1>1, <1>3, <1>7 DEF HasCommand
<1>9. Entering(i) => Entering(i)'
  BY <1>1, <1>3, <1>7 DEF Entering
<1>10. Parsing(i) => Parsing(i)'
  BY <1>1, <1>3, <1>8 DEF Parsing
<1>11. EndingLine(i) => EndingLine(i)'
  BY <1>1, <1>3, <1>8 DEF EndingLine
<1>12. Skipping(i) => Skipping(i)'
  BY <1>1, <1>3, <1>7 DEF Skipping
<1>13. Terminating(i) => Terminating(i)'
  BY <1>1, <1>3 DEF Terminating
<1>14. Asking(i) => Asking(i)'
  BY <1>1, <1>3 DEF Asking
<1>15. \A st : Returned(st) => Returned(st)'
  BY <1>1 DEF Returned
<1>16. Printing(i) => Printing(i)'
  BY <1>1, <1>3, <1>7 DEF Printing, Returned
<1>17. Detecting(i) => Detecting(i)'
  BY <1>1, <1>3, <1>5, <1>14 DEF Detecting
<1>18. Delegating(i) => Delegating(i)'
  BY <1>1, <1>3, <1>5, <1>14 DEF Delegating, Returned
<1>19. Holding(i) => Holding(i)'
  <2> SUFFICES ASSUME Holding(i) PROVE Holding(i)'
    OBVIOUS
  <2>1. Returned(m_stateidx)'
    BY <1>1 DEF Holding, Returned
  <2>2. wire' \o m_output' \o m_resultstr' = wire \o m_output \o m_resultstr
    BY <1>1
  <2> QED BY <1>1, <2>1, <2>2, HoldingSame
<1>20. Prefetching(i) => Prefetching(i)'
  <2> SUFFICES ASSUME Prefetching(i) PROVE Prefetching(i)'
    OBVIOUS
  <2>1. PICK u : u = dbuf \o net
    OBVIOUS
  <2>2. PICK o : o = op
    OBVIOUS
  <2>3. PhaseInv(o, <<>>, u) => PhaseInv(o, <<>>, u)'
    BY <1>6
  <2>4. PhaseInv(op, <<>>, dbuf \o net) => (PhaseInv(op, <<>>, dbuf \o net))'
    BY <1>1, <2>1, <2>2, <2>3
  <2> QED BY <1>1, <1>3, <1>5, <1>14, <2>4 DEF Prefetching, Returned
<1>21. \A x : PhaseInv(op, x, net) => PhaseInv(op, x, net)'
  <2> SUFFICES ASSUME NEW x, PhaseInv(op, x, net) PROVE PhaseInv(op, x, net)'
    OBVIOUS
  <2>1. PICK u : u = net
    OBVIOUS
  <2>2. PICK o : o = op
    OBVIOUS
  <2>3. PhaseInv(o, x, u)'
    BY <1>6, <2>1, <2>2
  <2> QED BY <1>1, <2>1, <2>2, <2>3
<1>22. Redirecting(i) => Redirecting(i)'
  BY <1>1, <1>3, <1>14, <1>21 DEF Redirecting, Returned
<1>23. Delegated(i) => Delegated(i)'
  <2>1. (IF m_refuseInputFlag THEN inp ELSE DataLeft)' = IF m_refuseInputFlag THEN inp ELSE DataLeft
    BY <1>1, <1>5
  <2> QED BY <1>1, <1>3, <1>5, <1>14, <1>21, <2>1 DEF Delegated
<1>24. Mode(i)'
  BY <1>1, <1>2, <1>9, <1>10, <1>11, <1>12, <1>13, <1>16, <1>17, <1>18, <1>19, <1>20, <1>22, <1>23 DEF Mode
<1> QED BY <1>1, <1>2, <1>3, <1>4, <1>24 DEF DialogueInv

LEMMA NextDialogue == DialogueInv /\ [MainNext]_allVars => DialogueInv'
<1> SUFFICES ASSUME DialogueInv, [MainNext]_allVars PROVE DialogueInv'
  OBVIOUS
<1>1. CASE ClientSends
  BY <1>1, ClientSendsInv
<1>2. CASE LineReceives
  BY <1>2, LineReceivesInv
<1>3. CASE LineSends
  BY <1>3, LineSendsInv
<1>4. CASE DelegateReceives
  BY <1>4, DelegateReceivesInv
<1>5. CASE DelegateSends
  BY <1>5, DelegateSendsInv
<1>6. CASE EnterCommand
  BY <1>6, EnterCommandInv
<1>7. CASE ParseArgs
  BY <1>7, ParseArgsInv
<1>8. CASE ParseArgsEOL
  BY <1>8, ParseArgsEOLInv
<1>9. CASE ProtocolError
  BY <1>9, ProtocolErrorInv
<1>10. CASE ProcessOutput
  BY <1>10, ProcessOutputInv
<1>11. CASE InitCommand
  BY <1>11, InitCommandInv
<1>12. CASE DoctypeReads
  BY <1>12, DoctypeReadsInv
<1>13. CASE DoctypeServed
  BY <1>13, DoctypeServedInv
<1>14. CASE DoctypeRefused
  BY <1>14, DoctypeRefusedInv
<1>15. CASE Redirect
  BY <1>15, RedirectInv
<1>16. CASE RedirectWrites
  BY <1>16, RedirectWritesInv
<1>17. CASE RedirectReads
  BY <1>17, RedirectReadsInv
<1>18. CASE RedirectCloses
  BY <1>18, RedirectClosesInv
<1>19. CASE DelegateCloses
  BY <1>19, DelegateClosesInv
<1>20. CASE HandlerTurn
  BY <1>20, HandlerTurnInv
<1>21. CASE PrefetchCloses
  BY <1>21, PrefetchClosesInv
<1>22. CASE Finished \/ UNCHANGED allVars
  BY <1>22, StutterInv DEF Finished
<1> QED BY <1>1, <1>2, <1>3, <1>4, <1>5, <1>6, <1>7, <1>8, <1>9, <1>10, <1>11, <1>12, <1>13, <1>14, <1>15,
           <1>16, <1>17, <1>18, <1>19, <1>20, <1>21, <1>22 DEF MainNext

-----------------------------------------------------------------------------
(* The theorems *)

\* Whatever the clients send and however it is cut into blocks, the line handler, the
\* filter for document types and the data handler agree at every moment on how far
\* the messages are read, which request is served and what is replied, with the two
\* exceptions the code makes to the replies due: none for the line behind one that
\* starts with a space, none of the output that is written before the first read
\* (LineProtocolHandler::nextOperation(), redirectInput(), putInput()).
THEOREM DialogueInvariant == MainSpec => []DialogueInv
<1>1. MainInit => DialogueInv
  BY InitDialogue
<1>2. DialogueInv /\ [MainNext]_allVars => DialogueInv'
  BY NextDialogue
<1> QED BY <1>1, <1>2, PTL DEF MainSpec

\* Everything a client sends is answered, in order and exactly once: whenever the
\* server waits for input that is not sent, and when it closes, what is written is the
\* replies to all that was sent. The reply to a line behind one that starts with a
\* space is empty, and output a command handler has written before its first read is
\* not in the answer (EveryLineAnswered and AnswersComplete, which do not hold).
THEOREM EverythingIsAnswered == MainSpec => []EverythingAnswered
<1>1. DialogueInv => EverythingAnswered
  BY AnsweredInv
<1> QED BY <1>1, DialogueInvariant, PTL

\* The command handler reads the request as the client wrote it, through detection,
\* redirection and delegation.
THEOREM RequestIsReadExactly == MainSpec => []RequestReadExactly
<1>1. DialogueInv => RequestReadExactly
  BY ReadInv
<1> QED BY <1>1, DialogueInvariant, PTL

\* While the server reads, the marker that ends an interrupted data session
\* (interruptDataSessionMarker()) is sent to exactly the clients that wait for the end
\* of an answer, and while it writes to no other. That it is sent to all of them while
\* it writes does not hold (InterruptFramed).
THEOREM InterruptIsForTheClient == MainSpec => []InterruptMatchesClient
<1>1. DialogueInv => InterruptMatchesClient
  BY InterruptInv
<1> QED BY <1>1, DialogueInvariant, PTL
=============================================================================
