---------------------------- MODULE MainProtocol ----------------------------
(***************************************************************************)
(* The dialogue of the wolframe protocol: LineProtocolHandler, which reads *)
(* command lines and delegates to sub-protocols, with the commands of      *)
(* MainProtocolHandler. A REQUEST is delegated first to                    *)
(* DoctypeFilterProtocolHandler, which buffers data until the type of the  *)
(* document is known, then to the handler of module EscDlf, which is given *)
(* the buffered data first (redirectInput) and reads on from the network.  *)
(*                                                                         *)
(* Words of a line are single tokens, SP separates them. A turn of the     *)
(* loop of nextOperation() is an action; op is what nextOperation() has    *)
(* returned to its caller, "none" while it runs. The variable caller tells *)
(* who calls the data handler: endDoctypeDetection() ("prefetch"),         *)
(* redirectInput() ("redirect"), the line handler ("delegate") or nobody.  *)
(*                                                                         *)
(* Authentication by other mechanisms than NONE is module Authentication;  *)
(* here every other mechanism is denied. INTERFACE is left out.            *)
(***************************************************************************)
EXTENDS EscDlf

CONSTANTS
    SP,         \* the separator of words
    Tags,       \* the words that start with an ampersand
    NoJob,      \* the job of a message that is no request
    Scripts     \* what a client may send: a script is a sequence of messages [line, job]

VARIABLES
    script, sent,           \* the client, and how many of its messages are sent
    m_cmdstateidx,          \* LineProtocolHandler::CommandState
    m_stateidx,             \* MainSTM::State
    inp,                    \* the bytes between m_itr and m_end
    m_buffer,               \* the word, then the arguments, read so far
    m_cmd,                  \* the command found (m_cmdidx)
    m_output,               \* printed to the output block, not fetched
    m_resultstr, m_resultstate,
    m_refuseInputFlag,
    m_delegateHandler,      \* "none", "doctype" or, for the data handler, the method that ends it
    caller,
    dbuf,                   \* DoctypeFilterProtocolHandler::m_inputbuffer
    ending,                 \* the method that will end the data handler
    lost,                   \* history: output of the command handler was given to nobody
    served                  \* the requests answered, by number of the message: how much of the answer
                            \* was given, whether output was lost, with an error or not

clientVars == <<script, sent>>
lineVars == <<m_cmdstateidx, m_stateidx, m_buffer, m_cmd, m_output, m_resultstr, m_resultstate>>
delegateVars == <<inp, m_refuseInputFlag, m_delegateHandler, caller, dbuf, ending, lost, served>>
handlerVars == <<m_state, inputVars, outputVars, lastError, cmdh>>
mainVars == <<clientVars, lineVars, delegateVars>>
allVars == <<mainVars, netVars, op, handlerVars>>

\* The data behind the line of message m.
Data(m) == IF m.job = NoJob THEN <<>> ELSE Escaped(m.job.request) \o Marker

\* The bytes of the first i messages of msgs.
BytesTo(msgs) ==
    LET b[i \in 0..Len(msgs)] == IF i = 0 THEN <<>> ELSE b[i - 1] \o msgs[i].line \o Data(msgs[i])
    IN b

\* The bytes of the messages of the script from i + 1 to k.
Bytes(i, k) ==
    LET b == BytesTo(script)
    IN SubSeq(b[k], Len(b[i]) + 1, Len(b[k]))

\* The numbers of the requests sent.
Requests == {i \in 1..sent : script[i].job # NoJob}

\* nextOperation() of the line handler has returned READ.
Reading == op = "READ" /\ caller \in {"none", "delegate"}

MainInit ==
    /\ script \in Scripts
    /\ sent = 0
    /\ net = <<>>
    /\ m_cmdstateidx = "Init" /\ m_stateidx = "Unauthenticated"
    /\ inp = <<>> /\ m_buffer = <<>> /\ m_cmd = <<>> /\ m_output = <<>>
    /\ m_resultstr = <<>> /\ m_resultstate = "none"
    /\ m_refuseInputFlag = FALSE
    /\ m_delegateHandler = "none" /\ caller = "none" /\ ending = "none"
    /\ dbuf = <<>> /\ lost = FALSE /\ served = <<>>
    /\ job = NoJob /\ wire = <<>> /\ op = "none"
    /\ m_state = "Terminated" /\ m_input = EmptyBlock /\ m_eoD = 0 /\ m_nextmsg = 0
    /\ m_unconsumedInput = FALSE /\ m_gotEoD = FALSE
    /\ m_esc_stm = [state |-> "SRC", blk |-> <<>>]
    /\ outsize = 0 /\ m_writedata = <<>> /\ lastError = FALSE
    /\ cmdh = "none" /\ taken = <<>> /\ told = FALSE /\ given = 0

-----------------------------------------------------------------------------
(* The client and the network *)

\* When its requests are answered the client sends on: some messages, with one
\* request in them at the most. What it sends behind a request may be read together
\* with the request.
ClientSends ==
    /\ DOMAIN served = Requests
    /\ Reading
    /\ \E k \in (sent + 1)..Len(script) :
        /\ \A i, j \in (sent + 1)..k : script[i].job # NoJob /\ script[j].job # NoJob => i = j
        /\ sent' = k
        /\ net' = net \o Bytes(sent, k)
    /\ UNCHANGED <<script, lineVars, delegateVars, job, wire, op, handlerVars>>

\* LineProtocolHandler::putInput() without and with the document type filter as
\* the delegate.
LineReceives ==
    /\ op = "READ"
    /\ caller = "none"
    /\ \E n \in 1..Len(net) :
        /\ n <= InSize
        /\ net' = SubSeq(net, n + 1, Len(net))
        /\ IF m_delegateHandler = "doctype"
           THEN dbuf' = dbuf \o SubSeq(net, 1, n) /\ UNCHANGED inp
           ELSE inp' = SubSeq(net, 1, n) /\ UNCHANGED dbuf
    /\ op' = "none"
    /\ UNCHANGED <<clientVars, lineVars, m_refuseInputFlag, m_delegateHandler, caller, ending, lost, served,
                   job, wire, handlerVars>>

LineSends ==
    /\ op = "WRITE"
    /\ caller = "none"
    /\ wire' = wire \o m_output
    /\ m_output' = <<>>
    /\ op' = "none"
    /\ UNCHANGED <<clientVars, m_cmdstateidx, m_stateidx, m_buffer, m_cmd, m_resultstr, m_resultstate,
                   delegateVars, job, net, handlerVars>>

DelegateReceives == caller = "delegate" /\ Receive /\ UNCHANGED mainVars

DelegateSends == caller = "delegate" /\ Send /\ UNCHANGED mainVars

-----------------------------------------------------------------------------
(* LineProtocolHandler::nextOperation(): reading a line *)

LineTurn(st) == op = "none" /\ caller = "none" /\ m_cmdstateidx = st

EOL == {CR, LF}

\* The length of the beginning of s without a member of chars.
Span(s, chars) ==
    LET stops == {i \in 1..Len(s) : s[i] \in chars}
    IN IF stops = {} THEN Len(s) ELSE Min(stops) - 1

From(s, i) == SubSeq(s, i, Len(s))

\* Parser::consumeEOL(): what is left of s, and whether an end of line was consumed.
ConsumeEOL(s) ==
    LET t == IF s # <<>> /\ Head(s) = CR THEN Tail(s) ELSE s
    IN IF t # <<>> /\ Head(t) = LF THEN [rest |-> Tail(t), found |-> TRUE] ELSE [rest |-> t, found |-> FALSE]

\* The words among the first i tokens of s.
WordsTo(s) ==
    LET words[i \in 0..Len(s)] ==
            IF i = 0 THEN <<>> ELSE IF s[i] = SP THEN words[i - 1] ELSE Append(words[i - 1], s[i])
    IN words

Words(s) == WordsTo(s)[Len(s)]

Commands ==
    [Unauthenticated |-> {"AUTH", "QUIT", "CAPABILITIES"},
     Authentication |-> {"MECH", "QUIT", "CAPABILITIES"},
     Authenticated |-> {"REQUEST", "AUTH", "QUIT", "CAPABILITIES"}]

\* The empty line is a command of every state.
Known(st, word) == word = <<>> \/ (Len(word) = 1 /\ word[1] \in Commands[st])

\* ERR is printed and the rest of the line is skipped.
Refuse(error) ==
    /\ m_output' = Append(m_output, error)
    /\ m_cmdstateidx' = "ProtocolError"
    /\ op' = "WRITE"

EnterCommand ==
    /\ LineTurn("EnterCommand")
    /\ m_refuseInputFlag' = FALSE
    /\ LET n == Span(inp, EOL \cup {SP})
           word == m_buffer \o SubSeq(inp, 1, n)
       IN /\ inp' = From(inp, n + 1)
          /\ IF n = Len(inp)
             THEN op' = "READ" /\ m_buffer' = word /\ UNCHANGED <<m_cmdstateidx, m_cmd, m_output>>
             ELSE /\ m_buffer' = <<>>
                  /\ IF Known(m_stateidx, word)
                     THEN m_cmdstateidx' = "ParseArgs" /\ m_cmd' = word /\ UNCHANGED <<op, m_output>>
                     ELSE Refuse("ERR unknown command") /\ UNCHANGED m_cmd
    /\ UNCHANGED <<clientVars, m_stateidx, m_resultstr, m_resultstate, m_delegateHandler, caller, dbuf,
                   ending, lost, served, netVars, handlerVars>>

ParseArgs ==
    /\ LineTurn("ParseArgs")
    /\ LET n == Span(inp, EOL)
       IN /\ m_buffer' = m_buffer \o Words(SubSeq(inp, 1, n))
          /\ inp' = From(inp, n + 1)
          /\ IF n = Len(inp)
             THEN op' = "READ" /\ UNCHANGED m_cmdstateidx
             ELSE m_cmdstateidx' = "ParseArgsEOL" /\ UNCHANGED op
    /\ UNCHANGED <<clientVars, m_stateidx, m_cmd, m_output, m_resultstr, m_resultstate, m_refuseInputFlag,
                   m_delegateHandler, caller, dbuf, ending, lost, served, netVars, handlerVars>>

\* The arguments of REQUEST: at most one command and at most one tag, in any order.
RequestArgs(args) == \A i, j \in 1..Len(args) : (args[i] \in Tags <=> args[j] \in Tags) => i = j

\* What the commands of MainProtocolHandler do in state st: what they print and the
\* state they return, "none" to terminate. That AUTH is denied for want of an
\* authenticator cannot happen: AuthenticationFactory always makes one.
Outcome(st, cmd, args) ==
    LET stay(reply) == [str |-> <<reply>>, state |-> st]
    IN CASE cmd = "AUTH" /\ args = <<>> -> [str |-> <<"MECHS">>, state |-> "Authentication"]
         [] cmd = "MECH" /\ args = <<"NONE">> -> [str |-> <<"OK no authentication">>, state |-> "Authenticated"]
         [] cmd = "MECH" /\ Len(args) = 1 /\ args # <<"NONE">> -> [str |-> <<"ERR denied", "MECHS">>, state |-> st]
         [] cmd = "QUIT" /\ args = <<>> -> [str |-> <<"BYE">>, state |-> "none"]
         [] cmd = "CAPABILITIES" /\ args = <<>> -> stay("OK capabilities")
         [] cmd = "REQUEST" /\ RequestArgs(args) -> [str |-> <<>>, state |-> st]
         [] OTHER -> stay("ERR arguments")

\* The request that is not answered, with what the client has sent behind it.
Asked ==
    LET k == Max(Requests)
    IN [request |-> script[k].job.request, answer |-> script[k].job.answer, rest |-> Bytes(k, sent)]

\* doRequest() delegates to a new filter for document types.
RunCommand(cmd, args) ==
    LET o == Outcome(m_stateidx, cmd, args)
    IN /\ m_cmdstateidx' = "ProcessOutput"
       /\ m_resultstr' = o.str
       /\ m_resultstate' = o.state
       /\ IF cmd = "REQUEST" /\ o.str = <<>>
          THEN m_delegateHandler' = "doctype" /\ dbuf' = <<>> /\ job' = Asked
          ELSE UNCHANGED <<m_delegateHandler, dbuf, job>>

ParseArgsEOL ==
    /\ LineTurn("ParseArgsEOL")
    /\ LET e == ConsumeEOL(inp)
       IN /\ inp' = e.rest
          /\ IF e.found /\ m_cmd # <<>>
             THEN RunCommand(m_cmd[1], m_buffer) /\ UNCHANGED <<op, m_output>>
             ELSE /\ UNCHANGED <<m_resultstr, m_resultstate, m_delegateHandler, dbuf, job>>
                  /\ CASE ~e.found /\ e.rest = <<>> -> op' = "READ" /\ UNCHANGED <<m_cmdstateidx, m_output>>
                       [] ~e.found /\ e.rest # <<>> -> Refuse("ERR bad command line")
                       [] e.found /\ m_buffer # <<>> -> Refuse("ERR command line starting with spaces")
                       [] OTHER -> m_cmdstateidx' = "EnterCommand" /\ UNCHANGED <<op, m_output>>
    /\ UNCHANGED <<clientVars, m_stateidx, m_buffer, m_cmd, m_refuseInputFlag, caller, ending, lost, served,
                   net, wire, handlerVars>>

\* A line feed that has not come yet, and a carriage return without one, end the
\* block: the next one is read.
ProtocolError ==
    /\ LineTurn("ProtocolError")
    /\ LET e == ConsumeEOL(From(inp, Span(inp, EOL) + 1))
       IN /\ inp' = e.rest
          /\ IF e.found
             THEN m_cmdstateidx' = "EnterCommand" /\ m_buffer' = <<>> /\ UNCHANGED op
             ELSE op' = "READ" /\ UNCHANGED <<m_cmdstateidx, m_buffer>>
    /\ UNCHANGED <<clientVars, m_stateidx, m_cmd, m_output, m_resultstr, m_resultstate, m_refuseInputFlag,
                   m_delegateHandler, caller, dbuf, ending, lost, served, netVars, handlerVars>>

-----------------------------------------------------------------------------
(* LineProtocolHandler::nextOperation(): answering and delegating *)

\* The result is printed in pieces that fit into the output block; then the state
\* machine takes the state the command has returned.
ProcessOutput ==
    /\ LineTurn("ProcessOutput")
    /\ LET n == Min({OutSize - Len(m_output), Len(m_resultstr)})
       IN CASE m_resultstr # <<>> ->
                 /\ m_output' = m_output \o SubSeq(m_resultstr, 1, n)
                 /\ m_resultstr' = From(m_resultstr, n + 1)
                 /\ op' = "WRITE"
                 /\ UNCHANGED <<m_cmdstateidx, m_stateidx>>
            [] m_resultstr = <<>> /\ m_resultstate = "none" ->
                 /\ m_cmdstateidx' = "Terminate"
                 /\ op' = "CLOSE"
                 /\ UNCHANGED <<m_stateidx, m_output, m_resultstr>>
            [] OTHER ->
                 /\ m_stateidx' = m_resultstate
                 /\ m_cmdstateidx' = "Init"
                 /\ UNCHANGED <<op, m_output, m_resultstr>>
    /\ UNCHANGED <<clientVars, m_buffer, m_cmd, m_resultstate, delegateVars, netVars, handlerVars>>

\* The delegate is given the rest of the input. The data handler scans it in place,
\* in the buffer the line handler goes on to use (inp).
Delegate ==
    IF m_delegateHandler = "doctype"
    THEN dbuf' = dbuf \o inp /\ UNCHANGED <<inp, caller, handlerVars>>
    ELSE /\ PutInput(m_input, inp)
         /\ inp' = m_input'.buf
         /\ outsize' = OutSize
         /\ caller' = "delegate"
         /\ UNCHANGED <<dbuf, m_state, m_esc_stm, m_writedata, given, lastError, cmdh>>

\* The code would return WRITE first if an output were pending; none is (Control in
\* module MainProtocol_proofs).
InitCommand ==
    /\ LineTurn("Init")
    /\ m_buffer' = <<>>
    /\ m_cmd' = <<>>
    /\ m_resultstr' = <<>>
    /\ m_resultstate' = "none"
    /\ IF m_delegateHandler = "none"
       THEN m_cmdstateidx' = "EnterCommand" /\ UNCHANGED <<inp, caller, dbuf, handlerVars>>
       ELSE m_cmdstateidx' = "ProcessingDelegation" /\ Delegate
    /\ UNCHANGED <<clientVars, m_stateidx, m_output, m_refuseInputFlag, m_delegateHandler, ending, lost, served,
                   netVars, op>>

-----------------------------------------------------------------------------
(* REQUEST: document type detection, the data already read, the data to come *)

\* A detector knows its answer, at the latest, when it sees a line that starts
\* with a dot: the end of data, or an escaped dot.
LineWithDot == \E i \in 1..(Len(dbuf) - 1) : dbuf[i] = LF /\ dbuf[i + 1] = DOT

InDetection == LineTurn("ProcessingDelegation") /\ m_delegateHandler = "doctype"

DoctypeReads ==
    /\ InDetection
    /\ ~LineWithDot
    /\ op' = "READ"
    /\ UNCHANGED <<mainVars, netVars, handlerVars>>

\* The start of endDoctypeDetection(): ANSWER is printed and the filter is gone.
EndDetection(end, who) ==
    /\ InDetection
    /\ m_cmdstateidx' = "ProcessOutput"
    /\ m_resultstate' = m_stateidx
    /\ m_resultstr' = <<"ANSWER">>
    /\ m_delegateHandler' = "none"
    /\ ending' = end
    /\ caller' = who
    /\ lost' = FALSE
    /\ taken' = <<>> /\ told' = FALSE /\ given' = 0
    /\ UNCHANGED <<clientVars, m_stateidx, m_buffer, m_cmd, m_output, inp, m_refuseInputFlag, dbuf, served,
                   netVars, op>>

\* A new handler object, with or without a command handler; its input is empty or,
\* when it is put at once, the block blk with the data up to eod.
HandlerCreated(h, error, size, blk, eod, unconsumed) ==
    /\ m_state' = "StartProcessing"
    /\ m_input' = blk
    /\ m_eoD' = eod
    /\ m_nextmsg' = eod
    /\ m_unconsumedInput' = unconsumed
    /\ m_gotEoD' = FALSE
    /\ m_esc_stm' = [state |-> "SRC", blk |-> <<>>]
    /\ m_writedata' = <<>>
    /\ outsize' = size
    /\ lastError' = error
    /\ cmdh' = h

\* The type is known and a command handler serves it. Its first operation is
\* fetched without input and without an output block, so that it is never WRITE:
\* the data handler of a command handler that writes first closes.
DoctypeServed == EndDetection("endRequest", "prefetch") /\ HandlerCreated("open", FALSE, 0, EmptyBlock, 0, FALSE)

\* The type is not recognized, or no command handler serves it: a data handler
\* without a command handler is given the data.
DoctypeRefused ==
    LET r == GetEoD(EmptyBlock, dbuf)
    IN EndDetection("endErrDocumentType", "redirect") /\ HandlerCreated("none", TRUE, OutSize, r.blk, r.eod, TRUE)

\* redirectInput(): the data handler gets all that the filter has read.
Redirect ==
    /\ caller = "prefetch"
    /\ op = "READ"
    /\ PutInput(m_input, dbuf)
    /\ outsize' = OutSize
    /\ caller' = "redirect"
    /\ op' = "none"
    /\ UNCHANGED <<clientVars, lineVars, inp, m_refuseInputFlag, m_delegateHandler, dbuf, ending, lost, served,
                   netVars, m_state, m_esc_stm, m_writedata, given, lastError, cmdh>>

\* CLOSE of the first operation: the data handler is replaced by one without a
\* command handler and without the error, which is given the data. The output the
\* command handler had written is gone with it.
PrefetchCloses ==
    LET r == GetEoD(EmptyBlock, dbuf)
    IN /\ caller = "prefetch"
       /\ op = "CLOSE"
       /\ HandlerCreated("none", FALSE, OutSize, r.blk, r.eod, TRUE)
       /\ taken' = <<>> /\ told' = FALSE /\ given' = 0
       /\ lost' = TRUE
       /\ caller' = "redirect"
       /\ op' = "none"
       /\ UNCHANGED <<clientVars, lineVars, inp, m_refuseInputFlag, m_delegateHandler, dbuf, ending, served,
                      netVars>>

\* WRITE: the output goes to the result.
RedirectWrites ==
    /\ caller = "redirect"
    /\ op = "WRITE"
    /\ m_resultstr' = m_resultstr \o m_writedata
    /\ m_writedata' = <<>>
    /\ op' = "none"
    /\ UNCHANGED <<clientVars, m_cmdstateidx, m_stateidx, m_buffer, m_cmd, m_output, m_resultstate,
                   delegateVars, netVars, m_state, inputVars, m_esc_stm, outsize, given, lastError, cmdh>>

Status(end, error) ==
    CASE end = "endErrDocumentType" -> "ERR doctype"
      [] end = "endRequest" /\ error -> "ERR REQUEST"
      [] OTHER -> "OK REQUEST"

Answered ==
    served' = [i \in Requests |-> IF i \in DOMAIN served THEN served[i]
                                  ELSE [given |-> given, lost |-> lost, status |-> Status(ending, lastError)]]

\* READ: the data handler becomes the delegate. The line handler is told that
\* there is no data left (getDataLeft() of the filter).
RedirectReads_keepsInput ==
    /\ caller = "redirect"
    /\ op = "READ"
    /\ m_delegateHandler' = ending
    /\ m_nextmsg' = 0
    /\ UNCHANGED inp
    /\ caller' = "none"
    /\ op' = "none"
    /\ UNCHANGED <<clientVars, lineVars, m_refuseInputFlag, dbuf, ending, lost, served, netVars, m_state, m_input,
                   m_eoD, m_unconsumedInput, m_gotEoD, taken, told, outputVars, lastError, cmdh>>

RedirectReads ==
    /\ caller = "redirect"
    /\ op = "READ"
    /\ m_delegateHandler' = ending
    /\ m_nextmsg' = 0
    /\ inp' = <<>>
    /\ caller' = "none"
    /\ op' = "none"
    /\ UNCHANGED <<clientVars, lineVars, m_refuseInputFlag, dbuf, ending, lost, served, netVars, m_state, m_input,
                   m_eoD, m_unconsumedInput, m_gotEoD, taken, told, outputVars, lastError, cmdh>>

\* CLOSE: the data left becomes the input of the line handler, which is not to be
\* replaced by that of the filter. With an error the request is answered, otherwise
\* the closed data handler becomes the delegate.
RedirectCloses ==
    /\ caller = "redirect"
    /\ op = "CLOSE"
    /\ inp' = DataLeft
    /\ m_refuseInputFlag' = (DataLeft # <<>>)
    /\ IF lastError
       THEN m_resultstr' = Append(m_resultstr, Status(ending, TRUE)) /\ Answered /\ UNCHANGED m_delegateHandler
       ELSE m_delegateHandler' = ending /\ UNCHANGED <<m_resultstr, served>>
    /\ caller' = "none"
    /\ op' = "none"
    /\ UNCHANGED <<clientVars, m_cmdstateidx, m_stateidx, m_buffer, m_cmd, m_output, m_resultstate, dbuf,
                   ending, lost, netVars, handlerVars>>

\* The delegate closes: endRequest() or endErrDocumentType().
DelegateCloses_ignoresFlag ==
    /\ caller = "delegate"
    /\ op = "CLOSE"
    /\ m_cmdstateidx' = "ProcessOutput"
    /\ m_resultstate' = m_stateidx
    /\ m_resultstr' = <<Status(ending, lastError)>>
    /\ Answered
    /\ m_delegateHandler' = "none"
    /\ inp' = DataLeft
    /\ caller' = "none"
    /\ op' = "none"
    /\ UNCHANGED <<clientVars, m_stateidx, m_buffer, m_cmd, m_output, m_refuseInputFlag, dbuf, ending,
                   lost, netVars, handlerVars>>

DelegateCloses ==
    /\ caller = "delegate"
    /\ op = "CLOSE"
    /\ m_cmdstateidx' = "ProcessOutput"
    /\ m_resultstate' = m_stateidx
    /\ m_resultstr' = <<Status(ending, lastError)>>
    /\ Answered
    /\ m_delegateHandler' = "none"
    /\ inp' = IF m_refuseInputFlag THEN inp ELSE DataLeft
    /\ caller' = "none"
    /\ op' = "none"
    /\ UNCHANGED <<clientVars, m_stateidx, m_buffer, m_cmd, m_output, m_refuseInputFlag, dbuf, ending,
                   lost, netVars, handlerVars>>

\* nextOperation() of the data handler.
HandlerTurn == caller # "none" /\ NextOperation /\ UNCHANGED mainVars

-----------------------------------------------------------------------------
\* The client has no more to send, or the dialogue is terminated.
Done ==
    \/ Reading /\ net = <<>> /\ sent = Len(script)
    \/ m_cmdstateidx = "Terminate"

Finished == Done /\ UNCHANGED allVars

MainNext ==
    \/ ClientSends \/ LineReceives \/ LineSends \/ DelegateReceives \/ DelegateSends
    \/ EnterCommand \/ ParseArgs \/ ParseArgsEOL \/ ProtocolError \/ ProcessOutput \/ InitCommand
    \/ DoctypeReads \/ DoctypeServed \/ DoctypeRefused
    \/ Redirect \/ PrefetchCloses \/ RedirectWrites \/ RedirectReads \/ RedirectCloses \/ DelegateCloses
    \/ HandlerTurn \/ Finished

MainSpec == MainInit /\ [][MainNext]_allVars

\* The client sends what it has to send, the network delivers it and takes what is
\* written, and the connection calls nextOperation() after every operation.
FairMainSpec == MainSpec /\ WF_allVars(MainNext)

-----------------------------------------------------------------------------
(* Properties *)

(***************************************************************************)
(* What the dialogue means for a client: how the protocol stands after i   *)
(* messages (the state of MainSTM, "none" behind a QUIT, and whether the   *)
(* next line is taken for the rest of one that starts with a space) and    *)
(* what is replied to them. No code computes these.                        *)
(*                                                                         *)
(* ReplyTo is the reply that is due to a message. Two things the code does *)
(* keep clients from a due reply, and the references below name them: the  *)
(* line behind one that starts with a space gets no reply (ReplyPrinted,   *)
(* EveryLineAnswered), and the output of a command handler that writes     *)
(* before it reads is lost (the field lost of served, AnswersComplete).    *)
(***************************************************************************)
Word(line) == SubSeq(line, 1, Span(line, EOL \cup {SP}))
Args(line) == Words(SubSeq(line, Len(Word(line)) + 1, Span(line, EOL)))
Complete(line) == ConsumeEOL(From(line, Span(line, EOL) + 1)).found

Executed(a, line) == ~a.skip /\ a.st # "none" /\ Known(a.st, Word(line)) /\ Complete(line)

After(a, line) ==
    IF ~Executed(a, line) THEN [a EXCEPT !.skip = FALSE]
    ELSE IF Word(line) = <<>> THEN [a EXCEPT !.skip = (Args(line) # <<>>)]
    ELSE [a EXCEPT !.st = Outcome(a.st, Word(line)[1], Args(line)).state]

Standing(msgs) ==
    LET s[i \in 0..Len(msgs)] ==
            IF i = 0 THEN [st |-> "Unauthenticated", skip |-> FALSE] ELSE After(s[i - 1], msgs[i].line)
    IN s

\* The reply to message m, a request that was served as r says: its data is inside
\* ANSWER, the end of data marker and the status.
ReplyTo(st, m, r) ==
    IF st = "none" THEN <<>>
    ELSE IF ~Known(st, Word(m.line)) THEN <<"ERR unknown command">>
    ELSE IF ~Complete(m.line) THEN <<"ERR bad command line">>
    ELSE IF Word(m.line) = <<>>
    THEN IF Args(m.line) = <<>> THEN <<>> ELSE <<"ERR command line starting with spaces">>
    ELSE IF m.job # NoJob
    THEN <<"ANSWER">> \o Escaped(SubSeq(m.job.answer, 1, r.given)) \o Marker \o <<r.status>>
    ELSE Outcome(st, Word(m.line)[1], Args(m.line)).str

\* What is printed for message m: the reply due, unless its line is skipped with the
\* line before it, which starts with a space.
ReplyPrinted(a, m, r) == IF a.skip THEN <<>> ELSE ReplyTo(a.st, m, r)

\* What is printed for the first i messages, when the requests among them that are
\* answered were served as res says.
RepliesTo(msgs, res) ==
    LET reply[i \in 0..Len(msgs)] ==
            IF i = 0 THEN <<>>
            ELSE IF msgs[i].job # NoJob /\ i \notin DOMAIN res THEN reply[i - 1]
            ELSE reply[i - 1] \o ReplyPrinted(Standing(msgs)[i - 1], msgs[i], res[i])
    IN reply

\* A line ends in LF or CR LF and has no other end of line in it; in the arguments of
\* a known command there may be one CR, as long as CR or LF do not follow it.
EndsLine(s) == From(s, Span(s, EOL) + 1) \in {<<LF>>, <<CR, LF>>}

StrayCR(s) ==
    LET n == Span(s, EOL)
    IN n + 2 <= Len(s) /\ s[n + 1] = CR /\ s[n + 2] \notin EOL /\ EndsLine(From(s, n + 2))

IsRequest(a, line) == Executed(a, line) /\ Word(line) = <<"REQUEST">> /\ RequestArgs(Args(line))

\* The clients of the dialogue send data behind the lines that are executed as
\* requests, and only behind these. A line that starts with a dot is left out: behind
\* a request it may be unescaped by the data handler that is given it.
Proper(a, m) ==
    /\ EndsLine(m.line) \/ (StrayCR(m.line) /\ ~a.skip /\ a.st # "none" /\ Known(a.st, Word(m.line)))
    /\ m.line[1] # DOT
    /\ m.job # NoJob <=> IsRequest(a, m.line)

Jobs == [request : Seq(Chars), answer : Seq(Chars)]

ASSUME ScriptsAssumption ==
    /\ Scripts \subseteq Seq([line : Seq(Chars), job : Jobs \cup {NoJob}])
    /\ \A s \in Scripts : \A i \in 1..Len(s) : Proper(Standing(s)[i - 1], s[i])

ASSUME TokensAssumption == SP \notin EOL /\ "ANSWER" \notin Chars

\* Everything a client sends is answered, in order and exactly once, however the
\* network cuts it into blocks and in whatever order its command handlers read,
\* write and close: when the server waits for input it has not been sent, it waits
\* for a command (or for the line it will skip behind one that starts with a space),
\* and the client has read the replies to all it has sent; the same when it closes
\* (LineProtocolHandler::nextOperation(), redirectInput()). Two replies are not the
\* ones due: none for a skipped line, and an empty answer where output was lost.
EverythingAnswered ==
    /\ Reading /\ net = <<>> =>
          /\ IF Standing(script)[sent].skip THEN m_cmdstateidx = "ProtocolError"
             ELSE m_cmdstateidx = "EnterCommand" /\ m_buffer = <<>>
          /\ DOMAIN served = Requests
          /\ wire = RepliesTo(script, served)[sent]
    /\ m_cmdstateidx = "Terminate" => DOMAIN served = Requests /\ wire = RepliesTo(script, served)[sent]

\* The dialogue goes on to its end: no turn of the two loops of nextOperation() and
\* of redirectInput() is repeated for ever, and every request is answered so that
\* the client can send the next (nextOperation()).
DialogueEnds == <>Done

\* Until the data handler terminates, its command handler has read the beginning of
\* the request, through detection, redirection and delegation, and all of it when
\* it was told the end of data (redirectInput(), putInput()).
RequestReadExactly ==
    m_state # "Terminated" => RequestExact

\* interruptDataSessionMarker()
InterruptMarker_anyDelegate ==
    IF m_delegateHandler # "none" /\ m_cmdstateidx = "ProcessingDelegation" THEN Marker ELSE <<>>
InterruptMarker ==
    IF m_delegateHandler \in {"endRequest", "endErrDocumentType"}
       /\ m_cmdstateidx = "ProcessingDelegation" /\ m_state # "Terminated"
    THEN Marker ELSE <<>>

\* A client that has read s has read ANSWER and not the end of data.
InAnswer(s) ==
    \E i \in 1..Len(s) :
        /\ s[i] = "ANSWER"
        /\ \A j \in i..(Len(s) - 2) : ~(s[j] = LF /\ s[j + 1] = DOT /\ s[j + 2] # DOT)

\* nextOperation() of the line handler has returned WRITE; what the client will have
\* read when the write is finished.
Writing == op = "WRITE" /\ caller \in {"none", "delegate"}
Underway == IF caller = "delegate" THEN wire \o m_writedata ELSE wire \o m_output

\* While the server waits for input, the marker that would end an interrupted data
\* session is sent to exactly the clients that wait for the end of an answer; while
\* it writes, to no other client (interruptDataSessionMarker()). Module Connection
\* builds on both.
InterruptMatchesClient ==
    /\ Reading => (InterruptMarker = Marker <=> InAnswer(wire))
    /\ Writing => (InterruptMarker = Marker => InAnswer(Underway))

-----------------------------------------------------------------------------
(***************************************************************************)
(* What the comments of the code say and the code does not do: TLC finds   *)
(* each of the following violated. They are the cases the properties above *)
(* except.                                                                 *)
(***************************************************************************)

\* A request that is answered with OK has the whole answer of its command handler
\* ("request to write data", commandHandler.hpp:60).
AnswersComplete == \A i \in DOMAIN served : served[i].status = "OK REQUEST" => ~served[i].lost

\* Every line is answered in the state the commands before it lead to: behind an error
\* "the rest of the line has to be discarded" (lineProtocolHandler.hpp:187), and no
\* other line.
EveryLineAnswered ==
    Reading /\ net = <<>> =>
        LET due[i \in 0..sent] ==
                IF i = 0 THEN <<>>
                ELSE due[i - 1] \o ReplyTo(Standing(script)[i - 1].st, script[i], served[i])
        IN wire = due[sent]

\* "Get the termination marker to send for an abort of a running data session"
\* (protocolHandler.hpp:143), in all states: whatever the connection waits for, the
\* marker is there when the client is inside an answer.
InterruptFramed ==
    Reading \/ Writing => (InAnswer(Underway) => InterruptMarker = Marker)
=============================================================================
