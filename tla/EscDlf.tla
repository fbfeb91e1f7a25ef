------------------------------- MODULE EscDlf -------------------------------
(***************************************************************************)
(* EscDlfProtocolHandler, the data phase of a request: it hands what the   *)
(* network delivers, unescaped and up to the end of data, to a command     *)
(* handler and writes the handler's output, escaped and followed by the    *)
(* end of data marker, to the network.                                     *)
(*                                                                         *)
(* nextOperation() is a loop over m_state; every action below that has a   *)
(* guard on m_state is a turn of it, taken while op is "none", and sets op *)
(* where the loop returns. The caller's part (Receive, Send) follows the   *)
(* contract of ProtocolHandler: putInput() after READ, getOutput() after   *)
(* WRITE, getDataLeft() after CLOSE.                                       *)
(*                                                                         *)
(* The command handler is any CommandHandler: it may read, write and close *)
(* in any order, fail at any time and stop reading before the end.         *)
(***************************************************************************)
EXTENDS InputBlock

CONSTANTS
    Chars,      \* the bytes
    InSize,     \* size of the input buffer in bytes
    OutSize,    \* size of the output buffer in bytes
    Exchanges   \* the requests to try: records [request, answer, rest]

\* An unfinished marker takes up to four bytes of the input buffer
\* (getNetworkMessageRead() fails without room for one more).
ASSUME BufferSizes == InSize \in Nat /\ InSize > 4 /\ OutSize \in Nat \ {0}

ASSUME CharsAssumption == {CR, LF, DOT} \subseteq Chars

ASSUME ExchangesAssumption ==
    Exchanges \subseteq [request : Seq(Chars), answer : Seq(Chars), rest : Seq(Chars)]

VARIABLES
    job,                \* the request, the handler's answer, what the client sends after it
    net,                \* bytes sent by the client and not read yet
    wire,               \* bytes written to the client
    op,                 \* what nextOperation() has returned, "none" while it runs
    m_state,
    m_input,            \* the InputBlock
    m_eoD,              \* end of the data in m_input
    m_nextmsg,          \* start of the data left
    m_unconsumedInput,
    m_gotEoD,
    m_esc_stm,          \* the EscapeSTM
    outsize,            \* size of m_output, 0 before setOutputBuffer()
    m_writedata,        \* bytes for the next getOutput()
    lastError,
    cmdh,               \* the command handler: "none", "open", "closed" (it has returned CLOSE or thrown)
    taken,              \* what it was given by putInput(),
    told,               \* whether it was told the end of data,
    given               \* how many bytes of its answer it has handed out

inputVars == <<m_input, m_eoD, m_nextmsg, m_unconsumedInput, m_gotEoD, taken, told>>
outputVars == <<m_esc_stm, outsize, m_writedata, given>>
netVars == <<job, net, wire>>
vars == <<netVars, op, m_state, inputVars, outputVars, lastError, cmdh>>


\* The caller has the handler made and the first input is to be put. The handler
\* without a command handler is the one created when there is none for the
\* document; it carries the error.
Init ==
    /\ job \in Exchanges
    /\ net = Escaped(job.request) \o Marker \o job.rest
    /\ wire = <<>>
    /\ op = "START"
    /\ m_state = "StartProcessing"
    /\ m_input = EmptyBlock
    /\ m_eoD = 0
    /\ m_nextmsg = 0
    /\ m_unconsumedInput = FALSE
    /\ m_gotEoD = FALSE
    /\ m_esc_stm = [state |-> "SRC", blk |-> <<>>]
    /\ outsize = OutSize
    /\ m_writedata = <<>>
    /\ cmdh \in {"open", "none"}
    /\ lastError = (cmdh = "none")
    /\ taken = <<>>
    /\ told = FALSE
    /\ given = 0

-----------------------------------------------------------------------------
(* Input *)

Consume_keepsEoD(blk, eod, st) ==
    /\ m_unconsumedInput' = ~blk.gotEoD
    /\ UNCHANGED <<taken, told, m_gotEoD>>
    /\ m_eoD' = eod
    /\ m_nextmsg' = eod
    /\ m_input' = blk

\* consumeInput() on block blk whose data ends at eod, in state st: the command
\* handler is given the data unless the input is discarded.
Consume(blk, eod, st) ==
    /\ m_unconsumedInput' = FALSE
    /\ IF cmdh # "none" /\ st # "DiscardInput"
       THEN taken' = taken \o SubSeq(blk.buf, 1, eod) /\ told' = (told \/ blk.gotEoD)
       ELSE UNCHANGED <<taken, told>>
    /\ m_eoD' = eod
    /\ IF blk.gotEoD
       THEN /\ m_gotEoD' = TRUE
            /\ m_nextmsg' = blk.nextpos
            /\ m_input' = [blk EXCEPT !.gotEoD = FALSE]
       ELSE /\ UNCHANGED m_gotEoD
            /\ m_nextmsg' = eod
            /\ m_input' = blk

\* putInput() of the bytes buf at the start of the buffer.
PutInput(blk, buf) ==
    LET r == GetEoD(blk, buf)
    IN IF m_state = "StartProcessing"
       THEN /\ m_input' = r.blk
            /\ m_eoD' = r.eod
            /\ m_nextmsg' = r.eod
            /\ m_unconsumedInput' = TRUE
            /\ UNCHANGED <<m_gotEoD, taken, told>>
       ELSE Consume(r.blk, r.eod, m_state)

\* getInputBlock() gives the buffer behind the bytes carried over from the last
\* block, the network fills it with the next bytes, putInput() takes all of it.
Receive ==
    /\ op \in {"START", "READ"}
    /\ \E n \in (IF op = "START" THEN 0 ELSE 1)..Len(net) :
        /\ n <= InSize - Len(m_input.eodcharbuf)
        /\ PutInput([m_input EXCEPT !.eodcharbuf = <<>>], m_input.eodcharbuf \o SubSeq(net, 1, n))
        /\ net' = SubSeq(net, n + 1, Len(net))
    /\ op' = "none"
    /\ UNCHANGED <<job, wire, m_state, outputVars, lastError, cmdh>>

\* getDataLeft()
DataLeft == SubSeq(m_input.buf, m_nextmsg + 1, m_input.pos)

-----------------------------------------------------------------------------
(* Output *)

\* getCommandHandlerWriteData(), when the command handler has the bytes pending:
\* a new block is fetched when the last one is escaped.
WriteData(pending) ==
    LET stm == IF m_esc_stm.blk = <<>> THEN [m_esc_stm EXCEPT !.blk = pending] ELSE m_esc_stm
        e == Escape(stm, outsize)
    IN [stm |-> [state |-> e.state, blk |-> e.blk], out |-> e.out]

\* getOutput() and the write of what it returns.
Send ==
    /\ op = "WRITE"
    /\ wire' = wire \o m_writedata
    /\ m_writedata' = <<>>
    /\ op' = "none"
    /\ UNCHANGED <<job, net, m_state, inputVars, m_esc_stm, outsize, given, lastError, cmdh>>

-----------------------------------------------------------------------------
(* The turns of nextOperation() *)

Turn(states) == op = "none" /\ m_state \in states

\* The states before the command handler has closed.
InProcess == Turn({"StartProcessing", "Processing"})

NoCommandHandler ==
    /\ InProcess
    /\ cmdh = "none"
    /\ m_state' = "DiscardInput"
    /\ UNCHANGED <<netVars, op, inputVars, outputVars, lastError, cmdh>>

\* The command handler wants to read: it gets the input there is; without any,
\* more is read, or, at the end of data, the rest of the phase is left to
\* DiscardInput.
HandlerReads ==
    /\ InProcess
    /\ cmdh = "open"
    /\ IF m_unconsumedInput
       THEN m_state' = "Processing" /\ op' = "none" /\ Consume(m_input, m_eoD, "Processing")
       ELSE /\ m_state' = IF m_gotEoD THEN "DiscardInput" ELSE "Processing"
            /\ op' = IF m_gotEoD THEN "none" ELSE "READ"
            /\ UNCHANGED inputVars
    /\ UNCHANGED <<netVars, outputVars, lastError, cmdh>>

\* The command handler has the next n bytes of its answer to write. Without an
\* output buffer nothing is escaped and the handler gives up.
HandlerWrites ==
    /\ InProcess
    /\ cmdh = "open"
    /\ \E n \in 1..(Len(job.answer) - given) :
        LET w == WriteData(SubSeq(job.answer, given + 1, given + n))
        IN /\ given' = given + n
           /\ m_esc_stm' = w.stm
           /\ m_writedata' = w.out
           /\ IF w.out # <<>>
              THEN m_state' = "FlushingOutput" /\ op' = "WRITE" /\ UNCHANGED lastError
              ELSE m_state' = "Terminated" /\ op' = "CLOSE" /\ lastError' = TRUE
    /\ UNCHANGED <<netVars, inputVars, outsize, cmdh>>

\* The command handler closes, with or without an error, or throws a
\* std::runtime_error.
HandlerCloses ==
    /\ InProcess
    /\ cmdh = "open"
    /\ cmdh' = "closed"
    /\ \E error \in BOOLEAN : lastError' = (lastError \/ error)
    /\ m_state' = "DiscardInput"
    /\ UNCHANGED <<netVars, op, inputVars, outputVars>>

\* What did not fit into the output buffer is written before the command handler
\* is called again (it has no second block: getOutput() has reset its size).
FlushOutput ==
    /\ Turn({"FlushingOutput"})
    /\ LET w == WriteData(<<>>)
       IN /\ m_esc_stm' = w.stm
          /\ m_writedata' = w.out
          /\ op' = IF w.out # <<>> THEN "WRITE" ELSE "none"
          /\ m_state' = IF w.out # <<>> THEN "FlushingOutput" ELSE "Processing"
    /\ UNCHANGED <<netVars, inputVars, outsize, given, lastError, cmdh>>

\* The input is read to its end before the marker is written and the handler ends.
Discard ==
    /\ Turn({"DiscardInput"})
    /\ IF m_gotEoD
       THEN /\ m_writedata' = Marker
            /\ m_state' = "Terminated"
            /\ op' = "WRITE"
            /\ UNCHANGED inputVars
       ELSE /\ UNCHANGED <<m_state, m_writedata>>
            /\ IF m_unconsumedInput
               THEN op' = "none" /\ Consume(m_input, m_eoD, "DiscardInput")
               ELSE op' = "READ" /\ UNCHANGED inputVars
    /\ UNCHANGED <<netVars, m_esc_stm, outsize, given, lastError, cmdh>>

Close ==
    /\ Turn({"Terminated"})
    /\ op' = "CLOSE"
    /\ UNCHANGED <<netVars, m_state, inputVars, outputVars, lastError, cmdh>>

NextOperation ==
    \/ NoCommandHandler \/ HandlerReads \/ HandlerWrites \/ HandlerCloses
    \/ FlushOutput \/ Discard \/ Close

\* The caller has the CLOSE and takes the data left.
Closed == op = "CLOSE" /\ UNCHANGED vars

Next == Receive \/ Send \/ NextOperation \/ Closed

Spec == Init /\ [][Next]_vars

-----------------------------------------------------------------------------
(* Properties *)

\* The command handler reads the request as the client wrote it, however the
\* network cuts it into blocks: at any time a beginning of it, and all of it when
\* it is told the end of data (getEoDpos(), consumeInput()).
RequestExact ==
    /\ IsPrefix(taken, job.request)
    /\ told => taken = job.request

\* The client reads the answer as the command handler wrote it, however small the
\* output buffer is: what is on the wire is the escaped answer so far and then the
\* marker, once (EscapeSTM::process(), getCommandHandlerWriteData()).
AnswerExact ==
    LET answered == Escaped(SubSeq(job.answer, 1, given)) \o Marker
    IN /\ IsPrefix(wire \o m_writedata, answered)
       /\ op = "CLOSE" => wire = answered

\* The handler closes only behind the end of data of its request, also when the
\* command handler has closed before, and the data it leaves to its caller is what
\* the client sent after the request, with no byte lost or repeated
\* (skipEoD(), getDataLeft()).
LeftExact ==
    op = "CLOSE" => DataLeft \o net = job.rest

\* What is left to do: bytes to read, bytes to escape and to write, turns of the
\* loop before the next operation.
Remaining ==
    LET unwritten == 2 * (Len(job.answer) - given + Len(m_esc_stm.blk))
        stage == [StartProcessing |-> 6, Processing |-> 6, FlushingOutput |-> 7,
                  DiscardInput |-> 3, Terminated |-> 0]
        pending == [START |-> 4, WRITE |-> 2, none |-> 1, READ |-> 0, CLOSE |-> 0]
    IN 3 * Len(net) + 3 * unwritten - (IF m_esc_stm.state = "LFdot" THEN 3 ELSE 0)
         + stage[m_state] + pending[op] + (IF m_unconsumedInput THEN 1 ELSE 0)

\* Every data phase ends: each step, whatever the command handler does and however
\* the network cuts the data, leaves less to do, so that the handler neither turns
\* for ever nor asks again for input it has consumed; and as TLC finds no deadlock,
\* the only state without a step is the one after CLOSE.
PhaseEnds == [][Remaining' < Remaining]_vars
=============================================================================
