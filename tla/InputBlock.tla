----------------------------- MODULE InputBlock -----------------------------
(***************************************************************************)
(* The blocks of the wolframe protocol (ioblocks.hpp, ioblocks.cpp): the   *)
(* automaton of InputBlock::getEoDpos(), which finds the end of data in a  *)
(* block read from the network and removes the dots that escape a line     *)
(* starting with a dot, and EscapeSTM::process(), which writes data with   *)
(* such lines escaped to an output block of limited size.                  *)
(*                                                                         *)
(* Positions count from 0, as in the code: byte p of a block is buf[p+1].  *)
(* The bytes a property tells apart are CR, LF, DOT and the others.        *)
(***************************************************************************)
EXTENDS Naturals, Sequences, FiniteSets, SequencesExt, FiniteSetsExt

CONSTANTS CR, LF, DOT

ASSUME CharsDiffer == CR # LF /\ CR # DOT /\ LF # DOT

\* The mark that ends the data in both directions.
Marker == <<CR, LF, DOT, CR, LF>>

(***************************************************************************)
(* What escaping means: a dot after a line feed is sent twice. This is the *)
(* reference both directions are compared with; no code computes it. The   *)
(* recursive functions of this module are operators of their own, so that  *)
(* lemmas can speak of them at every position.                             *)
(***************************************************************************)
EscapedByte(data, i) ==
    IF data[i] = DOT /\ i > 1 /\ data[i - 1] = LF THEN <<DOT, DOT>> ELSE <<data[i]>>

\* The first i bytes of data, escaped.
EscapedTo(data) ==
    LET esc[i \in 0..Len(data)] == IF i = 0 THEN <<>> ELSE esc[i - 1] \o EscapedByte(data, i)
    IN esc

Escaped(data) == EscapedTo(data)[Len(data)]

(***************************************************************************)
(* A block: the bytes put into it, pos(), m_nextpos, whether m_eodState is *)
(* CR_LF_DOT_CR_LF (gotEoD) and m_eodcharbuf, the part of a marker that    *)
(* ended the previous block. The other states do not outlive a call.       *)
(***************************************************************************)
EmptyBlock == [buf |-> <<>>, pos |-> 0, nextpos |-> 0, gotEoD |-> FALSE, eodcharbuf |-> <<>>]

\* The automaton: the state after character ch in state st.
EoDStep(st, ch) ==
    LET next == CASE ch = CR  -> [SRC |-> "CR", CR |-> "CR", CR_LF |-> "CR",
                                  CR_LF_DOT |-> "CR_LF_DOT_CR", CR_LF_DOT_CR |-> "CR", EoD |-> "EoD"]
                  [] ch = LF  -> [SRC |-> "CR_LF", CR |-> "CR_LF", CR_LF |-> "CR_LF",
                                  CR_LF_DOT |-> "EoD", CR_LF_DOT_CR |-> "EoD", EoD |-> "EoD"]
                  [] ch = DOT -> [SRC |-> "SRC", CR |-> "SRC", CR_LF |-> "CR_LF_DOT",
                                  CR_LF_DOT |-> "SRC", CR_LF_DOT_CR |-> "SRC", EoD |-> "EoD"]
                  [] OTHER    -> [SRC |-> "SRC", CR |-> "SRC", CR_LF |-> "SRC",
                                  CR_LF_DOT |-> "SRC", CR_LF_DOT_CR |-> "SRC", EoD |-> "EoD"]
    IN next[st]

\* The states the loop over the block goes through; "EoD" is the code's
\* CR_LF_DOT_CR_LF, where it stops.
EoDStates(buf) ==
    LET st[i \in 0..Len(buf)] == IF i = 0 THEN "SRC" ELSE EoDStep(st[i - 1], buf[i])
    IN st

\* The result of the loop: the last state, srcendpos, where the last candidate for
\* a marker starts, delchrs and bufpos, where the marker ends.
Scan(buf) ==
    LET n == Len(buf)
        st == EoDStates(buf)
        \* the LF of a CR LF continues the candidate that its CR has started
        starts == {i \in 1..n : \/ st[i] = "CR"
                                \/ st[i] = "CR_LF" /\ st[i - 1] # "CR"}
        ends == {i \in 1..n : st[i] = "EoD"}
    IN [st |-> st[n],
        srcendpos |-> IF st[n] = "SRC" THEN n ELSE Max(starts) - 1,
        delchrs |-> {d \in 0..(n - 1) : st[d + 1] = "CR_LF_DOT"},
        bufpos |-> IF ends = {} THEN n ELSE Min(ends) - 1]

\* The bytes of the first i that are not removed.
KeptTo(buf, delchrs) ==
    LET kept[i \in 0..Len(buf)] ==
            IF i = 0 THEN <<>>
            ELSE IF i - 1 \in delchrs THEN kept[i - 1] ELSE Append(kept[i - 1], buf[i])
    IN kept

\* remove_chars_from_buf(): the bytes behind a removed one move up in place, the
\* last bytes of the block stay where they were.
RemoveChars_tailNotMoved(buf, delchrs) ==
    LET kept == SelectSeq([i \in 1..Len(buf) |-> i], LAMBDA i : i - 1 \notin delchrs)
        moved == SelectSeq(kept, LAMBDA i : \E d \in delchrs : d >= i)
    IN [i \in 1..Len(buf) |-> IF i <= Len(moved) THEN buf[kept[i]] ELSE buf[i]]
RemoveChars(buf, delchrs) ==
    LET kept == KeptTo(buf, delchrs)[Len(buf)]
    IN kept \o SubSeq(buf, Len(kept) + 1, Len(buf))

\* The position where the data ends, behind the removed dots. A dot of the marker
\* is removed as well, but from behind that position.
DataEnd(a) ==
    IF \E d \in a.delchrs : d >= a.srcendpos
    THEN a.srcendpos - Cardinality(a.delchrs) + 1
    ELSE a.srcendpos - Cardinality(a.delchrs)

\* m_nextpos, where the data behind the marker starts.
NextPos_onMarker(a) == a.bufpos - Cardinality(a.delchrs)
NextPos(a) == a.bufpos - Cardinality(a.delchrs) + 1

\* getEoDpos(0) and getEoD() on the block with the bytes buf: the block after the
\* call and, as eod, the position where the data ends. A block without a byte is
\* left alone, with the part of a marker it holds.
GetEoD(blk, buf) ==
    LET a == Scan(buf)
        data == RemoveChars(buf, a.delchrs)
    IN IF buf = <<>>
       THEN [blk |-> [blk EXCEPT !.buf = <<>>, !.pos = 0], eod |-> 0]
       ELSE IF a.st = "EoD"
       THEN [blk |-> [blk EXCEPT !.buf = data, !.pos = Len(buf) - Cardinality(a.delchrs),
                                 !.nextpos = NextPos(a), !.gotEoD = TRUE],
             eod |-> DataEnd(a)]
       ELSE [blk |-> [blk EXCEPT !.buf = data, !.pos = DataEnd(a),
                                 !.eodcharbuf = IF a.st = "SRC" THEN @
                                                ELSE SubSeq(buf, a.srcendpos + 1, Len(buf))],
             eod |-> DataEnd(a)]

(***************************************************************************)
(* EscapeSTM: its state and the rest of the block it works on (hasMore()   *)
(* is blk # <<>>). EscapeOne is a turn of the loop of process() with room  *)
(* for one byte at least; process() ends when the output is full.          *)
(***************************************************************************)
EscapeOne_repeatsDot(e, size) ==
    LET ch == Head(e.blk)
        printed == Append(e.out, ch)
    IN IF e.state = "LF" /\ ch = DOT
       THEN IF Len(printed) = size
            THEN [state |-> "LF", blk |-> e.blk, out |-> printed]
            ELSE [state |-> "SRC", blk |-> Tail(e.blk), out |-> Append(printed, DOT)]
       ELSE [state |-> IF ch = LF THEN "LF" ELSE "SRC", blk |-> Tail(e.blk), out |-> printed]

EscapeOne(e, size) ==
    LET ch == Head(e.blk)
        printed == IF e.state = "LFdot" THEN e.out ELSE Append(e.out, ch)
    IN CASE e.state = "SRC" ->
              [state |-> IF ch = LF THEN "LF" ELSE "SRC", blk |-> Tail(e.blk), out |-> printed]
         [] e.state # "SRC" /\ ch = DOT /\ Len(printed) = size ->
              [state |-> "LFdot", blk |-> e.blk, out |-> printed]
         [] e.state # "SRC" /\ ch = DOT /\ Len(printed) < size ->
              [state |-> "SRC", blk |-> Tail(e.blk), out |-> Append(printed, DOT)]
         [] OTHER ->
              [state |-> IF ch = LF THEN "LF" ELSE "SRC", blk |-> Tail(e.blk), out |-> printed]

\* process(): every turn prints a byte, so that size turns fill the output.
EscapeTurns(e, size) ==
    LET after[i \in 0..size] ==
            IF i = 0 THEN [state |-> e.state, blk |-> e.blk, out |-> <<>>]
            ELSE LET a == after[i - 1]
                 IN IF a.blk = <<>> \/ Len(a.out) = size THEN a ELSE EscapeOne(a, size)
    IN after

Escape(e, size) == EscapeTurns(e, size)[size]
=============================================================================
