------------------------------- MODULE MMLink -------------------------------
(***************************************************************************)
(* One remote-debug connection of the MMLink sample                        *)
(* (src/aalsamples/MMLink/SW/mmlink_connection.cpp).  The connection      *)
(* receives bytes into m_buf (at most BufSize), and while it is a         *)
(* management connection splits them into newline-terminated commands:    *)
(* an unbound connection accepts only "HANDLE <server id>", a bound one   *)
(* answers OK or UNKNOWN; a '|' turns a bound connection into a data      *)
(* connection, whose bytes handle_data consumes.                          *)
(*                                                                         *)
(* Data abstraction: a byte is one of                                      *)
(*   "H"  the text of a correct "HANDLE xxxxxxxx" line,                    *)
(*   "N"  the text of a command a bound connection answers OK: NOOP (any   *)
(*        line starting with it), a valid RESET or ENABLE,                 *)
(*   "X"  any other text (a bound connection answers UNKNOWN); IDENT,      *)
(*        answered with the device's identity, is not in the alphabet,     *)
(*   "|"  the pipe, "\n" the line end ('\r' behaves the same),             *)
(*   "0"  the '\0' handle_management writes over a line end.               *)
(* The peer's whole byte stream is chosen at Init from Streams; recv      *)
(* delivers any non-empty piece of what is left that fits the buffer.     *)
(* The server loop that calls the connection is not in the repository;   *)
(* it is modelled as: handle_receive, then handle_data or                 *)
(* handle_management, closing the connection on a failure.                *)
(***************************************************************************)
EXTENDS Naturals, Sequences, SequencesExt

CONSTANTS
    Streams,  \* the byte streams a peer may send
    BufSize   \* m_bufsize

ASSUME BufSize \in Nat \ {0}

VARIABLES
    stream,   \* the peer's bytes
    got,      \* how many of them recv has delivered
    buf,      \* m_buf[0 .. m_buf_end - 1]
    bound,    \* is_bound()
    isData,   \* is_data()
    closed,   \* the server closed the connection
    replies,  \* what send() has written back, in order
    dataOut   \* the bytes handle_data has consumed, in order

vars == <<stream, got, buf, bound, isData, closed, replies, dataOut>>

Init ==
    /\ stream \in Streams
    /\ got = 0 /\ buf = <<>>
    /\ bound = FALSE /\ isData = FALSE /\ closed = FALSE
    /\ replies = <<>> /\ dataOut = <<>>

-----------------------------------------------------------------------------
\* handle_unbound_command: only the correct HANDLE line binds and gets OK;
\* anything else fails the connection.
HandleUnboundCommand(cmd) ==
    IF cmd = <<"H">> THEN [fail |-> FALSE, bound |-> TRUE, reply |-> <<"OK">>]
    ELSE [fail |-> TRUE, bound |-> FALSE, reply |-> <<>>]

\* handle_bound_command: never fails; OK for a valid command, else UNKNOWN.
HandleBoundCommand(cmd) ==
    [fail |-> FALSE, bound |-> TRUE,
     reply |-> <<IF Head(cmd) = "N" THEN "OK" ELSE "UNKNOWN">>]

(* handle_management_command on the text of one line: an empty line is   *)
(* ignored, otherwise the handler of the current bound state runs.  The   *)
(* result is whether it fails, the bound state after it, what it sends.   *)
HandleCommand(cmd, bnd) ==
    IF cmd = <<>> THEN [fail |-> FALSE, bound |-> bnd, reply |-> <<>>]
    ELSE IF ~bnd THEN HandleUnboundCommand(cmd) ELSE HandleBoundCommand(cmd)

(* handle_management's loop from index i, the current command starting at *)
(* `start`.  A line end is overwritten with '\0' and its command run; a   *)
(* '|' ends the loop (data mode when bound, failure when not); at the end *)
(* of the buffer the unprocessed tail is moved to the front.  The result  *)
(* is the new buffer, bound and data flags, the failure flag and replies. *)
\* A plausible slip: the loop stops one byte early (i < m_buf_end - 1).
LoopEndsEarly(i, b) == i >= Len(b)

\* The for loop's exit test: i < m_buf_end, counting from 1 here.
LoopEnds(i, b) == i > Len(b)

\* A plausible slip: the unprocessed tail is dropped (m_buf_end = 0).
CarryNone(b, start) == <<>>

\* The remaining unprocessed bytes moved to the start of the buffer.
Carry(b, start) == SubSeq(b, start, Len(b))

RECURSIVE Scan(_, _, _, _, _)
Scan(b, i, start, bnd, reps) ==
    LET Done(fail, nb, data) ==
            [fail |-> fail, buf |-> nb, bound |-> bnd, data |-> data,
             replies |-> reps]
    IN
    IF LoopEnds(i, b) THEN Done(FALSE, Carry(b, start), FALSE)
    ELSE IF b[i] = "|"
         THEN IF bnd THEN Done(FALSE, b, TRUE)
              ELSE Done(TRUE, Carry(b, start), FALSE)
    ELSE IF b[i] = "\n"
         THEN LET r == HandleCommand(SubSeq(b, start, i - 1), bnd)
                  nb == [b EXCEPT ![i] = "0"]
              IN IF r.fail
                 THEN [fail |-> TRUE, buf |-> nb, bound |-> r.bound,
                       data |-> FALSE, replies |-> reps \o r.reply]
                 ELSE Scan(nb, i + 1, i + 1, r.bound, reps \o r.reply)
    ELSE Scan(b, i + 1, start, bnd, reps)

HandleManagement(b, bnd) == Scan(b, 1, 1, bnd, <<>>)

-----------------------------------------------------------------------------
(* handle_receive: no room means no read and no failure; otherwise recv    *)
(* returns a piece of what is left, EAGAIN when nothing is (no failure),  *)
(* or 0 when the peer has closed (failure).  The pieces it may deliver:   *)
\* A plausible slip: bytes_to_receive one larger than the room left.
PiecesOverRead ==
    LET room == BufSize - Len(buf) + 1
        left == Len(stream) - got
    IN IF room = 0 THEN {0} ELSE IF left = 0 THEN {0} ELSE 1..Min({room, left})

Pieces ==
    LET room == BufSize - Len(buf)
        left == Len(stream) - got
    IN IF room = 0 THEN {0} ELSE IF left = 0 THEN {0} ELSE 1..Min({room, left})

\* The peer has sent everything and closed its end: recv returns 0.
PeerClosed ==
    /\ ~closed /\ got = Len(stream) /\ Len(buf) < BufSize
    /\ closed' = TRUE
    /\ UNCHANGED <<stream, got, buf, bound, isData, replies, dataOut>>

\* handle_data consumes the whole buffer.  It has no return statement, so
\* the value the server loop tests is whatever the register holds: either
\* outcome.
HandleData(nb) ==
    /\ dataOut' = dataOut \o nb
    /\ buf' = <<>>
    /\ closed' \in BOOLEAN
    /\ UNCHANGED <<bound, isData, replies>>

\* One turn of the server loop on this connection: handle_receive of k
\* bytes, then handle_data (data mode) or handle_management.
ServeConnection ==
    /\ ~closed
    /\ \E k \in Pieces :
         LET nb == buf \o SubSeq(stream, got + 1, got + k) IN
         /\ got' = got + k
         /\ IF isData
            THEN HandleData(nb)
            ELSE LET m == HandleManagement(nb, bound) IN
                 /\ buf' = m.buf
                 /\ bound' = m.bound
                 /\ isData' = m.data
                 /\ replies' = replies \o m.replies
                 /\ closed' = m.fail
                 /\ UNCHANGED dataOut
    /\ UNCHANGED stream

Next == ServeConnection \/ PeerClosed \/ (closed /\ UNCHANGED vars)

\* The server loop keeps calling the connection while it is open.
Spec == Init /\ [][Next]_vars /\ WF_vars(ServeConnection)

-----------------------------------------------------------------------------
(* Reference: the management protocol as a function of the bytes, line by *)
(* line, independent of how recv split them.                              *)
\* The position of the first line end of s, 0 if it has none.
FirstLineEnd(s) ==
    LET ends == {i \in 1..Len(s) : s[i] = "\n"}
    IN IF ends = {} THEN 0 ELSE CHOOSE i \in ends : \A j \in ends : i <= j

RECURSIVE RefReplies(_, _)
RefReplies(s, bnd) ==
    LET n == FirstLineEnd(s)
        line == SubSeq(s, 1, n - 1)
        rest == SubSeq(s, n + 1, Len(s))
    IN IF n = 0 THEN <<>>
       ELSE IF line = <<>> THEN RefReplies(rest, bnd)
       ELSE IF ~bnd
            THEN IF line = <<"H">> THEN <<"OK">> \o RefReplies(rest, TRUE)
                 ELSE <<>>
            ELSE <<IF Head(line) = "N" THEN "OK" ELSE "UNKNOWN">>
                 \o RefReplies(rest, TRUE)

\* The bytes handle_management has finished with.
Consumed == SubSeq(stream, 1, got - Len(buf))

TypeOK ==
    /\ got \in 0..Len(stream)
    /\ Len(buf) <= BufSize
    /\ bound \in BOOLEAN /\ isData \in BOOLEAN /\ closed \in BOOLEAN

\* However recv splits the stream, an open management connection has
\* answered exactly the complete lines it has consumed, in order, as the
\* line protocol says (handle_management's compaction at lines 162-166
\* carries a partial command over to the next call).
RepliesMatchStream ==
    (~closed /\ ~isData) => replies = RefReplies(Consumed, FALSE)

\* Unless the connection is closed or turns to data, the server eventually
\* reads every byte the peer sends (handle_receive is never stuck on a full
\* m_buf) and answers every complete line: no line end stays in m_buf.
LinesAnswered ==
    <>[](closed \/ isData \/ (got = Len(stream) /\ ~Contains(buf, "\n")))

=============================================================================
