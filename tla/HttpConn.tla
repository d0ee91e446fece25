------------------------------ MODULE HttpConn -------------------------------
(***************************************************************************)
(* epoll/http_conn.cpp: what one entry of users[] does with the bytes of   *)
(* its connection, from read() through the parser and the response to      *)
(* write().  Its one-shot registration lets one thread at a time work on   *)
(* it (WebServer composes that with the other threads), so read(), an      *)
(* iteration of the parser's loop and a call of writev() are steps.        *)
(*                                                                         *)
(* A byte of the request is CR, LF or one of a line's other contents: get  *)
(* stands for a request line that parses, keep for the header Connection:  *)
(* keep-alive, each element of DOMAIN Length for a Content-Length header,  *)
(* anything else for a line the parser rejects as a request line and skips *)
(* as a header.                                                            *)
(***************************************************************************)
EXTENDS Integers, Sequences, FiniteSetsExt

CONSTANTS
    Streams,            \* what clients send: sequences of bytes
    READ_BUFFER_SIZE,
    Length,             \* what atol() makes of each Content-Length header, a long
    INT_MAX,            \* of int, which wraps what does not fit
    HeadLen,            \* m_write_idx of a response, which always fits its buffer
    FileLen,            \* size of a file that is not empty
    MaxClients          \* bound: connections that use the entry one after the other

ASSUME HttpAssumption ==
    /\ Streams \subseteq Seq(STRING)
    /\ READ_BUFFER_SIZE \in Nat \ {0} /\ INT_MAX \in Nat /\ INT_MAX > READ_BUFFER_SIZE
    /\ \A h \in DOMAIN Length : Length[h] \in Int /\ h # "CR" /\ h # "LF" /\ h # "keep"
    /\ HeadLen \in Nat \ {0} /\ FileLen \in Nat \ {0} /\ MaxClients \in Nat \ {0}

VARIABLES
    stream, sent, taken,   \* the client's bytes, how many it sent, how many recv() took
    m_read_buf,            \* m_read_idx is its length
    m_check_state, m_start_line, m_checked_idx, m_content_length, m_linger,
    m_write_idx, m_iv,     \* the response: its head, and what is offered to writev()
    m_file_address,        \* unset (the constructor leaves it), null, file, failed
    status,                \* the status line in m_write_buf
    have,                  \* bytes_have_send, in write()
    pc,                    \* in, out: registered for it; process, write: a thread is in it; closed;
                           \* undefined: what the language leaves open, no step follows
    due, got,              \* history: the responses decided on, and those handed over whole
    nul,                   \* history: where parse_content() ended the content, {} before
    torn,                  \* history: a writev() took less than it was offered, or would block
    clients                \* history: connections that have used the entry

net    == <<stream, sent, clients>>
parser == <<m_check_state, m_start_line, m_checked_idx, m_content_length, m_linger>>
answer == <<m_write_idx, m_iv, m_file_address, status>>
output == <<have, got, torn>>
vars   == <<net, taken, m_read_buf, parser, answer, pc, due, nul, output>>

m_read_idx == Len(m_read_buf)

\* What an int keeps of a long.
ToInt(n) == ((n + INT_MAX + 1) % (2 * INT_MAX + 2)) - INT_MAX - 1

Init ==
    /\ stream \in Streams /\ sent = 0 /\ taken = 0
    /\ m_read_buf = <<>> /\ m_check_state = "CHECK_STATE_REQUESTLINE"
    /\ m_start_line = 0 /\ m_checked_idx = 0 /\ m_content_length = 0 /\ m_linger = FALSE
    /\ m_write_idx = 0 /\ m_iv = [count |-> 0, len |-> 0]
    /\ m_file_address = "unset" /\ status = 0
    /\ pc = "in" /\ have = 0
    /\ due = <<>> /\ nul = {} /\ got = <<>> /\ torn = FALSE /\ clients = 1

\* init(): what was read beyond the request is forgotten with it.
Reset ==
    /\ m_read_buf' = <<>> /\ m_write_idx' = 0
    /\ m_check_state' = "CHECK_STATE_REQUESTLINE"
    /\ m_content_length' = 0 /\ m_linger' = FALSE
    /\ m_start_line' = 0 /\ m_checked_idx' = 0
    /\ nul' = {}

-----------------------------------------------------------------------------
(* The client.                                                             *)

Send(n) ==
    /\ pc # "closed" /\ n \in 1 .. Len(stream) - sent
    /\ sent' = sent + n
    /\ UNCHANGED <<stream, clients, taken, m_read_buf, parser, answer, pc, due, nul, output>>

\* It hangs up, or the timer closes the connection, between two events: what
\* do_request() mapped stays mapped.
Disconnect ==
    /\ pc \in {"in", "out"}
    /\ pc' = "closed"
    /\ UNCHANGED <<net, taken, m_read_buf, parser, answer, due, nul, output>>

\* init( sockfd, addr ) for the next connection with this descriptor.
Connect ==
    /\ pc = "closed" /\ clients < MaxClients
    /\ clients' = clients + 1
    /\ stream' \in Streams /\ sent' = 0 /\ taken' = 0
    /\ Reset /\ pc' = "in"
    /\ due' = <<>> /\ got' = <<>> /\ torn' = FALSE
    /\ UNCHANGED <<m_iv, m_file_address, status, have>>

-----------------------------------------------------------------------------
\* recv() until it would block.  A buffer that is full makes the next recv()
\* ask for no bytes: it returns 0 as if the peer had closed.
Read ==
    /\ pc = "in" /\ sent > taken
    /\ LET n == Min({sent - taken, READ_BUFFER_SIZE - m_read_idx})
       IN  /\ m_read_buf' = m_read_buf \o SubSeq(stream, taken + 1, taken + n)
           /\ taken' = taken + n
           /\ pc' = IF m_read_idx + n < READ_BUFFER_SIZE THEN "process" ELSE "closed"
    /\ UNCHANGED <<net, parser, answer, due, nul, output>>

\* Mutant: the CR at the end is passed over.
parse_line_skips_cr ==
    LET marks == {i \in m_checked_idx + 1 .. m_read_idx : m_read_buf[i] \in {"CR", "LF"}}
        i     == Min(marks)
        line(l, c) == [line |-> l, checked |-> c]
    IN  IF marks = {} THEN line("LINE_OPEN", m_read_idx)
        ELSE IF m_read_buf[i] = "CR"
        THEN IF i = m_read_idx THEN line("LINE_OPEN", i)
             ELSE IF m_read_buf[i + 1] = "LF" THEN line("LINE_OK", i + 1)
             ELSE line("LINE_BAD", i - 1)
        ELSE line("LINE_BAD", i - 1)

\* Where the line ends that starts at m_checked_idx.  Indices count from 0 in
\* the code.  Its test for a CR before an LF is left out: parse_line() stays in
\* front of a CR until it sees what follows.
parse_line ==
    LET marks == {i \in m_checked_idx + 1 .. m_read_idx : m_read_buf[i] \in {"CR", "LF"}}
        i     == Min(marks)
        line(l, c) == [line |-> l, checked |-> c]
    IN  IF marks = {} THEN line("LINE_OPEN", m_read_idx)
        ELSE IF m_read_buf[i] = "CR"
        THEN IF i = m_read_idx THEN line("LINE_OPEN", i - 1)
             ELSE IF m_read_buf[i + 1] = "LF" THEN line("LINE_OK", i + 1)
             ELSE line("LINE_BAD", i - 1)
        ELSE line("LINE_BAD", i - 1)

\* The line that parse_line() has ended with a NUL.
text == SubSeq(m_read_buf, m_start_line + 1, parse_line.checked - 2)

TakeLine(state) ==
    /\ pc = "process" /\ m_check_state = state
    /\ parse_line.line = "LINE_OK"
    /\ m_checked_idx' = parse_line.checked
    /\ m_start_line' = parse_line.checked

\* process_write(), then modfd( EPOLLOUT ).  Of a response to a file that is
\* empty nothing is offered: its case runs into the next one, which returns
\* false, and the connection is closed.
process_write(s, size) ==
    /\ status' = s /\ due' = Append(due, s)
    /\ m_write_idx' = HeadLen
    /\ IF s = 200 /\ size = 0
       THEN pc' = "closed" /\ UNCHANGED m_iv
       ELSE /\ pc' = "out"
            /\ m_iv' = IF s = 200 THEN [count |-> 2, len |-> HeadLen + size]
                                  ELSE [count |-> 1, len |-> HeadLen]

BadRequest ==
    /\ process_write(400, 0)
    /\ UNCHANGED m_file_address

\* Whatever stat() finds: no file, no permission, a directory, a file.  That
\* open() or mmap() fails is not looked at; for a file that is empty mmap() does.
do_request ==
    \/ \E s \in {404, 403, 400} : process_write(s, 0) /\ UNCHANGED m_file_address
    \/ process_write(200, FileLen) /\ m_file_address' \in {"file", "failed"}
    \/ process_write(200, 0) /\ m_file_address' = "failed"

parse_request_line ==
    /\ TakeLine("CHECK_STATE_REQUESTLINE")
    /\ \/ /\ text = <<"get">>
          /\ m_check_state' = "CHECK_STATE_HEADER"
          /\ UNCHANGED <<answer, pc, due>>
       \/ /\ text # <<"get">>
          /\ BadRequest
          /\ UNCHANGED m_check_state
    /\ UNCHANGED <<net, taken, m_read_buf, m_content_length, m_linger, nul, output>>

parse_headers ==
    /\ TakeLine("CHECK_STATE_HEADER")
    /\ \/ /\ text = <<>> /\ m_content_length = 0
          /\ do_request
          /\ UNCHANGED <<m_check_state, m_linger, m_content_length>>
       \/ /\ text = <<>> /\ m_content_length # 0
          /\ m_check_state' = "CHECK_STATE_CONTENT"
          /\ UNCHANGED <<m_linger, m_content_length, answer, pc, due>>
       \/ /\ text # <<>>
          /\ m_linger' = (m_linger \/ text = <<"keep">>)
          /\ m_content_length' = IF \E h \in DOMAIN Length : text = <<h>>
                                 THEN ToInt(Length[text[1]]) ELSE m_content_length
          /\ UNCHANGED <<m_check_state, answer, pc, due>>
    /\ UNCHANGED <<net, taken, m_read_buf, nul, output>>

\* Content that is all there ends with a NUL, m_content_length behind the text
\* of the line: a negative one puts it into the head, or in front of the buffer.
\* A sum that does not fit an int is undefined too, unless it compares as it is.
\* Content that is incomplete: the condition of the loop goes on with
\* parse_line(), which moves m_checked_idx over the content that is there.  The
\* next call asks for all of the content again, from that place on.
parse_content ==
    LET end == m_content_length + m_checked_idx
        at  == m_start_line + m_content_length
    IN  /\ pc = "process" /\ m_check_state = "CHECK_STATE_CONTENT"
        /\ m_start_line' = m_checked_idx
        /\ \/ /\ m_read_idx >= end /\ at >= 0
              /\ nul' = {at}
              /\ do_request
              /\ UNCHANGED m_checked_idx
           \/ /\ end > INT_MAX \/ (m_read_idx >= end /\ at < 0)
              /\ pc' = "undefined"
              /\ UNCHANGED <<m_checked_idx, answer, due, nul>>
           \/ /\ m_read_idx < end
              /\ m_checked_idx' = parse_line.checked
              /\ pc' = IF parse_line.line = "LINE_OK" THEN "process" ELSE "in"
              /\ UNCHANGED <<answer, due, nul>>
        /\ UNCHANGED <<net, taken, m_read_buf, m_check_state, m_content_length, m_linger, output>>

\* A line that is incomplete or wrong: NO_REQUEST and modfd( EPOLLIN ).
LineOpen ==
    /\ pc = "process" /\ m_check_state # "CHECK_STATE_CONTENT"
    /\ parse_line.line # "LINE_OK"
    /\ m_checked_idx' = parse_line.checked
    /\ pc' = "in"
    /\ UNCHANGED <<net, taken, m_read_buf, m_check_state, m_start_line, m_content_length, m_linger,
                   answer, due, nul, output>>

-----------------------------------------------------------------------------
\* write(), called for EPOLLOUT.
WriteStarts ==
    /\ pc = "out"
    /\ pc' = "write" /\ have' = 0
    /\ UNCHANGED <<net, taken, m_read_buf, parser, answer, due, nul, got, torn>>

\* writev() takes n bytes, always from the start of the response, none of them
\* from an address that mmap() failed with.  The head counts as sent when half of
\* it is; the file is not counted.
Writev(n) ==
    /\ pc = "write" /\ n \in 1 .. m_iv.len
    /\ (m_iv.count = 2 /\ m_file_address = "failed") => n <= HeadLen
    /\ torn' = (torn \/ n < m_iv.len)
    /\ IF m_write_idx - (have + n) > have + n
       THEN /\ have' = have + n
            /\ UNCHANGED <<m_read_buf, parser, m_write_idx, m_file_address, pc, nul, got>>
       ELSE /\ have' = 0
            /\ m_file_address' = "null"
            /\ got' = IF n = m_iv.len THEN Append(got, status) ELSE got
            /\ IF m_linger
               THEN Reset /\ pc' = "in"
               ELSE pc' = "closed" /\ UNCHANGED <<m_read_buf, parser, m_write_idx, nul>>
    /\ UNCHANGED <<net, taken, m_iv, status, due>>

\* Mutant: the file is unmapped, and offered again at the next EPOLLOUT.
WritevBlocksUnmaps ==
    /\ pc = "write"
    /\ pc' = "out" /\ have' = 0 /\ torn' = TRUE
    /\ m_file_address' = "null"
    /\ UNCHANGED <<net, taken, m_read_buf, parser, m_write_idx, m_iv, status, due, nul, got>>

\* EAGAIN: the whole response is offered again at the next EPOLLOUT.
WritevBlocks ==
    /\ pc = "write"
    /\ pc' = "out" /\ have' = 0 /\ torn' = TRUE
    /\ UNCHANGED <<net, taken, m_read_buf, parser, answer, due, nul, got>>

WritevFails ==
    /\ pc = "write"
    /\ pc' = "closed" /\ have' = 0
    /\ m_file_address' = "null"
    /\ UNCHANGED <<net, taken, m_read_buf, parser, m_write_idx, m_iv, status, due, nul, got, torn>>

Next ==
    \/ \E n \in 1 .. Max({Len(s) : s \in Streams}) : Send(n)
    \/ Disconnect \/ Connect
    \/ Read
    \/ parse_request_line \/ parse_headers \/ parse_content \/ LineOpen
    \/ WriteStarts
    \/ \E n \in 1 .. HeadLen + FileLen : Writev(n)
    \/ WritevBlocks \/ WritevFails

Spec == Init /\ [][Next]_vars

-----------------------------------------------------------------------------
(* What a request is, told from all of its bytes b at once.                *)

Ends(b) == {i \in 1 .. Len(b) - 1 : b[i] = "CR" /\ b[i + 1] = "LF"}

Blemishes(b) ==
    {i \in 1 .. Len(b) : \/ b[i] = "CR" /\ i < Len(b) /\ i \notin Ends(b)
                         \/ b[i] = "LF" /\ i - 1 \notin Ends(b)}

Clean(b, n) == \A i \in Blemishes(b) : i > n

HeadEnds(b) == {i \in Ends(b) : i - 2 \in Ends(b)}
HeaderStarts(b) == {i \in Ends(b) : i < Min(HeadEnds(b)) /\ i + 3 \in Ends(b)}
Header(b, h) == \E i \in HeaderStarts(b) : b[i + 2] = h

\* The last Content-Length counts.
ContentSize(b) ==
    LET lengths == {i \in HeaderStarts(b) : b[i + 2] \in DOMAIN Length}
    IN  IF lengths = {} THEN 0 ELSE ToInt(Length[b[Max(lengths) + 2]])

Verdict(b) ==
    IF Ends(b) = {} \/ ~Clean(b, Min(Ends(b))) THEN "NO_REQUEST"
    ELSE IF SubSeq(b, 1, Min(Ends(b)) - 1) # <<"get">> THEN "BAD_REQUEST"
    ELSE IF HeadEnds(b) = {} \/ ~Clean(b, Min(HeadEnds(b))) THEN "NO_REQUEST"
    ELSE IF Len(b) > Min(HeadEnds(b)) + ContentSize(b) THEN "GET_REQUEST"
    ELSE "NO_REQUEST"

TypeOK ==
    /\ sent \in 0 .. Len(stream) /\ taken \in 0 .. sent
    /\ m_check_state \in {"CHECK_STATE_REQUESTLINE", "CHECK_STATE_HEADER", "CHECK_STATE_CONTENT"}
    /\ 0 <= m_start_line /\ m_start_line <= m_checked_idx /\ m_checked_idx <= m_read_idx
    /\ m_read_idx <= READ_BUFFER_SIZE
    /\ pc \notin {"in", "closed"} => m_read_idx < READ_BUFFER_SIZE
    /\ m_content_length \in Int /\ m_linger \in BOOLEAN
    /\ m_write_idx \in {0, HeadLen} /\ status \in {0, 200, 400, 403, 404}
    /\ m_file_address \in {"unset", "null", "file", "failed"}
    /\ have \in 0 .. HeadLen + FileLen
    /\ pc \in {"in", "process", "out", "write", "closed", "undefined"}

\* However the bytes of a request are cut into pieces: when it is answered, all
\* of it is there and the answer is to what it asks for; while more is awaited,
\* it is not complete, unless its content came in pieces, of which parse_line()
\* loses count.  Only a negative Content-Length lets parse_content() write into the
\* head, in which m_url points; only that or one near INT_MAX is undefined.
CutsDoNotMatter ==
    /\ TypeOK
    /\ pc = "in" => \/ Verdict(m_read_buf) = "NO_REQUEST"
                    \/ m_check_state = "CHECK_STATE_CONTENT"
    /\ pc = "out" => \/ Verdict(m_read_buf) = "BAD_REQUEST" /\ status = 400 /\ ~m_linger
                     \/ Verdict(m_read_buf) = "GET_REQUEST"
                        /\ m_linger = Header(m_read_buf, "keep")
                        /\ \A k \in nul : \/ k > Min(HeadEnds(m_read_buf))
                                          \/ ContentSize(m_read_buf) < 0
    /\ pc = "undefined" => ContentSize(m_read_buf) \notin 0 .. INT_MAX - READ_BUFFER_SIZE

\* While every writev() takes what it is offered, the client has each response
\* once, whole and in order; and the file that is offered is what do_request() got
\* from mmap() for this response, never one unmapped since, blocked writes and
\* reused entries included.
AnswersWhole ==
    /\ ~torn => LET open == pc \in {"out", "write"}
                IN  \/ got = due /\ ~open
                    \/ Len(got) = Len(due) - 1 /\ got = SubSeq(due, 1, Len(got))
                       /\ pc \in {"out", "write", "closed"}
    /\ pc \in {"out", "write"} /\ m_iv.count = 2 => m_file_address \in {"file", "failed"}
=============================================================================
