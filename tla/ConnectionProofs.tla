--------------------------- MODULE ConnectionProofs --------------------------
(***************************************************************************)
(* The two ends of a connection: HttpConn at the server, ClientSocket at   *)
(* the client.                                                             *)
(*                                                                         *)
(* HttpConn, for every set of byte streams, every size of the buffer and   *)
(* of a response: how the bytes of a request are cut into pieces does not  *)
(* matter, and a response is handed over whole.                            *)
(*                                                                         *)
(* CutsDoNotMatter speaks of a whole request and is not inductive.  The    *)
(* parser knows of what it has passed (LineOK): no CR or LF in the line    *)
(* that is not complete, before it a head without an empty line, and of    *)
(* its headers those that set m_linger and m_content_length.  All of that  *)
(* is about a prefix of the buffer, so more bytes change nothing.  Of two   *)
(* Content-Length headers the last one counts, whatever atol() makes of it.*)
(*                                                                         *)
(* ClientSocket: whose descriptors it closes, and how many it leaves open, *)
(* for any number of descriptors, ports and calls of start().              *)
(***************************************************************************)
EXTENDS HttpConn, ClientSocket, FiniteSetTheorems, SequenceTheorems,
        NaturalsInduction, WellFoundedInduction, TLAPS

\* A request line and whole headers, all well formed, that end at place s of b.
HeaderPart(b, s) ==
    /\ s \in 3 .. Len(b)
    /\ b[1] = "get" /\ b[2] = "CR" /\ b[3] = "LF"
    /\ b[s - 1] = "CR" /\ b[s] = "LF"
    /\ \A i \in 1 .. s : b[i] = "CR" => b[i + 1] = "LF"
    /\ \A i \in 2 .. s : b[i] = "LF" => b[i - 1] = "CR"
    /\ \A i \in 1 .. s - 3 : ~(b[i] = "CR" /\ b[i + 2] = "CR")

\* The header h is among them.
Seen(b, s, h) == \E i \in 1 .. s - 4 : b[i] = "CR" /\ b[i + 2] = h /\ b[i + 3] = "CR"

\* The Content-Length headers among them, of which the last one counts.
LengthsSeen(b, s) ==
    {i \in 1 .. s - 4 : b[i] = "CR" /\ b[i + 2] \in DOMAIN Length /\ b[i + 3] = "CR"}
SizeSeen(b, s) ==
    IF LengthsSeen(b, s) = {} THEN 0 ELSE ToInt(Length[b[Max(LengthsSeen(b, s)) + 2]])

\* No mark from place i to place j, and why parse_line() gets no further than j.
Unmarked(b, i, j) == \A k \in i .. j : b[k] # "CR" /\ b[k] # "LF"
Stop(b, j) ==
    \/ j = Len(b)
    \/ /\ j < Len(b)
       /\ \/ b[j + 1] = "CR" /\ (j + 1 = Len(b) \/ b[j + 2] # "LF")
          \/ b[j + 1] = "LF"

LineOK ==
    /\ m_check_state = "CHECK_STATE_REQUESTLINE" =>
          /\ m_start_line = 0 /\ Unmarked(m_read_buf, 1, m_checked_idx)
          /\ ~m_linger /\ m_content_length = 0
    /\ m_check_state = "CHECK_STATE_HEADER" =>
          /\ HeaderPart(m_read_buf, m_start_line)
          /\ Unmarked(m_read_buf, m_start_line + 1, m_checked_idx)
          /\ m_linger <=> Seen(m_read_buf, m_start_line, "keep")
          /\ m_content_length = SizeSeen(m_read_buf, m_start_line)
    /\ m_check_state = "CHECK_STATE_CONTENT" =>
          \E s \in Nat :
              /\ HeaderPart(m_read_buf, s)
              /\ s + 2 <= m_start_line
              /\ m_read_buf[s + 1] = "CR" /\ m_read_buf[s + 2] = "LF"
              /\ m_linger <=> Seen(m_read_buf, s, "keep")
              /\ m_content_length = SizeSeen(m_read_buf, s)

Types ==
    /\ TypeOK
    /\ stream \in Streams /\ m_read_buf \in Seq(STRING)
    /\ m_start_line \in Nat /\ m_checked_idx \in Nat

Offered == pc \in {"out", "write"}

\* Where the NUL of parse_content() may be.
NulOK(b, S) == \A k \in S : k > Min(HeadEnds(b)) \/ ContentSize(b) < 0

ParserOK ==
    /\ pc \in {"in", "process"} => LineOK /\ nul = {}
    /\ pc = "in" /\ m_check_state # "CHECK_STATE_CONTENT" => Verdict(m_read_buf) = "NO_REQUEST"
    /\ Offered => \/ Verdict(m_read_buf) = "BAD_REQUEST" /\ status = 400 /\ ~m_linger
                  \/ /\ Verdict(m_read_buf) = "GET_REQUEST"
                     /\ m_linger <=> Header(m_read_buf, "keep")
                     /\ NulOK(m_read_buf, nul)
    /\ pc = "undefined" => ContentSize(m_read_buf) \notin 0 .. INT_MAX - READ_BUFFER_SIZE

Statuses == {200, 400, 403, 404}

AnswerOK ==
    /\ m_iv.len \in Nat /\ torn \in BOOLEAN
    /\ due \in Seq(Statuses) /\ got \in Seq(Statuses)
    /\ pc # "write" \/ ~torn => have = 0
    /\ Offered => /\ m_write_idx = HeadLen /\ status \in Statuses
                  /\ m_iv.len >= HeadLen
                  /\ m_iv.count = 2 => m_file_address \in {"file", "failed"}
    /\ ~torn => /\ pc \in {"in", "process", "undefined"} => got = due
                /\ Offered => due = Append(got, status)
                /\ pc = "closed" => got = due \/ \E s \in Statuses : due = Append(got, s)

-----------------------------------------------------------------------------
\* The least element that Min chooses.
LEMMA MinIs ==
    ASSUME NEW S \in SUBSET Int, NEW m \in S, \A y \in S : m <= y
    PROVE  Min(S) = m
<1>1. \A x \in S : (\A y \in S : x <= y) => x = m
  OBVIOUS
<1>2. Min(S) \in S /\ \A y \in S : Min(S) <= y
  BY DEF Min
<1> QED BY <1>1, <1>2

LEMMA MaxIs ==
    ASSUME NEW S \in SUBSET Int, NEW m \in S, \A y \in S : y <= m
    PROVE  Max(S) = m
<1>1. \A x \in S : (\A y \in S : x >= y) => x = m
  OBVIOUS
<1>2. Max(S) \in S /\ \A y \in S : Max(S) >= y
  BY DEF Max
<1> QED BY <1>1, <1>2

LEMMA MinExists ==
    ASSUME NEW S \in SUBSET Nat, S # {}
    PROVE  Min(S) \in S /\ \A y \in S : Min(S) <= y
<1>1. PICK m \in S : \A k \in S : <<k, m>> \notin OpToRel(<, Nat)
  BY NatLessThanWellFounded, WFMin
<1>2. \A k \in S : ~(k < m)
  BY <1>1 DEF OpToRel
<1>3. \A k \in S : m <= k
  BY <1>2
<1> QED BY <1>3 DEF Min

LEMMA MaxExists ==
    ASSUME NEW n \in Nat, NEW S \in SUBSET (1 .. n), S # {}
    PROVE  Max(S) \in S /\ \A y \in S : y <= Max(S)
<1> DEFINE T == {x \in 0 .. n : n - x \in S}
<1>1. T \in SUBSET Nat /\ T # {}
  <2>1. PICK y \in S : TRUE
    OBVIOUS
  <2>2. y \in Int /\ 1 <= y /\ y <= n
    OBVIOUS
  <2>3. n - y \in 0 .. n /\ n - (n - y) = y
    BY <2>2
  <2>4. n - y \in T
    BY <2>1, <2>3
  <2>5. T \subseteq Nat
    OBVIOUS
  <2> QED BY <2>4, <2>5
<1>2. Min(T) \in T /\ \A y \in T : Min(T) <= y
  <2> HIDE DEF T
  <2> QED BY <1>1, MinExists
<1>3. PICK t \in T : \A y \in T : t <= y
  BY <1>2
<1>4. n - t \in S /\ t \in Int
  BY <1>3
<1>5. ASSUME NEW y \in S PROVE y <= n - t
  <2>1. n - y \in 0 .. n /\ n - (n - y) = y /\ y \in Int
    OBVIOUS
  <2>2. n - y \in T
    BY <2>1
  <2>3. t <= n - y
    BY <1>3, <2>2
  <2> QED BY <1>4, <2>1, <2>3
<1>6. Max(S) = n - t
  <2>1. S \in SUBSET Int
    OBVIOUS
  <2> HIDE DEF T
  <2> QED BY <1>4, <1>5, <2>1, MaxIs
<1> QED BY <1>4, <1>5, <1>6

LEMMA ToIntIsInt ==
    ASSUME HttpAssumption, NEW n \in Int
    PROVE  ToInt(n) \in Int
BY DEF ToInt, HttpAssumption

LEMMA LengthIsInt ==
    ASSUME HttpAssumption, NEW h \in DOMAIN Length
    PROVE  ToInt(Length[h]) \in Int
<1>1. Length[h] \in Int
  BY DEF HttpAssumption
<1> QED BY <1>1, ToIntIsInt

\* What a line is, told by its length and its first byte.
LEMMA TextIs ==
    ASSUME NEW b \in Seq(STRING), NEW i \in 1 .. Len(b), NEW j \in i - 1 .. Len(b)
    PROVE  /\ \A h : SubSeq(b, i, j) = <<h>> => j = i
           /\ SubSeq(b, i, i) = <<b[i]>>
           /\ SubSeq(b, i, j) = <<>> => j = i - 1
           /\ j = i - 1 => SubSeq(b, i, j) = <<>>
<1>1. Len(b) \in Nat /\ i \in Int /\ j \in Int /\ \A k \in 1 .. Len(b) : b[k] \in STRING
  BY LenProperties, ElementOfSeq
<1>2. ASSUME NEW k \in i - 1 .. Len(b)
      PROVE  /\ SubSeq(b, i, k) \in Seq(STRING)
             /\ Len(SubSeq(b, i, k)) = k - i + 1
             /\ \A m \in 1 .. k - i + 1 : SubSeq(b, i, k)[m] = b[i + m - 1]
  <2>1. k \in Int /\ \A m \in i .. k : b[m] \in STRING
    BY <1>1
  <2>2. /\ SubSeq(b, i, k) \in Seq(STRING)
        /\ Len(SubSeq(b, i, k)) = IF i <= k THEN k - i + 1 ELSE 0
        /\ \A m \in 1 .. k - i + 1 : SubSeq(b, i, k)[m] = b[i + m - 1]
    BY <1>1, <2>1, SubSeqProperties
  <2> QED BY <1>1, <2>1, <2>2
<1>3. ASSUME NEW h, SubSeq(b, i, j) = <<h>> PROVE j = i
  <2>1. Len(SubSeq(b, i, j)) = 1
    BY <1>3
  <2> QED BY <1>1, <1>2, <2>1
<1>4. SubSeq(b, i, i) = <<b[i]>>
  <2> DEFINE t == SubSeq(b, i, i)
             u == <<b[i]>>
  <2>1. i \in i - 1 .. Len(b) /\ i - i + 1 = 1 /\ i + 1 - 1 = i
    BY <1>1
  <2>2. t \in Seq(STRING) /\ Len(t) = 1 /\ t[1] = b[i]
    <3>1. 1 \in 1 .. i - i + 1
      BY <2>1
    <3>2. t \in Seq(STRING) /\ Len(t) = i - i + 1 /\ t[1] = b[i + 1 - 1]
      BY <1>2, <2>1, <3>1
    <3> QED BY <2>1, <3>2
  <2>3. u \in Seq(STRING) /\ Len(u) = 1 /\ u[1] = b[i]
    BY <1>1
  <2> HIDE DEF t, u
  <2>4. t = u
    BY <2>2, <2>3, SeqEqual
  <2> QED BY <2>4 DEF t, u
<1>5. SubSeq(b, i, j) = <<>> <=> j = i - 1
  <2>1. SubSeq(b, i, j) = <<>> <=> Len(SubSeq(b, i, j)) = 0
    BY <1>2, EmptySeq
  <2> QED BY <1>1, <1>2, <2>1
<1> QED BY <1>3, <1>4, <1>5

-----------------------------------------------------------------------------
\* What Verdict says of bytes of which the parser knows a prefix.

\* No line ends behind a place where the parser stops.
LEMMA StopBlocks ==
    ASSUME NEW b \in Seq(STRING), NEW s \in Nat, NEW j \in s .. Len(b),
           s = 0 \/ b[s] = "LF", Unmarked(b, s + 1, j), Stop(b, j),
           NEW m \in Ends(b), m > s
    PROVE  ~Clean(b, m)
<1>1. Len(b) \in Nat /\ j \in Nat /\ m \in 1 .. Len(b) - 1 /\ b[m] = "CR" /\ b[m + 1] = "LF"
  BY LenProperties DEF Ends
<1>2. m > j
  BY <1>1 DEF Unmarked
<1>3. j < Len(b) /\ j + 1 \in 1 .. Len(b)
  BY <1>1, <1>2
<1>4. j \notin Ends(b)
  <2>1. b[j] # "CR" \/ j = 0
    BY <1>1 DEF Unmarked
  <2> QED BY <2>1 DEF Ends
<1>5. j + 1 \in Blemishes(b)
  <2>1. CASE b[j + 1] = "LF"
    BY <1>1, <1>3, <1>4, <2>1 DEF Blemishes
  <2>2. CASE b[j + 1] = "CR" /\ j + 1 = Len(b)
    BY <1>1, <1>2, <2>2
  <2>3. CASE b[j + 1] = "CR" /\ b[j + 2] # "LF" /\ j + 1 < Len(b)
    <3>1. (j + 1) + 1 = j + 2
      BY <1>1
    <3>2. j + 1 \notin Ends(b)
      BY <2>3, <3>1 DEF Ends
    <3> QED BY <1>3, <2>3, <3>2 DEF Blemishes
  <2> QED BY <1>1, <1>3, <2>1, <2>2, <2>3 DEF Stop
<1> QED BY <1>1, <1>2, <1>5 DEF Clean

\* A request line that is not complete.
LEMMA LineAwaited ==
    ASSUME NEW b \in Seq(STRING), NEW j \in 0 .. Len(b), Unmarked(b, 1, j), Stop(b, j)
    PROVE  Verdict(b) = "NO_REQUEST"
<1>1. Ends(b) \in SUBSET Nat /\ \A m \in Ends(b) : m > 0
  BY DEF Ends
<1>2. Ends(b) = {} \/ ~Clean(b, Min(Ends(b)))
  <2> SUFFICES ASSUME Ends(b) # {} PROVE ~Clean(b, Min(Ends(b)))
    OBVIOUS
  <2>1. Min(Ends(b)) \in Ends(b)
    BY <1>1, MinExists
  <2> QED BY <1>1, <2>1, StopBlocks
<1> QED BY <1>2 DEF Verdict

\* A request line that is complete.
LEMMA LineComplete ==
    ASSUME NEW b \in Seq(STRING), NEW e \in 1 .. Len(b) - 1, b[e] = "CR", b[e + 1] = "LF",
           Unmarked(b, 1, e - 1)
    PROVE  /\ Ends(b) # {} /\ Min(Ends(b)) = e /\ Clean(b, e)
           /\ SubSeq(b, 1, e - 1) # <<"get">> => Verdict(b) = "BAD_REQUEST"
<1>1. Len(b) \in Nat /\ e \in Ends(b) /\ Ends(b) \in SUBSET Int
  BY LenProperties DEF Ends
<1>2. \A m \in Ends(b) : e <= m
  BY <1>1 DEF Ends, Unmarked
<1>3. Min(Ends(b)) = e
  BY <1>1, <1>2, MinIs
<1>4. Clean(b, e)
  <2> SUFFICES ASSUME NEW i \in Blemishes(b), i <= e PROVE FALSE
    BY <1>1 DEF Clean, Blemishes
  <2>1. i \in 1 .. Len(b) /\ ((b[i] = "CR" /\ i \notin Ends(b)) \/ b[i] = "LF")
    BY DEF Blemishes
  <2>2. i = e
    BY <1>1, <2>1 DEF Unmarked
  <2> QED BY <1>1, <2>1, <2>2
<1> QED BY <1>1, <1>3, <1>4 DEF Verdict

LEMMA HeadBegins ==
    ASSUME NEW b \in Seq(STRING), NEW s, HeaderPart(b, s)
    PROVE  /\ Len(b) \in Nat /\ s \in 3 .. Len(b)
           /\ Ends(b) # {} /\ Min(Ends(b)) = 2 /\ Clean(b, 2)
           /\ SubSeq(b, 1, 1) = <<"get">>
           /\ \A h \in HeadEnds(b) : h \in Nat /\ h > s /\ h \in Ends(b)
<1>1. Len(b) \in Nat /\ s \in 3 .. Len(b) /\ 2 \in 1 .. Len(b) - 1
      /\ b[1] = "get" /\ b[2] = "CR" /\ b[3] = "LF"
  BY LenProperties DEF HeaderPart
<1>2. Unmarked(b, 1, 2 - 1) /\ b[2 + 1] = "LF"
  BY <1>1 DEF Unmarked
<1>3. Ends(b) # {} /\ Min(Ends(b)) = 2 /\ Clean(b, 2)
  BY <1>1, <1>2, LineComplete
<1>4. SubSeq(b, 1, 1) = <<"get">>
  <2>1. 1 \in 1 .. Len(b) /\ 1 \in 1 - 1 .. Len(b)
    BY <1>1
  <2> QED BY <1>1, <2>1, TextIs
<1>5. ASSUME NEW h \in HeadEnds(b)
      PROVE  h \in Nat /\ h > s /\ h \in Ends(b)
  <2>1. h \in Ends(b) /\ h - 2 \in Ends(b) /\ h \in 1 .. Len(b) - 1 /\ h - 2 \in 1 .. Len(b) - 1
        /\ b[h] = "CR" /\ b[h - 2] = "CR"
    BY DEF HeadEnds, Ends
  <2>2. h # s
    BY <2>1 DEF HeaderPart
  <2>3. ~(h < s)
    <3> SUFFICES ASSUME h < s PROVE FALSE
      OBVIOUS
    <3>1. h - 2 \in 1 .. s - 3 /\ (h - 2) + 2 = h
      BY <1>1, <2>1
    <3> QED BY <2>1, <3>1 DEF HeaderPart
  <2> QED BY <1>1, <2>1, <2>2, <2>3
<1> QED BY <1>1, <1>3, <1>4, <1>5

\* A head that is not complete.
LEMMA HeadAwaited ==
    ASSUME NEW b \in Seq(STRING), NEW s, HeaderPart(b, s), NEW j \in s .. Len(b),
           Unmarked(b, s + 1, j), Stop(b, j)
    PROVE  Verdict(b) = "NO_REQUEST"
<1>1. /\ s \in Nat /\ Ends(b) # {} /\ Min(Ends(b)) = 2 /\ Clean(b, 2)
      /\ SubSeq(b, 1, 1) = <<"get">>
      /\ \A h \in HeadEnds(b) : h \in Nat /\ h > s /\ h \in Ends(b)
  BY HeadBegins
<1>2. HeadEnds(b) = {} \/ ~Clean(b, Min(HeadEnds(b)))
  <2> SUFFICES ASSUME HeadEnds(b) # {} PROVE ~Clean(b, Min(HeadEnds(b)))
    OBVIOUS
  <2>1. Min(HeadEnds(b)) \in HeadEnds(b)
    BY <1>1, MinExists
  <2>2. b[s] = "LF"
    BY DEF HeaderPart
  <2> QED BY <1>1, <2>1, <2>2, StopBlocks
<1> QED BY <1>1, <1>2 DEF Verdict

\* A head that is complete: the empty line is the first, and the headers seen
\* are those before it.
LEMMA HeadComplete ==
    ASSUME HttpAssumption, NEW b \in Seq(STRING), NEW s, HeaderPart(b, s),
           s + 2 <= Len(b), b[s + 1] = "CR", b[s + 2] = "LF"
    PROVE  /\ Header(b, "keep") <=> Seen(b, s, "keep")
           /\ Min(HeadEnds(b)) = s + 1
           /\ ContentSize(b) = SizeSeen(b, s)
           /\ Len(b) > s + 1 + SizeSeen(b, s) => Verdict(b) = "GET_REQUEST"
<1>1. /\ Len(b) \in Nat /\ s \in 3 .. Len(b)
      /\ Ends(b) # {} /\ Min(Ends(b)) = 2 /\ Clean(b, 2)
      /\ SubSeq(b, 1, 1) = <<"get">>
      /\ \A h \in HeadEnds(b) : h \in Nat /\ h > s /\ h \in Ends(b)
  BY HeadBegins
<1>2. s + 1 \in Ends(b) /\ s - 1 \in Ends(b)
  BY <1>1 DEF HeaderPart, Ends
<1>3. s + 1 \in HeadEnds(b)
  BY <1>1, <1>2 DEF HeadEnds
<1>4. Min(HeadEnds(b)) = s + 1
  <2>1. HeadEnds(b) \in SUBSET Int /\ \A h \in HeadEnds(b) : s + 1 <= h
    BY <1>1
  <2> QED BY <1>3, <2>1, MinIs
<1>5. Clean(b, s + 1)
  <2> SUFFICES ASSUME NEW i \in Blemishes(b), i <= s + 1 PROVE FALSE
    BY <1>1 DEF Clean, Blemishes
  <2>1. i \in 1 .. Len(b)
        /\ \/ b[i] = "CR" /\ i < Len(b) /\ i \notin Ends(b)
           \/ b[i] = "LF" /\ i - 1 \notin Ends(b)
    BY DEF Blemishes
  <2>2. CASE i = s + 1
    BY <1>2, <2>1, <2>2
  <2>3. CASE i <= s /\ b[i] = "CR"
    <3>1. b[i + 1] = "LF" /\ i \in 1 .. Len(b) - 1
      BY <1>1, <2>1, <2>3 DEF HeaderPart
    <3> QED BY <2>1, <2>3, <3>1 DEF Ends
  <2>4. CASE i <= s /\ b[i] = "LF"
    <3>1. i # 1
      BY <2>4 DEF HeaderPart
    <3>2. b[i - 1] = "CR" /\ i - 1 \in 1 .. Len(b) - 1 /\ (i - 1) + 1 = i
      BY <1>1, <2>1, <2>4, <3>1 DEF HeaderPart
    <3> QED BY <2>1, <2>4, <3>2 DEF Ends
  <2> QED BY <1>1, <2>1, <2>2, <2>3, <2>4
<1> DEFINE Place(i) == i \in 1 .. s - 4 /\ b[i] = "CR" /\ b[i + 3] = "CR"
<1>6. ASSUME NEW i, b[i + 2] # "CR"
      PROVE  i \in HeaderStarts(b) <=> Place(i)
  <2>1. ASSUME i \in HeaderStarts(b) PROVE Place(i)
    <3>1. i \in Ends(b) /\ i < s + 1 /\ i + 3 \in Ends(b)
      BY <1>4, <2>1 DEF HeaderStarts
    <3>2. i \in 1 .. Len(b) - 1 /\ b[i] = "CR" /\ b[i + 1] = "LF" /\ b[i + 3] = "CR"
      BY <3>1 DEF Ends
    <3>3. i # s
      BY <3>2, <1>1 DEF HeaderPart
    <3>4. i # s - 1
      BY <1>1, <1>6
    <3>5. i + 3 # s
      BY <3>2 DEF HeaderPart
    <3>6. i # s - 2
      BY <3>2, <1>1 DEF HeaderPart
    <3>7. i \in 1 .. s - 4
      BY <1>1, <3>1, <3>2, <3>3, <3>4, <3>5, <3>6
    <3> QED BY <3>2, <3>7
  <2>2. ASSUME Place(i) PROVE i \in HeaderStarts(b)
    <3>0. i \in 1 .. s /\ i + 3 \in 1 .. s
      BY <1>1, <2>2
    <3>1. b[i + 1] = "LF" /\ b[(i + 3) + 1] = "LF"
      BY <2>2, <3>0 DEF HeaderPart
    <3>2. i \in Ends(b) /\ i + 3 \in Ends(b) /\ i < s + 1
      BY <1>1, <2>2, <3>1 DEF Ends
    <3> QED BY <1>4, <3>2 DEF HeaderStarts
  <2> QED BY <2>1, <2>2
<1>7. /\ Header(b, "keep") <=> Seen(b, s, "keep")
      /\ ContentSize(b) = SizeSeen(b, s)
  <2>1. "CR" \notin DOMAIN Length
    BY DEF HttpAssumption
  <2>2. {i \in HeaderStarts(b) : b[i + 2] \in DOMAIN Length} = LengthsSeen(b, s)
    BY <1>6, <2>1 DEF LengthsSeen
  <2>3. Header(b, "keep") <=> Seen(b, s, "keep")
    BY <1>6 DEF Header, Seen
  <2> QED BY <2>2, <2>3 DEF ContentSize, SizeSeen
<1>8. ASSUME Len(b) > s + 1 + SizeSeen(b, s) PROVE Verdict(b) = "GET_REQUEST"
  <2>1. Len(b) > Min(HeadEnds(b)) + ContentSize(b)
    BY <1>4, <1>7, <1>8
  <2>2. HeadEnds(b) # {} /\ Clean(b, Min(HeadEnds(b)))
    BY <1>3, <1>4, <1>5
  <2> QED BY <1>1, <2>1, <2>2 DEF Verdict
<1> QED BY <1>4, <1>7, <1>8

-----------------------------------------------------------------------------
\* What the parser knows stays true when more bytes come, and grows by a line.
Extends(b, c) == Len(b) <= Len(c) /\ \A i \in 1 .. Len(b) : c[i] = b[i]

LEMMA HeaderPartStays ==
    ASSUME NEW b \in Seq(STRING), NEW c \in Seq(STRING), Extends(b, c), NEW s, HeaderPart(b, s)
    PROVE  /\ HeaderPart(c, s)
           /\ \A h : Seen(c, s, h) <=> Seen(b, s, h)
           /\ SizeSeen(c, s) = SizeSeen(b, s)
<1>1. Len(b) \in Nat /\ Len(c) \in Nat /\ s \in 3 .. Len(b)
  BY LenProperties DEF HeaderPart
<1>2. \A i \in 1 .. s : c[i] = b[i]
  BY <1>1 DEF Extends
<1>3. HeaderPart(c, s)
  <2>1. s \in 3 .. Len(c)
    BY <1>1 DEF Extends
  <2>2. c[1] = "get" /\ c[2] = "CR" /\ c[3] = "LF" /\ c[s - 1] = "CR" /\ c[s] = "LF"
    BY <1>1, <1>2 DEF HeaderPart
  <2>3. ASSUME NEW i \in 1 .. s, c[i] = "CR" PROVE c[i + 1] = "LF"
    <3>1. i # s
      BY <2>2, <2>3
    <3>2. i + 1 \in 1 .. s
      BY <1>1, <3>1
    <3> QED BY <1>2, <2>3, <3>2 DEF HeaderPart
  <2>4. ASSUME NEW i \in 2 .. s, c[i] = "LF" PROVE c[i - 1] = "CR"
    <3>1. i - 1 \in 1 .. s /\ i \in 1 .. s
      BY <1>1
    <3> QED BY <1>2, <2>4, <3>1 DEF HeaderPart
  <2>5. ASSUME NEW i \in 1 .. s - 3, c[i] = "CR", c[i + 2] = "CR" PROVE FALSE
    <3>1. i \in 1 .. s /\ i + 2 \in 1 .. s
      BY <1>1
    <3> QED BY <1>2, <2>5, <3>1 DEF HeaderPart
  <2> QED BY <2>1, <2>2, <2>3, <2>4, <2>5 DEF HeaderPart
<1>4. \A h : Seen(c, s, h) <=> Seen(b, s, h)
  <2>1. \A i \in 1 .. s - 4 : i \in 1 .. s /\ i + 2 \in 1 .. s /\ i + 3 \in 1 .. s
    BY <1>1
  <2>2. \A i \in 1 .. s - 4 : c[i] = b[i] /\ c[i + 2] = b[i + 2] /\ c[i + 3] = b[i + 3]
    BY <1>2, <2>1
  <2> QED BY <2>2 DEF Seen
<1>5. LengthsSeen(c, s) = LengthsSeen(b, s)
  <2>1. \A i \in 1 .. s - 4 : i \in 1 .. s /\ i + 2 \in 1 .. s /\ i + 3 \in 1 .. s
    BY <1>1
  <2>2. \A i \in 1 .. s - 4 : c[i] = b[i] /\ c[i + 2] = b[i + 2] /\ c[i + 3] = b[i + 3]
    BY <1>2, <2>1
  <2> QED BY <2>2 DEF LengthsSeen
<1>6. ASSUME LengthsSeen(b, s) # {}
      PROVE  c[Max(LengthsSeen(b, s)) + 2] = b[Max(LengthsSeen(b, s)) + 2]
  <2>1. LengthsSeen(b, s) \in SUBSET (1 .. s) /\ s \in Nat
    BY <1>1 DEF LengthsSeen
  <2>2. Max(LengthsSeen(b, s)) \in LengthsSeen(b, s)
    BY <1>6, <2>1, MaxExists
  <2>3. Max(LengthsSeen(b, s)) \in 1 .. s - 4
    BY <2>2 DEF LengthsSeen
  <2>4. Max(LengthsSeen(b, s)) + 2 \in 1 .. s
    BY <1>1, <2>3
  <2> QED BY <1>2, <2>4
<1>7. SizeSeen(c, s) = SizeSeen(b, s)
  BY <1>5, <1>6 DEF SizeSeen
<1> QED BY <1>3, <1>4, <1>7

LEMMA UnmarkedStays ==
    ASSUME NEW b \in Seq(STRING), NEW c \in Seq(STRING), Extends(b, c),
           NEW i \in Nat \ {0}, NEW j \in Int, j <= Len(b), Unmarked(b, i, j)
    PROVE  Unmarked(c, i, j)
<1>1. Len(b) \in Nat
  BY LenProperties
<1> QED BY <1>1 DEF Unmarked, Extends

\* The request line is the first header part.
LEMMA HeaderBegins ==
    ASSUME NEW b \in Seq(STRING), Len(b) >= 3, b[1] = "get", b[2] = "CR", b[3] = "LF"
    PROVE  HeaderPart(b, 3) /\ (\A h : ~Seen(b, 3, h)) /\ SizeSeen(b, 3) = 0
<1>1. Len(b) \in Nat
  BY LenProperties
<1>2. \A i \in 1 .. 3 : i = 1 \/ i = 2 \/ i = 3
  OBVIOUS
<1>3. /\ \A i \in 1 .. 3 : b[i] = "CR" => b[i + 1] = "LF"
      /\ \A i \in 2 .. 3 : b[i] = "LF" => b[i - 1] = "CR"
  BY <1>2
<1>4. 3 \in 3 .. Len(b) /\ 1 .. 3 - 3 = {} /\ 1 .. 3 - 4 = {}
  BY <1>1
<1>5. b[3 - 1] = "CR"
  OBVIOUS
<1>6. SizeSeen(b, 3) = 0
  BY <1>4 DEF SizeSeen, LengthsSeen
<1> QED BY <1>3, <1>4, <1>5, <1>6 DEF HeaderPart, Seen

\* A header line, which is not empty, makes it longer.
LEMMA HeaderGrows ==
    ASSUME HttpAssumption, NEW b \in Seq(STRING), NEW s, HeaderPart(b, s), NEW e \in s + 2 .. Len(b) - 1,
           b[e] = "CR", b[e + 1] = "LF", Unmarked(b, s + 1, e - 1)
    PROVE  /\ HeaderPart(b, e + 1)
           /\ Seen(b, e + 1, "keep") <=> Seen(b, s, "keep") \/ (e = s + 2 /\ b[s + 1] = "keep")
           /\ SizeSeen(b, e + 1) = IF e = s + 2 /\ b[s + 1] \in DOMAIN Length
                                   THEN ToInt(Length[b[s + 1]]) ELSE SizeSeen(b, s)
<1>1. Len(b) \in Nat /\ s \in 3 .. Len(b) /\ e \in Nat /\ s + 2 <= e /\ e + 1 <= Len(b)
  BY LenProperties DEF HeaderPart
<1>2. HeaderPart(b, e + 1)
  <2>1. e + 1 \in 3 .. Len(b) /\ (e + 1) - 1 = e /\ (e + 1) - 3 = e - 2
    BY <1>1
  <2>2. b[1] = "get" /\ b[2] = "CR" /\ b[3] = "LF"
    BY DEF HeaderPart
  <2>3. ASSUME NEW i \in 1 .. e + 1, b[i] = "CR" PROVE b[i + 1] = "LF"
    <3>1. CASE i <= s
      BY <1>1, <2>3, <3>1 DEF HeaderPart
    <3>2. CASE i > s
      BY <1>1, <2>3, <3>2 DEF Unmarked
    <3> QED BY <1>1, <3>1, <3>2
  <2>4. ASSUME NEW i \in 2 .. e + 1, b[i] = "LF" PROVE b[i - 1] = "CR"
    <3>1. CASE i <= s
      BY <1>1, <2>4, <3>1 DEF HeaderPart
    <3>2. CASE i > s
      <4>1. i = e + 1
        BY <1>1, <2>4, <3>2 DEF Unmarked
      <4>2. i - 1 = e
        BY <1>1, <4>1
      <4> QED BY <4>2
    <3> QED BY <1>1, <3>1, <3>2
  <2>5. ASSUME NEW i \in 1 .. e - 2, b[i] = "CR", b[i + 2] = "CR" PROVE FALSE
    <3>1. CASE i <= s - 3
      <4>1. i \in 1 .. s - 3
        BY <1>1, <3>1
      <4> QED BY <2>5, <4>1 DEF HeaderPart
    <3>2. CASE i = s - 2
      <4>1. i \in 1 .. s /\ i + 1 = s - 1
        BY <1>1, <3>2
      <4> QED BY <2>5, <4>1 DEF HeaderPart
    <3>3. CASE i = s - 1
      <4>1. i + 2 = s + 1 /\ s + 1 \in s + 1 .. e - 1
        BY <1>1, <3>3
      <4> QED BY <2>5, <4>1 DEF Unmarked
    <3>4. CASE i = s
      BY <2>5, <3>4 DEF HeaderPart
    <3>5. CASE i > s
      <4>1. i \in s + 1 .. e - 1
        BY <1>1, <3>5
      <4> QED BY <2>5, <4>1 DEF Unmarked
    <3> QED BY <1>1, <3>1, <3>2, <3>3, <3>4, <3>5
  <2> QED BY <2>1, <2>2, <2>3, <2>4, <2>5 DEF HeaderPart
<1>3. ASSUME NEW i \in 1 .. (e + 1) - 4, b[i] = "CR", b[i + 2] # "LF", b[i + 3] = "CR"
      PROVE  i \in 1 .. s - 4 \/ (e = s + 2 /\ i = s - 1)
  <2>1. b[i + 1] = "LF"
    BY <1>1, <1>2, <1>3 DEF HeaderPart
  <2>2. CASE i + 3 <= s
    <3>1. i + 3 # s
      BY <1>3 DEF HeaderPart
    <3> QED BY <1>1, <2>2, <3>1
  <2>3. CASE i + 3 > s
    <3>1. i + 3 = e
      BY <1>1, <1>3, <2>3 DEF Unmarked
    <3>2. i + 1 <= s
      <4>1. i + 1 \in Int /\ i + 1 <= e - 1
        BY <1>1, <3>1
      <4> QED BY <1>1, <2>1, <4>1 DEF Unmarked
    <3>3. i + 2 # s
      BY <1>3 DEF HeaderPart
    <3> QED BY <1>1, <2>3, <3>1, <3>2, <3>3
  <2> QED BY <1>1, <2>2, <2>3
<1>4. \A i \in 1 .. s - 4 : i \in 1 .. (e + 1) - 4 /\ i < s - 1
  BY <1>1
<1>5. e = s + 2 => /\ s - 1 \in 1 .. (e + 1) - 4
                   /\ b[s - 1] = "CR" /\ (s - 1) + 2 = s + 1 /\ b[(s - 1) + 3] = "CR"
  <2>1. (s - 1) + 3 = s + 2
    BY <1>1
  <2> QED BY <1>1, <2>1 DEF HeaderPart
<1>6. Seen(b, e + 1, "keep") <=> Seen(b, s, "keep") \/ (e = s + 2 /\ b[s + 1] = "keep")
  <2>1. ASSUME Seen(b, e + 1, "keep")
        PROVE  Seen(b, s, "keep") \/ (e = s + 2 /\ b[s + 1] = "keep")
    <3>1. PICK i \in 1 .. (e + 1) - 4 : b[i] = "CR" /\ b[i + 2] = "keep" /\ b[i + 3] = "CR"
      BY <2>1 DEF Seen
    <3>2. CASE i \in 1 .. s - 4
      BY <3>1, <3>2 DEF Seen
    <3>3. CASE e = s + 2 /\ i = s - 1
      BY <1>5, <3>1, <3>3
    <3> QED BY <1>3, <3>1, <3>2, <3>3
  <2>2. ASSUME Seen(b, s, "keep") PROVE Seen(b, e + 1, "keep")
    BY <1>4, <2>2 DEF Seen
  <2>3. ASSUME e = s + 2, b[s + 1] = "keep" PROVE Seen(b, e + 1, "keep")
    BY <1>5, <2>3 DEF Seen
  <2> QED BY <2>1, <2>2, <2>3
<1>7. CASE e = s + 2 /\ b[s + 1] \in DOMAIN Length
  <2>1. s - 1 \in LengthsSeen(b, e + 1)
    BY <1>5, <1>7 DEF LengthsSeen
  <2>2. \A i \in LengthsSeen(b, e + 1) : i \in Int /\ i <= s - 1
    <3>1. (e + 1) - 4 = s - 1
      BY <1>1, <1>7
    <3> QED BY <1>1, <3>1 DEF LengthsSeen
  <2>3. Max(LengthsSeen(b, e + 1)) = s - 1
    <3>1. LengthsSeen(b, e + 1) \in SUBSET Int
      BY <2>2
    <3> QED BY <2>1, <2>2, <3>1, MaxIs
  <2> QED BY <1>2, <1>5, <1>6, <1>7, <2>1, <2>3 DEF SizeSeen
<1>8. CASE ~(e = s + 2 /\ b[s + 1] \in DOMAIN Length)
  <2>1. "LF" \notin DOMAIN Length
    BY DEF HttpAssumption
  <2>2. ASSUME NEW i \in LengthsSeen(b, e + 1) PROVE i \in LengthsSeen(b, s)
    <3>1. /\ i \in 1 .. (e + 1) - 4 /\ b[i] = "CR" /\ b[i + 2] \in DOMAIN Length
          /\ b[i + 3] = "CR"
      BY DEF LengthsSeen
    <3>2. ~(e = s + 2 /\ i = s - 1)
      BY <1>5, <1>8, <3>1
    <3>3. i \in 1 .. s - 4
      BY <1>3, <2>1, <3>1, <3>2
    <3> QED BY <3>1, <3>3 DEF LengthsSeen
  <2>3. ASSUME NEW i \in LengthsSeen(b, s) PROVE i \in LengthsSeen(b, e + 1)
    BY <1>4 DEF LengthsSeen
  <2>4. LengthsSeen(b, e + 1) = LengthsSeen(b, s)
    BY <2>2, <2>3
  <2> QED BY <1>2, <1>6, <1>8, <2>4 DEF SizeSeen
<1> QED BY <1>7, <1>8

-----------------------------------------------------------------------------
\* What parse_line() answers.
LEMMA ParseLine ==
    ASSUME m_read_buf \in Seq(STRING), m_checked_idx \in 0 .. Len(m_read_buf)
    PROVE  /\ parse_line.checked \in m_checked_idx .. Len(m_read_buf)
           /\ parse_line.line = "LINE_OK" =>
                 \E e \in m_checked_idx + 1 .. Len(m_read_buf) - 1 :
                     /\ parse_line.checked = e + 1
                     /\ m_read_buf[e] = "CR" /\ m_read_buf[e + 1] = "LF"
                     /\ Unmarked(m_read_buf, m_checked_idx + 1, e - 1)
           /\ parse_line.line # "LINE_OK" =>
                 /\ Unmarked(m_read_buf, m_checked_idx + 1, parse_line.checked)
                 /\ Stop(m_read_buf, parse_line.checked)
<1> DEFINE marks == {k \in m_checked_idx + 1 .. Len(m_read_buf) : m_read_buf[k] \in {"CR", "LF"}}
<1>1. Len(m_read_buf) \in Nat
  BY LenProperties
<1>2. CASE marks = {}
  <2>1. parse_line.checked = Len(m_read_buf) /\ parse_line.line = "LINE_OPEN"
    BY <1>2 DEF parse_line, m_read_idx
  <2>2. Unmarked(m_read_buf, m_checked_idx + 1, Len(m_read_buf))
    BY <1>2 DEF Unmarked
  <2> QED BY <1>1, <2>1, <2>2 DEF Stop
<1>3. CASE marks # {}
  <2>1. marks \in SUBSET Nat
    BY <1>1
  <2>2. PICK i \in marks : i = Min(marks) /\ \A k \in marks : i <= k
    <3> HIDE DEF marks
    <3> QED BY <1>3, <2>1, MinExists
  <2>3. /\ i \in m_checked_idx + 1 .. Len(m_read_buf)
        /\ m_read_buf[i] = "CR" \/ m_read_buf[i] = "LF"
        /\ Unmarked(m_read_buf, m_checked_idx + 1, i - 1)
    <3>1. /\ i \in m_checked_idx + 1 .. Len(m_read_buf)
          /\ m_read_buf[i] = "CR" \/ m_read_buf[i] = "LF"
      BY <2>2
    <3>2. ASSUME NEW k \in m_checked_idx + 1 .. i - 1
          PROVE  m_read_buf[k] # "CR" /\ m_read_buf[k] # "LF"
      <4>1. k \in m_checked_idx + 1 .. Len(m_read_buf) /\ ~(i <= k)
        BY <1>1, <3>1
      <4>2. k \notin marks
        BY <2>2, <4>1
      <4> QED BY <4>1, <4>2
    <3> QED BY <3>1, <3>2 DEF Unmarked
  <2>4. parse_line =
           IF m_read_buf[i] = "CR"
           THEN IF i = Len(m_read_buf) THEN [line |-> "LINE_OPEN", checked |-> i - 1]
                ELSE IF m_read_buf[i + 1] = "LF" THEN [line |-> "LINE_OK", checked |-> i + 1]
                ELSE [line |-> "LINE_BAD", checked |-> i - 1]
           ELSE [line |-> "LINE_BAD", checked |-> i - 1]
    BY <1>3, <2>2 DEF parse_line, m_read_idx
  <2>5. i - 1 \in m_checked_idx .. Len(m_read_buf) /\ (i - 1) + 1 = i /\ (i - 1) + 2 = i + 1
    BY <1>1, <2>3
  <2>6. CASE m_read_buf[i] = "CR" /\ i # Len(m_read_buf) /\ m_read_buf[i + 1] = "LF"
    <3>1. parse_line.line = "LINE_OK" /\ parse_line.checked = i + 1
      BY <2>4, <2>6
    <3>2. i \in m_checked_idx + 1 .. Len(m_read_buf) - 1 /\ i + 1 \in m_checked_idx .. Len(m_read_buf)
      BY <1>1, <2>3, <2>6
    <3> QED BY <2>3, <2>6, <3>1, <3>2
  <2>7. CASE ~(m_read_buf[i] = "CR" /\ i # Len(m_read_buf) /\ m_read_buf[i + 1] = "LF")
    <3>1. parse_line.line # "LINE_OK" /\ parse_line.checked = i - 1
      BY <2>3, <2>4, <2>7
    <3>2. Stop(m_read_buf, i - 1)
      <4>1. i - 1 < Len(m_read_buf)
        BY <1>1, <2>3
      <4> QED BY <2>3, <2>5, <2>7, <4>1 DEF Stop
    <3> QED BY <2>3, <2>5, <3>1, <3>2
  <2> QED BY <2>6, <2>7
<1> QED BY <1>2, <1>3

LEMMA UnmarkedJoins ==
    ASSUME NEW b, NEW i \in Int, NEW j \in Int, NEW k \in Int,
           Unmarked(b, i, j), Unmarked(b, j + 1, k)
    PROVE  Unmarked(b, i, k)
<1>1. ASSUME NEW x \in i .. k PROVE b[x] # "CR" /\ b[x] # "LF"
  <2>1. CASE x \in i .. j
    BY <2>1 DEF Unmarked
  <2>2. CASE x \in j + 1 .. k
    BY <2>2 DEF Unmarked
  <2> QED BY <2>1, <2>2
<1> QED BY <1>1 DEF Unmarked

-----------------------------------------------------------------------------
\* Types.

LEMMA MinOfTwo ==
    ASSUME NEW x \in Int, NEW y \in Int
    PROVE  Min({x, y}) \in {x, y} /\ Min({x, y}) <= x /\ Min({x, y}) <= y
<1>1. CASE x <= y
  <2>1. Min({x, y}) = x
    BY <1>1, MinIs
  <2> QED BY <1>1, <2>1
<1>2. CASE y <= x
  <2>1. Min({x, y}) = y
    BY <1>2, MinIs
  <2> QED BY <1>2, <2>1
<1> QED BY <1>1, <1>2

LEMMA PieceAdds ==
    ASSUME NEW b \in Seq(STRING), NEW c \in Seq(STRING), NEW i \in Nat, NEW n \in Nat,
           i + n <= Len(c)
    PROVE  /\ b \o SubSeq(c, i + 1, i + n) \in Seq(STRING)
           /\ Len(b \o SubSeq(c, i + 1, i + n)) = Len(b) + n
           /\ Extends(b, b \o SubSeq(c, i + 1, i + n))
<1> DEFINE t == SubSeq(c, i + 1, i + n)
<1>1. Len(b) \in Nat /\ Len(c) \in Nat /\ i + 1 \in Int /\ i + n \in Int
  BY LenProperties
<1>2. \A k \in i + 1 .. i + n : c[k] \in STRING
  <2>1. \A k \in 1 .. Len(c) : c[k] \in STRING
    BY ElementOfSeq
  <2> QED BY <1>1, <2>1
<1>3. t \in Seq(STRING) /\ Len(t) = IF i + 1 <= i + n THEN (i + n) - (i + 1) + 1 ELSE 0
  BY <1>1, <1>2, SubSeqProperties
<1>4. Len(t) = n
  BY <1>1, <1>3
<1> HIDE DEF t
<1>5. /\ b \o t \in Seq(STRING)
      /\ Len(b \o t) = Len(b) + Len(t)
      /\ \A k \in 1 .. Len(b) + Len(t) : (b \o t)[k] = IF k <= Len(b) THEN b[k] ELSE t[k - Len(b)]
  BY <1>3, ConcatProperties
<1>6. Extends(b, b \o t)
  BY <1>1, <1>4, <1>5 DEF Extends
<1> QED BY <1>4, <1>5, <1>6 DEF t

\* What a read adds to the buffer.
LEMMA ReadAdds ==
    ASSUME HttpAssumption, Types, Read
    PROVE  /\ taken' \in 0 .. sent
           /\ m_read_buf' \in Seq(STRING) /\ Len(m_read_buf') <= READ_BUFFER_SIZE
           /\ Extends(m_read_buf, m_read_buf')
           /\ pc' \in {"process", "closed"}
           /\ pc' = "process" => Len(m_read_buf') < READ_BUFFER_SIZE
<1>1. /\ stream \in Seq(STRING) /\ m_read_buf \in Seq(STRING)
      /\ Len(stream) \in Nat /\ Len(m_read_buf) \in Nat /\ m_read_idx = Len(m_read_buf)
      /\ sent \in 0 .. Len(stream) /\ taken \in 0 .. sent
      /\ m_read_idx <= READ_BUFFER_SIZE /\ READ_BUFFER_SIZE \in Nat
  BY LenProperties DEF Types, TypeOK, HttpAssumption, m_read_idx
<1>2. PICK x \in Nat, y \in Nat : x = sent - taken /\ y = READ_BUFFER_SIZE - m_read_idx
  <2>1. sent - taken \in Nat /\ READ_BUFFER_SIZE - m_read_idx \in Nat
    BY <1>1
  <2> QED BY <2>1
<1>3. PICK n \in Nat : n = Min({x, y}) /\ n <= x /\ n <= y
  <2>1. x \in Int /\ y \in Int
    BY <1>2
  <2>2. Min({x, y}) \in {x, y} /\ Min({x, y}) <= x /\ Min({x, y}) <= y
    BY ONLY <2>1, MinOfTwo, Zenon
  <2>3. Min({x, y}) \in Nat
    BY <1>2, <2>2
  <2> QED BY <2>2, <2>3
<1>4. /\ m_read_buf' = m_read_buf \o SubSeq(stream, taken + 1, taken + n)
      /\ taken' = taken + n
      /\ pc' = IF m_read_idx + n < READ_BUFFER_SIZE THEN "process" ELSE "closed"
  BY <1>2, <1>3 DEF Read
<1>5. taken \in Nat /\ taken + n <= Len(stream) /\ taken + n \in 0 .. sent
  BY <1>1, <1>2, <1>3
<1>6. /\ m_read_buf' \in Seq(STRING)
      /\ Len(m_read_buf') = Len(m_read_buf) + n
      /\ Extends(m_read_buf, m_read_buf')
  <2>1. PICK b \in Seq(STRING), c \in Seq(STRING), i \in Nat :
           b = m_read_buf /\ c = stream /\ i = taken
    BY <1>1, <1>5
  <2>2. i + n <= Len(c)
    BY <1>5, <2>1
  <2>3. /\ b \o SubSeq(c, i + 1, i + n) \in Seq(STRING)
        /\ Len(b \o SubSeq(c, i + 1, i + n)) = Len(b) + n
        /\ Extends(b, b \o SubSeq(c, i + 1, i + n))
    <3>1. n \in Nat /\ b \in Seq(STRING) /\ c \in Seq(STRING) /\ i \in Nat
      BY <1>3, <2>1
    <3> QED BY ONLY <3>1, <2>2, PieceAdds, Zenon
  <2>4. m_read_buf' = b \o SubSeq(c, i + 1, i + n)
    BY <1>4, <2>1
  <2> QED BY <2>1, <2>3, <2>4
<1>7. Len(m_read_buf) + n <= READ_BUFFER_SIZE
  BY <1>1, <1>2, <1>3
<1>8. /\ pc' \in {"process", "closed"}
      /\ pc' = "process" => Len(m_read_buf') < READ_BUFFER_SIZE
  BY <1>1, <1>4, <1>6
<1> QED BY <1>4, <1>5, <1>6, <1>7, <1>8

\* Actions that keep the buffer, and move the parser in it.
LEMMA TypesMove ==
    ASSUME HttpAssumption, Types, stream' = stream, taken' = taken, m_read_buf' = m_read_buf,
           sent' \in sent .. Len(stream),
           m_check_state' \in {"CHECK_STATE_REQUESTLINE", "CHECK_STATE_HEADER",
                               "CHECK_STATE_CONTENT"},
           m_start_line' \in {m_start_line, m_checked_idx, m_checked_idx'},
           m_checked_idx' \in m_checked_idx .. Len(m_read_buf),
           m_content_length' \in Int, m_linger' \in BOOLEAN,
           m_write_idx' \in {0, HeadLen}, status' \in {0, 200, 400, 403, 404},
           m_file_address' \in {"unset", "null", "file", "failed"},
           have' \in 0 .. HeadLen + FileLen,
           pc' \in {"in", "process", "out", "write", "closed", "undefined"},
           pc' \notin {"in", "closed"} => pc \notin {"in", "closed"}
    PROVE  Types'
<1>1. /\ 0 <= m_start_line /\ m_start_line <= m_checked_idx /\ m_checked_idx <= Len(m_read_buf)
      /\ Len(m_read_buf) \in Nat /\ Len(stream) \in Nat
      /\ sent \in 0 .. Len(stream) /\ taken \in 0 .. sent
      /\ m_start_line \in Nat /\ m_checked_idx \in Nat
  BY LenProperties DEF Types, TypeOK, HttpAssumption, m_read_idx
<1>2. sent' \in 0 .. Len(stream') /\ taken' \in 0 .. sent'
  BY <1>1
<1>3. /\ 0 <= m_start_line' /\ m_start_line' <= m_checked_idx' /\ m_checked_idx' <= m_read_idx'
      /\ m_start_line' \in Nat /\ m_checked_idx' \in Nat
  BY <1>1 DEF m_read_idx
<1>4. m_read_idx' <= READ_BUFFER_SIZE
  BY DEF Types, TypeOK, m_read_idx
<1>5. pc' \notin {"in", "closed"} => m_read_idx' < READ_BUFFER_SIZE
  BY DEF Types, TypeOK, m_read_idx
<1>6. stream' \in Streams /\ m_read_buf' \in Seq(STRING)
  BY DEF Types
<1> QED BY <1>2, <1>3, <1>4, <1>5, <1>6 DEF Types, TypeOK

\* Actions that clear the buffer.
LEMMA TypesReset ==
    ASSUME HttpAssumption, Types, Reset, pc' = "in",
           stream' \in Streams, sent' \in 0 .. Len(stream'), taken' \in 0 .. sent',
           status' = status, m_file_address' \in {"unset", "null", "file", "failed"},
           have' \in 0 .. HeadLen + FileLen
    PROVE  Types'
<1>1. m_read_buf' = <<>> /\ m_read_buf' \in Seq(STRING) /\ m_read_idx' = 0
  BY DEF Reset, m_read_idx
<1>2. /\ m_check_state' = "CHECK_STATE_REQUESTLINE" /\ m_start_line' = 0 /\ m_checked_idx' = 0
      /\ m_write_idx' = 0 /\ m_content_length' = 0 /\ m_linger' \in BOOLEAN
  BY DEF Reset
<1>3. /\ m_read_idx' <= READ_BUFFER_SIZE
      /\ 0 <= m_start_line' /\ m_start_line' <= m_checked_idx' /\ m_checked_idx' <= m_read_idx'
      /\ m_start_line' \in Nat /\ m_checked_idx' \in Nat
  BY <1>1, <1>2 DEF HttpAssumption
<1>4. status' \in {0, 200, 400, 403, 404}
  BY DEF Types, TypeOK
<1> QED BY <1>1, <1>2, <1>3, <1>4 DEF Types, TypeOK

LEMMA TypesStep ==
    ASSUME HttpAssumption, Types, [Next]_vars
    PROVE  Types'
<1>1. /\ stream \in Streams /\ sent \in 0 .. Len(stream) /\ taken \in 0 .. sent
      /\ Len(stream) \in Nat /\ sent \in sent .. Len(stream)
  BY LenProperties DEF Types, TypeOK, HttpAssumption
<1>2. /\ m_read_buf \in Seq(STRING) /\ Len(m_read_buf) \in Nat
      /\ m_start_line \in Nat /\ m_checked_idx \in Nat
      /\ m_checked_idx \in 0 .. Len(m_read_buf)
      /\ m_checked_idx \in m_checked_idx .. Len(m_read_buf)
      /\ parse_line.checked \in m_checked_idx .. Len(m_read_buf)
  <2>1. /\ m_read_buf \in Seq(STRING) /\ Len(m_read_buf) \in Nat
        /\ m_start_line \in Nat /\ m_checked_idx \in Nat
        /\ m_checked_idx <= Len(m_read_buf)
    BY LenProperties DEF Types, TypeOK, m_read_idx
  <2>2. m_checked_idx \in 0 .. Len(m_read_buf) /\ m_checked_idx \in m_checked_idx .. Len(m_read_buf)
    BY <2>1
  <2> QED BY <2>1, <2>2, ParseLine
<1>3. /\ m_check_state \in {"CHECK_STATE_REQUESTLINE", "CHECK_STATE_HEADER",
                            "CHECK_STATE_CONTENT"}
      /\ m_content_length \in Int /\ m_linger \in BOOLEAN
  BY DEF Types, TypeOK
<1>4. /\ m_write_idx \in {0, HeadLen} /\ status \in {0, 200, 400, 403, 404}
      /\ m_file_address \in {"unset", "null", "file", "failed"}
  BY DEF Types, TypeOK
<1>5. /\ have \in 0 .. HeadLen + FileLen /\ 0 \in 0 .. HeadLen + FileLen
      /\ HeadLen \in Nat \ {0} /\ FileLen \in Nat \ {0}
  BY DEF Types, TypeOK, HttpAssumption
<1>6. pc \in {"in", "process", "out", "write", "closed", "undefined"}
  BY DEF Types, TypeOK
<1>7. ASSUME NEW n, Send(n) PROVE Types'
  <2>1. sent' \in sent .. Len(stream)
    BY <1>1, <1>7 DEF Send
  <2>2. /\ stream' = stream /\ taken' = taken /\ m_read_buf' = m_read_buf
        /\ UNCHANGED <<m_check_state, m_start_line, m_checked_idx, m_content_length, m_linger>>
        /\ UNCHANGED <<m_write_idx, status, m_file_address, have, pc>>
    BY <1>7 DEF Send, parser, answer, output
  <2> QED BY <1>2, <1>3, <1>4, <1>5, <1>6, <2>1, <2>2, TypesMove
<1>8. CASE Disconnect
  <2>1. /\ stream' = stream /\ sent' = sent /\ taken' = taken /\ m_read_buf' = m_read_buf
        /\ UNCHANGED <<m_check_state, m_start_line, m_checked_idx, m_content_length, m_linger>>
        /\ UNCHANGED <<m_write_idx, status, m_file_address, have>>
        /\ pc' = "closed"
    BY <1>8 DEF Disconnect, net, parser, answer, output
  <2> QED BY <1>1, <1>2, <1>3, <1>4, <1>5, <1>6, <2>1, TypesMove
<1>9. CASE Connect
  <2>1. /\ Reset /\ pc' = "in" /\ stream' \in Streams /\ sent' = 0 /\ taken' = 0
        /\ UNCHANGED <<status, m_file_address, have>>
    BY <1>9 DEF Connect
  <2>2. sent' \in 0 .. Len(stream') /\ taken' \in 0 .. sent'
    <3>1. Len(stream') \in Nat
      BY <2>1, LenProperties DEF HttpAssumption
    <3> QED BY <2>1, <3>1
  <2> QED BY <1>4, <1>5, <2>1, <2>2, TypesReset
<1>10. CASE Read
  <2>1. /\ taken' \in 0 .. sent
        /\ m_read_buf' \in Seq(STRING) /\ Len(m_read_buf') <= READ_BUFFER_SIZE
        /\ Extends(m_read_buf, m_read_buf')
        /\ pc' \in {"process", "closed"}
        /\ pc' = "process" => Len(m_read_buf') < READ_BUFFER_SIZE
    BY <1>10, ReadAdds
  <2>2. /\ stream' = stream /\ sent' = sent
        /\ UNCHANGED <<m_check_state, m_start_line, m_checked_idx, m_content_length, m_linger>>
        /\ UNCHANGED <<m_write_idx, status, m_file_address, have>>
    BY <1>10 DEF Read, net, parser, answer, output
  <2>3. /\ 0 <= m_start_line /\ m_start_line <= m_checked_idx /\ m_checked_idx <= Len(m_read_buf')
    <3>1. m_start_line <= m_checked_idx /\ Len(m_read_buf') \in Nat
      BY <2>1, LenProperties DEF Types, TypeOK
    <3> QED BY <1>2, <2>1, <3>1 DEF Extends
  <2>4. /\ m_read_idx' <= READ_BUFFER_SIZE
        /\ pc' \notin {"in", "closed"} => m_read_idx' < READ_BUFFER_SIZE
    BY <2>1 DEF m_read_idx
  <2>5. m_start_line' <= m_checked_idx' /\ m_checked_idx' <= m_read_idx' /\ 0 <= m_start_line'
    BY <2>2, <2>3 DEF m_read_idx
  <2> QED BY <1>1, <1>2, <1>3, <1>4, <1>5, <2>1, <2>2, <2>4, <2>5 DEF Types, TypeOK
<1>11. ASSUME NEW s \in {200, 400, 403, 404}, NEW z, process_write(s, z)
       PROVE  /\ status' \in {0, 200, 400, 403, 404} /\ m_write_idx' \in {0, HeadLen}
              /\ pc' \in {"out", "closed"}
  BY <1>11 DEF process_write
<1>12. ASSUME do_request
       PROVE  /\ status' \in {0, 200, 400, 403, 404} /\ m_write_idx' \in {0, HeadLen}
              /\ pc' \in {"out", "closed"}
              /\ m_file_address' \in {"unset", "null", "file", "failed"}
  <2>1. CASE \E s \in {404, 403, 400} : process_write(s, 0) /\ UNCHANGED m_file_address
    BY <1>4, <1>11, <2>1
  <2>2. CASE process_write(200, FileLen) /\ m_file_address' \in {"file", "failed"}
    BY <1>11, <2>2
  <2>3. CASE process_write(200, 0) /\ m_file_address' = "failed"
    BY <1>11, <2>3
  <2> QED BY <1>12, <2>1, <2>2, <2>3 DEF do_request
<1>13. CASE parse_request_line
  <2>1. /\ stream' = stream /\ sent' = sent /\ taken' = taken /\ m_read_buf' = m_read_buf
        /\ UNCHANGED <<m_content_length, m_linger, have>>
        /\ m_checked_idx' = parse_line.checked /\ m_start_line' = m_checked_idx'
        /\ pc = "process"
    BY <1>13 DEF parse_request_line, TakeLine, net, output
  <2>2. /\ m_check_state' \in {"CHECK_STATE_REQUESTLINE", "CHECK_STATE_HEADER",
                               "CHECK_STATE_CONTENT"}
    BY <1>3, <1>13 DEF parse_request_line
  <2>3. /\ status' \in {0, 200, 400, 403, 404} /\ m_write_idx' \in {0, HeadLen}
        /\ m_file_address' \in {"unset", "null", "file", "failed"}
        /\ pc' \in {"process", "out", "closed"}
    <3>1. CASE BadRequest
      BY <1>4, <1>11, <3>1 DEF BadRequest
    <3>2. CASE UNCHANGED <<answer, pc, due>>
      BY <1>4, <2>1, <3>2 DEF answer
    <3> QED BY <1>13, <3>1, <3>2 DEF parse_request_line
  <2> QED BY <1>1, <1>2, <1>3, <1>5, <2>1, <2>2, <2>3, TypesMove
<1>14. CASE parse_headers
  <2>1. /\ stream' = stream /\ sent' = sent /\ taken' = taken /\ m_read_buf' = m_read_buf
        /\ have' = have
        /\ m_checked_idx' = parse_line.checked /\ m_start_line' = m_checked_idx'
        /\ pc = "process"
    BY <1>14 DEF parse_headers, TakeLine, net, output
  <2>2. /\ m_check_state' \in {"CHECK_STATE_REQUESTLINE", "CHECK_STATE_HEADER",
                               "CHECK_STATE_CONTENT"}
        /\ m_linger' \in BOOLEAN
    BY <1>3, <1>14 DEF parse_headers
  <2>4. m_content_length' \in Int
    <3>1. CASE m_content_length' = m_content_length
      BY <1>3, <3>1
    <3>2. ASSUME NEW h \in DOMAIN Length, text = <<h>>, m_content_length' = ToInt(Length[text[1]])
          PROVE  m_content_length' \in Int
      <4>1. text[1] = h
        BY <3>2
      <4> QED BY <3>2, <4>1, LengthIsInt
    <3> QED BY <1>14, <3>1, <3>2 DEF parse_headers
  <2>3. /\ status' \in {0, 200, 400, 403, 404} /\ m_write_idx' \in {0, HeadLen}
        /\ m_file_address' \in {"unset", "null", "file", "failed"}
        /\ pc' \in {"process", "out", "closed"}
    <3>1. CASE do_request
      BY <1>12, <3>1
    <3>2. CASE UNCHANGED <<answer, pc, due>>
      BY <1>4, <2>1, <3>2 DEF answer
    <3> QED BY <1>14, <3>1, <3>2 DEF parse_headers
  <2> QED BY <1>1, <1>2, <1>5, <2>1, <2>2, <2>3, <2>4, TypesMove
<1>15. CASE parse_content
  <2>1. /\ stream' = stream /\ sent' = sent /\ taken' = taken /\ m_read_buf' = m_read_buf
        /\ UNCHANGED <<m_check_state, m_content_length, m_linger, have>>
        /\ m_start_line' = m_checked_idx /\ pc = "process"
    BY <1>15 DEF parse_content, net, output
  <2>2. m_checked_idx' \in m_checked_idx .. Len(m_read_buf)
    BY <1>2, <1>15 DEF parse_content
  <2>3. /\ status' \in {0, 200, 400, 403, 404} /\ m_write_idx' \in {0, HeadLen}
        /\ m_file_address' \in {"unset", "null", "file", "failed"}
        /\ pc' \in {"in", "process", "out", "closed", "undefined"}
    <3>1. CASE do_request
      BY <1>12, <3>1
    <3>2. CASE UNCHANGED <<answer, due>> /\ pc' \in {"process", "in", "undefined"}
      BY <1>4, <2>1, <3>2 DEF answer
    <3> QED BY <1>15, <3>1, <3>2 DEF parse_content
  <2> QED BY <1>1, <1>2, <1>3, <1>5, <2>1, <2>2, <2>3, TypesMove
<1>16. CASE LineOpen
  <2>1. /\ stream' = stream /\ sent' = sent /\ taken' = taken /\ m_read_buf' = m_read_buf
        /\ UNCHANGED <<m_check_state, m_start_line, m_content_length, m_linger, have>>
        /\ UNCHANGED <<m_write_idx, status, m_file_address>>
        /\ m_checked_idx' = parse_line.checked /\ pc' = "in"
    BY <1>16 DEF LineOpen, net, answer, output
  <2> QED BY <1>1, <1>2, <1>3, <1>4, <1>5, <2>1, TypesMove
<1>17. CASE WriteStarts
  <2>1. /\ stream' = stream /\ sent' = sent /\ taken' = taken /\ m_read_buf' = m_read_buf
        /\ UNCHANGED <<m_check_state, m_start_line, m_checked_idx, m_content_length, m_linger>>
        /\ UNCHANGED <<m_write_idx, status, m_file_address>>
        /\ pc = "out" /\ pc' = "write" /\ have' = 0
    BY <1>17 DEF WriteStarts, net, parser, answer
  <2> QED BY <1>1, <1>2, <1>3, <1>4, <1>5, <2>1, TypesMove
<1>18. ASSUME NEW n \in 1 .. HeadLen + FileLen, Writev(n) PROVE Types'
  <2>1. /\ stream' = stream /\ sent' = sent /\ taken' = taken /\ status' = status
        /\ pc = "write"
    BY <1>18 DEF Writev, net
  <2>2. CASE m_write_idx - (have + n) > have + n
    <3>1. /\ m_read_buf' = m_read_buf /\ have' = have + n
          /\ UNCHANGED <<m_check_state, m_start_line, m_checked_idx, m_content_length, m_linger>>
          /\ UNCHANGED <<m_write_idx, m_file_address, pc>>
      BY <1>18, <2>2 DEF Writev, parser
    <3>2. have' \in 0 .. HeadLen + FileLen
      BY <1>4, <1>5, <2>2, <3>1
    <3> QED BY <1>1, <1>2, <1>3, <1>4, <1>6, <2>1, <3>1, <3>2, TypesMove
  <2>3. CASE ~(m_write_idx - (have + n) > have + n) /\ m_linger
    <3>1. Reset /\ pc' = "in" /\ have' = 0 /\ m_file_address' = "null"
      BY <1>18, <2>3 DEF Writev
    <3> QED BY <1>1, <1>5, <2>1, <3>1, TypesReset
  <2>4. CASE ~(m_write_idx - (have + n) > have + n) /\ ~m_linger
    <3>1. /\ m_read_buf' = m_read_buf /\ have' = 0 /\ pc' = "closed" /\ m_file_address' = "null"
          /\ UNCHANGED <<m_check_state, m_start_line, m_checked_idx, m_content_length, m_linger>>
          /\ UNCHANGED m_write_idx
      BY <1>18, <2>4 DEF Writev, parser
    <3> QED BY <1>1, <1>2, <1>3, <1>4, <1>5, <2>1, <3>1, TypesMove
  <2> QED BY <2>2, <2>3, <2>4
<1>19. CASE WritevBlocks
  <2>1. /\ stream' = stream /\ sent' = sent /\ taken' = taken /\ m_read_buf' = m_read_buf
        /\ UNCHANGED <<m_check_state, m_start_line, m_checked_idx, m_content_length, m_linger>>
        /\ UNCHANGED <<m_write_idx, status, m_file_address>>
        /\ pc = "write" /\ pc' = "out" /\ have' = 0
    BY <1>19 DEF WritevBlocks, net, parser, answer
  <2> QED BY <1>1, <1>2, <1>3, <1>4, <1>5, <2>1, TypesMove
<1>20. CASE WritevFails
  <2>1. /\ stream' = stream /\ sent' = sent /\ taken' = taken /\ m_read_buf' = m_read_buf
        /\ UNCHANGED <<m_check_state, m_start_line, m_checked_idx, m_content_length, m_linger>>
        /\ UNCHANGED <<m_write_idx, status>>
        /\ pc' = "closed" /\ have' = 0 /\ m_file_address' = "null"
    BY <1>20 DEF WritevFails, net, parser
  <2> QED BY <1>1, <1>2, <1>3, <1>4, <1>5, <2>1, TypesMove
<1>21. CASE UNCHANGED vars
  <2>1. /\ stream' = stream /\ sent' = sent /\ taken' = taken /\ m_read_buf' = m_read_buf
        /\ UNCHANGED <<m_check_state, m_start_line, m_checked_idx, m_content_length, m_linger>>
        /\ UNCHANGED <<m_write_idx, status, m_file_address, have, pc>>
    BY <1>21 DEF vars, net, parser, answer, output
  <2> QED BY <1>1, <1>2, <1>3, <1>4, <1>5, <1>6, <2>1, TypesMove
<1> QED
  BY <1>7, <1>8, <1>9, <1>10, <1>13, <1>14, <1>15, <1>16, <1>17, <1>18, <1>19, <1>20, <1>21
  DEF Next

-----------------------------------------------------------------------------
\* The parser.

\* Steps that leave the buffer and the parser alone.
LEMMA ParserKeeps ==
    ASSUME ParserOK, UNCHANGED <<m_read_buf, parser, status, nul>>,
           \/ pc' = pc
           \/ pc' = "closed"
           \/ Offered /\ Offered'
    PROVE  ParserOK'
<1>1. /\ m_read_buf' = m_read_buf /\ m_check_state' = m_check_state /\ m_linger' = m_linger
      /\ m_start_line' = m_start_line /\ m_checked_idx' = m_checked_idx
      /\ m_content_length' = m_content_length /\ status' = status /\ nul' = nul
  BY DEF parser
<1>2. LineOK' <=> LineOK
  BY <1>1 DEF LineOK
<1>3. Offered' => Offered
  BY DEF Offered
<1>4. pc' \in {"in", "process"} => pc' = pc
  BY DEF Offered
<1>5. ASSUME pc' \in {"in", "process"} PROVE LineOK' /\ nul' = {}
  BY <1>1, <1>2, <1>4, <1>5 DEF ParserOK
<1>6. ASSUME pc' = "in", m_check_state' # "CHECK_STATE_CONTENT"
      PROVE  Verdict(m_read_buf') = "NO_REQUEST"
  BY <1>1, <1>4, <1>6 DEF ParserOK
<1>7. ASSUME Offered'
      PROVE  \/ Verdict(m_read_buf') = "BAD_REQUEST" /\ status' = 400 /\ ~m_linger'
             \/ /\ Verdict(m_read_buf') = "GET_REQUEST"
                /\ m_linger' <=> Header(m_read_buf', "keep")
                /\ NulOK(m_read_buf', nul')
  BY <1>1, <1>3, <1>7 DEF ParserOK
<1>8. ASSUME pc' = "undefined"
      PROVE  ContentSize(m_read_buf') \notin 0 .. INT_MAX - READ_BUFFER_SIZE
  <2>1. pc = "undefined"
    BY <1>8 DEF Offered
  <2> QED BY <1>1, <2>1 DEF ParserOK
<1> QED BY <1>5, <1>6, <1>7, <1>8 DEF ParserOK

\* An empty buffer.
LEMMA ParserBegins ==
    ASSUME m_read_buf' = <<>>, m_check_state' = "CHECK_STATE_REQUESTLINE",
           m_content_length' = 0, m_linger' = FALSE, m_start_line' = 0, m_checked_idx' = 0,
           nul' = {}, pc' = "in"
    PROVE  ParserOK'
<1>1. <<>> \in Seq(STRING) /\ Len(<<>>) = 0 /\ 0 \in 0 .. Len(<<>>)
  BY EmptySeq
<1>2. Unmarked(<<>>, 1, 0) /\ Stop(<<>>, 0)
  BY <1>1 DEF Unmarked, Stop
<1>3. Verdict(<<>>) = "NO_REQUEST"
  BY <1>1, <1>2, LineAwaited
<1>4. LineOK'
  BY <1>2 DEF LineOK
<1> QED BY <1>3, <1>4 DEF ParserOK, Offered

LEMMA ParserReads ==
    ASSUME HttpAssumption, Types, ParserOK, Read
    PROVE  ParserOK'
<1>1. /\ pc = "in" /\ LineOK
      /\ m_check_state' = m_check_state /\ m_linger' = m_linger
      /\ m_start_line' = m_start_line /\ m_checked_idx' = m_checked_idx
      /\ m_content_length' = m_content_length
  BY DEF Read, ParserOK, parser
<1>2. m_start_line \in Nat /\ m_checked_idx \in Nat /\ m_checked_idx <= Len(m_read_buf)
  BY DEF Types, TypeOK, m_read_idx
<1>3. PICK b \in Seq(STRING), c \in Seq(STRING) :
         b = m_read_buf /\ c = m_read_buf' /\ Extends(b, c)
  BY ReadAdds DEF Types
<1>4. pc' \in {"process", "closed"}
  BY ReadAdds
<1>5. \A s : HeaderPart(b, s) => /\ HeaderPart(c, s)
                                 /\ \A h : Seen(c, s, h) <=> Seen(b, s, h)
                                 /\ SizeSeen(c, s) = SizeSeen(b, s)
  BY <1>3, HeaderPartStays
<1>6. \A i \in Nat \ {0} : Unmarked(b, i, m_checked_idx) => Unmarked(c, i, m_checked_idx)
  <2>1. PICK j \in Int : j = m_checked_idx /\ j <= Len(b)
    BY <1>2, <1>3
  <2>2. \A i \in Nat \ {0} : Unmarked(b, i, j) => Unmarked(c, i, j)
    BY <1>3, <2>1, UnmarkedStays
  <2> QED BY <2>1, <2>2
<1>7. ASSUME m_check_state = "CHECK_STATE_REQUESTLINE" PROVE LineOK'
  <2>1. /\ m_start_line = 0 /\ Unmarked(b, 1, m_checked_idx)
        /\ ~m_linger /\ m_content_length = 0
    BY <1>1, <1>3, <1>7 DEF LineOK
  <2>2. Unmarked(c, 1, m_checked_idx)
    BY <1>6, <2>1
  <2> QED BY <1>1, <1>3, <1>7, <2>1, <2>2 DEF LineOK
<1>8. ASSUME m_check_state = "CHECK_STATE_HEADER" PROVE LineOK'
  <2>1. /\ HeaderPart(b, m_start_line)
        /\ Unmarked(b, m_start_line + 1, m_checked_idx)
        /\ m_linger <=> Seen(b, m_start_line, "keep")
        /\ m_content_length = SizeSeen(b, m_start_line)
    BY <1>1, <1>3, <1>8 DEF LineOK
  <2>2. Unmarked(c, m_start_line + 1, m_checked_idx)
    BY <1>2, <1>6, <2>1
  <2>3. /\ HeaderPart(c, m_start_line)
        /\ Seen(c, m_start_line, "keep") <=> Seen(b, m_start_line, "keep")
        /\ SizeSeen(c, m_start_line) = SizeSeen(b, m_start_line)
    BY <1>5, <2>1
  <2> QED BY <1>1, <1>3, <1>8, <2>1, <2>2, <2>3 DEF LineOK
<1>9. ASSUME m_check_state = "CHECK_STATE_CONTENT" PROVE LineOK'
  <2>1. PICK s \in Nat :
          /\ HeaderPart(b, s)
          /\ s + 2 <= m_start_line
          /\ b[s + 1] = "CR" /\ b[s + 2] = "LF"
          /\ m_linger <=> Seen(b, s, "keep")
          /\ m_content_length = SizeSeen(b, s)
    BY <1>1, <1>3, <1>9 DEF LineOK
  <2>2. c[s + 1] = "CR" /\ c[s + 2] = "LF"
    <3>1. s + 1 \in 1 .. Len(b) /\ s + 2 \in 1 .. Len(b)
      BY <1>2, <1>3, <2>1, LenProperties DEF Types, TypeOK
    <3> QED BY <1>3, <2>1, <3>1 DEF Extends
  <2>3. /\ HeaderPart(c, s)
        /\ Seen(c, s, "keep") <=> Seen(b, s, "keep")
        /\ SizeSeen(c, s) = SizeSeen(b, s)
    BY <1>5, <2>1
  <2> QED BY <1>1, <1>3, <1>9, <2>1, <2>2, <2>3 DEF LineOK
<1>10. LineOK'
  BY <1>7, <1>8, <1>9 DEF Types, TypeOK
<1>11. nul' = {}
  BY <1>1 DEF Read, ParserOK
<1> QED BY <1>4, <1>10, <1>11 DEF ParserOK, Offered

\* The line at m_checked_idx, from m_start_line on.
LEMMA LineStarts ==
    ASSUME HttpAssumption, Types, LineOK, m_check_state # "CHECK_STATE_CONTENT"
    PROVE  /\ m_read_buf \in Seq(STRING) /\ Len(m_read_buf) \in Nat
           /\ m_start_line \in Nat /\ m_checked_idx \in m_start_line .. Len(m_read_buf)
           /\ parse_line.checked \in m_checked_idx .. Len(m_read_buf)
           /\ parse_line.line = "LINE_OK" =>
                 \E e \in m_start_line + 1 .. Len(m_read_buf) - 1 :
                     /\ parse_line.checked = e + 1
                     /\ m_read_buf[e] = "CR" /\ m_read_buf[e + 1] = "LF"
                     /\ Unmarked(m_read_buf, m_start_line + 1, e - 1)
                     /\ \A h : text = <<h>> <=> e = m_start_line + 2 /\ m_read_buf[m_start_line + 1] = h
                     /\ text = <<>> <=> e = m_start_line + 1
           /\ parse_line.line # "LINE_OK" =>
                 /\ Unmarked(m_read_buf, m_start_line + 1, parse_line.checked)
                 /\ Stop(m_read_buf, parse_line.checked)
<1>1. /\ m_read_buf \in Seq(STRING) /\ Len(m_read_buf) \in Nat
      /\ m_start_line \in Nat /\ m_checked_idx \in Nat
      /\ m_start_line <= m_checked_idx /\ m_checked_idx <= Len(m_read_buf)
  BY LenProperties DEF Types, TypeOK, m_read_idx
<1>2. Unmarked(m_read_buf, m_start_line + 1, m_checked_idx)
  <2>1. m_check_state \in {"CHECK_STATE_REQUESTLINE", "CHECK_STATE_HEADER"}
    BY DEF Types, TypeOK
  <2>2. CASE m_check_state = "CHECK_STATE_REQUESTLINE"
    <3>1. m_start_line + 1 = 1
      BY <2>2 DEF LineOK
    <3> QED BY <2>2, <3>1 DEF LineOK
  <2>3. CASE m_check_state = "CHECK_STATE_HEADER"
    BY <2>3 DEF LineOK
  <2> QED BY <2>1, <2>2, <2>3
<1>3. /\ parse_line.checked \in m_checked_idx .. Len(m_read_buf)
      /\ parse_line.line = "LINE_OK" =>
            \E e \in m_checked_idx + 1 .. Len(m_read_buf) - 1 :
                /\ parse_line.checked = e + 1
                /\ m_read_buf[e] = "CR" /\ m_read_buf[e + 1] = "LF"
                /\ Unmarked(m_read_buf, m_checked_idx + 1, e - 1)
      /\ parse_line.line # "LINE_OK" =>
            /\ Unmarked(m_read_buf, m_checked_idx + 1, parse_line.checked)
            /\ Stop(m_read_buf, parse_line.checked)
  <2>1. m_checked_idx \in 0 .. Len(m_read_buf)
    BY <1>1
  <2> QED BY <1>1, <2>1, ParseLine
<1>4. ASSUME NEW k \in Int, Unmarked(m_read_buf, m_checked_idx + 1, k)
      PROVE  Unmarked(m_read_buf, m_start_line + 1, k)
  <2>1. PICK i \in Int, j \in Int : i = m_start_line + 1 /\ j = m_checked_idx
    BY <1>1
  <2> QED BY <1>2, <1>4, <2>1, UnmarkedJoins
<1>5. ASSUME parse_line.line = "LINE_OK"
      PROVE  \E e \in m_start_line + 1 .. Len(m_read_buf) - 1 :
                 /\ parse_line.checked = e + 1
                 /\ m_read_buf[e] = "CR" /\ m_read_buf[e + 1] = "LF"
                 /\ Unmarked(m_read_buf, m_start_line + 1, e - 1)
                 /\ \A h : text = <<h>> <=> e = m_start_line + 2 /\ m_read_buf[m_start_line + 1] = h
                 /\ text = <<>> <=> e = m_start_line + 1
  <2>1. PICK e \in m_checked_idx + 1 .. Len(m_read_buf) - 1 :
          /\ parse_line.checked = e + 1
          /\ m_read_buf[e] = "CR" /\ m_read_buf[e + 1] = "LF"
          /\ Unmarked(m_read_buf, m_checked_idx + 1, e - 1)
    BY <1>3, <1>5
  <2>2. e \in m_start_line + 1 .. Len(m_read_buf) - 1 /\ e - 1 \in Int /\ e \in Nat
    BY <1>1
  <2>3. Unmarked(m_read_buf, m_start_line + 1, e - 1)
    BY <1>4, <2>1, <2>2
  <2>4. PICK b \in Seq(STRING), i \in 1 .. Len(m_read_buf), j \in Int :
           b = m_read_buf /\ i = m_start_line + 1 /\ j = e - 1
    BY <1>1, <2>2
  <2>5. text = SubSeq(b, i, j)
    BY <2>1, <2>2, <2>4 DEF text
  <2>6. i \in 1 .. Len(b) /\ j \in i - 1 .. Len(b)
    BY <1>1, <2>2, <2>4
  <2>7. /\ \A h : SubSeq(b, i, j) = <<h>> <=> j = i /\ b[i] = h
        /\ SubSeq(b, i, j) = <<>> <=> j = i - 1
    <3>1. b \in Seq(STRING)
      BY <2>4
    <3>2. /\ \A h : SubSeq(b, i, j) = <<h>> => j = i
          /\ SubSeq(b, i, i) = <<b[i]>>
          /\ SubSeq(b, i, j) = <<>> => j = i - 1
          /\ j = i - 1 => SubSeq(b, i, j) = <<>>
      BY ONLY <2>6, <3>1, TextIs, Zenon
    <3>3. ASSUME NEW h, SubSeq(b, i, j) = <<h>> PROVE j = i /\ b[i] = h
      BY <3>2, <3>3
    <3>4. ASSUME NEW h, j = i, b[i] = h PROVE SubSeq(b, i, j) = <<h>>
      BY <3>2, <3>4
    <3> QED BY <3>2, <3>3, <3>4
  <2>8. (j = i <=> e = m_start_line + 2) /\ (j = i - 1 <=> e = m_start_line + 1)
    BY <1>1, <2>2, <2>4
  <2>9. \A h : text = <<h>> <=> e = m_start_line + 2 /\ m_read_buf[m_start_line + 1] = h
    BY <2>4, <2>5, <2>7, <2>8
  <2>10. text = <<>> <=> e = m_start_line + 1
    BY <2>5, <2>7, <2>8
  <2> QED BY <2>1, <2>2, <2>3, <2>9, <2>10
<1>6. m_checked_idx \in m_start_line .. Len(m_read_buf) /\ parse_line.checked \in Int
  BY <1>1, <1>3
<1> QED BY <1>1, <1>3, <1>4, <1>5, <1>6

\* No line yet: the request is not complete.
LEMMA ParserAwaits ==
    ASSUME HttpAssumption, Types, ParserOK, LineOpen
    PROVE  ParserOK'
<1>1. /\ pc = "process" /\ m_check_state # "CHECK_STATE_CONTENT" /\ LineOK
      /\ parse_line.line # "LINE_OK"
      /\ m_checked_idx' = parse_line.checked /\ pc' = "in"
      /\ UNCHANGED <<m_read_buf, m_check_state, m_start_line, m_content_length, m_linger>>
      /\ nul' = {}
  BY DEF LineOpen, ParserOK
<1>2. PICK b \in Seq(STRING), s \in Nat, j \in Nat :
        /\ b = m_read_buf /\ s = m_start_line /\ j = parse_line.checked
        /\ j \in s .. Len(b)
        /\ Unmarked(b, s + 1, j) /\ Stop(b, j)
  <2>1. parse_line.checked \in m_start_line .. Len(m_read_buf)
    BY <1>1, LineStarts
  <2>2. parse_line.checked \in Nat
    BY <1>1, <2>1, LineStarts
  <2> QED BY <1>1, <2>1, <2>2, LineStarts
<1>3. CASE m_check_state = "CHECK_STATE_REQUESTLINE"
  <2>1. s = 0 /\ ~m_linger /\ m_content_length = 0
    BY <1>1, <1>2, <1>3 DEF LineOK
  <2>2. Unmarked(b, 1, j) /\ j \in 0 .. Len(b)
    BY <1>2, <2>1
  <2>3. Verdict(b) = "NO_REQUEST"
    BY <1>2, <2>2, LineAwaited
  <2>4. LineOK'
    BY <1>1, <1>2, <1>3, <2>1, <2>2 DEF LineOK
  <2> QED BY <1>1, <1>2, <2>3, <2>4 DEF ParserOK, Offered
<1>4. CASE m_check_state = "CHECK_STATE_HEADER"
  <2>1. /\ HeaderPart(b, s)
        /\ m_linger <=> Seen(b, s, "keep")
        /\ m_content_length = SizeSeen(b, s)
    BY <1>1, <1>2, <1>4 DEF LineOK
  <2>2. j \in s .. Len(b)
    BY <1>2
  <2>3. Verdict(b) = "NO_REQUEST"
    BY <1>2, <2>1, <2>2, HeadAwaited
  <2>4. LineOK'
    BY <1>1, <1>2, <1>4, <2>1 DEF LineOK
  <2> QED BY <1>1, <1>2, <2>3, <2>4 DEF ParserOK, Offered
<1> QED BY <1>1, <1>3, <1>4 DEF Types, TypeOK

LEMMA ParserTakesRequestLine ==
    ASSUME HttpAssumption, Types, ParserOK, parse_request_line
    PROVE  ParserOK'
<1>1. /\ pc = "process" /\ m_check_state = "CHECK_STATE_REQUESTLINE" /\ LineOK
      /\ parse_line.line = "LINE_OK"
      /\ m_checked_idx' = parse_line.checked /\ m_start_line' = parse_line.checked
      /\ UNCHANGED <<m_read_buf, m_content_length, m_linger>> /\ nul' = {}
  BY DEF parse_request_line, TakeLine, ParserOK
<1>2. m_start_line = 0 /\ ~m_linger /\ m_content_length = 0
  BY <1>1 DEF LineOK
<1>3. PICK b \in Seq(STRING), e \in 0 + 1 .. Len(m_read_buf) - 1 :
        /\ b = m_read_buf /\ parse_line.checked = e + 1
        /\ b[e] = "CR" /\ b[e + 1] = "LF" /\ Unmarked(b, 0 + 1, e - 1)
        /\ \A h : text = <<h>> <=> e = 0 + 2 /\ b[0 + 1] = h
  BY <1>1, <1>2, LineStarts
<1>4. Len(b) \in Nat /\ e \in 1 .. Len(b) - 1 /\ Unmarked(b, 1, e - 1)
  BY <1>1, <1>3, LineStarts
<1>5. CASE text = <<"get">> /\ m_check_state' = "CHECK_STATE_HEADER" /\ pc' = pc
  <2>1. e = 2 /\ b[1] = "get"
    BY <1>3, <1>5
  <2>2. Len(b) >= 3 /\ b[2] = "CR" /\ b[3] = "LF"
    BY <1>3, <1>4, <2>1
  <2>3. HeaderPart(b, 3) /\ \A h : ~Seen(b, 3, h)
    BY <1>3, <2>1, <2>2, HeaderBegins
  <2>4. SizeSeen(b, 3) = 0
    BY <1>3, <2>1, <2>2, HeaderBegins
  <2>5. m_start_line' = 3 /\ m_checked_idx' = 3
    BY <1>1, <1>3, <2>1
  <2>6. Unmarked(b, 3 + 1, 3)
    BY DEF Unmarked
  <2>7. LineOK'
    BY <1>1, <1>2, <1>3, <1>5, <2>3, <2>4, <2>5, <2>6 DEF LineOK
  <2> QED BY <1>1, <1>5, <2>7 DEF ParserOK, Offered
<1>6. CASE text # <<"get">> /\ BadRequest
  <2>1. SubSeq(b, 1, e - 1) # <<"get">>
    <3>1. text = SubSeq(b, 1, e - 1)
      <4>1. m_start_line + 1 = 1 /\ parse_line.checked - 2 = e - 1
        BY <1>2, <1>3
      <4> QED BY <1>3, <4>1 DEF text
    <3> QED BY <1>6, <3>1
  <2>2. Verdict(b) = "BAD_REQUEST"
    BY <1>3, <1>4, <2>1, LineComplete
  <2>3. status' = 400 /\ pc' = "out"
    BY <1>6 DEF BadRequest, process_write
  <2> QED BY <1>1, <1>2, <1>3, <2>2, <2>3 DEF ParserOK, Offered
<1> QED BY <1>5, <1>6 DEF parse_request_line

\* An answer to a request of which all is there.
LEMMA ParserAnswers ==
    ASSUME do_request, UNCHANGED <<m_read_buf, m_linger>>, NulOK(m_read_buf, nul'),
           Verdict(m_read_buf) = "GET_REQUEST", m_linger <=> Header(m_read_buf, "keep")
    PROVE  ParserOK'
<1>1. pc' \in {"out", "closed"}
  BY DEF do_request, process_write
<1>2. \/ Verdict(m_read_buf') = "BAD_REQUEST" /\ status' = 400 /\ ~m_linger'
      \/ /\ Verdict(m_read_buf') = "GET_REQUEST"
         /\ m_linger' <=> Header(m_read_buf', "keep")
         /\ NulOK(m_read_buf', nul')
  OBVIOUS
<1> QED BY <1>1, <1>2 DEF ParserOK

LEMMA ParserTakesHeader ==
    ASSUME HttpAssumption, Types, ParserOK, parse_headers
    PROVE  ParserOK'
<1>1. /\ pc = "process" /\ m_check_state = "CHECK_STATE_HEADER" /\ LineOK
      /\ parse_line.line = "LINE_OK"
      /\ m_checked_idx' = parse_line.checked /\ m_start_line' = parse_line.checked
      /\ m_read_buf' = m_read_buf /\ nul' = {}
  BY DEF parse_headers, TakeLine, ParserOK
<1>2. PICK b \in Seq(STRING), s \in Nat, e \in Nat :
        /\ b = m_read_buf /\ s = m_start_line /\ e \in s + 1 .. Len(b) - 1
        /\ parse_line.checked = e + 1
        /\ b[e] = "CR" /\ b[e + 1] = "LF" /\ Unmarked(b, s + 1, e - 1)
        /\ \A h : text = <<h>> <=> e = s + 2 /\ b[s + 1] = h
        /\ text = <<>> <=> e = s + 1
  <2>1. PICK e \in m_start_line + 1 .. Len(m_read_buf) - 1 :
          /\ parse_line.checked = e + 1
          /\ m_read_buf[e] = "CR" /\ m_read_buf[e + 1] = "LF"
          /\ Unmarked(m_read_buf, m_start_line + 1, e - 1)
          /\ \A h : text = <<h>> <=> e = m_start_line + 2 /\ m_read_buf[m_start_line + 1] = h
          /\ text = <<>> <=> e = m_start_line + 1
    BY <1>1, LineStarts
  <2>2. m_read_buf \in Seq(STRING) /\ m_start_line \in Nat /\ e \in Nat
    BY <1>1, <2>1, LineStarts
  <2> QED BY <2>1, <2>2
<1>3. /\ HeaderPart(b, s)
      /\ m_linger <=> Seen(b, s, "keep")
      /\ m_content_length = SizeSeen(b, s)
  BY <1>1, <1>2 DEF LineOK
<1>4. Len(b) \in Nat
  BY <1>2, LenProperties
<1>5. ASSUME text = <<>>
      PROVE  /\ s + 2 <= Len(b) /\ e + 1 = s + 2
             /\ b[s + 1] = "CR" /\ b[s + 2] = "LF"
  <2>1. e = s + 1
    BY <1>2, <1>5
  <2>2. e + 1 = s + 2
    BY <1>2, <2>1
  <2> QED BY <1>2, <1>4, <2>1, <2>2
<1>6. CASE text = <<>> /\ m_content_length = 0 /\ do_request /\ UNCHANGED m_linger
  <2>1. s + 2 <= Len(b) /\ b[s + 1] = "CR" /\ b[s + 2] = "LF"
    BY <1>5, <1>6
  <2>2. /\ Header(b, "keep") <=> Seen(b, s, "keep")
        /\ Len(b) > s + 1 + SizeSeen(b, s) => Verdict(b) = "GET_REQUEST"
    BY <1>2, <1>3, <2>1, HeadComplete
  <2>3. Len(b) > s + 1 + SizeSeen(b, s)
    BY <1>2, <1>3, <1>4, <1>6, <2>1
  <2>4. NulOK(m_read_buf, nul')
    BY <1>1 DEF NulOK
  <2> QED BY <1>1, <1>2, <1>3, <1>6, <2>2, <2>3, <2>4, ParserAnswers
<1>7. CASE /\ text = <<>> /\ m_content_length # 0
           /\ m_check_state' = "CHECK_STATE_CONTENT"
           /\ UNCHANGED <<m_linger, m_content_length, answer, pc, due>>
  <2>1. s + 2 <= m_start_line' /\ b[s + 1] = "CR" /\ b[s + 2] = "LF"
    BY <1>1, <1>2, <1>5, <1>7
  <2>2. m_content_length' = SizeSeen(b, s)
    BY <1>3, <1>7
  <2>3. m_linger' <=> Seen(b, s, "keep")
    BY <1>3, <1>7
  <2>4. LineOK'
    BY <1>1, <1>2, <1>3, <1>7, <2>1, <2>2, <2>3 DEF LineOK
  <2> QED BY <1>1, <1>7, <2>4 DEF ParserOK, Offered
<1>8. CASE /\ text # <<>>
           /\ m_linger' = (m_linger \/ text = <<"keep">>)
           /\ m_content_length' = IF \E h \in DOMAIN Length : text = <<h>>
                                  THEN ToInt(Length[text[1]]) ELSE m_content_length
           /\ UNCHANGED <<m_check_state, answer, pc, due>>
  <2>1. e \in s + 2 .. Len(b) - 1
    BY <1>2, <1>4, <1>8
  <2>2. /\ HeaderPart(b, e + 1)
        /\ Seen(b, e + 1, "keep") <=> Seen(b, s, "keep") \/ (e = s + 2 /\ b[s + 1] = "keep")
        /\ SizeSeen(b, e + 1) = IF e = s + 2 /\ b[s + 1] \in DOMAIN Length
                                THEN ToInt(Length[b[s + 1]]) ELSE SizeSeen(b, s)
    BY <1>2, <1>3, <2>1, HeaderGrows
  <2>3. Seen(b, e + 1, "keep") <=> Seen(b, s, "keep") \/ text = <<"keep">>
    BY <1>2, <2>2
  <2>4. m_linger' <=> Seen(b, e + 1, "keep")
    BY <1>3, <1>8, <2>3
  <2>5. m_content_length' = SizeSeen(b, e + 1)
    <3>1. CASE e = s + 2 /\ b[s + 1] \in DOMAIN Length
      <4>1. text = <<b[s + 1]>> /\ text[1] = b[s + 1]
        BY <1>2, <3>1
      <4> QED BY <1>8, <2>2, <3>1, <4>1
    <3>2. CASE ~(e = s + 2 /\ b[s + 1] \in DOMAIN Length)
      <4>1. ~\E h \in DOMAIN Length : text = <<h>>
        BY <1>2, <3>2
      <4> QED BY <1>3, <1>8, <2>2, <3>2, <4>1
    <3> QED BY <3>1, <3>2
  <2>6. Unmarked(b, (e + 1) + 1, e + 1)
    BY <1>2 DEF Unmarked
  <2>7. /\ m_start_line' = e + 1 /\ m_checked_idx' = e + 1 /\ m_read_buf' = b
        /\ m_check_state' = "CHECK_STATE_HEADER"
    BY <1>1, <1>2, <1>8
  <2>8. LineOK'
    BY <2>2, <2>4, <2>5, <2>6, <2>7 DEF LineOK
  <2> QED BY <1>1, <1>8, <2>8 DEF ParserOK, Offered
<1> QED BY <1>6, <1>7, <1>8 DEF parse_headers

LEMMA ParserTakesContent ==
    ASSUME HttpAssumption, Types, ParserOK, parse_content
    PROVE  ParserOK'
<1> DEFINE end == m_content_length + m_checked_idx
           at  == m_start_line + m_content_length
<1>1. /\ pc = "process" /\ m_check_state = "CHECK_STATE_CONTENT" /\ LineOK /\ nul = {}
      /\ m_start_line' = m_checked_idx
      /\ UNCHANGED <<m_read_buf, m_check_state, m_content_length, m_linger>>
  BY DEF parse_content, ParserOK
<1>2. PICK b \in Seq(STRING) : b = m_read_buf
  BY DEF Types
<1>3. PICK s \in Nat :
        /\ HeaderPart(b, s)
        /\ s + 2 <= m_start_line
        /\ b[s + 1] = "CR" /\ b[s + 2] = "LF"
        /\ m_linger <=> Seen(b, s, "keep")
        /\ m_content_length = SizeSeen(b, s)
  BY <1>1, <1>2 DEF LineOK
<1>4. /\ Len(b) \in Nat /\ m_checked_idx \in Nat /\ m_checked_idx <= Len(b)
      /\ m_start_line \in Nat /\ m_start_line <= m_checked_idx
      /\ m_content_length \in Int /\ m_read_idx = Len(b) /\ Len(b) <= READ_BUFFER_SIZE
      /\ READ_BUFFER_SIZE \in Nat /\ INT_MAX \in Nat
  BY <1>2, LenProperties DEF Types, TypeOK, m_read_idx, HttpAssumption
<1>5. /\ Header(b, "keep") <=> Seen(b, s, "keep")
      /\ Min(HeadEnds(b)) = s + 1
      /\ ContentSize(b) = SizeSeen(b, s)
      /\ Len(b) > s + 1 + SizeSeen(b, s) => Verdict(b) = "GET_REQUEST"
  <2>1. s + 2 <= Len(b)
    BY <1>3, <1>4
  <2> QED BY <1>2, <1>3, <2>1, HeadComplete
<1>6. CASE m_read_idx >= end /\ at >= 0 /\ nul' = {at} /\ do_request
  <2>1. Len(b) > s + 1 + SizeSeen(b, s)
    BY <1>3, <1>4, <1>6
  <2>2. at > s + 1 \/ SizeSeen(b, s) < 0
    BY <1>3, <1>4
  <2>3. NulOK(m_read_buf, nul')
    <3>1. at > Min(HeadEnds(b)) \/ ContentSize(b) < 0
      BY <1>5, <2>2
    <3> QED BY <1>2, <1>6, <3>1 DEF NulOK
  <2> QED BY <1>1, <1>2, <1>3, <1>5, <1>6, <2>1, <2>3, ParserAnswers
<1>7. CASE (end > INT_MAX \/ (m_read_idx >= end /\ at < 0)) /\ pc' = "undefined"
  <2>1. m_content_length < 0 \/ m_content_length > INT_MAX - READ_BUFFER_SIZE
    BY <1>4, <1>7
  <2>2. ContentSize(b) \notin 0 .. INT_MAX - READ_BUFFER_SIZE
    BY <1>3, <1>4, <1>5, <2>1
  <2>3. ContentSize(m_read_buf') \notin 0 .. INT_MAX - READ_BUFFER_SIZE
    BY <1>1, <1>2, <2>2
  <2> QED BY <1>7, <2>3 DEF ParserOK, Offered
<1>8. CASE m_checked_idx' = parse_line.checked /\ pc' \in {"process", "in"} /\ nul' = nul
  <2>1. s + 2 <= m_start_line'
    BY <1>1, <1>3, <1>4
  <2>2. LineOK'
    BY <1>1, <1>2, <1>3, <2>1 DEF LineOK
  <2> QED BY <1>1, <1>8, <2>2 DEF ParserOK, Offered
<1> QED BY <1>6, <1>7, <1>8 DEF parse_content

LEMMA ParserStep ==
    ASSUME HttpAssumption, Types, ParserOK, [Next]_vars
    PROVE  ParserOK'
<1>1. ASSUME NEW n, Send(n) PROVE ParserOK'
  BY <1>1, ParserKeeps DEF Send, answer
<1>2. CASE Disconnect
  BY <1>2, ParserKeeps DEF Disconnect, answer
<1>3. CASE Connect
  BY <1>3, ParserBegins DEF Connect, Reset
<1>4. CASE WriteStarts
  <2>1. Offered /\ Offered'
    BY <1>4 DEF WriteStarts, Offered
  <2> QED BY <1>4, <2>1, ParserKeeps DEF WriteStarts, answer
<1>5. ASSUME NEW n, Writev(n) PROVE ParserOK'
  <2>1. CASE m_write_idx - (have + n) > have + n
    BY <1>5, <2>1, ParserKeeps DEF Writev
  <2>2. CASE ~(m_write_idx - (have + n) > have + n) /\ m_linger
    BY <1>5, <2>2, ParserBegins DEF Writev, Reset
  <2>3. CASE ~(m_write_idx - (have + n) > have + n) /\ ~m_linger
    BY <1>5, <2>3, ParserKeeps DEF Writev
  <2> QED BY <2>1, <2>2, <2>3
<1>6. CASE WritevBlocks
  <2>1. Offered /\ Offered'
    BY <1>6 DEF WritevBlocks, Offered
  <2> QED BY <1>6, <2>1, ParserKeeps DEF WritevBlocks, answer
<1>7. CASE WritevFails
  BY <1>7, ParserKeeps DEF WritevFails
<1>8. CASE UNCHANGED vars
  BY <1>8, ParserKeeps DEF vars, answer
<1> QED
  BY <1>1, <1>2, <1>3, <1>4, <1>5, <1>6, <1>7, <1>8, ParserReads, ParserTakesRequestLine,
     ParserTakesHeader, ParserTakesContent, ParserAwaits
  DEF Next

-----------------------------------------------------------------------------
\* The answers.

\* Steps that leave the answers alone.
LEMMA AnswerKeeps ==
    ASSUME Types, AnswerOK, UNCHANGED <<answer, due, output>>,
           \/ pc' = pc
           \/ pc \in {"in", "process"} /\ pc' \in {"in", "process"}
           \/ pc \notin {"write", "undefined"} /\ pc' = "closed"
           \/ pc = "process" /\ pc' = "undefined"
    PROVE  AnswerOK'
<1>1. /\ m_write_idx' = m_write_idx /\ m_iv' = m_iv /\ m_file_address' = m_file_address
      /\ status' = status /\ have' = have /\ got' = got /\ torn' = torn /\ due' = due
  BY DEF answer, output
<1>2. Offered' => Offered /\ pc' = pc
  BY DEF Offered
<1>3. /\ m_iv'.len \in Nat /\ torn' \in BOOLEAN
      /\ due' \in Seq(Statuses) /\ got' \in Seq(Statuses)
  BY <1>1 DEF AnswerOK
<1>4. Offered' => /\ m_write_idx' = HeadLen /\ status' \in Statuses
                  /\ m_iv'.len >= HeadLen
                  /\ m_iv'.count = 2 => m_file_address' \in {"file", "failed"}
  BY <1>1, <1>2 DEF AnswerOK
<1>5. ASSUME ~torn' PROVE pc' \in {"in", "process", "undefined"} => got' = due'
  BY <1>1, <1>5 DEF AnswerOK
<1>6. ASSUME ~torn' PROVE Offered' => due' = Append(got', status')
  BY <1>1, <1>2, <1>6 DEF AnswerOK
<1>7. ASSUME ~torn', pc' = "closed"
      PROVE  got' = due' \/ \E s \in Statuses : due' = Append(got', s)
  <2>1. CASE pc \in {"in", "process"}
    BY <1>1, <1>7, <2>1 DEF AnswerOK
  <2>2. CASE Offered
    <3>1. status \in Statuses /\ due = Append(got, status)
      BY <1>1, <1>7, <2>2 DEF AnswerOK
    <3> QED BY <1>1, <3>1
  <2>3. CASE pc = "closed"
    BY <1>1, <1>7, <2>3 DEF AnswerOK
  <2>4. pc # "undefined"
    BY <1>7
  <2> QED BY <2>1, <2>2, <2>3, <2>4 DEF Offered, Types, TypeOK
<1>8. pc' # "write" \/ ~torn' => have' = 0
  <2>1. CASE pc' # "write" /\ torn
    <3>1. pc # "write"
      BY <2>1
    <3> QED BY <1>1, <2>1, <3>1 DEF AnswerOK
  <2>2. CASE ~torn
    BY <1>1, <2>2 DEF AnswerOK
  <2> QED BY <1>1, <2>1, <2>2
<1> QED BY <1>3, <1>4, <1>5, <1>6, <1>7, <1>8 DEF AnswerOK

\* A response is decided on.
LEMMA AnswerBegins ==
    ASSUME HttpAssumption, AnswerOK, pc = "process", UNCHANGED output,
           NEW s \in Statuses, NEW size \in Nat, process_write(s, size),
           s = 200 /\ size # 0 => m_file_address' \in {"file", "failed"}
    PROVE  AnswerOK'
<1>1. /\ have' = have /\ got' = got /\ torn' = torn
      /\ status' = s /\ due' = Append(due, s) /\ m_write_idx' = HeadLen
  BY DEF output, process_write
<1>2. /\ due \in Seq(Statuses) /\ got \in Seq(Statuses) /\ m_iv.len \in Nat /\ torn \in BOOLEAN
      /\ ~torn => got = due
      /\ have = 0
  BY DEF AnswerOK
<1>3. due' \in Seq(Statuses)
  BY <1>1, <1>2, AppendProperties
<1>4. CASE s = 200 /\ size = 0 /\ pc' = "closed" /\ m_iv' = m_iv
  BY <1>1, <1>2, <1>3, <1>4 DEF AnswerOK, Offered
<1>5. CASE /\ ~(s = 200 /\ size = 0) /\ pc' = "out"
           /\ m_iv' = IF s = 200 THEN [count |-> 2, len |-> HeadLen + size]
                                 ELSE [count |-> 1, len |-> HeadLen]
  <2>1. m_iv'.len \in Nat /\ m_iv'.len >= HeadLen
    BY <1>5 DEF HttpAssumption
  <2>2. m_iv'.count = 2 => m_file_address' \in {"file", "failed"}
    BY <1>5
  <2>3. ~torn' => due' = Append(got', status')
    BY <1>1, <1>2
  <2> QED BY <1>1, <1>2, <1>3, <1>5, <2>1, <2>2, <2>3 DEF AnswerOK, Offered
<1> QED BY <1>4, <1>5 DEF process_write

LEMMA AnswerDecides ==
    ASSUME HttpAssumption, AnswerOK, pc = "process", UNCHANGED output, do_request
    PROVE  AnswerOK'
<1>1. /\ 200 \in Statuses /\ 400 \in Statuses /\ 403 \in Statuses /\ 404 \in Statuses
      /\ 0 \in Nat /\ FileLen \in Nat
  BY DEF Statuses, HttpAssumption
<1>2. ASSUME NEW s \in {404, 403, 400}, process_write(s, 0) PROVE AnswerOK'
  <2>1. s \in Statuses /\ s # 200
    BY <1>1
  <2> QED BY <1>1, <1>2, <2>1, AnswerBegins
<1>3. CASE process_write(200, FileLen) /\ m_file_address' \in {"file", "failed"}
  BY <1>1, <1>3, AnswerBegins
<1>4. CASE process_write(200, 0)
  BY <1>1, <1>4, AnswerBegins
<1> QED BY <1>2, <1>3, <1>4 DEF do_request

\* writev() of n bytes, the partial one, and the one that counts as the last.
LEMMA AnswerSends ==
    ASSUME HttpAssumption, Types, AnswerOK, NEW n \in Nat, Writev(n)
    PROVE  AnswerOK'
<1>1. /\ pc = "write" /\ Offered /\ n \in 1 .. m_iv.len
      /\ m_iv' = m_iv /\ status' = status /\ due' = due
      /\ torn' = (torn \/ n < m_iv.len)
  BY DEF Writev, Offered
<1>2. /\ due \in Seq(Statuses) /\ got \in Seq(Statuses) /\ m_iv.len \in Nat /\ torn \in BOOLEAN
      /\ m_write_idx = HeadLen /\ m_iv.len >= HeadLen /\ status \in Statuses
      /\ m_iv.count = 2 => m_file_address \in {"file", "failed"}
      /\ ~torn => due = Append(got, status) /\ have = 0
      /\ HeadLen \in Nat
  BY <1>1 DEF AnswerOK, HttpAssumption
<1>3. torn' \in BOOLEAN /\ (~torn' => ~torn /\ n = m_iv.len)
  <2>1. n < m_iv.len \/ n = m_iv.len
    BY <1>1, <1>2
  <2>2. CASE n < m_iv.len
    BY <1>1, <2>2, Zenon
  <2>3. CASE ~(n < m_iv.len)
    <3>1. torn' = torn
      BY <1>1, <1>2, <2>3, Zenon
    <3> QED BY <1>2, <2>1, <2>3, <3>1, Zenon
  <2> QED BY <2>2, <2>3
<1>4. have \in Nat
  BY DEF Types, TypeOK, HttpAssumption
<1>5. CASE m_write_idx - (have + n) > have + n
  <2>1. /\ have' = have + n
        /\ UNCHANGED <<m_write_idx, m_file_address, pc, got>>
    BY <1>5 DEF Writev
  <2>2. torn'
    BY <1>2, <1>3, <1>4, <1>5
  <2> QED BY <1>1, <1>2, <1>3, <2>1, <2>2 DEF AnswerOK, Offered
<1>6. CASE ~(m_write_idx - (have + n) > have + n)
  <2>1. /\ have' = 0 /\ pc' \in {"in", "closed"}
        /\ got' = IF n = m_iv.len THEN Append(got, status) ELSE got
    BY <1>6 DEF Writev
  <2>2. got' \in Seq(Statuses)
    <3>1. Append(got, status) \in Seq(Statuses)
      BY <1>2, AppendProperties
    <3> QED BY <1>2, <2>1, <3>1
  <2>3. ~torn' => got' = due'
    BY <1>1, <1>2, <1>3, <2>1
  <2> QED BY <1>1, <1>2, <1>3, <2>1, <2>2, <2>3 DEF AnswerOK, Offered
<1> QED BY <1>5, <1>6

LEMMA AnswerStep ==
    ASSUME HttpAssumption, Types, AnswerOK, [Next]_vars
    PROVE  AnswerOK'
<1>1. ASSUME NEW n, Send(n) PROVE AnswerOK'
  BY <1>1, AnswerKeeps DEF Send
<1>2. CASE Disconnect
  BY <1>2, AnswerKeeps DEF Disconnect
<1>3. CASE Connect
  <2>1. /\ pc = "closed" /\ pc' = "in" /\ due' = <<>> /\ got' = <<>> /\ torn' = FALSE
        /\ m_iv' = m_iv /\ have' = have
    BY <1>3 DEF Connect
  <2>2. <<>> \in Seq(Statuses)
    BY EmptySeq
  <2> QED BY <2>1, <2>2 DEF AnswerOK, Offered
<1>4. CASE Read
  <2>1. pc = "in" /\ pc' \in {"process", "closed"}
    BY <1>4 DEF Read
  <2> QED BY <1>4, <2>1, AnswerKeeps DEF Read
<1>5. CASE parse_request_line
  <2>1. CASE UNCHANGED <<answer, pc, due>>
    BY <1>5, <2>1, AnswerKeeps DEF parse_request_line
  <2>2. CASE BadRequest
    <3>1. 400 \in Statuses /\ 400 # 200 /\ 0 \in Nat
      BY DEF Statuses
    <3> QED BY <1>5, <2>2, <3>1, AnswerBegins DEF parse_request_line, TakeLine, BadRequest
  <2> QED BY <1>5, <2>1, <2>2 DEF parse_request_line
<1>6. CASE parse_headers
  <2>1. CASE UNCHANGED <<answer, pc, due>>
    BY <1>6, <2>1, AnswerKeeps DEF parse_headers
  <2>2. CASE do_request
    BY <1>6, <2>2, AnswerDecides DEF parse_headers, TakeLine
  <2> QED BY <1>6, <2>1, <2>2 DEF parse_headers
<1>7. CASE parse_content
  <2>1. CASE UNCHANGED <<answer, due>> /\ pc' \in {"process", "in", "undefined"}
    BY <1>7, <2>1, AnswerKeeps DEF parse_content
  <2>2. CASE do_request
    BY <1>7, <2>2, AnswerDecides DEF parse_content
  <2> QED BY <1>7, <2>1, <2>2 DEF parse_content
<1>8. CASE LineOpen
  BY <1>8, AnswerKeeps DEF LineOpen
<1>9. CASE WriteStarts \/ WritevBlocks
  <2>1. /\ Offered /\ Offered' /\ have' = 0
        /\ m_write_idx' = m_write_idx /\ m_iv' = m_iv /\ m_file_address' = m_file_address
        /\ status' = status /\ got' = got /\ due' = due
        /\ torn' = torn \/ torn' = TRUE
    BY <1>9 DEF WriteStarts, WritevBlocks, answer, Offered
  <2>2. torn' \in BOOLEAN /\ (~torn' => ~torn)
    <3>1. torn \in BOOLEAN
      BY DEF AnswerOK
    <3>2. CASE torn' = torn
      BY <3>1, <3>2
    <3>3. CASE torn' = TRUE
      BY <3>3
    <3> QED BY <2>1, <3>2, <3>3
  <2>3. pc' # "closed" /\ pc' \notin {"in", "process", "undefined"}
    BY <2>1 DEF Offered
  <2>4. /\ m_iv'.len \in Nat /\ due' \in Seq(Statuses) /\ got' \in Seq(Statuses)
        /\ m_write_idx' = HeadLen /\ status' \in Statuses
        /\ m_iv'.len >= HeadLen
        /\ m_iv'.count = 2 => m_file_address' \in {"file", "failed"}
    BY <2>1 DEF AnswerOK
  <2>5. ~torn' => due' = Append(got', status')
    BY <2>1, <2>2 DEF AnswerOK
  <2> QED BY <2>1, <2>2, <2>3, <2>4, <2>5 DEF AnswerOK
<1>10. ASSUME NEW n \in 1 .. HeadLen + FileLen, Writev(n) PROVE AnswerOK'
  <2>1. n \in Nat
    BY DEF HttpAssumption
  <2> QED BY <1>10, <2>1, AnswerSends
<1>11. CASE WritevFails
  <2>1. /\ pc = "write" /\ pc' = "closed" /\ have' = 0
        /\ m_iv' = m_iv /\ got' = got /\ due' = due /\ torn' = torn
    BY <1>11 DEF WritevFails
  <2>2. Offered /\ ~Offered'
    BY <2>1 DEF Offered
  <2>3. ~torn => \E s \in Statuses : due = Append(got, s)
    BY <2>2 DEF AnswerOK
  <2> QED BY <2>1, <2>2, <2>3 DEF AnswerOK
<1>12. CASE UNCHANGED vars
  BY <1>12, AnswerKeeps DEF vars
<1> QED
  BY <1>1, <1>2, <1>3, <1>4, <1>5, <1>6, <1>7, <1>8, <1>9, <1>10, <1>11, <1>12
  DEF Next

-----------------------------------------------------------------------------
HttpInv == Types /\ ParserOK /\ AnswerOK

LEMMA HttpInit ==
    ASSUME HttpAssumption, Init
    PROVE  HttpInv
<1>1. <<>> \in Seq(STRING) /\ <<>> \in Seq(Statuses) /\ Len(<<>>) = 0 /\ 0 \in 0 .. Len(<<>>)
  BY EmptySeq
<1>2. Types
  <2>1. Len(stream) \in Nat /\ stream \in Streams
    BY LenProperties DEF Init, HttpAssumption
  <2>2. m_read_buf = <<>> /\ m_read_idx = 0
    BY <1>1 DEF Init, m_read_idx
  <2>3. sent \in 0 .. Len(stream) /\ taken \in 0 .. sent
    BY <2>1 DEF Init
  <2>4. have \in 0 .. HeadLen + FileLen /\ 0 <= READ_BUFFER_SIZE
    BY DEF Init, HttpAssumption
  <2>5. /\ 0 <= m_start_line /\ m_start_line <= m_checked_idx /\ m_checked_idx <= m_read_idx
        /\ m_start_line \in Nat /\ m_checked_idx \in Nat
    BY <2>2 DEF Init
  <2>6. TypeOK
    <3>1. /\ pc = "in" /\ m_check_state = "CHECK_STATE_REQUESTLINE"
          /\ m_content_length = 0 /\ m_write_idx = 0 /\ status = 0 /\ m_file_address = "unset"
      BY Zenon DEF Init
    <3>2. m_linger \in BOOLEAN
      BY DEF Init
    <3>3. m_read_idx <= READ_BUFFER_SIZE
      BY <2>2, <2>4
    <3> QED BY <2>3, <2>4, <2>5, <3>1, <3>2, <3>3 DEF TypeOK
  <2> QED BY <1>1, <2>1, <2>2, <2>5, <2>6 DEF Types
<1>3. ParserOK
  <2>1. Unmarked(<<>>, 1, 0) /\ Stop(<<>>, 0)
    BY <1>1 DEF Unmarked, Stop
  <2>2. Verdict(<<>>) = "NO_REQUEST"
    BY <1>1, <2>1, LineAwaited
  <2>3. LineOK
    BY <2>1 DEF LineOK, Init
  <2> QED BY <2>2, <2>3 DEF ParserOK, Offered, Init
<1>4. AnswerOK
  <2>1. m_iv.len = 0
    BY DEF Init
  <2> QED BY <1>1, <2>1 DEF AnswerOK, Offered, Init
<1> QED BY <1>2, <1>3, <1>4 DEF HttpInv

\* The types, what the parser knows of the buffer, and where the responses are.
THEOREM HttpInvCorrect == Spec => []HttpInv
<1>1. Init => HttpInv
  BY HttpAssumption, HttpInit
<1>2. HttpInv /\ [Next]_vars => HttpInv'
  <2> SUFFICES ASSUME HttpInv, [Next]_vars PROVE HttpInv'
    OBVIOUS
  <2>1. Types /\ ParserOK /\ AnswerOK
    BY DEF HttpInv
  <2>2. Types'
    BY <2>1, HttpAssumption, TypesStep
  <2>3. ParserOK'
    BY <2>1, HttpAssumption, ParserStep
  <2>4. AnswerOK'
    BY <2>1, HttpAssumption, AnswerStep
  <2> QED BY <2>2, <2>3, <2>4 DEF HttpInv
<1> QED BY <1>1, <1>2, PTL DEF Spec

\* However the bytes of a request are cut into pieces, it is answered when all of
\* it is there, and as what it is: read(), process_read() and parse_line().
THEOREM CutsDoNotMatterCorrect == Spec => []CutsDoNotMatter
<1>1. HttpInv => CutsDoNotMatter
  <2> SUFFICES ASSUME HttpInv PROVE CutsDoNotMatter
    OBVIOUS
  <2>1. TypeOK /\ m_linger \in BOOLEAN
    BY DEF HttpInv, Types, TypeOK
  <2>2. pc = "in" => Verdict(m_read_buf) = "NO_REQUEST" \/ m_check_state = "CHECK_STATE_CONTENT"
    BY DEF HttpInv, ParserOK
  <2>3. ASSUME pc = "out"
        PROVE  \/ Verdict(m_read_buf) = "BAD_REQUEST" /\ status = 400 /\ ~m_linger
               \/ /\ Verdict(m_read_buf) = "GET_REQUEST"
                  /\ m_linger <=> Header(m_read_buf, "keep")
                  /\ \A k \in nul : \/ k > Min(HeadEnds(m_read_buf))
                                    \/ ContentSize(m_read_buf) < 0
    BY <2>3 DEF HttpInv, ParserOK, Offered, NulOK
  <2>4. Header(m_read_buf, "keep") \in BOOLEAN
    BY DEF Header
  <2>5. (m_linger <=> Header(m_read_buf, "keep")) => m_linger = Header(m_read_buf, "keep")
    BY <2>1, <2>4
  <2>6. pc = "undefined" => ContentSize(m_read_buf) \notin 0 .. INT_MAX - READ_BUFFER_SIZE
    BY DEF HttpInv, ParserOK
  <2> QED BY <2>1, <2>2, <2>3, <2>5, <2>6 DEF CutsDoNotMatter
<1> QED BY <1>1, HttpInvCorrect, PTL

\* While every writev() takes all, each response is handed over once and in
\* order, and what is offered is mapped: write(), process_write(), unmap().
THEOREM AnswersWholeCorrect == Spec => []AnswersWhole
<1>1. HttpInv => AnswersWhole
  <2> SUFFICES ASSUME HttpInv PROVE AnswersWhole
    OBVIOUS
  <2>1. due \in Seq(Statuses) /\ got \in Seq(Statuses)
    BY DEF HttpInv, AnswerOK
  <2>2. ASSUME NEW s \in Statuses, due = Append(got, s)
        PROVE  Len(got) = Len(due) - 1 /\ got = SubSeq(due, 1, Len(got))
    <3>1. /\ Len(due) = Len(got) + 1 /\ Len(got) \in Nat
          /\ \A i \in 1 .. Len(got) : due[i] = got[i]
      BY <2>1, <2>2, AppendProperties, LenProperties
    <3>2. PICK m \in Nat, d \in Seq(Statuses) : m = Len(got) /\ d = due /\ m <= Len(d)
      BY <2>1, <3>1
    <3>3. \A i \in 1 .. m : d[i] \in Statuses
      <4>1. \A i \in 1 .. Len(d) : d[i] \in Statuses
        BY <3>2, ElementOfSeq
      <4>2. \A i \in 1 .. m : i \in 1 .. Len(d)
        BY <3>1, <3>2
      <4> QED BY <4>1, <4>2
    <3>4. /\ SubSeq(d, 1, m) \in Seq(Statuses)
          /\ Len(SubSeq(d, 1, m)) = IF 1 <= m THEN m - 1 + 1 ELSE 0
          /\ \A i \in 1 .. m - 1 + 1 : SubSeq(d, 1, m)[i] = d[1 + i - 1]
      BY <3>2, <3>3, SubSeqProperties
    <3>5. Len(SubSeq(d, 1, m)) = m /\ \A i \in 1 .. m : SubSeq(d, 1, m)[i] = d[i]
      BY <3>2, <3>4
    <3>6. PICK g \in Seq(Statuses) : g = got /\ Len(g) = m /\ \A i \in 1 .. m : g[i] = d[i]
      BY <2>1, <3>1, <3>2
    <3>7. g = SubSeq(d, 1, m)
      <4> DEFINE t == SubSeq(d, 1, m)
      <4>1. t \in Seq(Statuses) /\ Len(t) = Len(g) /\ \A i \in 1 .. Len(g) : g[i] = t[i]
        BY <3>4, <3>5, <3>6
      <4> HIDE DEF t
      <4>2. g = t
        BY <3>6, <4>1, SeqEqual
      <4> QED BY <4>2 DEF t
    <3> QED BY <3>1, <3>2, <3>6, <3>7
  <2>3. ASSUME ~torn, Offered
        PROVE  Len(got) = Len(due) - 1 /\ got = SubSeq(due, 1, Len(got))
    <3>1. status \in Statuses /\ due = Append(got, status)
      BY <2>3 DEF HttpInv, AnswerOK
    <3> QED BY <2>2, <3>1
  <2>4. ASSUME ~torn, pc = "closed"
        PROVE  got = due \/ (Len(got) = Len(due) - 1 /\ got = SubSeq(due, 1, Len(got)))
    BY <2>2, <2>4 DEF HttpInv, AnswerOK
  <2>5. ASSUME ~torn, pc \in {"in", "process", "undefined"} PROVE got = due
    BY <2>5 DEF HttpInv, AnswerOK
  <2>6. pc \in {"in", "process", "out", "write", "closed", "undefined"}
    BY DEF HttpInv, Types, TypeOK
  <2>7. pc \in {"out", "write"} /\ m_iv.count = 2 => m_file_address \in {"file", "failed"}
    BY DEF HttpInv, AnswerOK, Offered
  <2> QED BY <2>3, <2>4, <2>5, <2>6, <2>7 DEF AnswersWhole, Offered
<1> QED BY <1>1, HttpInvCorrect, PTL

-----------------------------------------------------------------------------
(* ClientSocket.                                                           *)

\* Where the caller is inside start().
Starting == {"startMade", "start", "startJoin"}

\* While start() finds no thread that runs, m_socket is open and the client's
\* but between close() and the assignment of -1 in closeSocket(), and what
\* stop() has forgotten is open as well.
SocketIsOwn ==
    ~restarted =>
        /\ ~harm
        /\ cpc \in Starting => tpc = "none"
        /\ m_socket > 0 /\ tpc # "closed" => m_socket \in own
        /\ tpc = "closed" => m_socket \notin own
        /\ Cardinality(own \ {m_socket}) <= stops + (IF cpc = "join" THEN 1 ELSE 0)

SocketInv == SocketTypeOK /\ stops \in Nat /\ SocketIsOwn

USE ClientAssumption

\* A set of descriptors, with and without one of them.
LEMMA OwnCounts ==
    ASSUME NEW S \in SUBSET Fds
    PROVE  /\ Cardinality(S) \in Nat
           /\ \A x : Cardinality(S) <= Cardinality(S \ {x}) + 1
           /\ \A x : x \notin S => S \ {x} = S
<1>1. IsFiniteSet(S)
  <2>1. IsFiniteSet(Fds)
    BY FS_Interval DEF Fds
  <2> QED BY <2>1, FS_Subset
<1>2. Cardinality(S) \in Nat
  BY <1>1, FS_CardinalityType
<1>3. ASSUME NEW x PROVE Cardinality(S) <= Cardinality(S \ {x}) + 1
  <2>1. Cardinality(S \ {x}) = IF x \in S THEN Cardinality(S) - 1 ELSE Cardinality(S)
    BY <1>1, FS_RemoveElement
  <2> QED BY <1>2, <2>1
<1> QED BY <1>2, <1>3

\* createSocket() closes what m_socket names, and nothing of the rest of the
\* program if that is the client's.
LEMMA CreateKeeps ==
    ASSUME SocketTypeOK, createSocket
    PROVE  /\ own' \in SUBSET Fds /\ foreign' \in SUBSET Fds
           /\ own' \cap foreign' = {} /\ m_socket' \in Fds \cup {-1}
           /\ harm' \in BOOLEAN
           /\ (m_socket > 0 => m_socket \in own) => harm' = harm
           /\ m_socket' > 0 => m_socket' \in own'
           /\ own' \ {m_socket'} \subseteq own \ {m_socket}
<1> DEFINE given == IF m_socket > 0 THEN {m_socket} ELSE {}
           free  == Fds \ ((own \cup foreign) \ given)
<1>1. /\ own \in SUBSET Fds /\ foreign \in SUBSET Fds /\ own \cap foreign = {}
      /\ harm \in BOOLEAN /\ m_socket \in Fds \cup {0, -1}
      /\ \A f \in Fds : f \in Nat /\ f > 0
  BY DEF SocketTypeOK, Fds
<1>2. /\ foreign' = foreign \ given
      /\ harm' = (harm \/ given \cap foreign # {})
      /\ \/ own' = own \ given /\ m_socket' = -1
         \/ \E f \in free : own' = (own \ given) \cup {f} /\ m_socket' = f
  BY DEF createSocket
<1>3. /\ own \ given \subseteq own \ {m_socket}
      /\ (m_socket > 0 => m_socket \in own) => given \subseteq own
  BY <1>1
<1>4. harm' \in BOOLEAN /\ ((m_socket > 0 => m_socket \in own) => harm' = harm)
  <2>1. ASSUME m_socket > 0 => m_socket \in own PROVE given \cap foreign = {}
    BY <1>1, <1>3, <2>1
  <2> HIDE DEF given
  <2>2. CASE given \cap foreign = {}
    BY <1>1, <1>2, <2>2
  <2>3. CASE given \cap foreign # {}
    BY <1>1, <1>2, <2>1, <2>3
  <2> QED BY <2>2, <2>3
<1> HIDE DEF given
<1>5. CASE own' = own \ given /\ m_socket' = -1
  BY <1>1, <1>2, <1>3, <1>4, <1>5
<1>6. ASSUME NEW f \in free, own' = (own \ given) \cup {f}, m_socket' = f
      PROVE  /\ own' \in SUBSET Fds /\ foreign' \in SUBSET Fds
             /\ own' \cap foreign' = {} /\ m_socket' \in Fds \cup {-1}
             /\ m_socket' > 0 => m_socket' \in own'
             /\ own' \ {m_socket'} \subseteq own \ {m_socket}
  BY <1>1, <1>2, <1>3, <1>6
<1> QED BY <1>2, <1>4, <1>5, <1>6

LEMMA SocketStep ==
    ASSUME SocketInv, [SocketNext]_socketVars
    PROVE  SocketInv'
<1>1. /\ own \in SUBSET Fds /\ foreign \in SUBSET Fds /\ own \cap foreign = {}
      /\ m_socket \in Fds \cup {0, -1} /\ rfd \in Fds \cup {0, -1}
      /\ m_bStop \in BOOLEAN /\ m_bConnect \in BOOLEAN /\ waiting \in BOOLEAN
      /\ restarted \in BOOLEAN /\ harm \in BOOLEAN
      /\ cpc \in CallerPlaces /\ tpc \in ThreadPlaces
      /\ stops \in Nat /\ SocketTypeOK /\ SocketIsOwn
  BY DEF SocketInv, SocketTypeOK
<1>2. \A f \in Fds : f \in Nat /\ f > 0
  BY DEF Fds
<1>3. \A S \in SUBSET Fds :
         /\ Cardinality(S) \in Nat
         /\ \A x : Cardinality(S) <= Cardinality(S \ {x}) + 1
         /\ \A x : x \notin S => S \ {x} = S
  BY OwnCounts
\* Steps that leave the descriptors of the client and m_socket alone.
<1>4. ASSUME own' = own, m_socket' = m_socket, harm' = harm, stops' = stops,
             restarted' = restarted, foreign' \in SUBSET Fds, own' \cap foreign' = {},
             rfd' \in {rfd, m_socket}, m_bStop' \in BOOLEAN, m_bConnect' \in BOOLEAN,
             waiting' \in BOOLEAN,
             \/ cpc' = cpc
             \/ /\ cpc' \in CallerPlaces /\ cpc' # "join" /\ cpc # "join"
                /\ cpc' \in Starting => cpc \in Starting,
             \/ tpc' = tpc
             \/ /\ tpc # "closed"
                /\ ~restarted => cpc' \notin Starting
                /\ tpc' \in ThreadPlaces /\ tpc' # "closed"
      PROVE  SocketInv'
  <2>1. SocketTypeOK' /\ stops' \in Nat
    <3>1. rfd' \in Fds \cup {0, -1}
      BY <1>1, <1>4
    <3>2. cpc' \in CallerPlaces /\ tpc' \in ThreadPlaces
      BY <1>1, <1>4
    <3>3. {m_bStop', m_bConnect', waiting', restarted', harm'} \subseteq BOOLEAN
      BY <1>1, <1>4
    <3> QED BY <1>1, <1>4, <3>1, <3>2, <3>3 DEF SocketTypeOK
  <2>2. ASSUME ~restarted' PROVE SocketIsOwn'
    <3>1. /\ ~harm
          /\ cpc \in Starting => tpc = "none"
          /\ m_socket > 0 /\ tpc # "closed" => m_socket \in own
          /\ tpc = "closed" => m_socket \notin own
      BY <1>1, <1>4, <2>2 DEF SocketIsOwn
    <3>2. Cardinality(own \ {m_socket}) <= stops + (IF cpc = "join" THEN 1 ELSE 0)
      BY <1>1, <1>4, <2>2 DEF SocketIsOwn
    <3>3. cpc' = "join" <=> cpc = "join"
      BY <1>4
    <3>4. cpc' \in Starting => tpc' = "none"
      BY <1>4, <2>2, <3>1
    <3>5. (tpc' = "closed") <=> (tpc = "closed")
      BY <1>4
    <3>6. Cardinality(own' \ {m_socket'}) <= stops' + (IF cpc' = "join" THEN 1 ELSE 0)
      BY <1>4, <3>2, <3>3
    <3> QED BY <1>4, <3>1, <3>4, <3>5, <3>6 DEF SocketIsOwn
  <2> QED BY <2>1, <2>2 DEF SocketInv, SocketIsOwn
\* Steps that close or forget m_socket, or create it.
<1>5. ASSUME own' \in SUBSET Fds, foreign' \in SUBSET Fds, own' \cap foreign' = {},
             m_socket' \in Fds \cup {0, -1}, harm' \in BOOLEAN,
             restarted' \in BOOLEAN, m_bStop' = m_bStop, m_bConnect' \in BOOLEAN,
             waiting' = waiting, rfd' = rfd, stops' = stops,
             cpc' \in CallerPlaces, tpc' \in ThreadPlaces,
             ~restarted' =>
                /\ ~harm'
                /\ cpc' \in Starting => tpc' = "none"
                /\ m_socket' > 0 /\ tpc' # "closed" => m_socket' \in own'
                /\ tpc' = "closed" => m_socket' \notin own'
                /\ ~restarted
                /\ \/ /\ own' \ {m_socket'} \subseteq own \ {m_socket}
                      /\ cpc' = "join" <=> cpc = "join"
                   \/ /\ own' \ {m_socket'} = own
                      /\ cpc' = "join" /\ cpc # "join"
      PROVE  SocketInv'
  <2>1. SocketTypeOK' /\ stops' \in Nat
    <3>1. {m_bStop', m_bConnect', waiting', restarted', harm'} \subseteq BOOLEAN
      BY <1>1, <1>5
    <3> QED BY <1>1, <1>5, <3>1 DEF SocketTypeOK
  <2>2. ASSUME ~restarted' PROVE SocketIsOwn'
    <3>1. Cardinality(own \ {m_socket}) <= stops + (IF cpc = "join" THEN 1 ELSE 0)
      BY <1>1, <1>5, <2>2 DEF SocketIsOwn
    <3>2. PICK S \in SUBSET Fds, T \in SUBSET Fds :
             S = own \ {m_socket} /\ T = own' \ {m_socket'}
      BY <1>1, <1>5
    <3>3. /\ Cardinality(S) \in Nat /\ Cardinality(T) \in Nat /\ Cardinality(own) \in Nat
          /\ Cardinality(own) <= Cardinality(S) + 1
      BY <1>1, <1>3, <3>2
    <3>4. CASE T \subseteq S /\ (cpc' = "join" <=> cpc = "join")
      <4>1. Cardinality(T) <= Cardinality(S)
        <5>1. IsFiniteSet(S)
          <6>1. IsFiniteSet(Fds)
            BY FS_Interval DEF Fds
          <6> QED BY <3>2, <6>1, FS_Subset
        <5> QED BY <3>4, <5>1, FS_Subset
      <4>2. Cardinality(T) <= stops' + (IF cpc' = "join" THEN 1 ELSE 0)
        BY <1>1, <1>5, <3>1, <3>2, <3>3, <3>4, <4>1
      <4> QED BY <1>5, <2>2, <3>2, <4>2 DEF SocketIsOwn
    <3>5. CASE T = own /\ cpc' = "join" /\ cpc # "join"
      <4>1. Cardinality(S) <= stops
        BY <1>1, <3>1, <3>2, <3>5
      <4>2. Cardinality(T) <= stops' + 1
        BY <1>1, <1>5, <3>3, <3>5, <4>1
      <4> QED BY <1>5, <2>2, <3>2, <3>5, <4>2 DEF SocketIsOwn
    <3> QED BY <1>5, <2>2, <3>2, <3>4, <3>5
  <2> QED BY <2>1, <2>2 DEF SocketInv, SocketIsOwn
<1>6. ~restarted /\ tpc # "none" => cpc \notin Starting
  BY <1>1 DEF SocketIsOwn
<1>7. CASE ForeignOpen \/ ForeignClose
  <2>1. /\ UNCHANGED <<own, m_socket, harm, stops, restarted, rfd, m_bStop, m_bConnect, waiting,
                       cpc, tpc>>
        /\ foreign' \in SUBSET Fds /\ own' \cap foreign' = {}
    BY <1>1, <1>7
    DEF ForeignOpen, ForeignClose, Lowest, Free,
        flags, caller, thread
  <2> QED BY <1>1, <1>4, <2>1
<1>8. CASE start
  <2>1. /\ cpc = "idle" /\ cpc' = "startMade" /\ cpc' \in CallerPlaces
        /\ restarted' = (restarted \/ tpc # "none")
        /\ UNCHANGED <<m_bStop, m_bConnect, waiting, rfd, stops, tpc>>
    BY <1>8 DEF start, flags, thread, CallerPlaces
  <2>2. /\ own' \in SUBSET Fds /\ foreign' \in SUBSET Fds
        /\ own' \cap foreign' = {} /\ m_socket' \in Fds \cup {-1}
        /\ harm' \in BOOLEAN
        /\ (m_socket > 0 => m_socket \in own) => harm' = harm
        /\ m_socket' > 0 => m_socket' \in own'
        /\ own' \ {m_socket'} \subseteq own \ {m_socket}
    BY <1>1, <1>8, CreateKeeps DEF start
  <2>3. restarted' \in BOOLEAN /\ (~restarted' => ~restarted /\ tpc = "none")
    <3>1. CASE tpc = "none"
      BY <1>1, <2>1, <3>1
    <3>2. CASE tpc # "none"
      BY <1>1, <2>1, <3>2
    <3> QED BY <3>1, <3>2
  <2>4. ~restarted' => /\ ~harm' /\ tpc' = "none"
                       /\ ~restarted /\ (cpc' = "join" <=> cpc = "join")
    BY <1>1, <2>1, <2>2, <2>3 DEF SocketIsOwn
  <2> QED BY <1>1, <1>5, <2>1, <2>2, <2>3, <2>4
<1>9. CASE StartMade \/ StartClears \/ stop \/ StopNotifies
  <2>1. /\ UNCHANGED <<own, foreign, m_socket, harm, stops, restarted, rfd, m_bConnect, tpc>>
        /\ m_bStop' \in BOOLEAN /\ waiting' \in BOOLEAN
        /\ \/ cpc = "startMade" /\ cpc' \in {"idle", "start"}
           \/ cpc = "start" /\ cpc' = "startJoin"
           \/ cpc = "idle" /\ cpc' = "stop"
           \/ cpc = "stop" /\ cpc' = "forget"
    BY <1>1, <1>9
    DEF StartMade, StartClears, stop, StopNotifies, sock, flags, thread
  <2>2. /\ cpc' \in CallerPlaces /\ cpc' # "join" /\ cpc # "join"
        /\ cpc' \in Starting => cpc \in Starting
    BY <2>1 DEF CallerPlaces, Starting
  <2> QED BY <1>1, <1>4, <2>1, <2>2
<1>10. CASE StartThread
  <2>1. /\ UNCHANGED <<own, foreign, m_socket, harm, stops, restarted, rfd, m_bStop, m_bConnect,
                       waiting>>
        /\ cpc = "startJoin" /\ cpc' = "idle"
        /\ tpc = "none" /\ tpc' = "top"
        /\ cpc' \in CallerPlaces /\ cpc' \notin Starting /\ tpc' \in ThreadPlaces
    BY <1>10 DEF StartThread, sock, flags, CallerPlaces, Starting, ThreadPlaces
  <2> QED BY <1>1, <1>4, <2>1
<1>11. CASE StopForgets
  <2>1. /\ UNCHANGED <<own, foreign, harm, stops, restarted, rfd, m_bStop, m_bConnect, waiting,
                       tpc>>
        /\ m_socket' = -1 /\ cpc = "forget" /\ cpc' = "join"
        /\ cpc' \in CallerPlaces /\ cpc' \notin Starting
    BY <1>11 DEF StopForgets, flags, thread, CallerPlaces, Starting
  <2>2. own' \ {m_socket'} = own /\ m_socket' \notin own'
    BY <1>1, <1>2, <2>1
  <2>3. ~restarted => ~harm
    BY <1>1 DEF SocketIsOwn
  <2> QED BY <1>1, <1>5, <2>1, <2>2, <2>3
<1>12. CASE StopJoins
  <2>1. /\ UNCHANGED <<own, foreign, m_socket, harm, restarted, rfd, m_bStop, m_bConnect, waiting,
                       tpc>>
        /\ stops' = stops + 1 /\ cpc = "join" /\ cpc' = "idle"
        /\ cpc' \in CallerPlaces /\ cpc' \notin Starting
    BY <1>12 DEF StopJoins, sock, flags, thread, CallerPlaces, Starting
  <2>2. SocketTypeOK' /\ stops' \in Nat
    <3>1. {m_bStop', m_bConnect', waiting', restarted', harm'} \subseteq BOOLEAN
      BY <1>1, <2>1
    <3> QED BY <1>1, <2>1, <3>1 DEF SocketTypeOK
  <2>3. SocketIsOwn'
    BY <1>1, <2>1 DEF SocketIsOwn
  <2> QED BY <2>2, <2>3 DEF SocketInv
<1>13. CASE Top \/ TryPort \/ SocketMade \/ ConnectCalled \/ FdSet \/ Select \/ IsSet \/ Confirm
            \/ AskStop \/ ReadCalled \/ ReadData \/ Disconnected \/ NextPort \/ Pause \/ Resume
            \/ LeaveLoop \/ Exit
  <2>1. /\ UNCHANGED <<own, foreign, m_socket, harm, stops, restarted, m_bStop, cpc>>
        /\ rfd' \in {rfd, m_socket} /\ m_bConnect' \in BOOLEAN /\ waiting' \in BOOLEAN
        /\ tpc # "none" /\ tpc # "closed"
        /\ tpc' \in ThreadPlaces /\ tpc' # "closed"
    <3>1. CASE Top
      BY <1>1, <3>1 DEF Top, Goes, sock, flags, caller, ThreadPlaces
    <3>2. CASE TryPort
      BY <1>1, <3>2 DEF TryPort, Goes, sock, flags, caller, ThreadPlaces
    <3>3. CASE SocketMade
      BY <1>1, <3>3 DEF SocketMade, Goes, sock, flags, caller, ThreadPlaces
    <3>4. CASE ConnectCalled
      BY <1>1, <3>4 DEF ConnectCalled, Goes, sock, caller, ThreadPlaces
    <3>5. CASE FdSet
      BY <1>1, <3>5 DEF FdSet, Goes, sock, flags, caller, ThreadPlaces
    <3>6. CASE Select
      BY <1>1, <3>6 DEF Select, Goes, sock, flags, caller, ThreadPlaces
    <3>7. CASE IsSet
      BY <1>1, <3>7 DEF IsSet, Goes, sock, flags, caller, ThreadPlaces
    <3>8. CASE Confirm
      BY <1>1, <3>8 DEF Confirm, Goes, sock, caller, ThreadPlaces
    <3>9. CASE AskStop
      BY <1>1, <3>9 DEF AskStop, Goes, sock, flags, caller, ThreadPlaces
    <3>10. CASE ReadCalled
      BY <1>1, <3>10 DEF ReadCalled, Goes, sock, flags, caller, ThreadPlaces
    <3>11. CASE ReadData
      BY <1>1, <3>11 DEF ReadData, Goes, sock, flags, caller, ThreadPlaces
    <3>12. CASE Disconnected
      BY <1>1, <3>12 DEF Disconnected, Goes, sock, caller, ThreadPlaces
    <3>13. CASE NextPort
      BY <1>1, <3>13 DEF NextPort, sock, caller, ThreadPlaces
    <3>14. CASE Pause
      BY <1>1, <3>14 DEF Pause, Goes, sock, flags, caller, ThreadPlaces
    <3>15. CASE Resume
      BY <1>1, <3>15 DEF Resume, Goes, sock, flags, caller, ThreadPlaces
    <3>16. CASE LeaveLoop
      BY <1>1, <3>16 DEF LeaveLoop, Goes, sock, flags, caller, ThreadPlaces
    <3>17. CASE Exit
      BY <1>1, <3>17 DEF Exit, Goes, sock, caller, ThreadPlaces
    <3> QED BY <1>13, <3>1, <3>2, <3>3, <3>4, <3>5, <3>6, <3>7, <3>8, <3>9,
               <3>10, <3>11, <3>12, <3>13, <3>14, <3>15, <3>16, <3>17
  <2> QED BY <1>1, <1>4, <1>6, <2>1
<1>14. CASE MakeSocket
  <2>1. /\ tpc = "make" /\ tpc' = "made" /\ tpc' \in ThreadPlaces
        /\ UNCHANGED <<m_bStop, m_bConnect, waiting, rfd, stops, restarted, cpc>>
    BY <1>14 DEF MakeSocket, Goes, flags, caller, ThreadPlaces
  <2>2. /\ own' \in SUBSET Fds /\ foreign' \in SUBSET Fds
        /\ own' \cap foreign' = {} /\ m_socket' \in Fds \cup {-1}
        /\ harm' \in BOOLEAN
        /\ (m_socket > 0 => m_socket \in own) => harm' = harm
        /\ m_socket' > 0 => m_socket' \in own'
        /\ own' \ {m_socket'} \subseteq own \ {m_socket}
    BY <1>1, <1>14, CreateKeeps DEF MakeSocket
  <2>3. ~restarted => ~harm'
    BY <1>1, <2>1, <2>2 DEF SocketIsOwn
  <2> QED BY <1>1, <1>5, <1>6, <2>1, <2>2, <2>3
\* close( m_socket )
<1>15. ASSUME m_socket > 0, Close(m_socket)
       PROVE  /\ own' \in SUBSET Fds /\ foreign' \in SUBSET Fds
              /\ own' \cap foreign' = {} /\ m_socket \notin own' /\ harm' \in BOOLEAN
              /\ own' = own \ {m_socket}
              /\ m_socket \in own => harm' = harm
  <2>1. /\ own' = own \ {m_socket} /\ foreign' = foreign \ {m_socket}
        /\ harm' = (harm \/ m_socket \in foreign)
    BY <1>15 DEF Close
  <2>2. harm' \in BOOLEAN /\ (m_socket \in own => harm' = harm)
    <3>1. CASE m_socket \in foreign
      BY <1>1, <2>1, <3>1
    <3>2. CASE m_socket \notin foreign
      BY <1>1, <2>1, <3>2
    <3> QED BY <3>1, <3>2
  <2> QED BY <1>1, <2>1, <2>2
<1>16. CASE CloseSocket
  <2>1. /\ tpc = "closeSocket" /\ tpc' = "closed" /\ tpc' \in ThreadPlaces
        /\ UNCHANGED <<m_socket, m_bStop, m_bConnect, waiting, rfd, stops, restarted, cpc>>
        /\ IF m_socket > 0 THEN Close(m_socket) ELSE UNCHANGED <<own, foreign, harm>>
    BY <1>16 DEF CloseSocket, Goes, flags, caller, ThreadPlaces
  <2>2. /\ own' \in SUBSET Fds /\ foreign' \in SUBSET Fds
        /\ own' \cap foreign' = {} /\ harm' \in BOOLEAN
        /\ own' \ {m_socket'} \subseteq own \ {m_socket}
        /\ m_socket' \notin own'
        /\ (m_socket > 0 => m_socket \in own) => harm' = harm
    <3>1. CASE m_socket > 0
      BY <1>1, <1>15, <2>1, <3>1
    <3>2. CASE ~(m_socket > 0)
      BY <1>1, <1>2, <2>1, <3>2
    <3> QED BY <3>1, <3>2
  <2>3. ~restarted => ~harm'
    BY <1>1, <2>1, <2>2 DEF SocketIsOwn
  <2> QED BY <1>1, <1>5, <1>6, <2>1, <2>2, <2>3
<1>17. CASE Closed
  <2>1. /\ tpc = "closed" /\ tpc' = "failed" /\ m_socket' = -1 /\ tpc' \in ThreadPlaces
        /\ UNCHANGED <<own, foreign, harm, m_bStop, m_bConnect, waiting, rfd, stops, restarted,
                       cpc>>
    BY <1>17 DEF Closed, Goes, flags, caller, ThreadPlaces
  <2>2. ~restarted => ~harm /\ m_socket \notin own
    BY <1>1, <2>1 DEF SocketIsOwn
  <2>3. ~restarted => own' \ {m_socket'} \subseteq own \ {m_socket}
    BY <1>1, <2>1, <2>2
  <2>4. ~(m_socket' > 0) /\ m_socket' \in Fds \cup {0, -1}
    BY <2>1
  <2> QED BY <1>1, <1>5, <1>6, <2>1, <2>2, <2>3, <2>4
<1>18. CASE ExitCloses
  <2>1. /\ tpc = "exitClose" /\ tpc' = "end" /\ tpc' \in ThreadPlaces /\ m_socket' = -1
        /\ UNCHANGED <<m_bStop, m_bConnect, waiting, rfd, stops, restarted, cpc>>
        /\ IF m_socket > 0 THEN Close(m_socket) ELSE UNCHANGED <<own, foreign, harm>>
    BY <1>18 DEF ExitCloses, Goes, flags, caller, ThreadPlaces
  <2>2. /\ own' \in SUBSET Fds /\ foreign' \in SUBSET Fds
        /\ own' \cap foreign' = {} /\ harm' \in BOOLEAN
        /\ own' \ {m_socket'} \subseteq own \ {m_socket}
        /\ (m_socket > 0 => m_socket \in own) => harm' = harm
    <3>1. CASE m_socket > 0
      BY <1>1, <1>15, <2>1, <3>1
    <3>2. CASE ~(m_socket > 0)
      BY <1>1, <1>2, <2>1, <3>2
    <3> QED BY <3>1, <3>2
  <2>3. ~restarted => ~harm'
    BY <1>1, <2>1, <2>2 DEF SocketIsOwn
  <2>4. ~(m_socket' > 0) /\ m_socket' \in Fds \cup {0, -1}
    BY <2>1
  <2> QED BY <1>1, <1>5, <1>6, <2>1, <2>2, <2>3, <2>4
<1>19. CASE UNCHANGED socketVars
  BY <1>1, <1>4, <1>19
  DEF socketVars, sock, flags, caller, thread
<1> QED
  BY <1>7, <1>8, <1>9, <1>10, <1>11, <1>12, <1>13, <1>14, <1>16, <1>17, <1>18, <1>19
  DEF SocketNext, Waits, Thread, Peer, PeerCloses, ReadFails

\* While start() finds no thread that runs, the client and its thread close no
\* descriptor of the rest of the program, and a stop() leaves one open at most.
THEOREM OwnDescriptorsCorrect == SocketSpec => []OwnDescriptors
<1>1. SocketInit => SocketInv
  <2> SUFFICES ASSUME SocketInit PROVE SocketInv
    OBVIOUS
  <2>1. SocketTypeOK /\ stops \in Nat
    BY DEF SocketInit, SocketTypeOK, CallerPlaces, ThreadPlaces
  <2>2. Cardinality(own \ {m_socket}) = 0
    <3>1. own \ {m_socket} = {}
      BY DEF SocketInit
    <3> QED BY <3>1, FS_EmptySet
  <2> QED BY <2>1, <2>2 DEF SocketInit, SocketInv, SocketIsOwn, Starting
<1>2. SocketInv /\ [SocketNext]_socketVars => SocketInv'
  BY SocketStep
<1>3. SocketInv => OwnDescriptors
  BY DEF SocketInv, SocketIsOwn, OwnDescriptors
<1> QED BY <1>1, <1>2, <1>3, PTL DEF SocketSpec
=============================================================================
