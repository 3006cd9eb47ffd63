--------------------------- MODULE ConnectionProofs ---------------------------
(***************************************************************************)
(* Theorems about Connection, for every number of clients and of threads,  *)
(* whatever is sent, however it is cut into reads, and with every fault.   *)
(* That handlers stay apart rests on no fact about the parser; that what   *)
(* they parse is what was sent rests on what consume does with every byte  *)
(* in every state.                                                         *)
(***************************************************************************)
EXTENDS Connection, CommonLemmas

Operations == {"accept", "read", "write"}

StateInv ==
  /\ connected \in [Clients -> BOOLEAN]
  /\ pending \in [Clients -> SUBSET Operations]
  /\ busy \in [Threads -> Clients \cup {NoClient}]
  /\ reply_ \in [Clients -> Replies \cup {BadRequest, NoReply}]

(***************************************************************************)
(* A connection that is not there yet has neither operation nor handler;   *)
(* later it has one operation, or one handler, or is destroyed.            *)
(***************************************************************************)
Single(c) ==
  /\ connected[c] \/ ~ Open(c)
  /\ \A o \in pending[c] : pending[c] = {o} /\ \A t \in Threads : busy[t] # c
  /\ \A t, u \in Threads : busy[t] = c /\ busy[u] = c => t = u

IInv == StateInv /\ \A c \in Clients : Single(c)

------------------------------------------------------------------------------
(* The inductive invariant *)

(***************************************************************************)
(* The server starts without connections.                                  *)
(***************************************************************************)
LEMMA InitIInv == Init => IInv
BY ConnectionAssumption DEF Init, IInv, StateInv, Single, Open, Operations

(***************************************************************************)
(* A step that leaves the operations and handlers of a connection alone,   *)
(* or ends them all.                                                       *)
(***************************************************************************)
LEMMA SingleKept ==
  ASSUME NEW c \in Clients, Single(c),
         connected'[c] = connected[c],
         \/ pending'[c] = pending[c] /\ \A t \in Threads : busy'[t] = c <=> busy[t] = c
         \/ pending'[c] = {} /\ \A t \in Threads : busy'[t] # c
  PROVE  Single(c)'
BY Zenon DEF Single, Open

(***************************************************************************)
(* A step that starts one operation of a connection, and leaves no other   *)
(* operation and no handler of it.                                         *)
(***************************************************************************)
LEMMA SingleStarted ==
  ASSUME NEW c \in Clients, NEW o, connected'[c], pending'[c] = {o},
         \A t \in Threads : busy'[t] # c
  PROVE  Single(c)'
BY Zenon DEF Single, Open

(***************************************************************************)
(* server::handle_accept turns the accept into a read, or into nothing.    *)
(***************************************************************************)
LEMMA AcceptIInv ==
  ASSUME IInv, NEW c \in Clients, HandleAccept(c)
  PROVE  IInv'
<1> USE DEF IInv, StateInv
<1>1. /\ "accept" \in pending[c]
      /\ UNCHANGED <<connected, busy, reply_>>
      /\ \A d \in Clients \ {c} : pending'[d] = pending[d]
      /\ pending'[c] \in {pending[c] \ {"accept"}, (pending[c] \ {"accept"}) \cup {"read"}}
      /\ pending' \in [Clients -> SUBSET Operations]
  BY Zenon DEF HandleAccept, Completes, Operations
<1>2. /\ pending[c] = {"accept"} /\ \A t \in Threads : busy[t] # c
      /\ connected[c]
  BY <1>1, Zenon DEF Single, Open
<1>3. pending'[c] = {} \/ pending'[c] = {"read"}
  BY <1>1, <1>2, Zenon
<1>4. Single(c)'
  BY <1>1, <1>2, <1>3, SingleKept, SingleStarted, Zenon
<1>5. \A d \in Clients \ {c} : Single(d)'
  BY <1>1, SingleKept, Zenon
<1> QED BY <1>1, <1>4, <1>5, Zenon

(***************************************************************************)
(* handle_read with an error, and handle_write, start nothing.             *)
(***************************************************************************)
LEMMA EndIInv ==
  ASSUME IInv, NEW c \in Clients, HandleReadError(c) \/ HandleWrite(c)
  PROVE  IInv'
<1> USE DEF IInv, StateInv
<1>1. /\ UNCHANGED <<connected, busy, reply_>>
      /\ \A d \in Clients \ {c} : pending'[d] = pending[d]
      /\ \E o \in pending[c] : pending'[c] = pending[c] \ {o}
      /\ pending' \in [Clients -> SUBSET Operations]
  BY Zenon DEF HandleReadError, HandleWrite, Completes, Operations
<1>2. pending'[c] = {} /\ \A t \in Threads : busy[t] # c
  BY <1>1, Zenon DEF Single
<1>3. \A d \in Clients : Single(d)'
  BY <1>1, <1>2, SingleKept, Zenon
<1> QED BY <1>1, <1>3, Zenon

(***************************************************************************)
(* A completed read leaves the connection to the thread that handles it.   *)
(***************************************************************************)
LEMMA ReadBeginIInv ==
  ASSUME IInv, NEW c \in Clients, NEW t \in Threads, HandleReadBegin(t, c)
  PROVE  IInv'
<1> USE DEF IInv, StateInv
<1>1. /\ "read" \in pending[c] /\ busy[t] = NoClient
      /\ UNCHANGED <<connected, reply_>>
      /\ pending' = [pending EXCEPT ![c] = @ \ {"read"}]
      /\ busy' = [busy EXCEPT ![t] = c]
  BY Zenon DEF HandleReadBegin, Idle, client
<1>2. /\ pending' \in [Clients -> SUBSET Operations]
      /\ busy' \in [Threads -> Clients \cup {NoClient}]
  BY <1>1, Zenon
<1>3. /\ pending[c] = {"read"} /\ \A u \in Threads : busy[u] # c
      /\ connected[c]
  BY <1>1, Zenon DEF Single, Open
<1>4. pending'[c] = {} /\ \A u \in Threads : busy'[u] = c <=> u = t
  BY <1>1, <1>3, Zenon
<1>5. Single(c)'
  BY <1>1, <1>3, <1>4, ZenonT(30) DEF Single
<1>6. ASSUME NEW d \in Clients \ {c} PROVE Single(d)'
  <2>1. /\ Single(d) /\ pending'[d] = pending[d]
        /\ \A u \in Threads : busy'[u] = d <=> busy[u] = d
    BY <1>1, ConnectionAssumption, Zenon
  <2> QED BY <1>1, <2>1, SingleKept, Zenon
<1> QED BY <1>1, <1>2, <1>5, <1>6, Zenon

(***************************************************************************)
(* The handler of a connection ends with one operation started: the write  *)
(* of a reply, or a read.                                                  *)
(***************************************************************************)
LEMMA HandleReadStarts ==
  ASSUME IInv, NEW c \in Clients, NEW t \in Threads, HandleRead(t, c)
  PROVE  /\ busy[t] = c /\ UNCHANGED connected
         /\ busy' = [busy EXCEPT ![t] = NoClient]
         /\ \E o \in {"read", "write"} : pending' = [pending EXCEPT ![c] = @ \cup {o}]
         /\ \/ UNCHANGED reply_
            \/ \E r \in Replies \cup {BadRequest} : reply_' = [reply_ EXCEPT ![c] = r]
<1>1. /\ busy[t] = c /\ UNCHANGED connected
      /\ busy' = [busy EXCEPT ![t] = NoClient]
  BY Zenon DEF HandleRead, client
<1>2. PICK p \in {Parsed(c)} :
        \/ p.result = "true" /\ \E r \in Replies : Answer(c, r)
        \/ p.result = "false" /\ Answer(c, BadRequest)
        \/ /\ p.result = "indeterminate"
           /\ pending' = [pending EXCEPT ![c] = @ \cup {"read"}]
           /\ UNCHANGED <<reply_, wire>>
  BY Zenon DEF HandleRead
<1>3. ASSUME NEW r, Answer(c, r)
      PROVE  /\ pending' = [pending EXCEPT ![c] = @ \cup {"write"}]
             /\ reply_' = [reply_ EXCEPT ![c] = r]
  BY <1>3, Zenon DEF Answer
<1> QED BY <1>1, <1>2, <1>3, Zenon

(***************************************************************************)
(* That operation is then the only one of the connection.                  *)
(***************************************************************************)
LEMMA ReadIInv ==
  ASSUME IInv, NEW c \in Clients, NEW t \in Threads, HandleRead(t, c)
  PROVE  IInv'
<1> USE DEF IInv, StateInv
<1>1. PICK o \in {"read", "write"} : pending' = [pending EXCEPT ![c] = @ \cup {o}]
  BY HandleReadStarts, Zenon
<1>2. /\ busy[t] = c /\ UNCHANGED connected
      /\ busy' = [busy EXCEPT ![t] = NoClient]
      /\ reply_' \in [Clients -> Replies \cup {BadRequest, NoReply}]
  BY HandleReadStarts
<1>3. /\ pending' \in [Clients -> SUBSET Operations]
      /\ busy' \in [Threads -> Clients \cup {NoClient}]
  BY <1>1, <1>2, Zenon DEF Operations
<1>4. /\ pending[c] = {} /\ \A u \in Threads : busy[u] = c => u = t
      /\ connected[c]
  BY <1>2, Zenon DEF Single, Open
<1>5. pending'[c] = {o} /\ \A u \in Threads : busy'[u] # c
  BY <1>1, <1>2, <1>4, ConnectionAssumption, Zenon
<1>6. Single(c)'
  BY <1>2, <1>4, <1>5, SingleStarted, Zenon
<1>7. ASSUME NEW d \in Clients \ {c} PROVE Single(d)'
  <2>1. /\ Single(d) /\ pending'[d] = pending[d]
        /\ \A u \in Threads : busy'[u] = d <=> busy[u] = d
    BY <1>1, <1>2, ConnectionAssumption, Zenon
  <2> QED BY <1>2, <2>1, SingleKept, Zenon
<1> QED BY <1>2, <1>3, <1>6, <1>7, Zenon

(***************************************************************************)
(* With the process all operations and handlers end.                       *)
(***************************************************************************)
LEMMA DieIInv ==
  ASSUME IInv, Die
  PROVE  IInv'
<1> USE DEF IInv, StateInv
<1>1. /\ UNCHANGED <<connected, reply_>>
      /\ pending' = [c \in Clients |-> {}] /\ busy' = [t \in Threads |-> NoClient]
  BY Zenon DEF Die, client
<1>2. \A c \in Clients : Single(c)'
  BY <1>1, SingleKept, ConnectionAssumption, Zenon
<1> QED BY <1>1, <1>2, Zenon

(***************************************************************************)
(* A client connects once; what else clients do changes none of this.      *)
(***************************************************************************)
LEMMA ConnectIInv ==
  ASSUME IInv, NEW c \in Clients, Connect(c)
  PROVE  IInv'
<1> USE DEF IInv, StateInv
<1>1. /\ ~ connected[c] /\ UNCHANGED <<busy, reply_>>
      /\ connected' = [connected EXCEPT ![c] = TRUE]
      /\ pending' = [pending EXCEPT ![c] = {"accept"}]
  BY Zenon DEF Connect
<1>2. \A t \in Threads : busy[t] # c
  BY <1>1, Zenon DEF Single, Open
<1>3. Single(c)'
  BY <1>1, <1>2, SingleStarted, Zenon
<1>4. \A d \in Clients \ {c} : Single(d)'
  BY <1>1, SingleKept, Zenon
<1>5. /\ connected' \in [Clients -> BOOLEAN]
      /\ pending' \in [Clients -> SUBSET Operations]
  BY <1>1, Zenon DEF Operations
<1> QED BY <1>1, <1>3, <1>4, <1>5, Zenon

(***************************************************************************)
(* Sending, receiving, losing a client and stopping start and end nothing. *)
(***************************************************************************)
LEMMA UnchangedIInv ==
  ASSUME IInv, UNCHANGED <<connected, pending, busy, reply_>>
  PROVE  IInv'
BY SingleKept, Zenon DEF IInv, StateInv

(***************************************************************************)
(* Every step preserves the invariant.                                     *)
(***************************************************************************)
LEMMA NextIInv == IInv /\ [Next]_vars => IInv'
<1> SUFFICES ASSUME IInv, [Next]_vars PROVE IInv'
  BY Zenon
<1>1. ASSUME NEW c \in Clients, Connect(c) PROVE IInv'
  BY <1>1, ConnectIInv, Zenon
<1>2. ASSUME NEW c \in Clients, Send(c) \/ Receive(c) \/ Drop(c) PROVE IInv'
  BY <1>2, UnchangedIInv, Zenon DEF Send, Receive, Drop
<1>3. ASSUME NEW c \in Clients, Handler(c) PROVE IInv'
  BY <1>3, AcceptIInv, EndIInv, ReadBeginIInv, ReadIInv, Zenon DEF Handler
<1>4. ASSUME NEW c \in Clients, NEW t \in Threads, HandlerThrows(t, c) PROVE IInv'
  BY <1>4, DieIInv, Zenon DEF HandlerThrows
<1>5. CASE HandleStop
  BY <1>5, UnchangedIInv, Zenon DEF HandleStop, client
<1>6. CASE Exit
  BY <1>6, DieIInv, Zenon DEF Exit
<1>7. CASE UNCHANGED vars
  BY <1>7, UnchangedIInv, Zenon DEF vars
<1> QED BY <1>1, <1>2, <1>3, <1>4, <1>5, <1>6, <1>7, Zenon DEF Next

------------------------------------------------------------------------------
(* What follows from it *)

(***************************************************************************)
(* A set that is empty or has one element is counted as expected.          *)
(***************************************************************************)
LEMMA CountOne ==
  ASSUME NEW x, NEW S, S = {} \/ S = {x}
  PROVE  /\ S = {} => Cardinality(S) = 0
         /\ S # {} => Cardinality(S) = 1
<1> DEFINE Count(f) == [T \in SUBSET S |-> IF T = {} THEN 0 ELSE 1 + f[T \ {CHOOSE y : y \in T}]]
           g == [T \in SUBSET S |-> IF T = {} THEN 0 ELSE 1]
           h == CHOOSE f : f = Count(f)
<1>1. Cardinality(S) = h[S]
  BY Zenon DEF Cardinality
<1>2. ASSUME NEW T \in SUBSET S, T # {}
      PROVE  T = S /\ T \ {CHOOSE y : y \in T} = {}
  <2>1. T = {x} /\ S = {x}
    BY <1>2, Zenon
  <2>2. (CHOOSE y : y \in T) \in T
    BY <1>2, Zenon
  <2> QED BY <2>1, <2>2, Zenon
<1>3. g = Count(g)
  <2>1. \A T \in SUBSET S : g[T] = Count(g)[T]
    BY <1>2
  <2> QED BY <2>1, Zenon
<1>4. h = Count(h)
  BY <1>3, Zenon
<1>5. S # {} => h[S] = 1 + h[S \ {CHOOSE y : y \in S}]
  <2>1. S # {} => Count(h)[S] = 1 + h[S \ {CHOOSE y : y \in S}]
    BY Zenon
  <2> QED BY <1>4, <2>1, Zenon
<1>6. h[{}] = 0
  <2>1. Count(h)[{}] = 0
    BY Zenon
  <2> QED BY <1>4, <2>1, Zenon
<1> HIDE DEF h
<1>7. S # {} => h[S] = 1 + h[{}]
  BY <1>2, <1>5, Zenon
<1> QED BY <1>1, <1>6, <1>7

(***************************************************************************)
(* At most one operation or handler, counted as OneOperation counts.       *)
(***************************************************************************)
LEMMA SingleCounts == IInv => OneOperation
<1> SUFFICES ASSUME IInv, NEW c \in Clients
             PROVE  Cardinality(pending[c]) + Cardinality({t \in Threads : busy[t] = c}) <= 1
  BY Zenon DEF OneOperation
<1> DEFINE B == {t \in Threads : busy[t] = c}
<1>1. Cardinality({}) = 0
  BY CountOne, Zenon
<1>2. \A x : Cardinality({x}) = 1
  <2> SUFFICES ASSUME NEW x PROVE Cardinality({x}) = 1
    BY Zenon
  <2>1. {x} # {}
    BY Zenon
  <2>2. {x} # {} => Cardinality({x}) = 1
    BY CountOne, Zenon
  <2> QED BY <2>1, <2>2, Zenon
<1>3. CASE pending[c] # {}
  <2>1. PICK o \in pending[c] : pending[c] = {o} /\ B = {}
    BY <1>3, Zenon DEF IInv, Single
  <2>2. Cardinality(pending[c]) = 1 /\ Cardinality(B) = 0
    BY <2>1, <1>1, <1>2, Zenon
  <2> QED BY <2>2
<1>4. CASE pending[c] = {} /\ B # {}
  <2>1. PICK t \in Threads : B = {t}
    BY <1>4 DEF IInv, Single
  <2>2. Cardinality(pending[c]) = 0 /\ Cardinality(B) = 1
    BY <2>1, <1>1, <1>2, <1>4, Zenon
  <2> QED BY <2>2
<1>5. CASE pending[c] = {} /\ B = {}
  BY <1>1, <1>5
<1> QED BY <1>3, <1>4, <1>5, Zenon

(***************************************************************************)
(* A step sets the reply of a connection only at the end of its handler,   *)
(* when nothing of it is written.                                          *)
(***************************************************************************)
LEMMA NextReply ==
  IInv /\ [Next]_vars
    => \A c \in Clients : "write" \in pending[c] => reply_'[c] = reply_[c]
<1> SUFFICES ASSUME IInv, [Next]_vars, NEW c \in Clients, "write" \in pending[c]
             PROVE  reply_'[c] = reply_[c]
  BY Zenon
<1>1. ASSUME NEW d \in Clients, NEW t \in Threads, HandleRead(t, d)
      PROVE  reply_'[c] = reply_[c]
  <2>1. busy[t] = d
    BY <1>1, HandleReadStarts, Zenon
  <2>2. c # d
    BY <2>1, Zenon DEF IInv, Single
  <2> QED BY <1>1, <2>2, HandleReadStarts DEF IInv, StateInv
<1>2. ASSUME NEW d \in Clients,
             \/ Connect(d) \/ Send(d) \/ Receive(d) \/ Drop(d)
             \/ HandleAccept(d) \/ HandleReadError(d) \/ HandleWrite(d)
      PROVE  UNCHANGED reply_
  BY <1>2, Zenon
     DEF Connect, Send, Receive, Drop, HandleAccept, HandleReadError, HandleWrite, Completes
<1>3. ASSUME NEW d \in Clients, NEW t \in Threads, HandleReadBegin(t, d)
      PROVE  UNCHANGED reply_
  BY <1>3, Zenon DEF HandleReadBegin
<1>4. ASSUME NEW d \in Clients, NEW t \in Threads, HandlerThrows(t, d)
      PROVE  UNCHANGED reply_
  BY <1>4, Zenon DEF HandlerThrows, Die
<1>5. HandleStop \/ Exit \/ UNCHANGED vars => UNCHANGED reply_
  BY Zenon DEF HandleStop, Exit, Die, vars
<1> QED BY <1>1, <1>2, <1>3, <1>4, <1>5, Zenon DEF Next, Handler

------------------------------------------------------------------------------
(* The parser *)

States ==
  {"http_version_h", "http_version_t_1", "http_version_t_2", "http_version_p",
   "http_version_slash", "expecting_newline_1", "space_before_header_value",
   "expecting_newline_2", "method_start", "method", "uri", "http_version_major_start",
   "http_version_major", "http_version_minor_start", "http_version_minor",
   "header_line_start", "header_name", "header_lws", "header_value",
   "expecting_newline_3", "body"}

Header == [name : Seq(Char), value : Seq(Char)]

Parsers ==
  [state_ : States, body_bytes_ : Int, result : {"indeterminate", "true", "false"},
   method : Seq(Char), uri : Seq(Char), headers : Seq(Header), content : Seq(Char)]

(***************************************************************************)
(* The digits of a number are worth something.                             *)
(***************************************************************************)
LEMMA DigitType ==
  ASSUME NEW c, is_digit(c)
  PROVE  Digit(c) \in 0 .. 9
<1>1. DOMAIN Numerals = 1 .. 10
  BY DEF Numerals
<1>2. PICK i \in DOMAIN Numerals : Numerals[i] = c
  BY Zenon DEF is_digit
<1> DEFINE j == CHOOSE k \in DOMAIN Numerals : Numerals[k] = c
<1>3. j \in DOMAIN Numerals
  BY <1>2, Zenon
<1> HIDE DEF j
<1>4. j \in 1 .. 10
  BY <1>1, <1>3, Zenon
<1> QED
  BY <1>4 DEF Digit, j

(***************************************************************************)
(* A sequence of digits is a number.                                       *)
(***************************************************************************)
LEMMA DecimalType ==
  ASSUME NEW digits \in Seq(Char), \A i \in DOMAIN digits : is_digit(digits[i])
  PROVE  Decimal(digits) \in Nat
<1> DEFINE L == Len(digits)
           step == [i \in 1 .. L |-> [n \in Nat |-> 10 * n + Digit(digits[i])]]
           Body(g, i) == IF i = 0 THEN 0 ELSE 10 * g[i - 1] + Digit(digits[i])
           Eqn(g) == g = [i \in 0 .. L |-> Body(g, i)]
           chosen == CHOOSE g : Eqn(g)
<1>1. L \in Nat /\ \A i \in 1 .. L : Digit(digits[i]) \in Nat
  BY DigitType
<1>2. step \in [1 .. L -> [Nat -> Nat]]
  BY <1>1
<1>3. PICK f \in [0 .. L -> Nat] : f[0] = 0 /\ \A i \in 1 .. L : f[i] = step[i][f[i - 1]]
  <2> HIDE DEF L, step
  <2>1. Iterative(L, Nat, 0, step)
    BY <1>1, <1>2, Zenon DEF Iterative
  <2> QED
    BY <2>1, Iteration
<1>4. ASSUME NEW i \in 0 .. L PROVE f[i] = Body(f, i)
  <2>1. CASE i = 0
    BY <1>3, <2>1, Zenon
  <2>2. CASE i # 0
    <3>a. i \in 1 .. L /\ i - 1 \in 0 .. L
      BY <1>1, <2>2
    <3>1. i \in 1 .. L /\ f[i - 1] \in Nat
      BY <3>a, Zenon
    <3>2. f[i] = step[i][f[i - 1]]
      BY <1>3, <3>1, Zenon
    <3> QED
      BY <2>2, <3>1, <3>2, Zenon
  <2> QED
    BY <2>1, <2>2, Zenon
<1>5. Eqn(f)
  <2> HIDE DEF Body
  <2> QED
    BY <1>4, Zenon
<1>6. Eqn(chosen)
  BY <1>5, Zenon
<1>7. \A i \in 0 .. L : chosen[i] = Body(chosen, i)
  <2> HIDE DEF Body, chosen
  <2> QED
    BY <1>6, Zenon
<1> HIDE DEF chosen
<1>8. \A n \in Nat : n <= L => chosen[n] \in Nat
  <2> DEFINE S == {n \in Nat : n <= L => chosen[n] \in Nat}
  <2>1. 0 \in S
    BY <1>1, <1>7
  <2>2. ASSUME NEW n \in S PROVE n + 1 \in S
    <3> SUFFICES ASSUME n + 1 <= L PROVE chosen[n + 1] \in Nat
      OBVIOUS
    <3>1. chosen[n] \in Nat /\ n + 1 \in 1 .. L /\ n + 1 \in 0 .. L /\ (n + 1) - 1 = n /\ n + 1 # 0
      BY <1>1
    <3>2. chosen[n + 1] = 10 * chosen[(n + 1) - 1] + Digit(digits[n + 1])
      BY <1>7, <3>1, Zenon
    <3>3. chosen[n + 1] = 10 * chosen[n] + Digit(digits[n + 1])
      BY <3>1, <3>2, Zenon
    <3>4. Digit(digits[n + 1]) \in Nat
      BY <1>1, <3>1, Zenon
    <3> QED
      BY <3>1, <3>3, <3>4
  <2> HIDE DEF S
  <2>3. S \in SUBSET Nat
    BY Zenon DEF S
  <2>4. \A n \in Nat : n \in S
    BY <2>1, <2>2, <2>3, Induction, Zenon
  <2> QED
    BY <2>4, Zenon DEF S
<1>9. Decimal(digits) = chosen[L]
  BY Zenon DEF Decimal, chosen
<1> QED
  BY <1>1, <1>8, <1>9

(***************************************************************************)
(* What atoi skips and what it reads.                                      *)
(***************************************************************************)
LEMMA AtoiParts ==
  ASSUME NEW s \in Seq(Char)
  PROVE  /\ SkipSpace(s) \in Seq(Char)
         /\ LeadingDigits(s) \in Seq(Char)
         /\ \A i \in DOMAIN LeadingDigits(s) : is_digit(LeadingDigits(s)[i])
<1> DEFINE A == {i \in DOMAIN s : s[i] # SP}
           B == {i \in DOMAIN s : ~ is_digit(s[i])}
<1>1. DOMAIN s = 1 .. Len(s) /\ Len(s) \in Nat
  OBVIOUS
<1>2. SkipSpace(s) \in Seq(Char)
  <2>1. CASE A = {}
    BY <2>1 DEF SkipSpace
  <2>2. CASE A # {}
    <3>1. A \in SUBSET Nat
      BY <1>1
    <3> HIDE DEF A
    <3>2. Min(A) \in A
      BY <2>2, <3>1, MinFacts, Zenon
    <3>3. Min(A) \in 1 .. Len(s)
      BY <1>1, <3>2, Zenon DEF A
    <3>4. SkipSpace(s) = SubSeq(s, Min(A), Len(s))
      BY <2>2, Zenon DEF SkipSpace, A
    <3> QED
      BY <1>1, <3>3, <3>4
  <2> QED
    BY <2>1, <2>2, Zenon
<1>3. /\ LeadingDigits(s) \in Seq(Char)
      /\ \A i \in DOMAIN LeadingDigits(s) : is_digit(LeadingDigits(s)[i])
  <2>1. CASE B = {}
    BY <2>1, Zenon DEF LeadingDigits
  <2>2. CASE B # {}
    <3>1. B \in SUBSET Nat
      BY <1>1
    <3> DEFINE m == Min(B)
               t == SubSeq(s, 1, m - 1)
    <3> HIDE DEF B
    <3>2. m \in B /\ \A i \in B : m <= i
      BY <2>2, <3>1, MinFacts, Zenon
    <3>3. LeadingDigits(s) = t
      BY <2>2, Zenon DEF LeadingDigits, B
    <3> HIDE DEF m
    <3>4. m \in 1 .. Len(s)
      BY <1>1, <3>2, Zenon DEF B
    <3>5. t \in Seq(Char) /\ DOMAIN t = 1 .. m - 1 /\ \A i \in 1 .. m - 1 : t[i] = s[i]
      BY <1>1, <3>4
    <3> HIDE DEF t
    <3>6. \A i \in 1 .. m - 1 : i \notin B
      BY <1>1, <3>2, <3>4
    <3>7. \A i \in 1 .. m - 1 : is_digit(s[i])
      BY <1>1, <3>4, <3>6 DEF B
    <3> QED
      BY <3>3, <3>5, <3>7, Zenon
  <2> QED
    BY <2>1, <2>2, Zenon
<1> QED
  BY <1>2, <1>3, Zenon

(***************************************************************************)
(* Whatever follows Content-Length, atoi makes a number of it.             *)
(***************************************************************************)
LEMMA AtoiType ==
  ASSUME NEW str \in Seq(Char)
  PROVE  atoi[str] \in Int
<1> DEFINE s == SkipSpace(str)
           neg == s # <<>> /\ s[1] = "-"
           digits == IF neg THEN Tail(s) ELSE s
           n == Number[digits]
           most == 2 ^ (LongWidth - 1) - 1
<1>1. s \in Seq(Char)
  BY AtoiParts, Zenon
<1>2. digits \in Seq(Char)
  <2> HIDE DEF s
  <2>1. CASE neg
    <3>1. s # <<>>
      BY <2>1, Zenon
    <3>2. Tail(s) \in Seq(Char)
      BY <1>1, <3>1
    <3> QED
      BY <2>1, <3>2, Zenon
  <2>2. CASE ~ neg
    BY <1>1, <2>2, Zenon
  <2> QED
    BY <2>1, <2>2, Zenon
<1>3. n \in Nat
  <2> HIDE DEF digits
  <2>1. n = Decimal(LeadingDigits(digits))
    BY <1>2, Zenon DEF Number
  <2> QED
    BY <1>2, <2>1, AtoiParts, DecimalType, Zenon
<1>4. most \in Nat /\ 2 ^ IntWidth \in Nat \ {0} /\ 2 ^ (IntWidth - 1) \in Nat
  BY WidthAssumption
<1>5. \A k \in Int : ToInt(k) \in Int
  <2> DEFINE a == 2 ^ IntWidth
             b == 2 ^ (IntWidth - 1)
  <2>1. a \in Nat \ {0} /\ b \in Nat
    BY <1>4, Zenon
  <2>2. \A k \in Int : ToInt(k) = ((k + b) % a) - b
    BY Zenon DEF ToInt
  <2> HIDE DEF a, b
  <2> QED
    BY <2>1, <2>2
<1>6. atoi[str] = IF neg THEN ToInt(- (IF n > most THEN most + 1 ELSE n))
                  ELSE ToInt(IF n > most THEN most ELSE n)
  BY Zenon DEF atoi
<1> HIDE DEF s, neg, n, most
<1>7. - (IF n > most THEN most + 1 ELSE n) \in Int /\ (IF n > most THEN most ELSE n) \in Int
  BY <1>3, <1>4
<1>8. CASE neg
  BY <1>5, <1>6, <1>7, <1>8, Zenon
<1>9. CASE ~ neg
  BY <1>5, <1>6, <1>7, <1>9, Zenon
<1> QED
  BY <1>8, <1>9, Zenon

(***************************************************************************)
(* The fields that stay as they are from the request line on.              *)
(***************************************************************************)
Same(p, q) == q.method = p.method /\ q.uri = p.uri /\ q.content = p.content

(***************************************************************************)
(* A state is changed, and nothing else is.                                *)
(***************************************************************************)
LEMMA GotoFacts ==
  ASSUME NEW p \in Parsers, NEW state \in States
  PROVE  /\ Goto(p, state) \in Parsers
         /\ Goto(p, state).state_ = state /\ Goto(p, state).result = p.result
         /\ Goto(p, state).headers = p.headers /\ Same(p, Goto(p, state))
BY Zenon DEF Goto, Parsers, Same

(***************************************************************************)
(* A parser decides.                                                       *)
(***************************************************************************)
LEMMA DecideFacts ==
  ASSUME NEW p \in Parsers
  PROVE  /\ Reject(p) \in Parsers /\ Reject(p).result = "false"
         /\ Accept(p) \in Parsers /\ Accept(p).result = "true"
         /\ Accept(p).headers = p.headers /\ Same(p, Accept(p))
BY Zenon DEF Reject, Accept, Parsers, Same

(***************************************************************************)
(* A character in lower case is a character.                               *)
(***************************************************************************)
LEMMA LowerType ==
  ASSUME NEW c \in Char
  PROVE  tolower(c) \in Char
<1>1. /\ DOMAIN LowerCase = {"C", "H", "T", "P"}
      /\ LowerCase["C"] = "c" /\ LowerCase["H"] = "h"
      /\ LowerCase["T"] = "t" /\ LowerCase["P"] = "p"
  BY Zenon DEF LowerCase
<1>2. CASE c \in DOMAIN LowerCase
  <2>1. LowerCase[c] \in {"c", "h", "t", "p"}
    BY <1>1, <1>2, Zenon
  <2>2. {"c", "h", "t", "p"} \subseteq Char
    BY Zenon DEF Char
  <2> QED
    BY <1>2, <2>1, <2>2, Zenon DEF tolower
<1>3. CASE c \notin DOMAIN LowerCase
  BY <1>3, Zenon DEF tolower
<1> QED
  BY <1>2, <1>3, Zenon

(***************************************************************************)
(* The last header gets one more character.                                *)
(***************************************************************************)
LEMMA PushFacts ==
  ASSUME NEW p \in Parsers, NEW c \in Char
  PROVE  /\ PushName(p, c) \in Parsers
         /\ PushName(p, c).state_ = p.state_ /\ PushName(p, c).result = p.result
         /\ Same(p, PushName(p, c))
         /\ PushValue(p, c) \in Parsers
         /\ PushValue(p, c).state_ = p.state_ /\ PushValue(p, c).result = p.result
         /\ Same(p, PushValue(p, c))
<1> DEFINE h == p.headers
           n == Len(h)
<1>1. h \in Seq(Header)
  BY Zenon DEF Parsers
<1>2. tolower(c) \in Char
  BY LowerType, Zenon
<1>3. ASSUME NEW g \in Header
      PROVE  /\ [g EXCEPT !.name = Append(@, tolower(c))] \in Header
             /\ [g EXCEPT !.value = Append(@, c)] \in Header
  <2>1. g.name \in Seq(Char) /\ g.value \in Seq(Char)
    BY Zenon DEF Header
  <2>2. Append(g.name, tolower(c)) \in Seq(Char) /\ Append(g.value, c) \in Seq(Char)
    BY <1>2, <2>1
  <2> QED
    BY <2>2, Zenon DEF Header
<1> DEFINE hn == [h EXCEPT ![n].name = Append(@, tolower(c))]
           hv == [h EXCEPT ![n].value = Append(@, c)]
<1>4. hn \in Seq(Header) /\ hv \in Seq(Header)
  <2>1. CASE n = 0
    <3>1. h = <<>>
      BY <1>1, <2>1
    <3>2. \A x : [<<>> EXCEPT ![0] = x] = <<>>
      OBVIOUS
    <3>3. hn = <<>>
      BY <2>1, <3>1
    <3>4. hv = <<>>
      BY <2>1, <3>1
    <3>5. <<>> \in Seq(Header)
      OBVIOUS
    <3> QED
      BY <3>3, <3>4, <3>5, Zenon
  <2>2. CASE n # 0
    <3>1. n \in 1 .. Len(h) /\ h[n] \in Header
      BY <1>1, <2>2
    <3>2. hn = [h EXCEPT ![n] = [h[n] EXCEPT !.name = Append(@, tolower(c))]]
      BY Zenon
    <3>3. hv = [h EXCEPT ![n] = [h[n] EXCEPT !.value = Append(@, c)]]
      BY Zenon
    <3>4. \A g \in Header : [h EXCEPT ![n] = g] \in Seq(Header)
      BY <1>1, <3>1
    <3> QED
      BY <1>3, <3>1, <3>2, <3>3, <3>4, Zenon
  <2> QED
    BY <2>1, <2>2, Zenon
<1>5. PushName(p, c) = [p EXCEPT !.headers = hn] /\ PushValue(p, c) = [p EXCEPT !.headers = hv]
  BY Zenon DEF PushName, PushValue, Parsers
<1> HIDE DEF h, n, hn, hv
<1> QED
  BY <1>4, <1>5, Zenon DEF Parsers, Same

(***************************************************************************)
(* The value of a header, or none.                                         *)
(***************************************************************************)
LEMMA GetHeaderType ==
  ASSUME NEW p \in Parsers, NEW name
  PROVE  get_header(p, name) \in Seq(Char)
<1> DEFINE h == p.headers
           A == {i \in DOMAIN h : h[i].name = name}
<1>1. h \in Seq(Header)
  BY Zenon DEF Parsers
<1>2. CASE A = {}
  BY <1>2 DEF get_header
<1>3. CASE A # {}
  <2>1. A \in SUBSET Nat /\ A \subseteq DOMAIN h
    BY <1>1
  <2>2. get_header(p, name) = h[Min(A)].value
    BY <1>3, Zenon DEF get_header
  <2> HIDE DEF A, h
  <2>3. Min(A) \in DOMAIN h
    BY <1>3, <2>1, MinFacts, Zenon
  <2>4. h[Min(A)] \in Header
    BY <1>1, <2>3
  <2> QED
    BY <2>2, <2>4, Zenon DEF Header
<1> QED
  BY <1>2, <1>3, Zenon

------------------------------------------------------------------------------
(* What a byte does *)

(***************************************************************************)
(* The states between the words of the request line and the end of a line. *)
(***************************************************************************)
Middle ==
  {"http_version_h", "http_version_t_1", "http_version_t_2", "http_version_p",
   "http_version_slash", "http_version_major_start", "http_version_major",
   "http_version_minor_start", "http_version_minor", "header_name",
   "space_before_header_value", "header_lws", "header_value"}

AtLineEnd == {"expecting_newline_1", "expecting_newline_2"}

Clen(p) == atoi[get_header(p, ContentLength)]

Moves(p, c, q) ==
  \/ q.result = "false"
  \/ /\ q.result = "indeterminate"
     /\ \/ /\ p.state_ \in {"method_start", "method"} /\ q.state_ = "method" /\ c # LF
           /\ q.method = Append(p.method, c) /\ q.uri = p.uri /\ q.content = p.content
        \/ /\ p.state_ = "method" /\ q.state_ = "uri" /\ c = SP /\ Same(p, q)
        \/ /\ p.state_ = "uri" /\ q.state_ = "uri" /\ c # LF
           /\ q.uri = Append(p.uri, c) /\ q.method = p.method /\ q.content = p.content
        \/ /\ p.state_ = "uri" /\ q.state_ \in Middle /\ c = SP /\ Same(p, q)
        \/ /\ p.state_ \in Middle /\ q.state_ \in Middle /\ c # LF /\ Same(p, q)
        \/ /\ p.state_ \in Middle /\ q.state_ \in AtLineEnd /\ c = CR /\ Same(p, q)
        \/ /\ p.state_ \in AtLineEnd /\ q.state_ = "header_line_start" /\ c = LF /\ Same(p, q)
        \/ /\ p.state_ = "header_line_start" /\ q.state_ \in Middle /\ c # LF /\ Same(p, q)
        \/ /\ p.state_ = "header_line_start" /\ q.state_ = "expecting_newline_3"
           /\ c = CR /\ Same(p, q)
        \/ /\ p.state_ = "expecting_newline_3" /\ q.state_ = "body" /\ c = LF /\ Same(p, q)
           /\ q.headers = p.headers /\ Clen(p) \in 1 .. MaxContent /\ q.body_bytes_ = Clen(p)
        \/ /\ p.state_ = "body" /\ q.state_ = "body"
           /\ q.content = Append(p.content, c) /\ q.method = p.method /\ q.uri = p.uri
           /\ q.headers = p.headers /\ q.body_bytes_ = p.body_bytes_ - 1 /\ q.body_bytes_ # 0
  \/ /\ q.result = "true" /\ q.headers = p.headers
     /\ \/ p.state_ = "expecting_newline_3" /\ c = LF /\ Same(p, q) /\ Clen(p) <= 0
        \/ /\ p.state_ = "body"
           /\ q.content = Append(p.content, c) /\ q.method = p.method /\ q.uri = p.uri
           /\ p.body_bytes_ - 1 = 0

(***************************************************************************)
(* The states that wait for one character.                                 *)
(***************************************************************************)
LEMMA LiteralMoves ==
  ASSUME NEW p \in Parsers, NEW c \in Char, p.result = "indeterminate", p.state_ \in DOMAIN Literal
  PROVE  /\ ConsumeLiteral(p, c) \in Parsers
         /\ Moves(p, c, ConsumeLiteral(p, c))
<1> DEFINE st == p.state_
           q == ConsumeLiteral(p, c)
<1>1. DOMAIN Literal = {"http_version_h", "http_version_t_1", "http_version_t_2", "http_version_p",
                        "http_version_slash", "expecting_newline_1", "space_before_header_value",
                        "expecting_newline_2"}
  BY Zenon DEF Literal
<1>2. /\ Literal["http_version_h"] = <<"H", "http_version_t_1">>
      /\ Literal["http_version_t_1"] = <<"T", "http_version_t_2">>
      /\ Literal["http_version_t_2"] = <<"T", "http_version_p">>
      /\ Literal["http_version_p"] = <<"P", "http_version_slash">>
      /\ Literal["http_version_slash"] = <<"/", "http_version_major_start">>
      /\ Literal["expecting_newline_1"] = <<LF, "header_line_start">>
      /\ Literal["space_before_header_value"] = <<SP, "header_value">>
      /\ Literal["expecting_newline_2"] = <<LF, "header_line_start">>
  BY Zenon DEF Literal
<1> DEFINE x == Literal[st][1]
           y == Literal[st][2]
<1>3. \/ st \in Middle /\ x # LF /\ y \in Middle
      \/ st \in AtLineEnd /\ x = LF /\ y = "header_line_start"
  <2>1. CASE st \in {"http_version_h", "http_version_t_1", "http_version_t_2", "http_version_p",
                     "http_version_slash", "space_before_header_value"}
    <3>1. x \in {"H", "T", "P", "/", SP}
      BY <1>2, <2>1
    <3>2. y \in {"http_version_t_1", "http_version_t_2", "http_version_p", "http_version_slash",
                 "http_version_major_start", "header_value"}
      BY <1>2, <2>1
    <3> HIDE DEF x, y, st
    <3> QED
      BY <2>1, <3>1, <3>2, Zenon DEF Middle, LF, SP
  <2>2. CASE st \in AtLineEnd
    BY <1>2, <2>2 DEF AtLineEnd
  <2> QED
    BY <1>1, <2>1, <2>2, Zenon DEF AtLineEnd
<1>4. q = IF c = x THEN Goto(p, y) ELSE Reject(p)
  BY Zenon DEF ConsumeLiteral
<1> HIDE DEF st, x, y, q
<1>5. y \in States
  BY <1>3, Zenon DEF Middle, States
<1>6. CASE c = x
  <2>1. q \in Parsers /\ q.state_ = y /\ q.result = "indeterminate" /\ Same(p, q)
    BY <1>4, <1>5, <1>6, GotoFacts, Zenon
  <2> QED
    BY <1>3, <1>6, <2>1, Zenon DEF Moves, st, q
<1>7. CASE c # x
  BY <1>4, <1>7, DecideFacts, Zenon DEF Moves, q
<1> QED
  BY <1>6, <1>7, Zenon

(***************************************************************************)
(* The request line.                                                       *)
(***************************************************************************)
LEMMA LineMoves ==
  ASSUME NEW p \in Parsers, NEW c \in Char, p.result = "indeterminate"
  PROVE  /\ p.state_ \in {"method_start", "method"} =>
              ConsumeMethod(p, c) \in Parsers /\ Moves(p, c, ConsumeMethod(p, c))
         /\ p.state_ = "uri" => ConsumeUri(p, c) \in Parsers /\ Moves(p, c, ConsumeUri(p, c))
         /\ p.state_ \in {"http_version_major_start", "http_version_major",
                          "http_version_minor_start", "http_version_minor"} =>
              ConsumeVersion(p, c) \in Parsers /\ Moves(p, c, ConsumeVersion(p, c))
<1>1. IsToken(c) => c # LF
  BY Zenon DEF IsToken, is_ctl
<1>2. Reject(p) \in Parsers /\ Moves(p, c, Reject(p))
  BY DecideFacts, Zenon DEF Moves
<1>3. {"method", "uri"} \cup Middle \cup AtLineEnd \subseteq States
  BY Zenon DEF Middle, AtLineEnd, States
<1>4. ASSUME p.state_ \in {"method_start", "method"}
      PROVE  ConsumeMethod(p, c) \in Parsers /\ Moves(p, c, ConsumeMethod(p, c))
  <2>1. CASE p.state_ = "method" /\ c = SP
    <3>1. ConsumeMethod(p, c) = Goto(p, "uri")
      BY <2>1, Zenon DEF ConsumeMethod, IsToken, is_tspecial
    <3> QED
      BY <1>3, <2>1, <3>1, GotoFacts DEF Moves
  <2>2. CASE ~ (p.state_ = "method" /\ c = SP) /\ IsToken(c)
    <3> DEFINE g == Goto(p, "method")
               q == [g EXCEPT !.method = Append(@, c)]
    <3>1. ConsumeMethod(p, c) = q
      BY <2>2, Zenon DEF ConsumeMethod
    <3>2. /\ g \in Parsers /\ g.state_ = "method" /\ g.result = "indeterminate"
          /\ g.method = p.method /\ g.uri = p.uri /\ g.content = p.content
      BY <1>3, GotoFacts, Zenon DEF Same
    <3> HIDE DEF g
    <3>3. /\ q \in Parsers /\ q.state_ = "method" /\ q.result = "indeterminate"
          /\ q.method = Append(p.method, c) /\ q.uri = p.uri /\ q.content = p.content
      <4>1. Append(g.method, c) \in Seq(Char)
        BY <3>2 DEF Parsers
      <4> QED
        BY <3>2, <4>1, Zenon DEF Parsers
    <3> HIDE DEF q
    <3> QED
      BY <1>1, <1>4, <2>2, <3>1, <3>3, Zenon DEF Moves
  <2>3. CASE ~ (p.state_ = "method" /\ c = SP) /\ ~ IsToken(c)
    <3>1. ConsumeMethod(p, c) = Reject(p)
      BY <2>3, Zenon DEF ConsumeMethod
    <3> QED
      BY <1>2, <3>1, Zenon
  <2> QED
    BY <2>1, <2>2, <2>3, Zenon
<1>5. ASSUME p.state_ = "uri"
      PROVE  ConsumeUri(p, c) \in Parsers /\ Moves(p, c, ConsumeUri(p, c))
  <2>1. CASE c = SP
    <3>1. ConsumeUri(p, c) = Goto(p, "http_version_h")
      BY <2>1, Zenon DEF ConsumeUri, is_ctl, SP, HT, CR, LF
    <3>2. "http_version_h" \in Middle
      BY Zenon DEF Middle
    <3> QED
      BY <1>3, <1>5, <2>1, <3>1, <3>2, GotoFacts DEF Moves
  <2>2. CASE c # SP /\ is_ctl(c)
    <3>1. ConsumeUri(p, c) = Reject(p)
      BY <2>2, Zenon DEF ConsumeUri
    <3> QED
      BY <1>2, <3>1
  <2>3. CASE c # SP /\ ~ is_ctl(c)
    <3> DEFINE q == [p EXCEPT !.uri = Append(@, c)]
    <3>1. ConsumeUri(p, c) = q /\ c # LF
      BY <2>3, Zenon DEF ConsumeUri, is_ctl
    <3>2. /\ q \in Parsers /\ q.state_ = "uri" /\ q.result = "indeterminate"
          /\ q.uri = Append(p.uri, c) /\ q.method = p.method /\ q.content = p.content
      <4>1. Append(p.uri, c) \in Seq(Char)
        BY DEF Parsers
      <4> QED
        BY <1>5, <4>1, Zenon DEF Parsers
    <3> HIDE DEF q
    <3> QED
      BY <1>5, <3>1, <3>2, Zenon DEF Moves
  <2> QED
    BY <2>1, <2>2, <2>3, Zenon
<1>6. ASSUME p.state_ \in {"http_version_major_start", "http_version_major",
                           "http_version_minor_start", "http_version_minor"}
      PROVE  ConsumeVersion(p, c) \in Parsers /\ Moves(p, c, ConsumeVersion(p, c))
  <2>1. p.state_ \in Middle
    BY <1>6, Zenon DEF Middle
  <2>2. ASSUME NEW y \in Middle, c # LF, ConsumeVersion(p, c) = Goto(p, y)
        PROVE  ConsumeVersion(p, c) \in Parsers /\ Moves(p, c, ConsumeVersion(p, c))
    BY <1>3, <2>1, <2>2, GotoFacts DEF Moves
  <2>3. is_digit(c) => c # LF /\ c # CR /\ c # "."
    BY DEF is_digit, Numerals, LF, CR
  <2>4. CASE is_digit(c)
    <3>1. \E y \in {"http_version_major", "http_version_minor"} : ConsumeVersion(p, c) = Goto(p, y)
      BY <2>3, <2>4, Zenon DEF ConsumeVersion
    <3>2. {"http_version_major", "http_version_minor"} \subseteq Middle
      BY Zenon DEF Middle
    <3> QED
      BY <2>2, <2>3, <2>4, <3>1, <3>2, Zenon
  <2>5. CASE ~ is_digit(c) /\ p.state_ = "http_version_major" /\ c = "."
    <3>1. ConsumeVersion(p, c) = Goto(p, "http_version_minor_start")
      BY <2>5, Zenon DEF ConsumeVersion
    <3>2. "http_version_minor_start" \in Middle /\ c # LF
      BY <2>5, Zenon DEF Middle, LF
    <3> QED
      BY <2>2, <3>1, <3>2, Zenon
  <2>6. CASE ~ is_digit(c) /\ p.state_ = "http_version_minor" /\ c = CR
    <3>1. ConsumeVersion(p, c) = Goto(p, "expecting_newline_1")
      BY <2>6, Zenon DEF ConsumeVersion
    <3>2. "expecting_newline_1" \in AtLineEnd
      BY Zenon DEF AtLineEnd
    <3> QED
      BY <1>3, <2>1, <2>6, <3>1, <3>2, GotoFacts DEF Moves
  <2>7. CASE /\ ~ is_digit(c) /\ ~ (p.state_ = "http_version_major" /\ c = ".")
             /\ ~ (p.state_ = "http_version_minor" /\ c = CR)
    <3>1. ConsumeVersion(p, c) = Reject(p)
      BY <2>7, Zenon DEF ConsumeVersion
    <3> QED
      BY <1>2, <3>1
  <2> QED
    BY <2>4, <2>5, <2>6, <2>7, Zenon
<1> QED
  BY <1>4, <1>5, <1>6, Zenon

(***************************************************************************)
(* The header lines.                                                       *)
(***************************************************************************)
LEMMA HeaderMoves ==
  ASSUME NEW p \in Parsers, NEW c \in Char, p.result = "indeterminate"
  PROVE  /\ p.state_ = "header_line_start" =>
              ConsumeHeaderStart(p, c) \in Parsers /\ Moves(p, c, ConsumeHeaderStart(p, c))
         /\ p.state_ = "header_name" =>
              ConsumeHeaderName(p, c) \in Parsers /\ Moves(p, c, ConsumeHeaderName(p, c))
         /\ p.state_ \in {"header_lws", "header_value"} =>
              ConsumeHeaderValue(p, c) \in Parsers /\ Moves(p, c, ConsumeHeaderValue(p, c))
<1>1. IsToken(c) => c # LF /\ c # CR /\ c # SP /\ c # HT /\ c # ":"
  BY Zenon DEF IsToken, is_ctl, is_tspecial
<1>2. Reject(p) \in Parsers /\ Moves(p, c, Reject(p))
  BY DecideFacts DEF Moves
<1>3. /\ {"expecting_newline_3"} \cup Middle \cup AtLineEnd \subseteq States
      /\ {"header_name", "header_lws", "header_value", "space_before_header_value"} \subseteq Middle
      /\ "expecting_newline_2" \in AtLineEnd
  BY Zenon DEF Middle, AtLineEnd, States
<1>4. SP # LF /\ HT # LF /\ CR # SP /\ CR # HT /\ CR # LF /\ ":" # LF
  BY Zenon DEF SP, HT, CR, LF
<1>5. ASSUME NEW q \in Parsers, p.state_ \in Middle \cup {"header_line_start"}, q.state_ \in Middle,
             q.result = "indeterminate", c # LF, Same(p, q)
      PROVE  Moves(p, c, q)
  BY <1>5, Zenon DEF Moves
<1>6. ASSUME NEW st \in {"expecting_newline_3", "header_lws", "space_before_header_value",
                          "expecting_newline_2"}
      PROVE  /\ Goto(p, st) \in Parsers /\ Goto(p, st).state_ = st
             /\ Goto(p, st).result = "indeterminate" /\ Same(p, Goto(p, st))
             /\ Goto(p, st).headers = p.headers
  BY <1>3, GotoFacts, Zenon
<1>7. ASSUME p.state_ = "header_line_start"
      PROVE  ConsumeHeaderStart(p, c) \in Parsers /\ Moves(p, c, ConsumeHeaderStart(p, c))
  <2>1. CASE c = CR
    <3>1. ConsumeHeaderStart(p, c) = Goto(p, "expecting_newline_3")
      BY <1>1, <1>4, <2>1, Zenon DEF ConsumeHeaderStart
    <3> QED
      BY <1>7, <2>1, <3>1, <1>6, Zenon DEF Moves
  <2>2. CASE p.headers # <<>> /\ c \in {SP, HT}
    <3>1. ConsumeHeaderStart(p, c) = Goto(p, "header_lws")
      BY <1>1, <1>4, <2>2, Zenon DEF ConsumeHeaderStart
    <3> QED
      BY <1>3, <1>4, <1>5, <1>7, <2>2, <3>1, <1>6, Zenon
  <2>3. CASE IsToken(c)
    <3> DEFINE g == Goto(p, "header_name")
               h == [name |-> <<tolower(c)>>, value |-> <<>>]
               q == [g EXCEPT !.headers = Append(@, h)]
    <3>1. ConsumeHeaderStart(p, c) = q
      BY <1>1, <2>3, Zenon DEF ConsumeHeaderStart
    <3>2. g \in Parsers /\ g.state_ = "header_name" /\ g.result = "indeterminate" /\ Same(p, g)
      BY <1>3, GotoFacts, Zenon
    <3>3. h \in Header
      <4>1. tolower(c) \in Char
        BY LowerType, Zenon
      <4>2. <<tolower(c)>> \in Seq(Char) /\ <<>> \in Seq(Char)
        BY <4>1
      <4> QED
        BY <4>2, Zenon DEF Header
    <3> HIDE DEF g, h
    <3>4. Append(g.headers, h) \in Seq(Header)
      BY <3>2, <3>3 DEF Parsers
    <3>5. q \in Parsers /\ q.state_ = "header_name" /\ q.result = "indeterminate" /\ Same(p, q)
      BY <3>2, <3>4, Zenon DEF Parsers, Same
    <3> HIDE DEF q
    <3> QED
      BY <1>1, <1>3, <1>5, <1>7, <2>3, <3>1, <3>5, Zenon
  <2>4. CASE c # CR /\ ~ (p.headers # <<>> /\ c \in {SP, HT}) /\ ~ IsToken(c)
    <3>1. ConsumeHeaderStart(p, c) = Reject(p)
      BY <2>4, Zenon DEF ConsumeHeaderStart
    <3> QED
      BY <1>2, <3>1
  <2> QED
    BY <2>1, <2>2, <2>3, <2>4, Zenon
<1>8. ASSUME p.state_ = "header_name"
      PROVE  ConsumeHeaderName(p, c) \in Parsers /\ Moves(p, c, ConsumeHeaderName(p, c))
  <2>1. CASE c = ":"
    <3>1. ConsumeHeaderName(p, c) = Goto(p, "space_before_header_value")
      BY <1>1, <2>1, Zenon DEF ConsumeHeaderName
    <3> QED
      BY <1>3, <1>4, <1>5, <1>8, <2>1, <3>1, <1>6, Zenon
  <2>2. CASE IsToken(c)
    <3>1. ConsumeHeaderName(p, c) = PushName(p, c)
      BY <1>1, <2>2, Zenon DEF ConsumeHeaderName
    <3> QED
      BY <1>1, <1>3, <1>5, <1>8, <2>2, <3>1, PushFacts
  <2>3. CASE c # ":" /\ ~ IsToken(c)
    <3>1. ConsumeHeaderName(p, c) = Reject(p)
      BY <2>3, Zenon DEF ConsumeHeaderName
    <3> QED
      BY <1>2, <3>1
  <2> QED
    BY <2>1, <2>2, <2>3, Zenon
<1>9. ASSUME p.state_ \in {"header_lws", "header_value"}
      PROVE  ConsumeHeaderValue(p, c) \in Parsers /\ Moves(p, c, ConsumeHeaderValue(p, c))
  <2>0. p.state_ \in Middle
    BY <1>3, <1>9, Zenon
  <2>1. CASE p.state_ = "header_lws" /\ c \in {SP, HT}
    <3>1. ConsumeHeaderValue(p, c) = p
      BY <2>1, Zenon DEF ConsumeHeaderValue
    <3>2. Same(p, p)
      BY Zenon DEF Same
    <3> QED
      BY <1>4, <1>5, <2>0, <2>1, <3>1, <3>2, Zenon
  <2>2. CASE ~ (p.state_ = "header_lws" /\ c \in {SP, HT}) /\ c = CR
    <3>1. ConsumeHeaderValue(p, c) = Goto(p, "expecting_newline_2")
      BY <2>2, Zenon DEF ConsumeHeaderValue
    <3> QED
      BY <1>3, <2>0, <2>2, <3>1, <1>6, Zenon DEF Moves
  <2>3. CASE ~ (p.state_ = "header_lws" /\ c \in {SP, HT}) /\ c # CR /\ is_ctl(c)
    <3>1. ConsumeHeaderValue(p, c) = Reject(p)
      BY <2>3, Zenon DEF ConsumeHeaderValue
    <3> QED
      BY <1>2, <3>1
  <2>4. CASE ~ (p.state_ = "header_lws" /\ c \in {SP, HT}) /\ c # CR /\ ~ is_ctl(c)
    <3> DEFINE g == Goto(p, "header_value")
    <3>1. ConsumeHeaderValue(p, c) = PushValue(g, c) /\ c # LF
      BY <2>4, Zenon DEF ConsumeHeaderValue, is_ctl
    <3>2. g \in Parsers /\ g.state_ = "header_value" /\ g.result = "indeterminate" /\ Same(p, g)
      BY <1>3, GotoFacts, Zenon
    <3> HIDE DEF g
    <3>3. /\ PushValue(g, c) \in Parsers /\ PushValue(g, c).state_ = "header_value"
          /\ PushValue(g, c).result = "indeterminate" /\ Same(p, PushValue(g, c))
      BY <3>2, PushFacts, Zenon DEF Same
    <3> QED
      BY <1>3, <1>5, <2>0, <3>1, <3>3, Zenon
  <2> QED
    BY <2>1, <2>2, <2>3, <2>4, Zenon
<1> QED
  BY <1>7, <1>8, <1>9, Zenon

(***************************************************************************)
(* The end of the headers, and the body.                                   *)
(***************************************************************************)
LEMMA BodyMoves ==
  ASSUME NEW p \in Parsers, NEW c \in Char, p.result = "indeterminate"
  PROVE  /\ p.state_ = "expecting_newline_3" =>
              ConsumeEndOfHeaders(p, c) \in Parsers /\ Moves(p, c, ConsumeEndOfHeaders(p, c))
         /\ p.state_ = "body" => ConsumeBody(p, c) \in Parsers /\ Moves(p, c, ConsumeBody(p, c))
<1>1. Reject(p) \in Parsers /\ Moves(p, c, Reject(p))
  BY DecideFacts DEF Moves
<1>2. Clen(p) \in Int /\ MaxContent \in Nat
  BY AtoiType, GetHeaderType, WidthAssumption, Zenon DEF Clen
<1>3. ASSUME p.state_ = "expecting_newline_3"
      PROVE  ConsumeEndOfHeaders(p, c) \in Parsers /\ Moves(p, c, ConsumeEndOfHeaders(p, c))
  <2> DEFINE clen == Clen(p)
  <2>a. ConsumeEndOfHeaders(p, c) =
          CASE c # LF \/ clen > MaxContent -> Reject(p)
            [] c = LF /\ clen \in 1 .. MaxContent -> [Goto(p, "body") EXCEPT !.body_bytes_ = clen]
            [] c = LF /\ clen <= 0 -> Accept(p)
    BY Zenon DEF ConsumeEndOfHeaders, Clen
  <2>b. clen \in Int
    BY <1>2, Zenon
  <2> HIDE DEF clen
  <2>1. CASE c # LF \/ clen > MaxContent
    <3>1. ConsumeEndOfHeaders(p, c) = Reject(p)
      BY <1>2, <2>a, <2>b, <2>1, SMTT(20)
    <3> QED
      BY <1>1, <3>1
  <2>2. CASE c = LF /\ clen \in 1 .. MaxContent
    <3> DEFINE g == Goto(p, "body")
               q == [g EXCEPT !.body_bytes_ = clen]
    <3>1. ConsumeEndOfHeaders(p, c) = q
      BY <1>2, <2>a, <2>b, <2>2
    <3>2. /\ g \in Parsers /\ g.state_ = "body" /\ g.result = "indeterminate"
          /\ g.headers = p.headers /\ Same(p, g)
      BY GotoFacts DEF States
    <3> HIDE DEF g
    <3>3. /\ q \in Parsers /\ q.state_ = "body" /\ q.result = "indeterminate"
          /\ q.headers = p.headers /\ Same(p, q) /\ q.body_bytes_ = clen
      BY <2>b, <3>2, Zenon DEF Parsers, Same
    <3> HIDE DEF q
    <3> QED
      BY <1>3, <2>2, <3>1, <3>3, Zenon DEF Moves, clen
  <2>3. CASE c = LF /\ clen <= 0
    <3>1. ConsumeEndOfHeaders(p, c) = Accept(p)
      BY <1>2, <2>a, <2>b, <2>3
    <3> QED
      BY <1>3, <2>3, <3>1, DecideFacts DEF Moves, clen
  <2> QED
    BY <1>2, <2>b, <2>1, <2>2, <2>3
<1>4. ASSUME p.state_ = "body"
      PROVE  ConsumeBody(p, c) \in Parsers /\ Moves(p, c, ConsumeBody(p, c))
  <2> DEFINE q == [p EXCEPT !.content = Append(@, c), !.body_bytes_ = @ - 1]
  <2>1. Append(p.content, c) \in Seq(Char) /\ p.body_bytes_ - 1 \in Int
    BY DEF Parsers
  <2>2. /\ q \in Parsers /\ q.state_ = "body" /\ q.result = "indeterminate"
        /\ q.content = Append(p.content, c) /\ q.method = p.method /\ q.uri = p.uri
        /\ q.headers = p.headers /\ q.body_bytes_ = p.body_bytes_ - 1
    BY <1>4, <2>1, Zenon DEF Parsers
  <2>3. ConsumeBody(p, c) = IF q.body_bytes_ = 0 THEN Accept(q) ELSE q
    BY Zenon DEF ConsumeBody
  <2> HIDE DEF q
  <2>4. CASE q.body_bytes_ = 0
    <3> DEFINE a == Accept(q)
    <3>1. a \in Parsers /\ a.result = "true" /\ a.headers = q.headers /\ Same(q, a)
      BY <2>2, DecideFacts, Zenon
    <3>2. ConsumeBody(p, c) = a
      BY <2>3, <2>4, Zenon
    <3> HIDE DEF a
    <3> QED
      BY <1>4, <2>2, <2>4, <3>1, <3>2, Zenon DEF Moves, Same
  <2>5. CASE q.body_bytes_ # 0
    BY <1>4, <2>2, <2>3, <2>5, Zenon DEF Moves
  <2> QED
    BY <2>4, <2>5, Zenon
<1> QED
  BY <1>3, <1>4, Zenon

(***************************************************************************)
(* request_parser::consume, byte by byte.                                  *)
(***************************************************************************)
LEMMA ConsumeMoves ==
  ASSUME NEW p \in Parsers, NEW c \in Char, p.result = "indeterminate"
  PROVE  consume(p, c) \in Parsers /\ Moves(p, c, consume(p, c))
<1>1. DOMAIN Literal = {"http_version_h", "http_version_t_1", "http_version_t_2", "http_version_p",
                        "http_version_slash", "expecting_newline_1", "space_before_header_value",
                        "expecting_newline_2"}
  BY Zenon DEF Literal
<1>2. CASE p.state_ \in DOMAIN Literal
  <2>1. consume(p, c) = ConsumeLiteral(p, c)
    BY <1>1, <1>2, Zenon DEF consume
  <2> QED
    BY <1>2, <2>1, LiteralMoves, Zenon
<1>3. CASE p.state_ \in {"method_start", "method"}
  <2>1. consume(p, c) = ConsumeMethod(p, c)
    BY <1>1, <1>3, Zenon DEF consume
  <2> QED
    BY <1>3, <2>1, LineMoves, Zenon
<1>4. CASE p.state_ = "uri"
  <2>1. consume(p, c) = ConsumeUri(p, c)
    BY <1>1, <1>4, Zenon DEF consume
  <2> QED
    BY <1>4, <2>1, LineMoves, Zenon
<1>5. CASE p.state_ \in {"http_version_major_start", "http_version_major",
                         "http_version_minor_start", "http_version_minor"}
  <2>1. consume(p, c) = ConsumeVersion(p, c)
    BY <1>1, <1>5, Zenon DEF consume
  <2> QED
    BY <1>5, <2>1, LineMoves, Zenon
<1>6. CASE p.state_ = "header_line_start"
  <2>1. consume(p, c) = ConsumeHeaderStart(p, c)
    BY <1>1, <1>6, Zenon DEF consume
  <2> QED
    BY <1>6, <2>1, HeaderMoves, Zenon
<1>7. CASE p.state_ = "header_name"
  <2>1. consume(p, c) = ConsumeHeaderName(p, c)
    BY <1>1, <1>7, Zenon DEF consume
  <2> QED
    BY <1>7, <2>1, HeaderMoves, Zenon
<1>8. CASE p.state_ \in {"header_lws", "header_value"}
  <2>1. consume(p, c) = ConsumeHeaderValue(p, c)
    BY <1>1, <1>8, Zenon DEF consume
  <2> QED
    BY <1>8, <2>1, HeaderMoves, Zenon
<1>9. CASE p.state_ = "expecting_newline_3"
  <2>1. consume(p, c) = ConsumeEndOfHeaders(p, c)
    BY <1>1, <1>9, Zenon DEF consume
  <2> QED
    BY <1>9, <2>1, BodyMoves, Zenon
<1>10. CASE p.state_ = "body"
  <2>1. consume(p, c) = ConsumeBody(p, c)
    BY <1>1, <1>10, Zenon DEF consume
  <2> QED
    BY <1>10, <2>1, BodyMoves, Zenon
<1>11. p.state_ \in States
  BY Zenon DEF Parsers
<1> QED
  BY <1>1, <1>2, <1>3, <1>4, <1>5, <1>6, <1>7, <1>8, <1>9, <1>10, <1>11, Zenon DEF States

(***************************************************************************)
(* What consume returns is a parser.                                       *)
(***************************************************************************)
LEMMA ConsumedType ==
  ASSUME NEW p \in Parsers, NEW c \in Char
  PROVE  Consumed(p, c) \in Parsers
BY ConsumeMoves, Zenon DEF Consumed, Parsers

------------------------------------------------------------------------------
(* parse *)

(***************************************************************************)
(* The parsers that parse goes through, one for every byte.                *)
(***************************************************************************)
Run(g, p, s) ==
  /\ g \in [0 .. Len(s) -> Parsers] /\ g[0] = p
  /\ \A i \in 1 .. Len(s) : g[i] = Consumed(g[i - 1], s[i])

(***************************************************************************)
(* parse returns the parser at the end of its run.                         *)
(***************************************************************************)
LEMMA ParseRun ==
  ASSUME NEW p \in Parsers, NEW s \in Seq(Char)
  PROVE  \E g : Run(g, p, s) /\ parse(p, s) = g[Len(s)]
<1> DEFINE L == Len(s)
           step == [i \in 1 .. L |-> [q \in Parsers |-> Consumed(q, s[i])]]
           Body(f, i) == IF i = 0 THEN {p} ELSE {Consumed(q, c) : q \in f[i - 1], c \in {s[i]}}
           Eqn(f) == f = [i \in 0 .. L |-> Body(f, i)]
           chosen == CHOOSE f : Eqn(f)
<1>1. L \in Nat /\ \A i \in 1 .. L : s[i] \in Char
  OBVIOUS
<1>2. step \in [1 .. L -> [Parsers -> Parsers]]
  BY <1>1, ConsumedType, Zenon
<1>3. PICK g \in [0 .. L -> Parsers] : g[0] = p /\ \A i \in 1 .. L : g[i] = step[i][g[i - 1]]
  <2> HIDE DEF L, step
  <2>1. Iterative(L, Parsers, p, step)
    BY <1>1, <1>2, Zenon DEF Iterative
  <2> QED
    BY <2>1, Iteration
<1>4. ASSUME NEW i \in 1 .. L PROVE g[i] = Consumed(g[i - 1], s[i])
  <2>1. i - 1 \in 0 .. L
    BY <1>1
  <2>2. g[i - 1] \in Parsers
    BY <2>1, Zenon
  <2>3. g[i] = step[i][g[i - 1]]
    BY <1>3, Zenon
  <2> QED
    BY <2>2, <2>3, Zenon
<1> DEFINE f == [i \in 0 .. L |-> {g[i]}]
<1>5. ASSUME NEW i \in 0 .. L PROVE f[i] = Body(f, i)
  <2>1. CASE i = 0
    BY <1>3, <2>1
  <2>2. CASE i # 0
    <3>1. i \in 1 .. L /\ i - 1 \in 0 .. L
      BY <1>1, <2>2
    <3>2. f[i - 1] = {g[i - 1]} /\ f[i] = {g[i]}
      BY <3>1, Zenon
    <3>3. Body(f, i) = {Consumed(q, c) : q \in {g[i - 1]}, c \in {s[i]}}
      BY <2>2, <3>2
    <3>4. {Consumed(q, c) : q \in {g[i - 1]}, c \in {s[i]}} = {Consumed(g[i - 1], s[i])}
      OBVIOUS
    <3> QED
      BY <1>4, <3>1, <3>2, <3>3, <3>4
  <2> QED
    BY <2>1, <2>2
<1>6. Eqn(f)
  <2>1. f = [i \in 0 .. L |-> f[i]]
    BY Zenon
  <2> HIDE DEF Body, f
  <2> QED
    BY <1>5, <2>1, Zenon
<1> HIDE DEF f
<1>7. Eqn(chosen)
  <2> HIDE DEF Eqn
  <2> QED
    BY <1>6, Zenon
<1>8. \A i \in 0 .. L : chosen[i] = Body(chosen, i)
  <2> HIDE DEF Body, chosen
  <2> QED
    BY <1>7, Zenon
<1> HIDE DEF chosen
<1>9. \A n \in Nat : n <= L => chosen[n] = {g[n]}
  <2> DEFINE S == {n \in Nat : n <= L => chosen[n] = {g[n]}}
  <2>1. 0 \in S
    BY <1>1, <1>3, <1>8, SMTT(20)
  <2>2. ASSUME NEW n \in S PROVE n + 1 \in S
    <3> SUFFICES ASSUME n + 1 <= L PROVE chosen[n + 1] = {g[n + 1]}
      OBVIOUS
    <3>1. chosen[n] = {g[n]} /\ n + 1 \in 1 .. L /\ n + 1 \in 0 .. L /\ (n + 1) - 1 = n /\ n + 1 # 0
      BY <1>1
    <3>2. chosen[n + 1] = {Consumed(q, c) : q \in chosen[(n + 1) - 1], c \in {s[n + 1]}}
      <4>1. chosen[n + 1] = Body(chosen, n + 1)
        <5> HIDE DEF Body
        <5> QED
          BY <1>8, <3>1, Zenon
      <4> QED
        BY <3>1, <4>1
    <3>3. chosen[n + 1] = {Consumed(q, c) : q \in {g[n]}, c \in {s[n + 1]}}
      BY <3>1, <3>2
    <3>4. {Consumed(q, c) : q \in {g[n]}, c \in {s[n + 1]}} = {Consumed(g[n], s[n + 1])}
      OBVIOUS
    <3>5. g[n + 1] = Consumed(g[n], s[n + 1])
      BY <1>4, <3>1, Zenon
    <3> QED
      BY <3>3, <3>4, <3>5
  <2> HIDE DEF S
  <2>3. S \in SUBSET Nat
    BY Zenon DEF S
  <2>4. \A n \in Nat : n \in S
    BY <2>1, <2>2, <2>3, Induction, Zenon
  <2> QED
    BY <2>4, Zenon DEF S
<1>10. parse(p, s) = CHOOSE q \in chosen[L] : TRUE
  BY DEF parse, chosen
<1>11. parse(p, s) = g[L]
  BY <1>1, <1>9, <1>10
<1>12. Run(g, p, s)
  BY <1>3, <1>4, Zenon DEF Run
<1> QED
  BY <1>11, <1>12, Zenon

(***************************************************************************)
(* Two runs that meet stay together while they consume the same bytes.     *)
(***************************************************************************)
Together(L, o, s, g, k) ==
  /\ L \in Nat /\ o \in Nat /\ k[o] = g[0]
  /\ \A i \in 1 .. L : g[i] = Consumed(g[i - 1], s[i])
  /\ \A i \in 1 .. L : k[o + i] = Consumed(k[o + i - 1], s[i])

LEMMA RunsAgree ==
  ASSUME NEW L, NEW o, NEW s, NEW g, NEW k, Together(L, o, s, g, k)
  PROVE  k[o + L] = g[L]
<1> USE DEF Together
<1> DEFINE S == {n \in Nat : n <= L => k[o + n] = g[n]}
<1>1. 0 \in S
  OBVIOUS
<1>2. ASSUME NEW n \in S PROVE n + 1 \in S
  <2> SUFFICES ASSUME n + 1 <= L PROVE k[o + (n + 1)] = g[n + 1]
    OBVIOUS
  <2>1. n + 1 \in 1 .. L /\ (n + 1) - 1 = n /\ o + (n + 1) - 1 = o + n /\ k[o + n] = g[n]
    OBVIOUS
  <2>2. g[n + 1] = Consumed(g[(n + 1) - 1], s[n + 1])
    BY <2>1, Zenon
  <2>3. k[o + (n + 1)] = Consumed(k[o + (n + 1) - 1], s[n + 1])
    BY <2>1, Zenon
  <2> QED
    BY <2>1, <2>2, <2>3, Zenon
<1> HIDE DEF S
<1>3. S \in SUBSET Nat
  BY Zenon DEF S
<1>4. L \in S
  BY <1>1, <1>2, <1>3, Induction, Zenon
<1> QED
  BY <1>4 DEF S

(***************************************************************************)
(* Bytes that are parsed in two calls might as well be parsed in one.      *)
(***************************************************************************)
LEMMA ParseConcat ==
  ASSUME NEW p \in Parsers, NEW a \in Seq(Char), NEW b \in Seq(Char)
  PROVE  parse(p, a) \in Parsers /\ parse(parse(p, a), b) = parse(p, a \o b)
<1> DEFINE s == a \o b
<1>1. /\ s \in Seq(Char) /\ Len(s) = Len(a) + Len(b) /\ Len(a) \in Nat /\ Len(b) \in Nat
      /\ \A i \in 1 .. Len(a) : s[i] = a[i]
      /\ \A i \in 1 .. Len(b) : s[Len(a) + i] = b[i]
  BY ConcatFacts
<1> HIDE DEF s
<1>2. PICK g : Run(g, p, a) /\ parse(p, a) = g[Len(a)]
  BY ParseRun, Zenon
<1>3. parse(p, a) \in Parsers
  BY <1>1, <1>2 DEF Run
<1>4. PICK h : Run(h, parse(p, a), b) /\ parse(parse(p, a), b) = h[Len(b)]
  BY <1>3, ParseRun, Zenon
<1>5. PICK k : Run(k, p, s) /\ parse(p, s) = k[Len(s)]
  BY <1>1, ParseRun, Zenon
<1>6. k[0 + Len(a)] = g[Len(a)]
  <2>1. 0 \in Nat /\ k[0] = g[0]
    BY <1>2, <1>5, Zenon DEF Run
  <2>2. \A i \in 1 .. Len(a) : g[i] = Consumed(g[i - 1], a[i])
    BY <1>2, Zenon DEF Run
  <2>3. ASSUME NEW i \in 1 .. Len(a) PROVE k[0 + i] = Consumed(k[0 + i - 1], a[i])
    <3>1. i \in 1 .. Len(s) /\ 0 + i = i
      BY <1>1
    <3> QED
      BY <1>1, <1>5, <3>1 DEF Run
  <2>4. Together(Len(a), 0, a, g, k)
    BY <1>1, <2>1, <2>2, <2>3, Zenon DEF Together
  <2> QED
    BY <2>4, RunsAgree, Zenon
<1>7. k[Len(a) + Len(b)] = h[Len(b)]
  <2>1. k[Len(a)] = h[0]
    BY <1>1, <1>2, <1>4, <1>6 DEF Run
  <2>2. \A i \in 1 .. Len(b) : h[i] = Consumed(h[i - 1], b[i])
    BY <1>4, Zenon DEF Run
  <2>3. ASSUME NEW i \in 1 .. Len(b) PROVE k[Len(a) + i] = Consumed(k[Len(a) + i - 1], b[i])
    <3>1. Len(a) + i \in 1 .. Len(s)
      BY <1>1
    <3> QED
      BY <1>1, <1>5, <3>1 DEF Run
  <2>4. Together(Len(b), Len(a), b, h, k)
    BY <1>1, <2>1, <2>2, <2>3, Zenon DEF Together
  <2> QED
    BY <2>4, RunsAgree, Zenon
<1> QED
  BY <1>1, <1>3, <1>4, <1>5, <1>7, Zenon DEF s

------------------------------------------------------------------------------
(* What the parser has read *)

(***************************************************************************)
(* A part of a sequence that grows by an element, and one that is empty.   *)
(***************************************************************************)
LEMMA PartGrows ==
  ASSUME NEW S, NEW s \in Seq(S), NEW n \in Nat, n + 1 <= Len(s), NEW k \in 1 .. n + 1
  PROVE  /\ SubSeq(s, k, n + 1) = Append(SubSeq(s, k, n), s[n + 1])
         /\ SubSeq(s, k, k - 1) = <<>>
         /\ Len(SubSeq(s, k, n)) = n - k + 1
<1> DEFINE a == SubSeq(s, k, n)
           b == SubSeq(s, k, n + 1)
           z == Append(a, s[n + 1])
<1>1. a \in Seq(S) /\ Len(a) = n - k + 1 /\ \A i \in 1 .. Len(a) : a[i] = s[k + i - 1]
  OBVIOUS
<1>2. b \in Seq(S) /\ Len(b) = n - k + 2 /\ \A i \in 1 .. Len(b) : b[i] = s[k + i - 1]
  OBVIOUS
<1>3. s[n + 1] \in S
  OBVIOUS
<1> HIDE DEF a, b
<1>4. /\ z \in Seq(S) /\ Len(z) = Len(a) + 1 /\ z[Len(a) + 1] = s[n + 1]
      /\ \A i \in 1 .. Len(a) : z[i] = a[i]
  BY <1>1, <1>3, AppendFacts
<1> HIDE DEF z
<1>5. ASSUME NEW i \in 1 .. Len(b) PROVE b[i] = z[i]
  <2>1. CASE i \in 1 .. Len(a)
    BY <1>1, <1>2, <1>4, <2>1, Zenon
  <2>2. CASE i \notin 1 .. Len(a)
    <3>1. i = Len(a) + 1 /\ k + i - 1 = n + 1
      BY <1>1, <1>2, <2>2
    <3> QED
      BY <1>2, <1>4, <3>1, Zenon
  <2> QED
    BY <2>1, <2>2, Zenon
<1>6. Len(b) = Len(z)
  BY <1>1, <1>2, <1>4
<1>7. b = z
  BY <1>2, <1>4, <1>5, <1>6, SameSequence, Zenon
<1>8. SubSeq(s, k, k - 1) = <<>>
  OBVIOUS
<1> QED
  BY <1>1, <1>7, <1>8, Zenon DEF a, b, z

(***************************************************************************)
(* The first two words of the stream are those of the request, and no      *)
(* empty line is in the first n bytes.                                     *)
(***************************************************************************)
Words(p, s, n) ==
  \E i, j \in 1 .. n : /\ i < j /\ s[i] = SP /\ s[j] = SP
                       /\ p.method = SubSeq(s, 1, i - 1) /\ p.uri = SubSeq(s, i + 1, j - 1)

NoHead(s, n) == \A i \in 4 .. n : ~ (EndsLineAt(s, i) /\ EndsLineAt(s, i - 2))

(***************************************************************************)
(* A request that is complete, as HandledAsSent has it.                    *)
(***************************************************************************)
Complete(p, s) ==
  /\ Len(p.content) = (IF Clen(p) > 0 THEN Clen(p) ELSE 0) /\ Clen(p) <= MaxContent
  /\ \E h \in DOMAIN s : HeadEndsAt(s, h) /\ h + Len(p.content) <= Len(s)
                         /\ p.content = SubSeq(s, h + 1, h + Len(p.content))
  /\ Words(p, s, Len(s))

(***************************************************************************)
(* What a parser that has consumed n bytes of s, and has not decided,      *)
(* knows of them in each of its states.                                    *)
(***************************************************************************)
InHead == Middle \cup AtLineEnd \cup {"header_line_start", "expecting_newline_3"}

AtStart(p, s, n) ==
  p.state_ = "method_start" /\ n = 0 /\ p.method = <<>> /\ p.uri = <<>> /\ p.content = <<>>

AtMethod(p, s, n) ==
  /\ p.state_ = "method" /\ n > 0 /\ NoHead(s, n) /\ s[n] # LF
  /\ p.method = SubSeq(s, 1, n) /\ p.uri = <<>> /\ p.content = <<>>

AtUri(p, s, n) ==
  /\ p.state_ = "uri" /\ n > 1 /\ NoHead(s, n) /\ s[n] # LF /\ p.content = <<>>
  /\ \E i \in 1 .. n : s[i] = SP /\ p.method = SubSeq(s, 1, i - 1) /\ p.uri = SubSeq(s, i + 1, n)

AtHead(p, s, n) ==
  /\ p.state_ \in InHead /\ n > 2 /\ NoHead(s, n) /\ Words(p, s, n) /\ p.content = <<>>
  /\ p.state_ \in Middle => s[n] # LF
  /\ p.state_ \in AtLineEnd => s[n] = CR /\ s[n - 1] # LF
  /\ p.state_ = "header_line_start" => EndsLineAt(s, n)
  /\ p.state_ = "expecting_newline_3" => s[n] = CR /\ EndsLineAt(s, n - 1)

AtBody(p, s, n) ==
  /\ p.state_ = "body" /\ Words(p, s, n)
  /\ Clen(p) \in 1 .. MaxContent /\ p.body_bytes_ \in Nat \ {0}
  /\ \E h \in 4 .. n : /\ HeadEndsAt(s, h) /\ p.content = SubSeq(s, h + 1, n)
                       /\ (n - h) + p.body_bytes_ = Clen(p)

Within(p, s, n) ==
  AtStart(p, s, n) \/ AtMethod(p, s, n) \/ AtUri(p, s, n) \/ AtHead(p, s, n) \/ AtBody(p, s, n)

(***************************************************************************)
(* The state of a parser tells which part of the request it is in.         *)
(***************************************************************************)
LEMMA WithinStates ==
  ASSUME NEW p, NEW s, NEW n, Within(p, s, n)
  PROVE  /\ p.state_ = "method_start" => AtStart(p, s, n)
         /\ p.state_ = "method" => AtMethod(p, s, n)
         /\ p.state_ = "uri" => AtUri(p, s, n)
         /\ p.state_ \in InHead => AtHead(p, s, n)
         /\ p.state_ = "body" => AtBody(p, s, n)
         /\ p.state_ \in {"method_start", "method", "uri"} \cup InHead \cup {"body"}
<1>1. {"method_start", "method", "uri", "body"} \cap InHead = {}
  BY Zenon DEF InHead, Middle, AtLineEnd
<1>2. /\ AtStart(p, s, n) => p.state_ = "method_start"
      /\ AtMethod(p, s, n) => p.state_ = "method"
      /\ AtUri(p, s, n) => p.state_ = "uri"
      /\ AtHead(p, s, n) => p.state_ \in InHead
      /\ AtBody(p, s, n) => p.state_ = "body"
  BY Zenon DEF AtStart, AtMethod, AtUri, AtHead, AtBody
<1> QED
  BY <1>1, <1>2, Zenon DEF Within

(***************************************************************************)
(* Where a parser is after the first n bytes of s; a complete request does *)
(* not change with the bytes that follow.                                  *)
(***************************************************************************)
Reads(p, s, n) ==
  /\ p.result = "indeterminate" => Within(p, s, n)
  /\ p.result = "true" => Complete(p, s)

(***************************************************************************)
(* A byte that does not end an empty line does not end the head.           *)
(***************************************************************************)
LEMMA NoHeadGrows ==
  ASSUME NEW s, NEW n \in Nat, NoHead(s, n), s[n + 1] # LF \/ s[n - 1] # LF
  PROVE  NoHead(s, n + 1)
<1> SUFFICES ASSUME NEW i \in 4 .. n + 1
             PROVE  ~ (EndsLineAt(s, i) /\ EndsLineAt(s, i - 2))
  BY Zenon DEF NoHead
<1>1. CASE i \in 4 .. n
  BY <1>1, Zenon DEF NoHead
<1>2. CASE i \notin 4 .. n
  <2>1. i = n + 1 /\ i - 2 = n - 1
    BY <1>2
  <2> QED
    BY <2>1, Zenon DEF EndsLineAt
<1> QED
  BY <1>1, <1>2, Zenon

(***************************************************************************)
(* The first two words stay the first two words of a longer stream.        *)
(***************************************************************************)
LEMMA WordsKept ==
  ASSUME NEW p, NEW q, NEW s, NEW n \in Nat, NEW m \in Nat, n <= m, Words(p, s, n),
         q.method = p.method, q.uri = p.uri
  PROVE  Words(q, s, m)
<1>1. 1 .. n \subseteq 1 .. m
  OBVIOUS
<1> QED
  BY <1>1, Zenon DEF Words

(***************************************************************************)
(* The first two words.                                                    *)
(***************************************************************************)
LEMMA WordStep ==
  ASSUME NEW s \in Seq(Char), NEW n \in Nat, n + 1 <= Len(s),
         NEW p \in Parsers, Within(p, s, n), NEW q \in Parsers,
         q.result = "indeterminate",
         Moves(p, s[n + 1], q), p.state_ \in {"method_start", "method", "uri"}
  PROVE  Within(q, s, n + 1)
<1> DEFINE c == s[n + 1]
<1>0. /\ SubSeq(s, 1, n + 1) = Append(SubSeq(s, 1, n), c)
      /\ \A k \in 1 .. n + 1 : SubSeq(s, k, n + 1) = Append(SubSeq(s, k, n), c)
      /\ SubSeq(s, n + 2, n + 1) = <<>> /\ SubSeq(s, 1, 0) = <<>>
  BY PartGrows
<1>1. /\ SP # LF /\ (n + 1) - 1 = n
      /\ p.state_ \notin InHead \cup Middle \cup AtLineEnd /\ p.state_ # "body"
  BY DEF SP, LF, InHead, Middle, AtLineEnd
<1>2. CASE p.state_ = "method_start"
  <2>1. /\ n = 0 /\ p.method = <<>> /\ p.uri = <<>> /\ p.content = <<>>
    BY <1>2, WithinStates, SMTT(20) DEF AtStart
  <2>2. /\ q.state_ = "method" /\ c # LF /\ q.method = Append(p.method, c)
        /\ q.uri = p.uri /\ q.content = p.content
    BY <1>1, <1>2, Zenon DEF Moves
  <2>3. n + 1 > 0 /\ \A i : i \notin 4 .. n + 1
    BY <2>1
  <2>4. q.method = SubSeq(s, 1, n + 1)
    BY <1>0, <2>1, <2>2, Zenon
  <2>5. NoHead(s, n + 1)
    BY <2>3, Zenon DEF NoHead
  <2>6. AtMethod(q, s, n + 1)
    BY <2>1, <2>2, <2>3, <2>4, <2>5, Zenon DEF AtMethod
  <2> QED
    BY <2>6, Zenon DEF Within
<1>3. CASE p.state_ = "method"
  <2>1. /\ n > 0 /\ NoHead(s, n) /\ p.method = SubSeq(s, 1, n) /\ p.uri = <<>> /\ p.content = <<>>
    BY <1>3, WithinStates, Zenon DEF AtMethod
  <2>2. \/ /\ q.state_ = "method" /\ c # LF /\ q.method = Append(p.method, c)
           /\ q.uri = p.uri /\ q.content = p.content
        \/ q.state_ = "uri" /\ c = SP /\ Same(p, q)
    BY <1>1, <1>3, Zenon DEF Moves
  <2>3. c # LF /\ n + 1 > 1 /\ n + 1 > 0
    BY <1>1, <2>1, <2>2, SMTT(20)
  <2>4. NoHead(s, n + 1)
    BY <2>1, <2>3, NoHeadGrows, Zenon
  <2>5. CASE q.state_ = "method"
    <3>1. q.method = Append(p.method, c) /\ q.uri = <<>> /\ q.content = <<>>
      BY <2>1, <2>2, <2>5, Zenon
    <3>2. q.method = SubSeq(s, 1, n + 1)
      BY <1>0, <2>1, <3>1, Zenon
    <3>3. AtMethod(q, s, n + 1)
      BY <2>3, <2>4, <2>5, <3>1, <3>2, Zenon DEF AtMethod
    <3> QED
      BY <3>3 DEF Within
  <2>6. CASE q.state_ = "uri"
    <3>1. /\ c = SP /\ q.method = SubSeq(s, 1, (n + 1) - 1)
          /\ q.uri = SubSeq(s, (n + 1) + 1, n + 1) /\ q.content = <<>>
      <4>1. c = SP /\ Same(p, q)
        BY <2>2, <2>6, Zenon
      <4>2. (n + 1) + 1 = n + 2
        OBVIOUS
      <4> QED
        BY <1>0, <1>1, <2>1, <4>1, <4>2, Zenon DEF Same
    <3>2. n + 1 \in 1 .. n + 1
      OBVIOUS
    <3>3. \E i \in 1 .. n + 1 : /\ s[i] = SP /\ q.method = SubSeq(s, 1, i - 1)
                                /\ q.uri = SubSeq(s, i + 1, n + 1)
      BY <3>1, <3>2, Zenon
    <3>4. AtUri(q, s, n + 1)
      BY <2>3, <2>4, <2>6, <3>1, <3>3, Zenon DEF AtUri
    <3> QED
      BY <3>4, Zenon DEF Within
  <2> QED
    BY <2>2, <2>5, <2>6, Zenon
<1>4. CASE p.state_ = "uri"
  <2>0. AtUri(p, s, n)
    BY <1>4, WithinStates, Zenon
  <2>1. n > 1 /\ NoHead(s, n) /\ p.content = <<>>
    BY <2>0, Zenon DEF AtUri
  <2>2. PICK i \in 1 .. n : /\ s[i] = SP /\ p.method = SubSeq(s, 1, i - 1)
                            /\ p.uri = SubSeq(s, i + 1, n)
    BY <2>0, Zenon DEF AtUri
  <2>3. \/ /\ q.state_ = "uri" /\ c # LF /\ q.uri = Append(p.uri, c)
           /\ q.method = p.method /\ q.content = p.content
        \/ q.state_ \in Middle /\ c = SP /\ Same(p, q)
    BY <1>1, <1>4, Zenon DEF Moves
  <2>a. i \in 1 .. n + 1 /\ i + 1 \in 1 .. n + 1
    OBVIOUS
  <2>b. n + 1 > 2 /\ n + 1 > 1
    BY <2>1
  <2>c. c # LF
    BY <1>1, <2>3, Zenon
  <2>4. c # LF /\ n + 1 > 2 /\ n + 1 > 1 /\ i \in 1 .. n + 1 /\ i + 1 \in 1 .. n + 1
    BY <2>a, <2>b, <2>c, Zenon
  <2>5. NoHead(s, n + 1)
    BY <2>1, <2>4, NoHeadGrows, Zenon
  <2>6. CASE /\ q.state_ = "uri" /\ q.uri = Append(p.uri, c)
             /\ q.method = p.method /\ q.content = p.content
    <3>1. q.uri = SubSeq(s, i + 1, n + 1)
      BY <1>0, <2>2, <2>4, <2>6, Zenon
    <3>2. \E l \in 1 .. n + 1 : /\ s[l] = SP /\ q.method = SubSeq(s, 1, l - 1)
                                /\ q.uri = SubSeq(s, l + 1, n + 1)
      BY <2>2, <2>4, <2>6, <3>1, Zenon
    <3>3. q.content = <<>>
      BY <2>1, <2>6, Zenon
    <3>4. AtUri(q, s, n + 1)
      BY <2>4, <2>5, <2>6, <3>2, <3>3, Zenon DEF AtUri
    <3> QED
      BY <3>4, Zenon DEF Within
  <2>7. CASE q.state_ \in Middle /\ c = SP /\ Same(p, q)
    <3>1. /\ i < n + 1 /\ s[n + 1] = SP /\ q.method = SubSeq(s, 1, i - 1)
          /\ q.uri = SubSeq(s, i + 1, (n + 1) - 1) /\ n + 1 \in 1 .. n + 1
      BY <1>1, <2>2, <2>7 DEF Same
    <3>2. Words(q, s, n + 1)
      BY <2>2, <2>4, <3>1, Zenon DEF Words
    <3>3. q.state_ \in InHead /\ q.state_ \notin AtLineEnd
          /\ q.state_ # "header_line_start" /\ q.state_ # "expecting_newline_3"
      BY <2>7, Zenon DEF InHead, Middle, AtLineEnd
    <3>4. q.content = <<>>
      BY <2>1, <2>7, Zenon DEF Same
    <3>5. AtHead(q, s, n + 1)
      BY <2>4, <2>5, <3>2, <3>3, <3>4, Zenon DEF AtHead
    <3> QED
      BY <3>5, Zenon DEF Within
  <2> QED
    BY <2>3, <2>6, <2>7, Zenon
<1> QED
  BY <1>2, <1>3, <1>4, Zenon

(***************************************************************************)
(* The rest of the head.                                                   *)
(***************************************************************************)
LEMMA HeadStep ==
  ASSUME NEW s \in Seq(Char), NEW n \in Nat, n + 1 <= Len(s),
         NEW p \in Parsers, Within(p, s, n), NEW q \in Parsers,
         q.result = "indeterminate",
         Moves(p, s[n + 1], q), p.state_ \in InHead, q.state_ # "body"
  PROVE  Within(q, s, n + 1)
<1> DEFINE c == s[n + 1]
<1>1. /\ CR # LF /\ (n + 1) - 1 = n /\ "body" \notin InHead
      /\ {"method_start", "method", "uri", "body"} \cap (InHead \cup Middle \cup AtLineEnd) = {}
  BY DEF CR, LF, InHead, Middle, AtLineEnd
<1>2. /\ n > 2 /\ NoHead(s, n) /\ Words(p, s, n) /\ p.content = <<>>
      /\ p.state_ \in Middle => s[n] # LF
      /\ p.state_ \in AtLineEnd => s[n] = CR /\ s[n - 1] # LF
      /\ p.state_ = "header_line_start" => EndsLineAt(s, n)
      /\ p.state_ = "expecting_newline_3" => s[n] = CR /\ EndsLineAt(s, n - 1)
  BY WithinStates, Zenon DEF AtHead
<1>3. /\ Same(p, q)
      /\ \/ p.state_ \in Middle /\ q.state_ \in Middle /\ c # LF
         \/ p.state_ \in Middle /\ q.state_ \in AtLineEnd /\ c = CR
         \/ p.state_ \in AtLineEnd /\ q.state_ = "header_line_start" /\ c = LF
         \/ p.state_ = "header_line_start" /\ q.state_ \in Middle /\ c # LF
         \/ p.state_ = "header_line_start" /\ q.state_ = "expecting_newline_3" /\ c = CR
  BY <1>1, Zenon DEF Moves
<1>4. c # LF \/ s[n - 1] # LF
  BY <1>1, <1>2, <1>3, Zenon
<1>5. NoHead(s, n + 1)
  BY <1>2, <1>4, NoHeadGrows, ZenonT(30)
<1>6. q.content = <<>> /\ n + 1 > 2
  <2>1. q.content = p.content
    BY <1>3, Zenon DEF Same
  <2>2. n > 2 /\ p.content = <<>>
    BY <1>2, Zenon
  <2>3. n + 1 > 2
    BY <2>2
  <2> QED
    BY <2>1, <2>2, <2>3, Zenon
<1>7. Words(q, s, n + 1)
  <2>1. n <= n + 1 /\ n + 1 \in Nat /\ q.method = p.method /\ q.uri = p.uri
    BY <1>3 DEF Same
  <2> QED
    BY <1>2, <2>1, WordsKept, Zenon
<1>8. q.state_ \in InHead
  BY <1>3, Zenon DEF InHead
<1>9. q.state_ \in Middle => c # LF /\ q.state_ \notin AtLineEnd
                             /\ q.state_ # "header_line_start" /\ q.state_ # "expecting_newline_3"
  BY <1>1, <1>3, Zenon DEF Middle, AtLineEnd
<1>10. q.state_ \in AtLineEnd => /\ c = CR /\ s[n] # LF
                                 /\ q.state_ # "header_line_start" /\ q.state_ # "expecting_newline_3"
  <2> SUFFICES ASSUME q.state_ \in AtLineEnd
               PROVE  /\ c = CR /\ s[n] # LF
                      /\ q.state_ # "header_line_start" /\ q.state_ # "expecting_newline_3"
    BY Zenon
  <2>1. /\ q.state_ \notin Middle
        /\ q.state_ # "header_line_start" /\ q.state_ # "expecting_newline_3"
    BY Zenon DEF Middle, AtLineEnd
  <2>2. p.state_ \in Middle /\ c = CR
    BY <1>3, <2>1, Zenon
  <2> QED
    BY <1>2, <2>1, <2>2, Zenon
<1>11. q.state_ = "header_line_start" => EndsLineAt(s, n + 1)
  <2> SUFFICES ASSUME q.state_ = "header_line_start" PROVE EndsLineAt(s, n + 1)
    BY Zenon
  <2>1. q.state_ \notin Middle /\ q.state_ \notin AtLineEnd /\ q.state_ # "expecting_newline_3"
    BY Zenon DEF Middle, AtLineEnd
  <2>2. p.state_ \in AtLineEnd /\ c = LF
    BY <1>3, <2>1, Zenon
  <2>3. s[(n + 1) - 1] = CR
    BY <1>1, <1>2, <2>2, Zenon
  <2> QED
    BY <2>2, <2>3, Zenon DEF EndsLineAt
<1>12. q.state_ = "expecting_newline_3" => c = CR /\ EndsLineAt(s, (n + 1) - 1)
  BY <1>1, <1>2, <1>3, Zenon DEF Middle, AtLineEnd
<1>13. AtHead(q, s, n + 1)
  BY <1>1, <1>5, <1>6, <1>7, <1>8, <1>9, <1>10, <1>11, <1>12, Zenon DEF AtHead
<1> QED
  BY <1>13, Zenon DEF Within

(***************************************************************************)
(* The first empty line.                                                   *)
(***************************************************************************)
LEMMA EmptyLine ==
  ASSUME NEW s \in Seq(Char), NEW n \in Nat, n + 1 <= Len(s), n > 2, NoHead(s, n),
         s[n] = CR, EndsLineAt(s, n - 1), s[n + 1] = LF
  PROVE  HeadEndsAt(s, n + 1)
<1>1. n + 1 \in 4 .. Len(s) /\ (n + 1) - 1 = n /\ (n + 1) - 2 = n - 1
  OBVIOUS
<1>2. EndsLineAt(s, n + 1)
  BY <1>1, Zenon DEF EndsLineAt
<1> QED
  BY <1>1, <1>2, Zenon DEF HeadEndsAt, NoHead

(***************************************************************************)
(* The empty line that begins a body, and the body.                        *)
(***************************************************************************)
LEMMA BodyStep ==
  ASSUME NEW s \in Seq(Char), NEW n \in Nat, n + 1 <= Len(s),
         NEW p \in Parsers, Within(p, s, n), NEW q \in Parsers,
         q.result = "indeterminate",
         Moves(p, s[n + 1], q), p.state_ \in InHead \cup {"body"}, q.state_ = "body"
  PROVE  Within(q, s, n + 1)
<1> DEFINE c == s[n + 1]
<1>1. /\ "body" \notin InHead \cup Middle \cup AtLineEnd
      /\ {"method_start", "method", "uri", "body"} \cap InHead = {}
      /\ n <= n + 1 /\ n + 1 \in Nat
  BY DEF InHead, Middle, AtLineEnd
<1>2. CASE p.state_ # "body"
  <2>1. /\ p.state_ = "expecting_newline_3" /\ c = LF /\ Same(p, q)
        /\ q.headers = p.headers /\ Clen(p) \in 1 .. MaxContent /\ q.body_bytes_ = Clen(p)
    BY <1>1, <1>2, Zenon DEF Moves
  <2>2. /\ n > 2 /\ NoHead(s, n) /\ Words(p, s, n) /\ p.content = <<>>
        /\ s[n] = CR /\ EndsLineAt(s, n - 1)
    BY <2>1, WithinStates, Zenon DEF AtHead, InHead
  <2>a. HeadEndsAt(s, n + 1)
    BY <2>1, <2>2, EmptyLine, Zenon
  <2>b. n > 2
    BY <2>2, Zenon
  <2>c. n + 1 \in 4 .. n + 1
    BY <2>b
  <2>3. HeadEndsAt(s, n + 1) /\ n + 1 \in 4 .. n + 1
    BY <2>a, <2>c, Zenon
  <2>4. Clen(q) = Clen(p)
    BY <2>1, Zenon DEF Clen, get_header
  <2>5. Words(q, s, n + 1)
    BY <1>1, <2>1, <2>2, WordsKept, ZenonT(30) DEF Same
  <2>6. q.content = SubSeq(s, (n + 1) + 1, n + 1)
    <3>1. SubSeq(s, (n + 1) + 1, n + 1) = <<>>
      OBVIOUS
    <3> QED
      BY <2>1, <2>2, <3>1, Zenon DEF Same
  <2>7. Clen(q) \in 1 .. MaxContent /\ q.body_bytes_ \in Nat \ {0} /\ MaxContent \in Nat
    BY <2>1, <2>4, WidthAssumption
  <2>8. ((n + 1) - (n + 1)) + q.body_bytes_ = Clen(q)
    BY <2>1, <2>4, <2>7, SMTT(20)
  <2>9. AtBody(q, s, n + 1)
    BY <2>3, <2>5, <2>6, <2>7, <2>8, Zenon DEF AtBody
  <2> QED
    BY <2>9, Zenon DEF Within
<1>3. CASE p.state_ = "body"
  <2>1. /\ q.content = Append(p.content, c) /\ q.method = p.method /\ q.uri = p.uri
        /\ q.headers = p.headers /\ q.body_bytes_ = p.body_bytes_ - 1 /\ q.body_bytes_ # 0
    BY <1>1, <1>3, Zenon DEF Moves
  <2>2. /\ Words(p, s, n) /\ Clen(p) \in 1 .. MaxContent /\ p.body_bytes_ \in Nat \ {0}
        /\ \E h \in 4 .. n : /\ HeadEndsAt(s, h) /\ p.content = SubSeq(s, h + 1, n)
                             /\ (n - h) + p.body_bytes_ = Clen(p)
    BY <1>3, WithinStates, Zenon DEF AtBody
  <2>3. PICK h \in 4 .. n : /\ HeadEndsAt(s, h) /\ p.content = SubSeq(s, h + 1, n)
                            /\ (n - h) + p.body_bytes_ = Clen(p)
    BY <2>2, Zenon
  <2>4. Clen(q) = Clen(p)
    BY <2>1, Zenon DEF Clen, get_header
  <2>5. Words(q, s, n + 1)
    BY <1>1, <2>1, <2>2, WordsKept, Zenon
  <2>6. h + 1 \in 1 .. n + 1 /\ h \in 4 .. n + 1
    OBVIOUS
  <2>7. q.content = SubSeq(s, h + 1, n + 1)
    BY <2>1, <2>3, <2>6, PartGrows, Zenon
  <2>8. q.body_bytes_ \in Nat \ {0} /\ (n + 1 - h) + q.body_bytes_ = Clen(q)
    <3> DEFINE b == p.body_bytes_
    <3>1. b \in Nat \ {0} /\ q.body_bytes_ = b - 1 /\ b - 1 # 0
      BY <2>1, <2>2, Zenon
    <3>2. (n - h) + b = Clen(q)
      BY <2>3, <2>4, Zenon
    <3> HIDE DEF b
    <3>3. b - 1 \in Nat \ {0} /\ (n + 1 - h) + (b - 1) = (n - h) + b
      BY <3>1
    <3> QED
      BY <3>1, <3>2, <3>3, Zenon
  <2>9. \E k \in 4 .. n + 1 : /\ HeadEndsAt(s, k) /\ q.content = SubSeq(s, k + 1, n + 1)
                              /\ (n + 1 - k) + q.body_bytes_ = Clen(q)
    BY <2>3, <2>6, <2>7, <2>8, Zenon
  <2>10. Clen(q) \in 1 .. MaxContent
    BY <2>2, <2>4, Zenon
  <2>11. AtBody(q, s, n + 1)
    BY <2>5, <2>8, <2>9, <2>10 DEF AtBody
  <2> QED
    BY <2>11, Zenon DEF Within
<1> QED
  BY <1>2, <1>3, Zenon

(***************************************************************************)
(* The byte that completes the request.                                    *)
(***************************************************************************)
LEMMA LastStep ==
  ASSUME NEW s \in Seq(Char), NEW n \in Nat, n + 1 <= Len(s),
         NEW p \in Parsers, Within(p, s, n), NEW q \in Parsers,
         q.result = "true", Moves(p, s[n + 1], q)
  PROVE  Complete(q, s)
<1> DEFINE c == s[n + 1]
<1>1. /\ "body" \notin InHead /\ "expecting_newline_3" \in InHead
      /\ Len(s) \in Nat /\ n <= Len(s) /\ DOMAIN s = 1 .. Len(s) /\ MaxContent \in Nat
  BY WidthAssumption, SMTT(20) DEF InHead, Middle, AtLineEnd
<1>2. /\ q.headers = p.headers
      /\ \/ p.state_ = "expecting_newline_3" /\ c = LF /\ Same(p, q) /\ Clen(p) <= 0
         \/ /\ p.state_ = "body"
            /\ q.content = Append(p.content, c) /\ q.method = p.method /\ q.uri = p.uri
            /\ p.body_bytes_ - 1 = 0
  BY Zenon DEF Moves
<1>3. Clen(q) = Clen(p)
  BY <1>2, Zenon DEF Clen, get_header
<1>4. Clen(p) \in Int
  BY AtoiType, GetHeaderType, Zenon DEF Clen
<1>5. CASE p.state_ = "expecting_newline_3"
  <2>1. c = LF /\ Same(p, q) /\ Clen(p) <= 0
    BY <1>2, <1>5, Zenon
  <2>2. /\ n > 2 /\ NoHead(s, n) /\ Words(p, s, n) /\ p.content = <<>>
        /\ s[n] = CR /\ EndsLineAt(s, n - 1)
    BY <1>5, WithinStates, ZenonT(30) DEF AtHead, InHead
  <2>3. HeadEndsAt(s, n + 1) /\ n + 1 \in DOMAIN s
    BY <1>1, <2>1, <2>2, EmptyLine, SMTT(20)
  <2>4. Words(q, s, Len(s))
    BY <1>1, <2>1, <2>2, WordsKept, Zenon DEF Same
  <2>5. q.content = <<>> /\ Len(q.content) = 0
    BY <2>1, <2>2 DEF Same
  <2>6. SubSeq(s, (n + 1) + 1, (n + 1) + 0) = <<>>
    OBVIOUS
  <2>7. /\ (n + 1) + Len(q.content) <= Len(s)
        /\ q.content = SubSeq(s, (n + 1) + 1, (n + 1) + Len(q.content))
    BY <2>5, <2>6, SMTT(20)
  <2>8. Len(q.content) = (IF Clen(q) > 0 THEN Clen(q) ELSE 0) /\ Clen(q) <= MaxContent
    BY <1>1, <1>3, <1>4, <2>1, <2>5
  <2> QED
    BY <2>3, <2>4, <2>7, <2>8, Zenon DEF Complete
<1>6. CASE p.state_ = "body"
  <2>1. /\ q.content = Append(p.content, c) /\ q.method = p.method /\ q.uri = p.uri
        /\ p.body_bytes_ - 1 = 0
    BY <1>2, <1>6, Zenon
  <2>2. /\ Words(p, s, n) /\ Clen(p) \in 1 .. MaxContent /\ p.body_bytes_ \in Nat \ {0}
        /\ \E h \in 4 .. n : /\ HeadEndsAt(s, h) /\ p.content = SubSeq(s, h + 1, n)
                             /\ (n - h) + p.body_bytes_ = Clen(p)
    BY <1>6, WithinStates, Zenon DEF AtBody
  <2>3. PICK h \in 4 .. n : /\ HeadEndsAt(s, h) /\ p.content = SubSeq(s, h + 1, n)
                            /\ (n - h) + p.body_bytes_ = Clen(p)
    BY <2>2, Zenon
  <2>4. h + 1 \in 1 .. n + 1 /\ h \in DOMAIN s
    BY <1>1
  <2>5. q.content = SubSeq(s, h + 1, n + 1)
    BY <2>1, <2>3, <2>4, PartGrows, Zenon
  <2>6. Len(q.content) = n + 1 - h
    <3>1. Len(SubSeq(s, h + 1, n + 1)) = n + 1 - h
      BY <1>1, <2>4, SMTT(20)
    <3> QED
      BY <2>5, <3>1, Zenon
  <2>7. h + Len(q.content) = n + 1 /\ Clen(q) = n + 1 - h
    BY <1>3, <2>1, <2>2, <2>3, <2>6, SMTT(20)
  <2>8. Len(q.content) = (IF Clen(q) > 0 THEN Clen(q) ELSE 0) /\ Clen(q) <= MaxContent
    BY <1>3, <2>2, <2>6, <2>7
  <2>9. h + Len(q.content) <= Len(s) /\ q.content = SubSeq(s, h + 1, h + Len(q.content))
    BY <2>5, <2>7, Zenon
  <2>10. Words(q, s, Len(s))
    BY <1>1, <2>1, <2>2, WordsKept, Zenon
  <2> QED
    BY <2>3, <2>4, <2>8, <2>9, <2>10, Zenon DEF Complete
<1> QED
  BY <1>2, <1>5, <1>6, Zenon

(***************************************************************************)
(* Every byte that is consumed keeps the parser in step with the stream.   *)
(***************************************************************************)
LEMMA ReadsStep ==
  ASSUME NEW s \in Seq(Char), NEW n \in Nat, n + 1 <= Len(s),
         NEW p \in Parsers, Reads(p, s, n)
  PROVE  Reads(Consumed(p, s[n + 1]), s, n + 1)
<1> DEFINE c == s[n + 1]
           q == Consumed(p, c)
<1>1. c \in Char
  OBVIOUS
<1>2. CASE p.result # "indeterminate"
  BY <1>2, Zenon DEF Reads, Consumed
<1>3. CASE p.result = "indeterminate"
  <2>1. q \in Parsers /\ Moves(p, c, q)
    BY <1>1, <1>3, ConsumeMoves, Zenon DEF Consumed
  <2>2. Within(p, s, n)
    BY <1>3, Zenon DEF Reads
  <2> HIDE DEF q
  <2>3. ASSUME q.result = "indeterminate" PROVE Within(q, s, n + 1)
    <3>1. p.state_ \in {"method_start", "method", "uri"} \cup InHead \cup {"body"}
      BY <2>2, WithinStates, Zenon
    <3>2. p.state_ = "body" => q.state_ = "body"
      BY <2>1, <2>3, Zenon DEF Moves, Middle, AtLineEnd
    <3> QED
      BY <2>1, <2>2, <2>3, <3>1, <3>2, WordStep, HeadStep, BodyStep, Zenon
  <2>4. ASSUME q.result = "true" PROVE Complete(q, s)
    BY <2>1, <2>2, <2>4, LastStep, Zenon
  <2>5. Reads(q, s, n + 1)
    BY <2>3, <2>4, Zenon DEF Reads
  <2> QED
    BY <2>5, Zenon DEF q
<1> QED
  BY <1>2, <1>3, Zenon

(***************************************************************************)
(* What a fresh parser makes of a stream.                                  *)
(***************************************************************************)
LEMMA FreshParser ==
  /\ NewParser \in Parsers
  /\ NewParser.result = "indeterminate"
  /\ \A s : Reads(NewParser, s, 0)
<1>1. NewParser \in Parsers
  BY DEF NewParser, Parsers, States
<1>2. \A s : Within(NewParser, s, 0)
  BY Zenon DEF NewParser, Within, AtStart
<1> QED
  BY <1>1, <1>2, Zenon DEF Reads, NewParser

(***************************************************************************)
(* A request that is complete is made of the bytes that were parsed.       *)
(***************************************************************************)
LEMMA ParseReads ==
  ASSUME NEW s \in Seq(Char), parse(NewParser, s).result = "true"
  PROVE  Complete(parse(NewParser, s), s)
<1>1. PICK g : Run(g, NewParser, s) /\ parse(NewParser, s) = g[Len(s)]
  BY FreshParser, ParseRun, Zenon
<1> DEFINE S == {n \in Nat : n <= Len(s) => Reads(g[n], s, n)}
<1>2. 0 \in S
  BY <1>1, FreshParser, Zenon DEF Run
<1>3. ASSUME NEW n \in S PROVE n + 1 \in S
  <2> SUFFICES ASSUME n + 1 <= Len(s) PROVE Reads(g[n + 1], s, n + 1)
    OBVIOUS
  <2>1. Reads(g[n], s, n) /\ n \in 0 .. Len(s) /\ n + 1 \in 1 .. Len(s) /\ (n + 1) - 1 = n
    OBVIOUS
  <2>2. g[n] \in Parsers /\ g[n + 1] = Consumed(g[n], s[n + 1])
    BY <1>1, <2>1, Zenon DEF Run
  <2> QED
    BY <2>1, <2>2, ReadsStep, Zenon
<1> HIDE DEF S
<1>4. S \in SUBSET Nat
  BY Zenon DEF S
<1>5. Len(s) \in S
  BY <1>2, <1>3, <1>4, Induction
<1>6. Reads(g[Len(s)], s, Len(s))
  BY <1>5 DEF S
<1> QED
  BY <1>1, <1>6, Zenon DEF Reads

(***************************************************************************)
(* A stream is cut in two.                                                 *)
(***************************************************************************)
LEMMA CutInTwo ==
  ASSUME NEW S, NEW s \in Seq(S), NEW m \in 0 .. Len(s), NEW n \in m .. Len(s)
  PROVE  /\ SubSeq(s, 1, m) \in Seq(S) /\ SubSeq(s, m + 1, n) \in Seq(S)
         /\ SubSeq(s, 1, m) \o SubSeq(s, m + 1, n) = SubSeq(s, 1, n)
<1> DEFINE a == SubSeq(s, 1, m)
           b == SubSeq(s, m + 1, n)
           u == SubSeq(s, 1, n)
<1>1. a \in Seq(S) /\ Len(a) = m /\ \A i \in 1 .. m : a[i] = s[i]
  OBVIOUS
<1>2. b \in Seq(S) /\ Len(b) = n - m /\ \A i \in 1 .. n - m : b[i] = s[m + i]
  OBVIOUS
<1>3. u \in Seq(S) /\ Len(u) = n /\ \A i \in 1 .. n : u[i] = s[i]
  OBVIOUS
<1> HIDE DEF a, b, u
<1>4. Len(u) = Len(a) + Len(b) /\ \A i \in 1 .. Len(a) : u[i] = a[i]
  BY <1>1, <1>2, <1>3, SMTT(20)
<1>5. ASSUME NEW i \in 1 .. Len(b) PROVE u[Len(a) + i] = b[i]
  <2>1. i \in 1 .. n - m /\ m + i \in 1 .. n /\ Len(a) + i = m + i
    BY <1>1, <1>2
  <2> QED
    BY <1>2, <1>3, <2>1, Zenon
<1>6. a \o b = u
  BY <1>1, <1>2, <1>3, <1>4, <1>5, Joined, Zenon
<1> QED
  BY <1>1, <1>2, <1>6, Zenon DEF a, b, u

(***************************************************************************)
(* The start of a sequence has elements of the same kind.                  *)
(***************************************************************************)
LEMMA StartType ==
  ASSUME NEW S, NEW s \in Seq(S), NEW m \in 0 .. Len(s)
  PROVE  SubSeq(s, 1, m) \in Seq(S)
OBVIOUS

(***************************************************************************)
(* What a read adds to a stream of L bytes of which r have been read, and  *)
(* where the k bytes of the last read begin.                               *)
(***************************************************************************)
LEMMA ReadSize ==
  ASSUME NEW L \in Nat, NEW r \in Nat, r <= L, NEW b \in Nat, NEW n, n > 0,
         n = L - r \/ (n = b /\ ~ (L - r < b))
  PROVE  /\ n \in Nat \ {0} /\ (r + n) - n = r - 0
         /\ n <= r + n /\ r + n <= L /\ r + n \in Nat
OBVIOUS

(***************************************************************************)
(* The last read lies within the stream.                                   *)
(***************************************************************************)
LEMMA LastRead ==
  ASSUME NEW L \in Nat, NEW r \in Nat, r <= L, NEW k \in Nat, k <= r
  PROVE  r - k \in 0 .. L /\ r \in r - k .. L
OBVIOUS

(***************************************************************************)
(* What is appended to a stream changes no start of it.                    *)
(***************************************************************************)
LEMMA StaysBehind ==
  ASSUME NEW S, NEW s \in Seq(S), NEW t \in Seq(S), NEW n \in 0 .. Len(s)
  PROVE  /\ s \o t \in Seq(S) /\ Len(s \o t) = Len(s) + Len(t)
         /\ SubSeq(s \o t, 1, n) = SubSeq(s, 1, n)
<1> DEFINE u == s \o t
           a == SubSeq(u, 1, n)
           b == SubSeq(s, 1, n)
<1>1. /\ u \in Seq(S) /\ Len(u) = Len(s) + Len(t)
      /\ \A i \in 1 .. Len(s) : u[i] = s[i]
  BY ConcatFacts, Zenon
<1> HIDE DEF u
<1>2. a \in Seq(S) /\ Len(a) = n /\ \A i \in 1 .. n : a[i] = u[i]
  BY <1>1
<1>3. b \in Seq(S) /\ Len(b) = n /\ \A i \in 1 .. n : b[i] = s[i]
  OBVIOUS
<1> HIDE DEF a, b
<1>4. \A i \in 1 .. n : a[i] = b[i]
  <2>1. \A i \in 1 .. n : i \in 1 .. Len(s)
    OBVIOUS
  <2> QED
    BY <1>1, <1>2, <1>3, <2>1, Zenon
<1>5. a = b
  BY <1>2, <1>3, <1>4, SameSequence, Zenon
<1> QED
  BY <1>1, <1>5, Zenon DEF a, b, u

------------------------------------------------------------------------------
(* What the handlers have parsed *)

(***************************************************************************)
(* What has been read was sent; a connection that no thread handles has    *)
(* handed all that it read to parse, unless the process has ended; and the *)
(* parser is where one call of parse would have left it.                   *)
(***************************************************************************)
Stream(c) ==
  /\ chunk[c] <= nread[c] /\ nread[c] <= Len(sent[c])
  /\ up /\ (\A t \in Threads : busy[t] # c) => chunk[c] = 0
  /\ parser[c] = parse(NewParser, Handed(c))

ReadInv ==
  /\ sent \in [Clients -> Seq(Char)]
  /\ nread \in [Clients -> Nat] /\ chunk \in [Clients -> Nat]
  /\ parser \in [Clients -> Parsers]
  /\ \A c \in Clients : Stream(c)

(***************************************************************************)
(* No byte has been read.                                                  *)
(***************************************************************************)
LEMMA InitReadInv == Init => ReadInv
<1> SUFFICES ASSUME Init PROVE ReadInv
  BY Zenon
<1>1. /\ sent = [c \in Clients |-> <<>>] /\ nread = [c \in Clients |-> 0]
      /\ chunk = [c \in Clients |-> 0] /\ parser = [c \in Clients |-> NewParser]
  BY Zenon DEF Init
<1>2. <<>> \in Seq(Char) /\ Len(<<>>) = 0 /\ SubSeq(<<>>, 1, 0) = <<>>
  OBVIOUS
<1>3. parse(NewParser, <<>>) = NewParser
  <2> DEFINE e == <<>>
  <2>1. e \in Seq(Char) /\ Len(e) = 0
    OBVIOUS
  <2> HIDE DEF e
  <2>2. PICK g : Run(g, NewParser, e) /\ parse(NewParser, e) = g[Len(e)]
    BY <2>1, FreshParser, ParseRun, Zenon
  <2>3. parse(NewParser, e) = NewParser
    BY <2>1, <2>2, Zenon DEF Run
  <2> QED
    BY <2>3, Zenon DEF e
<1>4. ASSUME NEW c \in Clients PROVE Stream(c)
  <2>1. sent[c] = <<>> /\ nread[c] = 0 /\ chunk[c] = 0 /\ parser[c] = NewParser
    BY <1>1, Zenon
  <2>2. Handed(c) = <<>>
    BY <1>2, <2>1 DEF Handed
  <2> QED
    BY <1>2, <1>3, <2>1, <2>2 DEF Stream
<1>5. sent \in [Clients -> Seq(Char)] /\ parser \in [Clients -> Parsers]
  BY <1>1, <1>2, FreshParser, Zenon
<1> QED
  BY <1>1, <1>4, <1>5, Zenon DEF ReadInv

(***************************************************************************)
(* A step that leaves the stream of a connection alone, and its handlers   *)
(* unless it ends the process.                                             *)
(***************************************************************************)
LEMMA StreamKept ==
  ASSUME NEW c \in Clients, Stream(c),
         sent'[c] = sent[c], nread'[c] = nread[c], chunk'[c] = chunk[c], parser'[c] = parser[c],
         ~ up' \/ (up' = up /\ \A t \in Threads : busy'[t] = c <=> busy[t] = c)
  PROVE  Stream(c)'
BY DEF Stream, Handed

(***************************************************************************)
(* Steps that neither send, read nor parse, and the end of the process.    *)
(***************************************************************************)
LEMMA UnchangedReadInv ==
  ASSUME ReadInv, UNCHANGED <<sent, nread, chunk, parser>>, ~ up' \/ UNCHANGED <<up, busy>>
  PROVE  ReadInv'
<1>1. \A c \in Clients : Stream(c)'
  BY StreamKept, Zenon DEF ReadInv
<1> QED
  BY <1>1, Zenon DEF ReadInv

(***************************************************************************)
(* What a client sends comes behind what was read.                         *)
(***************************************************************************)
LEMMA SendReadInv ==
  ASSUME ReadInv, NEW c \in Clients, Send(c)
  PROVE  ReadInv'
<1>1. PICK s \in Segments : sent' = [sent EXCEPT ![c] = @ \o s]
  BY Zenon DEF Send
<1>2. UNCHANGED <<nread, chunk, parser, up, busy>>
  BY Zenon DEF Send, server
<1>3. /\ s \in Seq(Char) /\ sent[c] \in Seq(Char) /\ nread[c] \in Nat /\ chunk[c] \in Nat
      /\ Stream(c)
  BY ConnectionAssumption, Zenon DEF ReadInv
<1>4. sent'[c] = sent[c] \o s /\ \A d \in Clients \ {c} : sent'[d] = sent[d]
  BY <1>1, Zenon DEF ReadInv
<1>5. nread[c] - chunk[c] \in 0 .. Len(sent[c]) /\ nread[c] <= Len(sent[c])
  <2>1. chunk[c] <= nread[c] /\ nread[c] <= Len(sent[c])
    BY <1>3, Zenon DEF Stream
  <2>2. Len(sent[c]) \in Nat
    BY <1>3
  <2> QED
    BY <1>3, <2>1, <2>2, LastRead, Zenon
<1>6. /\ sent'[c] \in Seq(Char) /\ Len(sent'[c]) = Len(sent[c]) + Len(s)
      /\ SubSeq(sent'[c], 1, nread[c] - chunk[c]) = SubSeq(sent[c], 1, nread[c] - chunk[c])
  BY <1>3, <1>4, <1>5, StaysBehind
<1>7. Handed(c)' = Handed(c)
  BY <1>2, <1>6, Zenon DEF Handed
<1>8. nread[c] <= Len(sent'[c])
  BY <1>3, <1>5, <1>6, SMTT(20)
<1>9. Stream(c)'
  BY <1>2, <1>3, <1>7, <1>8, Zenon DEF Stream
<1>10. \A d \in Clients \ {c} : Stream(d)'
  BY <1>2, <1>4, StreamKept, Zenon DEF ReadInv
<1>11. sent' \in [Clients -> Seq(Char)]
  BY <1>1, <1>4, <1>6, Zenon DEF ReadInv
<1> QED
  BY <1>2, <1>9, <1>10, <1>11, Zenon DEF ReadInv

(***************************************************************************)
(* A read that completes hands nothing to parse yet.                       *)
(***************************************************************************)
LEMMA ReadBeginReadInv ==
  ASSUME IInv, ReadInv, NEW c \in Clients, NEW t \in Threads, HandleReadBegin(t, c)
  PROVE  ReadInv'
<1> DEFINE n == IF Unread(c) < BufferSize THEN Unread(c) ELSE BufferSize
<1>1. /\ up /\ busy[t] = NoClient /\ "read" \in pending[c] /\ n > 0
      /\ busy' = [busy EXCEPT ![t] = c]
      /\ nread' = [nread EXCEPT ![c] = @ + n] /\ chunk' = [chunk EXCEPT ![c] = n]
      /\ UNCHANGED <<sent, parser, up>>
  BY Zenon DEF HandleReadBegin, Idle, client, server
<1>2. /\ sent[c] \in Seq(Char) /\ nread[c] \in Nat /\ chunk[c] \in Nat /\ Stream(c)
  BY Zenon DEF ReadInv
<1>3. chunk[c] = 0
  <2>1. \A u \in Threads : busy[u] # c
    BY <1>1, Zenon DEF IInv, Single
  <2> QED
    BY <1>1, <1>2, <2>1, Zenon DEF Stream
<1>4. Len(sent[c]) \in Nat /\ nread[c] <= Len(sent[c]) /\ BufferSize \in Nat
  <2>1. nread[c] <= Len(sent[c])
    BY <1>2, Zenon DEF Stream
  <2>2. Len(sent[c]) \in Nat
    BY <1>2
  <2> QED
    BY <2>1, <2>2, ConnectionAssumption, Zenon
<1>5. n = Len(sent[c]) - nread[c] \/ (n = BufferSize /\ ~ (Len(sent[c]) - nread[c] < BufferSize))
  BY Zenon DEF Unread
<1>a. n > 0
  BY <1>1, Zenon
<1> HIDE DEF n
<1>b. /\ n \in Nat \ {0} /\ (nread[c] + n) - n = nread[c] - 0
      /\ n <= nread[c] + n /\ nread[c] + n <= Len(sent[c]) /\ nread[c] + n \in Nat
  BY <1>2, <1>4, <1>5, <1>a, ReadSize, Zenon
<1>6. nread'[c] = nread[c] + n /\ chunk'[c] = n
  BY <1>1, Zenon DEF ReadInv
<1>7. Handed(c)' = Handed(c)
  <2>1. nread'[c] - chunk'[c] = nread[c] - chunk[c]
    BY <1>3, <1>6, <1>b, Zenon
  <2> QED
    BY <1>1, <2>1, Zenon DEF Handed
<1>8. chunk'[c] <= nread'[c] /\ nread'[c] <= Len(sent[c])
  BY <1>6, <1>b, Zenon
<1>9. busy'[t] = c
  BY <1>1, Zenon DEF IInv, StateInv
<1>10. Stream(c)'
  BY <1>1, <1>2, <1>7, <1>8, <1>9, Zenon DEF Stream
<1>11. ASSUME NEW d \in Clients \ {c} PROVE Stream(d)'
  <2>1. /\ nread'[d] = nread[d] /\ chunk'[d] = chunk[d]
        /\ \A u \in Threads : busy'[u] = d <=> busy[u] = d
    BY <1>1, ConnectionAssumption, Zenon DEF ReadInv, IInv, StateInv
  <2> QED
    BY <1>1, <2>1, StreamKept, Zenon DEF ReadInv
<1>12. nread' \in [Clients -> Nat] /\ chunk' \in [Clients -> Nat]
  BY <1>1, <1>6, <1>b, Zenon DEF ReadInv
<1> QED
  BY <1>1, <1>10, <1>11, <1>12, Zenon DEF ReadInv

(***************************************************************************)
(* handle_read hands to parse what the read gave it.                       *)
(***************************************************************************)
LEMMA ReadReadInv ==
  ASSUME IInv, ReadInv, NEW c \in Clients, NEW t \in Threads, HandleRead(t, c)
  PROVE  ReadInv'
<1>1. /\ busy[t] = c /\ busy' = [busy EXCEPT ![t] = NoClient]
      /\ chunk' = [chunk EXCEPT ![c] = 0] /\ parser' = [parser EXCEPT ![c] = Parsed(c)]
      /\ UNCHANGED <<sent, nread, up>>
  BY Zenon DEF HandleRead, client, server
<1>2. /\ sent[c] \in Seq(Char) /\ nread[c] \in Nat /\ chunk[c] \in Nat /\ Stream(c)
  BY DEF ReadInv
<1> DEFINE m == nread[c] - chunk[c]
           a == SubSeq(sent[c], 1, m)
           b == SubSeq(sent[c], m + 1, nread[c])
<1>3. m \in 0 .. Len(sent[c]) /\ nread[c] \in m .. Len(sent[c]) /\ nread[c] <= Len(sent[c])
  <2>1. chunk[c] <= nread[c] /\ nread[c] <= Len(sent[c])
    BY <1>2, Zenon DEF Stream
  <2>2. Len(sent[c]) \in Nat
    BY <1>2, SMTT(20)
  <2> QED
    BY <1>2, <2>1, <2>2, LastRead, Zenon
<1>4. parser[c] = parse(NewParser, a) /\ Parsed(c) = parse(parser[c], b)
  BY <1>2, Zenon DEF Stream, Handed, Parsed
<1> HIDE DEF m
<1>5. a \in Seq(Char) /\ b \in Seq(Char) /\ a \o b = SubSeq(sent[c], 1, nread[c])
  BY <1>2, <1>3, CutInTwo, Zenon
<1> HIDE DEF a, b
<1>6. Parsed(c) = parse(NewParser, SubSeq(sent[c], 1, nread[c]))
  <2>1. parse(parse(NewParser, a), b) = parse(NewParser, a \o b)
    BY <1>5, FreshParser, ParseConcat, Zenon
  <2> QED
    BY <1>4, <1>5, <2>1, Zenon
<1>7. Parsed(c) \in Parsers
  <2>1. SubSeq(sent[c], 1, nread[c]) \in Seq(Char)
    BY <1>5, ConcatFacts, Zenon
  <2> QED
    BY <1>6, <2>1, FreshParser, ParseConcat, Zenon
<1>8. chunk'[c] = 0 /\ parser'[c] = Parsed(c)
  BY <1>1, Zenon DEF ReadInv
<1>9. Handed(c)' = SubSeq(sent[c], 1, nread[c])
  BY <1>1, <1>2, <1>8 DEF Handed
<1>10. Stream(c)'
  <2>1. 0 <= nread[c]
    BY <1>2, SMTT(20)
  <2> QED
    BY <1>1, <1>3, <1>6, <1>8, <1>9, <2>1, ZenonT(30) DEF Stream
<1>11. ASSUME NEW d \in Clients \ {c} PROVE Stream(d)'
  <2>1. /\ chunk'[d] = chunk[d] /\ parser'[d] = parser[d]
        /\ \A u \in Threads : busy'[u] = d <=> busy[u] = d
    BY <1>1, ConnectionAssumption, Zenon DEF ReadInv, IInv, StateInv
  <2> QED
    BY <1>1, <2>1, StreamKept, Zenon DEF ReadInv
<1>12. chunk' \in [Clients -> Nat] /\ parser' \in [Clients -> Parsers]
  BY <1>1, <1>7, Zenon DEF ReadInv
<1> QED
  BY <1>1, <1>10, <1>11, <1>12, Zenon DEF ReadInv

(***************************************************************************)
(* Every step preserves the invariant.                                     *)
(***************************************************************************)
LEMMA NextReadInv == IInv /\ ReadInv /\ [Next]_vars => ReadInv'
<1> SUFFICES ASSUME IInv, ReadInv, [Next]_vars PROVE ReadInv'
  BY Zenon
<1>1. ASSUME NEW c \in Clients, Send(c) PROVE ReadInv'
  BY <1>1, SendReadInv, Zenon
<1>2. ASSUME NEW c \in Clients, Connect(c) \/ Receive(c) \/ Drop(c) PROVE ReadInv'
  BY <1>2, UnchangedReadInv, Zenon DEF Connect, Receive, Drop, server
<1>3. ASSUME NEW c \in Clients, HandleAccept(c) \/ HandleReadError(c) \/ HandleWrite(c)
      PROVE  ReadInv'
  BY <1>3, UnchangedReadInv, Zenon
     DEF HandleAccept, HandleReadError, HandleWrite, Completes, server
<1>4. ASSUME NEW c \in Clients, NEW t \in Threads, HandleReadBegin(t, c) \/ HandleRead(t, c)
      PROVE  ReadInv'
  BY <1>4, ReadBeginReadInv, ReadReadInv, Zenon
<1>5. ASSUME Die PROVE ReadInv'
  BY <1>5, UnchangedReadInv, Zenon DEF Die, client
<1>6. ASSUME NEW c \in Clients, NEW t \in Threads, HandlerThrows(t, c) PROVE ReadInv'
  BY <1>5, <1>6, Zenon DEF HandlerThrows
<1>7. CASE HandleStop
  BY <1>7, UnchangedReadInv, Zenon DEF HandleStop, client
<1>8. CASE Exit
  BY <1>5, <1>8, Zenon DEF Exit
<1>9. CASE UNCHANGED vars
  BY <1>9, UnchangedReadInv, Zenon DEF vars
<1> QED
  BY <1>1, <1>2, <1>3, <1>4, <1>6, <1>7, <1>8, <1>9, Zenon DEF Next, Handler

(***************************************************************************)
(* A complete request is made of what its client sent.                     *)
(***************************************************************************)
LEMMA CompleteAsSent == ReadInv => HandledAsSent
<1> SUFFICES ASSUME ReadInv, NEW c \in Clients, parser[c].result = "true"
             PROVE  LET p    == parser[c]
                        s    == Handed(c)
                        clen == atoi[get_header(p, ContentLength)]
                    IN  /\ Len(p.content) = (IF clen > 0 THEN clen ELSE 0) /\ clen <= MaxContent
                        /\ \E h \in DOMAIN s : /\ HeadEndsAt(s, h) /\ h + Len(p.content) <= Len(s)
                                               /\ p.content = SubSeq(s, h + 1, h + Len(p.content))
                        /\ \E i, j \in DOMAIN s :
                             /\ i < j /\ s[i] = SP /\ s[j] = SP
                             /\ p.method = SubSeq(s, 1, i - 1) /\ p.uri = SubSeq(s, i + 1, j - 1)
  BY Zenon DEF HandledAsSent
<1> DEFINE s == Handed(c)
<1>1. s \in Seq(Char)
  <2>1. /\ sent[c] \in Seq(Char) /\ nread[c] \in Nat /\ chunk[c] \in Nat
        /\ chunk[c] <= nread[c] /\ nread[c] <= Len(sent[c])
    BY Zenon DEF ReadInv, Stream
  <2>2. nread[c] - chunk[c] \in 0 .. Len(sent[c])
    BY <2>1, LastRead, SMTT(20)
  <2>3. SubSeq(sent[c], 1, nread[c] - chunk[c]) \in Seq(Char)
    BY <2>1, <2>2, StartType, Zenon
  <2> QED
    BY <2>3, Zenon DEF Handed
<1>2. parser[c] = parse(NewParser, s)
  BY Zenon DEF ReadInv, Stream
<1> HIDE DEF s
<1>3. Complete(parser[c], s)
  BY <1>1, <1>2, ParseReads, Zenon
<1>4. DOMAIN s = 1 .. Len(s)
  BY <1>1
<1> QED
  BY <1>3, <1>4, Zenon DEF Complete, Words, Clen, s

(***************************************************************************)
(* Both invariants hold in every reachable state.                          *)
(***************************************************************************)
LEMMA ReadInvariant == Spec => [](IInv /\ ReadInv)
BY InitIInv, InitReadInv, NextIInv, NextReadInv, PTL DEF Spec

------------------------------------------------------------------------------
(* The theorems *)

(***************************************************************************)
(* However many clients there are and whatever they send, a connection     *)
(* never has two operations, two handlers, or both: its handlers cannot    *)
(* overlap, even if the strand were left out.                              *)
(***************************************************************************)
THEOREM HandlersApart == Spec => []OneOperation
<1>1. Spec => []IInv
  BY InitIInv, NextIInv, PTL DEF Spec
<1> QED BY <1>1, SingleCounts, PTL

(***************************************************************************)
(* reply_ is never changed between async_write and handle_write: the       *)
(* buffers of the status line and of the content stay good.  Nothing is    *)
(* said of the buffers of the headers, whose strings to_buffers has let go.*)
(***************************************************************************)
THEOREM ReplyKept == Spec => ReplyKeptWhileWritten
<1>1. Spec => []IInv
  BY InitIInv, NextIInv, PTL DEF Spec
<1> QED BY <1>1, NextReply, PTL DEF Spec, ReplyKeptWhileWritten

(***************************************************************************)
(* However the bytes of a connection are cut into reads, with whatever     *)
(* other connections, threads and faults in between, its request_parser_   *)
(* is where one call of parse for all of them would have left it.          *)
(***************************************************************************)
THEOREM CutsMakeNoDifference == Spec => []ReadInOnePiece
<1>1. ReadInv => ReadInOnePiece
  BY Zenon DEF ReadInv, Stream, ReadInOnePiece
<1> QED
  BY <1>1, ReadInvariant, PTL

(***************************************************************************)
(* A request that request_handler is given is what the client sent: method *)
(* and uri are its first two words, and the content is the bytes behind    *)
(* the first empty line, exactly as many as atoi makes of Content-Length,  *)
(* for every width of int and of long and every MaxContent.                *)
(***************************************************************************)
THEOREM RequestsAreHandledAsSent == Spec => []HandledAsSent
BY CompleteAsSent, ReadInvariant, PTL
==============================================================================
