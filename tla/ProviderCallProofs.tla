------------------------ MODULE ProviderCallProofs --------------------------
(***************************************************************************)
(* Proofs about ProviderCall, for any number of calls, any conversations,  *)
(* answers, refusals and streams and any timeouts.                         *)
(***************************************************************************)
EXTENDS ProviderCall, SequenceTheorems, WellFoundedInduction, TLAPS

Fields == {"pc", "ask", "body", "client", "wire", "at", "torn", "buf", "event", "input",
           "out", "errored", "expired", "refused", "retry", "answer", "result",
           "elapsed", "gap"}

(* What the vendor answered is what the client is told.                    *)
Translated(s) ==
  s.answer.form = "ok" =>
    /\ s.result.error = None
    /\ s.result.text = ValuesOf(s.answer.blocks, "text")
    /\ s.result.tools = ValuesOf(s.answer.blocks, "tool")
    /\ s.ask.kind = "complete" =>
         ReasonTold(ShapeOf(s.ask), s.answer.finish, s.result.finish)

(* What the vendor refused is what the client is told.                     *)
Explained(s) ==
  LET status == StatusCode(FromProvider(s.result.error)) IN
  /\ s.refused.status \in {401, 403} => status = 503
  /\ s.refused.status = 429 =>
       status = 429 /\ s.refused.retry_after \in {None, s.retry}
  /\ s.refused.status \in {400, 404, 422} => status \in {400, 404}
  /\ s.refused.status >= 500 => status = 503

(* A call: streams run on the streaming client and only they do, a timeout *)
(* that fired is still due, and only a finished call was answered or       *)
(* refused.                                                                *)
CallOK(s) ==
  /\ DOMAIN s = Fields
  /\ s.pc \in {"idle", "lookup", "insert", "sent", "body", "stream", "done"}
  /\ s.pc # "idle" => s.ask \in Asks /\ Validated(s.ask)
  /\ s.pc = "idle" => ~s.expired
  /\ s.pc \in {"lookup", "insert", "body"} => s.ask.kind # "stream" /\ ~s.expired
  /\ s.pc = "sent" => ~s.expired
  /\ s.pc = "stream" => s.ask.kind = "stream"
  /\ s.pc \in {"sent", "stream"} /\ s.ask.kind = "stream" =>
       s.client = StreamClient(s.ask)
  /\ s.pc # "idle" /\ s.ask.kind = "stream" /\ s.expired => s.gap >= StreamGap
  /\ s.pc # "done" => s.refused = None /\ s.answer = None
  /\ s.refused # None => Explained(s)
  /\ s.answer # None => Translated(s)

CallInv ==
  /\ DOMAIN call = Calls
  /\ \A c \in Calls : CallOK(call[c])

-----------------------------------------------------------------------------
(* The timeouts.                                                           *)

(* On the streaming client only a silence is due.                          *)
LEMMA StreamDue ==
  ASSUME NEW s, s.client = StreamClient(s.ask)
  PROVE  Due(s) <=> s.gap >= StreamGap
  BY CallAssumption
  DEF Due, ConfigOf, StreamClient, BuildClient, StreamingConfig

(* Sending on chunks ends a stream or leaves it as it was.                 *)
LEMMA Delivered ==
  ASSUME NEW s, DOMAIN s = Fields, NEW items, NEW over
  PROVE  /\ DOMAIN Deliver(s, items, over) = Fields
         /\ Deliver(s, items, over).pc \in {s.pc, "done"}
         /\ \A f \in Fields \ {"pc", "out", "errored"} :
              Deliver(s, items, over)[f] = s[f]
  BY DEF Deliver, Fields

-----------------------------------------------------------------------------
(* Numbers and loops.  What a loop computes is shown by least counter-     *)
(* example: the first position where it is wrong cannot exist.             *)

(* A set of naturals that is not empty has a least element.                *)
LEMMA LeastExists ==
  ASSUME NEW T \in SUBSET Nat, T # {}
  PROVE  \E x \in T : \A y \in T : x <= y
<1>1. PICK x \in T : \A y \in T : ~(<<y, x>> \in OpToRel(<, Nat))
  BY NatLessThanWellFounded, WFMin
<1>2. ASSUME NEW y \in T PROVE x <= y
  <2>1. ~(<<y, x>> \in OpToRel(<, Nat)) /\ x \in Nat /\ y \in Nat
    BY <1>1
  <2> QED
    BY <2>1 DEF OpToRel
<1> QED
  BY <1>2

(* A set of positions of a list that is not empty has a last one.          *)
LEMMA LastExists ==
  ASSUME NEW n \in Nat, NEW S \in SUBSET (1..n), S # {}
  PROVE  \E i \in S : \A j \in S : j <= i
<1> DEFINE T == {m \in Nat : n - m \in S}
<1>1. \A i \in S : n - i \in T
  BY \A i \in 1..n : n - i \in Nat /\ n - (n - i) = i
<1>2. T \in SUBSET Nat /\ T # {}
  BY <1>1
<1>3. PICK x \in T : \A y \in T : x <= y
  <2> HIDE DEF T
  <2> QED
    BY <1>2, LeastExists
<1>4. n - x \in S /\ x \in Nat
  OBVIOUS
<1>5. ASSUME NEW j \in S PROVE j <= n - x
  <2>1. x <= n - j
    BY <1>1, <1>3
  <2> QED
    BY <2>1, <1>4
<1> QED
  BY <1>4, <1>5

Stepping(G, n, V) == G \in [1..n -> [V -> V]]

Loop(f, G, n, V, a) ==
  f \in [0..n -> V] /\ f[0] = a /\ \A i \in 1..n : f[i] = G[i][f[i - 1]]

(* A step function applied again and again from a first value defines the  *)
(* values of a loop.                                                       *)
LEMMA LoopExists ==
  ASSUME NEW n \in Nat, NEW V, NEW a \in V, NEW G, Stepping(G, n, V)
  PROVE  \E f : Loop(f, G, n, V, a)
<1> SUFFICES \E f \in [0..n -> V] :
               f[0] = a /\ \A i \in 1..n : f[i] = G[i][f[i - 1]]
  BY DEF Loop
<1>0. G \in [1..n -> [V -> V]]
  BY DEF Stepping
<1> DEFINE Good(m) == \E f \in [0..m -> V] :
                        f[0] = a /\ \A i \in 1..m : f[i] = G[i][f[i - 1]]
           T == {m \in Nat : m <= n /\ ~Good(m)}
<1>1. SUFFICES ASSUME T # {} PROVE FALSE
  <2>1. n \notin T => Good(n)
    OBVIOUS
  <2> QED
    BY <2>1
<1>2. PICK m \in T : \A y \in T : m <= y
  <2>1. T \in SUBSET Nat
    OBVIOUS
  <2> HIDE DEF T
  <2> QED
    BY <1>1, <2>1, LeastExists
<1>3. m \in Nat /\ m <= n /\ ~Good(m)
  OBVIOUS
<1>4. m # 0
  <2>1. Good(0)
    <3> DEFINE f == [i \in 0..0 |-> a]
    <3>1. f \in [0..0 -> V] /\ f[0] = a /\ \A i \in 1..0 : f[i] = G[i][f[i - 1]]
      OBVIOUS
    <3> QED
      BY <3>1
  <2> QED
    BY <1>3, <2>1
<1>5. Good(m - 1)
  <2>1. m - 1 \in Nat /\ m - 1 <= n /\ ~(m <= m - 1)
    BY <1>3, <1>4
  <2> QED
    BY <1>2, <2>1
<1>6. PICK g \in [0..(m - 1) -> V] :
        g[0] = a /\ \A i \in 1..(m - 1) : g[i] = G[i][g[i - 1]]
  BY <1>5
<1> DEFINE f == [i \in 0..m |-> IF i = m THEN G[m][g[m - 1]] ELSE g[i]]
<1>7. G[m][g[m - 1]] \in V
  <2>1. m \in 1..n /\ m - 1 \in 0..(m - 1)
    BY <1>3, <1>4
  <2>2. g[m - 1] \in V /\ G[m] \in [V -> V]
    BY <1>0, <2>1
  <2> QED
    BY <2>2
<1>8. f \in [0..m -> V]
  BY <1>3, <1>6, <1>7
<1>9. f[0] = a
  BY <1>3, <1>4, <1>6
<1>10. ASSUME NEW i \in 1..m PROVE f[i] = G[i][f[i - 1]]
  <2>1. f[i - 1] = g[i - 1]
    BY <1>3
  <2>2. CASE i = m
    BY <1>3, <2>1, <2>2
  <2>3. CASE i # m
    <3>1. i \in 1..(m - 1) /\ i \in 0..m
      BY <1>3, <2>3
    <3> QED
      BY <1>6, <2>1, <2>3, <3>1
  <2> QED
    BY <2>2, <2>3
<1>11. Good(m)
  <2> HIDE DEF f
  <2> QED
    BY <1>8, <1>9, <1>10
<1> QED
  BY <1>3, <1>11

-----------------------------------------------------------------------------
(* The event stream.                                                       *)

Tokens == STRING \cup {"?"}

EventSet == [event : Seq(Tokens), data : Seq(Tokens)]

ParserStates ==
  [buf : Seq(Tokens), event : Seq(Tokens), events : Seq(EventSet), over : BOOLEAN]

(* A line of the vendor's that is longer than the buffer may get.          *)
LongLine(w) ==
  \E i \in 0..(Len(w) - MaxLine - 1) :
    \A j \in (i + 1)..(i + MaxLine + 1) : w[j] # "\n"

(* The last k tokens of what was received belong to one line.              *)
Unfinished(w, at, k) == k <= at /\ \A j \in (at - k + 1)..at : w[j] # "\n"

(* Trimming leaves a piece of the line.                                    *)
LEMMA TrimSeq ==
  ASSUME NEW line \in Seq(Tokens)
  PROVE  TrimStart(line) \in Seq(Tokens) /\ Trim(line) \in Seq(Tokens)
<1> DEFINE kept == {i \in DOMAIN line : line[i] \notin White}
<1>1. CASE kept = {}
  BY <1>1 DEF TrimStart, Trim
<1>2. CASE kept # {}
  <2>1. kept \in SUBSET (1..Len(line)) /\ kept \in SUBSET Nat /\ Len(line) \in Nat
    BY LenProperties
  <2>2. Min(kept) \in 1..Len(line)
    <3> HIDE DEF kept
    <3>1. \E x \in kept : \A y \in kept : x <= y
      BY <1>2, <2>1, LeastExists
    <3> QED
      BY <2>1, <3>1 DEF Min
  <2>3. Max(kept) \in 1..Len(line)
    <3> HIDE DEF kept
    <3>1. \E x \in kept : \A y \in kept : x >= y
      BY <1>2, <2>1, LastExists
    <3> QED
      BY <2>1, <3>1 DEF Max
  <2>4. /\ TrimStart(line) = SubSeq(line, Min(kept), Len(line))
        /\ Trim(line) = SubSeq(line, Min(kept), Max(kept))
    BY <1>2 DEF TrimStart, Trim
  <2> HIDE DEF kept
  <2>5. ASSUME NEW a \in 1..Len(line), NEW b \in 1..Len(line)
        PROVE  SubSeq(line, a, b) \in Seq(Tokens)
    BY <2>1, SubSeqProperties
  <2>6. Len(line) \in 1..Len(line)
    BY <2>1, <2>2
  <2> QED
    BY <2>2, <2>3, <2>4, <2>5, <2>6
<1> QED
  BY <1>1, <1>2

(* A state stays one when a field is replaced.                             *)
LEMMA ParserField ==
  ASSUME NEW s \in ParserStates
  PROVE  /\ \A b \in Seq(Tokens) : /\ [s EXCEPT !.buf = b] \in ParserStates
                                   /\ [s EXCEPT !.buf = b].buf = b
                                   /\ [s EXCEPT !.buf = b].over = s.over
         /\ \A e \in Seq(Tokens) : [s EXCEPT !.event = e] \in ParserStates
         /\ \A e \in Seq(EventSet) : [s EXCEPT !.events = e] \in ParserStates
         /\ [s EXCEPT !.over = TRUE] \in ParserStates
<1>1. PICK B, E : B = Seq(Tokens) /\ E = Seq(EventSet)
  OBVIOUS
<1>2. ParserStates = [buf : B, event : B, events : E, over : BOOLEAN]
  BY <1>1 DEF ParserStates
<1>3. /\ \A b \in B : /\ [s EXCEPT !.buf = b] \in ParserStates
                      /\ [s EXCEPT !.buf = b].buf = b
                      /\ [s EXCEPT !.buf = b].over = s.over
      /\ \A e \in B : [s EXCEPT !.event = e] \in ParserStates
      /\ \A e \in E : [s EXCEPT !.events = e] \in ParserStates
      /\ [s EXCEPT !.over = TRUE] \in ParserStates
  BY <1>2
<1> QED
  BY <1>1, <1>3

(* One token keeps the parser's state typed; the end of a line empties the *)
(* buffer, another token grows it.                                         *)
LEMMA TokenTaken ==
  ASSUME NEW s \in ParserStates, NEW token \in Tokens
  PROVE  /\ TakeToken(s, token) \in ParserStates
         /\ s.over => TakeToken(s, token) = s
         /\ ~s.over /\ token = "\n" => TakeToken(s, token).buf = << >>
         /\ ~s.over /\ token # "\n" =>
              TakeToken(s, token).buf = Append(s.buf, token) /\ ~TakeToken(s, token).over
<1>1. CASE s.over
  BY <1>1 DEF TakeToken
<1>2. CASE ~s.over /\ token # "\n"
  <2>1. Append(s.buf, token) \in Seq(Tokens)
    BY DEF ParserStates
  <2>2. TakeToken(s, token) = [s EXCEPT !.buf = Append(s.buf, token)]
    BY <1>2 DEF TakeToken
  <2> QED
    BY <1>2, <2>1, <2>2, ParserField
<1>3. CASE ~s.over /\ token = "\n"
  <2> DEFINE l == Trim(s.buf)
             rest == IF l = << >> THEN << >> ELSE TrimStart(Tail(l))
             t == TakeLine(s, s.buf)
  <2>1. l \in Seq(Tokens)
    BY TrimSeq DEF ParserStates
  <2>2. rest \in Seq(Tokens)
    <3> HIDE DEF l
    <3>1. l # << >> => Tail(l) \in Seq(Tokens)
      BY <2>1, HeadTailProperties
    <3> QED
      BY <2>1, <3>1, TrimSeq
  <2>3. t \in ParserStates
    <3>1. t \in {s, [s EXCEPT !.event = << >>], [s EXCEPT !.event = rest],
                  [s EXCEPT !.over = TRUE],
                  [s EXCEPT !.events = Append(@, [event |-> s.event, data |-> rest])]}
      <4>1. /\ l = << >> => t = [s EXCEPT !.event = << >>]
            /\ l # << >> /\ Head(l) = "event:" => t = [s EXCEPT !.event = rest]
            /\ l # << >> /\ Head(l) = "data:" /\ rest = <<"[DONE]">> =>
                 t = [s EXCEPT !.over = TRUE]
            /\ l # << >> /\ Head(l) = "data:" /\ rest # <<"[DONE]">> =>
                 t = [s EXCEPT !.events = Append(@, [event |-> s.event, data |-> rest])]
            /\ l # << >> /\ Head(l) \notin {"event:", "data:"} => t = s
        BY DEF TakeLine
      <4> HIDE DEF l, rest, t
      <4> QED
        BY <4>1
    <3> HIDE DEF t, rest
    <3>2. [event |-> s.event, data |-> rest] \in EventSet
      BY <2>2 DEF ParserStates, EventSet
    <3>3. Append(s.events, [event |-> s.event, data |-> rest]) \in Seq(EventSet)
      BY <3>2 DEF ParserStates
    <3>4. << >> \in Seq(Tokens)
      OBVIOUS
    <3>5. PICK new \in Seq(EventSet) :
            new = Append(s.events, [event |-> s.event, data |-> rest])
      BY <3>3
    <3>6. /\ [s EXCEPT !.event = << >>] \in ParserStates
          /\ [s EXCEPT !.event = rest] \in ParserStates
          /\ [s EXCEPT !.over = TRUE] \in ParserStates
          /\ [s EXCEPT !.events = new] \in ParserStates
      BY <2>2, <3>4, ParserField
    <3>7. t \in {s, [s EXCEPT !.event = << >>], [s EXCEPT !.event = rest],
                  [s EXCEPT !.over = TRUE], [s EXCEPT !.events = new]}
      BY <3>1, <3>5
    <3> QED
      BY <3>6, <3>7
  <2>4. TakeToken(s, token) = [t EXCEPT !.buf = << >>]
    BY <1>3 DEF TakeToken
  <2> HIDE DEF t
  <2>5. << >> \in Seq(Tokens)
    OBVIOUS
  <2>6. [t EXCEPT !.buf = << >>] \in ParserStates /\ [t EXCEPT !.buf = << >>].buf = << >>
    BY <2>3, <2>5, ParserField
  <2> QED
    BY <1>3, <2>4, <2>6
<1> QED
  BY <1>1, <1>2, <1>3 DEF ParserStates

(* Replacing the pieces of a cut character moves no end of line.           *)
LEMMA LossyText ==
  ASSUME NEW chunk \in Seq(Tokens)
  PROVE  /\ Lossy(chunk) \in Seq(Tokens) /\ Len(Lossy(chunk)) = Len(chunk)
         /\ \A i \in 1..Len(chunk) : Lossy(chunk)[i] = "\n" <=> chunk[i] = "\n"
<1>1. DOMAIN chunk = 1..Len(chunk) /\ Len(chunk) \in Nat
  BY LenProperties
<1>2. \A i \in 1..Len(chunk) : Lossy(chunk)[i] \in {"?", chunk[i]}
                              /\ (Lossy(chunk)[i] = "?" =>
                                    chunk[i] \in {"u1", "u2", "?"})
  BY <1>1 DEF Lossy
<1>3. /\ DOMAIN Lossy(chunk) = 1..Len(chunk)
      /\ \A i \in 1..Len(chunk) : Lossy(chunk)[i] \in Tokens
  <2>1. \A i \in 1..Len(chunk) : chunk[i] \in Tokens
    BY <1>1, ElementOfSeq
  <2>2. DOMAIN Lossy(chunk) = 1..Len(chunk)
    BY <1>1 DEF Lossy
  <2>3. ASSUME NEW i \in 1..Len(chunk) PROVE Lossy(chunk)[i] \in Tokens
    <3>1. Lossy(chunk)[i] = "?" \/ Lossy(chunk)[i] = chunk[i]
      BY <1>2
    <3>2. chunk[i] \in Tokens
      BY <2>1
    <3>3. "?" \in Tokens
      BY DEF Tokens
    <3> QED
      BY <3>1, <3>2, <3>3, Zenon
  <2> QED
    BY <2>2, <2>3
<1>4. Lossy(chunk) = [i \in 1..Len(chunk) |-> Lossy(chunk)[i]]
  BY <1>1 DEF Lossy
<1>5. Lossy(chunk) \in Seq(Tokens)
  BY <1>1, <1>3, <1>4, IsASeq
<1>6. Len(Lossy(chunk)) = Len(chunk)
  BY <1>1, <1>3, <1>5, LenProperties
<1> QED
  BY <1>2, <1>5, <1>6

(* The loop over a chunk's tokens takes one after the other.               *)
LEMMA TokenLoop ==
  ASSUME NEW buf \in Seq(Tokens), NEW event \in Seq(Tokens), NEW text \in Seq(Tokens)
  PROVE  LET f == TakeTokens(buf, event, text) IN
         /\ f \in [0..Len(text) -> ParserStates]
         /\ f[0] = [buf |-> buf, event |-> event, events |-> << >>, over |-> FALSE]
         /\ \A i \in 1..Len(text) : f[i] = TakeToken(f[i - 1], text[i])
<1>0. PICK n \in Nat : n = Len(text)
  BY LenProperties
<1>1. PICK V : n = Len(text) /\ V = ParserStates
  BY <1>0
<1> DEFINE first == [buf |-> buf, event |-> event, events |-> << >>, over |-> FALSE]
           Step(i, s) == TakeToken(s, text[i])
           Body(f) == [i \in 0..n |-> IF i = 0 THEN first ELSE Step(i, f[i - 1])]
<1>2. first \in V
  <2>1. << >> \in Seq(EventSet)
    OBVIOUS
  <2> QED
    BY <1>1, <2>1 DEF ParserStates
<1>3. ASSUME NEW i \in 1..n, NEW s \in V PROVE Step(i, s) \in V
  <2>1. text[i] \in Tokens
    BY <1>1, ElementOfSeq
  <2> QED
    BY <1>1, <2>1, TokenTaken
<1>4. TakeTokens(buf, event, text) = CHOOSE f : f = Body(f)
  BY <1>1 DEF TakeTokens
<1> HIDE DEF Step, first
<1>5. \E f \in [0..n -> V] : f = Body(f)
  <2> DEFINE G == [i \in 1..n |-> [s \in V |-> Step(i, s)]]
  <2>1. Stepping(G, n, V)
    BY <1>3 DEF Stepping
  <2>2. \E f : Loop(f, G, n, V, first)
    <3> HIDE DEF G
    <3> QED
      BY <1>2, <2>1, LoopExists, Zenon
  <2>3. PICK f \in [0..n -> V] : f[0] = first /\ \A i \in 1..n : f[i] = G[i][f[i - 1]]
    BY <2>2 DEF Loop
  <2>4. ASSUME NEW i \in 0..n PROVE f[i] = IF i = 0 THEN first ELSE Step(i, f[i - 1])
    <3>1. CASE i = 0
      BY <2>3, <3>1
    <3>2. CASE i # 0
      <4>1. i \in 1..n /\ i - 1 \in 0..n
        BY <3>2
      <4>2. f[i - 1] \in V
        BY <4>1
      <4> QED
        BY <2>3, <3>2, <4>1, <4>2
    <3> QED
      BY <3>1, <3>2
  <2>5. f = Body(f)
    BY <2>4
  <2> QED
    BY <2>5
<1>6. PICK f : f = TakeTokens(buf, event, text) /\ f = Body(f)
  <2> HIDE DEF Body
  <2> QED
    BY <1>4, <1>5
<1>7. f[0] = first /\ \A i \in 1..n : f[i] = Step(i, f[i - 1])
  BY <1>6
<1>8. \A i \in 0..n : f[i] \in V
  <2> DEFINE T == {i \in Nat : i <= n /\ f[i] \notin V}
  <2>1. SUFFICES ASSUME T # {} PROVE FALSE
    OBVIOUS
  <2>2. PICK t \in T : \A y \in T : t <= y
    <3>1. T \in SUBSET Nat
      OBVIOUS
    <3> HIDE DEF T
    <3> QED
      BY <2>1, <3>1, LeastExists
  <2>3. t # 0
    BY <1>2, <1>7
  <2>4. t \in 1..n /\ t - 1 \in Nat /\ t - 1 <= n /\ ~(t <= t - 1)
    BY <2>3
  <2>5. f[t - 1] \in V
    BY <2>2, <2>4
  <2> QED
    BY <1>3, <1>7, <2>4, <2>5
<1>9. f \in [0..n -> V]
  BY <1>6, <1>8
<1> QED
  BY <1>1, <1>6, <1>7, <1>9 DEF Step, first

(* After a chunk the buffer holds the start of the line that is being      *)
(* received, or nothing if the stream is over.                             *)
LEMMA TokensBuffered ==
  ASSUME NEW w \in Seq(Tokens), NEW at \in Nat, NEW n \in Nat, at + n <= Len(w),
         NEW buf \in Seq(Tokens), NEW event \in Seq(Tokens), Unfinished(w, at, Len(buf))
  PROVE  LET s == TakeTokens(buf, event, Lossy(SubSeq(w, at + 1, at + n)))[n] IN
         /\ s \in ParserStates
         /\ IF s.over THEN s.buf = << >> ELSE Unfinished(w, at + n, Len(s.buf))
<1>0. Len(w) \in Nat
  BY LenProperties
<1>1. PICK chunk \in Seq(Tokens) :
        /\ chunk = SubSeq(w, at + 1, at + n) /\ Len(chunk) = n
        /\ \A i \in 1..n : chunk[i] = w[at + i]
  <2>1. /\ SubSeq(w, at + 1, at + n) \in Seq(Tokens)
        /\ Len(SubSeq(w, at + 1, at + n)) = n
        /\ \A i \in 1..n : SubSeq(w, at + 1, at + n)[i] = w[at + i]
    <3>1. at + 1 \in 1..(Len(w) + 1) /\ at + n \in at..Len(w) /\ (at + n) - (at + 1) + 1 = n
      BY <1>0
    <3>2. \A i \in 1..n : (at + 1) + i - 1 = at + i
      OBVIOUS
    <3>3. \A i \in (at + 1)..(at + n) : w[i] \in Tokens
      BY <1>0, ElementOfSeq
    <3>4. CASE n = 0
      BY <3>3, <3>4, SubSeqProperties
    <3>5. CASE n # 0
      <4>1. at + 1 <= at + n
        BY <3>5
      <4> QED
        BY <3>1, <3>2, <3>3, <4>1, SubSeqProperties
    <3> QED
      BY <3>4, <3>5
  <2> QED
    BY <2>1
<1>2. PICK text \in Seq(Tokens) :
        /\ text = Lossy(chunk) /\ Len(text) = n
        /\ \A i \in 1..n : text[i] = "\n" <=> w[at + i] = "\n"
  <2>1. /\ Lossy(chunk) \in Seq(Tokens) /\ Len(Lossy(chunk)) = n
        /\ \A i \in 1..n : Lossy(chunk)[i] = "\n" <=> chunk[i] = "\n"
    BY <1>1, LossyText
  <2> QED
    BY <1>1, <2>1
<1>3. PICK f \in [0..n -> ParserStates] :
        /\ f = TakeTokens(buf, event, text)
        /\ f[0] = [buf |-> buf, event |-> event, events |-> << >>, over |-> FALSE]
        /\ \A i \in 1..n : f[i] = TakeToken(f[i - 1], text[i])
  <2>1. LET g == TakeTokens(buf, event, text) IN
        /\ g \in [0..Len(text) -> ParserStates]
        /\ g[0] = [buf |-> buf, event |-> event, events |-> << >>, over |-> FALSE]
        /\ \A i \in 1..Len(text) : g[i] = TakeToken(g[i - 1], text[i])
    BY TokenLoop
  <2> QED
    BY <1>2, <2>1
<1> DEFINE Good(i) == IF f[i].over THEN f[i].buf = << >> ELSE Unfinished(w, at + i, Len(f[i].buf))
<1>4. Good(0)
  BY <1>3
<1>5. ASSUME NEW i \in 1..n, Good(i - 1) PROVE Good(i)
  <2>1. PICK s \in ParserStates, token \in Tokens :
          /\ s = f[i - 1] /\ token = text[i] /\ f[i] = TakeToken(s, token)
          /\ IF s.over THEN s.buf = << >> ELSE Unfinished(w, at + i - 1, Len(s.buf))
    <3>1. i - 1 \in 0..n /\ text[i] \in Tokens /\ at + (i - 1) = at + i - 1
      BY <1>2, ElementOfSeq
    <3> QED
      BY <1>3, <1>5, <3>1
  <2>2. CASE s.over
    BY <2>1, <2>2, TokenTaken
  <2>3. CASE ~s.over /\ token = "\n"
    <3>1. f[i].buf = << >>
      BY <2>1, <2>3, TokenTaken
    <3> QED
      BY <3>1 DEF Unfinished
  <2>4. CASE ~s.over /\ token # "\n"
    <3>1. /\ f[i].buf = Append(s.buf, token) /\ ~f[i].over
          /\ Len(s.buf) \in Nat /\ Len(f[i].buf) = Len(s.buf) + 1
      <4>1. f[i].buf = Append(s.buf, token) /\ ~f[i].over
        BY <2>1, <2>4, TokenTaken
      <4>2. s.buf \in Seq(Tokens)
        BY DEF ParserStates
      <4> QED
        BY <4>1, <4>2, LenProperties, AppendProperties
    <3>2. w[at + i] # "\n"
      BY <1>2, <2>1, <2>4
    <3>3. Unfinished(w, at + i - 1, Len(s.buf))
      BY <2>1, <2>4
    <3>4. Unfinished(w, at + i, Len(f[i].buf))
      <4>1. PICK k \in Nat, m \in Nat :
              k = Len(s.buf) /\ Len(f[i].buf) = k + 1 /\ m = at + i - 1 /\ at + i = m + 1
        BY <3>1
      <4>2. k <= m /\ \A j \in (m - k + 1)..m : w[j] # "\n"
        BY <3>3, <4>1 DEF Unfinished
      <4>3. ASSUME NEW j \in (m + 1 - (k + 1) + 1)..(m + 1) PROVE w[j] # "\n"
        <5>1. j = m + 1 \/ j \in (m - k + 1)..m
          BY <4>2
        <5> QED
          BY <3>2, <4>1, <4>2, <5>1
      <4>4. k + 1 <= m + 1
        BY <4>2
      <4>5. Unfinished(w, m + 1, k + 1)
        BY <4>3, <4>4 DEF Unfinished
      <4> QED
        BY <4>1, <4>5
    <3> QED
      BY <3>1, <3>4
  <2> QED
    BY <2>2, <2>3, <2>4
<1>6. Good(n)
  <2> HIDE DEF Good
  <2> DEFINE T == {i \in Nat : i <= n /\ ~Good(i)}
  <2>1. SUFFICES ASSUME T # {} PROVE FALSE
    <3>1. n \notin T => Good(n)
      OBVIOUS
    <3> QED
      BY <3>1
  <2>2. PICK t \in T : \A y \in T : t <= y
    <3>1. T \in SUBSET Nat
      OBVIOUS
    <3> HIDE DEF T
    <3> QED
      BY <2>1, <3>1, LeastExists
  <2>3. t # 0
    BY <1>4
  <2>4. t \in 1..n /\ t - 1 \in Nat /\ t - 1 <= n /\ ~(t <= t - 1)
    BY <2>3
  <2>5. Good(t - 1)
    BY <2>2, <2>4
  <2> QED
    BY <1>5, <2>4, <2>5
<1>7. TakeTokens(buf, event, Lossy(SubSeq(w, at + 1, at + n)))[n] = f[n]
  BY <1>1, <1>2, <1>3
<1>8. f[n] \in ParserStates
  BY <1>3
<1> QED
  BY <1>6, <1>7, <1>8

(* One chunk: the buffer stays within its bound, and a line is given up    *)
(* only if the vendor's line is too long.                                  *)
LEMMA ChunkTaken ==
  ASSUME NEW w \in Seq(Tokens), NEW at \in Nat, NEW n \in Nat, at + n <= Len(w),
         NEW buf \in Seq(Tokens), NEW event \in Seq(Tokens), Unfinished(w, at, Len(buf))
  PROVE  LET took == TakeChunk(buf, event, SubSeq(w, at + 1, at + n)) IN
         /\ took.buf \in Seq(Tokens) /\ Len(took.buf) <= MaxLine
         /\ took.event \in Seq(Tokens) /\ took.events \in Seq(EventSet)
         /\ Unfinished(w, at + n, Len(took.buf))
         /\ took.long => LongLine(w)
<1>0. Len(w) \in Nat /\ MaxLine \in Nat
  BY LenProperties, WireAssumption
<1>1. PICK chunk : chunk = SubSeq(w, at + 1, at + n)
  OBVIOUS
<1>2. Len(chunk) = n
  <2>1. CASE n = 0
    BY <1>1, <2>1, SubSeqEmpty
  <2>2. CASE n # 0
    <3>1. \A i \in (at + 1)..(at + n) : w[i] \in Tokens
      BY <1>0, ElementOfSeq
    <3>2. at + 1 <= at + n /\ (at + n) - (at + 1) + 1 = n
      BY <2>2
    <3> QED
      BY <1>1, <3>1, <3>2, SubSeqProperties
  <2> QED
    BY <2>1, <2>2
<1>3. PICK s \in ParserStates :
        /\ s = TakeTokens(buf, event, Lossy(chunk))[n]
        /\ IF s.over THEN s.buf = << >> ELSE Unfinished(w, at + n, Len(s.buf))
  BY <1>1, TokensBuffered
<1> DEFINE long == ~s.over /\ Len(s.buf) > MaxLine
           took == TakeChunk(buf, event, chunk)
<1>4. /\ took.buf = IF long THEN << >> ELSE s.buf
      /\ took.event = s.event /\ took.events = s.events /\ took.long = long
  BY <1>2, <1>3 DEF TakeChunk, TooLong
<1>5. /\ s.buf \in Seq(Tokens) /\ Len(s.buf) \in Nat /\ s.event \in Seq(Tokens)
      /\ s.events \in Seq(EventSet) /\ << >> \in Seq(Tokens) /\ Len(<< >>) = 0
  BY LenProperties DEF ParserStates
<1>6. Unfinished(w, at + n, Len(<< >>))
  BY <1>5 DEF Unfinished
<1>7. long => LongLine(w)
  <2> SUFFICES ASSUME long PROVE LongLine(w)
    OBVIOUS
  <2>1. PICK k \in Nat : k = Len(s.buf) /\ k > MaxLine
    BY <1>5
  <2>2. k <= at + n /\ \A j \in (at + n - k + 1)..(at + n) : w[j] # "\n"
    <3>1. Unfinished(w, at + n, k)
      BY <1>3, <2>1
    <3> QED
      BY <3>1 DEF Unfinished
  <2>3. PICK i \in Nat : i = at + n - k
    BY <2>2
  <2>4. i \in 0..(Len(w) - MaxLine - 1)
    BY <1>0, <2>1, <2>2, <2>3
  <2>5. \A j \in (i + 1)..(i + MaxLine + 1) : j \in (at + n - k + 1)..(at + n)
    BY <1>0, <2>1, <2>2, <2>3
  <2> QED
    BY <2>2, <2>4, <2>5 DEF LongLine
<1>8. CASE long
  <2>1. took.buf = << >> /\ took.long
    BY <1>4, <1>8
  <2>2. Len(<< >>) <= MaxLine
    BY <1>0, <1>5
  <2> HIDE DEF took, long
  <2> QED
    BY <1>1, <1>4, <1>5, <1>6, <1>7, <1>8, <2>1, <2>2 DEF took
<1>9. CASE ~long
  <2>1. Len(s.buf) <= MaxLine
    BY <1>0, <1>3, <1>5, <1>9
  <2>2. Unfinished(w, at + n, Len(s.buf))
    BY <1>3, <1>6
  <2> QED
    BY <1>1, <1>4, <1>5, <1>9, <2>1, <2>2
<1> QED
  BY <1>8, <1>9

(* What a stream's items may be: their text is what was received, or what  *)
(* is read where a part has none.                                          *)
Texts == Seq(Tokens) \cup {<<d[2]>> : d \in Seq(Tokens)} \cup {<<t>> : t \in Tokens}

Usages == {None} \cup [prompt : Nat, completion : Nat, total : Nat]

(* Why a stream ended, if it is said.                                      *)
Reasons == {None, "stop", "length", "tool_calls"} \cup Tokens

ItemSet(errors) ==
  [text : Texts, tools : Texts, finish : Reasons, usage : Usages, error : errors]

ParseErrors == {None, "parse", "panic"}
Errors == ParseErrors \cup {"network", "line_too_long"}

(* A counter's sum is a usage.                                             *)
LEMMA CountedUsage ==
  ASSUME NEW p \in Nat, NEW q \in Nat
  PROVE  Counted(p, q) \in Usages
  BY DEF Counted, Usages

(* The items the vendors' events become.                                   *)
LEMMA ItemsTyped ==
  /\ \A t \in Texts : Text(t) \in ItemSet(ParseErrors)
  /\ \A e \in Errors : Problem(e) \in ItemSet(Errors)
  /\ \A e \in {"parse", "panic"} : Problem(e) \in ItemSet(ParseErrors)
  /\ \A t \in Texts : Item(<< >>, t, None, None, None) \in ItemSet(ParseErrors)
  /\ \A u \in Usages, f \in Reasons : Ending(f, u) \in ItemSet(ParseErrors)
  /\ ItemSet(ParseErrors) \subseteq ItemSet(Errors)
<1>1. << >> \in Texts /\ None \in Usages /\ None \in Reasons
  BY DEF Texts, Usages, Reasons
<1> QED
  BY <1>1 DEF ItemSet, Text, Ending, Problem, Item, ParseErrors, Errors

(* A reason stays one when it is translated.                               *)
LEMMA ReasonsTyped ==
  ASSUME NEW data \in Seq(Tokens)
  PROVE  /\ ReasonIn(data) \in Reasons
         /\ AnthropicFinish(ReasonIn(data)) \in Reasons
         /\ GeminiFinish(ReasonIn(data)) \in Reasons
<1>1. ReasonIn(data) \in Reasons
  <2>1. Len(data) \in Nat /\ (~(Len(data) < 2) => data[2] \in Tokens)
    BY ElementOfSeq, LenProperties
  <2> QED
    BY <2>1 DEF ReasonIn, Reasons
<1>2. PICK r \in Reasons : r = ReasonIn(data)
  BY <1>1
<1>3. "stop" \in Reasons /\ "length" \in Reasons /\ "tool_calls" \in Reasons
  BY DEF Reasons
<1>4. AnthropicFinish(r) \in {"stop", "length", "tool_calls", r}
  BY DEF AnthropicFinish
<1>5. GeminiFinish(r) \in {"stop", "length", r}
  BY DEF GeminiFinish
<1> QED
  BY <1>1, <1>2, <1>3, <1>4, <1>5

(* An event of the vendor's, whatever it holds, becomes items.             *)
LEMMA EventParsed ==
  ASSUME NEW shape, NEW ev \in EventSet, NEW input \in Nat
  PROVE  /\ ParseEvent(shape, ev, input).input \in Nat
         /\ ParseEvent(shape, ev, input).items \in Seq(ItemSet(ParseErrors))
<1>0. /\ PromptTokens \in Nat /\ CompletionTokens \in Nat
      /\ ev.data \in Seq(Tokens) /\ ev.event \in Seq(Tokens)
  BY WireAssumption DEF EventSet
<1>1. PICK I : I = ItemSet(ParseErrors)
  OBVIOUS
<1>2. \A x \in I : <<x>> \in Seq(I)
  OBVIOUS
<1>3. << >> \in Seq(I)
  OBVIOUS
<1>4. /\ << >> \in Texts /\ \A t \in Tokens : <<t>> \in Texts
      /\ <<ev.data[2]>> \in Texts
      /\ ev.data # << >> => Tail(ev.data) \in Texts /\ Tail(ev.data) \in Seq(Tokens)
  BY <1>0, HeadTailProperties DEF Texts
<1>5. /\ \A t \in Texts : Text(t) \in I
      /\ Problem("parse") \in I /\ Problem("panic") \in I
      /\ \A t \in Texts : Item(<< >>, t, None, None, None) \in I
      /\ \A u \in Usages, f \in Reasons : Ending(f, u) \in I
  BY <1>1, ItemsTyped
<1>6. /\ Counted(PromptTokens, CompletionTokens) \in Usages
      /\ Counted(input, CompletionTokens) \in Usages
  BY <1>0, CountedUsage
<1>r. PICK why \in Reasons, whyA \in Reasons, whyG \in Reasons :
        /\ why = ReasonIn(ev.data)
        /\ whyA = AnthropicFinish(ReasonIn(ev.data))
        /\ whyG = GeminiFinish(ReasonIn(ev.data))
  BY <1>0, ReasonsTyped
<1>7. CASE shape = "anthropic"
  <2> DEFINE r == AnthropicEvent(ev.event, ev.data, input)
  <2>1. \/ r = [input |-> input, items |-> << >>]
        \/ \E t \in Texts, i \in Nat : r = [input |-> i, items |-> <<Text(t)>>]
        \/ r = [input |-> input, items |-> <<Problem("panic")>>]
        \/ r = [input |-> input,
                items |-> <<Ending(whyA, Counted(input, CompletionTokens))>>]
    BY <1>0, <1>4, <1>r DEF AnthropicEvent, KindOf
  <2>2. r.input \in Nat /\ r.items \in Seq(I)
    <3>1. CASE \E t \in Texts, i \in Nat : r = [input |-> i, items |-> <<Text(t)>>]
      <4>1. PICK t \in Texts, i \in Nat : r = [input |-> i, items |-> <<Text(t)>>]
        BY <3>1
      <4>2. <<Text(t)>> \in Seq(I)
        BY <1>2, <1>5
      <4> HIDE DEF r
      <4> QED
        BY <4>1, <4>2
    <3>2. <<Problem("panic")>> \in Seq(I)
      BY <1>2, <1>5
    <3>3. <<Ending(whyA, Counted(input, CompletionTokens))>> \in Seq(I)
      BY <1>2, <1>5, <1>6
    <3> HIDE DEF r
    <3>4. CASE r = [input |-> input, items |-> << >>]
      BY <1>3, <3>4
    <3>5. CASE r = [input |-> input, items |-> <<Problem("panic")>>]
      BY <3>2, <3>5
    <3>6. CASE r = [input |-> input,
                    items |-> <<Ending(whyA, Counted(input, CompletionTokens))>>]
      BY <3>3, <3>6
    <3> QED
      BY <2>1, <3>1, <3>4, <3>5, <3>6
  <2> QED
    BY <1>1, <1>7, <2>2 DEF ParseEvent
<1>8. CASE shape = "gemini"
  <2> DEFINE c == GeminiChunks(ev.data)
  <2>1. c \in Seq(I)
    <3>1. CASE KindOf(ev.data) = "two"
      <4>1. ev.data # << >>
        BY <3>1 DEF KindOf
      <4>2. PICK d \in Seq(Tokens) : d = Tail(ev.data)
        BY <1>4, <4>1
      <4>3. DOMAIN d = 1..Len(d) /\ Len(d) \in Nat /\ \A i \in 1..Len(d) : d[i] \in Tokens
        BY LenProperties, ElementOfSeq
      <4>4. c = [i \in 1..Len(d) |-> Text(<<d[i]>>)]
        BY <3>1, <4>2, <4>3 DEF GeminiChunks, Map
      <4>5. \A i \in 1..Len(d) : Text(<<d[i]>>) \in I
        BY <1>4, <1>5, <4>3
      <4> QED
        BY <4>3, <4>4, <4>5, IsASeq
    <3>2. CASE KindOf(ev.data) # "two"
      <4>1. \/ c = << >>
            \/ c = <<Problem("parse")>> \/ c = <<Problem("panic")>>
            \/ ev.data # << >> /\ c = <<Text(Tail(ev.data))>>
            \/ c = <<Text(<<ev.data[2]>>)>> \/ c = <<Text(<< >>)>>
            \/ c = <<Ending(whyG, Counted(PromptTokens, CompletionTokens))>>
        BY <1>r, <3>2 DEF GeminiChunks, KindOf
      <4> HIDE DEF c
      <4> QED
        BY <1>2, <1>3, <1>4, <1>5, <1>6, <4>1
    <3> QED
      BY <3>1, <3>2
  <2> QED
    BY <1>1, <1>8, <2>1 DEF ParseEvent
<1>9. CASE shape \notin {"anthropic", "gemini"}
  <2> DEFINE c == OpenAiChunk(ev.data)
  <2>1. \/ ev.data # << >> /\ c = Text(Tail(ev.data))
        \/ c = Problem("parse")
        \/ ev.data # << >> /\ c = Item(<< >>, Tail(ev.data), None, None, None)
        \/ c = Ending(why, None)
        \/ c = Ending(None, Counted(PromptTokens, CompletionTokens))
    BY <1>r DEF OpenAiChunk, KindOf
  <2>2. None \in Usages /\ None \in Reasons
    BY DEF Usages, Reasons
  <2>3. c \in I
    <3> HIDE DEF c
    <3> QED
      BY <1>4, <1>5, <1>6, <2>1, <2>2
  <2> QED
    BY <1>0, <1>1, <1>2, <1>9, <2>3 DEF ParseEvent
<1> QED
  BY <1>7, <1>8, <1>9

(* The loop over a chunk's events parses one after the other.              *)
LEMMA EventsParsed ==
  ASSUME NEW shape, NEW events \in Seq(EventSet), NEW input \in Nat
  PROVE  /\ ParseEvents(shape, events, input).input \in Nat
         /\ ParseEvents(shape, events, input).items \in Seq(ItemSet(ParseErrors))
<1>0. PICK I : I = ItemSet(ParseErrors)
  OBVIOUS
<1>n. PICK n \in Nat : n = Len(events)
  BY LenProperties
<1>1. PICK V : n = Len(events) /\ V = [input : Nat, items : Seq(I)]
  BY <1>n
<1> DEFINE first == [input |-> input, items |-> << >>]
           Step(i, s) ==
             [input |-> ParseEvent(shape, events[i], s.input).input,
              items |-> s.items \o ParseEvent(shape, events[i], s.input).items]
           Body(f) == [i \in 0..n |-> IF i = 0 THEN first ELSE Step(i, f[i - 1])]
<1>2. first \in V
  <2>1. << >> \in Seq(I)
    OBVIOUS
  <2> QED
    BY <1>1, <2>1
<1>3. ASSUME NEW i \in 1..n, NEW s \in V PROVE Step(i, s) \in V
  <2>1. events[i] \in EventSet
    BY <1>1, ElementOfSeq
  <2>2. s.input \in Nat /\ s.items \in Seq(I)
    BY <1>1
  <2>3. PICK p \in Nat, q \in Seq(I) :
          /\ p = ParseEvent(shape, events[i], s.input).input
          /\ q = ParseEvent(shape, events[i], s.input).items
    BY <1>0, <2>1, <2>2, EventParsed
  <2>4. s.items \o q \in Seq(I)
    BY <2>2, ConcatProperties
  <2> QED
    BY <1>1, <2>3, <2>4
<1>4. EventLoop(shape, events, input) = CHOOSE f : f = Body(f)
  BY <1>1 DEF EventLoop
<1> HIDE DEF Step, first
<1>5. \E f \in [0..n -> V] : f = Body(f)
  <2> DEFINE G == [i \in 1..n |-> [s \in V |-> Step(i, s)]]
  <2>1. Stepping(G, n, V)
    BY <1>3 DEF Stepping
  <2>2. \E f : Loop(f, G, n, V, first)
    <3> HIDE DEF G
    <3> QED
      BY <1>2, <2>1, LoopExists, Zenon
  <2>3. PICK f \in [0..n -> V] : f[0] = first /\ \A i \in 1..n : f[i] = G[i][f[i - 1]]
    BY <2>2 DEF Loop
  <2>4. ASSUME NEW i \in 0..n PROVE f[i] = IF i = 0 THEN first ELSE Step(i, f[i - 1])
    <3>1. CASE i = 0
      BY <2>3, <3>1
    <3>2. CASE i # 0
      <4>1. i \in 1..n /\ i - 1 \in 0..n
        BY <3>2
      <4>2. f[i - 1] \in V
        BY <4>1
      <4> QED
        BY <2>3, <3>2, <4>1, <4>2
    <3> QED
      BY <3>1, <3>2
  <2>5. f = Body(f)
    BY <2>4
  <2> QED
    BY <2>5
<1>6. PICK f : f = EventLoop(shape, events, input) /\ f = Body(f)
  <2> HIDE DEF Body
  <2> QED
    BY <1>4, <1>5
<1>7. f[0] = first /\ \A i \in 1..n : f[i] = Step(i, f[i - 1])
  BY <1>6
<1>8. \A i \in 0..n : f[i] \in V
  <2> DEFINE T == {i \in Nat : i <= n /\ f[i] \notin V}
  <2>1. SUFFICES ASSUME T # {} PROVE FALSE
    OBVIOUS
  <2>2. PICK t \in T : \A y \in T : t <= y
    <3>1. T \in SUBSET Nat
      OBVIOUS
    <3> HIDE DEF T
    <3> QED
      BY <2>1, <3>1, LeastExists
  <2>3. t # 0
    BY <1>2, <1>7
  <2>4. t \in 1..n /\ t - 1 \in Nat /\ t - 1 <= n /\ ~(t <= t - 1)
    BY <2>3
  <2>5. f[t - 1] \in V
    BY <2>2, <2>4
  <2> QED
    BY <1>3, <1>7, <2>4, <2>5
<1>9. f \in [0..n -> V]
  BY <1>6, <1>8
<1>10. f[n] \in V
  BY <1>9
<1> QED
  BY <1>0, <1>1, <1>6, <1>10 DEF ParseEvents

-----------------------------------------------------------------------------
(* The stream of a call.                                                   *)

(* The stream of a call: its buffer is bounded and holds the start of a    *)
(* line, while the wire is not at its end, and a line was given up only if *)
(* the vendor's was too long.                                              *)
WireOK(s) ==
  /\ s.pc \notin {"stream", "done"} =>
       s.out = << >> /\ s.buf = << >> /\ s.event = << >> /\ s.input = 0 /\ s.at = 0
  /\ s.buf \in Seq(Tokens) /\ Len(s.buf) <= MaxLine
  /\ s.event \in Seq(Tokens) /\ s.input \in Nat
  /\ s.out \in Seq(ItemSet(Errors))
  /\ s.pc = "stream" => s.wire \in Seq(Tokens) /\ s.at \in Nat
  /\ s.pc = "stream" /\ s.at < Len(s.wire) => Unfinished(s.wire, s.at, Len(s.buf))
  /\ (\E i \in DOMAIN s.out : s.out[i].error = "line_too_long") => LongLine(s.wire)

WireInv == \A c \in Calls : WireOK(call[c])

(* What is kept or ended.                                                  *)
LEMMA WireKept ==
  ASSUME NEW s, WireOK(s), NEW t,
         t.out = s.out, t.buf = s.buf, t.event = s.event, t.input = s.input,
         t.at = s.at, t.wire = s.wire,
         t.pc = s.pc \/ t.pc = "done" \/ (t.pc # "stream" /\ s.pc \notin {"stream", "done"})
  PROVE  WireOK(t)
  BY DEF WireOK

(* The client is sent items, and every one it is sent was made.            *)
LEMMA ForwardedMade ==
  ASSUME NEW S, NEW items \in Seq(S)
  PROVE  /\ Forwarded(items) \in Seq(S)
         /\ \A i \in DOMAIN Forwarded(items) :
              \E j \in DOMAIN items : Forwarded(items)[i] = items[j]
<1> DEFINE bad == {i \in DOMAIN items : items[i].error # None}
<1>1. CASE bad = {}
  BY <1>1 DEF Forwarded
<1>2. CASE bad # {}
  <2>1. /\ DOMAIN items = 1..Len(items) /\ Len(items) \in Nat
        /\ bad \in SUBSET (1..Len(items)) /\ bad \in SUBSET Nat
    BY LenProperties
  <2>2. PICK k \in 1..Len(items) : k = Min(bad)
    <3> HIDE DEF bad
    <3>1. \E x \in bad : \A y \in bad : x <= y
      BY <1>2, <2>1, LeastExists
    <3> QED
      BY <2>1, <3>1 DEF Min
  <2>3. Forwarded(items) = SubSeq(items, 1, k)
    BY <1>2, <2>2 DEF Forwarded
  <2>4. \A i \in 1..k : items[i] \in S
    BY <2>1, ElementOfSeq
  <2>5. /\ SubSeq(items, 1, k) \in Seq(S) /\ Len(SubSeq(items, 1, k)) = k
        /\ \A i \in 1..k : SubSeq(items, 1, k)[i] = items[i]
    <3>1. 1 <= k /\ k - 1 + 1 = k /\ \A i \in 1..k : 1 + i - 1 = i
      BY <2>1
    <3> QED
      BY <2>4, <3>1, SubSeqProperties
  <2>6. DOMAIN SubSeq(items, 1, k) = 1..k
    BY <2>5, LenProperties
  <2>7. \A i \in 1..k : i \in DOMAIN items
    BY <2>1
  <2> QED
    BY <2>3, <2>5, <2>6, <2>7
<1> QED
  BY <1>1, <1>2

(* Sending items on.                                                       *)
LEMMA WireDelivered ==
  ASSUME NEW s, DOMAIN s = Fields, WireOK(s), s.pc = "stream",
         NEW items \in Seq(ItemSet(Errors)), NEW over,
         (\E i \in DOMAIN items : items[i].error = "line_too_long") => LongLine(s.wire)
  PROVE  WireOK(Deliver(s, items, over))
<1>1. PICK I : I = ItemSet(Errors)
  OBVIOUS
<1>2. PICK sent \in Seq(I) :
        /\ sent = (IF s.errored THEN << >> ELSE Forwarded(items))
        /\ \A i \in DOMAIN sent : \E j \in DOMAIN items : sent[i] = items[j]
  <2>1. << >> \in Seq(I) /\ DOMAIN << >> = {}
    OBVIOUS
  <2>2. /\ Forwarded(items) \in Seq(I)
        /\ \A i \in DOMAIN Forwarded(items) :
             \E j \in DOMAIN items : Forwarded(items)[i] = items[j]
    BY <1>1, ForwardedMade
  <2>3. CASE s.errored
    BY <2>1, <2>3
  <2>4. CASE ~s.errored
    BY <2>2, <2>4
  <2> QED
    BY <2>3, <2>4
<1>3. PICK t : t = Deliver(s, items, over)
  OBVIOUS
<1>4. /\ DOMAIN t = Fields /\ t.pc \in {s.pc, "done"}
      /\ \A f \in Fields \ {"pc", "out", "errored"} : t[f] = s[f]
  BY <1>3, Delivered
<1>5. t.out = s.out \o sent
  BY <1>2, <1>3 DEF Deliver, Fields
<1>6. s.out \in Seq(I)
  BY <1>1 DEF WireOK
<1>7. t.out \in Seq(I)
  BY <1>2, <1>5, <1>6, ConcatProperties
<1>8. ASSUME NEW i \in DOMAIN t.out, t.out[i].error = "line_too_long"
      PROVE  LongLine(s.wire)
  <2>1. /\ DOMAIN s.out = 1..Len(s.out) /\ Len(s.out) \in Nat
        /\ DOMAIN sent = 1..Len(sent) /\ Len(sent) \in Nat
        /\ Len(t.out) = Len(s.out) + Len(sent) /\ DOMAIN t.out = 1..Len(t.out)
    BY <1>2, <1>5, <1>6, <1>7, LenProperties, ConcatProperties
  <2>2. CASE i <= Len(s.out)
    <3>1. i \in DOMAIN s.out /\ t.out[i] = s.out[i]
      BY <1>2, <1>5, <1>6, <2>1, <2>2, ConcatProperties
    <3> QED
      BY <1>8, <3>1 DEF WireOK
  <2>3. CASE i > Len(s.out)
    <3>1. i - Len(s.out) \in DOMAIN sent /\ t.out[i] = sent[i - Len(s.out)]
      <4>1. i \in 1..(Len(s.out) + Len(sent)) /\ ~(i <= Len(s.out))
        BY <2>1, <2>3
      <4>2. (s.out \o sent)[i] = sent[i - Len(s.out)]
        BY <1>2, <1>6, <4>1, ConcatProperties
      <4>3. i - Len(s.out) \in 1..Len(sent)
        BY <2>1, <4>1
      <4> QED
        BY <1>5, <2>1, <4>2, <4>3
    <3> QED
      BY <1>2, <1>8, <3>1
  <2> QED
    BY <2>1, <2>2, <2>3
<1>9. /\ t.buf = s.buf /\ t.event = s.event /\ t.input = s.input
      /\ t.at = s.at /\ t.wire = s.wire
  BY <1>4 DEF Fields
<1> QED
  BY <1>1, <1>3, <1>4, <1>7, <1>8, <1>9 DEF WireOK

-----------------------------------------------------------------------------
(* Answers and refusals.                                                   *)

(* A call that could be built has one of the three shapes.                 *)
LEMMA Shaped ==
  ASSUME NEW ask, Validated(ask)
  PROVE  ShapeOf(ask) \in {"openai", "anthropic", "gemini"}
  BY DEF Validated, ShapeOf, Build, RegisteredTypes

(* A complete answer is passed on whole, with its reason told.             *)
LEMMA ParsedWhole ==
  ASSUME NEW ask \in Asks, Validated(ask),
         NEW answer \in Answers[ShapeOf(ask)], answer.form = "ok"
  PROVE  LET r == ParseResponse(ask, answer) IN
         /\ r.error = None
         /\ r.text = ValuesOf(answer.blocks, "text")
         /\ r.tools = ValuesOf(answer.blocks, "tool")
         /\ ask.kind = "complete" => ReasonTold(ShapeOf(ask), answer.finish, r.finish)
<1>1. ShapeOf(ask) \in {"openai", "anthropic", "gemini"}
  BY Shaped
<1>2. CASE ask.kind = "embed"
  BY <1>2 DEF ParseResponse, Parsed
<1>3. CASE ask.kind # "embed" /\ ShapeOf(ask) = "openai"
  <2>1. ParseResponse(ask, answer) = Parsed(answer, answer.finish)
    BY <1>3 DEF ParseResponse, OpenAiParse
  <2>2. ReasonTold("openai", answer.finish, answer.finish)
    BY DEF ReasonTold, KnownReasons
  <2> QED
    BY <1>3, <2>1, <2>2 DEF Parsed
<1>4. CASE ask.kind # "embed" /\ ShapeOf(ask) = "anthropic"
  <2>1. ParseResponse(ask, answer) = Parsed(answer, AnthropicFinish(answer.finish))
    BY <1>4 DEF ParseResponse, AnthropicParse
  <2>2. ReasonTold("anthropic", answer.finish, AnthropicFinish(answer.finish))
    BY DEF AnthropicFinish, ReasonTold, KnownReasons
  <2> QED
    BY <1>4, <2>1, <2>2 DEF Parsed
<1>5. CASE ask.kind # "embed" /\ ShapeOf(ask) = "gemini"
  <2>1. ParseResponse(ask, answer) = Parsed(answer, GeminiFinish(answer.finish))
    BY <1>5 DEF ParseResponse, GeminiParse
  <2>2. ReasonTold("gemini", answer.finish, GeminiFinish(answer.finish))
    BY DEF GeminiFinish, ReasonTold, KnownReasons
  <2> QED
    BY <1>5, <2>1, <2>2 DEF Parsed
<1> QED
  BY <1>1, <1>2, <1>3, <1>4, <1>5

(* Every refusal keeps its meaning on the way to the gateway's status.     *)
LEMMA RefusalExplained ==
  ASSUME NEW status \in Nat, NEW auth \in {{401}, {401, 403}}
  PROVE  LET error == FromResponse(auth, status)
             code == StatusCode(FromProvider(error)) IN
         /\ status \in {401, 403} => code = 503
         /\ status = 429 => error = "rate_limited" /\ code = 429
         /\ status \in {400, 404, 422} => code \in {400, 404}
         /\ status >= 500 => code = 503
<1>1. CASE status \in {401, 403}
  <2>1. FromResponse(auth, status) \in {"auth", "api_401"}
    BY <1>1 DEF FromResponse
  <2> QED
    BY <1>1, <2>1 DEF FromProvider, StatusCode
<1>2. CASE status = 429
  <2>1. FromResponse(auth, status) = "rate_limited"
    BY <1>2 DEF FromResponse
  <2> QED
    BY <1>2, <2>1 DEF FromProvider, StatusCode
<1>3. CASE status = 404
  <2>1. FromResponse(auth, status) = "model_not_found"
    BY <1>3 DEF FromResponse
  <2> QED
    BY <1>3, <2>1 DEF FromProvider, StatusCode
<1>4. CASE status \in {400, 422}
  <2>1. FromResponse(auth, status) = "api_4xx"
    BY <1>4 DEF FromResponse
  <2> QED
    BY <1>4, <2>1 DEF FromProvider, StatusCode
<1>5. CASE status >= 500
  <2>1. FromResponse(auth, status) = "api_5xx"
    BY <1>5 DEF FromResponse
  <2> QED
    BY <1>5, <2>1 DEF FromProvider, StatusCode
<1> QED
  BY <1>1, <1>2, <1>3, <1>4, <1>5

-----------------------------------------------------------------------------
(* The steps.                                                              *)

(* A step changes one call.                                                *)
LEMMA OneCall ==
  ASSUME CallInv, NEW c \in Calls, NEW t, CallOK(t),
         call' = [call EXCEPT ![c] = t]
  PROVE  CallInv'
  BY DEF CallInv

(* A call that ends without an answer of the vendor.                       *)
LEMMA FailingOK ==
  ASSUME NEW s, CallOK(s), s.pc \notin {"idle", "stream", "done"}, NEW error
  PROVE  CallOK(Failing(s, error))
  BY DEF CallOK, Failing, Finished, Fields, Streaming

(* The same after a timeout.                                               *)
LEMMA ExpiredOK ==
  ASSUME NEW s, CallOK(s), s.pc \in {"sent", "body"}, Due(s), NEW error
  PROVE  CallOK(Failing([s EXCEPT !.expired = TRUE], error))
<1>1. CASE s.ask.kind = "stream"
  <2>1. s.gap >= StreamGap
    BY <1>1, StreamDue DEF CallOK
  <2> QED
    BY <1>1, <2>1 DEF CallOK, Failing, Finished, Fields, Streaming
<1>2. CASE s.ask.kind # "stream"
  BY <1>2 DEF CallOK, Failing, Finished, Fields, Streaming
<1> QED
  BY <1>1, <1>2

(* Idle calls meet the invariant.                                          *)
LEMMA CallInit == Init => CallInv
<1>1. CallOK(Idle)
  BY DEF CallOK, Idle, Fields, Streaming
<1> QED
  BY <1>1 DEF Init, CallInv

(* Every step of every call preserves the invariant.                       *)
LEMMA CallNext == CallInv /\ [Next]_vars => CallInv'
<1> SUFFICES ASSUME CallInv, [Next]_vars PROVE CallInv'
  OBVIOUS
<1>0. ASSUME NEW c \in Calls PROVE CallOK(call[c])
  BY DEF CallInv
<1>1. ASSUME NEW c \in Calls, NEW ask \in Asks, Begin(c, ask) PROVE CallInv'
  <2> DEFINE s == [Idle EXCEPT !.ask = ask]
  <2>1. /\ DOMAIN s = Fields /\ s.ask = ask /\ ~s.expired /\ s.refused = None
        /\ s.answer = None /\ s.pc = "idle"
    BY DEF Idle, Fields
  <2>2. Validated(ask)
    BY <1>1 DEF Begin
  <2> HIDE DEF s
  <2>3. CASE ask.kind = "stream"
    <3> DEFINE t == [s EXCEPT !.pc = "sent", !.body = RequestBody(ask),
                              !.client = StreamClient(ask)]
    <3>1. call' = [call EXCEPT ![c] = t]
      BY <1>1, <2>3 DEF Begin, s
    <3>2. CallOK(t)
      BY <2>1, <2>2, <2>3 DEF CallOK, Fields, Streaming
    <3> QED
      BY <3>1, <3>2, OneCall
  <2>4. CASE ask.kind = "embed" /\ ShapeOf(ask) # "openai"
    <3>1. call' = [call EXCEPT ![c] = Failing(s, "unsupported")]
      BY <1>1, <2>4 DEF Begin, s
    <3>2. CallOK(Failing(s, "unsupported"))
      BY <2>1, <2>2 DEF CallOK, Failing, Finished, Fields, Streaming
    <3> QED
      BY <3>1, <3>2, OneCall
  <2>5. CASE ask.kind # "stream" /\ ~(ask.kind = "embed" /\ ShapeOf(ask) # "openai")
    <3> DEFINE t == [s EXCEPT !.pc = "lookup", !.body = RequestBody(ask)]
    <3>1. call' = [call EXCEPT ![c] = t]
      BY <1>1, <2>5 DEF Begin, s
    <3>2. CallOK(t)
      BY <2>1, <2>2, <2>5 DEF CallOK, Fields, Streaming
    <3> QED
      BY <3>1, <3>2, OneCall
  <2> QED
    BY <2>3, <2>4, <2>5
<1>2. ASSUME NEW c \in Calls, PoolGet(c) PROVE CallInv'
  <2> DEFINE s == call[c]
             t == IF pool[s.ask.type] # None
                  THEN [s EXCEPT !.pc = "sent", !.client = pool[s.ask.type]]
                  ELSE [s EXCEPT !.pc = "insert"]
  <2>1. s.pc = "lookup" /\ call' = [call EXCEPT ![c] = t]
    BY <1>2 DEF PoolGet
  <2>2. CallOK(t)
    BY <1>0, <2>1 DEF CallOK, Fields, Streaming
  <2> QED
    BY <2>1, <2>2, OneCall
<1>3. ASSUME NEW c \in Calls, PoolInsert(c) PROVE CallInv'
  <2> DEFINE s == call[c]
  <2>1. PICK client : call' = [call EXCEPT ![c] = [s EXCEPT !.pc = "sent", !.client = client]]
    BY <1>3 DEF PoolInsert
  <2>2. s.pc = "insert"
    BY <1>3 DEF PoolInsert
  <2>3. CallOK([s EXCEPT !.pc = "sent", !.client = client])
    BY <1>0, <2>2 DEF CallOK, Fields, Streaming
  <2> QED
    BY <2>1, <2>3, OneCall
<1>4. ASSUME NEW c \in Calls, NEW r \in Refusals, Refuse(c, r) PROVE CallInv'
  <2> DEFINE s == call[c]
             auth == AuthStatuses(ShapeOf(s.ask))
             error == FromResponse(auth, r.status)
             retry == IF error = "rate_limited" THEN RetryAfter(r) ELSE None
             t == [Failing(s, error) EXCEPT !.refused = r, !.retry = retry]
  <2>1. s.pc = "sent" /\ call' = [call EXCEPT ![c] = t]
    BY <1>4 DEF Refuse
  <2>2. auth \in {{401}, {401, 403}} /\ r.status \in Nat
    BY CallAssumption DEF AuthStatuses
  <2>3. LET code == StatusCode(FromProvider(error)) IN
        /\ r.status \in {401, 403} => code = 503
        /\ r.status = 429 => error = "rate_limited" /\ code = 429
        /\ r.status \in {400, 404, 422} => code \in {400, 404}
        /\ r.status >= 500 => code = 503
    <3> HIDE DEF auth
    <3> QED
      BY <2>2, RefusalExplained
  <2>4. r.status = 429 => r.retry_after \in {None, retry}
    BY <2>3 DEF RetryAfter
  <2> HIDE DEF error, retry
  <2>5. CallOK(Failing(s, error))
    BY <1>0, <2>1, FailingOK
  <2>6. /\ DOMAIN t = Fields /\ t.refused = r /\ t.retry = retry
        /\ \A f \in Fields \ {"refused", "retry"} : t[f] = Failing(s, error)[f]
    BY <2>5 DEF CallOK, Fields
  <2>7. t.result.error = error /\ t.pc = "done"
    BY <1>0, <2>6 DEF CallOK, Failing, Finished, Failed, Fields
  <2> HIDE DEF t
  <2>8. Explained(t)
    BY <2>3, <2>4, <2>6, <2>7 DEF Explained
  <2>9. CallOK(t)
    <3>1. t.answer = Failing(s, error).answer /\ t.answer = None
      BY <1>0, <2>1, <2>6 DEF CallOK, Failing, Finished, Fields
    <3>2. t.ask.kind = "stream" /\ t.expired => t.gap >= StreamGap
      BY <1>0, <2>1, <2>5, <2>6 DEF CallOK, Failing, Finished, Fields
    <3>3. t.ask \in Asks /\ Validated(t.ask)
      BY <2>5, <2>6, <2>7 DEF CallOK, Fields
    <3> QED
      BY <2>6, <2>7, <2>8, <3>1, <3>2, <3>3 DEF CallOK
  <2> QED
    BY <2>1, <2>9, OneCall
<1>5. ASSUME NEW c \in Calls, Accept(c) PROVE CallInv'
  <2> DEFINE s == call[c]
  <2>0. s.pc = "sent" /\ s.ask \in Asks
    BY <1>0, <1>5 DEF Accept, CallOK
  <2>1. CASE Streaming(s)
    <3>1. PICK w : call' = [call EXCEPT ![c] = [s EXCEPT !.pc = "stream", !.gap = 0,
                                                         !.wire = w]]
      BY <1>5, <2>1 DEF Accept
    <3>2. CallOK([s EXCEPT !.pc = "stream", !.gap = 0, !.wire = w])
      BY <1>0, <2>0, <2>1 DEF CallOK, Fields, Streaming
    <3> QED
      BY <3>1, <3>2, OneCall
  <2>2. CASE ~Streaming(s)
    <3> DEFINE t == [s EXCEPT !.pc = "body", !.gap = 0]
    <3>1. call' = [call EXCEPT ![c] = t]
      BY <1>5, <2>2 DEF Accept
    <3>2. CallOK(t)
      BY <1>0, <2>0, <2>2, CallAssumption DEF CallOK, Fields, Streaming
    <3> QED
      BY <3>1, <3>2, OneCall
  <2> QED
    BY <2>1, <2>2
<1>6. ASSUME NEW c \in Calls, Read(c) PROVE CallInv'
  <2>1. call[c].pc = "body" /\ call' = [call EXCEPT ![c] = [call[c] EXCEPT !.gap = 0]]
    BY <1>6 DEF Read, CallInv
  <2>2. CallOK([call[c] EXCEPT !.gap = 0])
    BY <1>0, <2>1 DEF CallOK, Fields, Streaming
  <2> QED
    BY <2>1, <2>2, OneCall
<1>7. ASSUME NEW c \in Calls, NEW a, Answer(c, a) PROVE CallInv'
  <2> DEFINE s == call[c]
             r == ParseResponse(s.ask, a)
             t == [Finished(s, r) EXCEPT !.answer = a]
  <2>1. /\ s.pc = "body" /\ a \in Answers[ShapeOf(s.ask)]
        /\ call' = [call EXCEPT ![c] = t]
    BY <1>7 DEF Answer
  <2>2. s.ask \in Asks /\ Validated(s.ask)
    BY <1>0, <2>1 DEF CallOK
  <2>3. a.form = "ok" =>
          /\ r.error = None
          /\ r.text = ValuesOf(a.blocks, "text")
          /\ r.tools = ValuesOf(a.blocks, "tool")
          /\ s.ask.kind = "complete" => ReasonTold(ShapeOf(s.ask), a.finish, r.finish)
    BY <2>1, <2>2, ParsedWhole
  <2> HIDE DEF r
  <2>4. /\ DOMAIN t = Fields /\ t.answer = a /\ t.result = r /\ t.pc = "done"
        /\ t.ask = s.ask /\ t.refused = None /\ ~t.expired
    BY <1>0, <2>1 DEF CallOK, Finished, Fields
  <2> HIDE DEF t
  <2>5. Translated(t)
    BY <2>3, <2>4 DEF Translated
  <2>6. CallOK(t)
    <3>1. t.pc = "done" /\ t.expired = FALSE
      BY <1>0, <2>1, <2>4 DEF CallOK
    <3> QED
      BY <2>2, <2>4, <2>5, <3>1 DEF CallOK
  <2> QED
    BY <2>1, <2>6, OneCall
<1>8. ASSUME NEW c \in Calls, NEW n, Chunk(c, n) PROVE CallInv'
  <2> DEFINE s == call[c]
  <2> DEFINE took == TakeChunk(s.buf, s.event, SubSeq(s.wire, s.at + 1, s.at + n))
             parsed == ParseEvents(ShapeOf(s.ask), took.events, s.input)
             items == IF took.long THEN Append(parsed.items, Problem("line_too_long"))
                      ELSE parsed.items
             m == [s EXCEPT !.at = s.at + n, !.buf = took.buf, !.event = took.event,
                            !.input = parsed.input, !.gap = 0,
                            !.torn = TornBy(s, s.at + n)]
             over == took.over
             t == Deliver(m, items, over)
  <2>1. call' = [call EXCEPT ![c] = t]
    BY <1>8 DEF Chunk
  <2> HIDE DEF took, parsed, items, over
  <2>2. s.pc = "stream" /\ ~Due(s)
    BY <1>8 DEF Chunk
  <2>3. ~s.expired
    BY <1>0, <2>2, StreamDue DEF CallOK
  <2>4. CallOK(m)
    BY <1>0, <2>2, <2>3 DEF CallOK, Fields, Streaming
  <2>6. m.pc = "stream"
    BY <1>0, <2>2 DEF CallOK, Fields
  <2> HIDE DEF m
  <2>5. /\ DOMAIN t = Fields /\ t.pc \in {m.pc, "done"}
        /\ \A f \in Fields \ {"pc", "out", "errored"} : t[f] = m[f]
    <3>1. DOMAIN m = Fields
      BY <2>4 DEF CallOK
    <3> QED
      BY <3>1, Delivered
  <2> HIDE DEF t
  <2>7. CallOK(t)
    BY <2>4, <2>5, <2>6 DEF CallOK, Fields, Streaming, Explained, Translated
  <2> QED
    BY <2>1, <2>7, OneCall
<1>9. ASSUME NEW c \in Calls, Close(c) PROVE CallInv'
  <2>1. /\ call[c].pc = "stream"
        /\ call' = [call EXCEPT ![c] = [call[c] EXCEPT !.pc = "done"]]
    BY <1>9 DEF Close, CallInv
  <2>2. CallOK([call[c] EXCEPT !.pc = "done"])
    BY <1>0, <2>1 DEF CallOK, Fields, Streaming
  <2> QED
    BY <2>1, <2>2, OneCall
<1>10. ASSUME NEW c \in Calls, Breaks(c) PROVE CallInv'
  <2> DEFINE s == call[c]
  <2>1. CASE s.pc = "stream"
    <3> DEFINE m == [s EXCEPT !.at = Len(s.wire)]
               t == Deliver(m, <<Problem("network")>>, FALSE)
    <3>1. call' = [call EXCEPT ![c] = t]
      BY <1>10, <2>1 DEF Breaks
    <3>2. CallOK(m) /\ m.pc = "stream"
      BY <1>0, <2>1 DEF CallOK, Fields, Streaming
    <3> HIDE DEF m
    <3>3. /\ DOMAIN t = Fields /\ t.pc \in {m.pc, "done"}
          /\ \A f \in Fields \ {"pc", "out", "errored"} : t[f] = m[f]
      <4>1. DOMAIN m = Fields
        BY <3>2 DEF CallOK
      <4>2. ASSUME NEW items, NEW over
            PROVE  /\ DOMAIN Deliver(m, items, over) = Fields
                   /\ Deliver(m, items, over).pc \in {m.pc, "done"}
                   /\ \A f \in Fields \ {"pc", "out", "errored"} :
                        Deliver(m, items, over)[f] = m[f]
        BY <4>1, Delivered
      <4> QED
        BY <4>2
    <3> HIDE DEF t
    <3>4. CallOK(t)
      BY <3>2, <3>3 DEF CallOK, Fields, Streaming, Explained, Translated
    <3> QED
      BY <3>1, <3>4, OneCall
  <2>2. CASE s.pc \in {"sent", "body"}
    <3>1. PICK error : call' = [call EXCEPT ![c] = Failing(s, error)]
      BY <1>10, <2>2 DEF Breaks
    <3> QED
      BY <1>0, <2>2, <3>1, FailingOK, OneCall
  <2> QED
    BY <1>10, <2>1, <2>2 DEF Breaks
<1>11. ASSUME NEW c \in Calls, Tick(c) PROVE CallInv'
  <2> DEFINE s == call[c]
  <2>1. PICK elapsed, gap :
          call' = [call EXCEPT ![c] = [s EXCEPT !.elapsed = elapsed, !.gap = gap]]
    BY <1>11 DEF Tick, CallInv
  <2>2. s.pc \in {"sent", "body", "stream"} /\ ~Due(s)
    BY <1>11 DEF Tick
  <2>3. ~s.expired
    BY <1>0, <2>2, StreamDue DEF CallOK
  <2>4. CallOK([s EXCEPT !.elapsed = elapsed, !.gap = gap])
    BY <1>0, <2>2, <2>3 DEF CallOK, Fields, Streaming
  <2> QED
    BY <2>1, <2>4, OneCall
<1>12. ASSUME NEW c \in Calls, Expire(c) PROVE CallInv'
  <2> DEFINE s == call[c]
             m == [s EXCEPT !.expired = TRUE]
  <2>1. /\ s.pc = m.pc /\ s.ask = m.ask /\ (Due(m) <=> Due(s))
    BY <1>0 DEF CallOK, Fields, Due
  <2>2. s.pc \in {"sent", "body", "stream"} /\ Due(s)
    BY <1>12, <2>1 DEF Expire
  <2>3. CASE s.pc = "stream"
    <3> DEFINE t == Deliver(m, <<Problem("network")>>, FALSE)
    <3>1. call' = [call EXCEPT ![c] = t]
      BY <1>12, <2>1, <2>3 DEF Expire
    <3>2. s.gap >= StreamGap
      BY <1>0, <2>2, <2>3, StreamDue DEF CallOK
    <3>3. CallOK(m) /\ m.pc = "stream"
      BY <1>0, <2>3, <3>2 DEF CallOK, Fields, Streaming
    <3> HIDE DEF m
    <3>4. /\ DOMAIN t = Fields /\ t.pc \in {m.pc, "done"}
          /\ \A f \in Fields \ {"pc", "out", "errored"} : t[f] = m[f]
      <4>1. DOMAIN m = Fields
        BY <3>3 DEF CallOK
      <4>2. ASSUME NEW items, NEW over
            PROVE  /\ DOMAIN Deliver(m, items, over) = Fields
                   /\ Deliver(m, items, over).pc \in {m.pc, "done"}
                   /\ \A f \in Fields \ {"pc", "out", "errored"} :
                        Deliver(m, items, over)[f] = m[f]
        BY <4>1, Delivered
      <4> QED
        BY <4>2
    <3> HIDE DEF t
    <3>5. CallOK(t)
      BY <3>3, <3>4 DEF CallOK, Fields, Streaming, Explained, Translated
    <3> QED
      BY <3>1, <3>5, OneCall
  <2>4. CASE s.pc \in {"sent", "body"}
    <3>1. PICK error : call' = [call EXCEPT ![c] = Failing(m, error)]
      BY <1>12, <2>1, <2>4 DEF Expire
    <3> QED
      BY <1>0, <2>2, <2>4, <3>1, ExpiredOK, OneCall
  <2> QED
    BY <2>2, <2>3, <2>4
<1>13. CASE UNCHANGED vars
  BY <1>13 DEF vars, CallInv
<1> QED
  BY <1>1, <1>2, <1>3, <1>4, <1>5, <1>6, <1>7, <1>8, <1>9, <1>10, <1>11, <1>12, <1>13
  DEF Next

(* The invariant holds in every reachable state.                           *)
THEOREM CallInvariant == Spec => []CallInv
  BY CallInit, CallNext, PTL DEF Spec

(* Idle calls hold nothing.                                                *)
LEMMA WireInit == Init => WireInv
<1>1. /\ Idle.out = << >> /\ Idle.buf = << >> /\ Idle.event = << >> /\ Idle.input = 0
      /\ Idle.at = 0 /\ Idle.pc = "idle"
  BY DEF Idle
<1>2. << >> \in Seq(Tokens) /\ << >> \in Seq(ItemSet(Errors)) /\ Len(<< >>) <= MaxLine
  BY WireAssumption
<1>3. WireOK(Idle)
  BY <1>1, <1>2 DEF WireOK
<1> QED
  BY <1>3 DEF Init, WireInv

(* Only the call that takes the step has to be looked at.                  *)
LEMMA OneStream ==
  ASSUME CallInv, WireInv, NEW c \in Calls, NEW t, WireOK(t),
         call' = [call EXCEPT ![c] = t]
  PROVE  WireInv'
  BY DEF CallInv, WireInv

(* Every step of every call keeps every stream bounded.                    *)
LEMMA WireNext == CallInv /\ WireInv /\ [Next]_vars => WireInv'
<1> SUFFICES ASSUME CallInv, WireInv, [Next]_vars PROVE WireInv'
  OBVIOUS
<1>0. ASSUME NEW c \in Calls
      PROVE  CallOK(call[c]) /\ WireOK(call[c]) /\ DOMAIN call[c] = Fields
  BY DEF CallInv, WireInv, CallOK
<1>1. ASSUME NEW c \in Calls, NEW ask \in Asks, Begin(c, ask) PROVE WireInv'
  <2> DEFINE s == [Idle EXCEPT !.ask = ask]
  <2>1. PICK t : /\ call' = [call EXCEPT ![c] = t]
                 /\ t.pc \in {"sent", "lookup", "done"} /\ t.out = << >> /\ t.buf = << >>
                 /\ t.event = << >> /\ t.input = 0 /\ t.at = 0
    <3>1. CASE ask.kind = "stream"
      <4> DEFINE t == [s EXCEPT !.pc = "sent", !.body = RequestBody(ask),
                                !.client = StreamClient(ask)]
      <4>1. call' = [call EXCEPT ![c] = t]
        BY <1>1, <3>1 DEF Begin
      <4>2. /\ t.pc = "sent" /\ t.out = << >> /\ t.buf = << >>
            /\ t.event = << >> /\ t.input = 0 /\ t.at = 0
        BY DEF Idle
      <4> HIDE DEF t
      <4> QED
        BY <4>1, <4>2
    <3>2. CASE ask.kind = "embed" /\ ShapeOf(ask) # "openai"
      <4> DEFINE t == Failing(s, "unsupported")
      <4>1. call' = [call EXCEPT ![c] = t]
        BY <1>1, <3>2 DEF Begin
      <4>2. /\ t.pc = "done" /\ t.out = << >> /\ t.buf = << >>
            /\ t.event = << >> /\ t.input = 0 /\ t.at = 0
        BY DEF Idle, Failing, Finished
      <4> HIDE DEF t
      <4> QED
        BY <4>1, <4>2
    <3>3. CASE ask.kind # "stream" /\ ~(ask.kind = "embed" /\ ShapeOf(ask) # "openai")
      <4> DEFINE t == [s EXCEPT !.pc = "lookup", !.body = RequestBody(ask)]
      <4>1. call' = [call EXCEPT ![c] = t]
        BY <1>1, <3>3 DEF Begin
      <4>2. /\ t.pc = "lookup" /\ t.out = << >> /\ t.buf = << >>
            /\ t.event = << >> /\ t.input = 0 /\ t.at = 0
        BY DEF Idle
      <4> HIDE DEF t
      <4> QED
        BY <4>1, <4>2
    <3> QED
      BY <3>1, <3>2, <3>3
  <2>2. << >> \in Seq(Tokens) /\ << >> \in Seq(ItemSet(Errors)) /\ Len(<< >>) <= MaxLine
    BY WireAssumption
  <2>3. WireOK(t)
    BY <2>1, <2>2 DEF WireOK
  <2> QED
    BY <2>1, <2>3, OneStream
<1>2. ASSUME NEW c \in Calls, NEW t, call' = [call EXCEPT ![c] = t],
             \A f \in {"out", "buf", "event", "input", "at", "wire"} : t[f] = call[c][f],
             \/ t.pc = call[c].pc \/ t.pc = "done"
             \/ t.pc # "stream" /\ call[c].pc \notin {"stream", "done"}
      PROVE  WireInv'
  <2>1. WireOK(t)
    BY <1>0, <1>2, WireKept
  <2> QED
    BY <1>2, <2>1, OneStream
<1>3. ASSUME NEW c \in Calls, PoolGet(c) \/ PoolInsert(c) PROVE WireInv'
  <2>1. PICK client, pc :
          /\ pc \in {"sent", "insert"}
          /\ call' = [call EXCEPT ![c] = [call[c] EXCEPT !.pc = pc, !.client = client]]
    <3>1. CASE PoolGet(c)
      <4>1. [call[c] EXCEPT !.pc = "insert"] =
              [call[c] EXCEPT !.pc = "insert", !.client = call[c].client]
        BY <1>0 DEF Fields
      <4> QED
        BY <3>1, <4>1 DEF PoolGet
    <3>2. CASE PoolInsert(c)
      BY <3>2 DEF PoolInsert
    <3> QED
      BY <1>3, <3>1, <3>2
  <2>2. call[c].pc \in {"lookup", "insert"}
    BY <1>3 DEF PoolGet, PoolInsert
  <2> DEFINE t == [call[c] EXCEPT !.pc = pc, !.client = client]
  <2>3. /\ \A f \in {"out", "buf", "event", "input", "at", "wire"} : t[f] = call[c][f]
        /\ t.pc # "stream"
    BY <1>0, <2>1 DEF Fields
  <2> HIDE DEF t
  <2> QED
    BY <1>2, <2>1, <2>2, <2>3 DEF t
<1>4. ASSUME NEW c \in Calls, NEW r \in Refusals, Refuse(c, r) PROVE WireInv'
  <2>1. PICK error, retry :
          call' = [call EXCEPT ![c] =
            [Failing(call[c], error) EXCEPT !.refused = r, !.retry = retry]]
    BY <1>4 DEF Refuse
  <2> DEFINE t == [Failing(call[c], error) EXCEPT !.refused = r, !.retry = retry]
  <2>2. /\ \A f \in {"out", "buf", "event", "input", "at", "wire"} : t[f] = call[c][f]
        /\ t.pc = "done"
    BY <1>0 DEF Failing, Finished, Fields
  <2> HIDE DEF t
  <2> QED
    BY <1>2, <2>1, <2>2 DEF t
<1>5. ASSUME NEW c \in Calls, Accept(c) PROVE WireInv'
  <2> DEFINE s == call[c]
  <2>0. s.pc = "sent"
    BY <1>5 DEF Accept
  <2>1. CASE Streaming(s)
    <3>1. PICK x, w :
            /\ x \in Wires[ShapeOf(s.ask)]
            /\ call' = [call EXCEPT ![c] = [s EXCEPT !.pc = "stream", !.gap = 0, !.wire = w]]
            /\ w \in {x.metered, x.plain}
      BY <1>5, <2>1 DEF Accept
    <3>2. w \in Seq(Tokens)
      <4>1. ShapeOf(s.ask) \in {"openai", "anthropic", "gemini"}
        BY <1>0, <2>0, Shaped DEF CallOK
      <4>2. w \in Seq(STRING)
        BY <3>1, <4>1, WiresAssumption
      <4> QED
        BY <4>2, SeqMonotonic DEF Tokens
    <3> DEFINE t == [s EXCEPT !.pc = "stream", !.gap = 0, !.wire = w]
    <3>3. /\ t.pc = "stream" /\ t.out = << >> /\ t.buf = << >> /\ t.event = << >>
          /\ t.input = 0 /\ t.at = 0 /\ t.wire = w
      BY <1>0, <2>0 DEF Fields, WireOK
    <3> HIDE DEF t
    <3>4. /\ << >> \in Seq(Tokens) /\ << >> \in Seq(ItemSet(Errors)) /\ Len(<< >>) = 0
          /\ 0 <= MaxLine
      BY WireAssumption
    <3>5. Unfinished(w, 0, 0)
      BY DEF Unfinished
    <3>6. WireOK(t)
      BY <3>2, <3>3, <3>4, <3>5 DEF WireOK
    <3> QED
      BY <3>1, <3>6, OneStream DEF t
  <2>2. CASE ~Streaming(s)
    <3> DEFINE t == [s EXCEPT !.pc = "body", !.gap = 0]
    <3>1. call' = [call EXCEPT ![c] = t]
      BY <1>5, <2>2 DEF Accept
    <3>2. /\ \A f \in {"out", "buf", "event", "input", "at", "wire"} : t[f] = s[f]
          /\ t.pc = "body"
      BY <1>0 DEF Fields
    <3> HIDE DEF t
    <3> QED
      BY <1>2, <2>0, <3>1, <3>2
  <2> QED
    BY <2>1, <2>2
<1>6. ASSUME NEW c \in Calls, Read(c) PROVE WireInv'
  <2> DEFINE t == [call[c] EXCEPT !.gap = 0]
  <2>1. call' = [call EXCEPT ![c] = t]
    BY <1>6 DEF Read, CallInv
  <2>2. /\ \A f \in {"out", "buf", "event", "input", "at", "wire"} : t[f] = call[c][f]
        /\ t.pc = call[c].pc
    BY <1>0 DEF Fields
  <2> HIDE DEF t
  <2> QED
    BY <1>2, <2>1, <2>2
<1>7. ASSUME NEW c \in Calls, NEW a, Answer(c, a) PROVE WireInv'
  <2> DEFINE t == [Finished(call[c], ParseResponse(call[c].ask, a)) EXCEPT !.answer = a]
  <2>1. call' = [call EXCEPT ![c] = t]
    BY <1>7 DEF Answer
  <2>2. /\ \A f \in {"out", "buf", "event", "input", "at", "wire"} : t[f] = call[c][f]
        /\ t.pc = "done"
    BY <1>0 DEF Finished, Fields
  <2> HIDE DEF t
  <2> QED
    BY <1>2, <2>1, <2>2
<1>8. ASSUME NEW c \in Calls, NEW n \in 1..Len(call[c].wire), Chunk(c, n) PROVE WireInv'
  <2> DEFINE s == call[c]
             took == TakeChunk(s.buf, s.event, SubSeq(s.wire, s.at + 1, s.at + n))
             parsed == ParseEvents(ShapeOf(s.ask), took.events, s.input)
             items == IF took.long THEN Append(parsed.items, Problem("line_too_long"))
                      ELSE parsed.items
             m == [s EXCEPT !.at = s.at + n, !.buf = took.buf, !.event = took.event,
                            !.input = parsed.input, !.gap = 0,
                            !.torn = TornBy(s, s.at + n)]
  <2>1. /\ s.pc = "stream" /\ s.at + n <= Len(s.wire)
        /\ call' = [call EXCEPT ![c] = Deliver(m, items, took.over)]
    BY <1>8 DEF Chunk
  <2>2. /\ s.wire \in Seq(Tokens) /\ s.at \in Nat /\ Len(s.wire) \in Nat /\ n \in Nat
        /\ s.buf \in Seq(Tokens) /\ s.event \in Seq(Tokens) /\ s.input \in Nat
        /\ s.at < Len(s.wire) /\ Unfinished(s.wire, s.at, Len(s.buf))
    <3>1. s.wire \in Seq(Tokens) /\ s.at \in Nat
      BY <1>0, <2>1 DEF WireOK
    <3>2. Len(s.wire) \in Nat
      BY <3>1, LenProperties
    <3>3. n \in Nat /\ n >= 1 /\ s.at < Len(s.wire)
      BY <2>1, <3>1, <3>2
    <3> QED
      BY <1>0, <2>1, <3>1, <3>2, <3>3 DEF WireOK
  <2>3. /\ took.buf \in Seq(Tokens) /\ Len(took.buf) <= MaxLine
        /\ took.event \in Seq(Tokens) /\ took.events \in Seq(EventSet)
        /\ Unfinished(s.wire, s.at + n, Len(took.buf))
        /\ took.long => LongLine(s.wire)
    BY <2>1, <2>2, ChunkTaken
  <2> HIDE DEF took
  <2>4. parsed.input \in Nat /\ parsed.items \in Seq(ItemSet(ParseErrors))
    BY <2>2, <2>3, EventsParsed
  <2> HIDE DEF parsed
  <2>5. /\ items \in Seq(ItemSet(Errors))
        /\ (\E i \in DOMAIN items : items[i].error = "line_too_long") => LongLine(s.wire)
    <3>1. PICK I, J : I = ItemSet(ParseErrors) /\ J = ItemSet(Errors)
      OBVIOUS
    <3>2. I \subseteq J /\ Problem("line_too_long") \in J
      BY <3>1, ItemsTyped DEF Errors
    <3>3. parsed.items \in Seq(J)
      BY <2>4, <3>1, <3>2, SeqMonotonic
    <3>4. items \in Seq(J)
      BY <3>2, <3>3, AppendProperties
    <3>5. ASSUME ~took.long PROVE \A i \in DOMAIN items : items[i].error # "line_too_long"
      <4>1. items \in Seq(I)
        BY <2>4, <3>1, <3>5
      <4>2. \A x \in I : x.error # "line_too_long"
        BY <3>1, WiresAssumption DEF ItemSet, ParseErrors
      <4> HIDE DEF items
      <4>3. \A i \in DOMAIN items : items[i] \in I
        BY <4>1, LenProperties, ElementOfSeq
      <4> QED
        BY <4>2, <4>3
    <3> HIDE DEF items
    <3> QED
      BY <2>3, <3>1, <3>4, <3>5
  <2> HIDE DEF items
  <2>6. /\ DOMAIN m = Fields /\ m.pc = "stream" /\ m.at = s.at + n /\ m.buf = took.buf
        /\ m.event = took.event /\ m.input = parsed.input /\ m.out = s.out
        /\ m.wire = s.wire
    BY <1>0, <2>1 DEF Fields
  <2> HIDE DEF m
  <2>7. WireOK(m)
    <3>1. /\ s.out \in Seq(ItemSet(Errors))
          /\ (\E i \in DOMAIN s.out : s.out[i].error = "line_too_long") => LongLine(s.wire)
      BY <1>0 DEF WireOK
    <3>2. s.at + n \in Nat
      BY <2>2
    <3> QED
      BY <2>2, <2>3, <2>4, <2>6, <3>1, <3>2 DEF WireOK
  <2>8. WireOK(Deliver(m, items, took.over))
    BY <2>5, <2>6, <2>7, WireDelivered
  <2> QED
    BY <2>1, <2>8, OneStream
<1>9. ASSUME NEW c \in Calls, Close(c) PROVE WireInv'
  <2> DEFINE t == [call[c] EXCEPT !.pc = "done"]
  <2>1. call' = [call EXCEPT ![c] = t]
    BY <1>9 DEF Close, CallInv
  <2>2. /\ \A f \in {"out", "buf", "event", "input", "at", "wire"} : t[f] = call[c][f]
        /\ t.pc = "done"
    BY <1>0 DEF Fields
  <2> HIDE DEF t
  <2> QED
    BY <1>2, <2>1, <2>2
<1>10. ASSUME NEW c \in Calls, NEW s, DOMAIN s = Fields, WireOK(s), s.pc = "stream",
              call' = [call EXCEPT ![c] = Deliver(s, <<Problem("network")>>, FALSE)]
       PROVE  WireInv'
  <2>1. PICK x \in ItemSet(Errors) : x = Problem("network")
    BY ItemsTyped DEF Errors
  <2>2. x.error # "line_too_long"
    BY <2>1 DEF Problem, Item
  <2>3. <<x>> \in Seq(ItemSet(Errors)) /\ \A i \in DOMAIN <<x>> : <<x>>[i] = x
    OBVIOUS
  <2>4. WireOK(Deliver(s, <<x>>, FALSE))
    BY <1>10, <2>2, <2>3, WireDelivered
  <2> QED
    BY <1>10, <2>1, <2>4, OneStream
<1>11. ASSUME NEW c \in Calls, NEW s, DOMAIN s = Fields, WireOK(s), NEW error,
              call' = [call EXCEPT ![c] = Failing(s, error)]
       PROVE  WireInv'
  <2> DEFINE t == Failing(s, error)
  <2>1. /\ t.out = s.out /\ t.buf = s.buf /\ t.event = s.event /\ t.input = s.input
        /\ t.at = s.at /\ t.wire = s.wire /\ t.pc = "done"
    BY <1>11 DEF Failing, Finished, Fields
  <2> HIDE DEF t
  <2>2. WireOK(t)
    BY <1>11, <2>1, WireKept
  <2> QED
    BY <1>11, <2>2, OneStream DEF t
<1>12. ASSUME NEW c \in Calls, Breaks(c) PROVE WireInv'
  <2> DEFINE s == call[c]
  <2>1. CASE s.pc = "stream"
    <3> DEFINE m == [s EXCEPT !.at = Len(s.wire)]
    <3>1. call' = [call EXCEPT ![c] = Deliver(m, <<Problem("network")>>, FALSE)]
      BY <1>12, <2>1 DEF Breaks
    <3>2. /\ DOMAIN m = Fields /\ m.pc = "stream" /\ m.at = Len(s.wire) /\ m.buf = s.buf
          /\ m.event = s.event /\ m.input = s.input /\ m.out = s.out /\ m.wire = s.wire
      BY <1>0, <2>1 DEF Fields
    <3> HIDE DEF m
    <3>3. Len(s.wire) \in Nat
      BY <1>0, <2>1, LenProperties DEF WireOK
    <3>4. WireOK(m)
      BY <1>0, <2>1, <3>2, <3>3 DEF WireOK
    <3> QED
      BY <1>10, <3>1, <3>2, <3>4
  <2>2. CASE s.pc # "stream"
    <3>1. PICK error : call' = [call EXCEPT ![c] = Failing(s, error)]
      BY <1>12, <2>2 DEF Breaks
    <3> QED
      BY <1>0, <1>11, <3>1
  <2> QED
    BY <2>1, <2>2
<1>13. ASSUME NEW c \in Calls, Tick(c) PROVE WireInv'
  <2>1. PICK elapsed, gap :
          call' = [call EXCEPT ![c] = [call[c] EXCEPT !.elapsed = elapsed, !.gap = gap]]
    BY <1>13 DEF Tick, CallInv
  <2> DEFINE t == [call[c] EXCEPT !.elapsed = elapsed, !.gap = gap]
  <2>2. /\ \A f \in {"out", "buf", "event", "input", "at", "wire"} : t[f] = call[c][f]
        /\ t.pc = call[c].pc
    BY <1>0 DEF Fields
  <2> HIDE DEF t
  <2> QED
    BY <1>2, <2>1, <2>2 DEF t
<1>14. ASSUME NEW c \in Calls, Expire(c) PROVE WireInv'
  <2> DEFINE m == [call[c] EXCEPT !.expired = TRUE]
  <2>1. /\ DOMAIN m = Fields /\ m.pc = call[c].pc /\ m.at = call[c].at
        /\ m.buf = call[c].buf /\ m.event = call[c].event /\ m.input = call[c].input
        /\ m.out = call[c].out /\ m.wire = call[c].wire
    BY <1>0 DEF Fields
  <2>2. CASE m.pc = "stream"
    <3>1. call' = [call EXCEPT ![c] = Deliver(m, <<Problem("network")>>, FALSE)]
      BY <1>14, <2>2 DEF Expire
    <3> HIDE DEF m
    <3>2. WireOK(m)
      BY <1>0, <2>1, WireKept
    <3> QED
      BY <1>10, <2>1, <2>2, <3>1, <3>2
  <2>3. CASE m.pc # "stream"
    <3>1. PICK error : call' = [call EXCEPT ![c] = Failing(m, error)]
      BY <1>14, <2>3 DEF Expire
    <3> HIDE DEF m
    <3>2. WireOK(m)
      BY <1>0, <2>1, WireKept
    <3> QED
      BY <1>11, <2>1, <3>1, <3>2
  <2> QED
    BY <2>2, <2>3
<1>15. CASE UNCHANGED vars
  BY <1>15 DEF vars, WireInv
<1> QED
  BY <1>1, <1>3, <1>4, <1>5, <1>6, <1>7, <1>8, <1>9, <1>12, <1>13, <1>14, <1>15
  DEF Next

(* sse_events: for every cap, every stream and every way the network cuts  *)
(* it, the buffer stays within the cap between two chunks, and a stream is *)
(* refused only for a line that is too long.                               *)
THEOREM BuffersBounded == Spec => []BufferBounded
<1>1. CallInv /\ WireInv => BufferBounded
  BY DEF WireInv, WireOK, LongLine, BufferBounded
<1> QED
  BY <1>1, CallInvariant, CallInit, CallNext, WireInit, WireNext, PTL DEF Spec

(* TransportConfig::streaming: whatever is sent, cut or delayed, a stream  *)
(* is given up only after a silence of the streaming client's read         *)
(* timeout.                                                                *)
THEOREM ActiveStreamsLive == Spec => []ActiveStreamLives
<1>1. CallInv => ActiveStreamLives
  BY DEF CallInv, CallOK, ActiveStreamLives, Streaming
<1> QED
  BY <1>1, CallInvariant, PTL

(* parse_response, from_response and From<ProviderError>: for any answer of*)
(* the three vendors no text and no tool call is lost, a reason            *)
(* map_finish_reason knows is told in OpenAI's words and any other as the  *)
(* vendor put it, and every status they may refuse with reaches the client *)
(* as what it means to the client.                                         *)
THEOREM RepliesStayMeaningful == Spec => []RepliesKept
<1>1. CallInv => AnswerKept
  BY DEF CallInv, CallOK, AnswerKept, Translated
<1>2. CallInv => RefusalsKeepMeaning
  BY DEF CallInv, CallOK, RefusalsKeepMeaning, Explained
<1>3. CallInv => RepliesKept
  BY <1>1, <1>2 DEF RepliesKept
<1> QED
  BY <1>3, CallInvariant, PTL
=============================================================================
