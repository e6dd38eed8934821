--------------------------- MODULE CommandLine_proofs ---------------------------
(***************************************************************************)
(* Proofs about CommandLine, for any characters, command words,            *)
(* directories, length of a line and number of arguments.                  *)
(*                                                                         *)
(* Induction over the characters of a line is by the least one at which a  *)
(* claim fails.                                                            *)
(***************************************************************************)
EXTENDS CommandLine, SequenceTheorems, WellFoundedInduction, TLAPS

LEMMA Least ==
  ASSUME NEW T, T \subseteq Nat, T # {}
  PROVE  \E x \in T : \A y \in T : x <= y
<1>1. PICK R : R = OpToRel(<, Nat)
  OBVIOUS
<1>2. IsWellFoundedOn(R, Nat)
  BY <1>1, NatLessThanWellFounded
<1>3. PICK x \in T : \A y \in T : ~(<<y, x>> \in R)
  BY <1>2, WFMin
<1>4. \A y \in T : ~(y < x)
  BY <1>1, <1>3 DEF OpToRel
<1>5. QED
  BY <1>3, <1>4

\* Induction from i to n: P is the set where the claim holds.
LEMMA Upwards ==
  ASSUME NEW i \in Nat, NEW n \in Nat, NEW P, i \in P,
         \A k \in i..(n - 1) : k \in P => k + 1 \in P
  PROVE  \A k \in i..n : k \in P
<1>1. SUFFICES ASSUME NEW j \in i..n, j \notin P
               PROVE  FALSE
  OBVIOUS
<1>2. PICK x \in {k \in i..n : k \notin P} : \A y \in {k \in i..n : k \notin P} : x <= y
  <2>1. PICK T : T = {k \in i..n : k \notin P}
    OBVIOUS
  <2>2. T \subseteq Nat /\ T # {}
    BY <1>1, <2>1
  <2>3. QED
    BY <2>1, <2>2, Least
<1>3. x # i /\ x \in i..n /\ x - 1 \in i..(n - 1) /\ (x - 1) + 1 = x
  BY <1>2
<1>4. x - 1 \in P
  <2>1. x - 1 \in i..n /\ ~(x <= x - 1)
    BY <1>3
  <2>2. QED
    BY <1>2, <2>1
<1>5. QED
  BY <1>2, <1>3, <1>4
--------------------------------------------------------------------------------
LEMMA FindLemma ==
  ASSUME NEW b, NEW S, NEW i \in 0..MaxLine, NEW n \in i..MaxLine, b[n] \in S
  PROVE  /\ Find(b, i, S) \in i..n /\ b[Find(b, i, S)] \in S
         /\ \A k \in i..(Find(b, i, S) - 1) : b[k] \notin S
<1>1. PICK T : T = {j \in i..n : b[j] \in S}
  OBVIOUS
<1>2. T \subseteq Nat /\ n \in T
  BY <1>1
<1>3. PICK x \in T : \A y \in T : x <= y
  BY <1>2, Least
<1>4. \A k \in i..(x - 1) : b[k] \notin S
  <2>1. SUFFICES ASSUME NEW k \in i..(x - 1), b[k] \in S
                 PROVE  FALSE
    OBVIOUS
  <2>2. k \in i..n /\ ~(x <= k)
    BY <1>1, <1>3
  <2>3. QED
    BY <1>1, <1>3, <2>1, <2>2
<1>5. x \in i..MaxLine /\ b[x] \in S
  BY <1>1, <1>3, MaxLineAssumption
<1>6. PICK j : j = Find(b, i, S)
  OBVIOUS
<1>7. j \in i..MaxLine /\ b[j] \in S /\ \A k \in i..(j - 1) : b[k] \notin S
  BY <1>4, <1>5, <1>6 DEF Find
<1>8. j <= n
  <2>1. SUFFICES ASSUME ~(j <= n)
                 PROVE  FALSE
    OBVIOUS
  <2>2. n \in i..(j - 1)
    BY <1>7, <2>1, MaxLineAssumption
  <2>3. QED
    BY <1>7, <2>2
<1>9. QED
  BY <1>6, <1>7, <1>8

LEMMA FindIs ==
  ASSUME NEW b, NEW S, NEW i \in 0..MaxLine, NEW j \in i..MaxLine, b[j] \in S,
         \A k \in i..(j - 1) : b[k] \notin S
  PROVE  Find(b, i, S) = j
<1>1. Find(b, i, S) \in i..j /\ b[Find(b, i, S)] \in S
  BY FindLemma
<1>2. Find(b, i, S) \notin i..(j - 1)
  BY <1>1
<1>3. QED
  BY <1>1, <1>2, MaxLineAssumption

LEMMA StringLemma ==
  ASSUME NEW b, NEW i \in 0..MaxLine, NEW j \in i..MaxLine, b[j] = Nul,
         \A k \in i..(j - 1) : b[k] # Nul
  PROVE  String(b, i) = [k \in 1..(j - i) |-> b[i + k - 1]]
<1>1. Find(b, i, {Nul}) = j
  BY FindIs
<1>2. QED
  BY <1>1 DEF String
--------------------------------------------------------------------------------
Lexing(line, s) == s = [k \in 0..Len(line) |-> IF k = 0 THEN Between ELSE Lex(s[k - 1], line[k])]

\* The recursion of the reference has a value.
LEMMA LexedLemma ==
  ASSUME NEW line, Len(line) \in Nat
  PROVE  /\ Lexed(line)[0] = Between
         /\ \A k \in 0..(Len(line) - 1) : Lexed(line)[k + 1] = Lex(Lexed(line)[k], line[k + 1])
<1>1. PICK n : n = Len(line)
  OBVIOUS
<1>2. PICK P : P = {m \in 0..n :
                      \E s : s = [k \in 0..m |-> IF k = 0 THEN Between ELSE Lex(s[k - 1], line[k])]}
  OBVIOUS
<1>3. 0 \in P
  <2>1. PICK s : s = [k \in 0..0 |-> Between]
    OBVIOUS
  <2>2. s = [k \in 0..0 |-> IF k = 0 THEN Between ELSE Lex(s[k - 1], line[k])]
    BY <2>1
  <2>3. QED
    BY <1>1, <1>2, <2>2
<1>4. ASSUME NEW m \in 0..(n - 1), m \in P
      PROVE  m + 1 \in P
  <2>1. PICK s : s = [k \in 0..m |-> IF k = 0 THEN Between ELSE Lex(s[k - 1], line[k])]
    BY <1>2, <1>4
  <2>2. PICK t : t = [k \in 0..(m + 1) |-> IF k <= m THEN s[k] ELSE Lex(s[m], line[m + 1])]
    OBVIOUS
  <2>3. ASSUME NEW k \in 0..(m + 1)
        PROVE  t[k] = IF k = 0 THEN Between ELSE Lex(t[k - 1], line[k])
    <3>1. CASE k = 0
      BY <2>1, <2>2, <3>1
    <3>2. CASE k \in 1..m
      <4>1. k \in 0..m /\ k - 1 \in 0..m /\ k - 1 \in 0..(m + 1) /\ k - 1 <= m /\ k # 0 /\ k <= m
        BY <3>2
      <4>2. t[k] = s[k] /\ t[k - 1] = s[k - 1]
        BY <2>2, <4>1
      <4>3. s[k] = Lex(s[k - 1], line[k])
        BY <2>1, <4>1
      <4>4. QED
        BY <4>1, <4>2, <4>3
    <3>3. CASE k = m + 1
      <4>1. ~(m + 1 <= m) /\ (m + 1) - 1 = m /\ m \in 0..(m + 1) /\ m + 1 # 0 /\ m <= m
        OBVIOUS
      <4>2. t[m] = s[m] /\ t[m + 1] = Lex(s[m], line[m + 1])
        BY <2>2, <4>1
      <4>3. QED
        BY <3>3, <4>1, <4>2
    <3>4. QED
      BY <3>1, <3>2, <3>3
  <2>4. t = [k \in 0..(m + 1) |-> IF k = 0 THEN Between ELSE Lex(t[k - 1], line[k])]
    BY <2>2, <2>3
  <2>5. m + 1 \in 0..n
    BY <1>1
  <2>6. QED
    BY <1>2, <2>4, <2>5
<1>5. n \in P
  <2>1. n \in Nat /\ 0 \in Nat /\ n \in 0..n
    BY <1>1
  <2>2. \A k \in 0..n : k \in P
    BY <1>3, <1>4, <2>1, Upwards
  <2>3. QED
    BY <2>1, <2>2
<1>6. PICK s : Lexing(line, s)
  BY <1>1, <1>2, <1>5 DEF Lexing
<1>7. Lexing(line, Lexed(line))
  BY <1>6 DEF Lexed, Lexing
<1>8. PICK r : r = Lexed(line)
  OBVIOUS
<1>9. r = [k \in 0..Len(line) |-> IF k = 0 THEN Between ELSE Lex(r[k - 1], line[k])]
  BY <1>7, <1>8 DEF Lexing
<1>10. r[0] = Between
  BY <1>9
<1>11. ASSUME NEW k \in 0..(Len(line) - 1)
       PROVE  r[k + 1] = Lex(r[k], line[k + 1])
  <2>1. k + 1 \in 0..Len(line) /\ k + 1 # 0 /\ (k + 1) - 1 = k
    OBVIOUS
  <2>2. QED
    BY <1>9, <2>1
<1>12. QED
  BY <1>8, <1>10, <1>11
--------------------------------------------------------------------------------
State(m, T, w) == [mode |-> m, tokens |-> T, token |-> w]

LexState == [mode : Quotes \cup {"between", "plain"}, tokens : Seq(Seq(Characters)),
             token : Seq(Characters)]

\* A step of the reference, mode by mode.
LEMMA LexBetween ==
  ASSUME NEW c, NEW T
  PROVE  /\ c \in White => Lex(State("between", T, <<>>), c) = State("between", T, <<>>)
         /\ c \in Quotes => Lex(State("between", T, <<>>), c) = State(c, T, <<>>)
         /\ c \notin White \cup Quotes
              => Lex(State("between", T, <<>>), c) = State("plain", T, <<c>>)
<1>1. State("between", T, <<>>).mode = "between"
  BY DEF State
<1>2. "between" # "plain" /\ "between" \notin Quotes /\ White \cap Quotes = {}
  BY CharactersAssumption DEF Quotes
<1>3. CASE c \in White
  BY <1>1, <1>2, <1>3 DEF Lex
<1>4. CASE c \in Quotes
  <2>1. Lex(State("between", T, <<>>), c) = [State("between", T, <<>>) EXCEPT !.mode = c]
    BY <1>1, <1>2, <1>4 DEF Lex
  <2>2. QED
    BY <1>2, <1>4, <2>1 DEF State
<1>5. CASE c \notin White \cup Quotes
  <2>1. Lex(State("between", T, <<>>), c)
          = [State("between", T, <<>>) EXCEPT !.mode = "plain", !.token = <<c>>]
    BY <1>1, <1>2, <1>5 DEF Lex
  <2>2. QED
    BY <1>5, <2>1 DEF State
<1>6. QED
  BY <1>3, <1>4, <1>5

LEMMA LexPlain ==
  ASSUME NEW c, NEW T, NEW w
  PROVE  /\ c \in White => Lex(State("plain", T, w), c) = State("between", Append(T, w), <<>>)
         /\ c \notin White => Lex(State("plain", T, w), c) = State("plain", T, Append(w, c))
<1>1. State("plain", T, w).mode = "plain"
  BY DEF State
<1>2. "between" # "plain" /\ "plain" \notin Quotes
  BY DEF Quotes
<1>3. CASE c \in White
  <2>1. Lex(State("plain", T, w), c) = Ended(State("plain", T, w))
    BY <1>1, <1>2, <1>3 DEF Lex
  <2>2. QED
    BY <1>3, <2>1 DEF State, Ended, Between
<1>4. CASE c \notin White
  <2>1. Lex(State("plain", T, w), c) = [State("plain", T, w) EXCEPT !.token = Append(@, c)]
    BY <1>1, <1>2, <1>4 DEF Lex
  <2>2. QED
    BY <1>4, <2>1 DEF State
<1>5. QED
  BY <1>3, <1>4

LEMMA LexQuoted ==
  ASSUME NEW q \in Quotes, NEW c, NEW T, NEW w
  PROVE  /\ c = q => Lex(State(q, T, w), c) = State("between", Append(T, w), <<>>)
         /\ c # q => Lex(State(q, T, w), c) = State(q, T, Append(w, c))
<1>1. State(q, T, w).mode = q
  BY DEF State
<1>2. q # "between" /\ q # "plain" /\ q \in Quotes
  BY DEF Quotes
<1>3. CASE c = q
  <2>1. Lex(State(q, T, w), c) = Ended(State(q, T, w))
    BY <1>1, <1>2, <1>3 DEF Lex
  <2>2. QED
    BY <1>3, <2>1 DEF State, Ended, Between
<1>4. CASE c # q
  <2>1. Lex(State(q, T, w), c) = [State(q, T, w) EXCEPT !.token = Append(@, c)]
    BY <1>1, <1>2, <1>4 DEF Lex
  <2>2. QED
    BY <1>4, <2>1 DEF State
<1>5. QED
  BY <1>3, <1>4

LEMMA LexType ==
  ASSUME NEW s \in LexState, NEW c \in Characters
  PROVE  /\ Lex(s, c) \in LexState
         /\ Lex(s, c).tokens \in {s.tokens, Append(s.tokens, s.token)}
<1>1. /\ s.mode \in Quotes \cup {"between", "plain"} /\ s.tokens \in Seq(Seq(Characters))
      /\ s.token \in Seq(Characters)
  BY DEF LexState
<1>2. \/ Lex(s, c) = s
      \/ Lex(s, c) = [s EXCEPT !.mode = "plain", !.token = <<c>>]
      \/ Lex(s, c) = Ended(s)
      \/ Lex(s, c) = [s EXCEPT !.token = Append(@, c)]
      \/ c \in Quotes /\ Lex(s, c) = [s EXCEPT !.mode = c]
  <2>1. CASE s.mode = "between"
    <3>1. s.mode \notin Quotes /\ s.mode # "plain"
      BY <2>1 DEF Quotes
    <3>2. CASE c \in White
      BY <2>1, <3>1, <3>2, CharactersAssumption DEF Lex
    <3>3. CASE c \in Quotes
      BY <2>1, <3>1, <3>3, CharactersAssumption DEF Lex
    <3>4. CASE c \notin White \cup Quotes
      BY <2>1, <3>1, <3>4 DEF Lex
    <3>5. QED
      BY <3>2, <3>3, <3>4
  <2>2. CASE s.mode = "plain"
    <3>1. s.mode \notin Quotes /\ s.mode # "between"
      BY <2>2 DEF Quotes
    <3>2. QED
      BY <2>2, <3>1 DEF Lex
  <2>3. CASE s.mode \in Quotes
    <3>1. s.mode # "plain" /\ s.mode # "between"
      BY <2>3 DEF Quotes
    <3>2. QED
      BY <2>3, <3>1 DEF Lex
  <2>4. QED
    BY <1>1, <2>1, <2>2, <2>3
<1>3. CASE Lex(s, c) = s
  BY <1>3
<1>4. CASE Lex(s, c) = [s EXCEPT !.mode = "plain", !.token = <<c>>]
  <2>1. <<c>> \in Seq(Characters)
    OBVIOUS
  <2>2. QED
    BY <1>1, <1>4, <2>1 DEF LexState
<1>5. CASE Lex(s, c) = Ended(s)
  <2>1. PICK T : T = Append(s.tokens, s.token)
    OBVIOUS
  <2>2. T \in Seq(Seq(Characters))
    BY <1>1, <2>1
  <2>3. Ended(s) = State("between", T, <<>>)
    <3>1. Ended(s) = State("between", Append(s.tokens, s.token), <<>>)
      BY SMTT(30) DEF Ended, Between, State
    <3>2. QED
      BY <2>1, <3>1
  <2>4. <<>> \in Seq(Characters)
    OBVIOUS
  <2>5. QED
    BY <1>5, <2>1, <2>2, <2>3, <2>4 DEF LexState, State
<1>6. CASE Lex(s, c) = [s EXCEPT !.token = Append(@, c)]
  <2>1. PICK w : w = Append(s.token, c)
    OBVIOUS
  <2>2. w \in Seq(Characters)
    BY <1>1, <2>1
  <2>3. Lex(s, c) = [s EXCEPT !.token = w]
    BY <1>6, <2>1
  <2>4. QED
    BY <1>1, <2>2, <2>3 DEF LexState
<1>7. CASE c \in Quotes /\ Lex(s, c) = [s EXCEPT !.mode = c]
  BY <1>1, <1>7 DEF LexState
<1>8. QED
  BY <1>2, <1>3, <1>4, <1>5, <1>6, <1>7

LEMMA AppendKeeps ==
  ASSUME NEW S, NEW U \in Seq(S), NEW w \in S, NEW T \in Seq(S), Len(U) >= Len(T),
         SubSeq(U, 1, Len(T)) = T
  PROVE  Len(Append(U, w)) >= Len(T) /\ SubSeq(Append(U, w), 1, Len(T)) = T
<1>1. PICK V : V = Append(U, w)
  OBVIOUS
<1>2. V \in Seq(S) /\ Len(V) = Len(U) + 1 /\ \A m \in 1..Len(U) : V[m] = U[m]
  BY <1>1
<1>3. SubSeq(U, 1, Len(T)) = [m \in 1..Len(T) |-> U[m]]
  OBVIOUS
<1>4. SubSeq(V, 1, Len(T)) = [m \in 1..Len(T) |-> V[m]]
  BY <1>2
<1>5. \A m \in 1..Len(T) : m \in 1..Len(U)
  OBVIOUS
<1>6. [m \in 1..Len(T) |-> V[m]] = [m \in 1..Len(T) |-> U[m]]
  BY <1>2, <1>5
<1>7. SubSeq(V, 1, Len(T)) = T
  BY <1>3, <1>4, <1>6
<1>8. Len(V) >= Len(T)
  BY <1>2
<1>9. QED
  BY <1>1, <1>7, <1>8

\* The arguments found are kept by what is read behind them.
LEMMA TokensGrow ==
  ASSUME NEW line \in Seq(Characters), NEW i \in 0..Len(line), NEW T \in Seq(Seq(Characters)),
         Lexed(line)[i] = State("between", T, <<>>)
  PROVE  \A k \in i..Len(line) :
            /\ Lexed(line)[k] \in LexState
            /\ Len(Lexed(line)[k].tokens) >= Len(T)
            /\ SubSeq(Lexed(line)[k].tokens, 1, Len(T)) = T
<1>1. PICK n : n = Len(line)
  OBVIOUS
<1>2. PICK L : L = Lexed(line)
  OBVIOUS
<1>3. n \in Nat /\ i \in 0..n /\ \A k \in 1..n : line[k] \in Characters
  BY <1>1
<1>4. \A k \in 0..(n - 1) : L[k + 1] = Lex(L[k], line[k + 1])
  BY <1>1, <1>2, LexedLemma
<1>5. PICK P : P = {k \in i..n : /\ L[k] \in LexState /\ Len(L[k].tokens) >= Len(T)
                                /\ SubSeq(L[k].tokens, 1, Len(T)) = T}
  OBVIOUS
<1>6. i \in P
  <2>1. L[i] \in LexState
    <3>1. <<>> \in Seq(Characters)
      OBVIOUS
    <3>2. PICK w : w = <<>>
      OBVIOUS
    <3>3. State("between", T, w) \in LexState
      BY <3>1, <3>2 DEF State, LexState
    <3>4. QED
      BY <1>2, <3>2, <3>3
  <2>2. L[i].tokens = T
    BY <1>2 DEF State
  <2>3. SubSeq(T, 1, Len(T)) = T
    OBVIOUS
  <2>4. QED
    BY <1>3, <1>5, <2>1, <2>2, <2>3
<1>7. ASSUME NEW k \in i..(n - 1), k \in P
      PROVE  k + 1 \in P
  <2>1. k \in 0..(n - 1) /\ k + 1 \in i..n /\ k + 1 \in 1..n
    BY <1>3
  <2>2. L[k + 1] = Lex(L[k], line[k + 1]) /\ line[k + 1] \in Characters
    BY <1>3, <1>4, <2>1
  <2>3. L[k] \in LexState /\ Len(L[k].tokens) >= Len(T) /\ SubSeq(L[k].tokens, 1, Len(T)) = T
    BY <1>5, <1>7
  <2>4. /\ L[k + 1] \in LexState
        /\ L[k + 1].tokens \in {L[k].tokens, Append(L[k].tokens, L[k].token)}
    BY <2>2, <2>3, LexType
  <2>5. PICK U, w : U = L[k].tokens /\ w = L[k].token
    OBVIOUS
  <2>6. U \in Seq(Seq(Characters)) /\ w \in Seq(Characters)
    BY <2>3, <2>5 DEF LexState
  <2>7. PICK V : V = Append(U, w)
    OBVIOUS
  <2>8. Len(V) >= Len(T) /\ SubSeq(V, 1, Len(T)) = T
    BY <2>3, <2>5, <2>6, <2>7, AppendKeeps
  <2>9. Len(L[k + 1].tokens) >= Len(T) /\ SubSeq(L[k + 1].tokens, 1, Len(T)) = T
    BY <2>3, <2>4, <2>5, <2>7, <2>8
  <2>10. QED
    BY <1>5, <2>1, <2>4, <2>9
<1>8. \A k \in i..n : k \in P
  <2>1. i \in Nat
    BY <1>3
  <2>2. QED
    BY <1>3, <1>6, <1>7, <2>1, Upwards
<1>9. QED
  BY <1>1, <1>2, <1>5, <1>8
--------------------------------------------------------------------------------
\* The characters of a line behind the first i and up to the j-th.
Part(line, i, j) == [k \in 1..(j - i) |-> line[i + k]]

LEMMA PartLemma ==
  ASSUME NEW line \in Seq(Characters), NEW i \in 0..Len(line), NEW j \in i..(Len(line) - 1)
  PROVE  /\ Part(line, i, i) = <<>>
         /\ Part(line, i, j) \in Seq(Characters)
         /\ Append(Part(line, i, j), line[j + 1]) = Part(line, i, j + 1)
<1>1. PICK n : n = Len(line)
  OBVIOUS
<1>2. n \in Nat /\ \A k \in 1..n : line[k] \in Characters
  BY <1>1
<1>3. j - i \in Nat /\ i - i = 0 /\ (j + 1) - i = (j - i) + 1 /\ i + ((j - i) + 1) = j + 1
  BY <1>1, <1>2
<1>4. Part(line, i, i) = <<>>
  BY <1>3 DEF Part
<1>5. \A k \in 1..(j - i) : i + k \in 1..n
  BY <1>1, <1>2
<1>6. Part(line, i, j) \in Seq(Characters) /\ Len(Part(line, i, j)) = j - i
  <2>1. \A k \in 1..(j - i) : line[i + k] \in Characters
    BY <1>2, <1>5
  <2>2. PICK m : m = j - i
    OBVIOUS
  <2>3. [k \in 1..m |-> line[i + k]] \in [1..m -> Characters]
    BY <2>1, <2>2
  <2>4. [k \in 1..m |-> line[i + k]] \in Seq(Characters)
    BY <1>3, <2>2, <2>3
  <2>5. QED
    BY <1>3, <2>2, <2>4 DEF Part
<1>7. PICK p, c : p = Part(line, i, j) /\ c = line[j + 1]
  OBVIOUS
<1>8. Append(p, c) = [k \in 1..((j - i) + 1) |-> IF k <= j - i THEN p[k] ELSE c]
  BY <1>3, <1>6, <1>7
<1>9. \A k \in 1..((j - i) + 1) : (IF k <= j - i THEN p[k] ELSE c) = line[i + k]
  BY <1>3, <1>7 DEF Part
<1>10. Append(p, c) = [k \in 1..((j - i) + 1) |-> line[i + k]]
  BY <1>8, <1>9
<1>11. QED
  BY <1>3, <1>4, <1>6, <1>7, <1>10 DEF Part

\* Whitespace between two arguments.
LEMMA WhiteRun ==
  ASSUME NEW line \in Seq(Characters), NEW i \in 0..Len(line), NEW j \in i..Len(line), NEW T,
         Lexed(line)[i] = State("between", T, <<>>),
         \A k \in (i + 1)..j : line[k] \in White
  PROVE  Lexed(line)[j] = State("between", T, <<>>)
<1>1. PICK L, s : L = Lexed(line) /\ s = State("between", T, <<>>)
  OBVIOUS
<1>2. i \in Nat /\ j \in Nat /\ \A k \in i..(j - 1) : k \in 0..(Len(line) - 1) /\ k + 1 \in (i + 1)..j
  OBVIOUS
<1>3. \A k \in i..(j - 1) : L[k + 1] = Lex(L[k], line[k + 1])
  BY <1>1, <1>2, LexedLemma
<1>4. \A c \in White : Lex(s, c) = s
  BY <1>1, LexBetween
<1>5. PICK P : P = {k \in i..j : L[k] = s}
  OBVIOUS
<1>6. i \in P
  BY <1>1, <1>2, <1>5
<1>7. ASSUME NEW k \in i..(j - 1), k \in P
      PROVE  k + 1 \in P
  <2>1. k + 1 \in i..j /\ k + 1 \in (i + 1)..j
    BY <1>2
  <2>2. QED
    BY <1>3, <1>4, <1>5, <1>7, <2>1
<1>8. j \in P
  <2>1. \A k \in i..j : k \in P
    BY <1>2, <1>6, <1>7, Upwards
  <2>2. QED
    BY <2>1
<1>9. QED
  BY <1>1, <1>5, <1>8

\* What ends an argument of each kind.
Enders(m) == IF m = "plain" THEN White ELSE {m}

\* The characters of an argument that began behind the a-th.
LEMMA TokenRun ==
  ASSUME NEW line \in Seq(Characters), NEW a \in 0..Len(line), NEW i \in a..Len(line),
         NEW j \in i..Len(line), NEW m \in Quotes \cup {"plain"}, NEW T,
         Lexed(line)[i] = State(m, T, Part(line, a, i)),
         \A k \in (i + 1)..j : line[k] \notin Enders(m)
  PROVE  Lexed(line)[j] = State(m, T, Part(line, a, j))
<1>1. PICK L : L = Lexed(line)
  OBVIOUS
<1>2. /\ i \in Nat /\ j \in Nat
      /\ \A k \in i..(j - 1) : k \in 0..(Len(line) - 1) /\ k + 1 \in (i + 1)..j
                                /\ k \in a..(Len(line) - 1) /\ k + 1 \in i..j
  OBVIOUS
<1>3. \A k \in i..(j - 1) : L[k + 1] = Lex(L[k], line[k + 1])
  BY <1>1, <1>2, LexedLemma
<1>4. ASSUME NEW c, NEW w, c \notin Enders(m)
      PROVE  Lex(State(m, T, w), c) = State(m, T, Append(w, c))
  <2>1. CASE m = "plain"
    BY <1>4, <2>1, LexPlain DEF Enders
  <2>2. CASE m # "plain"
    <3>1. m \in Quotes /\ c # m
      BY <1>4, <2>2 DEF Enders
    <3>2. QED
      BY <3>1, LexQuoted
  <2>3. QED
    BY <2>1, <2>2
<1>5. PICK P : P = {k \in i..j : L[k] = State(m, T, Part(line, a, k))}
  OBVIOUS
<1>6. i \in P
  BY <1>1, <1>2, <1>5
<1>7. ASSUME NEW k \in i..(j - 1), k \in P
      PROVE  k + 1 \in P
  <2>1. k + 1 \in i..j /\ k + 1 \in (i + 1)..j /\ k \in a..(Len(line) - 1)
    BY <1>2
  <2>2. L[k] = State(m, T, Part(line, a, k))
    BY <1>5, <1>7
  <2>3. L[k + 1] = State(m, T, Append(Part(line, a, k), line[k + 1]))
    BY <1>3, <1>4, <2>1, <2>2
  <2>4. Append(Part(line, a, k), line[k + 1]) = Part(line, a, k + 1)
    BY <2>1, PartLemma
  <2>5. QED
    BY <1>5, <2>1, <2>3, <2>4
<1>8. j \in P
  <2>1. \A k \in i..j : k \in P
    BY <1>2, <1>6, <1>7, Upwards
  <2>2. QED
    BY <2>1
<1>9. QED
  BY <1>1, <1>5, <1>8
--------------------------------------------------------------------------------
\* What is left of a line from index p on.
Rest(b, line, p) == \A i \in p..MaxLine : b[i] = IF i < Len(line) THEN line[i + 1] ELSE Nul

LEMMA StartLemma ==
  ASSUME NEW line \in Seq(Characters), Len(line) \in 0..MaxLine, NEW b, NEW p \in 0..Len(line), NEW T,
         Rest(b, line, p), Lexed(line)[p] = State("between", T, <<>>)
  PROVE  /\ Find(b, p, NotWhite) \in p..Len(line)
         /\ Find(b, Find(b, p, NotWhite), {Nul}) = Len(line)
         /\ Lexed(line)[Find(b, p, NotWhite)] = State("between", T, <<>>)
         /\ Find(b, p, NotWhite) < Len(line) => line[Find(b, p, NotWhite) + 1] \notin White
<1>1. PICK n : n = Len(line)
  OBVIOUS
<1>2. MaxLine \in Nat /\ n \in Nat /\ p \in 0..n /\ n \in 0..MaxLine /\ n \in p..MaxLine /\ p \in 0..MaxLine
  BY <1>1, MaxLineAssumption
<1>3. \A i \in p..MaxLine : b[i] = IF i < n THEN line[i + 1] ELSE Nul
  BY <1>1 DEF Rest
<1>4. \A k \in 1..n : line[k] \in Characters /\ line[k] # Nul
  <2>1. \A k \in 1..n : line[k] \in Characters
    BY <1>1
  <2>2. Nul \notin Characters
    BY CharactersAssumption
  <2>3. QED
    BY <2>1, <2>2
<1>5. b[n] = Nul
  BY <1>2, <1>3
<1>6. PICK t : t = Find(b, p, NotWhite)
  OBVIOUS
<1>7. t \in p..n /\ b[t] \in NotWhite /\ \A k \in p..(t - 1) : b[k] \notin NotWhite
  <2>1. b[n] \in NotWhite
    BY <1>5 DEF NotWhite
  <2>2. QED
    BY <1>2, <1>6, <2>1, FindLemma
<1>8. Find(b, t, {Nul}) = n
  <2>1. ASSUME NEW k \in t..(n - 1)
        PROVE  b[k] # Nul
    <3>1. k \in p..MaxLine /\ k < n /\ k + 1 \in 1..n
      BY <1>2, <1>7
    <3>2. QED
      BY <1>3, <1>4, <3>1
  <2>2. t \in 0..MaxLine /\ n \in t..MaxLine
    BY <1>2, <1>7
  <2>3. QED
    BY <1>5, <2>1, <2>2, FindIs
<1>9. \A k \in (p + 1)..t : line[k] \in White
  <2>1. SUFFICES ASSUME NEW k \in (p + 1)..t
                 PROVE  line[k] \in White
    OBVIOUS
  <2>2. k - 1 \in p..(t - 1) /\ k - 1 \in p..MaxLine /\ k - 1 < n /\ (k - 1) + 1 = k /\ k \in 1..n
    BY <1>2, <1>7
  <2>3. b[k - 1] = line[k] /\ b[k - 1] \notin NotWhite
    BY <1>3, <1>7, <2>2
  <2>4. QED
    BY <1>4, <2>2, <2>3 DEF NotWhite
<1>10. Lexed(line)[t] = State("between", T, <<>>)
  BY <1>1, <1>7, <1>9, WhiteRun
<1>11. ASSUME t < n
       PROVE  line[t + 1] \notin White
  <2>1. t \in p..MaxLine /\ t + 1 \in 1..n
    BY <1>2, <1>7, <1>11
  <2>2. b[t] = line[t + 1]
    BY <1>3, <1>11, <2>1
  <2>3. line[t + 1] # Nul
    BY <1>4, <2>1
  <2>4. QED
    BY <1>7, <2>2, <2>3 DEF NotWhite
<1>12. QED
  BY <1>1, <1>6, <1>7, <1>8, <1>10, <1>11

LEMMA TokenLemma ==
  ASSUME NEW line \in Seq(Characters), Len(line) \in 0..MaxLine, NEW b, NEW t \in 0..(Len(line) - 1),
         NEW T, Rest(b, line, t), Lexed(line)[t] = State("between", T, <<>>),
         line[t + 1] \notin White
  PROVE  /\ TokenStart(b, t) \in t..Len(line)
         /\ TokenEnd(b, t) \in TokenStart(b, t)..Len(line)
         /\ \E m \in Quotes \cup {"plain"} :
               /\ Lexed(line)[TokenEnd(b, t)] = State(m, T, Part(line, TokenStart(b, t), TokenEnd(b, t)))
               /\ TokenEnd(b, t) < Len(line) => line[TokenEnd(b, t) + 1] \in Enders(m)
<1>1. PICK n, c, L : n = Len(line) /\ c = line[t + 1] /\ L = Lexed(line)
  OBVIOUS
<1>2. MaxLine \in Nat /\ n \in Nat /\ t \in 0..(n - 1) /\ n \in 0..MaxLine /\ t \in t..MaxLine /\ t < n /\ t + 1 \in 0..n
  BY <1>1, MaxLineAssumption
<1>3. \A i \in t..MaxLine : b[i] = IF i < n THEN line[i + 1] ELSE Nul
  BY <1>1 DEF Rest
<1>4. \A k \in 1..n : line[k] \in Characters /\ line[k] # Nul
  <2>1. \A k \in 1..n : line[k] \in Characters
    BY <1>1
  <2>2. Nul \notin Characters
    BY CharactersAssumption
  <2>3. QED
    BY <2>1, <2>2
<1>5. b[n] = Nul /\ b[t] = c
  BY <1>1, <1>2, <1>3
<1>6. L[t + 1] = Lex(State("between", T, <<>>), c)
  BY <1>1, LexedLemma
<1>7. CASE c \in Quotes
  <2>1. PICK e : e = Find(b, t + 1, {c, Nul})
    OBVIOUS
  <2>2. e \in (t + 1)..n /\ b[e] \in {c, Nul} /\ \A k \in (t + 1)..(e - 1) : b[k] \notin {c, Nul}
    <3>1. b[n] \in {c, Nul} /\ t + 1 \in 0..MaxLine /\ n \in (t + 1)..MaxLine
      BY <1>2, <1>5
    <3>2. QED
      BY <2>1, <3>1, FindLemma
  <2>3. TokenStart(b, t) = t + 1 /\ TokenEnd(b, t) = e
    BY <1>5, <1>7, <2>1 DEF TokenStart, TokenEnd
  <2>4. L[t + 1] = State(c, T, Part(line, t + 1, t + 1))
    <3>1. Part(line, t + 1, t + 1) = <<>>
      BY <1>2 DEF Part
    <3>2. QED
      BY <1>6, <1>7, <3>1, LexBetween
  <2>5. \A k \in ((t + 1) + 1)..e : line[k] \notin Enders(c)
    <3>1. SUFFICES ASSUME NEW k \in ((t + 1) + 1)..e
                   PROVE  line[k] \notin Enders(c)
      OBVIOUS
    <3>2. k - 1 \in (t + 1)..(e - 1) /\ k - 1 \in t..MaxLine /\ k - 1 < n /\ (k - 1) + 1 = k
      BY <1>2, <2>2
    <3>3. b[k - 1] = line[k] /\ b[k - 1] # c
      BY <1>3, <2>2, <3>2
    <3>4. c # "plain"
      BY <1>7 DEF Quotes
    <3>5. QED
      BY <3>3, <3>4 DEF Enders
  <2>6. L[e] = State(c, T, Part(line, t + 1, e))
    <3>1. t + 1 \in 0..Len(line) /\ t + 1 \in (t + 1)..Len(line) /\ e \in (t + 1)..Len(line)
      BY <1>1, <1>2, <2>2
    <3>2. QED
      BY <1>1, <1>7, <2>4, <2>5, <3>1, TokenRun
  <2>7. ASSUME e < n
        PROVE  line[e + 1] \in Enders(c)
    <3>1. e \in t..MaxLine /\ e + 1 \in 1..n
      BY <1>2, <2>2, <2>7
    <3>2. b[e] = line[e + 1] /\ line[e + 1] # Nul
      BY <1>3, <1>4, <2>7, <3>1
    <3>3. c # "plain"
      BY <1>7 DEF Quotes
    <3>4. QED
      BY <2>2, <3>2, <3>3 DEF Enders
  <2>8. t + 1 \in t..n /\ e \in (t + 1)..n
    BY <1>2, <2>2
  <2>9. QED
    BY <1>1, <1>7, <2>3, <2>6, <2>7, <2>8
<1>8. CASE c \notin Quotes
  <2>1. PICK e : e = Find(b, t, White \cup {Nul})
    OBVIOUS
  <2>2. /\ e \in t..n /\ b[e] \in White \cup {Nul}
        /\ \A k \in t..(e - 1) : b[k] \notin White \cup {Nul}
    <3>1. b[n] \in White \cup {Nul} /\ t \in 0..MaxLine /\ n \in t..MaxLine
      BY <1>2, <1>5
    <3>2. QED
      BY <2>1, <3>1, FindLemma
  <2>3. TokenStart(b, t) = t /\ TokenEnd(b, t) = e
    BY <1>5, <1>8, <2>1 DEF TokenStart, TokenEnd
  <2>4. e # t
    <3>1. t + 1 \in 1..n
      BY <1>2
    <3>2. c # Nul /\ c \notin White
      BY <1>1, <1>4, <3>1
    <3>3. QED
      BY <1>5, <2>2, <3>2
  <2>5. L[t + 1] = State("plain", T, Part(line, t, t + 1))
    <3>1. (t + 1) - t = 1
      BY <1>2
    <3>2. Part(line, t, t + 1) = [k \in 1..1 |-> line[t + k]]
      BY <3>1 DEF Part
    <3>3. Part(line, t, t + 1) = <<c>>
      BY <1>1, <3>2
    <3>4. c \notin White
      BY <1>1
    <3>5. QED
      BY <1>6, <1>8, <3>3, <3>4, LexBetween
  <2>6. \A k \in ((t + 1) + 1)..e : line[k] \notin Enders("plain")
    <3>1. SUFFICES ASSUME NEW k \in ((t + 1) + 1)..e
                   PROVE  line[k] \notin Enders("plain")
      OBVIOUS
    <3>2. k - 1 \in t..(e - 1) /\ k - 1 \in t..MaxLine /\ k - 1 < n /\ (k - 1) + 1 = k
      BY <1>2, <2>2
    <3>3. b[k - 1] = line[k] /\ b[k - 1] \notin White
      BY <1>3, <2>2, <3>2
    <3>4. QED
      BY <3>3 DEF Enders
  <2>7. L[e] = State("plain", T, Part(line, t, e))
    <3>1. t \in 0..Len(line) /\ t + 1 \in t..Len(line) /\ e \in (t + 1)..Len(line)
      BY <1>1, <1>2, <2>2, <2>4
    <3>2. QED
      BY <1>1, <2>5, <2>6, <3>1, TokenRun
  <2>8. ASSUME e < n
        PROVE  line[e + 1] \in Enders("plain")
    <3>1. e \in t..MaxLine /\ e + 1 \in 1..n
      BY <1>2, <2>2, <2>8
    <3>2. b[e] = line[e + 1] /\ line[e + 1] # Nul
      BY <1>3, <1>4, <2>8, <3>1
    <3>3. QED
      BY <2>2, <3>2 DEF Enders
  <2>9. t \in t..n /\ e \in t..n
    BY <1>2, <2>2
  <2>10. QED
    BY <1>1, <2>3, <2>7, <2>8, <2>9
<1>9. QED
  BY <1>7, <1>8

\* The character that ends an argument.
LEMMA EndLemma ==
  ASSUME NEW line \in Seq(Characters), NEW e \in 0..(Len(line) - 1), NEW m \in Quotes \cup {"plain"},
         NEW T, NEW w, Lexed(line)[e] = State(m, T, w), line[e + 1] \in Enders(m)
  PROVE  Lexed(line)[e + 1] = State("between", Append(T, w), <<>>)
<1>1. Lexed(line)[e + 1] = Lex(State(m, T, w), line[e + 1])
  BY LexedLemma
<1>2. CASE m = "plain"
  BY <1>1, <1>2, LexPlain DEF Enders
<1>3. CASE m # "plain"
  BY <1>1, <1>3, LexQuoted DEF Enders
<1>4. QED
  BY <1>2, <1>3
--------------------------------------------------------------------------------
\* A string is the same in a buffer that differs behind its end only.
LEMMA StringSame ==
  ASSUME NEW b, NEW c, NEW a \in 0..MaxLine, NEW e \in a..MaxLine, b[e] = Nul,
         \A k \in a..e : c[k] = b[k]
  PROVE  String(c, a) = String(b, a)
<1>1. PICK j : j = Find(b, a, {Nul})
  OBVIOUS
<1>2. j \in a..e /\ b[j] = Nul /\ \A k \in a..(j - 1) : b[k] # Nul
  <2>1. b[e] \in {Nul}
    OBVIOUS
  <2>2. QED
    BY <1>1, <2>1, FindLemma
<1>3. j \in a..MaxLine /\ \A k \in a..(j - 1) : k \in a..e
  BY <1>2, MaxLineAssumption
<1>4. c[j] = Nul /\ \A k \in a..(j - 1) : c[k] # Nul
  BY <1>2, <1>3
<1>5. String(b, a) = [k \in 1..(j - a) |-> b[a + k - 1]]
  BY <1>2, <1>3, StringLemma
<1>6. String(c, a) = [k \in 1..(j - a) |-> c[a + k - 1]]
  BY <1>3, <1>4, StringLemma
<1>7. \A k \in 1..(j - a) : a + k - 1 \in a..e
  BY <1>2
<1>8. QED
  BY <1>5, <1>6, <1>7

ArgumentsOf(b, a) == [i \in 1..Len(a) |-> String(b, a[i])]

\* Every string found before ends before index p.
Closed(b, a, p) == \A i \in 1..Len(a) : \E e \in a[i]..(p - 1) : b[e] = Nul

LEMMA CutLemma ==
  ASSUME NEW line \in Seq(Characters), Len(line) \in 0..MaxLine, NEW b \in Buffer, b[MaxLine] = Nul,
         NEW a \in Seq(0..MaxLine), NEW p \in 0..Len(line), Rest(b, line, p), Closed(b, a, p),
         ArgumentsOf(b, a) \in Seq(Seq(Characters)),
         NEW ts \in p..Len(line), NEW te \in ts..Len(line),
         NEW c, c \in Buffer /\ c[te] = Nul /\ \A i \in 0..MaxLine : i # te => c[i] = b[i]
  PROVE  /\ c \in Buffer /\ c[MaxLine] = Nul
         /\ Append(a, ts) \in Seq(0..MaxLine) /\ Len(Append(a, ts)) = Len(a) + 1
         /\ ArgumentsOf(c, Append(a, ts)) = Append(ArgumentsOf(b, a), Part(line, ts, te))
         /\ Closed(c, Append(a, ts), te + 1)
         /\ Rest(c, line, te + 1)
<1>1. PICK n : n = Len(line)
  OBVIOUS
<1>2. /\ MaxLine \in Nat /\ n \in Nat /\ n \in 0..MaxLine /\ p \in 0..n /\ ts \in p..n
      /\ te \in ts..n /\ te \in 0..MaxLine /\ ts \in 0..MaxLine /\ te \in ts..MaxLine
  BY <1>1, MaxLineAssumption
<1>3. \A i \in p..MaxLine : b[i] = IF i < n THEN line[i + 1] ELSE Nul
  BY <1>1 DEF Rest
<1>4. c \in Buffer /\ c[te] = Nul /\ \A i \in 0..MaxLine : i # te => c[i] = b[i]
  OBVIOUS
<1>5. c[MaxLine] = Nul
  <2>1. MaxLine \in 0..MaxLine
    BY <1>2
  <2>2. QED
    BY <1>4, <2>1
<1>6. PICK d, l : d = Append(a, ts) /\ l = Len(a)
  OBVIOUS
<1>7. /\ d \in Seq(0..MaxLine) /\ l \in Nat /\ Len(d) = l + 1 /\ d[l + 1] = ts
      /\ \A i \in 1..l : d[i] = a[i] /\ a[i] \in 0..MaxLine
  <2>1. PICK S : S = 0..MaxLine
    OBVIOUS
  <2>2. a \in Seq(S) /\ ts \in S /\ d = Append(a, ts) /\ l = Len(a)
    BY <1>2, <1>6, <2>1
  <2>3. /\ d \in Seq(S) /\ l \in Nat /\ Len(d) = l + 1 /\ d[l + 1] = ts
        /\ \A i \in 1..l : d[i] = a[i] /\ a[i] \in S
    BY <2>2
  <2>4. QED
    BY <2>1, <2>3
<1>8. ASSUME NEW i \in 1..l
      PROVE  /\ String(c, d[i]) = String(b, a[i])
             /\ \E e \in d[i]..te : c[e] = Nul
  <2>1. PICK e \in a[i]..(p - 1) : b[e] = Nul
    BY <1>6 DEF Closed
  <2>2. a[i] \in 0..MaxLine /\ e \in a[i]..MaxLine /\ e \in a[i]..te
    BY <1>2, <1>7, <2>1
  <2>3. \A k \in a[i]..e : k \in 0..MaxLine /\ k # te
    BY <1>2, <2>1, <2>2
  <2>4. \A k \in a[i]..e : c[k] = b[k]
    BY <1>4, <2>3
  <2>5. String(c, a[i]) = String(b, a[i])
    BY <2>1, <2>2, <2>4, StringSame
  <2>6. c[e] = Nul
    BY <2>1, <2>2, <2>4
  <2>7. QED
    BY <1>7, <2>2, <2>5, <2>6
<1>9. String(c, ts) = Part(line, ts, te)
  <2>1. ASSUME NEW k \in ts..(te - 1)
        PROVE  c[k] = line[k + 1] /\ c[k] # Nul
    <3>1. k \in p..MaxLine /\ k < n /\ k \in 0..MaxLine /\ k # te /\ k + 1 \in 1..n
      BY <1>2
    <3>2. c[k] = line[k + 1]
      BY <1>3, <1>4, <3>1
    <3>3. line[k + 1] \in Characters
      BY <1>1, <3>1
    <3>4. Nul \notin Characters
      BY CharactersAssumption
    <3>5. QED
      BY <3>2, <3>3, <3>4
  <2>2. String(c, ts) = [k \in 1..(te - ts) |-> c[ts + k - 1]]
    <3>1. \A k \in ts..(te - 1) : c[k] # Nul
      BY <2>1
    <3>2. ts \in 0..MaxLine /\ te \in ts..MaxLine /\ c[te] = Nul
      BY <1>2, <1>4
    <3>3. QED
      BY <3>1, <3>2, StringLemma
  <2>3. \A k \in 1..(te - ts) : ts + k - 1 \in ts..(te - 1) /\ (ts + k - 1) + 1 = ts + k
    BY <1>2
  <2>4. \A k \in 1..(te - ts) : c[ts + k - 1] = line[ts + k]
    BY <2>1, <2>3
  <2>5. String(c, ts) = [k \in 1..(te - ts) |-> line[ts + k]]
    BY <2>2, <2>4
  <2>6. QED
    BY <2>5 DEF Part
<1>10. ArgumentsOf(c, d) = Append(ArgumentsOf(b, a), Part(line, ts, te))
  <2>1. PICK A, w : A = ArgumentsOf(b, a) /\ w = Part(line, ts, te)
    OBVIOUS
  <2>2. A \in Seq(Seq(Characters)) /\ A = [i \in 1..l |-> String(b, a[i])]
    BY <1>6, <2>1 DEF ArgumentsOf
  <2>3. Len(A) = l
    BY <1>7, <2>2
  <2>4. Append(A, w) = [i \in 1..(l + 1) |-> IF i <= l THEN A[i] ELSE w]
    BY <1>7, <2>2, <2>3
  <2>5. ASSUME NEW i \in 1..(l + 1)
        PROVE  String(c, d[i]) = IF i <= l THEN A[i] ELSE w
    <3>1. CASE i \in 1..l
      <4>1. i <= l /\ String(c, d[i]) = String(b, a[i])
        BY <1>7, <1>8, <3>1
      <4>2. A[i] = String(b, a[i])
        BY <2>2, <3>1
      <4>3. QED
        BY <4>1, <4>2
    <3>2. CASE i = l + 1
      <4>1. ~(l + 1 <= l)
        BY <1>7
      <4>2. QED
        BY <1>7, <1>9, <2>1, <3>2, <4>1
    <3>3. QED
      BY <1>7, <3>1, <3>2
  <2>6. ArgumentsOf(c, d) = [i \in 1..(l + 1) |-> String(c, d[i])]
    BY <1>7 DEF ArgumentsOf
  <2>7. QED
    BY <2>1, <2>4, <2>5, <2>6
<1>11. Closed(c, d, te + 1)
  <2>1. SUFFICES ASSUME NEW i \in 1..(l + 1)
                 PROVE  \E e \in d[i]..te : c[e] = Nul
    <3>1. (te + 1) - 1 = te
      BY <1>2
    <3>2. QED
      BY <1>7, <2>1, <3>1 DEF Closed
  <2>2. CASE i \in 1..l
    BY <1>8, <2>2
  <2>3. CASE i = l + 1
    <3>1. te \in ts..te
      BY <1>2
    <3>2. QED
      BY <1>4, <1>7, <2>3, <3>1
  <2>4. QED
    BY <1>7, <2>2, <2>3
<1>12. Rest(c, line, te + 1)
  <2>1. SUFFICES ASSUME NEW i \in (te + 1)..MaxLine
                 PROVE  c[i] = IF i < n THEN line[i + 1] ELSE Nul
    BY <1>1, <2>1 DEF Rest
  <2>2. i \in p..MaxLine /\ i # te /\ i \in 0..MaxLine
    BY <1>2
  <2>3. QED
    BY <1>3, <1>4, <2>2
<1>13. QED
  BY <1>4, <1>5, <1>6, <1>7, <1>10, <1>11, <1>12
--------------------------------------------------------------------------------
\* What ArgvIsTokens says of a list of arguments.
AllTokens(A, line) ==
  A = SubSeq(Tokens(line), 1, IF Len(Tokens(line)) < NUM_ARGS THEN Len(Tokens(line)) ELSE NUM_ARGS)

LEMMA AllLemma ==
  ASSUME NEW line, NEW A \in Seq(Seq(Characters)), Len(A) <= NUM_ARGS, Tokens(line) = A
  PROVE  AllTokens(A, line)
<1>1. (IF Len(A) < NUM_ARGS THEN Len(A) ELSE NUM_ARGS) = Len(A)
  BY NumArgsAssumption
<1>2. SubSeq(A, 1, Len(A)) = A
  OBVIOUS
<1>3. QED
  BY <1>1, <1>2 DEF AllTokens

\* With NUM_ARGS arguments the rest of the line is left.
LEMMA FullLemma ==
  ASSUME NEW line \in Seq(Characters), NEW A \in Seq(Seq(Characters)), Len(A) = NUM_ARGS,
         NEW k \in 0..Len(line), Lexed(line)[k] = State("between", A, <<>>)
  PROVE  AllTokens(A, line)
<1>1. PICK s : s = Lexed(line)[Len(line)]
  OBVIOUS
<1>2. s \in LexState /\ Len(s.tokens) >= Len(A) /\ SubSeq(s.tokens, 1, Len(A)) = A
  <2>1. Len(line) \in k..Len(line)
    OBVIOUS
  <2>2. QED
    BY <1>1, <2>1, TokensGrow
<1>3. s.tokens \in Seq(Seq(Characters)) /\ s.token \in Seq(Characters)
  BY <1>2 DEF LexState
<1>4. Tokens(line) = s.tokens \/ Tokens(line) = Append(s.tokens, s.token)
  BY <1>1 DEF Tokens, Ended, Between
<1>5. PICK V : V = Tokens(line)
  OBVIOUS
<1>6. V \in Seq(Seq(Characters)) /\ Len(V) >= Len(A) /\ SubSeq(V, 1, Len(A)) = A
  <2>1. CASE V = s.tokens
    BY <1>2, <1>3, <2>1
  <2>2. CASE V = Append(s.tokens, s.token)
    BY <1>2, <1>3, <2>2, AppendKeeps
  <2>3. QED
    BY <1>4, <1>5, <2>1, <2>2
<1>7. (IF Len(V) < NUM_ARGS THEN Len(V) ELSE NUM_ARGS) = Len(A)
  BY <1>6, NumArgsAssumption
<1>8. QED
  BY <1>5, <1>6, <1>7 DEF AllTokens

\* What has been read up to any character of a line has its type.
LEMMA LexedType ==
  ASSUME NEW line \in Seq(Characters), NEW k \in 0..Len(line)
  PROVE  Lexed(line)[k] \in LexState
<1>1. PICK T : T = <<>>
  OBVIOUS
<1>2. T \in Seq(Seq(Characters))
  BY <1>1
<1>3. Lexed(line)[0] = State("between", T, <<>>)
  BY <1>1, LexedLemma DEF Between, State
<1>4. 0 \in 0..Len(line)
  OBVIOUS
<1>5. QED
  BY <1>2, <1>3, <1>4, TokensGrow
--------------------------------------------------------------------------------
(***************************************************************************)
(* The invariant.  Before the splitting the line buffer holds what was     *)
(* typed; while it goes on, the reference has read the line up to string,  *)
(* where it is between two arguments and has found those argv points to,   *)
(* each of them closed by a Nul that is behind it.                         *)
(***************************************************************************)
Lines ==
  /\ typed \in Seq(Characters) /\ Len(typed) \in 0..MaxLine /\ argv \in Seq(0..MaxLine)
  /\ pc \in {"menu", "prompt", "read"} => argv = <<>> /\ string = 0
  /\ pc \in {"menu", "prompt"} => typed = <<>> /\ CurrentPosition = 0
  /\ pc \in {"read", "split", "dispatch"} => \A i \in 0..(Len(typed) - 1) : Line[i] = typed[i + 1]
  /\ pc = "read" => Len(typed) = CurrentPosition
  /\ pc \in {"split", "dispatch"} => CurrentPosition = 0 /\ Line[Len(typed)] = Nul

Splitting ==
  pc = "split" =>
    /\ string \in 0..Len(typed) /\ Len(argv) < NUM_ARGS
    /\ Rest(CommandBuf, typed, string) /\ Closed(CommandBuf, argv, string)
    /\ Lexed(typed)[string] = State("between", ArgumentsOf(CommandBuf, argv), <<>>)

IInv == TypeOK /\ Lines /\ Splitting /\ ArgvIsTokens

\* Enter takes the line as it was typed.
LEMMA EnterLemma ==
  ASSUME IInv, pc = "read", NEW b, b = [Line EXCEPT ![CurrentPosition] = Nul]
  PROVE  /\ b \in Buffer /\ b[MaxLine] = Nul /\ b[Len(typed)] = Nul
         /\ \A i \in 0..(Len(typed) - 1) : b[i] = typed[i + 1]
<1>1. PICK n : n = Len(typed)
  OBVIOUS
<1>2. /\ n = CurrentPosition /\ n \in 0..MaxLine /\ Line \in Buffer /\ Line[MaxLine] = Nul
      /\ \A i \in 0..(n - 1) : Line[i] = typed[i + 1]
  BY <1>1 DEF IInv, TypeOK, Lines
<1>3. b \in Buffer /\ b[n] = Nul /\ \A i \in 0..MaxLine : i # n => b[i] = Line[i]
  BY <1>2 DEF Buffer
<1>4. MaxLine \in 0..MaxLine /\ \A i \in 0..(n - 1) : i \in 0..MaxLine /\ i # n
  BY <1>2, MaxLineAssumption
<1>5. QED
  BY <1>1, <1>2, <1>3, <1>4

\* A buffer that holds a line, as a string.
LEMMA HeldLemma ==
  ASSUME NEW b, NEW line \in Seq(Characters), Len(line) \in 0..MaxLine, b[Len(line)] = Nul,
         \A i \in 0..(Len(line) - 1) : b[i] = line[i + 1], NEW a \in 0..Len(line)
  PROVE  String(b, a) = Part(line, a, Len(line))
<1>1. PICK n : n = Len(line)
  OBVIOUS
<1>2. n \in Nat /\ MaxLine \in Nat /\ n \in 0..MaxLine /\ a \in 0..n /\ a \in 0..MaxLine /\ n \in a..MaxLine
  BY <1>1, MaxLineAssumption
<1>3. ASSUME NEW k \in a..(n - 1)
      PROVE  b[k] = line[k + 1] /\ b[k] # Nul
  <2>1. k \in 0..(n - 1) /\ k + 1 \in 1..n
    BY <1>2
  <2>2. b[k] = line[k + 1] /\ line[k + 1] \in Characters
    BY <1>1, <2>1
  <2>3. Nul \notin Characters
    BY CharactersAssumption
  <2>4. QED
    BY <2>2, <2>3
<1>4. String(b, a) = [k \in 1..(n - a) |-> b[a + k - 1]]
  <2>1. b[n] = Nul /\ \A k \in a..(n - 1) : b[k] # Nul
    BY <1>1, <1>3
  <2>2. QED
    BY <1>2, <2>1, StringLemma
<1>5. \A k \in 1..(n - a) : a + k - 1 \in a..(n - 1) /\ (a + k - 1) + 1 = a + k
  BY <1>2
<1>6. \A k \in 1..(n - a) : b[a + k - 1] = line[a + k]
  BY <1>3, <1>5
<1>7. QED
  BY <1>1, <1>4, <1>6 DEF Part

\* All of it.
LEMMA WholeLemma ==
  ASSUME NEW line \in Seq(Characters)
  PROVE  Part(line, 0, Len(line)) = line
<1>1. PICK n : n = Len(line)
  OBVIOUS
<1>2. n \in Nat /\ n - 0 = n /\ line = [k \in 1..n |-> line[k]]
  BY <1>1
<1>3. \A k \in 1..n : 0 + k = k
  OBVIOUS
<1>4. [k \in 1..n |-> line[0 + k]] = [k \in 1..n |-> line[k]]
  BY <1>3
<1>5. QED
  BY <1>1, <1>2, <1>4 DEF Part
--------------------------------------------------------------------------------
LEMMA ElementLemma ==
  ASSUME NEW S, NEW a \in Seq(S)
  PROVE  \A i \in 1..Len(a) : a[i] \in S
  OBVIOUS

LEMMA InitIInv == Init => IInv
<1>1. SUFFICES ASSUME Init
               PROVE  IInv
  OBVIOUS
<1>2. MaxLine \in Nat /\ 0 \in 0..MaxLine /\ MaxLine \in 0..MaxLine
  BY MaxLineAssumption
<1>3. TypeOK
  BY <1>1, <1>2 DEF Init, TypeOK, Buffer, Nothing
<1>4. Lines
  <2>1. typed \in Seq(Characters) /\ Len(typed) = 0 /\ argv \in Seq(0..MaxLine)
    BY <1>1 DEF Init
  <2>2. QED
    BY <1>1, <1>2, <2>1 DEF Init, Lines
<1>5. QED
  BY <1>1, <1>3, <1>4 DEF Init, IInv, Splitting, ArgvIsTokens

LEMMA TypeStep ==
  ASSUME IInv, NEW c \in Characters, TypeCharacter(c)
  PROVE  IInv'
<1>1. PICK n : n = Len(typed)
  OBVIOUS
<1>2. /\ pc = "read" /\ pc' = "read" /\ n = CurrentPosition /\ CurrentPosition < MaxLine
      /\ Line' = [Line EXCEPT ![n] = c] /\ typed' = Append(typed, c) /\ CurrentPosition' = n + 1
      /\ UNCHANGED <<CommandBuf, string, argv, cwd, request>>
  BY <1>1 DEF IInv, Lines, TypeCharacter
<1>3. /\ typed \in Seq(Characters) /\ n \in 0..MaxLine /\ argv \in Seq(0..MaxLine)
      /\ argv = <<>> /\ string = 0 /\ \A i \in 0..(n - 1) : Line[i] = typed[i + 1]
  BY <1>1, <1>2 DEF IInv, Lines
<1>4. MaxLine \in Nat /\ n \in Nat /\ n + 1 \in 0..MaxLine /\ n \in 0..MaxLine /\ n # MaxLine /\ MaxLine \in 0..MaxLine
  BY <1>2, <1>3, MaxLineAssumption
<1>5. /\ typed' \in Seq(Characters) /\ Len(typed') = n + 1 /\ typed'[n + 1] = c
      /\ \A i \in 1..n : typed'[i] = typed[i]
  <2>1. PICK t : t = Append(typed, c)
    OBVIOUS
  <2>2. /\ t \in Seq(Characters) /\ Len(t) = Len(typed) + 1 /\ t[Len(typed) + 1] = c
        /\ \A i \in 1..Len(typed) : t[i] = typed[i]
    BY <1>3, <2>1
  <2>3. QED
    BY <1>1, <1>2, <2>1, <2>2
<1>6. Line \in Buffer /\ Line[MaxLine] = Nul
  BY DEF IInv, TypeOK
<1>7. Line' \in Buffer /\ Line'[n] = c /\ \A i \in 0..MaxLine : i # n => Line'[i] = Line[i]
  BY <1>2, <1>4, <1>6 DEF Buffer
<1>8. TypeOK'
  BY <1>2, <1>4, <1>6, <1>7 DEF IInv, TypeOK
<1>9. Lines'
  <2>1. ASSUME NEW i \in 0..n
        PROVE  Line'[i] = typed'[i + 1]
    <3>1. CASE i = n
      BY <1>5, <1>7, <3>1
    <3>2. CASE i # n
      <4>1. i \in 0..(n - 1) /\ i \in 0..MaxLine /\ i + 1 \in 1..n
        BY <1>4, <3>2
      <4>2. QED
        BY <1>3, <1>5, <1>7, <3>2, <4>1
    <3>3. QED
      BY <3>1, <3>2
  <2>2. Len(typed') - 1 = n /\ Len(typed') \in 0..MaxLine
    BY <1>4, <1>5
  <2>3. \A i \in 0..(Len(typed') - 1) : Line'[i] = typed'[i + 1]
    BY <2>1, <2>2
  <2>4. QED
    BY <1>2, <1>3, <1>5, <2>2, <2>3 DEF Lines
<1>10. QED
  BY <1>2, <1>8, <1>9 DEF IInv, Splitting, ArgvIsTokens

LEMMA EnterStep ==
  ASSUME IInv, RtlCliShellLoop
  PROVE  IInv'
<1>1. PICK n : n = Len(typed)
  OBVIOUS
<1>2. /\ pc = "read" /\ Line' = [Line EXCEPT ![CurrentPosition] = Nul] /\ CurrentPosition' = 0
      /\ UNCHANGED <<string, argv, cwd, request>>
  BY DEF RtlCliShellLoop
<1>3. /\ typed \in Seq(Characters) /\ n \in 0..MaxLine /\ argv = <<>> /\ string = 0
      /\ argv \in Seq(0..MaxLine)
  BY <1>1, <1>2 DEF IInv, Lines
<1>4. /\ Line' \in Buffer /\ Line'[MaxLine] = Nul /\ Line'[n] = Nul
      /\ \A i \in 0..(n - 1) : Line'[i] = typed[i + 1]
  BY <1>1, <1>2, EnterLemma
<1>5. String(Line', 0) = typed
  <2>1. 0 \in 0..n /\ n \in Nat
    BY <1>3
  <2>2. String(Line', 0) = Part(typed, 0, n)
    BY <1>1, <1>3, <1>4, <2>1, HeldLemma
  <2>3. QED
    BY <1>1, <1>3, <2>2, WholeLemma
<1>6. MaxLine \in Nat /\ 0 \in 0..MaxLine /\ MaxLine \in 0..MaxLine
  BY MaxLineAssumption
<1>7. CASE typed = <<>> \/ IsPrefix(Words["exit"], typed)
  <2>1. pc' \in {"prompt", "menu"} /\ typed' = <<>> /\ CommandBuf' = CommandBuf
    BY <1>5, <1>7 DEF RtlCliShellLoop
  <2>2. TypeOK'
    BY <1>2, <1>4, <1>6, <2>1 DEF IInv, TypeOK
  <2>3. typed' \in Seq(Characters) /\ Len(typed') = 0
    BY <2>1
  <2>4. Lines'
    BY <1>2, <1>3, <1>6, <2>1, <2>3 DEF Lines
  <2>5. QED
    BY <2>1, <2>2, <2>4 DEF IInv, Splitting, ArgvIsTokens
<1>8. CASE ~(typed = <<>> \/ IsPrefix(Words["exit"], typed))
  <2>1. pc' = "split" /\ typed' = typed /\ CommandBuf' = Copied(typed)
    BY <1>5, <1>8 DEF RtlCliShellLoop
  <2>2. \A i \in 0..MaxLine : CommandBuf'[i] = IF i < n THEN typed[i + 1] ELSE Nul
    BY <1>1, <2>1 DEF Copied
  <2>3. CommandBuf' \in Buffer /\ CommandBuf'[MaxLine] = Nul
    <3>1. ASSUME NEW i \in 0..MaxLine
          PROVE  (IF i < n THEN typed[i + 1] ELSE Nul) \in Characters \cup {Nul}
      <4>1. i < n => i + 1 \in 1..Len(typed)
        BY <1>1
      <4>2. QED
        BY <1>3, <4>1
    <3>2. CommandBuf' = [i \in 0..MaxLine |-> IF i < n THEN typed[i + 1] ELSE Nul]
      BY <1>1, <2>1 DEF Copied
    <3>3. CommandBuf' \in Buffer
      BY <3>1, <3>2 DEF Buffer
    <3>4. ~(MaxLine < n)
      BY <1>3, <1>6
    <3>5. QED
      BY <1>6, <2>2, <3>3, <3>4
  <2>4. TypeOK'
    BY <1>2, <1>3, <1>4, <1>6, <2>1, <2>3 DEF IInv, TypeOK
  <2>5. Lines'
    BY <1>1, <1>2, <1>3, <1>4, <1>6, <2>1 DEF Lines
  <2>6. Splitting'
    <3>1. 0 \in 0..Len(typed') /\ Len(argv') < NUM_ARGS
      BY <1>1, <1>2, <1>3, <2>1, NumArgsAssumption
    <3>2. Rest(CommandBuf', typed', 0)
      BY <1>1, <2>1, <2>2 DEF Rest
    <3>3. Closed(CommandBuf', argv', 0)
      BY <1>2, <1>3 DEF Closed
    <3>4. ArgumentsOf(CommandBuf', argv') = <<>>
      BY <1>2, <1>3 DEF ArgumentsOf
    <3>5. Lexed(typed')[0] = State("between", <<>>, <<>>)
      BY <1>3, <2>1, LexedLemma DEF Between, State
    <3>6. QED
      BY <1>2, <1>3, <3>1, <3>2, <3>3, <3>4, <3>5 DEF Splitting
  <2>7. QED
    BY <2>1, <2>4, <2>5, <2>6 DEF IInv, ArgvIsTokens
<1>9. QED
  BY <1>7, <1>8

\* The loop is over: argv is what the reference says.
LEMMA DoneLemma ==
  ASSUME pc' = "dispatch", UNCHANGED <<Line, CurrentPosition, cwd, request, typed>>, IInv, pc = "split",
         CommandBuf' \in Buffer, CommandBuf'[MaxLine] = Nul, argv' \in Seq(0..MaxLine),
         AllTokens(ArgumentsOf(CommandBuf', argv'), typed)
  PROVE  IInv'
<1>1. TypeOK'
  <2>1. \A i \in 1..Len(argv') : argv'[i] \in 0..MaxLine
    BY ElementLemma
  <2>2. pc' # "split"
    OBVIOUS
  <2>3. QED
    BY <2>1, <2>2 DEF IInv, TypeOK
<1>2. Lines'
  BY DEF IInv, Lines
<1>3. ArgvIsTokens'
  BY DEF ArgvIsTokens, AllTokens, Arguments, ArgumentsOf
<1>4. QED
  BY <1>1, <1>2, <1>3 DEF IInv, Splitting

LEMMA SplitStep ==
  ASSUME IInv, StringToArguments
  PROVE  IInv'
<1>1. PICK n, A, start, p :
         /\ n = Len(typed) /\ A = ArgumentsOf(CommandBuf, argv) /\ p = string
         /\ start = Find(CommandBuf, string, NotWhite)
  OBVIOUS
<1>2. /\ pc = "split" /\ typed \in Seq(Characters) /\ n \in 0..MaxLine /\ argv \in Seq(0..MaxLine)
      /\ p \in 0..n /\ Len(argv) < NUM_ARGS /\ Rest(CommandBuf, typed, p) /\ Closed(CommandBuf, argv, p)
      /\ Lexed(typed)[p] = State("between", A, <<>>)
      /\ CommandBuf \in Buffer /\ CommandBuf[MaxLine] = Nul
  BY <1>1 DEF StringToArguments, IInv, TypeOK, Lines, Splitting
<1>3. UNCHANGED <<Line, CurrentPosition, cwd, request, typed>>
  BY DEF StringToArguments
<1>4. A \in Seq(Seq(Characters)) /\ Len(A) = Len(argv)
  <2>1. State("between", A, <<>>) \in LexState
    BY <1>1, <1>2, LexedType
  <2>2. A \in Seq(Seq(Characters))
    BY <2>1 DEF State, LexState
  <2>3. Len(argv) \in Nat
    BY <1>2
  <2>4. QED
    BY <1>1, <2>2, <2>3 DEF ArgumentsOf
<1>5. /\ start \in p..n /\ Find(CommandBuf, start, {Nul}) = n
      /\ Lexed(typed)[start] = State("between", A, <<>>)
      /\ start < n => typed[start + 1] \notin White
  BY <1>1, <1>2, StartLemma
<1>6. n \in Nat /\ Len(argv) \in Nat /\ MaxLine \in Nat /\ NUM_ARGS \in Nat \ {0}
  BY <1>2, MaxLineAssumption, NumArgsAssumption
<1>7. CASE start = n
  <2>1. pc' = "dispatch" /\ UNCHANGED <<CommandBuf, argv>>
    BY <1>1, <1>5, <1>7 DEF StringToArguments
  <2>2. Tokens(typed) = A
    BY <1>1, <1>5, <1>7 DEF Tokens, State
  <2>3. AllTokens(A, typed)
    BY <1>2, <1>4, <1>6, <2>2, AllLemma
  <2>4. QED
    BY <1>1, <1>2, <1>3, <2>1, <2>3, DoneLemma
<1>8. CASE start # n
  <2>1. PICK ts, te : ts = TokenStart(CommandBuf, start) /\ te = TokenEnd(CommandBuf, start)
    OBVIOUS
  <2>2. /\ CommandBuf' = [CommandBuf EXCEPT ![te] = Nul] /\ argv' = Append(argv, ts) /\ string' = te + 1
        /\ pc' = IF te = n \/ Len(argv') >= NUM_ARGS THEN "dispatch" ELSE "split"
    BY <1>1, <1>5, <1>8, <2>1 DEF StringToArguments
  <2>3. start \in 0..(n - 1) /\ start < n /\ start \in p..n
    BY <1>2, <1>5, <1>6, <1>8
  <2>4. Rest(CommandBuf, typed, start)
    <3>1. \A i \in start..MaxLine : i \in p..MaxLine
      BY <1>2, <1>6, <2>3
    <3>2. QED
      BY <1>2, <3>1 DEF Rest
  <2>5. PICK m \in Quotes \cup {"plain"} :
          /\ ts \in start..n /\ te \in ts..n
          /\ Lexed(typed)[te] = State(m, A, Part(typed, ts, te))
          /\ te < n => typed[te + 1] \in Enders(m)
    BY <1>1, <1>2, <1>5, <2>1, <2>3, <2>4, TokenLemma, SMTT(30)
  <2>6. ts \in p..n /\ te \in 0..MaxLine /\ te \in 0..n
    BY <1>2, <1>6, <2>3, <2>5
  <2>7. PICK b, a, w : b = CommandBuf' /\ a = argv' /\ w = Part(typed, ts, te)
    OBVIOUS
  <2>8. b \in Buffer /\ b[te] = Nul /\ \A i \in 0..MaxLine : i # te => b[i] = CommandBuf[i]
    BY <1>2, <2>2, <2>6, <2>7 DEF Buffer
  <2>9. /\ b[MaxLine] = Nul /\ a \in Seq(0..MaxLine) /\ Len(a) = Len(argv) + 1
        /\ ArgumentsOf(b, a) = Append(A, w)
        /\ Closed(b, a, te + 1) /\ Rest(b, typed, te + 1)
    <3>1. /\ Len(typed) \in 0..MaxLine /\ p \in 0..Len(typed) /\ ts \in p..Len(typed)
          /\ te \in ts..Len(typed) /\ ArgumentsOf(CommandBuf, argv) \in Seq(Seq(Characters))
      BY <1>1, <1>2, <1>4, <2>5, <2>6
    <3>2. /\ b[MaxLine] = Nul
          /\ Append(argv, ts) \in Seq(0..MaxLine) /\ Len(Append(argv, ts)) = Len(argv) + 1
          /\ ArgumentsOf(b, Append(argv, ts)) = Append(ArgumentsOf(CommandBuf, argv), Part(typed, ts, te))
          /\ Closed(b, Append(argv, ts), te + 1)
          /\ Rest(b, typed, te + 1)
      BY <1>2, <2>8, <3>1, CutLemma
    <3>3. QED
      BY <1>1, <2>2, <2>7, <3>2
  <2>10. PICK B : B = Append(A, w)
    OBVIOUS
  <2>11. B \in Seq(Seq(Characters)) /\ Len(B) = Len(a) /\ Len(B) <= NUM_ARGS
    <3>1. w \in Seq(Characters)
      <4>1. State(m, A, w) \in LexState
        BY <1>1, <1>2, <2>5, <2>6, <2>7, LexedType
      <4>2. QED
        BY <4>1 DEF State, LexState
    <3>2. B \in Seq(Seq(Characters)) /\ Len(B) = Len(A) + 1
      BY <1>4, <2>10, <3>1
    <3>3. QED
      BY <1>2, <1>4, <1>6, <2>9, <3>2
  <2>12. CASE te = n
    <3>1. m # "between"
      BY DEF Quotes
    <3>2. Tokens(typed) = B
      BY <1>1, <2>5, <2>7, <2>10, <2>12, <3>1 DEF Tokens, State, Ended, Between
    <3>3. AllTokens(B, typed)
      BY <2>11, <3>2, AllLemma
    <3>4. QED
      BY <1>2, <1>3, <2>2, <2>7, <2>8, <2>9, <2>10, <2>12, <3>3, DoneLemma
  <2>13. CASE te # n
    <3>1. te < n /\ te \in 0..(n - 1) /\ te + 1 \in 0..n /\ te + 1 \in 0..MaxLine
      BY <1>2, <1>6, <2>5, <2>6, <2>13
    <3>2. Lexed(typed)[te + 1] = State("between", B, <<>>)
      BY <1>1, <1>2, <2>5, <2>7, <2>10, <3>1, EndLemma
    <3>3. CASE Len(a) >= NUM_ARGS
      <4>1. Len(B) = NUM_ARGS
        BY <1>6, <2>9, <2>11, <3>3
      <4>2. AllTokens(B, typed)
        BY <1>1, <1>2, <2>11, <3>1, <3>2, <4>1, FullLemma
      <4>3. QED
        BY <1>2, <1>3, <2>2, <2>7, <2>8, <2>9, <2>10, <3>3, <4>2, DoneLemma
    <3>4. CASE ~(Len(a) >= NUM_ARGS)
      <4>1. pc' = "split" /\ Len(a) < NUM_ARGS
        BY <1>6, <2>2, <2>7, <2>9, <2>13, <3>4
      <4>2. TypeOK'
        <5>1. \A i \in 1..Len(a) : a[i] \in 0..MaxLine
          BY <2>9, ElementLemma
        <5>2. QED
          BY <1>3, <2>2, <2>7, <2>8, <2>9, <3>1, <4>1, <5>1 DEF IInv, TypeOK
      <4>3. Lines'
        BY <1>2, <1>3, <2>7, <2>9, <4>1 DEF IInv, Lines
      <4>4. Splitting'
        BY <1>1, <1>3, <2>2, <2>7, <2>9, <2>10, <3>1, <3>2, <4>1 DEF Splitting
      <4>5. QED
        BY <4>1, <4>2, <4>3, <4>4 DEF IInv, ArgvIsTokens
    <3>5. QED
      BY <3>3, <3>4
  <2>14. QED
    BY <2>12, <2>13
<1>9. QED
  BY <1>7, <1>8

\* Whatever the command asks of the system, the line is done with.
LEMMA ProcessStep ==
  ASSUME IInv, RtlClipProcessMessage
  PROVE  IInv'
<1>1. /\ pc = "dispatch" /\ pc' = "prompt" /\ CommandBuf' = [i \in 0..MaxLine |-> Nul]
      /\ string' = 0 /\ argv' = <<>> /\ typed' = <<>> /\ UNCHANGED <<Line, CurrentPosition>>
  BY DEF RtlClipProcessMessage
<1>2. MaxLine \in Nat /\ MaxLine \in 0..MaxLine /\ 0 \in 0..MaxLine
  BY MaxLineAssumption
<1>3. CommandBuf' \in Buffer /\ CommandBuf'[MaxLine] = Nul
  BY <1>1, <1>2 DEF Buffer
<1>4. cwd \in Dirs /\ request.op \in {"none", "cd", "dir", "copy", "drive", "run", "install"}
  BY DEF IInv, TypeOK
<1>5. ASSUME NEW path, SetCurrentDirectory(path)
      PROVE  cwd' \in Dirs
  BY <1>4, <1>5 DEF SetCurrentDirectory, Reached
<1>6. ASSUME NEW op, NEW paths, Ask(op, paths)
      PROVE  request'.op = op
  BY <1>6 DEF Ask
<1>7. cwd' \in Dirs /\ request'.op \in {"none", "cd", "dir", "copy", "drive", "run", "install"}
  <2>1. CASE UNCHANGED <<request, cwd>>
    BY <1>4, <2>1
  <2>2. CASE ChangeDirectory
    <3>1. request'.op = "cd" /\ cwd' \in Dirs
      BY <1>5, <1>6, <2>2 DEF ChangeDirectory
    <3>2. QED
      BY <3>1
  <2>3. CASE ListDirectory
    <3>1. request'.op = "dir" /\ cwd' = cwd
      BY <1>6, <2>3 DEF ListDirectory
    <3>2. QED
      BY <1>4, <3>1
  <2>4. CASE CopyFile
    <3>1. (request'.op = "copy" \/ request' = request) /\ cwd' = cwd
      BY <1>6, <2>4 DEF CopyFile
    <3>2. QED
      BY <1>4, <3>1
  <2>5. CASE ChangeDrive
    <3>1. request'.op = "drive" /\ cwd' \in Dirs
      BY <1>5, <1>6, <2>5 DEF ChangeDrive
    <3>2. QED
      BY <3>1
  <2>6. CASE RunProgram
    <3>1. (request'.op = "run" \/ request' = request) /\ cwd' = cwd
      BY <1>6, <2>6 DEF RunProgram
    <3>2. QED
      BY <1>4, <3>1
  <2>7. QED
    BY <2>1, <2>2, <2>3, <2>4, <2>5, <2>6 DEF RtlClipProcessMessage
<1>8. TypeOK'
  BY <1>1, <1>3, <1>7 DEF IInv, TypeOK
<1>9. Lines'
  <2>1. typed' \in Seq(Characters) /\ Len(typed') = 0 /\ argv' \in Seq(0..MaxLine)
    BY <1>1
  <2>2. CurrentPosition' = 0
    BY <1>1 DEF IInv, Lines
  <2>3. QED
    BY <1>1, <1>2, <2>1, <2>2 DEF Lines
<1>10. QED
  BY <1>1, <1>8, <1>9 DEF IInv, Splitting, ArgvIsTokens

LEMMA StepIInv == IInv /\ [Next]_vars => IInv'
<1>1. SUFFICES ASSUME IInv, [Next]_vars
               PROVE  IInv'
  OBVIOUS
<1>2. CASE RtlCliShowMenu
  <2>1. Lines'
    BY <1>1, <1>2 DEF RtlCliShowMenu, IInv, Lines
  <2>2. QED
    BY <1>1, <1>2, <2>1 DEF RtlCliShowMenu, IInv, TypeOK, Splitting, ArgvIsTokens, Nothing
<1>3. CASE PlayBadApple
  <2>1. Lines'
    BY <1>1, <1>3 DEF PlayBadApple, IInv, Lines
  <2>2. QED
    BY <1>1, <1>3, <2>1 DEF PlayBadApple, IInv, TypeOK, Splitting, ArgvIsTokens
<1>4. CASE ShowPrompt
  <2>1. /\ typed = <<>> /\ CurrentPosition = 0 /\ Len(typed) = 0 /\ pc' = "read"
        /\ UNCHANGED <<Line, CurrentPosition, CommandBuf, string, argv, cwd, typed>>
    BY <1>1, <1>4 DEF ShowPrompt, IInv, Lines
  <2>2. Lines'
    BY <1>1, <1>4, <2>1 DEF ShowPrompt, IInv, Lines
  <2>3. QED
    BY <1>1, <1>4, <2>2 DEF ShowPrompt, IInv, TypeOK, Splitting, ArgvIsTokens, Nothing
<1>5. ASSUME NEW c \in Characters, TypeCharacter(c)
      PROVE  IInv'
  BY <1>1, <1>5, TypeStep
<1>6. CASE RtlCliShellLoop
  BY <1>1, <1>6, EnterStep
<1>7. CASE StringToArguments
  BY <1>1, <1>7, SplitStep
<1>8. CASE RtlClipProcessMessage
  BY <1>1, <1>8, ProcessStep
<1>9. CASE UNCHANGED vars
  BY <1>1, <1>9 DEF vars, IInv, TypeOK, Lines, Splitting, ArgvIsTokens, Arguments
<1>10. QED
  BY <1>1, <1>2, <1>3, <1>4, <1>5, <1>6, <1>7, <1>8, <1>9 DEF Next

LEMMA Invariance == Spec => []IInv
<1>1. Init => IInv
  BY InitIInv
<1>2. IInv /\ [Next]_vars => IInv'
  BY StepIInv
<1>3. QED
  BY <1>1, <1>2, PTL DEF Spec

(***************************************************************************)
(* Every variable has its type and the pointers into the buffers stay      *)
(* inside them, for a line of any length up to that of the buffer.         *)
(***************************************************************************)
THEOREM TypeCorrect == Spec => []TypeOK
<1>1. IInv => TypeOK
  BY DEF IInv
<1>2. QED
  BY <1>1, Invariance, PTL

(***************************************************************************)
(* When the command is chosen the strings xargv points to are the          *)
(* arguments of the line, or the first NUM_ARGS of them: StringToArguments *)
(* in place computes what reading the line character by character does.    *)
(***************************************************************************)
THEOREM Splitted == Spec => []ArgvIsTokens
<1>1. IInv => ArgvIsTokens
  BY DEF IInv
<1>2. QED
  BY <1>1, Invariance, PTL
--------------------------------------------------------------------------------
LEMMA PairLemma ==
  ASSUME NEW x, NEW y, NEW U, U = <<x>>, NEW V, V = Append(U, y)
  PROVE  /\ Len(V) = 2
         /\ \A m \in 0..2 : Len(SubSeq(V, 1, m)) = 2 => SubSeq(V, 1, m)[1] = x /\ SubSeq(V, 1, m)[2] = y
<1>1. PICK S : S = {x, y}
  OBVIOUS
<1>2. U \in Seq(S) /\ Len(U) = 1 /\ U[1] = x /\ y \in S
  BY <1>1
<1>3. V \in Seq(S) /\ Len(V) = 2 /\ V[1] = x /\ V[2] = y
  BY <1>1, <1>2
<1>4. ASSUME NEW m \in 0..2, Len(SubSeq(V, 1, m)) = 2
      PROVE  SubSeq(V, 1, m)[1] = x /\ SubSeq(V, 1, m)[2] = y
  <2>1. Len(SubSeq(V, 1, m)) = m
    BY <1>3
  <2>2. m = 2
    BY <1>4, <2>1
  <2>3. SubSeq(V, 1, 2) = [k \in 1..2 |-> V[k]]
    BY <1>3
  <2>4. QED
    BY <1>3, <2>2, <2>3
<1>5. QED
  BY <1>3, <1>4

LEMMA ConcatLemma ==
  ASSUME NEW S, NEW s \in Seq(S), NEW t \in Seq(S)
  PROVE  /\ s \o t \in Seq(S) /\ Len(s \o t) = Len(s) + Len(t)
         /\ \A i \in 1..Len(s) : (s \o t)[i] = s[i]
         /\ \A i \in 1..Len(t) : (s \o t)[Len(s) + i] = t[i]
  OBVIOUS

LEMMA HeadLemma ==
  ASSUME NEW S, NEW w \in Seq(S), Len(w) = 2, NEW x \in S, NEW v \in Seq(S), Len(v) = 1, v[1] = x
  PROVE  /\ w \o v \in Seq(S) /\ Len(w \o v) = 3
         /\ (w \o v)[1] = w[1] /\ (w \o v)[2] = w[2] /\ (w \o v)[3] = x
<1>1. /\ w \o v \in Seq(S) /\ Len(w \o v) = Len(w) + Len(v)
      /\ \A i \in 1..Len(w) : (w \o v)[i] = w[i]
      /\ \A i \in 1..Len(v) : (w \o v)[Len(w) + i] = v[i]
  BY ConcatLemma, SMTT(30)
<1>2. 1 \in 1..Len(w) /\ 2 \in 1..Len(w) /\ 1 \in 1..Len(v) /\ Len(w) + 1 = 3 /\ Len(w) + Len(v) = 3
  OBVIOUS
<1>3. (w \o v)[Len(w) + 1] = v[1]
  BY <1>1, <1>2
<1>4. QED
  BY <1>1, <1>2, <1>3

\* A line that is cd, one space and a name.
LEMMA CdLine ==
  ASSUME NEW name \in Seq(Characters)
  PROVE  LET w == Words["cd"]
             line == w \o <<Space>> \o name
         IN  /\ w \in Seq(Letters) /\ Len(w) = 2
             /\ Len(line) >= 3 /\ name = Part(line, 3, Len(line))
             /\ line[1] = w[1] /\ line[2] = w[2] /\ line[3] = Space
<1>1. PICK w, v : w = Words["cd"] /\ v = <<Space>>
  OBVIOUS
<1>2. w \in Seq(Letters) /\ Len(w) = 2
  BY <1>1, WordsAssumption DEF Commands
<1>3. w \in Seq(Characters) /\ Space \in Characters
  <2>1. Letters \subseteq Characters
    BY DEF Characters
  <2>2. Space \in Characters
    BY CharactersAssumption DEF Characters
  <2>3. QED
    BY <1>2, <2>1, <2>2
<1>4. v \in Seq(Characters) /\ Len(v) = 1 /\ v[1] = Space
  BY <1>1, <1>3
<1>5. PICK u : u = w \o v
  OBVIOUS
<1>6. u \in Seq(Characters) /\ Len(u) = 3 /\ u[1] = w[1] /\ u[2] = w[2] /\ u[3] = Space
  <2>1. /\ w \o v \in Seq(Characters) /\ Len(w \o v) = 3
        /\ (w \o v)[1] = w[1] /\ (w \o v)[2] = w[2] /\ (w \o v)[3] = Space
    BY <1>2, <1>3, <1>4, HeadLemma
  <2>2. QED
    BY <1>5, <2>1
<1>7. PICK line : line = u \o name
  OBVIOUS
<1>8. /\ Len(line) = 3 + Len(name) /\ \A i \in 1..3 : line[i] = u[i]
      /\ \A i \in 1..Len(name) : line[3 + i] = name[i]
  <2>1. /\ Len(u \o name) = Len(u) + Len(name)
        /\ \A i \in 1..Len(u) : (u \o name)[i] = u[i]
        /\ \A i \in 1..Len(name) : (u \o name)[Len(u) + i] = name[i]
    <3>1. u \in Seq(Characters) /\ name \in Seq(Characters)
      BY <1>6
    <3>2. QED
      BY <3>1, ConcatLemma
  <2>2. QED
    BY <1>6, <1>7, <2>1
<1>9. name = Part(line, 3, Len(line))
  <2>1. name = [i \in 1..Len(name) |-> name[i]] /\ Len(name) \in Nat
    OBVIOUS
  <2>2. Len(line) - 3 = Len(name)
    BY <1>8, <2>1
  <2>3. [i \in 1..Len(name) |-> line[3 + i]] = [i \in 1..Len(name) |-> name[i]]
    BY <1>8
  <2>4. QED
    BY <2>1, <2>2, <2>3 DEF Part
<1>10. Len(line) >= 3 /\ line[1] = u[1] /\ line[2] = u[2] /\ line[3] = u[3]
  BY <1>8
<1>11. line = Words["cd"] \o <<Space>> \o name
  BY <1>1, <1>5, <1>7
<1>12. QED
  BY <1>1, <1>2, <1>6, <1>9, <1>10, <1>11

\* The line is a word of two letters, a blank and a name.
CdTyped(line, w, name) ==
  /\ line \in Seq(Characters) /\ w \in Seq(Letters) /\ Len(w) = 2 /\ Len(line) >= 3
  /\ line[1] = w[1] /\ line[2] = w[2] /\ line[3] \in White
  /\ name = Part(line, 3, Len(line))
  /\ \A i \in 1..Len(name) : name[i] \notin White \cup Quotes

\* Its arguments.
LEMMA CdLemma ==
  ASSUME NEW line, NEW w, NEW name, CdTyped(line, w, name), NEW A, Len(A) = 2, AllTokens(A, line)
  PROVE  A[1] = w /\ A[2] = name
<1>1. PICK n, L : n = Len(line) /\ L = Lexed(line)
  OBVIOUS
<1>2. w \in Seq(Letters) /\ Len(w) = 2
  BY DEF CdTyped
<1>3. line \in Seq(Characters) /\ \A i \in 1..Len(name) : name[i] \notin White \cup Quotes
  BY DEF CdTyped
<1>4. n \in Nat /\ n >= 3 /\ line[1] = w[1] /\ line[2] = w[2] /\ line[3] \in White
  BY <1>1 DEF CdTyped
<1>5. /\ line[1] \notin White \cup Quotes /\ line[2] \notin White \cup Quotes /\ line[3] \in White
  <2>1. w[1] \in Letters /\ w[2] \in Letters
    <3>1. 1 \in 1..Len(w) /\ 2 \in 1..Len(w)
      BY <1>2
    <3>2. QED
      BY <1>2, <3>1, ElementLemma
  <2>2. QED
    BY <1>4, <2>1, CharactersAssumption
<1>6. name = Part(line, 3, n)
  BY <1>1 DEF CdTyped
<1>7. L[3] = State("between", <<w>>, <<>>)
  <2>1. PICK T : T = <<>>
    OBVIOUS
  <2>2. L[0] = State("between", T, <<>>)
    BY <1>1, <1>3, <2>1, LexedLemma DEF Between, State
  <2>3. L[1] = State("plain", T, Part(line, 0, 1))
    <3>1. 0 \in 0..(n - 1) /\ 0 + 1 = 1 /\ 1 - 0 = 1
      BY <1>4
    <3>2. L[1] = State("plain", T, <<line[1]>>)
      BY <1>1, <1>3, <1>5, <2>2, <3>1, LexedLemma, LexBetween
    <3>3. Part(line, 0, 1) = [k \in 1..1 |-> line[0 + k]]
      BY <3>1 DEF Part
    <3>4. Part(line, 0, 1) = <<line[1]>>
      BY <3>3
    <3>5. QED
      BY <3>2, <3>4
  <2>4. L[2] = State("plain", T, Part(line, 0, 2))
    <3>1. 0 \in 0..Len(line) /\ 1 \in 0..Len(line) /\ 2 \in 1..Len(line)
      BY <1>1, <1>4
    <3>2. \A k \in (1 + 1)..2 : line[k] \notin Enders("plain")
      <4>1. \A k \in (1 + 1)..2 : k = 2
        OBVIOUS
      <4>2. QED
        BY <1>5, <4>1 DEF Enders
    <3>3. QED
      BY <1>1, <1>3, <2>3, <3>1, <3>2, TokenRun
  <2>5. Part(line, 0, 2) = w
    <3>1. 2 - 0 = 2 /\ \A k \in 1..2 : 0 + k = k /\ (k = 1 \/ k = 2)
      OBVIOUS
    <3>2. \A k \in 1..2 : line[0 + k] = w[k]
      BY <1>4, <3>1
    <3>3. w = [k \in 1..2 |-> w[k]]
      BY <1>2
    <3>4. QED
      BY <3>1, <3>2, <3>3 DEF Part
  <2>6. L[3] = State("between", Append(T, w), <<>>)
    <3>1. 2 \in 0..(Len(line) - 1) /\ 2 + 1 = 3 /\ line[3] \in Enders("plain")
      BY <1>1, <1>4, <1>5 DEF Enders
    <3>2. QED
      BY <1>1, <1>3, <2>4, <2>5, <3>1, EndLemma
  <2>7. Append(T, w) = <<w>>
    BY <2>1
  <2>8. QED
    BY <2>6, <2>7
<1>8. PICK m : m = IF Len(Tokens(line)) < NUM_ARGS THEN Len(Tokens(line)) ELSE NUM_ARGS
  OBVIOUS
<1>9. A = SubSeq(Tokens(line), 1, m)
  BY <1>8 DEF AllTokens
<1>10. n # 3
  <2>1. SUFFICES ASSUME n = 3
                 PROVE  FALSE
    OBVIOUS
  <2>2. Tokens(line) = <<w>>
    BY <1>1, <1>7, <2>1 DEF Tokens, State
  <2>3. m = 1
    BY <1>8, <2>2, NumArgsAssumption
  <2>4. Len(SubSeq(<<w>>, 1, 1)) = 1
    OBVIOUS
  <2>5. QED
    BY <1>9, <2>2, <2>3, <2>4
<1>11. PICK U : U = <<w>> /\ L[n] = State("plain", U, name)
  <2>1. PICK T : T = <<w>>
    OBVIOUS
  <2>2. \A k \in 4..n : line[k] \notin White \cup Quotes
    <3>1. \A k \in 4..n : k - 3 \in 1..(n - 3) /\ 3 + (k - 3) = k
      BY <1>4
    <3>2. Len(name) = n - 3 /\ \A k \in 1..(n - 3) : name[k] = line[3 + k]
      BY <1>4, <1>6 DEF Part
    <3>3. QED
      BY <1>3, <3>1, <3>2, SMTT(30)
  <2>3. 3 \in 0..(n - 1) /\ 3 + 1 = 4 /\ 4 - 3 = 1 /\ 4 \in 4..n
    BY <1>4, <1>10
  <2>4. L[4] = State("plain", T, Part(line, 3, 4))
    <3>1. L[4] = State("plain", T, <<line[4]>>)
      <4>1. L[4] = Lex(State("between", T, <<>>), line[4])
        BY <1>1, <1>3, <1>7, <2>1, <2>3, LexedLemma
      <4>2. QED
        BY <2>2, <2>3, <4>1, LexBetween
    <3>2. Part(line, 3, 4) = [k \in 1..1 |-> line[3 + k]]
      BY <2>3 DEF Part
    <3>3. Part(line, 3, 4) = <<line[4]>>
      BY <3>2
    <3>4. QED
      BY <3>1, <3>3
  <2>5. \A k \in (4 + 1)..n : line[k] \notin Enders("plain")
    <3>1. \A k \in (4 + 1)..n : k \in 4..n
      BY <1>4
    <3>2. QED
      BY <2>2, <3>1 DEF Enders
  <2>6. 3 \in 0..Len(line) /\ 4 \in 3..Len(line) /\ n \in 4..Len(line)
    BY <1>1, <1>4, <1>10
  <2>7. L[n] = State("plain", T, Part(line, 3, n))
    BY <1>1, <1>3, <2>4, <2>5, <2>6, TokenRun
  <2>8. QED
    BY <1>6, <2>1, <2>7
<1>12. PICK V : V = Tokens(line)
  OBVIOUS
<1>13. V = Append(U, name)
  <2>1. L[n].mode = "plain" /\ L[n].tokens = U /\ L[n].token = name
    BY <1>11 DEF State
  <2>2. V = Ended(L[n]).tokens
    BY <1>1, <1>12, <2>1 DEF Tokens
  <2>3. QED
    BY <2>1, <2>2 DEF Ended, Between
<1>14. Len(V) = 2
  BY <1>11, <1>13, PairLemma
<1>15. m \in 0..2 /\ A = SubSeq(V, 1, m)
  <2>1. m = IF 2 < NUM_ARGS THEN 2 ELSE NUM_ARGS
    BY <1>8, <1>12, <1>14
  <2>2. m \in 0..2
    BY <2>1, NumArgsAssumption
  <2>3. QED
    BY <1>9, <1>12, <2>2
<1>16. A[1] = w /\ A[2] = name
  <2>1. Len(SubSeq(V, 1, m)) = 2
    BY <1>15
  <2>2. SubSeq(V, 1, m)[1] = w /\ SubSeq(V, 1, m)[2] = name
    BY <1>11, <1>13, <1>15, <2>1, PairLemma
  <2>3. QED
    BY <1>15, <2>2
<1>17. QED
  BY <1>16

\* The command of a line that is cd, one space and a name.
LEMMA CdStep ==
  ASSUME IInv, pc = "dispatch", RtlClipProcessMessage, NEW name \in Seq(Characters),
         typed = Words["cd"] \o <<Space>> \o name, Len(argv) = 2,
         \A i \in 1..Len(name) : name[i] \notin White \cup Quotes
  PROVE  request'.paths = <<CdPath(Arguments[2])>>
<1>1. PICK w, n, A : w = Words["cd"] /\ n = Len(typed) /\ A = Arguments
  OBVIOUS
<1>2. /\ typed \in Seq(Characters) /\ n \in 0..MaxLine /\ Line[n] = Nul
      /\ \A i \in 0..(n - 1) : Line[i] = typed[i + 1]
  BY <1>1 DEF IInv, Lines
<1>3. /\ w \in Seq(Letters) /\ Len(w) = 2 /\ n >= 3 /\ name = Part(typed, 3, n)
      /\ typed[1] = w[1] /\ typed[2] = w[2] /\ typed[3] \in White
  BY <1>1, CdLine, CharactersAssumption
<1>4. Len(A) = 2 /\ AllTokens(A, typed)
  BY <1>1 DEF IInv, ArgvIsTokens, Arguments, AllTokens
<1>5. A[1] = w /\ A[2] = name
  <2>1. /\ Len(typed) >= 3 /\ name = Part(typed, 3, Len(typed))
        /\ typed[1] = w[1] /\ typed[2] = w[2] /\ typed[3] \in White /\ Len(w) = 2
    BY <1>1, <1>3
  <2>2. CdTyped(typed, w, name)
    BY <1>2, <1>3, <2>1 DEF CdTyped
  <2>3. QED
    BY <1>4, <2>2, CdLemma
<1>6. String(Line, 3) = name
  <2>1. /\ typed \in Seq(Characters) /\ Len(typed) \in 0..MaxLine /\ Line[Len(typed)] = Nul
        /\ \A i \in 0..(Len(typed) - 1) : Line[i] = typed[i + 1]
    BY <1>1, <1>2
  <2>2. 3 \in 0..Len(typed)
    <3>1. 3 \in 0..n
      BY <1>2, <1>3
    <3>2. QED
      BY <1>1, <3>1, Zenon
  <2>3. String(Line, 3) = Part(typed, 3, Len(typed))
    BY <2>1, <2>2, HeldLemma
  <2>4. QED
    BY <1>1, <1>3, <2>3, Zenon
<1>7. Is("cd") /\ \A c \in Commands : Is(c) => c = "cd"
  <2>1. "cd" \in Commands
    BY DEF Commands
  <2>2. \A c \in Commands : Is(c) => c = "cd"
    BY <1>1, <1>5, <2>1, WordsAssumption DEF Is
  <2>3. IsPrefix(w, w)
    BY <1>3 DEF IsPrefix
  <2>4. QED
    BY <1>1, <1>5, <2>2, <2>3 DEF Is
<1>8. ~Is("exit") /\ ~Is("dir") /\ ~Is("copy") /\ argv # <<>>
  <2>1. {"exit", "dir", "copy"} \subseteq Commands /\ "cd" \notin {"exit", "dir", "copy"}
    BY DEF Commands
  <2>2. argv # <<>>
    <3>1. \A s : s = <<>> => Len(s) # 2
      OBVIOUS
    <3>2. QED
      BY <3>1, Zenon
  <2>3. QED
    BY <1>7, <2>1, <2>2
<1>9. ChangeDirectory
  <2>1. \E c \in Commands : Is(c)
    BY <1>7 DEF Commands
  <2>2. ChangeDirectory \/ ListDirectory \/ CopyFile
    BY <1>8, <2>1 DEF RtlClipProcessMessage
  <2>3. QED
    BY <1>8, <2>2 DEF ListDirectory, CopyFile
<1>10. Ask("cd", <<CdPath(name)>>)
  BY <1>6, <1>9 DEF ChangeDirectory
<1>11. QED
  BY <1>1, <1>5, <1>10 DEF Ask

(***************************************************************************)
(* Whatever a line is, the line buffer still holds it when its command is  *)
(* chosen; and the directory cd takes from the fourth character of the     *)
(* line is the second of the arguments, if these are all there is.         *)
(***************************************************************************)
THEOREM LineIsKept == Spec => LineKept
<1>1. ASSUME IInv, pc = "dispatch"
      PROVE  String(Line, 0) = typed
  <2>1. /\ typed \in Seq(Characters) /\ Len(typed) \in 0..MaxLine /\ Line[Len(typed)] = Nul
        /\ \A i \in 0..(Len(typed) - 1) : Line[i] = typed[i + 1]
    BY <1>1 DEF IInv, Lines
  <2>2. 0 \in 0..Len(typed)
    BY <2>1
  <2>3. String(Line, 0) = Part(typed, 0, Len(typed))
    BY <2>1, <2>2, HeldLemma
  <2>4. QED
    BY <2>1, <2>3, WholeLemma
<1>2. ASSUME IInv, pc = "dispatch", RtlClipProcessMessage,
             NEW name, name = SubSeq(typed, 4, Len(typed)),
             typed = Words["cd"] \o <<Space>> \o name, Len(argv) = 2,
             \A i \in 1..Len(name) : name[i] \notin White \cup Quotes
      PROVE  request'.paths = <<CdPath(Arguments[2])>>
  <2>1. name \in Seq(Characters)
    <3>1. typed \in Seq(Characters)
      BY <1>2 DEF IInv, Lines
    <3>2. SubSeq(typed, 4, Len(typed)) \in Seq(Characters)
      BY <3>1
    <3>3. QED
      BY <1>2, <3>2
  <2>2. QED
    BY <1>2, <2>1, CdStep
<1>3. pc = "dispatch" /\ Next => RtlClipProcessMessage
  BY DEF Next, RtlCliShowMenu, PlayBadApple, ShowPrompt, TypeCharacter, RtlCliShellLoop, StringToArguments
<1>4. IInv /\ [Next]_vars =>
        [pc = "dispatch" =>
           /\ String(Line, 0) = typed
           /\ LET name == SubSeq(typed, 4, Len(typed)) IN
              /\ typed = Words["cd"] \o <<Space>> \o name /\ Len(argv) = 2
              /\ \A i \in 1..Len(name) : name[i] \notin White \cup Quotes
              => request'.paths = <<CdPath(Arguments[2])>>]_vars
  BY <1>1, <1>2, <1>3, Zenon
<1>5. QED
  BY <1>4, Invariance, PTL DEF Spec, LineKept
================================================================================
