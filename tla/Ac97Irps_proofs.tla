---------------------------- MODULE Ac97Irps_proofs ----------------------------
(***************************************************************************)
(* Proofs about Ac97Irps, for any handles, requests, write sizes, blocks   *)
(* and number of IRPs.                                                     *)
(*                                                                         *)
(* OneOwner and PlayingIsConfigured come from the marks of the accesses a  *)
(* routine has left: those to the pool, to WriteBuffer, Playing and        *)
(* Configured, and the return.  TypeOK comes from the shape of what is     *)
(* left, and AloneIsAtomic from triples about each piece of a routine.     *)
(***************************************************************************)
EXTENDS Ac97Irps, SequenceTheorems, TLAPS

Kinds == {"free", "allocate", "null", "play", "still", "set", "clear", "check", "return"}

\* A store that no routine makes is "stray", which is no kind.
Mark(a) ==
  IF a[1] \in {"free", "allocate", "check", "return"} THEN a[1]
  ELSE IF a[1] # "store" THEN "quiet"
  ELSE IF a[2] = "Playing" THEN IF a[3] = TRUE THEN "play"
                                ELSE IF a[3] = FALSE THEN "still" ELSE "stray"
  ELSE IF a[2] = "Configured" THEN IF a[3] = TRUE THEN "set"
                                   ELSE IF a[3] = FALSE THEN "clear" ELSE "stray"
  ELSE IF a[2] = "WriteBuffer" THEN IF a[3] = Null THEN "null" ELSE "stray"
  ELSE "quiet"

IsSeq(s) == \E S : s \in Seq(S)

\* at[i] is where in s the mark m[i] is; all else in s is quiet.
Places(s, m, at) ==
  /\ at \in [1..Len(m) -> 1..Len(s)]
  /\ \A i, j \in 1..Len(m) : i < j => at[i] < at[j]
  /\ \A i \in 1..Len(m) : Mark(s[at[i]]) = m[i]
  /\ \A k \in 1..Len(s) : (\A i \in 1..Len(m) : at[i] # k) => Mark(s[k]) = "quiet"

\* The accesses s have the marks m, in this order.
Marks(s, m) == /\ IsSeq(s)
               /\ m \in Seq(Kinds)
               /\ \E at : Places(s, m, at)
--------------------------------------------------------------------------------
LEMMA SeqLemma ==
  ASSUME NEW s, IsSeq(s)
  PROVE  /\ Len(s) \in Nat /\ (s = <<>> <=> Len(s) = 0)
         /\ s # <<>> => /\ IsSeq(Tail(s)) /\ Len(Tail(s)) = Len(s) - 1
                        /\ \A i \in 1..(Len(s) - 1) : Tail(s)[i] = s[i + 1]
<1>1. PICK S : s \in Seq(S)
  BY DEF IsSeq
<1>2. Len(s) \in Nat /\ (s = <<>> <=> Len(s) = 0)
  BY <1>1, EmptySeq, LenProperties
<1>3. ASSUME s # <<>>
      PROVE  /\ Tail(s) \in Seq(S) /\ Len(Tail(s)) = Len(s) - 1
             /\ \A i \in 1..(Len(s) - 1) : Tail(s)[i] = s[i + 1]
  BY <1>1, <1>3, HeadTailProperties
<1>4. QED
  BY <1>2, <1>3 DEF IsSeq

LEMMA WidenLemma ==
  ASSUME NEW S, NEW T, S \subseteq T, NEW s \in Seq(S)
  PROVE  s \in Seq(T)
<1>1. Len(s) \in Nat /\ s = [i \in 1..Len(s) |-> s[i]] /\ \A i \in 1..Len(s) : s[i] \in S
  BY LenProperties, ElementOfSeq
<1>2. \A i \in 1..Len(s) : s[i] \in T
  BY <1>1
<1>3. QED
  BY <1>1, <1>2, IsASeq

LEMMA ConcatLemma ==
  ASSUME NEW s, NEW t, IsSeq(s), IsSeq(t)
  PROVE  /\ IsSeq(s \o t) /\ Len(s \o t) = Len(s) + Len(t)
         /\ \A i \in 1..(Len(s) + Len(t)) :
              (s \o t)[i] = IF i <= Len(s) THEN s[i] ELSE t[i - Len(s)]
<1>1. PICK S, T : s \in Seq(S) /\ t \in Seq(T)
  BY DEF IsSeq
<1>2. s \in Seq(S \cup T) /\ t \in Seq(S \cup T)
  BY <1>1, WidenLemma
<1>3. QED
  BY <1>2, ConcatProperties DEF IsSeq

\* One routine after another.
LEMMA MarksConcat ==
  ASSUME NEW s, NEW m, Marks(s, m), NEW t, NEW n, Marks(t, n)
  PROVE  Marks(s \o t, m \o n)
<1>1. PICK f, g : Places(s, m, f) /\ Places(t, n, g)
  BY DEF Marks
<1>2. /\ Len(s) \in Nat /\ Len(t) \in Nat /\ IsSeq(s \o t) /\ Len(s \o t) = Len(s) + Len(t)
      /\ \A i \in 1..(Len(s) + Len(t)) :
           (s \o t)[i] = IF i <= Len(s) THEN s[i] ELSE t[i - Len(s)]
  BY SeqLemma, ConcatLemma DEF Marks
<1>3. /\ m \o n \in Seq(Kinds) /\ Len(m \o n) = Len(m) + Len(n)
      /\ \A i \in 1..(Len(m) + Len(n)) :
           (m \o n)[i] = IF i <= Len(m) THEN m[i] ELSE n[i - Len(m)]
  BY ConcatProperties DEF Marks
<1>4. Len(m) \in Nat /\ Len(n) \in Nat
  BY LenProperties DEF Marks
<1>5. PICK a, b, c, d : a = Len(s) /\ b = Len(t) /\ c = Len(m) /\ d = Len(n)
  OBVIOUS
<1>6. PICK h : h = [i \in 1..(c + d) |-> IF i <= c THEN f[i] ELSE a + g[i - c]]
  OBVIOUS
<1>7. /\ \A i \in 1..c : h[i] = f[i] /\ f[i] \in 1..a
      /\ \A i \in 1..d : h[c + i] = a + g[i] /\ g[i] \in 1..b
  <2>1. \A i \in 1..c : i \in 1..(c + d) /\ i <= c
    BY <1>4, <1>5
  <2>2. \A i \in 1..d : c + i \in 1..(c + d) /\ ~(c + i <= c) /\ (c + i) - c = i
    BY <1>4, <1>5
  <2>3. f \in [1..c -> 1..a] /\ g \in [1..d -> 1..b]
    BY <1>1, <1>5 DEF Places
  <2>4. QED
    BY <1>6, <2>1, <2>2, <2>3
<1>8. \A i \in 1..(c + d) : i \in 1..c \/ \E j \in 1..d : i = c + j
  <2>1. TAKE i \in 1..(c + d)
  <2>2. i \in 1..c \/ i - c \in 1..d
    BY <1>4, <1>5
  <2>3. i = c + (i - c)
    BY <1>4, <1>5
  <2>4. QED
    BY <2>2, <2>3
<1>9. h \in [1..(c + d) -> 1..(a + b)]
  <2>1. \A i \in 1..(c + d) : h[i] \in 1..(a + b)
    <3>1. TAKE i \in 1..(c + d)
    <3>2. CASE i \in 1..c
      BY <1>2, <1>5, <1>7, <3>2
    <3>3. CASE \E j \in 1..d : i = c + j
      BY <1>2, <1>5, <1>7, <3>3, SMTT(30)
    <3>4. QED
      BY <1>8, <3>2, <3>3
  <2>2. QED
    BY <1>6, <2>1
<1>10. ASSUME NEW i \in 1..(c + d), NEW j \in 1..(c + d), i < j
       PROVE  h[i] < h[j]
  <2>1. CASE i \in 1..c /\ j \in 1..c
    BY <1>1, <1>5, <1>7, <1>10, <2>1 DEF Places
  <2>2. CASE i \in 1..c /\ \E k \in 1..d : j = c + k
    <3>1. PICK k \in 1..d : j = c + k
      BY <2>2
    <3>2. h[i] \in 1..a /\ h[j] = a + g[k] /\ g[k] \in 1..b
      BY <1>7, <2>2, <3>1
    <3>3. QED
      BY <1>2, <1>5, <3>2
  <2>3. CASE \E k \in 1..d : i = c + k
    <3>1. PICK k \in 1..d : i = c + k
      BY <2>3
    <3>2. j \notin 1..c
      BY <1>4, <1>5, <1>10, <3>1
    <3>3. PICK l \in 1..d : j = c + l
      BY <1>8, <3>2
    <3>4. k < l
      BY <1>4, <1>5, <1>10, <3>1, <3>3
    <3>5. g[k] < g[l]
      BY <1>1, <1>5, <3>4 DEF Places
    <3>6. QED
      BY <1>2, <1>5, <1>7, <3>1, <3>3, <3>5, SMTT(30)
  <2>4. QED
    BY <1>8, <2>1, <2>2, <2>3
<1>11. ASSUME NEW i \in 1..(c + d)
       PROVE  Mark((s \o t)[h[i]]) = (m \o n)[i]
  <2>1. CASE i \in 1..c
    <3>1. h[i] = f[i] /\ (m \o n)[i] = m[i]
      BY <1>3, <1>4, <1>5, <1>7, <2>1
    <3>2. (s \o t)[f[i]] = s[f[i]]
      BY <1>2, <1>5, <1>7, <2>1
    <3>3. QED
      BY <1>1, <1>5, <2>1, <3>1, <3>2 DEF Places
  <2>2. CASE \E j \in 1..d : i = c + j
    <3>1. PICK j \in 1..d : i = c + j
      BY <2>2
    <3>2. ~(i <= Len(m)) /\ i - Len(m) = j /\ i \in 1..(Len(m) + Len(n))
      BY <1>4, <1>5, <3>1
    <3>3. h[i] = a + g[j] /\ (m \o n)[i] = n[j]
      BY <1>3, <1>7, <3>1, <3>2
    <3>4. g[j] \in 1..b
      BY <1>7
    <3>5. ~(a + g[j] <= Len(s)) /\ (a + g[j]) - Len(s) = g[j] /\ a + g[j] \in 1..(Len(s) + Len(t))
      BY <1>2, <1>5, <3>4
    <3>6. (s \o t)[a + g[j]] = t[g[j]]
      BY <1>2, <3>5
    <3>7. QED
      BY <1>1, <1>5, <3>3, <3>6 DEF Places
  <2>3. QED
    BY <1>8, <2>1, <2>2
<1>12. ASSUME NEW k \in 1..(a + b), \A i \in 1..(c + d) : h[i] # k
       PROVE  Mark((s \o t)[k]) = "quiet"
  <2>1. CASE k <= a
    <3>1. (s \o t)[k] = s[k] /\ k \in 1..a
      BY <1>2, <1>5, <2>1
    <3>2. \A i \in 1..c : i \in 1..(c + d) /\ h[i] = f[i]
      BY <1>4, <1>5, <1>7
    <3>3. QED
      BY <1>1, <1>5, <1>12, <3>1, <3>2 DEF Places
  <2>2. CASE ~(k <= a)
    <3>1. (s \o t)[k] = t[k - a] /\ k - a \in 1..b
      BY <1>2, <1>5, <2>2
    <3>2. \A i \in 1..d : c + i \in 1..(c + d) /\ h[c + i] = a + g[i] /\ g[i] \in Nat
      BY <1>4, <1>5, <1>7
    <3>3. ASSUME NEW i \in 1..d, g[i] = k - a
          PROVE  FALSE
      <4>1. a + g[i] = k
        BY <1>2, <1>5, <3>2, <3>3
      <4>2. QED
        BY <1>12, <3>2, <4>1
    <3>4. QED
      BY <1>1, <1>5, <3>1, <3>3 DEF Places
  <2>3. QED
    BY <2>1, <2>2
<1>13. Places(s \o t, m \o n, h)
  BY <1>2, <1>3, <1>5, <1>9, <1>10, <1>11, <1>12 DEF Places
<1>14. QED
  BY <1>2, <1>3, <1>13 DEF Marks

LEMMA MarksBasics ==
  ASSUME NEW s, NEW m, Marks(s, m)
  PROVE  /\ Len(s) \in Nat /\ Len(m) \in Nat /\ m \in Seq(Kinds)
         /\ \A i \in 1..Len(m) : m[i] \in Kinds
         /\ s = <<>> => m = <<>>
<1>1. PICK f : Places(s, m, f)
  BY DEF Marks
<1>2. /\ Len(s) \in Nat /\ (s = <<>> <=> Len(s) = 0)
      /\ m \in Seq(Kinds) /\ Len(m) \in Nat /\ (m = <<>> <=> Len(m) = 0)
  BY SeqLemma, LenProperties, EmptySeq DEF Marks
<1>3. ASSUME s = <<>>, m # <<>>
      PROVE  FALSE
  <2>1. f[1] \in 1..0 /\ 1 \in 1..Len(m)
    BY <1>1, <1>2, <1>3 DEF Places
  <2>2. QED
    BY <2>1
<1>4. QED
  BY <1>2, <1>3, ElementOfSeq

\* A quiet access is made: the marks stay.
LEMMA MarksQuiet ==
  ASSUME NEW s, NEW m, Marks(s, m), s # <<>>, Mark(s[1]) = "quiet"
  PROVE  Marks(Tail(s), m)
<1>1. PICK f : Places(s, m, f)
  BY DEF Marks
<1>2. /\ IsSeq(Tail(s)) /\ Len(s) \in Nat \ {0} /\ Len(Tail(s)) = Len(s) - 1
      /\ \A i \in 1..(Len(s) - 1) : Tail(s)[i] = s[i + 1]
  BY SeqLemma DEF Marks
<1>3. PICK g : g = [i \in 1..Len(m) |-> f[i] - 1]
  OBVIOUS
<1>4. ASSUME NEW i \in 1..Len(m)
      PROVE  f[i] \in 2..Len(s) /\ g[i] = f[i] - 1 /\ g[i] + 1 = f[i]
  <2>1. f[i] \in 1..Len(s) /\ Mark(s[f[i]]) = m[i]
    BY <1>1 DEF Places
  <2>2. m[i] # "quiet"
    BY MarksBasics DEF Kinds
  <2>3. f[i] # 1
    BY <2>1, <2>2
  <2>4. f[i] \in 2..Len(s)
    BY <1>2, <2>1, <2>3
  <2>5. QED
    BY <1>2, <1>3, <2>4
<1>5. g \in [1..Len(m) -> 1..Len(Tail(s))]
  <2>1. \A i \in 1..Len(m) : g[i] \in 1..Len(Tail(s))
    BY <1>2, <1>4
  <2>2. QED
    BY <1>3, <2>1
<1>6. ASSUME NEW i \in 1..Len(m), NEW j \in 1..Len(m), i < j
      PROVE  g[i] < g[j]
  <2>1. f[i] < f[j]
    BY <1>1, <1>6 DEF Places
  <2>2. QED
    BY <1>2, <1>4, <2>1
<1>7. ASSUME NEW i \in 1..Len(m)
      PROVE  Mark(Tail(s)[g[i]]) = m[i]
  <2>1. Tail(s)[g[i]] = s[f[i]]
    BY <1>2, <1>4, <1>5
  <2>2. QED
    BY <1>1, <2>1 DEF Places
<1>8. ASSUME NEW k \in 1..Len(Tail(s)), \A i \in 1..Len(m) : g[i] # k
      PROVE  Mark(Tail(s)[k]) = "quiet"
  <2>1. k + 1 \in 1..Len(s) /\ Tail(s)[k] = s[k + 1]
    BY <1>2
  <2>2. ASSUME NEW i \in 1..Len(m), f[i] = k + 1
        PROVE  FALSE
    <3>1. g[i] = (k + 1) - 1
      BY <1>4, <2>2
    <3>2. (k + 1) - 1 = k
      BY <1>2
    <3>3. QED
      BY <1>8, <3>1, <3>2
  <2>3. QED
    BY <1>1, <2>1, <2>2 DEF Places
<1>9. Places(Tail(s), m, g)
  BY <1>5, <1>6, <1>7, <1>8 DEF Places
<1>10. QED
  BY <1>2, <1>9 DEF Marks

\* A marked access is made: it is the first mark.
LEMMA MarksMade ==
  ASSUME NEW s, NEW m, Marks(s, m), s # <<>>, Mark(s[1]) # "quiet"
  PROVE  m # <<>> /\ m[1] = Mark(s[1]) /\ Marks(Tail(s), Tail(m))
<1>1. PICK f : Places(s, m, f)
  BY DEF Marks
<1>2. /\ IsSeq(Tail(s)) /\ Len(s) \in Nat \ {0} /\ Len(Tail(s)) = Len(s) - 1
      /\ \A i \in 1..(Len(s) - 1) : Tail(s)[i] = s[i + 1]
  BY SeqLemma DEF Marks
<1>3. PICK i \in 1..Len(m) : f[i] = 1
  BY <1>1, <1>2 DEF Places
<1>4. Len(m) \in Nat \ {0} /\ m # <<>>
  BY <1>3, MarksBasics, EmptySeq
<1>5. i = 1
  <2>1. CASE i > 1
    <3>1. 1 \in 1..Len(m) /\ 1 < i
      BY <1>4, <2>1
    <3>2. f[1] < 1 /\ f[1] \in 1..Len(s)
      BY <1>1, <1>3, <3>1 DEF Places
    <3>3. QED
      BY <3>2
  <2>2. QED
    BY <2>1
<1>6. m[1] = Mark(s[1])
  BY <1>1, <1>3, <1>5 DEF Places
<1>7. /\ Tail(m) \in Seq(Kinds) /\ Len(Tail(m)) = Len(m) - 1
      /\ \A j \in 1..(Len(m) - 1) : Tail(m)[j] = m[j + 1]
  BY <1>4, HeadTailProperties, MarksBasics
<1>8. PICK g : g = [j \in 1..(Len(m) - 1) |-> f[j + 1] - 1]
  OBVIOUS
<1>9. ASSUME NEW j \in 1..(Len(m) - 1)
      PROVE  /\ j + 1 \in 1..Len(m) /\ f[j + 1] \in 2..Len(s) /\ g[j] = f[j + 1] - 1
             /\ g[j] + 1 = f[j + 1]
  <2>1. j + 1 \in 1..Len(m) /\ 1 \in 1..Len(m) /\ 1 < j + 1
    BY <1>4
  <2>2. f[j + 1] \in 1..Len(s) /\ f[1] < f[j + 1] /\ f[1] = 1
    BY <1>1, <1>3, <1>5, <2>1 DEF Places
  <2>3. f[j + 1] \in 2..Len(s) /\ g[j] = f[j + 1] - 1
    BY <1>2, <1>8, <2>2
  <2>4. QED
    BY <1>2, <2>1, <2>3
<1>10. g \in [1..Len(Tail(m)) -> 1..Len(Tail(s))]
  <2>1. \A j \in 1..(Len(m) - 1) : g[j] \in 1..Len(Tail(s))
    BY <1>2, <1>9, SMTT(30)
  <2>2. QED
    BY <1>7, <1>8, <2>1
<1>11. ASSUME NEW j \in 1..Len(Tail(m)), NEW k \in 1..Len(Tail(m)), j < k
       PROVE  g[j] < g[k]
  <2>1. j \in 1..(Len(m) - 1) /\ k \in 1..(Len(m) - 1) /\ j + 1 < k + 1
    BY <1>4, <1>7, <1>11
  <2>2. f[j + 1] < f[k + 1]
    BY <1>1, <1>9, <2>1 DEF Places
  <2>3. QED
    BY <1>2, <1>9, <2>1, <2>2
<1>12. ASSUME NEW j \in 1..Len(Tail(m))
       PROVE  Mark(Tail(s)[g[j]]) = Tail(m)[j]
  <2>1. j \in 1..(Len(m) - 1)
    BY <1>7
  <2>2. Tail(s)[g[j]] = s[f[j + 1]] /\ Tail(m)[j] = m[j + 1] /\ j + 1 \in 1..Len(m)
    BY <1>2, <1>7, <1>9, <1>10, <2>1
  <2>3. QED
    BY <1>1, <2>2 DEF Places
<1>13. ASSUME NEW k \in 1..Len(Tail(s)), \A j \in 1..Len(Tail(m)) : g[j] # k
       PROVE  Mark(Tail(s)[k]) = "quiet"
  <2>1. k + 1 \in 1..Len(s) /\ Tail(s)[k] = s[k + 1] /\ k + 1 # 1
    BY <1>2
  <2>2. ASSUME NEW l \in 1..Len(m), f[l] = k + 1
        PROVE  FALSE
    <3>1. l # 1
      BY <1>3, <1>5, <2>1, <2>2
    <3>2. l - 1 \in 1..(Len(m) - 1) /\ (l - 1) + 1 = l
      BY <1>4, <3>1
    <3>3. g[l - 1] = (k + 1) - 1
      BY <1>9, <2>2, <3>2
    <3>4. (k + 1) - 1 = k
      BY <1>2
    <3>5. QED
      BY <1>7, <1>13, <3>2, <3>3, <3>4
  <2>3. QED
    BY <1>1, <2>1, <2>2 DEF Places
<1>14. Places(Tail(s), Tail(m), g)
  BY <1>10, <1>11, <1>12, <1>13 DEF Places
<1>15. QED
  BY <1>2, <1>4, <1>6, <1>7, <1>14 DEF Marks

LEMMA MarksOne ==
  ASSUME NEW a
  PROVE  /\ Mark(a) = "quiet" => Marks(<<a>>, <<>>)
         /\ Mark(a) \in Kinds => Marks(<<a>>, <<Mark(a)>>)
<1>1. IsSeq(<<a>>) /\ Len(<<a>>) = 1 /\ <<a>>[1] = a
  <2>1. <<a>> \in Seq({a})
    OBVIOUS
  <2>2. QED
    BY <2>1 DEF IsSeq
<1>2. ASSUME Mark(a) = "quiet"
      PROVE  Marks(<<a>>, <<>>)
  <2>1. <<>> \in Seq(Kinds) /\ Len(<<>>) = 0
    BY EmptySeq
  <2>2. PICK f : f = [i \in 1..0 |-> 1]
    OBVIOUS
  <2>3. f \in [1..0 -> 1..1] /\ \A i \in 1..0 : FALSE
    BY <2>2
  <2>4. \A k \in 1..1 : Mark(<<a>>[k]) = "quiet"
    BY <1>1, <1>2
  <2>5. Places(<<a>>, <<>>, f)
    BY <1>1, <2>1, <2>3, <2>4 DEF Places
  <2>6. QED
    BY <1>1, <2>1, <2>5 DEF Marks
<1>3. ASSUME Mark(a) \in Kinds
      PROVE  Marks(<<a>>, <<Mark(a)>>)
  <2>1. PICK b : b = Mark(a)
    OBVIOUS
  <2>2. <<b>> \in Seq(Kinds) /\ Len(<<b>>) = 1 /\ <<b>>[1] = b
    BY <1>3, <2>1
  <2>3. PICK f : f = [i \in 1..1 |-> 1]
    OBVIOUS
  <2>4. f \in [1..1 -> 1..1] /\ f[1] = 1 /\ \A i \in 1..1 : i = 1
    BY <2>3
  <2>5. Places(<<a>>, <<b>>, f)
    BY <1>1, <2>1, <2>2, <2>4 DEF Places
  <2>6. QED
    BY <1>1, <2>1, <2>2, <2>5 DEF Marks
<1>4. QED
  BY <1>2, <1>3

LEMMA QuietBefore ==
  ASSUME NEW s, Marks(s, <<>>), NEW t, NEW m, Marks(t, m)
  PROVE  Marks(s \o t, m)
<1>1. <<>> \o m = m
  BY MarksBasics, ConcatEmptySeq
<1>2. QED
  BY <1>1, MarksConcat

LEMMA QuietAfter ==
  ASSUME NEW s, NEW m, Marks(s, m), NEW t, Marks(t, <<>>)
  PROVE  Marks(s \o t, m)
<1>1. m \o <<>> = m
  BY MarksBasics, ConcatEmptySeq
<1>2. QED
  BY <1>1, MarksConcat

\* Two accesses in a row, as the register routines make them.
LEMMA PairLemma ==
  ASSUME NEW a, NEW b
  PROVE  <<a>> \o <<b>> = <<a, b>>
<1>1. PICK S : S = {a, b}
  OBVIOUS
<1>2. /\ <<a>> \in Seq(S) /\ <<b>> \in Seq(S) /\ <<a, b>> \in Seq(S)
      /\ Len(<<a>>) = 1 /\ Len(<<b>>) = 1 /\ Len(<<a, b>>) = 2
  BY <1>1
<1>3. /\ <<a>> \o <<b>> \in Seq(S) /\ Len(<<a>> \o <<b>>) = 2
      /\ \A i \in 1..2 : (<<a>> \o <<b>>)[i] = IF i <= 1 THEN a ELSE b
  BY <1>2, ConcatProperties
<1>4. \A i \in 1..2 : (<<a>> \o <<b>>)[i] = <<a, b>>[i]
  BY <1>3
<1>5. QED
  BY <1>2, <1>3, <1>4, SeqEqual

LEMMA QuietPair ==
  ASSUME NEW a, NEW b, Mark(a) = "quiet", Mark(b) = "quiet"
  PROVE  Marks(<<a, b>>, <<>>)
<1>1. Marks(<<a>>, <<>>) /\ Marks(<<b>>, <<>>)
  BY MarksOne
<1>2. QED
  BY <1>1, PairLemma, QuietBefore
--------------------------------------------------------------------------------
LEMMA RegisterMarks ==
  ASSUME NEW r, NEW x
  PROVE  /\ Marks(Ac97ReadRegister(r, x), <<>>)
         /\ Marks(Ac97WriteRegister(r, x), <<>>)
         /\ Marks(WriteBack(r), <<>>)
<1>1. /\ Mark(<<"select", r>>) = "quiet" /\ Mark(<<"in", x>>) = "quiet"
      /\ Mark(<<"out", x>>) = "quiet" /\ Mark(<<"out back">>) = "quiet"
  BY DEF Mark
<1>2. QED
  BY <1>1, QuietPair DEF Ac97ReadRegister, Ac97WriteRegister, WriteBack

LEMMA StoreMarks ==
  /\ Marks(Store("Playing", TRUE), <<"play">>)
  /\ Marks(Store("Playing", FALSE), <<"still">>)
  /\ Marks(Store("Configured", TRUE), <<"set">>)
  /\ Marks(Store("Configured", FALSE), <<"clear">>)
  /\ Marks(Store("WriteBuffer", Null), <<"null">>)
  /\ \A s : Marks(Return(s), <<"return">>)
  /\ \A f, v : f \notin {"Playing", "Configured", "WriteBuffer"} => Marks(Store(f, v), <<>>)
<1>1. /\ Mark(<<"store", "Playing", TRUE>>) = "play"
      /\ Mark(<<"store", "Playing", FALSE>>) = "still"
      /\ Mark(<<"store", "Configured", TRUE>>) = "set"
      /\ Mark(<<"store", "Configured", FALSE>>) = "clear"
      /\ Mark(<<"store", "WriteBuffer", Null>>) = "null"
      /\ \A s : Mark(<<"return", s>>) = "return"
      /\ \A f, v : f \notin {"Playing", "Configured", "WriteBuffer"}
                     => Mark(<<"store", f, v>>) = "quiet"
  BY DEF Mark
<1>2. {"play", "still", "set", "clear", "null", "return"} \subseteq Kinds
  BY DEF Kinds
<1>3. Marks(Store("Playing", TRUE), <<"play">>) /\ Marks(Store("Playing", FALSE), <<"still">>)
  BY <1>1, <1>2, MarksOne DEF Store
<1>4. /\ Marks(Store("Configured", TRUE), <<"set">>)
      /\ Marks(Store("Configured", FALSE), <<"clear">>)
  BY <1>1, <1>2, MarksOne DEF Store
<1>5. Marks(Store("WriteBuffer", Null), <<"null">>)
  BY <1>1, <1>2, MarksOne DEF Store
<1>6. \A s : Marks(Return(s), <<"return">>)
  BY <1>1, <1>2, MarksOne DEF Return
<1>7. \A f, v : f \notin {"Playing", "Configured", "WriteBuffer"} => Marks(Store(f, v), <<>>)
  BY <1>1, MarksOne DEF Store
<1>8. QED
  BY <1>3, <1>4, <1>5, <1>6, <1>7

LEMMA StopMarks == Marks(Ac97StopPlayback, <<"still">>)
<1>1. PICK a, b, c : /\ a = Ac97ReadRegister("power", "set DAC") /\ b = WriteBack("power")
                     /\ c = Store("Playing", FALSE)
  OBVIOUS
<1>2. Marks(a, <<>>) /\ Marks(b, <<>>) /\ Marks(c, <<"still">>)
  BY <1>1, RegisterMarks, StoreMarks
<1>3. Marks((a \o b) \o c, <<"still">>)
  BY <1>2, QuietBefore
<1>4. QED
  BY <1>1, <1>3 DEF Ac97StopPlayback

LEMMA StartMarks == Marks(Ac97StartPlayback, <<"play">>)
<1>1. PICK a, b, c, d, e, f, g :
         /\ a = Ac97ReadRegister("power", "clear DAC") /\ b = WriteBack("power")
         /\ c = Ac97ReadRegister("status", "set VRA") /\ d = WriteBack("status")
         /\ e = << <<"load">> >> /\ f = WriteBack("rate") /\ g = Store("Playing", TRUE)
  OBVIOUS
<1>2. Mark(<<"load">>) = "quiet"
  BY DEF Mark
<1>3. /\ Marks(a, <<>>) /\ Marks(b, <<>>) /\ Marks(c, <<>>) /\ Marks(d, <<>>) /\ Marks(e, <<>>)
      /\ Marks(f, <<>>) /\ Marks(g, <<"play">>)
  BY <1>1, <1>2, RegisterMarks, StoreMarks, MarksOne
<1>4. Marks((((a \o b) \o c) \o d) \o e, <<>>)
  BY <1>3, QuietBefore
<1>5. Marks(((((((a \o b) \o c) \o d) \o e) \o f) \o g), <<"play">>)
  BY <1>3, <1>4, QuietBefore
<1>6. QED
  BY <1>1, <1>5 DEF Ac97StartPlayback

LEMMA ResetMarks == Marks(Ac97Reset, <<>>)
<1>1. PICK a, b, c : /\ a = Ac97WriteRegister("reset", 0)
                     /\ b = << <<"select", "power">>, <<"poll">> >>
                     /\ c = Ac97WriteRegister("volume", 0)
  OBVIOUS
<1>2. Mark(<<"select", "power">>) = "quiet" /\ Mark(<<"poll">>) = "quiet"
  BY DEF Mark
<1>3. Marks(a, <<>>) /\ Marks(b, <<>>) /\ Marks(c, <<>>)
  BY <1>1, <1>2, RegisterMarks, QuietPair
<1>4. Marks((((a \o b) \o c) \o c) \o c, <<>>)
  BY <1>3, QuietBefore
<1>5. QED
  BY <1>1, <1>4 DEF Ac97Reset

\* The mark of the second routine comes last.
LEMMA MarkAfter ==
  ASSUME NEW s, NEW m, Marks(s, m), NEW t, NEW x, Marks(t, <<x>>),
         NEW l \in Seq(Kinds), Len(l) = Len(m) + 1, l[Len(m) + 1] = x,
         \A i \in 1..Len(m) : l[i] = m[i]
  PROVE  Marks(s \o t, l)
<1>1. <<x>> \in Seq(Kinds) /\ Len(<<x>>) = 1 /\ m \in Seq(Kinds) /\ Len(m) \in Nat
  BY MarksBasics
<1>2. /\ m \o <<x>> \in Seq(Kinds) /\ Len(m \o <<x>>) = Len(m) + 1
      /\ \A i \in 1..(Len(m) + 1) : (m \o <<x>>)[i] = IF i <= Len(m) THEN m[i] ELSE <<x>>[i - Len(m)]
  BY <1>1, ConcatProperties
<1>3. ASSUME NEW i \in 1..(Len(m) + 1)
      PROVE  (m \o <<x>>)[i] = l[i]
  <2>1. CASE i <= Len(m)
    BY <1>1, <1>2, <2>1
  <2>2. CASE ~(i <= Len(m))
    <3>1. i - Len(m) = 1 /\ i = Len(m) + 1
      BY <1>1, <2>2
    <3>2. (m \o <<x>>)[i] = <<x>>[1]
      BY <1>2, <2>2, <3>1
    <3>3. QED
      BY <3>1, <3>2
  <2>3. QED
    BY <2>1, <2>2
<1>4. m \o <<x>> = l
  BY <1>2, <1>3, SeqEqual
<1>5. QED
  BY <1>4, MarksConcat

\* The mark of the first routine comes first.
LEMMA MarkBefore ==
  ASSUME NEW s, NEW x, Marks(s, <<x>>), NEW t, NEW m, Marks(t, m),
         NEW l \in Seq(Kinds), l # <<>>, l[1] = x, Tail(l) = m
  PROVE  Marks(s \o t, l)
<1>1. <<x>> \in Seq(Kinds) /\ Len(<<x>>) = 1 /\ m \in Seq(Kinds) /\ Len(m) \in Nat
  BY MarksBasics
<1>2. /\ <<x>> \o m \in Seq(Kinds) /\ Len(<<x>> \o m) = 1 + Len(m)
      /\ \A i \in 1..(1 + Len(m)) : (<<x>> \o m)[i] = IF i <= 1 THEN <<x>>[i] ELSE m[i - 1]
  BY <1>1, ConcatProperties
<1>3. Len(l) \in Nat /\ Len(m) = Len(l) - 1 /\ \A i \in 1..Len(m) : m[i] = l[i + 1]
  BY HeadTailProperties, LenProperties
<1>4. ASSUME NEW i \in 1..(1 + Len(m))
      PROVE  (<<x>> \o m)[i] = l[i]
  <2>1. CASE i = 1
    BY <1>2, <2>1
  <2>2. CASE i # 1
    <3>1. i - 1 \in 1..Len(m) /\ ~(i <= 1) /\ (i - 1) + 1 = i
      BY <1>1, <2>2
    <3>2. (<<x>> \o m)[i] = m[i - 1] /\ m[i - 1] = l[(i - 1) + 1]
      BY <1>2, <1>3, <3>1
    <3>3. QED
      BY <3>1, <3>2
  <2>3. QED
    BY <2>1, <2>2
<1>5. Len(<<x>> \o m) = Len(l)
  BY <1>1, <1>2, <1>3
<1>6. <<x>> \o m = l
  BY <1>2, <1>4, <1>5, SeqEqual
<1>7. QED
  BY <1>6, MarksConcat

LEMMA OneMark ==
  ASSUME NEW t, NEW x, Marks(t, <<x>>)
  PROVE  x \in Kinds
<1>1. PICK n : n = <<x>>
  OBVIOUS
<1>2. Marks(t, n) /\ Len(n) = 1 /\ n[1] = x
  BY <1>1
<1>3. n \in Seq(Kinds)
  BY <1>2, MarksBasics
<1>4. n[1] \in Kinds
  BY <1>2, <1>3, ElementOfSeq
<1>5. QED
  BY <1>2, <1>4

\* The same, mark by mark.
LEMMA SecondMark ==
  ASSUME NEW s, NEW a, Marks(s, <<a>>),
         NEW t, NEW b, Marks(t, <<b>>)
  PROVE  Marks(s \o t, <<a, b>>)
<1>1. \A i \in 1..1 : <<a>>[i] \in Kinds
  <2>1. Len(<<a>>) = 1
    OBVIOUS
  <2>2. QED
    BY <2>1, MarksBasics
<1>2. b \in Kinds
  BY OneMark
<1>3. a \in Kinds
  <2>1. <<a>>[1] = a /\ 1 \in 1..1
    OBVIOUS
  <2>2. QED
    BY <1>1, <2>1
<1>4. /\ <<a, b>> \in Seq(Kinds)
      /\ Len(<<a>>) = 1 /\ Len(<<a, b>>) = 1 + 1
      /\ \A i \in 1..1 : <<a, b>>[i] = <<a>>[i]
      /\ <<a, b>>[1 + 1] = b
  BY <1>2, <1>3
<1>5. PICK l, m : l = <<a, b>> /\ m = <<a>>
  OBVIOUS
<1>6. /\ Marks(s, m) /\ l \in Seq(Kinds) /\ Len(l) = Len(m) + 1
      /\ l[Len(m) + 1] = b /\ \A i \in 1..Len(m) : l[i] = m[i]
  BY <1>4, <1>5
<1>7. Marks(s \o t, l)
  BY <1>6, MarkAfter
<1>8. QED
  BY <1>5, <1>7

LEMMA ThirdMark ==
  ASSUME NEW s, NEW a, NEW b, Marks(s, <<a, b>>),
         NEW t, NEW c, Marks(t, <<c>>)
  PROVE  Marks(s \o t, <<a, b, c>>)
<1>1. \A i \in 1..2 : <<a, b>>[i] \in Kinds
  <2>1. Len(<<a, b>>) = 2
    OBVIOUS
  <2>2. QED
    BY <2>1, MarksBasics
<1>2. c \in Kinds
  BY OneMark
<1>3. a \in Kinds /\ b \in Kinds
  <2>1. <<a, b>>[1] = a /\ 1 \in 1..2
    OBVIOUS
  <2>2. <<a, b>>[2] = b /\ 2 \in 1..2
    OBVIOUS
  <2>3. QED
    BY <1>1, <2>1, <2>2
<1>4. /\ <<a, b, c>> \in Seq(Kinds)
      /\ Len(<<a, b>>) = 2 /\ Len(<<a, b, c>>) = 2 + 1
      /\ \A i \in 1..2 : <<a, b, c>>[i] = <<a, b>>[i]
      /\ <<a, b, c>>[2 + 1] = c
  BY <1>2, <1>3
<1>5. PICK l, m : l = <<a, b, c>> /\ m = <<a, b>>
  OBVIOUS
<1>6. /\ Marks(s, m) /\ l \in Seq(Kinds) /\ Len(l) = Len(m) + 1
      /\ l[Len(m) + 1] = c /\ \A i \in 1..Len(m) : l[i] = m[i]
  BY <1>4, <1>5
<1>7. Marks(s \o t, l)
  BY <1>6, MarkAfter
<1>8. QED
  BY <1>5, <1>7

LEMMA FourthMark ==
  ASSUME NEW s, NEW a, NEW b, NEW c, Marks(s, <<a, b, c>>),
         NEW t, NEW d, Marks(t, <<d>>)
  PROVE  Marks(s \o t, <<a, b, c, d>>)
<1>1. \A i \in 1..3 : <<a, b, c>>[i] \in Kinds
  <2>1. Len(<<a, b, c>>) = 3
    OBVIOUS
  <2>2. QED
    BY <2>1, MarksBasics
<1>2. d \in Kinds
  BY OneMark
<1>3. a \in Kinds /\ b \in Kinds /\ c \in Kinds
  <2>1. <<a, b, c>>[1] = a /\ 1 \in 1..3
    OBVIOUS
  <2>2. <<a, b, c>>[2] = b /\ 2 \in 1..3
    OBVIOUS
  <2>3. <<a, b, c>>[3] = c /\ 3 \in 1..3
    OBVIOUS
  <2>4. QED
    BY <1>1, <2>1, <2>2, <2>3
<1>4. /\ <<a, b, c, d>> \in Seq(Kinds)
      /\ Len(<<a, b, c>>) = 3 /\ Len(<<a, b, c, d>>) = 3 + 1
      /\ \A i \in 1..3 : <<a, b, c, d>>[i] = <<a, b, c>>[i]
      /\ <<a, b, c, d>>[3 + 1] = d
  BY <1>2, <1>3
<1>5. PICK l, m : l = <<a, b, c, d>> /\ m = <<a, b, c>>
  OBVIOUS
<1>6. /\ Marks(s, m) /\ l \in Seq(Kinds) /\ Len(l) = Len(m) + 1
      /\ l[Len(m) + 1] = d /\ \A i \in 1..Len(m) : l[i] = m[i]
  BY <1>4, <1>5
<1>7. Marks(s \o t, l)
  BY <1>6, MarkAfter
<1>8. QED
  BY <1>5, <1>7

LEMMA FifthMark ==
  ASSUME NEW s, NEW a, NEW b, NEW c, NEW d, Marks(s, <<a, b, c, d>>),
         NEW t, NEW e, Marks(t, <<e>>)
  PROVE  Marks(s \o t, <<a, b, c, d, e>>)
<1>1. \A i \in 1..4 : <<a, b, c, d>>[i] \in Kinds
  <2>1. Len(<<a, b, c, d>>) = 4
    OBVIOUS
  <2>2. QED
    BY <2>1, MarksBasics
<1>2. e \in Kinds
  BY OneMark
<1>3. a \in Kinds /\ b \in Kinds /\ c \in Kinds /\ d \in Kinds
  <2>1. <<a, b, c, d>>[1] = a /\ 1 \in 1..4
    OBVIOUS
  <2>2. <<a, b, c, d>>[2] = b /\ 2 \in 1..4
    OBVIOUS
  <2>3. <<a, b, c, d>>[3] = c /\ 3 \in 1..4
    OBVIOUS
  <2>4. <<a, b, c, d>>[4] = d /\ 4 \in 1..4
    OBVIOUS
  <2>5. QED
    BY <1>1, <2>1, <2>2, <2>3, <2>4
<1>4. /\ <<a, b, c, d, e>> \in Seq(Kinds)
      /\ Len(<<a, b, c, d>>) = 4 /\ Len(<<a, b, c, d, e>>) = 4 + 1
      /\ \A i \in 1..4 : <<a, b, c, d, e>>[i] = <<a, b, c, d>>[i]
      /\ <<a, b, c, d, e>>[4 + 1] = e
  BY <1>2, <1>3
<1>5. PICK l, m : l = <<a, b, c, d, e>> /\ m = <<a, b, c, d>>
  OBVIOUS
<1>6. /\ Marks(s, m) /\ l \in Seq(Kinds) /\ Len(l) = Len(m) + 1
      /\ l[Len(m) + 1] = e /\ \A i \in 1..Len(m) : l[i] = m[i]
  BY <1>4, <1>5
<1>7. Marks(s \o t, l)
  BY <1>6, MarkAfter
<1>8. QED
  BY <1>5, <1>7
--------------------------------------------------------------------------------
\* What is left of a routine, by the accesses that matter.
Lists == {<<"return">>, <<"still", "return">>, <<"check", "return">>,
          <<"still", "clear", "return">>, <<"clear", "return">>,
          <<"still", "free", "null", "clear", "return">>,
          <<"free", "null", "clear", "return">>, <<"null", "clear", "return">>,
          <<"still", "free", "allocate", "set", "play", "return">>,
          <<"free", "allocate", "set", "play", "return">>,
          <<"allocate", "set", "play", "return">>, <<"set", "play", "return">>,
          <<"play", "return">>}

LEMMA PnpMarks ==
  Marks(StopDevice, <<"still", "return">>) /\ Marks(StartDevice, <<"return">>)
<1>1. /\ <<"still", "return">> \in Seq(Kinds)
      /\ Len(<<"still">>) = 1 /\ Len(<<"still", "return">>) = 1 + 1
      /\ \A i \in 1..1 : <<"still", "return">>[i] = <<"still">>[i]
      /\ <<"still", "return">>[1 + 1] = "return"
  BY DEF Kinds
<1>2. PICK r : r = Return("SUCCESS")
  OBVIOUS
<1>3. Marks(r, <<"return">>)
  BY <1>2, StoreMarks
<1>4. Marks(StopDevice, <<"still", "return">>)
  <2>1. PICK a, b : a = Ac97StopPlayback /\ b = Store("DeviceStarted", FALSE)
    OBVIOUS
  <2>2. Marks(a, <<"still">>) /\ Marks(b, <<>>)
    BY <2>1, StopMarks, StoreMarks
  <2>3. Marks(a \o b, <<"still">>)
    BY <2>2, QuietAfter
  <2>4. PICK l, m : l = <<"still", "return">> /\ m = <<"still">>
    OBVIOUS
  <2>5. /\ Marks(a \o b, m) /\ l \in Seq(Kinds) /\ Len(l) = Len(m) + 1
        /\ l[Len(m) + 1] = "return" /\ \A i \in 1..Len(m) : l[i] = m[i]
    BY <1>1, <2>3, <2>4
  <2>6. Marks((a \o b) \o r, l)
    BY <1>3, <2>5, MarkAfter
  <2>7. QED
    BY <1>2, <2>1, <2>4, <2>6 DEF StopDevice
<1>5. Marks(StartDevice, <<"return">>)
  <2>1. PICK a, b, c : /\ a = Store("IoBase", DefaultIoBase)
                       /\ b = << <<"select", "vendor">>, <<"probe">> >>
                       /\ c = Store("DeviceStarted", TRUE)
    OBVIOUS
  <2>2. Mark(<<"select", "vendor">>) = "quiet" /\ Mark(<<"probe">>) = "quiet"
    BY DEF Mark
  <2>3. Marks(a, <<>>) /\ Marks(b, <<>>) /\ Marks(c, <<>>)
    BY <2>1, <2>2, StoreMarks, QuietPair
  <2>4. Marks(((a \o b) \o c) \o r, <<"return">>)
    BY <1>3, <2>3, QuietBefore
  <2>5. QED
    BY <1>2, <2>1, <2>4 DEF StartDevice
<1>6. QED
  BY <1>4, <1>5

LEMMA SharedMarks ==
  /\ Marks(<< <<"free">> >>, <<"free">>)
  /\ Marks(<< <<"allocate">> >>, <<"allocate">>)
<1>1. Mark(<<"free">>) = "free" /\ Mark(<<"allocate">>) = "allocate"
  BY DEF Mark
<1>2. QED
  BY <1>1, MarksOne DEF Kinds

LEMMA CreateMarks == Marks(Ac97DispatchCreate, <<"still", "clear", "return">>)
<1>1. PICK a, b, r : /\ a = Store("Playing", FALSE) /\ b = Store("Configured", FALSE)
                     /\ r = Return("SUCCESS")
  OBVIOUS
<1>2. Marks(a, <<"still">>) /\ Marks(b, <<"clear">>) /\ Marks(r, <<"return">>)
  BY <1>1, StoreMarks
<1>3. Marks(a \o b, <<"still", "clear">>)
  BY <1>2, SecondMark
<1>4. Marks((a \o b) \o r, <<"still", "clear", "return">>)
  BY <1>2, <1>3, ThirdMark
<1>5. QED
  BY <1>1, <1>4 DEF Ac97DispatchCreate

LEMMA CloseMarks == Marks(Ac97DispatchClose, <<"still", "free", "null", "clear", "return">>)
<1>1. PICK a, b, c, d, r : /\ a = Ac97StopPlayback /\ b = << <<"free">> >>
                           /\ c = Store("WriteBuffer", Null)
                           /\ d = Store("Configured", FALSE) /\ r = Return("SUCCESS")
  OBVIOUS
<1>2. /\ Marks(a, <<"still">>) /\ Marks(b, <<"free">>) /\ Marks(c, <<"null">>)
      /\ Marks(d, <<"clear">>) /\ Marks(r, <<"return">>)
  BY <1>1, StopMarks, StoreMarks, SharedMarks
<1>3. Marks(a \o b, <<"still", "free">>)
  BY <1>2, SecondMark
<1>4. Marks((a \o b) \o c, <<"still", "free", "null">>)
  BY <1>2, <1>3, ThirdMark
<1>5. Marks(((a \o b) \o c) \o d, <<"still", "free", "null", "clear">>)
  BY <1>2, <1>4, FourthMark
<1>6. Marks((((a \o b) \o c) \o d) \o r, <<"still", "free", "null", "clear", "return">>)
  BY <1>2, <1>5, FifthMark
<1>7. QED
  BY <1>1, <1>6 DEF Ac97DispatchClose

LEMMA IoctlMarks ==
  /\ Marks(StopIoctl, <<"still", "return">>)
  /\ Marks(Ac97HandleWrite, <<"check", "return">>)
<1>1. PICK a, b, r : /\ a = Ac97StopPlayback /\ b = << <<"check">>, <<"feed">> >>
                     /\ r = Return("SUCCESS")
  OBVIOUS
<1>2. Marks(a, <<"still">>) /\ Marks(r, <<"return">>)
  BY <1>1, StopMarks, StoreMarks
<1>3. Marks(b, <<"check">>)
  <2>1. Mark(<<"check">>) = "check" /\ Mark(<<"feed">>) = "quiet"
    BY DEF Mark
  <2>2. PICK c, d : c = << <<"check">> >> /\ d = << <<"feed">> >>
    OBVIOUS
  <2>3. Marks(c, <<"check">>) /\ Marks(d, <<>>)
    BY <2>1, <2>2, MarksOne DEF Kinds
  <2>4. Marks(c \o d, <<"check">>)
    BY <2>3, QuietAfter
  <2>5. c \o d = b
    BY <1>1, <2>2, PairLemma
  <2>6. QED
    BY <2>4, <2>5
<1>4. Marks(a \o r, <<"still", "return">>)
  BY <1>2, SecondMark
<1>5. Marks(b \o r, <<"check", "return">>)
  BY <1>2, <1>3, SecondMark
<1>6. QED
  BY <1>1, <1>4, <1>5 DEF StopIoctl, Ac97HandleWrite

LEMMA ConfigureMarks ==
  ASSUME NEW cfg
  PROVE  \/ Marks(Ac97ConfigureAndPlay(cfg), <<"still", "return">>)
         \/ Marks(Ac97ConfigureAndPlay(cfg),
                  <<"still", "free", "allocate", "set", "play", "return">>)
<1>1. Marks(Ac97StopPlayback, <<"still">>)
  BY StopMarks
<1>2. CASE ~ValidRequest(cfg)
  <2>1. PICK a, r : a = Ac97StopPlayback /\ r = Return("INVALID_PARAMETER")
    OBVIOUS
  <2>2. Marks(a, <<"still">>) /\ Marks(r, <<"return">>)
    BY <1>1, <2>1, StoreMarks
  <2>3. Marks(a \o r, <<"still", "return">>)
    BY <2>2, SecondMark
  <2>4. QED
    BY <1>2, <2>1, <2>3 DEF Ac97ConfigureAndPlay
<1>3. CASE ValidRequest(cfg)
  <2>1. PICK a, b, c, d, e, f, g, h, i, j, k, r :
           /\ a = Ac97StopPlayback
           /\ b = Store("Channels", cfg.Channels)
           /\ c = Store("BitsPerSample", cfg.BitsPerSample)
           /\ d = Ac97Reset /\ e = Ac97SetSampleRate(cfg.SampleRate)
           /\ f = Store("SampleRate", cfg.SampleRate)
           /\ g = << <<"free">> >>
           /\ h = Store("WriteBufferSize", Atomic!BufferSize(cfg))
           /\ i = << <<"allocate">> >> /\ j = Store("Configured", TRUE)
           /\ k = Ac97StartPlayback /\ r = Return("SUCCESS")
    OBVIOUS
  <2>2. /\ Marks(a, <<"still">>) /\ Marks(g, <<"free">>) /\ Marks(i, <<"allocate">>)
        /\ Marks(j, <<"set">>) /\ Marks(k, <<"play">>) /\ Marks(r, <<"return">>)
    BY <2>1, StopMarks, StoreMarks, SharedMarks, StartMarks
  <2>3. Marks(b, <<>>) /\ Marks(c, <<>>) /\ Marks(f, <<>>) /\ Marks(h, <<>>)
    BY <2>1, StoreMarks
  <2>4. Marks(d, <<>>) /\ Marks(e, <<>>)
    BY <2>1, ResetMarks, RegisterMarks DEF Ac97SetSampleRate
  <2>5. Marks((((b \o c) \o d) \o e) \o f, <<>>)
    BY <2>3, <2>4, QuietBefore
  <2>6. Marks((((((b \o c) \o d) \o e) \o f) \o g) \o h, <<"free">>)
    BY <2>2, <2>3, <2>5, QuietBefore, QuietAfter
  <2>7. PICK q : q = (((((b \o c) \o d) \o e) \o f) \o g) \o h
    OBVIOUS
  <2>8. Marks(q, <<"free">>)
    BY <2>6, <2>7
  <2>9. Marks(q \o i, <<"free", "allocate">>)
    BY <2>2, <2>8, SecondMark
  <2>10. Marks((q \o i) \o j, <<"free", "allocate", "set">>)
    BY <2>2, <2>9, ThirdMark
  <2>11. Marks(((q \o i) \o j) \o k, <<"free", "allocate", "set", "play">>)
    BY <2>2, <2>10, FourthMark
  <2>12. PICK l, m : /\ l = <<"still", "free", "allocate", "set", "play", "return">>
                     /\ m = <<"free", "allocate", "set", "play", "return">>
    OBVIOUS
  <2>13. Marks((((q \o i) \o j) \o k) \o r, m)
    BY <2>2, <2>11, <2>12, FifthMark
  <2>14. l \in Seq(Kinds) /\ l # <<>> /\ l[1] = "still" /\ Tail(l) = m
    BY <2>12 DEF Kinds
  <2>15. Marks(a \o ((((q \o i) \o j) \o k) \o r), l)
    BY <2>2, <2>13, <2>14, MarkBefore
  <2>16. QED
    BY <1>3, <2>1, <2>7, <2>12, <2>15 DEF Ac97ConfigureAndPlay
<1>4. QED
  BY <1>2, <1>3
--------------------------------------------------------------------------------
\* WriteBuffer points to the only block allocated, or is NULL.
Owned == pool = {ext.WriteBuffer} \ {Null}

\* Playback was stopped, and Configured is still to be cleared.
Stopped == {<<"clear", "return">>, <<"free", "null", "clear", "return">>,
            <<"null", "clear", "return">>}

\* What holds while m is left of a routine of a handle.
Condition(m) == /\ IF m[1] \in {"allocate", "null"} THEN pool = {} ELSE Owned
                /\ m \in Stopped => ~ext.Playing
                /\ m = <<"play", "return">> => ext.Configured

Busy == Handles \cap Running

Shape == /\ DOMAIN irp = Threads
         /\ \A t \in Threads : {"op", "todo"} \subseteq DOMAIN irp[t]
         /\ {"Playing", "Configured", "WriteBuffer"} \subseteq DOMAIN ext

HandleLeft(h) == \E m \in Lists : Marks(irp[h].todo, m) /\ Condition(m)

PnpLeft == \E m \in {<<"return">>, <<"still", "return">>} : Marks(irp[PnP].todo, m)

InOrder == /\ ~fault
           /\ ext.Playing => ext.Configured
           /\ \A g, h \in Busy : g = h
           /\ \A h \in Busy : HandleLeft(h)
           /\ Busy = {} => Owned
           /\ PnP \in Running => PnpLeft

IInv == Shape /\ (~raced => InOrder)

LEMMA ListsLemma ==
  ASSUME NEW m \in Lists
  PROVE  /\ m # <<>>
         /\ m[1] = "still" => Tail(m) \in {<<"return">>, <<"clear", "return">>,
                                           <<"free", "null", "clear", "return">>,
                                           <<"free", "allocate", "set", "play", "return">>}
         /\ m[1] = "free" => \/ /\ m \in Stopped
                                /\ Tail(m) = <<"null", "clear", "return">>
                             \/ Tail(m) = <<"allocate", "set", "play", "return">>
         /\ m[1] = "allocate" => Tail(m) = <<"set", "play", "return">>
         /\ m[1] = "null" => m \in Stopped /\ Tail(m) = <<"clear", "return">>
         /\ m[1] = "set" => Tail(m) = <<"play", "return">>
         /\ m[1] = "play" => m = <<"play", "return">> /\ Tail(m) = <<"return">>
         /\ m[1] = "clear" => m \in Stopped /\ Tail(m) = <<"return">>
         /\ m[1] = "check" => Tail(m) = <<"return">>
<1>1. CASE m = <<"return">>
  <2>1. m # <<>> /\ m[1] = "return"
    BY <1>1
  <2>2. QED
    BY <1>1, <2>1 DEF Stopped
<1>2. CASE m = <<"still", "return">>
  <2>1. m # <<>> /\ m[1] = "still" /\ Tail(m) = <<"return">>
    BY <1>2
  <2>2. QED
    BY <1>2, <2>1 DEF Stopped
<1>3. CASE m = <<"check", "return">>
  <2>1. m # <<>> /\ m[1] = "check" /\ Tail(m) = <<"return">>
    BY <1>3
  <2>2. QED
    BY <1>3, <2>1 DEF Stopped
<1>4. CASE m = <<"still", "clear", "return">>
  <2>1. m # <<>> /\ m[1] = "still" /\ Tail(m) = <<"clear", "return">>
    BY <1>4
  <2>2. QED
    BY <1>4, <2>1 DEF Stopped
<1>5. CASE m = <<"clear", "return">>
  <2>1. m # <<>> /\ m[1] = "clear" /\ Tail(m) = <<"return">>
    BY <1>5
  <2>2. QED
    BY <1>5, <2>1 DEF Stopped
<1>6. CASE m = <<"still", "free", "null", "clear", "return">>
  <2>1. m # <<>> /\ m[1] = "still" /\ Tail(m) = <<"free", "null", "clear", "return">>
    BY <1>6
  <2>2. QED
    BY <1>6, <2>1 DEF Stopped
<1>7. CASE m = <<"free", "null", "clear", "return">>
  <2>1. m # <<>> /\ m[1] = "free" /\ Tail(m) = <<"null", "clear", "return">>
    BY <1>7
  <2>2. QED
    BY <1>7, <2>1 DEF Stopped
<1>8. CASE m = <<"null", "clear", "return">>
  <2>1. m # <<>> /\ m[1] = "null" /\ Tail(m) = <<"clear", "return">>
    BY <1>8
  <2>2. QED
    BY <1>8, <2>1 DEF Stopped
<1>9. CASE m = <<"still", "free", "allocate", "set", "play", "return">>
  <2>1. m # <<>> /\ m[1] = "still" /\ Tail(m) = <<"free", "allocate", "set", "play", "return">>
    BY <1>9
  <2>2. QED
    BY <1>9, <2>1 DEF Stopped
<1>10. CASE m = <<"free", "allocate", "set", "play", "return">>
  <2>1. m # <<>> /\ m[1] = "free" /\ Tail(m) = <<"allocate", "set", "play", "return">>
    BY <1>10
  <2>2. QED
    BY <1>10, <2>1 DEF Stopped
<1>11. CASE m = <<"allocate", "set", "play", "return">>
  <2>1. m # <<>> /\ m[1] = "allocate" /\ Tail(m) = <<"set", "play", "return">>
    BY <1>11
  <2>2. QED
    BY <1>11, <2>1 DEF Stopped
<1>12. CASE m = <<"set", "play", "return">>
  <2>1. m # <<>> /\ m[1] = "set" /\ Tail(m) = <<"play", "return">>
    BY <1>12
  <2>2. QED
    BY <1>12, <2>1 DEF Stopped
<1>13. CASE m = <<"play", "return">>
  <2>1. m # <<>> /\ m[1] = "play" /\ Tail(m) = <<"return">>
    BY <1>13
  <2>2. QED
    BY <1>13, <2>1 DEF Stopped
<1>14. QED
  BY <1>1, <1>2, <1>3, <1>4, <1>5, <1>6, <1>7, <1>8, <1>9, <1>10, <1>11, <1>12, <1>13 DEF Lists

\* Where nothing is left but what needs the pointer in place.
LEMMA ConditionLemma ==
  /\ Owned => /\ Condition(<<"return">>)
              /\ Condition(<<"still", "return">>)
              /\ Condition(<<"check", "return">>)
              /\ Condition(<<"still", "clear", "return">>)
              /\ Condition(<<"still", "free", "null", "clear", "return">>)
              /\ Condition(<<"still", "free", "allocate", "set", "play", "return">>)
              /\ Condition(<<"free", "allocate", "set", "play", "return">>)
              /\ Condition(<<"set", "play", "return">>)
  /\ Owned /\ ~ext.Playing => /\ Condition(<<"clear", "return">>)
                              /\ Condition(<<"free", "null", "clear", "return">>)
  /\ Owned /\ ext.Configured => Condition(<<"play", "return">>)
  /\ pool = {} => Condition(<<"allocate", "set", "play", "return">>)
  /\ pool = {} /\ ~ext.Playing => Condition(<<"null", "clear", "return">>)
BY DEF Condition, Stopped

\* The same of the next state.
LEMMA ConditionPrimed ==
  /\ Owned' => /\ Condition(<<"return">>)'
              /\ Condition(<<"still", "return">>)'
              /\ Condition(<<"check", "return">>)'
              /\ Condition(<<"still", "clear", "return">>)'
              /\ Condition(<<"still", "free", "null", "clear", "return">>)'
              /\ Condition(<<"still", "free", "allocate", "set", "play", "return">>)'
              /\ Condition(<<"free", "allocate", "set", "play", "return">>)'
              /\ Condition(<<"set", "play", "return">>)'
  /\ Owned' /\ ~ext'.Playing => /\ Condition(<<"clear", "return">>)'
                              /\ Condition(<<"free", "null", "clear", "return">>)'
  /\ Owned' /\ ext'.Configured => Condition(<<"play", "return">>)'
  /\ pool' = {} => Condition(<<"allocate", "set", "play", "return">>)'
  /\ pool' = {} /\ ~ext'.Playing => Condition(<<"null", "clear", "return">>)'
BY DEF Condition, Stopped

--------------------------------------------------------------------------------
\* A thread goes on with x left of its routine.
LEMMA GoOn ==
  ASSUME Shape, NEW t \in Threads, NEW r, NEW x, {"op", "todo"} \subseteq DOMAIN r,
         r.op = irp[t].op, irp' = [irp EXCEPT ![t] = [r EXCEPT !.todo = x]]
  PROVE  /\ DOMAIN irp' = Threads /\ \A u \in Threads : {"op", "todo"} \subseteq DOMAIN irp'[u]
         /\ irp'[t].todo = x /\ \A u \in Threads \ {t} : irp'[u] = irp[u]
         /\ Running' = Running /\ Busy' = Busy
<1>1. PICK q : q = [r EXCEPT !.todo = x]
  OBVIOUS
<1>2. {"op", "todo"} \subseteq DOMAIN q /\ q.todo = x /\ q.op = irp[t].op
  BY <1>1
<1>3. DOMAIN irp' = Threads /\ irp'[t] = q /\ \A u \in Threads \ {t} : irp'[u] = irp[u]
  BY <1>1 DEF Shape
<1>4. \A u \in Threads : {"op", "todo"} \subseteq DOMAIN irp'[u]
  BY <1>2, <1>3 DEF Shape
<1>5. \A u \in Threads : irp'[u].op = irp[u].op
  BY <1>2, <1>3
<1>6. Running' = Running
  BY <1>5 DEF Running
<1>7. QED
  BY <1>2, <1>3, <1>4, <1>6 DEF Busy

\* The handle that runs makes an access.
LEMMA HandleStep ==
  ASSUME ~raced => InOrder, NEW t \in Busy, Running' = Running, Busy' = Busy,
         irp'[PnP].todo = irp[PnP].todo, raced' = raced,
         ~raced => /\ ~fault' /\ (ext'.Playing => ext'.Configured)
                   /\ \E m \in Lists : Marks(irp'[t].todo, m) /\ Condition(m)'
  PROVE  ~raced' => InOrder'
<1>1. SUFFICES ASSUME ~raced
               PROVE  InOrder'
  OBVIOUS
<1>2. \A h \in Busy : h = t
  BY <1>1 DEF InOrder
<1>3. \A h \in Busy' : HandleLeft(h)'
  BY <1>1, <1>2 DEF HandleLeft
<1>4. PnP \in Running' => PnpLeft'
  BY <1>1 DEF InOrder, PnpLeft
<1>5. QED
  BY <1>1, <1>2, <1>3, <1>4 DEF InOrder

\* A step of the PnP manager, or of nobody.
LEMMA PnpStep ==
  ASSUME ~raced => InOrder, Busy' = Busy, \A h \in Busy : irp'[h].todo = irp[h].todo,
         pool' = pool, ext'.WriteBuffer = ext.WriteBuffer, ext'.Configured = ext.Configured,
         ext'.Playing => ext.Playing, fault' = fault, raced => raced',
         ~raced /\ PnP \in Running' => PnpLeft'
  PROVE  ~raced' => InOrder'
<1>1. SUFFICES ASSUME ~raced
               PROVE  InOrder'
  OBVIOUS
<1>2. Owned => Owned'
  BY DEF Owned
<1>3. \A m : Condition(m) => Condition(m)'
  BY <1>2 DEF Condition
<1>4. ASSUME NEW h \in Busy'
      PROVE  HandleLeft(h)'
  <2>1. HandleLeft(h) /\ irp'[h].todo = irp[h].todo
    BY <1>1, <1>4 DEF InOrder
  <2>2. PICK m \in Lists : Marks(irp[h].todo, m) /\ Condition(m)
    BY <2>1 DEF HandleLeft
  <2>3. Marks(irp'[h].todo, m) /\ Condition(m)'
    BY <1>3, <2>1, <2>2
  <2>4. QED
    BY <2>3 DEF HandleLeft
<1>5. QED
  BY <1>1, <1>2, <1>4 DEF InOrder

LEMMA LeftLemma ==
  ASSUME InOrder, NEW t \in Running
  PROVE  /\ irp[t].todo # <<>>
         /\ t = PnP => PnpLeft
         /\ t # PnP => t \in Busy /\ HandleLeft(t)
         /\ \E m \in Lists : Marks(irp[t].todo, m)
<1>1. t = PnP \/ (t \in Busy /\ t # PnP)
  BY PnPAssumption DEF Running, Threads, Busy
<1>2. t = PnP => PnpLeft
  BY DEF InOrder
<1>3. t # PnP => t \in Busy /\ HandleLeft(t)
  BY <1>1 DEF InOrder
<1>4. {<<"return">>, <<"still", "return">>} \subseteq Lists
  BY DEF Lists
<1>5. \E m \in Lists : Marks(irp[t].todo, m)
  BY <1>2, <1>3, <1>4 DEF PnpLeft, HandleLeft
<1>6. irp[t].todo # <<>>
  BY <1>5, ListsLemma, MarksBasics
<1>7. QED
  BY <1>2, <1>3, <1>5, <1>6

\* An access that is not marked changes nothing that matters.
LEMMA QuietStep ==
  ASSUME IInv, NEW t \in Running, NEW r, NEW x, {"op", "todo"} \subseteq DOMAIN r,
         r.op = irp[t].op, irp' = [irp EXCEPT ![t] = [r EXCEPT !.todo = x]],
         \A m \in Lists : Marks(irp[t].todo, m) => Marks(x, m),
         {"Playing", "Configured", "WriteBuffer"} \subseteq DOMAIN ext',
         pool' = pool, ext'.WriteBuffer = ext.WriteBuffer, ext'.Configured = ext.Configured,
         ext'.Playing = ext.Playing, fault' = fault, raced' = raced
  PROVE  IInv'
<1>1. t \in Threads /\ Shape
  BY DEF Running, IInv
<1>2. /\ DOMAIN irp' = Threads /\ \A u \in Threads : {"op", "todo"} \subseteq DOMAIN irp'[u]
      /\ irp'[t].todo = x /\ \A u \in Threads \ {t} : irp'[u] = irp[u]
      /\ Running' = Running /\ Busy' = Busy
  BY <1>1, GoOn
<1>3. Shape'
  BY <1>2 DEF Shape
<1>4. ~raced' => InOrder'
  <2>1. CASE t = PnP
    <3>1. \A h \in Busy : irp'[h].todo = irp[h].todo
      BY <1>2, <2>1, PnPAssumption DEF Busy, Running
    <3>2. ~raced /\ PnP \in Running' => PnpLeft'
      <4>1. SUFFICES ASSUME ~raced
                     PROVE  PnpLeft'
        OBVIOUS
      <4>2. PICK m \in {<<"return">>, <<"still", "return">>} : Marks(irp[t].todo, m)
        BY <2>1, <4>1, LeftLemma DEF IInv, PnpLeft
      <4>3. m \in Lists
        BY DEF Lists
      <4>4. Marks(irp'[PnP].todo, m)
        BY <1>2, <2>1, <4>2, <4>3
      <4>5. QED
        BY <4>4 DEF PnpLeft
    <3>3. QED
      BY <1>2, <3>1, <3>2, PnpStep DEF IInv
  <2>2. CASE t # PnP
    <3>1. t \in Busy /\ irp'[PnP].todo = irp[PnP].todo
      BY <1>1, <1>2, <2>2 DEF Busy, Threads
    <3>2. \A m : Condition(m) => Condition(m)'
      BY DEF Condition, Owned
    <3>3. ASSUME ~raced
          PROVE  /\ ~fault' /\ (ext'.Playing => ext'.Configured)
                 /\ \E m \in Lists : Marks(irp'[t].todo, m) /\ Condition(m)'
      <4>1. PICK m \in Lists : Marks(irp[t].todo, m) /\ Condition(m)
        BY <2>2, <3>3, LeftLemma DEF IInv, HandleLeft
      <4>2. Marks(irp'[t].todo, m) /\ Condition(m)'
        BY <1>2, <3>2, <4>1
      <4>3. ~fault' /\ (ext'.Playing => ext'.Configured)
        BY <3>3 DEF IInv, InOrder
      <4>4. QED
        BY <4>2, <4>3
    <3>4. QED
      BY <1>2, <3>1, <3>3, HandleStep DEF IInv
  <2>3. QED
    BY <2>1, <2>2
<1>5. QED
  BY <1>3, <1>4 DEF IInv

LEMMA QuietTail ==
  ASSUME NEW s, Mark(s[1]) = "quiet", NEW m \in Lists, Marks(s, m)
  PROVE  Marks(Tail(s), m)
BY ListsLemma, MarksBasics, MarksQuiet

\* A record of a thread, some of its other fields changed.
LEMMA OtherFields ==
  ASSUME Shape, NEW t \in Threads, NEW v, NEW w
  PROVE  /\ \A r \in {irp[t], [irp[t] EXCEPT !.port = v], [irp[t] EXCEPT !.value = v],
                      [irp[t] EXCEPT !.fed = v], [[irp[t] EXCEPT !.port = v] EXCEPT !.value = w]} :
              {"op", "todo"} \subseteq DOMAIN r /\ r.op = irp[t].op
BY DEF Shape

LEMMA PortSteps ==
  ASSUME IInv, NEW t \in Threads, AccessPort(t), UNCHANGED <<raced, fault>>
  PROVE  IInv'
<1>1. ASSUME NEW r, {"op", "todo"} \subseteq DOMAIN r, r.op = irp[t].op, Advance(t, r),
             irp[t].op # "none", Access(t)[1] \in {"select", "in", "out", "out back", "poll", "probe"},
             UNCHANGED pool, {"Playing", "Configured", "WriteBuffer"} \subseteq DOMAIN ext',
             ext'.WriteBuffer = ext.WriteBuffer, ext'.Configured = ext.Configured,
             ext'.Playing = ext.Playing
      PROVE  IInv'
  <2>1. t \in Running
    BY <1>1 DEF Running
  <2>2. Mark(irp[t].todo[1]) = "quiet"
    BY <1>1 DEF Access, Mark
  <2>3. \A m \in Lists : Marks(irp[t].todo, m) => Marks(Tail(irp[t].todo), m)
    BY <2>2, QuietTail
  <2>4. QED
    BY <1>1, <2>1, <2>3, QuietStep DEF Advance
<1>2. {"Playing", "Configured", "WriteBuffer"} \subseteq DOMAIN ext /\ Shape
  BY DEF IInv, Shape
<1>3. CASE SelectRegister(t)
  BY <1>1, <1>2, <1>3, OtherFields DEF SelectRegister, At
<1>4. CASE ReadValue(t)
  <2>1. PICK w : Advance(t, [[irp[t] EXCEPT !.port = 0] EXCEPT !.value = w])
    BY <1>4 DEF ReadValue, Returned
  <2>2. At(t, "in") /\ UNCHANGED <<ext, pool>>
    BY <1>4 DEF ReadValue
  <2>3. QED
    BY <1>1, <1>2, <2>1, <2>2, OtherFields DEF At
<1>5. CASE WriteValue(t)
  <2>1. Advance(t, [[irp[t] EXCEPT !.port = 0] EXCEPT !.value = 0])
    BY <1>5 DEF WriteValue, Returned
  <2>2. (At(t, "out") \/ At(t, "out back")) /\ UNCHANGED <<ext, pool>>
    BY <1>5 DEF WriteValue
  <2>3. QED
    BY <1>1, <1>2, <2>1, <2>2, OtherFields DEF At
<1>6. CASE PollReady(t)
  <2>1. At(t, "poll") /\ UNCHANGED <<ext, pool>>
    BY <1>6 DEF PollReady
  <2>2. CASE Advance(t, Returned(t))
    BY <1>1, <1>2, <2>1, <2>2, OtherFields DEF At, Returned
  <2>3. CASE irp' = [irp EXCEPT ![t].todo = << <<"select", "power">> >> \o @]
    <3>1. PICK x : x = << <<"select", "power">> >> \o irp[t].todo
      OBVIOUS
    <3>2. irp' = [irp EXCEPT ![t] = [irp[t] EXCEPT !.todo = x]]
      BY <2>3, <3>1
    <3>3. Mark(<<"select", "power">>) = "quiet"
      BY DEF Mark
    <3>4. PICK q : q = << <<"select", "power">> >>
      OBVIOUS
    <3>5. Marks(q, <<>>)
      BY <3>3, <3>4, MarksOne
    <3>6. \A m \in Lists : Marks(irp[t].todo, m) => Marks(x, m)
      BY <3>1, <3>4, <3>5, QuietBefore
    <3>7. t \in Running
      BY <2>1 DEF At, Running
    <3>8. {"op", "todo"} \subseteq DOMAIN irp[t]
      BY <1>2 DEF Shape
    <3>9. QED
      BY <1>2, <2>1, <3>2, <3>6, <3>7, <3>8, QuietStep
  <2>4. QED
    BY <1>6, <2>2, <2>3 DEF PollReady
<1>7. CASE Probe(t)
  <2>1. At(t, "probe") /\ Advance(t, [irp[t] EXCEPT !.port = 0]) /\ UNCHANGED pool
    BY <1>7 DEF Probe, Returned
  <2>2. ext' = ext \/ ext' = [ext EXCEPT !.IoBase = 0]
    BY <1>7 DEF Probe
  <2>3. /\ {"Playing", "Configured", "WriteBuffer"} \subseteq DOMAIN ext'
        /\ ext'.WriteBuffer = ext.WriteBuffer /\ ext'.Configured = ext.Configured
        /\ ext'.Playing = ext.Playing
    BY <1>2, <2>2
  <2>4. QED
    BY <1>1, <1>2, <2>1, <2>3, OtherFields DEF At
<1>8. QED
  BY <1>3, <1>4, <1>5, <1>6, <1>7 DEF AccessPort

\* A marked access: the marks tell where in its routine the thread is.
LEMMA MadeLemma ==
  ASSUME InOrder, NEW t \in Running, Mark(irp[t].todo[1]) # "quiet"
  PROVE  \E m \in Lists : /\ m[1] = Mark(irp[t].todo[1]) /\ m[1] \in Kinds
                          /\ Marks(Tail(irp[t].todo), Tail(m))
                          /\ t # PnP => t \in Busy /\ Condition(m)
                          /\ t = PnP => m \in {<<"return">>, <<"still", "return">>}
<1>1. PICK m \in Lists : /\ Marks(irp[t].todo, m)
                         /\ t # PnP => t \in Busy /\ Condition(m)
                         /\ t = PnP => m \in {<<"return">>, <<"still", "return">>}
  <2>1. CASE t = PnP
    <3>1. {<<"return">>, <<"still", "return">>} \subseteq Lists
      BY DEF Lists
    <3>2. QED
      BY <2>1, <3>1, LeftLemma DEF PnpLeft
  <2>2. CASE t # PnP
    BY <2>2, LeftLemma DEF HandleLeft
  <2>3. QED
    BY <2>1, <2>2
<1>2. irp[t].todo # <<>>
  BY LeftLemma
<1>3. m # <<>> /\ m[1] = Mark(irp[t].todo[1]) /\ Marks(Tail(irp[t].todo), Tail(m))
  BY <1>1, <1>2, MarksMade
<1>4. m[1] \in Kinds
  <2>1. m \in Seq(Kinds) /\ Len(m) \in Nat /\ Len(m) # 0
    BY <1>1, <1>3, MarksBasics, EmptySeq
  <2>2. 1 \in 1..Len(m)
    BY <2>1
  <2>3. QED
    BY <1>1, <2>2, MarksBasics
<1>5. QED
  BY <1>1, <1>3, <1>4

LEMMA AdvanceLemma ==
  ASSUME Shape, NEW t \in Running, NEW r, {"op", "todo"} \subseteq DOMAIN r, r.op = irp[t].op,
         Advance(t, r)
  PROVE  /\ DOMAIN irp' = Threads /\ \A u \in Threads : {"op", "todo"} \subseteq DOMAIN irp'[u]
         /\ irp'[t].todo = Tail(irp[t].todo) /\ \A u \in Threads \ {t} : irp'[u] = irp[u]
         /\ Running' = Running /\ Busy' = Busy
BY GoOn DEF Advance, Running

LEMMA StoreFieldStep ==
  ASSUME IInv, NEW t \in Threads, StoreField(t), UNCHANGED <<raced, fault>>
  PROVE  IInv'
<1>1. PICK a : a = irp[t].todo[1]
  OBVIOUS
<1>2. /\ a[1] = "store" /\ ext' = [ext EXCEPT ![a[2]] = a[3]] /\ pool' = pool
      /\ t \in Running /\ Advance(t, irp[t])
  BY <1>1 DEF StoreField, At, Access, Running
<1>3. Shape /\ {"op", "todo"} \subseteq DOMAIN irp[t]
  BY DEF IInv, Shape
<1>4. DOMAIN ext' = DOMAIN ext /\ {"Playing", "Configured", "WriteBuffer"} \subseteq DOMAIN ext
  BY <1>2, <1>3 DEF Shape
<1>5. /\ DOMAIN irp' = Threads /\ \A u \in Threads : {"op", "todo"} \subseteq DOMAIN irp'[u]
      /\ irp'[t].todo = Tail(irp[t].todo) /\ \A u \in Threads \ {t} : irp'[u] = irp[u]
      /\ Running' = Running /\ Busy' = Busy
  BY <1>2, <1>3, AdvanceLemma
<1>6. Shape'
  BY <1>4, <1>5 DEF Shape
<1>7. CASE Mark(a) = "quiet"
  <2>1. a[2] \notin {"Playing", "Configured", "WriteBuffer"}
    BY <1>2, <1>7 DEF Mark
  <2>2. /\ ext'.WriteBuffer = ext.WriteBuffer /\ ext'.Configured = ext.Configured
        /\ ext'.Playing = ext.Playing
    BY <1>2, <1>4, <2>1
  <2>3. \A m \in Lists : Marks(irp[t].todo, m) => Marks(Tail(irp[t].todo), m)
    BY <1>1, <1>7, QuietTail
  <2>4. QED
    BY <1>2, <1>3, <1>4, <2>2, <2>3, QuietStep DEF Advance
<1>8. CASE Mark(a) # "quiet" /\ raced
  BY <1>6, <1>8 DEF IInv
<1>9. CASE Mark(a) # "quiet" /\ ~raced
  <2>1. PICK m \in Lists : /\ m[1] = Mark(a) /\ m[1] \in Kinds
                           /\ Marks(irp'[t].todo, Tail(m))
                           /\ t # PnP => t \in Busy /\ Condition(m)
                           /\ t = PnP => m \in {<<"return">>, <<"still", "return">>}
    BY <1>1, <1>2, <1>5, <1>9, MadeLemma DEF IInv
  <2>2. m[1] \in {"still", "play", "set", "clear", "null"}
    BY <1>2, <2>1 DEF Mark, Kinds
  <2>3. /\ m[1] = "still" => ext' = [ext EXCEPT !.Playing = FALSE]
        /\ m[1] = "play" => ext' = [ext EXCEPT !.Playing = TRUE]
        /\ m[1] = "set" => ext' = [ext EXCEPT !.Configured = TRUE]
        /\ m[1] = "clear" => ext' = [ext EXCEPT !.Configured = FALSE]
        /\ m[1] = "null" => ext' = [ext EXCEPT !.WriteBuffer = Null]
    BY <1>2, <1>9, <2>1 DEF Mark, Kinds
  <2>4. ~fault /\ (ext.Playing => ext.Configured)
    BY <1>9 DEF IInv, InOrder
  <2>5. CASE t = PnP
    <3>1. m = <<"still", "return">>
      <4>1. <<"return">>[1] = "return"
        OBVIOUS
      <4>2. QED
        BY <2>1, <2>2, <2>5, <4>1
    <3>2. m[1] = "still" /\ Tail(m) = <<"return">>
      BY <3>1
    <3>3. /\ ext'.WriteBuffer = ext.WriteBuffer /\ ext'.Configured = ext.Configured
          /\ ext'.Playing = FALSE
      BY <1>4, <2>3, <3>2
    <3>4. PnpLeft'
      BY <2>1, <2>5, <3>2 DEF PnpLeft
    <3>5. \A h \in Busy : irp'[h].todo = irp[h].todo
      BY <1>5, <2>5, PnPAssumption DEF Busy, Running
    <3>6. QED
      BY <1>2, <1>5, <1>6, <3>3, <3>4, <3>5, PnpStep DEF IInv
  <2>6. CASE t # PnP
    <3>1. Condition(m) /\ t \in Busy /\ irp'[PnP].todo = irp[PnP].todo
      BY <1>5, <2>1, <2>6 DEF Threads
    <3>2. CASE m[1] = "still"
      <4>1. Owned' /\ ext'.Playing = FALSE /\ ext'.Configured = ext.Configured
        BY <1>2, <1>4, <2>3, <3>1, <3>2 DEF Condition, Owned
      <4>2. PICK n \in {<<"return">>, <<"clear", "return">>,
                        <<"free", "null", "clear", "return">>,
                        <<"free", "allocate", "set", "play", "return">>} : n = Tail(m)
        BY <3>2, ListsLemma
      <4>3. n \in Lists
        BY <4>2 DEF Lists
      <4>4. Condition(n)'
        BY <4>1, <4>2, ConditionPrimed
      <4>5. QED
        BY <1>5, <1>6, <2>1, <2>4, <3>1, <4>1, <4>2, <4>3, <4>4, HandleStep DEF IInv
    <3>3. CASE m[1] = "play"
      <4>1. m = <<"play", "return">> /\ Tail(m) = <<"return">>
        BY <3>3, ListsLemma
      <4>2. Owned' /\ ext'.Configured
        BY <1>2, <1>4, <2>3, <3>1, <3>3, <4>1 DEF Condition, Owned
      <4>3. Condition(<<"return">>)' /\ <<"return">> \in Lists
        BY <4>2, ConditionPrimed DEF Lists
      <4>4. QED
        BY <1>5, <1>6, <2>1, <2>4, <3>1, <4>1, <4>2, <4>3, HandleStep DEF IInv
    <3>4. CASE m[1] = "set"
      <4>1. Owned' /\ ext'.Configured = TRUE
        BY <1>2, <1>4, <2>3, <3>1, <3>4 DEF Condition, Owned
      <4>2. Tail(m) = <<"play", "return">> /\ <<"play", "return">> \in Lists
        BY <3>4, ListsLemma DEF Lists
      <4>3. Condition(<<"play", "return">>)'
        BY <4>1, ConditionPrimed
      <4>4. QED
        BY <1>5, <1>6, <2>1, <2>4, <3>1, <4>1, <4>2, <4>3, HandleStep DEF IInv
    <3>5. CASE m[1] = "clear"
      <4>1. m \in Stopped /\ Tail(m) = <<"return">> /\ <<"return">> \in Lists
        BY <3>5, ListsLemma DEF Lists
      <4>2. Owned' /\ ~ext'.Playing
        BY <1>2, <1>4, <2>3, <3>1, <3>5, <4>1 DEF Condition, Owned
      <4>3. Condition(<<"return">>)'
        BY <4>2, ConditionPrimed
      <4>4. QED
        BY <1>5, <1>6, <2>1, <2>4, <3>1, <4>1, <4>2, <4>3, HandleStep DEF IInv
    <3>6. CASE m[1] = "null"
      <4>1. m \in Stopped /\ Tail(m) = <<"clear", "return">> /\ <<"clear", "return">> \in Lists
        BY <3>6, ListsLemma DEF Lists
      <4>2. pool = {} /\ ~ext.Playing
        BY <3>1, <3>6, <4>1 DEF Condition
      <4>3. ext'.WriteBuffer = Null /\ ext'.Playing = ext.Playing
        BY <1>4, <2>3, <3>6
      <4>4. Owned' /\ ~ext'.Playing
        BY <1>2, <4>2, <4>3 DEF Owned
      <4>5. Condition(<<"clear", "return">>)'
        BY <4>4, ConditionPrimed
      <4>6. QED
        BY <1>5, <1>6, <2>1, <2>4, <3>1, <4>1, <4>4, <4>5, HandleStep DEF IInv
    <3>7. QED
      BY <2>2, <3>2, <3>3, <3>4, <3>5, <3>6
  <2>7. QED
    BY <2>5, <2>6
<1>10. QED
  BY <1>7, <1>8, <1>9

LEMMA AllocateStep ==
  ASSUME IInv, NEW t \in Threads, Allocate(t), UNCHANGED <<raced, fault>>
  PROVE  IInv'
<1>1. /\ t \in Running /\ Mark(irp[t].todo[1]) = "allocate"
      /\ Shape /\ {"op", "todo"} \subseteq DOMAIN irp[t]
      /\ {"Playing", "Configured", "WriteBuffer"} \subseteq DOMAIN ext
  BY DEF IInv, Shape, Allocate, At, Access, Running, Mark
<1>2. ~raced => \E m \in Lists : /\ m[1] = "allocate" /\ t \in Busy /\ Condition(m)
                                 /\ Marks(Tail(irp[t].todo), <<"set", "play", "return">>)
  <2>1. SUFFICES ASSUME ~raced
                 PROVE  \E m \in Lists :
                          /\ m[1] = "allocate" /\ t \in Busy /\ Condition(m)
                          /\ Marks(Tail(irp[t].todo), <<"set", "play", "return">>)
    OBVIOUS
  <2>2. PICK m \in Lists : /\ m[1] = "allocate" /\ Marks(Tail(irp[t].todo), Tail(m))
                           /\ t # PnP => t \in Busy /\ Condition(m)
                           /\ t = PnP => m \in {<<"return">>, <<"still", "return">>}
    BY <1>1, <2>1, MadeLemma DEF IInv
  <2>3. <<"return">>[1] = "return" /\ <<"still", "return">>[1] = "still"
    OBVIOUS
  <2>4. t # PnP
    BY <2>2, <2>3
  <2>5. Tail(m) = <<"set", "play", "return">>
    BY <2>2, ListsLemma
  <2>6. QED
    BY <2>2, <2>4, <2>5
<1>3. PICK r, x, b : /\ irp' = [irp EXCEPT ![t] = [r EXCEPT !.todo = x]] /\ r = irp[t]
                     /\ ext' = [ext EXCEPT !.WriteBuffer = b]
                     /\ \/ x = Tail(irp[t].todo) /\ b \in Blocks /\ pool' = pool \cup {b}
                        \/ /\ x = Store("WriteBufferSize", 0) \o Return("INSUFFICIENT_RESOURCES")
                           /\ b = Null /\ pool' = pool
  BY DEF Allocate, Advance
<1>4. /\ DOMAIN irp' = Threads /\ \A u \in Threads : {"op", "todo"} \subseteq DOMAIN irp'[u]
      /\ irp'[t].todo = x /\ \A u \in Threads \ {t} : irp'[u] = irp[u]
      /\ Running' = Running /\ Busy' = Busy
  BY <1>1, <1>3, GoOn
<1>5. Shape' /\ ext'.WriteBuffer = b /\ ext'.Playing = ext.Playing /\ ext'.Configured = ext.Configured
  BY <1>1, <1>3, <1>4 DEF Shape
<1>6. CASE raced
  BY <1>5, <1>6 DEF IInv
<1>7. CASE ~raced
  <2>1. PICK m \in Lists : /\ m[1] = "allocate" /\ t \in Busy /\ Condition(m)
                           /\ Marks(Tail(irp[t].todo), <<"set", "play", "return">>)
    BY <1>2, <1>7
  <2>2. t # PnP /\ irp'[PnP].todo = irp[PnP].todo
    BY <1>4, <2>1, PnPAssumption DEF Busy, Threads
  <2>3. pool = {}
    BY <2>1 DEF Condition
  <2>4. Owned'
    BY <1>3, <1>5, <2>3, NullAssumption DEF Owned
  <2>5. ~fault' /\ (ext'.Playing => ext'.Configured)
    BY <1>5, <1>7 DEF IInv, InOrder
  <2>6. \E n \in Lists : Marks(irp'[t].todo, n) /\ Condition(n)'
    <3>1. CASE x = Tail(irp[t].todo)
      <4>1. <<"set", "play", "return">> \in Lists /\ Condition(<<"set", "play", "return">>)'
        BY <2>4, ConditionPrimed DEF Lists
      <4>2. QED
        BY <1>4, <2>1, <3>1, <4>1
    <3>2. CASE x = Store("WriteBufferSize", 0) \o Return("INSUFFICIENT_RESOURCES")
      <4>1. PICK c, d : c = Store("WriteBufferSize", 0) /\ d = Return("INSUFFICIENT_RESOURCES")
        OBVIOUS
      <4>2. Marks(c, <<>>) /\ Marks(d, <<"return">>)
        BY <4>1, StoreMarks
      <4>3. Marks(x, <<"return">>)
        BY <3>2, <4>1, <4>2, QuietBefore
      <4>4. <<"return">> \in Lists /\ Condition(<<"return">>)'
        BY <2>4, ConditionPrimed DEF Lists
      <4>5. QED
        BY <1>4, <4>3, <4>4
    <3>3. QED
      BY <1>3, <3>1, <3>2
  <2>7. QED
    BY <1>4, <1>5, <2>1, <2>2, <2>5, <2>6, HandleStep DEF IInv
<1>8. QED
  BY <1>6, <1>7

LEMMA CheckStateStep ==
  ASSUME IInv, NEW t \in Threads, CheckState(t), UNCHANGED <<raced, fault>>
  PROVE  IInv'
<1>1. /\ t \in Running /\ Mark(irp[t].todo[1]) = "check"
      /\ Shape /\ {"op", "todo"} \subseteq DOMAIN irp[t] /\ ext' = ext /\ pool' = pool
  BY DEF IInv, Shape, CheckState, At, Access, Running, Mark
<1>2. PICK r, x : /\ irp' = [irp EXCEPT ![t] = [r EXCEPT !.todo = x]] /\ r = irp[t]
                  /\ x = Tail(irp[t].todo) \/ x = Return("INVALID_DEVICE_STATE")
  BY DEF CheckState, Advance
<1>3. /\ DOMAIN irp' = Threads /\ \A u \in Threads : {"op", "todo"} \subseteq DOMAIN irp'[u]
      /\ irp'[t].todo = x /\ \A u \in Threads \ {t} : irp'[u] = irp[u]
      /\ Running' = Running /\ Busy' = Busy
  BY <1>1, <1>2, GoOn
<1>4. Shape'
  BY <1>1, <1>3 DEF Shape
<1>5. CASE raced
  BY <1>4, <1>5 DEF IInv
<1>6. CASE ~raced
  <2>1. PICK m \in Lists : /\ m[1] = "check" /\ Marks(Tail(irp[t].todo), Tail(m))
                           /\ t # PnP => t \in Busy /\ Condition(m)
                           /\ t = PnP => m \in {<<"return">>, <<"still", "return">>}
    BY <1>1, <1>6, MadeLemma DEF IInv
  <2>2. <<"return">>[1] = "return" /\ <<"still", "return">>[1] = "still"
    OBVIOUS
  <2>3. t # PnP /\ t \in Busy /\ Condition(m) /\ Tail(m) = <<"return">>
    BY <2>1, <2>2, ListsLemma
  <2>4. Owned
    BY <2>1, <2>3 DEF Condition
  <2>5. <<"return">> \in Lists /\ Condition(<<"return">>)'
    BY <1>1, <2>4, ConditionPrimed DEF Lists, Owned
  <2>6. Marks(irp'[t].todo, <<"return">>)
    BY <1>2, <1>3, <2>1, <2>3, StoreMarks, ZenonT(60)
  <2>7. ~fault' /\ (ext'.Playing => ext'.Configured) /\ irp'[PnP].todo = irp[PnP].todo
    BY <1>1, <1>3, <1>6, <2>3 DEF IInv, InOrder, Threads
  <2>8. QED
    BY <1>3, <1>4, <2>3, <2>5, <2>6, <2>7, HandleStep DEF IInv
<1>7. QED
  BY <1>5, <1>6

LEMMA FreeBufferStep ==
  ASSUME IInv, NEW t \in Threads, FreeBuffer(t), UNCHANGED raced
  PROVE  IInv'
<1>1. /\ t \in Running /\ Mark(irp[t].todo[1]) = "free"
      /\ Shape /\ {"op", "todo"} \subseteq DOMAIN irp[t]
      /\ ext' = ext /\ pool' = pool \ {ext.WriteBuffer} /\ Advance(t, irp[t])
      /\ fault' = (fault \/ ext.WriteBuffer \notin pool \cup {Null})
  BY DEF IInv, Shape, FreeBuffer, At, Access, Running, Mark
<1>2. /\ DOMAIN irp' = Threads /\ \A u \in Threads : {"op", "todo"} \subseteq DOMAIN irp'[u]
      /\ irp'[t].todo = Tail(irp[t].todo) /\ \A u \in Threads \ {t} : irp'[u] = irp[u]
      /\ Running' = Running /\ Busy' = Busy
  BY <1>1, AdvanceLemma
<1>3. Shape'
  BY <1>1, <1>2 DEF Shape
<1>4. CASE raced
  BY <1>3, <1>4 DEF IInv
<1>5. CASE ~raced
  <2>1. PICK m \in Lists : /\ m[1] = "free" /\ Marks(Tail(irp[t].todo), Tail(m))
                           /\ t # PnP => t \in Busy /\ Condition(m)
                           /\ t = PnP => m \in {<<"return">>, <<"still", "return">>}
    BY <1>1, <1>5, MadeLemma DEF IInv
  <2>2. <<"return">>[1] = "return" /\ <<"still", "return">>[1] = "still"
    OBVIOUS
  <2>3. t # PnP /\ t \in Busy /\ Condition(m)
    BY <2>1, <2>2
  <2>4. Owned
    BY <2>1, <2>3 DEF Condition
  <2>5. pool' = {}
    BY <1>1, <2>4 DEF Owned
  <2>6. ext.WriteBuffer \in pool \cup {Null}
    BY <2>4 DEF Owned
  <2>7. ~fault' /\ (ext'.Playing => ext'.Configured) /\ irp'[PnP].todo = irp[PnP].todo
    BY <1>1, <1>2, <1>5, <2>3, <2>6 DEF IInv, InOrder, Threads
  <2>8. \E n \in Lists : Marks(irp'[t].todo, n) /\ Condition(n)'
    <3>1. CASE m \in Stopped /\ Tail(m) = <<"null", "clear", "return">>
      <4>1. ~ext'.Playing
        BY <1>1, <2>3, <3>1 DEF Condition
      <4>2. Condition(<<"null", "clear", "return">>)' /\ <<"null", "clear", "return">> \in Lists
        BY <2>5, <4>1, ConditionPrimed DEF Lists
      <4>3. QED
        BY <1>2, <2>1, <3>1, <4>2
    <3>2. CASE Tail(m) = <<"allocate", "set", "play", "return">>
      <4>1. /\ Condition(<<"allocate", "set", "play", "return">>)'
            /\ <<"allocate", "set", "play", "return">> \in Lists
        BY <2>5, ConditionPrimed DEF Lists
      <4>2. QED
        BY <1>2, <2>1, <3>2, <4>1
    <3>3. QED
      BY <2>1, <3>1, <3>2, ListsLemma
  <2>9. QED
    BY <1>2, <1>3, <2>3, <2>7, <2>8, HandleStep DEF IInv
<1>6. QED
  BY <1>4, <1>5

LEMMA ExtensionSteps ==
  ASSUME IInv, NEW t \in Threads, AccessExtension(t), UNCHANGED <<raced, fault>>
  PROVE  IInv'
<1>1. /\ Shape /\ {"op", "todo"} \subseteq DOMAIN irp[t]
      /\ {"Playing", "Configured", "WriteBuffer"} \subseteq DOMAIN ext
  BY DEF IInv, Shape
<1>2. ASSUME NEW r, {"op", "todo"} \subseteq DOMAIN r, r.op = irp[t].op, Advance(t, r),
             t \in Running, irp[t].todo[1][1] \in {"load", "feed"}, UNCHANGED <<ext, pool>>
      PROVE  IInv'
  <2>1. Mark(irp[t].todo[1]) = "quiet"
    BY <1>2 DEF Mark
  <2>2. \A m \in Lists : Marks(irp[t].todo, m) => Marks(Tail(irp[t].todo), m)
    BY <2>1, QuietTail
  <2>3. QED
    BY <1>1, <1>2, <2>2, QuietStep DEF Advance
<1>3. CASE StoreField(t)
  BY <1>3, StoreFieldStep
<1>4. CASE LoadRate(t)
  <2>1. PICK w : Advance(t, [irp[t] EXCEPT !.value = w])
    BY <1>4 DEF LoadRate
  <2>2. t \in Running /\ irp[t].todo[1][1] = "load" /\ UNCHANGED <<ext, pool>>
    BY <1>4 DEF LoadRate, At, Access, Running
  <2>3. QED
    BY <1>1, <1>2, <2>1, <2>2, OtherFields
<1>5. CASE Allocate(t)
  BY <1>5, AllocateStep
<1>6. CASE CheckState(t)
  BY <1>6, CheckStateStep
<1>7. CASE Ac97FeedSamples(t)
  <2>1. PICK w : Advance(t, [irp[t] EXCEPT !.fed = w])
    BY <1>7 DEF Ac97FeedSamples
  <2>2. t \in Running /\ irp[t].todo[1][1] = "feed" /\ UNCHANGED <<ext, pool>>
    BY <1>7 DEF Ac97FeedSamples, At, Access, Running
  <2>3. QED
    BY <1>1, <1>2, <2>1, <2>2, OtherFields
<1>8. QED
  BY <1>3, <1>4, <1>5, <1>6, <1>7 DEF AccessExtension

LEMMA CompleteStep ==
  ASSUME IInv, NEW t \in Threads, Complete(t)
  PROVE  IInv'
<1>1. /\ t \in Running /\ Mark(irp[t].todo[1]) = "return" /\ Shape
      /\ ext' = ext /\ pool' = pool /\ raced' = raced /\ fault' = fault
      /\ irp' = [irp EXCEPT ![t] = Idle]
  BY DEF IInv, Complete, At, Access, Running, Mark
<1>2. {"op", "todo"} \subseteq DOMAIN Idle /\ Idle.op = "none"
  BY DEF Idle
<1>3. /\ DOMAIN irp' = Threads /\ irp'[t] = Idle /\ \A u \in Threads \ {t} : irp'[u] = irp[u]
  BY <1>1 DEF Shape
<1>4. Shape'
  BY <1>1, <1>2, <1>3 DEF Shape
<1>5. Running' = Running \ {t}
  BY <1>2, <1>3 DEF Running
<1>6. CASE raced
  BY <1>1, <1>4, <1>6 DEF IInv
<1>7. CASE ~raced /\ t = PnP
  <2>1. Busy' = Busy
    BY <1>5, <1>7, PnPAssumption DEF Busy
  <2>2. \A h \in Busy : irp'[h].todo = irp[h].todo
    BY <1>3, <1>7, PnPAssumption DEF Busy, Running
  <2>3. PnP \notin Running'
    BY <1>5, <1>7
  <2>4. QED
    BY <1>1, <1>4, <2>1, <2>2, <2>3, PnpStep DEF IInv
<1>8. CASE ~raced /\ t # PnP
  <2>1. PICK m \in Lists : m[1] = "return" /\ t \in Busy /\ Condition(m)
    BY <1>1, <1>8, MadeLemma DEF IInv
  <2>2. Owned'
    BY <1>1, <2>1 DEF Condition, Owned
  <2>3. Busy' = {}
    BY <1>5, <1>8, <2>1 DEF IInv, InOrder, Busy
  <2>4. PnP \in Running' => PnpLeft'
    BY <1>3, <1>5, <1>8 DEF IInv, InOrder, PnpLeft, Running
  <2>5. InOrder'
    BY <1>1, <1>8, <2>2, <2>3, <2>4 DEF IInv, InOrder
  <2>6. QED
    BY <1>4, <2>5 DEF IInv
<1>9. QED
  BY <1>6, <1>7, <1>8

LEMMA DispatchStep ==
  ASSUME IInv, NEW t \in Threads, NEW op, NEW size, NEW todo, op # "none",
         Dispatch(t, op, size, todo),
         t \in Handles =>
           \E m \in {<<"still", "clear", "return">>, <<"check", "return">>, <<"still", "return">>,
                     <<"still", "free", "null", "clear", "return">>,
                     <<"still", "free", "allocate", "set", "play", "return">>} : Marks(todo, m),
         t = PnP => \E m \in {<<"return">>, <<"still", "return">>} : Marks(todo, m)
  PROVE  IInv'
<1>1. PICK r : r = [Idle EXCEPT !.op = op, !.size = size, !.todo = todo]
  OBVIOUS
<1>2. {"op", "todo"} \subseteq DOMAIN r /\ r.op = op /\ r.todo = todo
  BY <1>1 DEF Idle
<1>3. /\ irp[t].op = "none" /\ irp' = [irp EXCEPT ![t] = r] /\ Shape
      /\ raced' = (raced \/ (t \in Handles /\ Running \cap Handles # {}))
      /\ ext' = ext /\ pool' = pool /\ fault' = fault
  BY <1>1 DEF Dispatch, IInv
<1>4. DOMAIN irp' = Threads /\ irp'[t] = r /\ \A u \in Threads \ {t} : irp'[u] = irp[u]
  BY <1>3 DEF Shape
<1>5. Shape'
  BY <1>2, <1>3, <1>4 DEF Shape
<1>6. Running' = Running \cup {t} /\ t \notin Running
  BY <1>2, <1>3, <1>4 DEF Running
<1>7. SUFFICES ASSUME ~raced'
               PROVE  InOrder'
  BY <1>5 DEF IInv
<1>8. ~raced /\ InOrder
  BY <1>3, <1>7 DEF IInv
<1>9. CASE t = PnP
  <2>1. Busy' = Busy /\ \A h \in Busy : irp'[h].todo = irp[h].todo
    BY <1>4, <1>6, <1>9, PnPAssumption DEF Busy, Running
  <2>2. PnpLeft'
    BY <1>2, <1>4, <1>9 DEF PnpLeft
  <2>3. raced => raced'
    BY <1>3
  <2>4. QED
    BY <1>3, <1>7, <1>8, <2>1, <2>2, <2>3, PnpStep
<1>10. CASE t # PnP
  <2>1. t \in Handles /\ Busy = {}
    BY <1>3, <1>7, <1>10 DEF Threads, Busy
  <2>2. Busy' = {t}
    BY <1>6, <2>1 DEF Busy
  <2>3. Owned'
    BY <1>3, <1>8, <2>1 DEF InOrder, Owned
  <2>4. PICK m \in {<<"still", "clear", "return">>, <<"check", "return">>, <<"still", "return">>,
                    <<"still", "free", "null", "clear", "return">>,
                    <<"still", "free", "allocate", "set", "play", "return">>} : Marks(todo, m)
    BY <2>1
  <2>5. m \in Lists /\ Condition(m)'
    BY <2>3, <2>4, ConditionPrimed DEF Lists
  <2>6. HandleLeft(t)'
    BY <1>2, <1>4, <2>4, <2>5 DEF HandleLeft
  <2>7. PnP \in Running' => PnpLeft'
    BY <1>4, <1>6, <1>8, <1>10 DEF InOrder, PnpLeft, Running
  <2>8. QED
    BY <1>3, <1>8, <2>2, <2>3, <2>6, <2>7 DEF InOrder
<1>11. QED
  BY <1>9, <1>10

LEMMA SendStep ==
  ASSUME IInv, \/ \E h \in Handles : SendIrp(h)
               \/ SendPnp
  PROVE  IInv'
<1>1. ASSUME NEW h \in Handles, SendIrp(h)
      PROVE  IInv'
  <2>1. h \in Threads /\ h # PnP
    BY PnPAssumption DEF Threads
  <2>2. ASSUME NEW op, NEW size, NEW todo, op # "none", Dispatch(h, op, size, todo),
               \E m \in {<<"still", "clear", "return">>, <<"check", "return">>,
                         <<"still", "return">>, <<"still", "free", "null", "clear", "return">>,
                         <<"still", "free", "allocate", "set", "play", "return">>} :
                 Marks(todo, m)
        PROVE  IInv'
    BY <2>1, <2>2, DispatchStep
  <2>3. CASE Dispatch(h, "CREATE", 0, Ac97DispatchCreate)
    BY <2>2, <2>3, CreateMarks
  <2>4. CASE Dispatch(h, "CLOSE", 0, Ac97DispatchClose)
    BY <2>2, <2>4, CloseMarks
  <2>5. ASSUME NEW cfg, Dispatch(h, "CONFIGURE", 0, Ac97ConfigureAndPlay(cfg))
        PROVE  IInv'
    BY <2>2, <2>5, ConfigureMarks
  <2>6. ASSUME NEW size, Dispatch(h, "WRITE", size, Ac97HandleWrite)
        PROVE  IInv'
    BY <2>2, <2>6, IoctlMarks
  <2>7. CASE Dispatch(h, "STOP", 0, StopIoctl)
    BY <2>2, <2>7, IoctlMarks
  <2>8. QED
    BY <1>1, <2>3, <2>4, <2>5, <2>6, <2>7 DEF SendIrp
<1>2. ASSUME SendPnp
      PROVE  IInv'
  <2>1. PnP \in Threads /\ PnP \notin Handles
    BY PnPAssumption DEF Threads
  <2>2. CASE Dispatch(PnP, "PNP", 0, StopDevice)
    BY <2>1, <2>2, PnpMarks, DispatchStep
  <2>3. CASE Dispatch(PnP, "OTHER", 0, StartDevice)
    BY <2>1, <2>3, PnpMarks, DispatchStep
  <2>4. QED
    BY <1>2, <2>2, <2>3 DEF SendPnp
<1>3. QED
  BY <1>1, <1>2

LEMMA InitIInv == Init => IInv
<1>1. SUFFICES ASSUME Init
               PROVE  IInv
  OBVIOUS
<1>2. ext = [Atomic!ZeroedExt EXCEPT !.IoBase = IF chip.present THEN DefaultIoBase ELSE 0,
                                     !.DeviceStarted = TRUE]
  BY <1>1 DEF Init
<1>3. /\ {"Playing", "Configured", "WriteBuffer"} \subseteq DOMAIN ext
      /\ ext.Playing = FALSE /\ ext.WriteBuffer = Null
  BY <1>2 DEF Atomic!ZeroedExt
<1>4. irp = [t \in Threads |-> Idle] /\ pool = {} /\ ~fault
  BY <1>1 DEF Init
<1>5. {"op", "todo"} \subseteq DOMAIN Idle /\ Idle.op = "none"
  BY DEF Idle
<1>6. Shape /\ Running = {}
  BY <1>3, <1>4, <1>5 DEF Shape, Running
<1>7. InOrder
  BY <1>3, <1>4, <1>6 DEF InOrder, Busy, Owned
<1>8. QED
  BY <1>6, <1>7 DEF IInv

LEMMA NextIInv == IInv /\ [Next]_vars => IInv'
<1>1. SUFFICES ASSUME IInv, [Next]_vars
               PROVE  IInv'
  OBVIOUS
<1>2. CASE (\E h \in Handles : SendIrp(h)) \/ SendPnp
  BY <1>1, <1>2, SendStep
<1>3. ASSUME NEW t \in Threads, Step(t)
      PROVE  IInv'
  <2>1. CASE AccessPort(t) /\ UNCHANGED <<raced, fault>>
    BY <1>1, <2>1, PortSteps
  <2>2. CASE AccessExtension(t) /\ UNCHANGED <<raced, fault>>
    BY <1>1, <2>2, ExtensionSteps
  <2>3. CASE FreeBuffer(t) /\ UNCHANGED raced
    BY <1>1, <2>3, FreeBufferStep
  <2>4. CASE Complete(t)
    BY <1>1, <2>4, CompleteStep
  <2>5. QED
    BY <1>3, <2>1, <2>2, <2>3, <2>4 DEF Step
<1>4. CASE UNCHANGED vars
  <2>1. UNCHANGED <<ext, pool, irp, raced, fault>>
    BY <1>4 DEF vars
  <2>2. Shape'
    BY <1>1, <2>1 DEF IInv, Shape
  <2>3. Running' = Running /\ Busy' = Busy
    BY <2>1 DEF Running, Busy
  <2>4. ~raced /\ PnP \in Running' => PnpLeft'
    BY <1>1, <2>1, <2>3 DEF IInv, InOrder, PnpLeft
  <2>5. ~raced' => InOrder'
    BY <1>1, <2>1, <2>3, <2>4, PnpStep DEF IInv
  <2>6. QED
    BY <2>2, <2>5 DEF IInv
<1>5. QED
  BY <1>1, <1>2, <1>3, <1>4 DEF Next

(***************************************************************************)
(* The marks of what a thread has left tell what of the buffer and of the  *)
(* two flags holds meanwhile, at every access of every routine.            *)
(***************************************************************************)
THEOREM IInvHolds == Spec => []IInv
BY InitIInv, NextIInv, PTL DEF Spec

(***************************************************************************)
(* For any handles, requests, blocks and number of IRPs: as long as the    *)
(* IRPs of two handles have not overlapped, no block is freed that is not  *)
(* allocated, and the one block allocated is the one WriteBuffer points    *)
(* to, whatever the PnP manager does between the accesses.                 *)
(***************************************************************************)
THEOREM BufferOwned == Spec => []OneOwner
<1>1. IInv => OneOwner
  <2>1. SUFFICES ASSUME IInv, ~raced
                 PROVE  /\ ~fault /\ pool \subseteq {ext.WriteBuffer}
                        /\ Running = {} => pool = {ext.WriteBuffer} \ {Null}
    BY DEF OneOwner
  <2>2. InOrder
    BY <2>1 DEF IInv
  <2>3. Busy = {} => Owned
    BY <2>2 DEF InOrder
  <2>4. ASSUME NEW h \in Busy
        PROVE  pool \subseteq {ext.WriteBuffer}
    <3>1. PICK m \in Lists : Condition(m)
      BY <2>2, <2>4 DEF InOrder, HandleLeft
    <3>2. pool = {} \/ Owned
      BY <3>1 DEF Condition
    <3>3. QED
      BY <3>2 DEF Owned
  <2>5. pool \subseteq {ext.WriteBuffer}
    BY <2>3, <2>4 DEF Owned
  <2>6. Running = {} => pool = {ext.WriteBuffer} \ {Null}
    BY <2>3 DEF Busy, Owned
  <2>7. QED
    BY <2>2, <2>5, <2>6 DEF InOrder
<1>2. QED
  BY <1>1, IInvHolds, PTL

(***************************************************************************)
(* For any constants: as long as the IRPs of two handles have not          *)
(* overlapped, Playing is set only while Configured is, between any two    *)
(* accesses to the extension.                                              *)
(***************************************************************************)
THEOREM PlayingAfterConfigure == Spec => []PlayingIsConfigured
<1>1. IInv => PlayingIsConfigured
  BY DEF IInv, InOrder, PlayingIsConfigured
<1>2. QED
  BY <1>1, IInvHolds, PTL
--------------------------------------------------------------------------------
(***************************************************************************)
(* The types.  A thread that runs has a routine left: accesses with one    *)
(* return after them.                                                      *)
(***************************************************************************)
\* The accesses a routine makes, but for the one that completes the IRP.
Stores == {<<"store", "IoBase", v>> : v \in {0, DefaultIoBase}}
          \cup {<<"store", f, v>> : f \in {"Playing", "Configured", "DeviceStarted"}, v \in BOOLEAN}
          \cup {<<"store", f, v>> : f \in {"SampleRate", "Channels", "BitsPerSample",
                                           "WriteBufferSize"}, v \in Nat}
          \cup {<<"store", "WriteBuffer", Null>>}

Accesses == {<<"select", r>> : r \in Registers}
            \cup {<<"in", x>> : x \in {"set DAC", "clear DAC", "set VRA"}}
            \cup {<<"out", n>> : n \in Words}
            \cup {<<k>> : k \in {"out back", "poll", "probe", "load", "allocate", "check",
                                 "feed", "free"}}
            \cup Stores

Returns == {<<"return", s>> : s \in Atomic!Statuses}

Pieces == Seq(Accesses)

\* What a thread can have left: accesses, and the return after them.
Ending(p, r) == p \o <<r>>
Routines == {Ending(p, r) : p \in Pieces, r \in Returns}

LEMMA TailLemma ==
  ASSUME NEW S, NEW a \in S, NEW k \in Seq(S)
  PROVE  /\ <<a>> \o k \in Seq(S) /\ <<a>> \o k # <<>>
         /\ (<<a>> \o k)[1] = a /\ Tail(<<a>> \o k) = k
<1>1. <<a>> \in Seq(S) /\ Len(<<a>>) = 1 /\ <<a>>[1] = a
  OBVIOUS
<1>2. PICK s : s = <<a>> \o k
  OBVIOUS
<1>3. /\ s \in Seq(S) /\ Len(s) = 1 + Len(k)
      /\ \A i \in 1..(1 + Len(k)) : s[i] = IF i <= 1 THEN <<a>>[i] ELSE k[i - 1]
  BY <1>1, <1>2, ConcatProperties
<1>4. Len(k) \in Nat
  BY LenProperties
<1>5. s # <<>> /\ s[1] = a
  BY <1>1, <1>3, <1>4, EmptySeq
<1>6. /\ Tail(s) \in Seq(S) /\ Len(Tail(s)) = Len(k)
      /\ \A i \in 1..Len(k) : Tail(s)[i] = s[i + 1]
  BY <1>3, <1>4, <1>5, HeadTailProperties
<1>7. ASSUME NEW i \in 1..Len(k)
      PROVE  Tail(s)[i] = k[i]
  <2>1. i + 1 \in 1..(1 + Len(k)) /\ ~(i + 1 <= 1) /\ (i + 1) - 1 = i
    BY <1>4
  <2>2. QED
    BY <1>3, <1>6, <2>1
<1>8. Tail(s) = k
  BY <1>6, <1>7, SeqEqual
<1>9. QED
  BY <1>2, <1>3, <1>5, <1>8

LEMMA AssocLemma ==
  ASSUME NEW S, NEW a \in Seq(S), NEW b \in Seq(S), NEW c \in Seq(S)
  PROVE  (a \o b) \o c = a \o (b \o c)
BY ConcatAssociative

LEMMA SplitLemma ==
  ASSUME NEW S, NEW s \in Seq(S), s # <<>>
  PROVE  s[1] \in S /\ Tail(s) \in Seq(S) /\ s = <<s[1]>> \o Tail(s)
<1>1. PICK a, k : a = s[1] /\ k = Tail(s)
  OBVIOUS
<1>2. Len(s) \in Nat \ {0}
  BY EmptySeq, LenProperties
<1>3. a \in S
  BY <1>1, <1>2, ElementOfSeq
<1>4. /\ k \in Seq(S) /\ Len(k) = Len(s) - 1
      /\ \A i \in 1..(Len(s) - 1) : k[i] = s[i + 1]
  BY <1>1, HeadTailProperties
<1>5. <<a>> \in Seq(S) /\ Len(<<a>>) = 1 /\ <<a>>[1] = a
  BY <1>3
<1>6. PICK q : q = <<a>> \o k
  OBVIOUS
<1>7. /\ q \in Seq(S) /\ Len(q) = 1 + Len(k)
      /\ \A i \in 1..(1 + Len(k)) : q[i] = IF i <= 1 THEN <<a>>[i] ELSE k[i - 1]
  BY <1>4, <1>5, <1>6, ConcatProperties
<1>8. ASSUME NEW i \in 1..Len(s)
      PROVE  q[i] = s[i]
  <2>1. CASE i = 1
    BY <1>1, <1>2, <1>4, <1>5, <1>7, <2>1
  <2>2. CASE i # 1
    <3>1. i \in 1..(1 + Len(k)) /\ ~(i <= 1) /\ i - 1 \in 1..(Len(s) - 1) /\ (i - 1) + 1 = i
      BY <1>2, <1>4, <2>2
    <3>2. QED
      BY <1>4, <1>7, <3>1
  <2>3. QED
    BY <2>1, <2>2
<1>9. Len(q) = Len(s)
  BY <1>2, <1>4, <1>7
<1>10. q = s
  BY <1>7, <1>8, <1>9, SeqEqual
<1>11. QED
  BY <1>1, <1>3, <1>4, <1>6, <1>10

LEMMA RoutinesLemma ==
  /\ \A k \in Routines : k \in Seq(Accesses \cup Returns) /\ k # <<>>
  /\ \A r \in Returns : <<r>> \in Routines
  /\ \A p \in Pieces, k \in Routines : p \o k \in Routines
<1>1. Pieces \subseteq Seq(Accesses \cup Returns)
  BY WidenLemma DEF Pieces
<1>2. \A r \in Returns : <<r>> \in Seq(Accesses \cup Returns) /\ Len(<<r>>) = 1
  OBVIOUS
<1>3. ASSUME NEW k \in Routines
      PROVE  k \in Seq(Accesses \cup Returns) /\ k # <<>>
  <2>1. PICK p \in Pieces, r \in Returns : k = Ending(p, r)
    BY DEF Routines
  <2>2. k \in Seq(Accesses \cup Returns) /\ Len(k) = Len(p) + 1 /\ Len(p) \in Nat
    BY <1>1, <1>2, <2>1, ConcatProperties, LenProperties DEF Ending
  <2>3. QED
    BY <2>2, EmptySeq
<1>4. ASSUME NEW r \in Returns
      PROVE  <<r>> \in Routines
  <2>1. <<>> \in Pieces
    BY EmptySeq DEF Pieces
  <2>2. PICK q : q = <<r>>
    OBVIOUS
  <2>3. <<>> \o q = q
    BY <1>2, <2>2, ConcatEmptySeq
  <2>4. q = Ending(<<>>, r)
    BY <2>2, <2>3 DEF Ending
  <2>5. QED
    BY <2>1, <2>2, <2>4 DEF Routines
<1>5. ASSUME NEW p \in Pieces, NEW k \in Routines
      PROVE  p \o k \in Routines
  <2>1. PICK q \in Pieces, r \in Returns : k = Ending(q, r)
    BY DEF Routines
  <2>2. p \o q \in Pieces
    BY ConcatProperties DEF Pieces
  <2>3. PICK S, t : S = Accesses \cup Returns /\ t = <<r>>
    OBVIOUS
  <2>4. p \in Seq(S) /\ q \in Seq(S) /\ t \in Seq(S)
    BY <1>1, <1>2, <2>3
  <2>5. p \o (q \o t) = (p \o q) \o t
    BY <2>4, AssocLemma
  <2>6. p \o k = Ending(p \o q, r)
    BY <2>1, <2>3, <2>5 DEF Ending
  <2>7. QED
    BY <2>2, <2>6 DEF Routines
<1>6. QED
  BY <1>3, <1>4, <1>5

\* The first access of a routine, and what is left after it.
LEMMA FirstLemma ==
  ASSUME NEW k \in Routines
  PROVE  \/ k[1] \in Returns /\ k = <<k[1]>>
         \/ k[1] \in Accesses /\ Tail(k) \in Routines /\ k = <<k[1]>> \o Tail(k)
<1>1. PICK p \in Pieces, r \in Returns : k = Ending(p, r)
  BY DEF Routines
<1>2. CASE p = <<>>
  <2>1. PICK q : q = <<r>>
    OBVIOUS
  <2>2. q \in Seq(Returns) /\ q[1] = r
    BY <2>1
  <2>3. k = q
    BY <1>1, <1>2, <2>1, <2>2, ConcatEmptySeq DEF Ending
  <2>4. QED
    BY <2>1, <2>2, <2>3
<1>3. CASE p # <<>>
  <2>1. /\ p[1] \in Accesses /\ Tail(p) \in Pieces /\ p = <<p[1]>> \o Tail(p)
    BY <1>3, SplitLemma DEF Pieces
  <2>2. PICK a, q, t : a = p[1] /\ q = Tail(p) /\ t = <<r>>
    OBVIOUS
  <2>3. q \o t \in Routines
    <3>1. q \o t = Ending(q, r)
      BY <2>2 DEF Ending
    <3>2. \A u \in Pieces : Ending(u, r) \in Routines
      BY DEF Routines
    <3>3. QED
      BY <2>1, <2>2, <3>1, <3>2
  <2>4. PICK S : S = Accesses \cup Returns
    OBVIOUS
  <2>5. q \in Seq(S)
    BY <2>1, <2>2, <2>4, WidenLemma DEF Pieces
  <2>6. t \in Seq(S) /\ <<a>> \in Seq(S) /\ a \in S
    BY <2>1, <2>2, <2>4
  <2>7. (<<a>> \o q) \o t = <<a>> \o (q \o t)
    BY <2>5, <2>6, AssocLemma
  <2>8. k = <<a>> \o (q \o t)
    BY <1>1, <2>1, <2>2, <2>7 DEF Ending
  <2>9. q \o t \in Seq(S)
    BY <2>5, <2>6, ConcatProperties
  <2>10. k[1] = a /\ Tail(k) = q \o t
    BY <2>6, <2>8, <2>9, TailLemma
  <2>11. QED
    BY <2>1, <2>2, <2>3, <2>8, <2>10
<1>4. QED
  BY <1>2, <1>3

LEMMA AccessesLemma ==
  /\ \A r \in Registers : <<"select", r>> \in Accesses
  /\ \A x \in {"set DAC", "clear DAC", "set VRA"} : <<"in", x>> \in Accesses
  /\ \A n \in Words : <<"out", n>> \in Accesses
  /\ \A k \in {"out back", "poll", "probe", "load", "allocate", "check", "feed", "free"} :
       <<k>> \in Accesses
  /\ \A s \in Stores : s \in Accesses
BY DEF Accesses

LEMMA StoresLemma ==
  /\ \A v \in {0, DefaultIoBase} : <<"store", "IoBase", v>> \in Stores
  /\ \A f \in {"Playing", "Configured", "DeviceStarted"}, v \in BOOLEAN : <<"store", f, v>> \in Stores
  /\ \A f \in {"SampleRate", "Channels", "BitsPerSample", "WriteBufferSize"}, v \in Nat :
       <<"store", f, v>> \in Stores
  /\ <<"store", "WriteBuffer", Null>> \in Stores
BY DEF Stores

LEMMA PiecesLemma ==
  /\ \A a \in Accesses : <<a>> \in Pieces
  /\ \A a, b \in Accesses : <<a, b>> \in Pieces
  /\ \A p, q \in Pieces : p \o q \in Pieces
<1>1. \A a \in Accesses : <<a>> \in Pieces
  BY DEF Pieces
<1>2. \A a, b \in Accesses : <<a, b>> \in Pieces
  BY DEF Pieces
<1>3. \A p, q \in Pieces : p \o q \in Pieces
  BY ConcatProperties DEF Pieces
<1>4. QED
  BY <1>1, <1>2, <1>3

LEMMA RegisterPieces ==
  /\ \A r \in Registers, x \in {"set DAC", "clear DAC", "set VRA"} : Ac97ReadRegister(r, x) \in Pieces
  /\ \A r \in Registers, n \in Words : Ac97WriteRegister(r, n) \in Pieces
  /\ \A r \in Registers : WriteBack(r) \in Pieces
<1>1. \A a, b \in Accesses : <<a, b>> \in Pieces
  BY PiecesLemma
<1>2. <<"out back">> \in Accesses
  BY AccessesLemma
<1>3. ASSUME NEW r \in Registers, NEW x \in {"set DAC", "clear DAC", "set VRA"}
      PROVE  Ac97ReadRegister(r, x) \in Pieces
  BY <1>1, AccessesLemma DEF Ac97ReadRegister
<1>4. ASSUME NEW r \in Registers, NEW n \in Words
      PROVE  Ac97WriteRegister(r, n) \in Pieces
  BY <1>1, AccessesLemma DEF Ac97WriteRegister
<1>5. ASSUME NEW r \in Registers
      PROVE  WriteBack(r) \in Pieces
  BY <1>1, <1>2, AccessesLemma DEF WriteBack
<1>6. QED
  BY <1>3, <1>4, <1>5

LEMMA StorePieces ==
  /\ \A v \in {0, DefaultIoBase} : Store("IoBase", v) \in Pieces
  /\ \A f \in {"Playing", "Configured", "DeviceStarted"}, v \in BOOLEAN : Store(f, v) \in Pieces
  /\ \A f \in {"SampleRate", "Channels", "BitsPerSample", "WriteBufferSize"}, v \in Nat :
       Store(f, v) \in Pieces
  /\ Store("WriteBuffer", Null) \in Pieces
BY StoresLemma, AccessesLemma, PiecesLemma DEF Store

LEMMA WordsLemma == \A n : n \in Words <=> n \in Nat /\ n <= 65535
<1>1. PICK max : max = 65535
  OBVIOUS
<1>2. max \in Nat
  BY <1>1
<1>3. Words = 0..max
  BY <1>1, SMT DEF Words
<1>4. \A n : n \in Words => n \in Nat /\ n <= max
  BY <1>2, <1>3
<1>5. \A n \in Nat : n <= max => n \in Words
  BY <1>2, <1>3
<1>6. QED
  BY <1>1, <1>4, <1>5

LEMMA WordLemma == \A rate \in Nat : Atomic!Word(rate) \in Words
<1>1. TAKE n \in Nat
<1>2. n % 65536 \in Nat /\ n % 65536 <= 65535
  OBVIOUS
<1>3. QED
  BY <1>2, WordsLemma DEF Atomic!Word

LEMMA RoutinePieces ==
  /\ Ac97StopPlayback \in Pieces /\ Ac97StartPlayback \in Pieces /\ Ac97Reset \in Pieces
  /\ \A rate \in Nat : Ac97SetSampleRate(rate) \in Pieces
<1>1. /\ {"power", "status", "reset", "volume", "rate", "vendor"} \subseteq Registers /\ 0 \in Words
      /\ \A rate \in Nat : Atomic!Word(rate) \in Words
  <2>1. 0 \in Words
    BY WordsLemma
  <2>2. {"power", "status", "reset", "volume", "rate", "vendor"} \subseteq Registers
    BY DEF Registers
  <2>3. QED
    BY <2>1, <2>2, WordLemma
<1>2. \A p, q \in Pieces : p \o q \in Pieces
  BY PiecesLemma
<1>3. \A r \in {"power", "status", "rate"} : WriteBack(r) \in Pieces
  BY <1>1, RegisterPieces
<1>4. /\ Ac97ReadRegister("power", "set DAC") \in Pieces
      /\ Ac97ReadRegister("power", "clear DAC") \in Pieces
      /\ Ac97ReadRegister("status", "set VRA") \in Pieces
  BY <1>1, RegisterPieces
<1>5. Store("Playing", TRUE) \in Pieces /\ Store("Playing", FALSE) \in Pieces
  BY StorePieces
<1>6. << <<"load">> >> \in Pieces
  BY AccessesLemma, PiecesLemma
<1>7. << <<"select", "power">>, <<"poll">> >> \in Pieces
  BY <1>1, AccessesLemma, PiecesLemma
<1>8. Ac97WriteRegister("reset", 0) \in Pieces /\ Ac97WriteRegister("volume", 0) \in Pieces
  BY <1>1, RegisterPieces
<1>9. Ac97StopPlayback \in Pieces
  BY <1>2, <1>3, <1>4, <1>5 DEF Ac97StopPlayback
<1>10. Ac97StartPlayback \in Pieces
  <2>1. PICK a, b, c, d, e, f, g :
         /\ a = Ac97ReadRegister("power", "clear DAC") /\ b = WriteBack("power")
         /\ c = Ac97ReadRegister("status", "set VRA") /\ d = WriteBack("status")
         /\ e = << <<"load">> >> /\ f = WriteBack("rate") /\ g = Store("Playing", TRUE)
    OBVIOUS
  <2>2. {a, b, c, d, e, f, g} \subseteq Pieces
    BY <1>3, <1>4, <1>5, <1>6, <2>1
  <2>3. (((((a \o b) \o c) \o d) \o e) \o f) \o g \in Pieces
    BY <1>2, <2>2
  <2>4. QED
    BY <2>1, <2>3 DEF Ac97StartPlayback
<1>11. Ac97Reset \in Pieces
  <2>1. PICK a, b, c : /\ a = Ac97WriteRegister("reset", 0)
                       /\ b = << <<"select", "power">>, <<"poll">> >>
                       /\ c = Ac97WriteRegister("volume", 0)
    OBVIOUS
  <2>2. {a, b, c} \subseteq Pieces
    BY <1>7, <1>8, <2>1
  <2>3. (((a \o b) \o c) \o c) \o c \in Pieces
    BY <1>2, <2>2
  <2>4. QED
    BY <2>1, <2>3 DEF Ac97Reset
<1>12. \A rate \in Nat : Ac97SetSampleRate(rate) \in Pieces
  BY <1>1, RegisterPieces DEF Ac97SetSampleRate
<1>13. QED
  BY <1>9, <1>10, <1>11, <1>12

LEMMA ReturnLemma == \A s \in Atomic!Statuses : Return(s) \in Routines
<1>1. \A s \in Atomic!Statuses : <<"return", s>> \in Returns
  BY DEF Returns
<1>2. \A r \in Returns : <<r>> \in Routines
  BY RoutinesLemma
<1>3. QED
  BY <1>1, <1>2 DEF Return

LEMMA DispatchedRoutines ==
  /\ Ac97DispatchCreate \in Routines /\ Ac97DispatchClose \in Routines
  /\ Ac97HandleWrite \in Routines /\ StopIoctl \in Routines
  /\ StopDevice \in Routines /\ StartDevice \in Routines
<1>1. \A p \in Pieces, k \in Routines : p \o k \in Routines
  BY RoutinesLemma
<1>2. \A p, q \in Pieces : p \o q \in Pieces
  BY PiecesLemma
<1>3. Return("SUCCESS") \in Routines
  BY ReturnLemma DEF Atomic!Statuses
<1>4. /\ Store("Playing", FALSE) \in Pieces /\ Store("Configured", FALSE) \in Pieces
      /\ Store("DeviceStarted", FALSE) \in Pieces /\ Store("DeviceStarted", TRUE) \in Pieces
      /\ Store("WriteBuffer", Null) \in Pieces /\ Store("IoBase", DefaultIoBase) \in Pieces
  BY StorePieces
<1>5. /\ << <<"free">> >> \in Pieces /\ << <<"check">>, <<"feed">> >> \in Pieces
      /\ << <<"select", "vendor">>, <<"probe">> >> \in Pieces
  <2>1. /\ <<"free">> \in Accesses /\ <<"check">> \in Accesses /\ <<"feed">> \in Accesses
        /\ <<"select", "vendor">> \in Accesses /\ <<"probe">> \in Accesses
    BY AccessesLemma DEF Registers
  <2>2. QED
    BY <2>1, PiecesLemma
<1>6. Ac97StopPlayback \in Pieces
  BY RoutinePieces
<1>7. Ac97DispatchCreate \in Routines
  BY <1>1, <1>2, <1>3, <1>4 DEF Ac97DispatchCreate
<1>8. Ac97DispatchClose \in Routines
  <2>1. PICK a, b, c, d, r : /\ a = Ac97StopPlayback /\ b = << <<"free">> >>
                             /\ c = Store("WriteBuffer", Null)
                             /\ d = Store("Configured", FALSE) /\ r = Return("SUCCESS")
    OBVIOUS
  <2>2. {a, b, c, d} \subseteq Pieces /\ r \in Routines
    BY <1>3, <1>4, <1>5, <1>6, <2>1
  <2>3. ((a \o b) \o c) \o d \in Pieces
    BY <1>2, <2>2
  <2>4. QED
    BY <1>1, <2>1, <2>2, <2>3 DEF Ac97DispatchClose
<1>9. Ac97HandleWrite \in Routines
  BY <1>1, <1>3, <1>5 DEF Ac97HandleWrite
<1>10. StopIoctl \in Routines
  BY <1>1, <1>3, <1>6 DEF StopIoctl
<1>11. StopDevice \in Routines
  BY <1>1, <1>2, <1>3, <1>4, <1>6 DEF StopDevice
<1>12. StartDevice \in Routines
  <2>1. PICK a, b, c, r : /\ a = Store("IoBase", DefaultIoBase)
                          /\ b = << <<"select", "vendor">>, <<"probe">> >>
                          /\ c = Store("DeviceStarted", TRUE) /\ r = Return("SUCCESS")
    OBVIOUS
  <2>2. {a, b, c} \subseteq Pieces /\ r \in Routines
    BY <1>3, <1>4, <1>5, <2>1
  <2>3. (a \o b) \o c \in Pieces
    BY <1>2, <2>2
  <2>4. QED
    BY <1>1, <2>1, <2>2, <2>3 DEF StartDevice
<1>13. QED
  BY <1>7, <1>8, <1>9, <1>10, <1>11, <1>12

LEMMA ConfigureRoutine == \A cfg \in Requests : Ac97ConfigureAndPlay(cfg) \in Routines
<1>1. TAKE cfg \in Requests
<1>2. /\ cfg.SampleRate \in Nat /\ cfg.Channels \in Nat /\ cfg.BitsPerSample \in Nat
      /\ Atomic!BufferSize(cfg) \in Nat
  <2>1. cfg.SampleRate \in Nat /\ cfg.Channels \in Nat /\ cfg.BitsPerSample \in Nat
    BY RequestsAssumption
  <2>2. \A a, b, c \in Nat : a * b * (c \div 8) \in Nat
    OBVIOUS
  <2>3. QED
    BY <2>1, <2>2 DEF Atomic!BufferSize
<1>3. \A p \in Pieces, k \in Routines : p \o k \in Routines
  BY RoutinesLemma
<1>4. \A p, q \in Pieces : p \o q \in Pieces
  BY PiecesLemma
<1>5. CASE ~ValidRequest(cfg)
  <2>1. Return("INVALID_PARAMETER") \in Routines
    BY ReturnLemma DEF Atomic!Statuses
  <2>2. QED
    BY <1>3, <1>5, <2>1, RoutinePieces DEF Ac97ConfigureAndPlay
<1>6. CASE ValidRequest(cfg)
  <2>1. PICK a, b, c, d, e, f, g, h, i, j, k, r :
           /\ a = Ac97StopPlayback
           /\ b = Store("Channels", cfg.Channels)
           /\ c = Store("BitsPerSample", cfg.BitsPerSample)
           /\ d = Ac97Reset /\ e = Ac97SetSampleRate(cfg.SampleRate)
           /\ f = Store("SampleRate", cfg.SampleRate)
           /\ g = << <<"free">> >>
           /\ h = Store("WriteBufferSize", Atomic!BufferSize(cfg))
           /\ i = << <<"allocate">> >> /\ j = Store("Configured", TRUE)
           /\ k = Ac97StartPlayback /\ r = Return("SUCCESS")
    OBVIOUS
  <2>2. /\ a \in Pieces /\ d \in Pieces /\ e \in Pieces /\ k \in Pieces
    BY <1>2, <2>1, RoutinePieces
  <2>3. b \in Pieces /\ c \in Pieces /\ f \in Pieces /\ h \in Pieces /\ j \in Pieces
    BY <1>2, <2>1, StorePieces
  <2>4. g \in Pieces /\ i \in Pieces
    <3>1. <<"free">> \in Accesses /\ <<"allocate">> \in Accesses
      BY AccessesLemma
    <3>2. QED
      BY <2>1, <3>1, PiecesLemma
  <2>5. r \in Routines
    BY <2>1, ReturnLemma DEF Atomic!Statuses
  <2>6. (((((((((b \o c) \o d) \o e) \o f) \o g) \o h) \o i) \o j) \o k) \o r \in Routines
    <3>1. (((b \o c) \o d) \o e) \o f \in Pieces
      BY <1>4, <2>2, <2>3
    <3>2. PICK q : q = (((b \o c) \o d) \o e) \o f
      OBVIOUS
    <3>3. ((((q \o g) \o h) \o i) \o j) \o k \in Pieces
      BY <1>4, <2>2, <2>3, <2>4, <3>1, <3>2
    <3>4. QED
      BY <1>3, <2>5, <3>2, <3>3
  <2>7. PICK q : q = (((((((((b \o c) \o d) \o e) \o f) \o g) \o h) \o i) \o j) \o k) \o r
    OBVIOUS
  <2>8. a \o q \in Routines
    BY <1>3, <2>2, <2>6, <2>7
  <2>9. QED
    BY <1>6, <2>1, <2>7, <2>8 DEF Ac97ConfigureAndPlay
<1>7. QED
  BY <1>5, <1>6

\* The two bits the driver changes, of any word.
LEMMA BitLemma ==
  ASSUME NEW n \in Words, NEW b \in {Dac, Vra}
  PROVE  /\ SetBit(n, b) \in Words /\ Bit(SetBit(n, b), b)
         /\ ClearBit(n, b) \in Words /\ ~Bit(ClearBit(n, b), b)
<1>1. n \in Nat /\ n <= 65535
  BY WordsLemma
<1>2. CASE b = Dac
  <2>1. (n \div 512) % 2 # 1 => n + 512 <= 65535 /\ ((n + 512) \div 512) % 2 = 1
    BY <1>1
  <2>2. (n \div 512) % 2 = 1 => n - 512 \in Nat /\ n - 512 <= 65535 /\ ((n - 512) \div 512) % 2 # 1
    BY <1>1
  <2>3. QED
    BY <1>1, <1>2, <2>1, <2>2, WordsLemma DEF SetBit, ClearBit, Bit, Dac
<1>3. CASE b = Vra
  <2>1. (n \div 128) % 2 # 1 => n + 128 <= 65535 /\ ((n + 128) \div 128) % 2 = 1
    BY <1>1
  <2>2. (n \div 128) % 2 = 1 => n - 128 \in Nat /\ n - 128 <= 65535 /\ ((n - 128) \div 128) % 2 # 1
    BY <1>1
  <2>3. QED
    BY <1>1, <1>3, <2>1, <2>2, WordsLemma DEF SetBit, ClearBit, Bit, Vra
<1>4. QED
  BY <1>2, <1>3

\* What the powerdown register keeps of a word: all but the status bits.
Sixteens == {n \in Words : n % 16 = 0}

LEMMA KeptLemma ==
  ASSUME NEW n \in Words
  PROVE  n - (n % 16) \in Sixteens /\ (Bit(n - (n % 16), Dac) <=> Bit(n, Dac))
<1>1. n \in Nat /\ n <= 65535
  BY WordsLemma
<1>2. /\ n - (n % 16) \in Nat /\ n - (n % 16) <= 65535 /\ (n - (n % 16)) % 16 = 0
      /\ (n - (n % 16)) \div 512 = n \div 512
  BY <1>1
<1>3. QED
  BY <1>2, WordsLemma DEF Sixteens, Bit, Dac

LEMMA StatusBitsLemma ==
  ASSUME NEW n \in Sixteens
  PROVE  n + Ready \in Words /\ n \in Words /\ (Bit(n + Ready, Dac) <=> Bit(n, Dac))
         /\ (n + Ready) % 16 = Ready
<1>1. n \in Nat /\ n <= 65535 /\ n % 16 = 0
  BY WordsLemma DEF Sixteens
<1>2. n + 15 \in Nat /\ n + 15 <= 65535 /\ (n + 15) \div 512 = n \div 512 /\ (n + 15) % 16 = 15
  BY <1>1
<1>3. QED
  BY <1>1, <1>2, WordsLemma DEF Bit, Dac, Ready

ChipType == [present : BOOLEAN, ready : BOOLEAN, index : Registers,
             regs : [rate : Words, status : Words, power : Sixteens]]

LEMMA ResetTyped == ResetRegs \in [rate : Words, status : Words, power : Sixteens]
<1>1. 0 \in Words /\ 48000 \in Words /\ 0 % 16 = 0
  BY WordsLemma
<1>2. QED
  BY <1>1 DEF ResetRegs, Sixteens

\* What a read of a register returns, and what a write leaves of it.
LEMMA ContentsLemma ==
  ASSUME NEW c \in ChipType
  PROVE  Contents(c) \in Words
<1>1. 0 \in Words /\ VendorId \in Words
  BY WordsLemma DEF VendorId
<1>2. CASE c.index = "power"
  <2>1. c.regs["power"] \in Sixteens
    BY DEF ChipType
  <2>2. c.regs["power"] + Ready \in Words /\ c.regs["power"] + 0 = c.regs["power"]
        /\ c.regs["power"] \in Words
    BY <2>1, StatusBitsLemma, WordsLemma
  <2>3. QED
    BY <1>2, <2>2 DEF Contents
<1>3. CASE c.index # "power"
  <2>1. c.regs["rate"] \in Words /\ c.regs["status"] \in Words
    BY DEF ChipType
  <2>2. QED
    BY <1>1, <1>3, <2>1 DEF Contents
<1>4. QED
  BY <1>2, <1>3

LEMMA StoredLemma ==
  ASSUME NEW c \in ChipType, NEW n \in Words
  PROVE  Stored(c, n) \subseteq ChipType
<1>1. CASE c.index = "reset"
  <2>1. PICK z : z = ResetRegs
    OBVIOUS
  <2>2. \A r \in BOOLEAN : [c EXCEPT !.regs = z, !.ready = r] \in ChipType
    BY <2>1, ResetTyped DEF ChipType
  <2>3. \A d \in Stored(c, n) : \E r \in BOOLEAN : d = [c EXCEPT !.regs = z, !.ready = r]
    BY <1>1, <2>1 DEF Stored
  <2>4. QED
    BY <2>2, <2>3
<1>2. CASE c.index \in {"vendor", "volume"}
  BY <1>2 DEF Stored
<1>3. CASE c.index = "power"
  <2>1. n - (n % 16) \in Sixteens
    BY KeptLemma
  <2>2. PICK m : m = n - (n % 16)
    OBVIOUS
  <2>3. [c EXCEPT !.regs["power"] = m] \in ChipType
    BY <2>1, <2>2 DEF ChipType
  <2>4. [c EXCEPT !.regs[c.index] = IF c.index = "power" THEN n - (n % 16) ELSE n]
          = [c EXCEPT !.regs["power"] = m]
    BY <1>3, <2>2
  <2>5. QED
    BY <1>3, <2>3, <2>4 DEF Stored
<1>4. CASE c.index \in {"rate", "status"}
  <2>1. /\ [c EXCEPT !.regs["rate"] = n] \in ChipType
        /\ [c EXCEPT !.regs["status"] = n] \in ChipType
    BY DEF ChipType
  <2>2. QED
    BY <1>4, <2>1 DEF Stored
<1>5. QED
  BY <1>1, <1>2, <1>3, <1>4 DEF ChipType, Registers

FedType == [left : Nat, right : Nat]

IrpType == [op : Atomic!Ops \cup {"none"}, size : Nat, port : {0, DefaultIoBase},
            value : Words, fed : FedType, todo : Routines \cup {<<>>}]

\* What TypeOK needs to be inductive: what a thread has left is a routine
\* that ends in its return, and the powerdown register keeps no status bits.
Typed == /\ ext \in Atomic!ExtType
         /\ chip \in ChipType
         /\ pool \subseteq Blocks /\ handles \subseteq Handles
         /\ pnp \in {"started", "stopped"}
         /\ irp \in [Threads -> IrpType]
         /\ \A t \in Threads : irp[t].op = "none" <=> irp[t].todo = <<>>
         /\ irp[PnP].op \in {"none", "PNP", "OTHER"}
         /\ sent \in 0..MaxIrps
         /\ overlap \in BOOLEAN /\ raced \in BOOLEAN /\ fault \in BOOLEAN

LEMMA IdleTyped == Idle \in IrpType /\ Idle.op = "none" /\ Idle.todo = <<>>
<1>1. 0 \in Words
  BY WordsLemma
<1>2. QED
  BY <1>1 DEF Idle, IrpType, FedType

\* Thread t goes on with x left of its routine.
LEMMA TypedMove ==
  ASSUME Typed, NEW t \in Threads, NEW r \in IrpType, NEW x \in Routines,
         irp[t].op # "none", r.op = irp[t].op, irp' = [irp EXCEPT ![t] = [r EXCEPT !.todo = x]],
         ext' \in Atomic!ExtType, chip' \in ChipType, pool' \subseteq Blocks,
         fault' \in BOOLEAN, UNCHANGED <<handles, pnp, sent, overlap, raced>>
  PROVE  Typed'
<1>1. PICK q : q = [r EXCEPT !.todo = x]
  OBVIOUS
<1>2. q \in IrpType /\ q.op = irp[t].op /\ q.todo = x
  BY <1>1 DEF IrpType
<1>3. irp' \in [Threads -> IrpType] /\ irp'[t] = q /\ \A u \in Threads \ {t} : irp'[u] = irp[u]
  BY <1>1, <1>2 DEF Typed
<1>4. x # <<>>
  BY RoutinesLemma
<1>5. \A u \in Threads : irp'[u].op = "none" <=> irp'[u].todo = <<>>
  <2>1. TAKE u \in Threads
  <2>2. CASE u = t
    BY <1>2, <1>3, <1>4, <2>2
  <2>3. CASE u # t
    BY <1>3, <2>3 DEF Typed
  <2>4. QED
    BY <2>2, <2>3
<1>6. irp'[PnP].op \in {"none", "PNP", "OTHER"}
  <2>1. PnP \in Threads
    BY DEF Threads
  <2>2. QED
    BY <1>2, <1>3, <2>1 DEF Typed
<1>7. QED
  BY <1>3, <1>5, <1>6 DEF Typed

\* What a thread that is running is about to do.
LEMMA AtLemma ==
  ASSUME Typed, NEW t \in Threads, irp[t].op # "none"
  PROVE  /\ irp[t] \in IrpType /\ irp[t].todo \in Routines
         /\ \/ Access(t) \in Returns
            \/ Access(t) \in Accesses /\ Tail(irp[t].todo) \in Routines
<1>1. irp[t] \in IrpType /\ irp[t].todo # <<>>
  BY DEF Typed
<1>2. irp[t].todo \in Routines
  BY <1>1 DEF IrpType
<1>3. QED
  BY <1>1, <1>2, FirstLemma DEF Access

LEMMA StoreLemma ==
  ASSUME NEW a \in Stores
  PROVE  /\ a[1] = "store"
         /\ \/ a[2] = "IoBase" /\ a[3] \in {0, DefaultIoBase}
            \/ a[2] \in {"Playing", "Configured", "DeviceStarted"} /\ a[3] \in BOOLEAN
            \/ /\ a[2] \in {"SampleRate", "Channels", "BitsPerSample", "WriteBufferSize"}
               /\ a[3] \in Nat
            \/ a[2] = "WriteBuffer" /\ a[3] = Null
<1>1. \/ \E v \in {0, DefaultIoBase} : a = <<"store", "IoBase", v>>
      \/ \E f \in {"Playing", "Configured", "DeviceStarted"}, v \in BOOLEAN : a = <<"store", f, v>>
      \/ \E f \in {"SampleRate", "Channels", "BitsPerSample", "WriteBufferSize"}, v \in Nat :
           a = <<"store", f, v>>
      \/ a = <<"store", "WriteBuffer", Null>>
  BY DEF Stores
<1>2. CASE \E v \in {0, DefaultIoBase} : a = <<"store", "IoBase", v>>
  BY <1>2
<1>3. CASE \E f \in {"Playing", "Configured", "DeviceStarted"}, v \in BOOLEAN : a = <<"store", f, v>>
  BY <1>3
<1>4. CASE \E f \in {"SampleRate", "Channels", "BitsPerSample", "WriteBufferSize"}, v \in Nat :
             a = <<"store", f, v>>
  BY <1>4
<1>5. CASE a = <<"store", "WriteBuffer", Null>>
  BY <1>5
<1>6. QED
  BY <1>1, <1>2, <1>3, <1>4, <1>5

LEMMA StoreTyped ==
  ASSUME NEW e \in Atomic!ExtType, NEW a \in Stores
  PROVE  [e EXCEPT ![a[2]] = a[3]] \in Atomic!ExtType
<1>1. DefaultIoBase = Atomic!DefaultIoBase
  BY DEF DefaultIoBase
<1>2. PICK f, v : f = a[2] /\ v = a[3]
  OBVIOUS
<1>3. CASE f = "IoBase" /\ v \in {0, DefaultIoBase}
  BY <1>1, <1>2, <1>3 DEF Atomic!ExtType
<1>4. CASE f \in {"Playing", "Configured", "DeviceStarted"} /\ v \in BOOLEAN
  BY <1>2, <1>4 DEF Atomic!ExtType
<1>5. CASE f \in {"SampleRate", "Channels", "BitsPerSample", "WriteBufferSize"} /\ v \in Nat
  BY <1>2, <1>5 DEF Atomic!ExtType
<1>6. CASE f = "WriteBuffer" /\ v = Null
  BY <1>2, <1>6 DEF Atomic!ExtType
<1>7. QED
  BY <1>2, <1>3, <1>4, <1>5, <1>6, StoreLemma

LEMMA KindLemma ==
  /\ \A a \in Returns : a[1] = "return" /\ a[2] \in Atomic!Statuses
  /\ \A a \in Accesses : /\ a[1] # "return"
                         /\ a[1] = "select" => a[2] \in Registers
                         /\ a[1] = "in" => a[2] \in {"set DAC", "clear DAC", "set VRA"}
                         /\ a[1] = "out" => a[2] \in Words
                         /\ a[1] = "store" => a \in Stores
<1>1. \A a \in Returns : a[1] = "return" /\ a[2] \in Atomic!Statuses
  BY DEF Returns
<1>2. ASSUME NEW a \in Accesses
      PROVE  /\ a[1] # "return"
             /\ a[1] = "select" => a[2] \in Registers
             /\ a[1] = "in" => a[2] \in {"set DAC", "clear DAC", "set VRA"}
             /\ a[1] = "out" => a[2] \in Words
             /\ a[1] = "store" => a \in Stores
  <2>1. \/ \E r \in Registers : a = <<"select", r>>
        \/ \E x \in {"set DAC", "clear DAC", "set VRA"} : a = <<"in", x>>
        \/ \E n \in Words : a = <<"out", n>>
        \/ \E k \in {"out back", "poll", "probe", "load", "allocate", "check", "feed", "free"} :
             a = <<k>>
        \/ a \in Stores
    BY DEF Accesses
  <2>2. CASE \E r \in Registers : a = <<"select", r>>
    BY <2>2
  <2>3. CASE \E x \in {"set DAC", "clear DAC", "set VRA"} : a = <<"in", x>>
    <3>1. PICK x \in {"set DAC", "clear DAC", "set VRA"} : a = <<"in", x>>
      BY <2>3
    <3>2. a[1] = "in" /\ a[2] = x
      BY <3>1
    <3>3. QED
      BY <3>2
  <2>4. CASE \E n \in Words : a = <<"out", n>>
    BY <2>4
  <2>5. CASE \E k \in {"out back", "poll", "probe", "load", "allocate", "check", "feed", "free"} :
               a = <<k>>
    <3>1. PICK k \in {"out back", "poll", "probe", "load", "allocate", "check", "feed", "free"} :
                a = <<k>>
      BY <2>5
    <3>2. a[1] = k
      BY <3>1
    <3>3. QED
      BY <3>2
  <2>6. CASE a \in Stores
    BY <2>6, StoreLemma
  <2>7. QED
    BY <2>1, <2>2, <2>3, <2>4, <2>5, <2>6
<1>3. QED
  BY <1>1, <1>2

\* The rest of a step that goes on with record r.
LEMMA TypedAdvance ==
  ASSUME Typed, NEW t \in Threads, NEW r \in IrpType, irp[t].op # "none",
         Access(t)[1] # "return", r.op = irp[t].op, Advance(t, r),
         ext' \in Atomic!ExtType, chip' \in ChipType, pool' \subseteq Blocks,
         fault' \in BOOLEAN, UNCHANGED <<handles, pnp, sent, overlap, raced>>
  PROVE  Typed'
<1>1. Tail(irp[t].todo) \in Routines
  BY AtLemma, KindLemma
<1>2. QED
  BY <1>1, TypedMove DEF Advance

LEMMA InPortTyped == ASSUME Typed, NEW t \in Threads PROVE InPortWord(t) \in Words
<1>1. 65535 \in Words /\ Contents(chip) \in Words
  BY WordsLemma, ContentsLemma DEF Typed
<1>2. QED
  BY <1>1 DEF InPortWord

LEMMA RecordTyped ==
  ASSUME NEW r \in IrpType
  PROVE  /\ \A w \in {0, DefaultIoBase} : /\ [r EXCEPT !.port = w] \in IrpType
                                          /\ [r EXCEPT !.port = w].op = r.op
         /\ \A v \in Words : [r EXCEPT !.value = v] \in IrpType /\ [r EXCEPT !.value = v].op = r.op
         /\ \A f \in FedType : [r EXCEPT !.fed = f] \in IrpType /\ [r EXCEPT !.fed = f].op = r.op
BY DEF IrpType

LEMMA PortTyped ==
  ASSUME Typed, NEW t \in Threads, AccessPort(t),
         UNCHANGED <<handles, pnp, last, sent, overlap, raced, fault, rest>>
  PROVE  Typed'
<1>1. /\ ext \in Atomic!ExtType /\ chip \in ChipType /\ pool \subseteq Blocks
      /\ fault \in BOOLEAN /\ fault' = fault /\ irp[t] \in IrpType
  BY DEF Typed
<1>2. ASSUME NEW k, At(t, k), k # "return"
      PROVE  /\ irp[t].op # "none" /\ Access(t)[1] = k
             /\ Access(t) \in Accesses /\ Tail(irp[t].todo) \in Routines
  BY <1>2, AtLemma, KindLemma DEF At
<1>3. Returned(t) \in IrpType /\ Returned(t).op = irp[t].op
  BY <1>1, RecordTyped DEF Returned
<1>4. CASE SelectRegister(t)
  <2>1. irp[t].op # "none" /\ Access(t)[1] = "select" /\ Access(t)[2] \in Registers
    BY <1>2, <1>4, KindLemma DEF SelectRegister
  <2>2. chip' \in ChipType
    BY <1>1, <1>4, <2>1 DEF SelectRegister, ChipType
  <2>3. ext.IoBase \in {0, DefaultIoBase}
    BY <1>1 DEF Atomic!ExtType, DefaultIoBase
  <2>4. /\ [irp[t] EXCEPT !.port = ext.IoBase] \in IrpType
        /\ [irp[t] EXCEPT !.port = ext.IoBase].op = irp[t].op
    BY <1>1, <2>3, RecordTyped
  <2>5. Advance(t, [irp[t] EXCEPT !.port = ext.IoBase]) /\ ext' = ext /\ pool' = pool
    BY <1>4 DEF SelectRegister
  <2>6. QED
    BY <1>1, <2>1, <2>2, <2>4, <2>5, TypedAdvance
<1>5. CASE ReadValue(t)
  <2>1. irp[t].op # "none" /\ Access(t)[1] = "in"
        /\ Access(t)[2] \in {"set DAC", "clear DAC", "set VRA"}
    BY <1>2, <1>5, KindLemma DEF ReadValue
  <2>2. PICK w \in Words : Advance(t, [Returned(t) EXCEPT !.value = w])
    <3>1. /\ SetBit(InPortWord(t), Dac) \in Words /\ ClearBit(InPortWord(t), Dac) \in Words
          /\ SetBit(InPortWord(t), Vra) \in Words
      BY InPortTyped, BitLemma
    <3>2. QED
      BY <1>5, <2>1, <3>1 DEF ReadValue
  <2>3. /\ [Returned(t) EXCEPT !.value = w] \in IrpType
        /\ [Returned(t) EXCEPT !.value = w].op = irp[t].op
    BY <1>3, RecordTyped
  <2>4. ext' = ext /\ chip' = chip /\ pool' = pool
    BY <1>5 DEF ReadValue
  <2>5. QED
    BY <1>1, <2>1, <2>2, <2>3, <2>4, TypedAdvance
<1>6. CASE WriteValue(t)
  <2>1. irp[t].op # "none" /\ Access(t)[1] \in {"out", "out back"}
    BY <1>2, <1>6 DEF WriteValue
  <2>2. PICK n : /\ n = IF At(t, "out") THEN Access(t)[2] ELSE irp[t].value
                 /\ chip' \in IF Answers(t) THEN Stored(chip, n) ELSE {chip}
    BY <1>6 DEF WriteValue
  <2>3. n \in Words
    <3>1. CASE At(t, "out")
      BY <1>2, <2>2, <3>1, KindLemma
    <3>2. CASE ~At(t, "out")
      BY <1>1, <2>2, <3>2 DEF IrpType
    <3>3. QED
      BY <3>1, <3>2
  <2>4. chip' \in ChipType
    BY <1>1, <2>2, <2>3, StoredLemma
  <2>5. 0 \in Words
    BY WordsLemma
  <2>6. /\ [Returned(t) EXCEPT !.value = 0] \in IrpType
        /\ [Returned(t) EXCEPT !.value = 0].op = irp[t].op
    BY <1>3, <2>5, RecordTyped
  <2>7. Advance(t, [Returned(t) EXCEPT !.value = 0]) /\ ext' = ext /\ pool' = pool
    BY <1>6 DEF WriteValue
  <2>8. QED
    BY <1>1, <2>1, <2>4, <2>6, <2>7, TypedAdvance
<1>7. CASE PollReady(t)
  <2>1. irp[t].op # "none" /\ Access(t)[1] = "poll" /\ irp[t].todo \in Routines
    BY <1>2, <1>7, AtLemma DEF PollReady
  <2>2. ext' = ext /\ chip' = chip /\ pool' = pool
    BY <1>7 DEF PollReady
  <2>3. CASE Advance(t, Returned(t))
    BY <1>1, <1>3, <2>1, <2>2, <2>3, TypedAdvance
  <2>4. CASE irp' = [irp EXCEPT ![t].todo = << <<"select", "power">> >> \o @]
    <3>1. PICK x : x = << <<"select", "power">> >> \o irp[t].todo
      OBVIOUS
    <3>2. << <<"select", "power">> >> \in Pieces
      BY AccessesLemma, PiecesLemma DEF Registers
    <3>3. x \in Routines
      BY <2>1, <3>1, <3>2, RoutinesLemma
    <3>4. irp' = [irp EXCEPT ![t] = [irp[t] EXCEPT !.todo = x]]
      BY <2>4, <3>1
    <3>5. QED
      BY <1>1, <2>1, <2>2, <3>3, <3>4, TypedMove
  <2>5. QED
    BY <1>7, <2>3, <2>4 DEF PollReady
<1>8. CASE Probe(t)
  <2>1. irp[t].op # "none" /\ Access(t)[1] = "probe"
    BY <1>2, <1>8 DEF Probe
  <2>2. ext' \in Atomic!ExtType
    BY <1>1, <1>8 DEF Probe, Atomic!ExtType
  <2>3. Advance(t, Returned(t)) /\ chip' = chip /\ pool' = pool
    BY <1>8 DEF Probe
  <2>4. QED
    BY <1>1, <1>3, <2>1, <2>2, <2>3, TypedAdvance
<1>9. QED
  BY <1>4, <1>5, <1>6, <1>7, <1>8 DEF AccessPort

LEMMA ExtensionTyped ==
  ASSUME Typed, NEW t \in Threads, AccessExtension(t),
         UNCHANGED <<handles, pnp, last, sent, overlap, raced, fault, rest>>
  PROVE  Typed'
<1>1. /\ ext \in Atomic!ExtType /\ chip \in ChipType /\ pool \subseteq Blocks
      /\ fault \in BOOLEAN /\ fault' = fault /\ irp[t] \in IrpType
  BY DEF Typed
<1>2. ASSUME NEW k, At(t, k), k # "return"
      PROVE  /\ irp[t].op # "none" /\ Access(t)[1] = k
             /\ Access(t) \in Accesses /\ Tail(irp[t].todo) \in Routines
  BY <1>2, AtLemma, KindLemma DEF At
<1>3. CASE StoreField(t)
  <2>1. irp[t].op # "none" /\ Access(t)[1] = "store" /\ Access(t) \in Stores
    BY <1>2, <1>3, KindLemma DEF StoreField
  <2>2. ext' \in Atomic!ExtType
    BY <1>1, <1>3, <2>1, StoreTyped DEF StoreField
  <2>3. Advance(t, irp[t]) /\ chip' = chip /\ pool' = pool
    BY <1>3 DEF StoreField
  <2>4. QED
    BY <1>1, <2>1, <2>2, <2>3, TypedAdvance
<1>4. CASE LoadRate(t)
  <2>1. irp[t].op # "none" /\ Access(t)[1] = "load"
    BY <1>2, <1>4 DEF LoadRate
  <2>2. Atomic!Word(ext.SampleRate) \in Words
    BY <1>1, WordLemma DEF Atomic!ExtType
  <2>3. PICK w \in Words : Advance(t, [irp[t] EXCEPT !.value = w])
    BY <1>4, <2>2 DEF LoadRate
  <2>4. [irp[t] EXCEPT !.value = w] \in IrpType /\ [irp[t] EXCEPT !.value = w].op = irp[t].op
    BY <1>1, RecordTyped
  <2>5. ext' = ext /\ chip' = chip /\ pool' = pool
    BY <1>4 DEF LoadRate
  <2>6. QED
    BY <1>1, <2>1, <2>3, <2>4, <2>5, TypedAdvance
<1>5. CASE Allocate(t)
  <2>1. irp[t].op # "none" /\ Access(t)[1] = "allocate" /\ chip' = chip
    BY <1>2, <1>5 DEF Allocate
  <2>2. ASSUME NEW b \in Blocks, pool' = pool \cup {b}, ext' = [ext EXCEPT !.WriteBuffer = b],
               Advance(t, irp[t])
        PROVE  Typed'
    <3>1. ext' \in Atomic!ExtType
      BY <1>1, <2>2 DEF Atomic!ExtType
    <3>2. QED
      BY <1>1, <2>1, <2>2, <3>1, TypedAdvance
  <2>3. ASSUME ext' = [ext EXCEPT !.WriteBuffer = Null], pool' = pool,
               irp' = [irp EXCEPT ![t].todo = Store("WriteBufferSize", 0)
                                              \o Return("INSUFFICIENT_RESOURCES")]
        PROVE  Typed'
    <3>1. ext' \in Atomic!ExtType
      BY <1>1, <2>3 DEF Atomic!ExtType
    <3>2. PICK x : x = Store("WriteBufferSize", 0) \o Return("INSUFFICIENT_RESOURCES")
      OBVIOUS
    <3>3. x \in Routines
      BY <3>2, StorePieces, ReturnLemma, RoutinesLemma DEF Atomic!Statuses
    <3>4. irp' = [irp EXCEPT ![t] = [irp[t] EXCEPT !.todo = x]]
      BY <2>3, <3>2
    <3>5. pool' \subseteq Blocks
      BY <1>1, <2>3
    <3>6. QED
      BY <1>1, <2>1, <3>1, <3>3, <3>4, <3>5, TypedMove
  <2>4. QED
    BY <1>5, <2>2, <2>3 DEF Allocate
<1>6. CASE CheckState(t)
  <2>1. /\ irp[t].op # "none" /\ Access(t)[1] = "check"
        /\ ext' = ext /\ chip' = chip /\ pool' = pool
    BY <1>2, <1>6 DEF CheckState
  <2>2. CASE Advance(t, irp[t])
    BY <1>1, <2>1, <2>2, TypedAdvance
  <2>3. CASE irp' = [irp EXCEPT ![t].todo = Return("INVALID_DEVICE_STATE")]
    <3>1. PICK x : x = Return("INVALID_DEVICE_STATE")
      OBVIOUS
    <3>2. x \in Routines
      BY <3>1, ReturnLemma DEF Atomic!Statuses
    <3>3. irp' = [irp EXCEPT ![t] = [irp[t] EXCEPT !.todo = x]]
      BY <2>3, <3>1
    <3>4. QED
      BY <1>1, <2>1, <3>2, <3>3, TypedMove
  <2>4. QED
    BY <1>6, <2>2, <2>3 DEF CheckState
<1>7. CASE Ac97FeedSamples(t)
  <2>1. irp[t].op # "none" /\ Access(t)[1] = "feed"
    BY <1>2, <1>7 DEF Ac97FeedSamples
  <2>2. Atomic!Ac97FeedSamples(ext, irp[t].size) \in FedType
    <3>1. irp[t].size \in Nat
      BY <1>1 DEF IrpType
    <3>2. PICK n : n = IF ext.BitsPerSample = 16 THEN irp[t].size \div 2 ELSE irp[t].size
      OBVIOUS
    <3>3. n \in Nat
      BY <3>1, <3>2
    <3>4. QED
      BY <3>2, <3>3 DEF Atomic!Ac97FeedSamples, FedType
  <2>3. PICK f \in FedType : Advance(t, [irp[t] EXCEPT !.fed = f])
    BY <1>7, <2>2 DEF Ac97FeedSamples
  <2>4. [irp[t] EXCEPT !.fed = f] \in IrpType /\ [irp[t] EXCEPT !.fed = f].op = irp[t].op
    BY <1>1, RecordTyped
  <2>5. ext' = ext /\ chip' = chip /\ pool' = pool
    BY <1>7 DEF Ac97FeedSamples
  <2>6. QED
    BY <1>1, <2>1, <2>3, <2>4, <2>5, TypedAdvance
<1>8. QED
  BY <1>3, <1>4, <1>5, <1>6, <1>7 DEF AccessExtension

LEMMA FreeTyped ==
  ASSUME Typed, NEW t \in Threads, FreeBuffer(t),
         UNCHANGED <<handles, pnp, last, sent, overlap, raced, rest>>
  PROVE  Typed'
<1>1. /\ ext \in Atomic!ExtType /\ chip \in ChipType /\ pool' \subseteq Blocks
      /\ fault' \in BOOLEAN /\ irp[t] \in IrpType /\ ext' = ext /\ chip' = chip
  BY DEF Typed, FreeBuffer
<1>2. irp[t].op # "none" /\ Access(t)[1] = "free" /\ Advance(t, irp[t])
  BY DEF FreeBuffer, At
<1>3. QED
  BY <1>1, <1>2, TypedAdvance

LEMMA CompleteTyped ==
  ASSUME Typed, NEW t \in Threads, Complete(t)
  PROVE  Typed'
<1>1. irp' = [irp EXCEPT ![t] = Idle] /\ UNCHANGED <<ext, chip, pool, sent, overlap, raced, fault>>
  BY DEF Complete
<1>2. irp' \in [Threads -> IrpType] /\ irp'[t] = Idle /\ \A u \in Threads \ {t} : irp'[u] = irp[u]
  BY <1>1, IdleTyped DEF Typed
<1>3. \A u \in Threads : irp'[u].op = "none" <=> irp'[u].todo = <<>>
  BY <1>2, IdleTyped DEF Typed
<1>4. handles' \subseteq Handles
  <2>1. irp[t].op = "CREATE" => t \in Handles
    BY DEF Typed, Threads
  <2>2. QED
    BY <2>1 DEF Complete, Typed
<1>5. pnp' \in {"started", "stopped"}
  BY DEF Complete, Typed
<1>6. irp'[PnP].op \in {"none", "PNP", "OTHER"}
  <2>1. PnP \in Threads
    BY DEF Threads
  <2>2. QED
    BY <1>2, <2>1, IdleTyped DEF Typed
<1>7. QED
  BY <1>1, <1>2, <1>3, <1>4, <1>5, <1>6 DEF Typed

LEMMA DispatchTyped ==
  ASSUME Typed, NEW t \in Threads, NEW op \in Atomic!Ops, NEW size \in Nat, NEW todo \in Routines,
         t = PnP => op \in {"PNP", "OTHER"}, Dispatch(t, op, size, todo)
  PROVE  Typed'
<1>1. PICK r : r = [Idle EXCEPT !.op = op, !.size = size, !.todo = todo]
  OBVIOUS
<1>2. r \in IrpType /\ r.op = op /\ r.todo = todo
  BY <1>1, IdleTyped DEF IrpType
<1>3. irp' = [irp EXCEPT ![t] = r] /\ UNCHANGED <<ext, chip, pool, handles, pnp, last, fault>>
  BY <1>1 DEF Dispatch
<1>4. irp' \in [Threads -> IrpType] /\ irp'[t] = r /\ \A u \in Threads \ {t} : irp'[u] = irp[u]
  BY <1>2, <1>3 DEF Typed
<1>5. op # "none" /\ todo # <<>>
  BY RoutinesLemma DEF Atomic!Ops
<1>6. \A u \in Threads : irp'[u].op = "none" <=> irp'[u].todo = <<>>
  <2>1. TAKE u \in Threads
  <2>2. CASE u = t
    BY <1>2, <1>4, <1>5, <2>2
  <2>3. CASE u # t
    BY <1>4, <2>3 DEF Typed
  <2>4. QED
    BY <2>2, <2>3
<1>7. irp'[PnP].op \in {"none", "PNP", "OTHER"}
  <2>1. PnP \in Threads
    BY DEF Threads
  <2>2. QED
    BY <1>2, <1>4, <2>1 DEF Typed
<1>8. sent' \in 0..MaxIrps
  BY MaxIrpsAssumption DEF Dispatch, Typed
<1>9. overlap' \in BOOLEAN /\ raced' \in BOOLEAN
  BY DEF Dispatch, Typed
<1>10. QED
  BY <1>3, <1>4, <1>6, <1>7, <1>8, <1>9 DEF Typed

LEMMA SendTyped ==
  ASSUME Typed, \/ \E h \in Handles : SendIrp(h)
                \/ SendPnp
  PROVE  Typed'
<1>1. {"CREATE", "CLOSE", "CONFIGURE", "WRITE", "STOP", "PNP", "OTHER"} \subseteq Atomic!Ops /\ 0 \in Nat
  BY DEF Atomic!Ops
<1>2. ASSUME NEW h \in Handles, SendIrp(h)
      PROVE  Typed'
  <2>1. h \in Threads /\ h # PnP
    BY PnPAssumption DEF Threads
  <2>2. ASSUME NEW op \in Atomic!Ops, NEW size \in Nat, NEW todo \in Routines,
               Dispatch(h, op, size, todo)
        PROVE  Typed'
    BY <2>1, <2>2, DispatchTyped
  <2>3. CASE Dispatch(h, "CREATE", 0, Ac97DispatchCreate)
    BY <1>1, <2>2, <2>3, DispatchedRoutines
  <2>4. CASE Dispatch(h, "CLOSE", 0, Ac97DispatchClose)
    BY <1>1, <2>2, <2>4, DispatchedRoutines
  <2>5. ASSUME NEW cfg \in Requests, Dispatch(h, "CONFIGURE", 0, Ac97ConfigureAndPlay(cfg))
        PROVE  Typed'
    BY <1>1, <2>2, <2>5, ConfigureRoutine
  <2>6. ASSUME NEW size \in Sizes, Dispatch(h, "WRITE", size, Ac97HandleWrite)
        PROVE  Typed'
    BY <1>1, <2>2, <2>6, DispatchedRoutines, SizesAssumption
  <2>7. CASE Dispatch(h, "STOP", 0, StopIoctl)
    BY <1>1, <2>2, <2>7, DispatchedRoutines
  <2>8. QED
    BY <1>2, <2>3, <2>4, <2>5, <2>6, <2>7 DEF SendIrp
<1>3. ASSUME SendPnp
      PROVE  Typed'
  <2>1. PnP \in Threads
    BY DEF Threads
  <2>2. CASE Dispatch(PnP, "PNP", 0, StopDevice)
    BY <1>1, <2>1, <2>2, DispatchedRoutines, DispatchTyped
  <2>3. CASE Dispatch(PnP, "OTHER", 0, StartDevice)
    BY <1>1, <2>1, <2>3, DispatchedRoutines, DispatchTyped
  <2>4. QED
    BY <1>3, <2>2, <2>3 DEF SendPnp
<1>4. QED
  BY <1>2, <1>3

LEMMA InitTyped == Init => Typed
<1>1. SUFFICES ASSUME Init
               PROVE  Typed
  OBVIOUS
<1>2. chip \in ChipType
  <2>1. PICK p \in BOOLEAN : chip = [present |-> p, ready |-> TRUE, index |-> "vendor",
                                    regs |-> ResetRegs]
    BY <1>1 DEF Init
  <2>2. PICK z : z = ResetRegs
    OBVIOUS
  <2>3. QED
    BY <2>1, <2>2, ResetTyped DEF ChipType, Registers
<1>3. ext \in Atomic!ExtType
  BY <1>1 DEF Init, Atomic!ExtType, Atomic!ZeroedExt, DefaultIoBase
<1>4. irp = [t \in Threads |-> Idle]
  BY <1>1 DEF Init
<1>5. /\ irp \in [Threads -> IrpType]
      /\ \A t \in Threads : irp[t].op = "none" <=> irp[t].todo = <<>>
      /\ irp[PnP].op \in {"none", "PNP", "OTHER"}
  BY <1>4, IdleTyped DEF Threads
<1>6. /\ pool \subseteq Blocks /\ handles \subseteq Handles /\ pnp \in {"started", "stopped"}
      /\ overlap \in BOOLEAN /\ raced \in BOOLEAN /\ fault \in BOOLEAN
  BY <1>1 DEF Init
<1>7. sent \in 0..MaxIrps
  BY <1>1, MaxIrpsAssumption DEF Init
<1>8. QED
  BY <1>2, <1>3, <1>5, <1>6, <1>7 DEF Typed

LEMMA NextTyped == Typed /\ [Next]_vars => Typed'
<1>1. SUFFICES ASSUME Typed, [Next]_vars
               PROVE  Typed'
  OBVIOUS
<1>2. CASE (\E h \in Handles : SendIrp(h)) \/ SendPnp
  BY <1>1, <1>2, SendTyped
<1>3. ASSUME NEW t \in Threads, Step(t)
      PROVE  Typed'
  BY <1>1, <1>3, PortTyped, ExtensionTyped, FreeTyped, CompleteTyped DEF Step
<1>4. CASE UNCHANGED vars
  BY <1>1, <1>4 DEF vars, Typed
<1>5. QED
  BY <1>1, <1>2, <1>3, <1>4 DEF Next

(***************************************************************************)
(* For any handles, requests, write sizes, blocks and number of IRPs,      *)
(* every variable has its type at every access: whatever two IRPs do to    *)
(* one register or field at a time, the ports never compute a word of more *)
(* than sixteen bits, and no thread runs past its return.                  *)
(***************************************************************************)
THEOREM TypeCorrect == Spec => []TypeOK
<1>1. Typed => TypeOK
  <2>1. SUFFICES ASSUME Typed
                 PROVE  TypeOK
    OBVIOUS
  <2>2. DOMAIN ResetRegs = {"rate", "status", "power"}
    BY DEF ResetRegs
  <2>3. Sixteens \subseteq Words
    BY DEF Sixteens
  <2>4. chip \in [present : BOOLEAN, ready : BOOLEAN, index : Registers,
                  regs : [{"rate", "status", "power"} -> Words]]
    BY <2>1, <2>3 DEF Typed, ChipType
  <2>5. \A t \in Threads :
          /\ irp[t].op \in Atomic!Ops \cup {"none"}
          /\ irp[t].port \in {0, DefaultIoBase} /\ irp[t].value \in Words
          /\ irp[t].op = "none" <=> irp[t].todo = <<>>
    BY <2>1 DEF Typed, IrpType
  <2>6. QED
    BY <2>1, <2>2, <2>4, <2>5 DEF Typed, TypeOK
<1>2. Spec => []Typed
  BY InitTyped, NextTyped, PTL DEF Spec
<1>3. QED
  BY <1>1, <1>2, PTL
--------------------------------------------------------------------------------
(***************************************************************************)
(* An IRP alone.  Safe(D, size) is where a routine can be left to run and  *)
(* returns only in D; Triple(D, size, P, s, R) says the accesses s lead    *)
(* from P to R.  Each routine is a chain of triples, from the state at     *)
(* rest to where Ac97Driver says it ends.                                  *)
(***************************************************************************)
\* What an access can find and change: the extension, the codec, the pool and
\* the locals of its routine.
Configs == [e : Atomic!ExtType, c : ChipType, p : SUBSET Blocks,
            port : {0, DefaultIoBase}, value : Words, fed : FedType]

Answering(x) == x.c.present /\ x.port = DefaultIoBase
Reading(x) == IF Answering(x) THEN Contents(x.c) ELSE 65535

Changed(change, n) == CASE change = "set DAC" -> SetBit(n, Dac)
                        [] change = "clear DAC" -> ClearBit(n, Dac)
                        [] change = "set VRA" -> SetBit(n, Vra)

Selecting(a, x, y) ==
  y = [x EXCEPT !.c = IF x.c.present /\ x.e.IoBase = DefaultIoBase
                      THEN [x.c EXCEPT !.index = a[2]] ELSE x.c,
                !.port = x.e.IoBase]

Writing(n, x, y) == \E d \in IF Answering(x) THEN Stored(x.c, n) ELSE {x.c} :
                      y = [x EXCEPT !.c = d, !.port = 0, !.value = 0]

Probed(x) == IF Reading(x) \in {0, 65535} THEN [x.e EXCEPT !.IoBase = 0] ELSE x.e

\* Access a takes x to y, and its routine goes on.
Does(size, a, x, y) ==
  \/ a[1] = "select" /\ Selecting(a, x, y)
  \/ a[1] = "in" /\ y = [x EXCEPT !.port = 0, !.value = Changed(a[2], Reading(x))]
  \/ a[1] = "out" /\ Writing(a[2], x, y)
  \/ a[1] = "out back" /\ Writing(x.value, x, y)
  \/ a[1] = "poll" /\ y = [x EXCEPT !.port = 0]
  \/ a[1] = "probe" /\ y = [x EXCEPT !.e = Probed(x), !.port = 0]
  \/ a[1] = "store" /\ y = [x EXCEPT !.e = [x.e EXCEPT ![a[2]] = a[3]]]
  \/ a[1] = "load" /\ y = [x EXCEPT !.value = Atomic!Word(x.e.SampleRate)]
  \/ /\ a[1] = "allocate"
     /\ \E b \in Blocks \ x.p : y = [x EXCEPT !.p = x.p \cup {b}, !.e = [x.e EXCEPT !.WriteBuffer = b]]
  \/ a[1] = "check" /\ x.e.Configured /\ x.e.Playing /\ y = x
  \/ a[1] = "feed" /\ y = [x EXCEPT !.fed = Atomic!Ac97FeedSamples(x.e, size)]
  \/ a[1] = "free" /\ y = [x EXCEPT !.p = x.p \ {x.e.WriteBuffer}]

\* The first access of s takes x to y, and something else is left: k.
Leaves(x, s, y, k) ==
  \/ /\ s[1][1] = "poll" /\ y = x /\ k = << <<"select", "power">> >> \o s
  \/ /\ s[1][1] = "allocate" /\ y = [x EXCEPT !.e = [x.e EXCEPT !.WriteBuffer = Null]]
     /\ k = Store("WriteBufferSize", 0) \o Return("INSUFFICIENT_RESOURCES")
  \/ /\ s[1][1] = "check" /\ ~(x.e.Configured /\ x.e.Playing) /\ y = x
     /\ k = Return("INVALID_DEVICE_STATE")

Goes(size, x, s, y, k) == \/ Does(size, s[1], x, y) /\ k = Tail(s)
                          \/ Leaves(x, s, y, k)

\* A set of configurations, each with what is left, that no access leaves and
\* where every return is one of D: a configuration and a status.
Closed(D, size, G) ==
  \A x \in Configs, s \in Routines : <<x, s>> \in G =>
    /\ s[1][1] = "return" => <<x, s[1][2]>> \in D
    /\ \A y \in Configs, k \in Routines : Goes(size, x, s, y, k) => <<y, k>> \in G

\* Where every run alone ends in D.
Safe(D, size) == UNION {G \in SUBSET (Configs \X Routines) : Closed(D, size, G)}

\* From P the accesses s lead to R.
Triple(D, size, P, s, R) ==
  \A k \in Routines : (\A y \in R : <<y, k>> \in Safe(D, size))
                      => \A x \in P : <<x, s \o k>> \in Safe(D, size)

\* Accesses put before what is left of a routine.
LEMMA PiecesRoutine ==
  /\ \A p, q \in Pieces, k \in Routines : (p \o q) \o k = p \o (q \o k)
  /\ \A a \in Accesses, k \in Routines :
       /\ <<a>> \o k \in Routines /\ (<<a>> \o k)[1] = a /\ Tail(<<a>> \o k) = k
<1>1. PICK S : S = Accesses \cup Returns
  OBVIOUS
<1>2. Routines \subseteq Seq(S)
  BY <1>1, RoutinesLemma
<1>3. Pieces \subseteq Seq(S)
  BY <1>1, WidenLemma DEF Pieces
<1>4. ASSUME NEW p \in Pieces, NEW q \in Pieces, NEW k \in Routines
      PROVE  (p \o q) \o k = p \o (q \o k)
  BY <1>2, <1>3, AssocLemma
<1>5. ASSUME NEW a \in Accesses, NEW k \in Routines
      PROVE  <<a>> \o k \in Routines /\ (<<a>> \o k)[1] = a /\ Tail(<<a>> \o k) = k
  <2>1. <<a>> \in Pieces
    BY PiecesLemma
  <2>2. <<a>> \o k \in Routines
    BY <2>1, RoutinesLemma
  <2>3. a \in S /\ k \in Seq(S)
    BY <1>1, <1>2
  <2>4. QED
    BY <2>2, <2>3, TailLemma
<1>6. QED
  BY <1>4, <1>5

LEMMA SafeClosed ==
  ASSUME NEW D, NEW size
  PROVE  /\ Safe(D, size) \subseteq Configs \X Routines
         /\ Closed(D, size, Safe(D, size))
<1>1. PICK Z : Z = Safe(D, size)
  OBVIOUS
<1>2. \A w : w \in Z <=> \E G \in SUBSET (Configs \X Routines) : Closed(D, size, G) /\ w \in G
  BY <1>1 DEF Safe
<1>3. Z \subseteq Configs \X Routines
  BY <1>2
<1>4. ASSUME NEW x \in Configs, NEW s \in Routines, <<x, s>> \in Z
      PROVE  /\ s[1][1] = "return" => <<x, s[1][2]>> \in D
             /\ \A y \in Configs, k \in Routines : Goes(size, x, s, y, k) => <<y, k>> \in Z
  <2>1. PICK G \in SUBSET (Configs \X Routines) : Closed(D, size, G) /\ <<x, s>> \in G
    BY <1>2, <1>4
  <2>2. /\ s[1][1] = "return" => <<x, s[1][2]>> \in D
        /\ \A y \in Configs, k \in Routines : Goes(size, x, s, y, k) => <<y, k>> \in G
    BY <2>1 DEF Closed
  <2>3. G \subseteq Z
    BY <1>2, <2>1
  <2>4. QED
    BY <2>2, <2>3
<1>5. Closed(D, size, Z)
  BY <1>4 DEF Closed
<1>6. QED
  BY <1>1, <1>3, <1>5

\* To be safe it is enough to be in a set that only leads into itself and to
\* what is safe.
LEMMA SafeUnion ==
  ASSUME NEW D, NEW size, NEW H \in SUBSET (Configs \X Routines),
         \A x \in Configs, s \in Routines : <<x, s>> \in H =>
           /\ s[1][1] = "return" => <<x, s[1][2]>> \in D
           /\ \A y \in Configs, k \in Routines :
                Goes(size, x, s, y, k) => <<y, k>> \in H \cup Safe(D, size)
  PROVE  H \subseteq Safe(D, size)
<1>1. PICK Z : Z = Safe(D, size)
  OBVIOUS
<1>2. Z \subseteq Configs \X Routines /\ Closed(D, size, Z)
  BY <1>1, SafeClosed
<1>3. Closed(D, size, H \cup Z)
  BY <1>1, <1>2 DEF Closed
<1>4. H \cup Z \in SUBSET (Configs \X Routines)
  BY <1>2
<1>5. QED
  BY <1>3, <1>4 DEF Safe

LEMMA SafeStep ==
  ASSUME NEW D, NEW size, NEW x \in Configs, NEW s \in Routines,
         s[1][1] = "return" => <<x, s[1][2]>> \in D,
         \A y \in Configs, k \in Routines : Goes(size, x, s, y, k) => <<y, k>> \in Safe(D, size)
  PROVE  <<x, s>> \in Safe(D, size)
<1>1. PICK H : H = {<<x, s>>}
  OBVIOUS
<1>2. H \in SUBSET (Configs \X Routines) /\ <<x, s>> \in H
  BY <1>1
<1>3. \A y \in Configs, k \in Routines : <<y, k>> \in H => y = x /\ k = s
  BY <1>1
<1>4. ASSUME NEW z \in Configs, NEW j \in Routines, <<z, j>> \in H
      PROVE  /\ j[1][1] = "return" => <<z, j[1][2]>> \in D
             /\ \A y \in Configs, k \in Routines :
                  Goes(size, z, j, y, k) => <<y, k>> \in H \cup Safe(D, size)
  BY <1>3, <1>4, Zenon
<1>5. H \subseteq Safe(D, size)
  BY <1>2, <1>4, SafeUnion
<1>6. QED
  BY <1>2, <1>5

LEMMA SafeReturn ==
  ASSUME NEW D, NEW size, NEW x \in Configs, NEW st \in Atomic!Statuses, <<x, st>> \in D
  PROVE  <<x, Return(st)>> \in Safe(D, size)
<1>1. Return(st) \in Routines
  BY ReturnLemma
<1>2. PICK s : s = Return(st)
  OBVIOUS
<1>3. s[1][1] = "return" /\ s[1][2] = st
  BY <1>2 DEF Return
<1>4. \A y, k : ~Goes(size, x, s, y, k)
  BY <1>3 DEF Goes, Does, Leaves
<1>5. <<x, s>> \in Safe(D, size)
  BY <1>1, <1>2, <1>3, <1>4, SafeStep
<1>6. QED
  BY <1>2, <1>5

LEMMA TripleWeaken ==
  ASSUME NEW D, NEW size, NEW P, NEW s, NEW R, NEW Q, NEW T, Triple(D, size, P, s, R),
         Q \subseteq P, R \subseteq T
  PROVE  Triple(D, size, Q, s, T)
BY DEF Triple

LEMMA TripleConcat ==
  ASSUME NEW D, NEW size, NEW P, NEW Q, NEW R, NEW s \in Pieces, NEW t \in Pieces,
         Triple(D, size, P, s, Q), Triple(D, size, Q, t, R)
  PROVE  Triple(D, size, P, s \o t, R)
<1>1. SUFFICES ASSUME NEW k \in Routines, \A y \in R : <<y, k>> \in Safe(D, size)
               PROVE  \A x \in P : <<x, (s \o t) \o k>> \in Safe(D, size)
  BY DEF Triple
<1>2. t \o k \in Routines
  BY RoutinesLemma
<1>3. \A y \in Q : <<y, t \o k>> \in Safe(D, size)
  BY <1>1 DEF Triple
<1>4. \A x \in P : <<x, s \o (t \o k)>> \in Safe(D, size)
  BY <1>2, <1>3 DEF Triple
<1>5. (s \o t) \o k = s \o (t \o k)
  BY PiecesRoutine
<1>6. QED
  BY <1>4, <1>5

\* Accesses that cannot leave the routine.
LEMMA TripleAccess ==
  ASSUME NEW D, NEW size, NEW P \in SUBSET Configs, NEW R, NEW a \in Accesses,
         a[1] \notin {"poll", "allocate", "check"},
         \A x \in P, y \in Configs : Does(size, a, x, y) => y \in R
  PROVE  Triple(D, size, P, <<a>>, R)
<1>1. SUFFICES ASSUME NEW k \in Routines, \A y \in R : <<y, k>> \in Safe(D, size),
                      NEW x \in P
               PROVE  <<x, <<a>> \o k>> \in Safe(D, size)
  BY DEF Triple
<1>2. PICK s : s = <<a>> \o k
  OBVIOUS
<1>3. s \in Routines /\ s[1] = a /\ Tail(s) = k /\ a[1] # "return"
  BY <1>2, PiecesRoutine, KindLemma, ZenonT(60)
<1>4. ASSUME NEW y \in Configs, NEW j \in Routines, Goes(size, x, s, y, j)
      PROVE  <<y, j>> \in Safe(D, size)
  <2>1. Does(size, a, x, y) /\ j = k
    BY <1>3, <1>4 DEF Goes, Leaves
  <2>2. QED
    BY <1>1, <2>1
<1>5. <<x, s>> \in Safe(D, size)
  BY <1>3, <1>4, SafeStep
<1>6. QED
  BY <1>2, <1>5

LEMMA TriplePair ==
  ASSUME NEW D, NEW size, NEW P, NEW Q, NEW R, NEW a \in Accesses, NEW b \in Accesses,
         Triple(D, size, P, <<a>>, Q), Triple(D, size, Q, <<b>>, R)
  PROVE  Triple(D, size, P, <<a, b>>, R)
<1>1. <<a>> \in Pieces /\ <<b>> \in Pieces /\ <<a>> \o <<b>> = <<a, b>>
  BY PiecesLemma, PairLemma
<1>2. Triple(D, size, P, <<a>> \o <<b>>, R)
  BY <1>1, TripleConcat
<1>3. QED
  BY <1>1, <1>2

\* What a write of n to register r makes of codec c, seen as Ac97Driver sees it.
Addressed(e, c) == c.present /\ e.IoBase = DefaultIoBase
After(e, c, n) == IF Addressed(e, c) THEN Stored(c, n) ELSE {c}

LEMMA SameCodec ==
  ASSUME NEW x \in Atomic!CodecType, NEW y \in Atomic!CodecType,
         x.present = y.present, x.ready = y.ready, x.dac = y.dac, x.vra = y.vra, x.rate = y.rate
  PROVE  x = y
BY DEF Atomic!CodecType

LEMMA CodecLemma ==
  ASSUME NEW c \in ChipType
  PROVE  /\ Codec(c) = [present |-> c.present, ready |-> c.ready, dac |-> Codec(c).dac,
                        vra |-> Codec(c).vra, rate |-> c.regs.rate]
         /\ Codec(c).present = c.present /\ Codec(c).ready = c.ready
         /\ Codec(c).dac = (IF Bit(c.regs.power, Dac) THEN "off" ELSE "on")
         /\ Codec(c).vra = Bit(c.regs.status, Vra) /\ Codec(c).rate = c.regs.rate
         /\ Codec(c) \in Atomic!CodecType
<1>1. c.regs.rate \in Nat /\ c.present \in BOOLEAN /\ c.ready \in BOOLEAN
  BY WordsLemma DEF ChipType
<1>2. PICK d : d = (IF Bit(c.regs.power, Dac) THEN "off" ELSE "on")
  OBVIOUS
<1>3. PICK v \in BOOLEAN : v = Bit(c.regs.status, Vra)
  BY DEF Bit
<1>4. Codec(c) = [present |-> c.present, ready |-> c.ready, dac |-> d, vra |-> v,
                  rate |-> c.regs.rate]
  BY <1>2, <1>3 DEF Codec
<1>5. d \in {"on", "off"}
  BY <1>2
<1>6. QED
  BY <1>1, <1>2, <1>3, <1>4, <1>5 DEF Atomic!CodecType

LEMMA PokeLemma ==
  ASSUME NEW e, NEW c, NEW new
  PROVE  /\ Addressed(e, c) => new \in Atomic!Poke(e, c, new)
         /\ ~Addressed(e, c) \/ ~c.ready => c \in Atomic!Poke(e, c, new)
<1>1. DefaultIoBase = Atomic!DefaultIoBase
  BY DEF DefaultIoBase
<1>2. QED
  BY <1>1 DEF Atomic!Poke, Addressed

\* The register a routine has selected keeps what it writes, or it does not.
LEMMA StoredValue ==
  ASSUME NEW e, NEW c \in ChipType, NEW n \in Words, NEW d \in After(e, c, n),
         Addressed(e, c) => c.index \in {"power", "status", "rate"}
  PROVE  \/ /\ d = c
            /\ \/ ~Addressed(e, c) \/ ~c.ready
               \/ c.index = "rate" /\ ~Bit(c.regs.status, Vra)
         \/ /\ Addressed(e, c)
            /\ d = [c EXCEPT !.regs = [c.regs EXCEPT ![c.index] =
                                         IF c.index = "power" THEN n - (n % 16) ELSE n]]
<1>1. CASE ~Addressed(e, c)
  BY <1>1 DEF After
<1>2. CASE Addressed(e, c)
  <2>1. d \in Stored(c, n)
    BY <1>2 DEF After
  <2>2. QED
    BY <1>2, <2>1 DEF Stored
<1>3. QED
  BY <1>1, <1>2

LEMMA PowerWritten ==
  ASSUME NEW e, NEW c \in ChipType, NEW n \in Words, NEW d \in After(e, c, n),
         Addressed(e, c) => c.index = "power"
  PROVE  Codec(d) \in Atomic!SetDacPower(e, Codec(c), IF Bit(n, Dac) THEN "off" ELSE "on")
<1>1. PICK w : w = IF Bit(n, Dac) THEN "off" ELSE "on"
  OBVIOUS
<1>2. PICK new : new = [Codec(c) EXCEPT !.dac = w]
  OBVIOUS
<1>3. Addressed(e, Codec(c)) <=> Addressed(e, c)
  BY CodecLemma DEF Addressed
<1>4. CASE d = c /\ (~Addressed(e, c) \/ ~c.ready)
  BY <1>1, <1>2, <1>3, <1>4, CodecLemma, PokeLemma DEF Atomic!SetDacPower
<1>5. CASE Addressed(e, c) /\ d = [c EXCEPT !.regs = [c.regs EXCEPT !["power"] = n - (n % 16)]]
  <2>1. n - (n % 16) \in Sixteens /\ (Bit(n - (n % 16), Dac) <=> Bit(n, Dac))
    BY KeptLemma
  <2>2. PICK m \in Sixteens : m = n - (n % 16)
    BY <2>1
  <2>3. d \in ChipType /\ d.present = c.present /\ d.ready = c.ready /\ d.regs.power = m
        /\ d.regs.status = c.regs.status /\ d.regs.rate = c.regs.rate
    BY <1>5, <2>2 DEF ChipType
  <2>4. Codec(d) = new
    <3>1. Codec(d).dac = w /\ Codec(d).vra = Codec(c).vra
      BY <1>1, <2>1, <2>2, <2>3, CodecLemma
    <3>2. Codec(c) = [present |-> c.present, ready |-> c.ready, dac |-> Codec(c).dac,
                      vra |-> Codec(c).vra, rate |-> c.regs.rate]
      BY CodecLemma
    <3>3. Codec(d) = [present |-> c.present, ready |-> c.ready, dac |-> w,
                      vra |-> Codec(c).vra, rate |-> c.regs.rate]
      BY <2>3, <3>1, CodecLemma
    <3>4. PICK v : v = Codec(c).vra
      OBVIOUS
    <3>5. QED
      BY <1>2, <3>2, <3>3
  <2>5. QED
    BY <1>1, <1>2, <1>3, <1>5, <2>4, PokeLemma DEF Atomic!SetDacPower
<1>6. QED
  BY <1>4, <1>5, StoredValue

LEMMA StatusWritten ==
  ASSUME NEW e, NEW c \in ChipType, NEW n \in Words, NEW d \in After(e, c, n),
         Addressed(e, c) => c.index = "status", Bit(n, Vra)
  PROVE  Codec(d) \in Atomic!EnableVra(e, Codec(c))
<1>1. PICK new : new = [Codec(c) EXCEPT !.vra = TRUE]
  OBVIOUS
<1>2. Addressed(e, Codec(c)) <=> Addressed(e, c)
  BY CodecLemma DEF Addressed
<1>3. CASE d = c /\ (~Addressed(e, c) \/ ~c.ready)
  BY <1>1, <1>2, <1>3, CodecLemma, PokeLemma DEF Atomic!EnableVra
<1>4. CASE Addressed(e, c) /\ d = [c EXCEPT !.regs = [c.regs EXCEPT !["status"] = n]]
  <2>1. d \in ChipType /\ d.present = c.present /\ d.ready = c.ready /\ d.regs.power = c.regs.power
        /\ d.regs.status = n /\ d.regs.rate = c.regs.rate
    BY <1>4 DEF ChipType
  <2>2. Codec(d).dac = Codec(c).dac /\ Codec(d).vra = TRUE
    BY <2>1, CodecLemma
  <2>3. /\ new \in Atomic!CodecType /\ new.vra = TRUE /\ new.present = Codec(c).present
        /\ new.ready = Codec(c).ready /\ new.dac = Codec(c).dac /\ new.rate = Codec(c).rate
    <3>1. PICK q \in Atomic!CodecType : q = Codec(c)
      BY CodecLemma
    <3>2. new = [q EXCEPT !.vra = TRUE]
      BY <1>1, <3>1
    <3>3. /\ new \in Atomic!CodecType /\ new.vra = TRUE /\ new.present = q.present
          /\ new.ready = q.ready /\ new.dac = q.dac /\ new.rate = q.rate
      BY <3>2 DEF Atomic!CodecType
    <3>4. QED
      BY <3>1, <3>3
  <2>4. /\ Codec(d) \in Atomic!CodecType /\ Codec(d).present = Codec(c).present
        /\ Codec(d).ready = Codec(c).ready /\ Codec(d).rate = Codec(c).rate
    BY <2>1, CodecLemma
  <2>5. Codec(d) = new
    BY <2>2, <2>3, <2>4, SameCodec
  <2>6. QED
    BY <1>1, <1>2, <1>4, <2>5, PokeLemma DEF Atomic!EnableVra
<1>5. QED
  BY <1>3, <1>4, StoredValue

LEMMA RateWritten ==
  ASSUME NEW e, NEW c \in ChipType, NEW rate \in Nat, NEW d \in After(e, c, Atomic!Word(rate)),
         Addressed(e, c) => c.index = "rate"
  PROVE  Codec(d) \in Atomic!Ac97SetSampleRate(e, Codec(c), rate)
<1>1. PICK n \in Words : n = Atomic!Word(rate)
  BY WordLemma
<1>2. PICK new : new = [Codec(c) EXCEPT !.rate = n]
  OBVIOUS
<1>3. Addressed(e, Codec(c)) <=> Addressed(e, c)
  BY CodecLemma DEF Addressed
<1>4. PICK B : B = Atomic!Poke(e, Codec(c), new)
  OBVIOUS
<1>5. Atomic!Ac97SetSampleRate(e, Codec(c), rate) = B \cup (IF Codec(c).vra THEN {} ELSE {Codec(c)})
  BY <1>1, <1>2, <1>4 DEF Atomic!Ac97SetSampleRate
<1>6. CASE d = c /\ (~Addressed(e, c) \/ ~c.ready)
  BY <1>3, <1>4, <1>5, <1>6, CodecLemma, PokeLemma
<1>7. CASE d = c /\ ~Bit(c.regs.status, Vra)
  BY <1>5, <1>7, CodecLemma
<1>8. CASE Addressed(e, c) /\ d = [c EXCEPT !.regs = [c.regs EXCEPT !["rate"] = n]]
  <2>1. d \in ChipType /\ d.present = c.present /\ d.ready = c.ready /\ d.regs.power = c.regs.power
        /\ d.regs.status = c.regs.status /\ d.regs.rate = n
    BY <1>8 DEF ChipType
  <2>2. Codec(d).dac = Codec(c).dac /\ Codec(d).vra = Codec(c).vra
    BY <2>1, CodecLemma
  <2>3. Codec(c) = [present |-> c.present, ready |-> c.ready, dac |-> Codec(c).dac,
                    vra |-> Codec(c).vra, rate |-> c.regs.rate]
    BY CodecLemma
  <2>4. Codec(d) = [present |-> c.present, ready |-> c.ready, dac |-> Codec(c).dac,
                    vra |-> Codec(c).vra, rate |-> n]
    BY <2>1, <2>2, CodecLemma
  <2>5. Codec(d) = new
    BY <1>2, <2>3, <2>4
  <2>6. QED
    BY <1>3, <1>4, <1>5, <1>8, <2>5, PokeLemma
<1>9. QED
  BY <1>1, <1>6, <1>7, <1>8, StoredValue

LEMMA ResetWritten ==
  ASSUME NEW e, NEW c \in ChipType, NEW n \in Words, NEW d \in After(e, c, n),
         Addressed(e, c) => c.index = "reset"
  PROVE  Codec(d) \in Atomic!Ac97Reset(e, Codec(c))
<1>1. DefaultIoBase = Atomic!DefaultIoBase /\ Codec(c).present = c.present
  BY CodecLemma DEF DefaultIoBase
<1>2. CASE ~Addressed(e, c)
  BY <1>1, <1>2 DEF After, Addressed, Atomic!Ac97Reset
<1>3. CASE Addressed(e, c)
  <2>1. PICK z : z = ResetRegs
    OBVIOUS
  <2>2. PICK r \in BOOLEAN : d = [c EXCEPT !.regs = z, !.ready = r]
    BY <1>3, <2>1 DEF After, Stored
  <2>3. d \in ChipType
    BY <2>1, <2>2, ResetTyped DEF ChipType
  <2>4. /\ d.present = TRUE /\ d.ready = r
        /\ d.regs.power = 0 /\ d.regs.status = 0 /\ d.regs.rate = 48000
    BY <1>3, <2>1, <2>2 DEF ResetRegs, Addressed, ChipType
  <2>5. ~Bit(0, Dac) /\ ~Bit(0, Vra)
    BY DEF Bit, Dac, Vra
  <2>6. Codec(d).dac = "on" /\ Codec(d).vra = FALSE
    BY <2>3, <2>4, <2>5, CodecLemma
  <2>7. /\ Codec(d) \in Atomic!CodecType /\ Codec(d).present = TRUE
        /\ Codec(d).ready = r /\ Codec(d).rate = 48000
    BY <2>3, <2>4, CodecLemma
  <2>8. PICK q : q = Atomic!PoweredOnCodec(TRUE)
    OBVIOUS
  <2>9. Atomic!Ac97Reset(e, Codec(c)) = {q, [q EXCEPT !.ready = FALSE]}
    BY <1>1, <1>3, <2>8 DEF Addressed, Atomic!Ac97Reset
  <2>10. /\ q \in Atomic!CodecType /\ q.present = TRUE /\ q.ready = TRUE
         /\ q.dac = "on" /\ q.vra = FALSE /\ q.rate = 48000
    BY <2>8 DEF Atomic!PoweredOnCodec, Atomic!CodecType
  <2>11. PICK u : u = [q EXCEPT !.ready = FALSE]
    OBVIOUS
  <2>12. /\ u \in Atomic!CodecType /\ u.present = q.present /\ u.ready = FALSE
         /\ u.dac = q.dac /\ u.vra = q.vra /\ u.rate = q.rate
    <3>1. q \in Atomic!CodecType
      BY <2>10
    <3>2. QED
      BY <2>11, <3>1 DEF Atomic!CodecType
  <2>13. CASE Codec(d).ready
    <3>1. /\ Codec(d).present = q.present
          /\ Codec(d).dac = q.dac /\ Codec(d).vra = q.vra /\ Codec(d).rate = q.rate
      BY <2>6, <2>7, <2>10 DEF Atomic!CodecType
    <3>2. Codec(d).ready \in BOOLEAN /\ q.ready \in BOOLEAN
      BY <2>7, <2>10 DEF Atomic!CodecType
    <3>3. q.ready
      BY <2>10
    <3>4. Codec(d).ready = q.ready
      BY <2>13, <3>2, <3>3
    <3>5. Codec(d) = q
      BY <2>7, <2>10, <3>1, <3>4, SameCodec
    <3>6. QED
      BY <2>9, <3>5
  <2>14. CASE ~Codec(d).ready
    <3>1. /\ Codec(d).present = u.present /\ Codec(d).ready = u.ready
          /\ Codec(d).dac = u.dac /\ Codec(d).vra = u.vra /\ Codec(d).rate = u.rate
      BY <2>6, <2>7, <2>10, <2>12, <2>14 DEF Atomic!CodecType
    <3>2. Codec(d) = u
      BY <2>7, <2>12, <3>1, SameCodec
    <3>3. QED
      BY <2>9, <2>11, <3>2
  <2>15. QED
    BY <2>13, <2>14
<1>4. QED
  BY <1>2, <1>3

LEMMA VolumeWritten ==
  ASSUME NEW e, NEW c \in ChipType, NEW n \in Words, NEW d \in After(e, c, n),
         Addressed(e, c) => c.index = "volume"
  PROVE  Codec(d) = Codec(c)
<1>1. d = c
  BY DEF After, Stored
<1>2. QED
  BY <1>1

\* The configurations with extension e, pool p, a codec that looks like one of
\* C, a value in V and nothing fed; and those of them that selected register r.
Still(e, C, p, V) == {x \in Configs : /\ x.e = e /\ Codec(x.c) \in C /\ x.p = p
                                      /\ x.value \in V /\ x.fed = Atomic!Nothing}

Selected(e, C, p, V, r) == {x \in Still(e, C, p, V) :
                              /\ x.port = e.IoBase
                              /\ Addressed(e, x.c) => x.c.index = r}

LEMMA IndexLemma ==
  ASSUME NEW c \in ChipType, NEW r
  PROVE  /\ Codec([c EXCEPT !.index = r]) = Codec(c)
         /\ [c EXCEPT !.index = r].index = r /\ [c EXCEPT !.index = r].present = c.present
<1>1. PICK d : d = [c EXCEPT !.index = r]
  OBVIOUS
<1>2. d.present = c.present /\ d.ready = c.ready /\ d.regs = c.regs /\ d.index = r
  BY <1>1 DEF ChipType
<1>3. Codec(d) = Codec(c)
  BY <1>2 DEF Codec
<1>4. QED
  BY <1>1, <1>2, <1>3

LEMMA SelectTriple ==
  ASSUME NEW D, NEW size, NEW e, NEW C, NEW p, NEW V, NEW r \in Registers
  PROVE  /\ Triple(D, size, Still(e, C, p, V), << <<"select", r>> >>, Selected(e, C, p, V, r))
         /\ \A x \in Still(e, C, p, V), y \in Configs :
              Does(size, <<"select", r>>, x, y) => y \in Selected(e, C, p, V, r)
<1>1. PICK a : a = <<"select", r>>
  OBVIOUS
<1>2. a \in Accesses /\ a[1] = "select" /\ a[2] = r
  BY <1>1, AccessesLemma
<1>3. ASSUME NEW x \in Still(e, C, p, V), NEW y \in Configs, Does(size, a, x, y)
      PROVE  y \in Selected(e, C, p, V, r)
  <2>1. Selecting(a, x, y)
    BY <1>2, <1>3 DEF Does
  <2>2. x \in Configs /\ x.e = e /\ Codec(x.c) \in C /\ x.p = p /\ x.value \in V
        /\ x.fed = Atomic!Nothing
    BY DEF Still
  <2>3. PICK c : c = IF Addressed(e, x.c) THEN [x.c EXCEPT !.index = r] ELSE x.c
    OBVIOUS
  <2>4. y = [x EXCEPT !.c = c, !.port = e.IoBase]
    BY <1>2, <2>1, <2>2, <2>3 DEF Selecting, Addressed
  <2>5. x.c \in ChipType
    BY <2>2 DEF Configs
  <2>6. Codec(c) = Codec(x.c) /\ (Addressed(e, c) => c.index = r)
    BY <2>3, <2>5, IndexLemma DEF Addressed
  <2>7. y.e = x.e /\ y.c = c /\ y.p = x.p /\ y.port = e.IoBase /\ y.value = x.value /\ y.fed = x.fed
    BY <2>2, <2>4 DEF Configs
  <2>8. QED
    BY <2>2, <2>6, <2>7 DEF Still, Selected
<1>4. Still(e, C, p, V) \in SUBSET Configs
  BY DEF Still
<1>5. Triple(D, size, Still(e, C, p, V), <<a>>, Selected(e, C, p, V, r))
  BY <1>2, <1>3, <1>4, TripleAccess
<1>6. QED
  BY <1>1, <1>3, <1>5

LEMMA ReadingTyped == ASSUME NEW x \in Configs PROVE Reading(x) \in Words
<1>1. PICK c \in ChipType : c = x.c
  BY DEF Configs
<1>2. 65535 \in Words /\ Contents(c) \in Words
  BY WordsLemma, ContentsLemma
<1>3. QED
  BY <1>1, <1>2 DEF Reading

LEMMA ReadTriple ==
  ASSUME NEW D, NEW size, NEW e, NEW C, NEW p, NEW V, NEW W,
         NEW m \in {"set DAC", "clear DAC", "set VRA"},
         \A n \in Words : Changed(m, n) \in W
  PROVE  Triple(D, size, Still(e, C, p, V), << <<"in", m>> >>, Still(e, C, p, W))
<1>1. PICK a : a = <<"in", m>>
  OBVIOUS
<1>2. a \in Accesses /\ a[1] = "in" /\ a[2] = m
  BY <1>1, AccessesLemma
<1>3. ASSUME NEW x \in Still(e, C, p, V), NEW y \in Configs, Does(size, a, x, y)
      PROVE  y \in Still(e, C, p, W)
  <2>1. x \in Configs /\ x.e = e /\ Codec(x.c) \in C /\ x.p = p /\ x.fed = Atomic!Nothing
    BY DEF Still
  <2>2. Reading(x) \in Words
    BY <2>1, ReadingTyped
  <2>3. PICK n : n = Changed(m, Reading(x))
    OBVIOUS
  <2>4. n \in W
    BY <2>2, <2>3
  <2>5. y = [x EXCEPT !.port = 0, !.value = n]
    BY <1>2, <1>3, <2>3 DEF Does
  <2>6. y.e = x.e /\ y.c = x.c /\ y.p = x.p /\ y.value = n /\ y.fed = x.fed
    BY <2>1, <2>5 DEF Configs
  <2>7. QED
    BY <2>1, <2>4, <2>6 DEF Still
<1>4. Still(e, C, p, V) \in SUBSET Configs
  BY DEF Still
<1>5. Triple(D, size, Still(e, C, p, V), <<a>>, Still(e, C, p, W))
  BY <1>2, <1>3, <1>4, TripleAccess
<1>6. QED
  BY <1>1, <1>5

\* A write of one of N to the selected register r, that takes codecs of C to B.
LEMMA WritingLemma ==
  ASSUME NEW e, NEW C, NEW p, NEW V, NEW r, NEW B, NEW n,
         NEW x \in Selected(e, C, p, V, r), NEW y \in Configs, Writing(n, x, y),
         \A c \in ChipType : \A d \in After(e, c, n) :
           Codec(c) \in C /\ (Addressed(e, c) => c.index = r) => Codec(d) \in B
  PROVE  y \in Still(e, B, p, Words)
<1>1. x \in Configs /\ x.e = e /\ Codec(x.c) \in C /\ x.p = p /\ x.fed = Atomic!Nothing
      /\ x.port = e.IoBase /\ (Addressed(e, x.c) => x.c.index = r)
  BY DEF Still, Selected
<1>2. PICK d \in After(e, x.c, n) : y = [x EXCEPT !.c = d, !.port = 0, !.value = 0]
  BY <1>1 DEF Writing, Answering, After, Addressed
<1>3. Codec(d) \in B
  BY <1>1 DEF Configs
<1>4. y.e = x.e /\ y.c = d /\ y.p = x.p /\ y.fed = x.fed /\ y.value \in Words
  BY <1>1, <1>2 DEF Configs
<1>5. QED
  BY <1>1, <1>3, <1>4 DEF Still

LEMMA WriteTriple ==
  ASSUME NEW D, NEW size, NEW e, NEW C, NEW p, NEW V, NEW r, NEW B, NEW n \in Words,
         \A c \in ChipType : \A d \in After(e, c, n) :
           Codec(c) \in C /\ (Addressed(e, c) => c.index = r) => Codec(d) \in B
  PROVE  Triple(D, size, Selected(e, C, p, V, r), << <<"out", n>> >>, Still(e, B, p, Words))
<1>1. PICK a : a = <<"out", n>>
  OBVIOUS
<1>2. a \in Accesses /\ a[1] = "out" /\ a[2] = n
  BY <1>1, AccessesLemma
<1>3. ASSUME NEW x \in Selected(e, C, p, V, r), NEW y \in Configs, Does(size, a, x, y)
      PROVE  y \in Still(e, B, p, Words)
  <2>1. Writing(n, x, y)
    BY <1>2, <1>3 DEF Does
  <2>2. QED
    BY <2>1, WritingLemma
<1>4. Selected(e, C, p, V, r) \in SUBSET Configs
  BY DEF Still, Selected
<1>5. Triple(D, size, Selected(e, C, p, V, r), <<a>>, Still(e, B, p, Words))
  BY <1>2, <1>3, <1>4, TripleAccess
<1>6. QED
  BY <1>1, <1>5

LEMMA BackTriple ==
  ASSUME NEW D, NEW size, NEW e, NEW C, NEW p, NEW V, NEW r, NEW B,
         \A n \in V : \A c \in ChipType : \A d \in After(e, c, n) :
           Codec(c) \in C /\ (Addressed(e, c) => c.index = r) => Codec(d) \in B
  PROVE  Triple(D, size, Selected(e, C, p, V, r), << <<"out back">> >>, Still(e, B, p, Words))
<1>1. PICK a : a = <<"out back">>
  OBVIOUS
<1>2. a \in Accesses /\ a[1] = "out back"
  BY <1>1, AccessesLemma
<1>3. ASSUME NEW x \in Selected(e, C, p, V, r), NEW y \in Configs, Does(size, a, x, y)
      PROVE  y \in Still(e, B, p, Words)
  <2>1. PICK n \in V : n = x.value
    BY DEF Still, Selected
  <2>2. Writing(n, x, y)
    BY <1>2, <1>3, <2>1 DEF Does
  <2>3. QED
    BY <2>2, WritingLemma
<1>4. Selected(e, C, p, V, r) \in SUBSET Configs
  BY DEF Still, Selected
<1>5. Triple(D, size, Selected(e, C, p, V, r), <<a>>, Still(e, B, p, Words))
  BY <1>2, <1>3, <1>4, TripleAccess
<1>6. QED
  BY <1>1, <1>5

LEMMA StoreTriple ==
  ASSUME NEW D, NEW size, NEW e, NEW C, NEW p, NEW V, NEW f, NEW v, <<"store", f, v>> \in Stores
  PROVE  Triple(D, size, Still(e, C, p, V), Store(f, v), Still([e EXCEPT ![f] = v], C, p, V))
<1>1. PICK a : a = <<"store", f, v>>
  OBVIOUS
<1>2. a \in Accesses /\ a[1] = "store" /\ a[2] = f /\ a[3] = v
  BY <1>1, AccessesLemma
<1>3. PICK u : u = [e EXCEPT ![f] = v]
  OBVIOUS
<1>4. ASSUME NEW x \in Still(e, C, p, V), NEW y \in Configs, Does(size, a, x, y)
      PROVE  y \in Still(u, C, p, V)
  <2>1. x \in Configs /\ x.e = e /\ Codec(x.c) \in C /\ x.p = p /\ x.value \in V
        /\ x.fed = Atomic!Nothing
    BY DEF Still
  <2>2. y = [x EXCEPT !.e = [x.e EXCEPT ![a[2]] = a[3]]]
    BY <1>2, <1>4 DEF Does
  <2>3. y = [x EXCEPT !.e = u]
    BY <1>2, <1>3, <2>1, <2>2
  <2>4. y.e = u /\ y.c = x.c /\ y.p = x.p /\ y.value = x.value /\ y.fed = x.fed
    BY <2>1, <2>3 DEF Configs
  <2>5. QED
    BY <2>1, <2>4 DEF Still
<1>5. Still(e, C, p, V) \in SUBSET Configs
  BY DEF Still
<1>6. Triple(D, size, Still(e, C, p, V), <<a>>, Still(u, C, p, V))
  BY <1>2, <1>4, <1>5, TripleAccess
<1>7. Store(f, v) = <<a>>
  BY <1>1 DEF Store
<1>8. QED
  BY <1>3, <1>6, <1>7

LEMMA LoadTriple ==
  ASSUME NEW D, NEW size, NEW e, NEW C, NEW p, NEW V
  PROVE  Triple(D, size, Still(e, C, p, V), << <<"load">> >>,
                Still(e, C, p, {Atomic!Word(e.SampleRate)}))
<1>1. PICK a : a = <<"load">>
  OBVIOUS
<1>2. a \in Accesses /\ a[1] = "load"
  BY <1>1, AccessesLemma
<1>3. PICK n : n = Atomic!Word(e.SampleRate)
  OBVIOUS
<1>4. ASSUME NEW x \in Still(e, C, p, V), NEW y \in Configs, Does(size, a, x, y)
      PROVE  y \in Still(e, C, p, {n})
  <2>1. x \in Configs /\ x.e = e /\ Codec(x.c) \in C /\ x.p = p /\ x.fed = Atomic!Nothing
    BY DEF Still
  <2>2. y = [x EXCEPT !.value = n]
    BY <1>2, <1>3, <1>4, <2>1 DEF Does
  <2>3. y.e = x.e /\ y.c = x.c /\ y.p = x.p /\ y.value = n /\ y.fed = x.fed
    BY <2>1, <2>2 DEF Configs
  <2>4. QED
    BY <2>1, <2>3 DEF Still
<1>5. Still(e, C, p, V) \in SUBSET Configs
  BY DEF Still
<1>6. Triple(D, size, Still(e, C, p, V), <<a>>, Still(e, C, p, {n}))
  BY <1>2, <1>4, <1>5, TripleAccess
<1>7. QED
  BY <1>1, <1>3, <1>6

LEMMA FreeTriple ==
  ASSUME NEW D, NEW size, NEW e, NEW C, NEW p, NEW V
  PROVE  Triple(D, size, Still(e, C, p, V), << <<"free">> >>,
                Still(e, C, p \ {e.WriteBuffer}, V))
<1>1. PICK a : a = <<"free">>
  OBVIOUS
<1>2. a \in Accesses /\ a[1] = "free"
  BY <1>1, AccessesLemma
<1>3. PICK q : q = p \ {e.WriteBuffer}
  OBVIOUS
<1>4. ASSUME NEW x \in Still(e, C, p, V), NEW y \in Configs, Does(size, a, x, y)
      PROVE  y \in Still(e, C, q, V)
  <2>1. x \in Configs /\ x.e = e /\ Codec(x.c) \in C /\ x.p = p /\ x.value \in V
        /\ x.fed = Atomic!Nothing
    BY DEF Still
  <2>2. y = [x EXCEPT !.p = q]
    BY <1>2, <1>3, <1>4, <2>1 DEF Does
  <2>3. y.e = x.e /\ y.c = x.c /\ y.p = q /\ y.value = x.value /\ y.fed = x.fed
    BY <2>1, <2>2 DEF Configs
  <2>4. QED
    BY <2>1, <2>3 DEF Still
<1>5. Still(e, C, p, V) \in SUBSET Configs
  BY DEF Still
<1>6. Triple(D, size, Still(e, C, p, V), <<a>>, Still(e, C, q, V))
  BY <1>2, <1>4, <1>5, TripleAccess
<1>7. QED
  BY <1>1, <1>3, <1>6

\* The loop that polls, however often the register is selected again.
LEMMA PollTriple ==
  ASSUME NEW D, NEW size, NEW e, NEW C, NEW p, NEW V
  PROVE  Triple(D, size, Still(e, C, p, V), << <<"select", "power">>, <<"poll">> >>,
                Still(e, C, p, V))
<1>1. PICK a, b : a = <<"select", "power">> /\ b = <<"poll">>
  OBVIOUS
<1>2. /\ a \in Accesses /\ a[1] = "select" /\ a[2] = "power"
      /\ b \in Accesses /\ b[1] = "poll"
  BY <1>1, AccessesLemma DEF Registers
<1>3. PICK P : P = Still(e, C, p, V)
  OBVIOUS
<1>4. P \subseteq Configs
  BY <1>3 DEF Still
<1>5. SUFFICES ASSUME NEW k \in Routines, \A y \in P : <<y, k>> \in Safe(D, size)
               PROVE  \A x \in P : <<x, <<a, b>> \o k>> \in Safe(D, size)
  BY <1>1, <1>3 DEF Triple
<1>6. PICK s, t : s = <<b>> \o k /\ t = <<a>> \o s
  OBVIOUS
<1>7. /\ s \in Routines /\ s[1] = b /\ Tail(s) = k
      /\ t \in Routines /\ t[1] = a /\ Tail(t) = s
  BY <1>2, <1>6, PiecesRoutine
<1>8. t = <<a, b>> \o k
  <2>1. <<a>> \in Pieces /\ <<b>> \in Pieces /\ <<a>> \o <<b>> = <<a, b>>
    BY <1>2, PiecesLemma, PairLemma
  <2>2. QED
    BY <1>6, <2>1, PiecesRoutine, ZenonT(60)
<1>9. PICK H : H = P \X {s, t}
  OBVIOUS
<1>10. H \in SUBSET (Configs \X Routines) /\ \A x, z : <<x, z>> \in H <=> x \in P /\ z \in {s, t}
  BY <1>4, <1>7, <1>9
<1>11. ASSUME NEW x \in Configs, NEW z \in Routines, <<x, z>> \in H
       PROVE  /\ z[1][1] = "return" => <<x, z[1][2]>> \in D
              /\ \A y \in Configs, j \in Routines :
                   Goes(size, x, z, y, j) => <<y, j>> \in H \cup Safe(D, size)
  <2>1. x \in P /\ z \in {s, t}
    BY <1>10, <1>11
  <2>2. z[1][1] # "return"
    BY <1>2, <1>7, <2>1
  <2>3. ASSUME NEW y \in Configs, NEW j \in Routines, Goes(size, x, z, y, j), z = t
        PROVE  <<y, j>> \in H
    <3>1. Does(size, a, x, y) /\ j = s
      BY <1>2, <1>7, <2>3 DEF Goes, Leaves
    <3>2. y \in Selected(e, C, p, V, "power")
      BY <1>1, <1>3, <2>1, <3>1, SelectTriple DEF Registers
    <3>3. y \in P
      BY <1>3, <3>2 DEF Selected
    <3>4. QED
      BY <1>10, <3>1, <3>3
  <2>4. ASSUME NEW y \in Configs, NEW j \in Routines, Goes(size, x, z, y, j), z = s
        PROVE  <<y, j>> \in H \cup Safe(D, size)
    <3>1. \/ Does(size, b, x, y) /\ j = k
          \/ y = x /\ j = << <<"select", "power">> >> \o s
      BY <1>2, <1>7, <2>4 DEF Goes, Leaves
    <3>2. CASE Does(size, b, x, y) /\ j = k
      <4>1. y = [x EXCEPT !.port = 0]
        BY <1>2, <3>2 DEF Does
      <4>2. x \in Configs /\ x.e = e /\ Codec(x.c) \in C /\ x.p = p /\ x.value \in V
            /\ x.fed = Atomic!Nothing
        BY <1>3, <2>1 DEF Still
      <4>3. y.e = x.e /\ y.c = x.c /\ y.p = x.p /\ y.value = x.value /\ y.fed = x.fed
        BY <4>1, <4>2 DEF Configs
      <4>4. y \in P
        BY <1>3, <4>2, <4>3 DEF Still
      <4>5. QED
        BY <1>5, <3>2, <4>4
    <3>3. CASE y = x /\ j = << <<"select", "power">> >> \o s
      BY <1>1, <1>6, <1>10, <2>1, <3>3
    <3>4. QED
      BY <3>1, <3>2, <3>3
  <2>5. QED
    BY <2>1, <2>2, <2>3, <2>4
<1>12. H \subseteq Safe(D, size)
  BY <1>10, <1>11, SafeUnion
<1>13. QED
  BY <1>8, <1>10, <1>12

LEMMA ReturnTriple ==
  ASSUME NEW D, NEW size, NEW P \in SUBSET Configs, NEW s \in Pieces, NEW R \in SUBSET Configs,
         NEW st \in Atomic!Statuses, Triple(D, size, P, s, R), \A y \in R : <<y, st>> \in D
  PROVE  \A x \in P : <<x, s \o Return(st)>> \in Safe(D, size)
<1>1. \A y \in R : <<y, Return(st)>> \in Safe(D, size)
  BY SafeReturn
<1>2. Return(st) \in Routines
  BY ReturnLemma
<1>3. QED
  BY <1>1, <1>2 DEF Triple

\* With a block, or without one.
LEMMA AllocateSafe ==
  ASSUME NEW D, NEW size, NEW e, NEW C, NEW p, NEW V, NEW k \in Routines,
         \A b \in Blocks \ p : \A y \in Still([e EXCEPT !.WriteBuffer = b], C, p \cup {b}, V) :
           <<y, k>> \in Safe(D, size),
         \A y \in Still([[e EXCEPT !.WriteBuffer = Null] EXCEPT !["WriteBufferSize"] = 0], C, p, V) :
           <<y, "INSUFFICIENT_RESOURCES">> \in D
  PROVE  \A x \in Still(e, C, p, V) : <<x, << <<"allocate">> >> \o k>> \in Safe(D, size)
<1>1. PICK a : a = <<"allocate">>
  OBVIOUS
<1>2. a \in Accesses /\ a[1] = "allocate"
  BY <1>1, AccessesLemma
<1>3. PICK s : s = <<a>> \o k
  OBVIOUS
<1>4. s \in Routines /\ s[1] = a /\ Tail(s) = k
  BY <1>2, <1>3, PiecesRoutine
<1>5. SUFFICES ASSUME NEW x \in Still(e, C, p, V)
               PROVE  <<x, s>> \in Safe(D, size)
  BY <1>1, <1>3
<1>6. x \in Configs /\ x.e = e /\ Codec(x.c) \in C /\ x.p = p /\ x.value \in V
      /\ x.fed = Atomic!Nothing
  BY DEF Still
<1>7. ASSUME NEW y \in Configs, NEW j \in Routines, Goes(size, x, s, y, j)
      PROVE  <<y, j>> \in Safe(D, size)
  <2>1. CASE Does(size, a, x, y) /\ j = k
    <3>1. PICK b \in Blocks \ p : y = [x EXCEPT !.p = p \cup {b},
                                                !.e = [e EXCEPT !.WriteBuffer = b]]
      BY <1>2, <1>6, <2>1 DEF Does
    <3>2. PICK u, q : u = [e EXCEPT !.WriteBuffer = b] /\ q = p \cup {b}
      OBVIOUS
    <3>3. y.e = u /\ y.c = x.c /\ y.p = q /\ y.value = x.value /\ y.fed = x.fed
      BY <1>6, <3>1, <3>2 DEF Configs
    <3>4. y \in Still(u, C, q, V)
      BY <1>6, <3>3 DEF Still
    <3>5. QED
      BY <2>1, <3>2, <3>4
  <2>2. CASE y = [x EXCEPT !.e = [x.e EXCEPT !.WriteBuffer = Null]]
             /\ j = Store("WriteBufferSize", 0) \o Return("INSUFFICIENT_RESOURCES")
    <3>1. PICK u, w : /\ u = [e EXCEPT !.WriteBuffer = Null]
                      /\ w = [u EXCEPT !["WriteBufferSize"] = 0]
      OBVIOUS
    <3>2. y = [x EXCEPT !.e = u]
      BY <1>6, <2>2, <3>1
    <3>3. y.e = u /\ y.c = x.c /\ y.p = p /\ y.value = x.value /\ y.fed = x.fed
      BY <1>6, <3>2 DEF Configs
    <3>4. y \in Still(u, C, p, V)
      BY <1>6, <3>3 DEF Still
    <3>5. Triple(D, size, Still(u, C, p, V), Store("WriteBufferSize", 0), Still(w, C, p, V))
      BY <3>1, StoresLemma, StoreTriple
    <3>6. /\ Store("WriteBufferSize", 0) \in Pieces
          /\ "INSUFFICIENT_RESOURCES" \in Atomic!Statuses
      BY StorePieces DEF Atomic!Statuses
    <3>7. \A z \in Still(w, C, p, V) : <<z, "INSUFFICIENT_RESOURCES">> \in D
      BY <3>1
    <3>8. Still(u, C, p, V) \in SUBSET Configs /\ Still(w, C, p, V) \in SUBSET Configs
      BY DEF Still
    <3>9. QED
      BY <2>2, <3>4, <3>5, <3>6, <3>7, <3>8, ReturnTriple
  <2>3. QED
    BY <1>2, <1>4, <1>7, <2>1, <2>2 DEF Goes, Leaves
<1>8. s[1][1] # "return"
  BY <1>2, <1>4
<1>9. QED
  BY <1>4, <1>6, <1>7, <1>8, SafeStep

LEMMA ReadRegisterTriple ==
  ASSUME NEW D, NEW size, NEW e, NEW C, NEW p, NEW V, NEW W, NEW r \in Registers,
         NEW m \in {"set DAC", "clear DAC", "set VRA"}, \A n \in Words : Changed(m, n) \in W
  PROVE  Triple(D, size, Still(e, C, p, V), Ac97ReadRegister(r, m), Still(e, C, p, W))
<1>1. PICK a, b : a = <<"select", r>> /\ b = <<"in", m>>
  OBVIOUS
<1>2. a \in Accesses /\ b \in Accesses
  BY <1>1, AccessesLemma
<1>3. Triple(D, size, Still(e, C, p, V), <<a>>, Still(e, C, p, V))
  <2>1. Triple(D, size, Still(e, C, p, V), <<a>>, Selected(e, C, p, V, r))
    BY <1>1, SelectTriple
  <2>2. Selected(e, C, p, V, r) \subseteq Still(e, C, p, V)
    BY DEF Selected
  <2>3. QED
    BY <2>1, <2>2, TripleWeaken
<1>4. Triple(D, size, Still(e, C, p, V), <<b>>, Still(e, C, p, W))
  BY <1>1, ReadTriple
<1>5. Triple(D, size, Still(e, C, p, V), <<a, b>>, Still(e, C, p, W))
  BY <1>2, <1>3, <1>4, TriplePair
<1>6. QED
  BY <1>1, <1>5 DEF Ac97ReadRegister

LEMMA WriteRegisterTriple ==
  ASSUME NEW D, NEW size, NEW e, NEW C, NEW p, NEW V, NEW r \in Registers, NEW B, NEW n \in Words,
         \A c \in ChipType : \A d \in After(e, c, n) :
           Codec(c) \in C /\ (Addressed(e, c) => c.index = r) => Codec(d) \in B
  PROVE  Triple(D, size, Still(e, C, p, V), Ac97WriteRegister(r, n), Still(e, B, p, Words))
<1>1. PICK a, b : a = <<"select", r>> /\ b = <<"out", n>>
  OBVIOUS
<1>2. a \in Accesses /\ b \in Accesses
  BY <1>1, AccessesLemma
<1>3. Triple(D, size, Still(e, C, p, V), <<a>>, Selected(e, C, p, V, r))
  BY <1>1, SelectTriple
<1>4. Triple(D, size, Selected(e, C, p, V, r), <<b>>, Still(e, B, p, Words))
  BY <1>1, WriteTriple
<1>5. Triple(D, size, Still(e, C, p, V), <<a, b>>, Still(e, B, p, Words))
  BY <1>2, <1>3, <1>4, TriplePair
<1>6. QED
  BY <1>1, <1>5 DEF Ac97WriteRegister

LEMMA WriteBackTriple ==
  ASSUME NEW D, NEW size, NEW e, NEW C, NEW p, NEW V, NEW r \in Registers, NEW B,
         \A n \in V : \A c \in ChipType : \A d \in After(e, c, n) :
           Codec(c) \in C /\ (Addressed(e, c) => c.index = r) => Codec(d) \in B
  PROVE  Triple(D, size, Still(e, C, p, V), WriteBack(r), Still(e, B, p, Words))
<1>1. PICK a, b : a = <<"select", r>> /\ b = <<"out back">>
  OBVIOUS
<1>2. a \in Accesses /\ b \in Accesses
  BY <1>1, AccessesLemma
<1>3. Triple(D, size, Still(e, C, p, V), <<a>>, Selected(e, C, p, V, r))
  BY <1>1, SelectTriple
<1>4. Triple(D, size, Selected(e, C, p, V, r), <<b>>, Still(e, B, p, Words))
  BY <1>1, BackTriple
<1>5. Triple(D, size, Still(e, C, p, V), <<a, b>>, Still(e, B, p, Words))
  BY <1>2, <1>3, <1>4, TriplePair
<1>6. QED
  BY <1>1, <1>5 DEF WriteBack

\* The read and the write back of the powerdown register.
LEMMA PowerTriple ==
  ASSUME NEW D, NEW size, NEW e, NEW C, NEW p, NEW V, NEW B, NEW off \in BOOLEAN,
         \A c \in C : Atomic!SetDacPower(e, c, IF off THEN "off" ELSE "on") \subseteq B
  PROVE  \E W : /\ Triple(D, size, Still(e, C, p, V),
                          Ac97ReadRegister("power", IF off THEN "set DAC" ELSE "clear DAC"),
                          Still(e, C, p, W))
                /\ Triple(D, size, Still(e, C, p, W), WriteBack("power"), Still(e, B, p, Words))
<1>1. PICK W : W = {n \in Words : Bit(n, Dac) <=> off}
  OBVIOUS
<1>2. PICK m \in {"set DAC", "clear DAC"} : m = IF off THEN "set DAC" ELSE "clear DAC"
  OBVIOUS
<1>3. \A n \in Words : Changed(m, n) \in W
  BY <1>1, <1>2, BitLemma DEF Changed
<1>4. "power" \in Registers
  BY DEF Registers
<1>5. Triple(D, size, Still(e, C, p, V), Ac97ReadRegister("power", m), Still(e, C, p, W))
  BY <1>2, <1>3, <1>4, ReadRegisterTriple
<1>6. ASSUME NEW n \in W, NEW c \in ChipType, NEW d \in After(e, c, n), Codec(c) \in C,
             Addressed(e, c) => c.index = "power"
      PROVE  Codec(d) \in B
  <2>1. n \in Words /\ (Bit(n, Dac) <=> off)
    BY <1>1
  <2>2. Codec(d) \in Atomic!SetDacPower(e, Codec(c), IF Bit(n, Dac) THEN "off" ELSE "on")
    BY <1>6, <2>1, PowerWritten
  <2>3. QED
    BY <1>6, <2>1, <2>2
<1>7. Triple(D, size, Still(e, C, p, W), WriteBack("power"), Still(e, B, p, Words))
  BY <1>4, <1>6, WriteBackTriple
<1>8. QED
  BY <1>2, <1>5, <1>7

LEMMA StopTriple ==
  ASSUME NEW D, NEW size, NEW e, NEW C, NEW p, NEW V, NEW B,
         \A c \in C : Atomic!Ac97StopPlayback(e, c) \subseteq B
  PROVE  Triple(D, size, Still(e, C, p, V), Ac97StopPlayback,
                Still([e EXCEPT !["Playing"] = FALSE], B, p, Words))
<1>1. PICK r, w, s : /\ r = Ac97ReadRegister("power", "set DAC") /\ w = WriteBack("power")
                     /\ s = Store("Playing", FALSE)
  OBVIOUS
<1>2. r \in Pieces /\ w \in Pieces /\ s \in Pieces /\ r \o w \in Pieces
  <2>1. r \in Pieces /\ w \in Pieces
    BY <1>1, RegisterPieces DEF Registers
  <2>2. s \in Pieces
    BY <1>1, StorePieces
  <2>3. QED
    BY <2>1, <2>2, PiecesLemma
<1>3. PICK W : /\ Triple(D, size, Still(e, C, p, V), r, Still(e, C, p, W))
               /\ Triple(D, size, Still(e, C, p, W), w, Still(e, B, p, Words))
  <2>1. \A c \in C : Atomic!SetDacPower(e, c, IF TRUE THEN "off" ELSE "on") \subseteq B
    BY DEF Atomic!Ac97StopPlayback
  <2>2. \E W : /\ Triple(D, size, Still(e, C, p, V),
                         Ac97ReadRegister("power", IF TRUE THEN "set DAC" ELSE "clear DAC"),
                         Still(e, C, p, W))
               /\ Triple(D, size, Still(e, C, p, W), WriteBack("power"), Still(e, B, p, Words))
    BY <2>1, PowerTriple
  <2>3. QED
    BY <1>1, <2>2
<1>4. Triple(D, size, Still(e, C, p, V), r \o w, Still(e, B, p, Words))
  BY <1>2, <1>3, TripleConcat
<1>5. Triple(D, size, Still(e, B, p, Words), s, Still([e EXCEPT !["Playing"] = FALSE], B, p, Words))
  BY <1>1, StoresLemma, StoreTriple
<1>6. Triple(D, size, Still(e, C, p, V), (r \o w) \o s,
             Still([e EXCEPT !["Playing"] = FALSE], B, p, Words))
  BY <1>2, <1>4, <1>5, TripleConcat
<1>7. QED
  BY <1>1, <1>6 DEF Ac97StopPlayback

LEMMA ResetTriple ==
  ASSUME NEW D, NEW size, NEW e, NEW C, NEW p, NEW V, NEW B,
         \A c \in C : Atomic!Ac97Reset(e, c) \subseteq B
  PROVE  Triple(D, size, Still(e, C, p, V), Ac97Reset, Still(e, B, p, Words))
<1>1. PICK r, l, v : /\ r = Ac97WriteRegister("reset", 0) /\ v = Ac97WriteRegister("volume", 0)
                     /\ l = << <<"select", "power">>, <<"poll">> >>
  OBVIOUS
<1>2. 0 \in Words /\ "reset" \in Registers /\ "volume" \in Registers /\ "power" \in Registers
  BY WordsLemma DEF Registers
<1>3. r \in Pieces /\ l \in Pieces /\ v \in Pieces
  <2>1. r \in Pieces /\ v \in Pieces
    BY <1>1, <1>2, RegisterPieces
  <2>2. l \in Pieces
    BY <1>1, <1>2, AccessesLemma, PiecesLemma
  <2>3. QED
    BY <2>1, <2>2
<1>4. r \o l \in Pieces /\ (r \o l) \o v \in Pieces /\ ((r \o l) \o v) \o v \in Pieces
  BY <1>3, PiecesLemma
<1>5. PICK P, Q : P = Still(e, C, p, V) /\ Q = Still(e, B, p, Words)
  OBVIOUS
<1>6. Triple(D, size, P, r, Q)
  <2>1. ASSUME NEW c \in ChipType, NEW d \in After(e, c, 0), Codec(c) \in C,
               Addressed(e, c) => c.index = "reset"
        PROVE  Codec(d) \in B
    BY <1>2, <2>1, ResetWritten
  <2>2. QED
    BY <1>1, <1>2, <1>5, <2>1, WriteRegisterTriple
<1>7. Triple(D, size, Q, l, Q)
  BY <1>1, <1>5, PollTriple
<1>8. Triple(D, size, Q, v, Q)
  <2>1. ASSUME NEW c \in ChipType, NEW d \in After(e, c, 0), Codec(c) \in B,
               Addressed(e, c) => c.index = "volume"
        PROVE  Codec(d) \in B
    BY <1>2, <2>1, VolumeWritten
  <2>2. QED
    BY <1>1, <1>2, <1>5, <2>1, WriteRegisterTriple
<1>9. Triple(D, size, P, r \o l, Q)
  BY <1>3, <1>6, <1>7, TripleConcat
<1>10. Triple(D, size, P, (r \o l) \o v, Q)
  BY <1>3, <1>4, <1>8, <1>9, TripleConcat
<1>11. Triple(D, size, P, ((r \o l) \o v) \o v, Q)
  BY <1>3, <1>4, <1>8, <1>10, TripleConcat
<1>12. Triple(D, size, P, (((r \o l) \o v) \o v) \o v, Q)
  BY <1>3, <1>4, <1>8, <1>11, TripleConcat
<1>13. QED
  BY <1>1, <1>5, <1>12 DEF Ac97Reset

LEMMA RateTriple ==
  ASSUME NEW D, NEW size, NEW e, NEW C, NEW p, NEW V, NEW B, NEW rate \in Nat,
         \A c \in C : Atomic!Ac97SetSampleRate(e, c, rate) \subseteq B
  PROVE  Triple(D, size, Still(e, C, p, V), Ac97SetSampleRate(rate), Still(e, B, p, Words))
<1>1. PICK n \in Words : n = Atomic!Word(rate)
  BY WordLemma
<1>2. ASSUME NEW c \in ChipType, NEW d \in After(e, c, n), Codec(c) \in C,
             Addressed(e, c) => c.index = "rate"
      PROVE  Codec(d) \in B
  <2>1. Codec(d) \in Atomic!Ac97SetSampleRate(e, Codec(c), rate)
    BY <1>1, <1>2, RateWritten
  <2>2. QED
    BY <1>2, <2>1
<1>3. "rate" \in Registers
  BY DEF Registers
<1>4. Triple(D, size, Still(e, C, p, V), Ac97WriteRegister("rate", n), Still(e, B, p, Words))
  BY <1>2, <1>3, WriteRegisterTriple
<1>5. QED
  BY <1>1, <1>4 DEF Ac97SetSampleRate

LEMMA StartTriple ==
  ASSUME NEW D, NEW size, NEW e \in Atomic!ExtType, NEW C, NEW p, NEW V, NEW B,
         \A c \in C : \A d : Atomic!Ac97StartPlayback(e, c, d) => d \in B
  PROVE  Triple(D, size, Still(e, C, p, V), Ac97StartPlayback,
                Still([e EXCEPT !["Playing"] = TRUE], B, p, Words))
<1>1. PICK r1, w1, r2, w2, l, w3, s :
        /\ r1 = Ac97ReadRegister("power", "clear DAC") /\ w1 = WriteBack("power")
        /\ r2 = Ac97ReadRegister("status", "set VRA") /\ w2 = WriteBack("status")
        /\ l = << <<"load">> >> /\ w3 = WriteBack("rate") /\ s = Store("Playing", TRUE)
  OBVIOUS
<1>2. "power" \in Registers /\ "status" \in Registers /\ "rate" \in Registers
  BY DEF Registers
<1>3. /\ r1 \in Pieces /\ w1 \in Pieces /\ r2 \in Pieces /\ w2 \in Pieces
      /\ l \in Pieces /\ w3 \in Pieces /\ s \in Pieces
  <2>1. r1 \in Pieces /\ w1 \in Pieces /\ r2 \in Pieces /\ w2 \in Pieces /\ w3 \in Pieces
    BY <1>1, <1>2, RegisterPieces
  <2>2. l \in Pieces
    BY <1>1, AccessesLemma, PiecesLemma
  <2>3. s \in Pieces
    BY <1>1, StorePieces
  <2>4. QED
    BY <2>1, <2>2, <2>3
<1>4. PICK s1, s2, s3, s4, s5 :
        /\ s1 = r1 \o w1 /\ s2 = s1 \o r2 /\ s3 = s2 \o w2 /\ s4 = s3 \o l /\ s5 = s4 \o w3
  OBVIOUS
<1>5. s1 \in Pieces /\ s2 \in Pieces /\ s3 \in Pieces /\ s4 \in Pieces /\ s5 \in Pieces
  BY <1>3, <1>4, PiecesLemma
<1>6. PICK A1, A2 : /\ A1 = UNION {Atomic!SetDacPower(e, c, "on") : c \in C}
                    /\ A2 = UNION {Atomic!EnableVra(e, c) : c \in A1}
  OBVIOUS
<1>7. /\ \A c \in C : Atomic!SetDacPower(e, c, "on") \subseteq A1
      /\ \A c \in A1 : Atomic!EnableVra(e, c) \subseteq A2
      /\ \A c \in A2 : Atomic!Ac97SetSampleRate(e, c, e.SampleRate) \subseteq B
  BY <1>6 DEF Atomic!Ac97StartPlayback
<1>8. PICK W1 : /\ Triple(D, size, Still(e, C, p, V), r1, Still(e, C, p, W1))
                /\ Triple(D, size, Still(e, C, p, W1), w1, Still(e, A1, p, Words))
  <2>1. \A c \in C : Atomic!SetDacPower(e, c, IF FALSE THEN "off" ELSE "on") \subseteq A1
    BY <1>7
  <2>2. \E W : /\ Triple(D, size, Still(e, C, p, V),
                         Ac97ReadRegister("power", IF FALSE THEN "set DAC" ELSE "clear DAC"),
                         Still(e, C, p, W))
               /\ Triple(D, size, Still(e, C, p, W), WriteBack("power"), Still(e, A1, p, Words))
    BY <2>1, PowerTriple
  <2>3. QED
    BY <1>1, <2>2
<1>9. PICK W2 : W2 = {n \in Words : Bit(n, Vra)}
  OBVIOUS
<1>10. Triple(D, size, Still(e, A1, p, Words), r2, Still(e, A1, p, W2))
  <2>1. \A n \in Words : Changed("set VRA", n) \in W2
    BY <1>9, BitLemma DEF Changed
  <2>2. QED
    BY <1>1, <1>2, <2>1, ReadRegisterTriple
<1>11. Triple(D, size, Still(e, A1, p, W2), w2, Still(e, A2, p, Words))
  <2>1. ASSUME NEW n \in W2, NEW c \in ChipType, NEW d \in After(e, c, n), Codec(c) \in A1,
               Addressed(e, c) => c.index = "status"
        PROVE  Codec(d) \in A2
    <3>1. n \in Words /\ Bit(n, Vra)
      BY <1>9
    <3>2. Codec(d) \in Atomic!EnableVra(e, Codec(c))
      BY <2>1, <3>1, StatusWritten
    <3>3. QED
      BY <1>7, <2>1, <3>2
  <2>2. QED
    BY <1>1, <1>2, <2>1, WriteBackTriple
<1>12. PICK m : m = Atomic!Word(e.SampleRate)
  OBVIOUS
<1>13. Triple(D, size, Still(e, A2, p, Words), l, Still(e, A2, p, {m}))
  BY <1>1, <1>12, LoadTriple
<1>14. Triple(D, size, Still(e, A2, p, {m}), w3, Still(e, B, p, Words))
  <2>1. e.SampleRate \in Nat
    BY DEF Atomic!ExtType
  <2>2. ASSUME NEW n \in {m}, NEW c \in ChipType, NEW d \in After(e, c, n), Codec(c) \in A2,
               Addressed(e, c) => c.index = "rate"
        PROVE  Codec(d) \in B
    <3>1. d \in After(e, c, Atomic!Word(e.SampleRate))
      BY <1>12, <2>2
    <3>2. Codec(d) \in Atomic!Ac97SetSampleRate(e, Codec(c), e.SampleRate)
      BY <2>1, <2>2, <3>1, RateWritten
    <3>3. QED
      BY <1>7, <2>2, <3>2
  <2>3. QED
    BY <1>1, <1>2, <2>2, WriteBackTriple
<1>15. Triple(D, size, Still(e, B, p, Words), s, Still([e EXCEPT !["Playing"] = TRUE], B, p, Words))
  BY <1>1, StoresLemma, StoreTriple
<1>16. Triple(D, size, Still(e, C, p, V), s1, Still(e, A1, p, Words))
  BY <1>3, <1>4, <1>8, TripleConcat
<1>17. Triple(D, size, Still(e, C, p, V), s2, Still(e, A1, p, W2))
  BY <1>3, <1>4, <1>5, <1>10, <1>16, TripleConcat
<1>18. Triple(D, size, Still(e, C, p, V), s3, Still(e, A2, p, Words))
  BY <1>3, <1>4, <1>5, <1>11, <1>17, TripleConcat
<1>19. Triple(D, size, Still(e, C, p, V), s4, Still(e, A2, p, {m}))
  BY <1>3, <1>4, <1>5, <1>13, <1>18, TripleConcat
<1>20. Triple(D, size, Still(e, C, p, V), s5, Still(e, B, p, Words))
  BY <1>3, <1>4, <1>5, <1>14, <1>19, TripleConcat
<1>21. Triple(D, size, Still(e, C, p, V), s5 \o s, Still([e EXCEPT !["Playing"] = TRUE], B, p, Words))
  BY <1>3, <1>5, <1>15, <1>20, TripleConcat
<1>22. s5 \o s = Ac97StartPlayback
  BY <1>1, <1>4 DEF Ac97StartPlayback
<1>23. QED
  BY <1>21, <1>22

LEMMA ProbeTriple ==
  ASSUME NEW D, NEW size, NEW e, NEW c, NEW p, NEW V, e.IoBase = DefaultIoBase
  PROVE  Triple(D, size, Still(e, {c}, p, V), << <<"select", "vendor">>, <<"probe">> >>,
                Still(IF c.present THEN e ELSE [e EXCEPT !["IoBase"] = 0], {c}, p, V))
<1>1. PICK a, b : a = <<"select", "vendor">> /\ b = <<"probe">>
  OBVIOUS
<1>2. /\ a \in Accesses /\ b \in Accesses /\ b[1] = "probe" /\ "vendor" \in Registers
  BY <1>1, AccessesLemma DEF Registers
<1>3. PICK u : u = IF c.present THEN e ELSE [e EXCEPT !["IoBase"] = 0]
  OBVIOUS
<1>4. PICK P : P = Selected(e, {c}, p, V, "vendor")
  OBVIOUS
<1>5. P \in SUBSET Configs
  BY <1>4 DEF Selected, Still
<1>6. Triple(D, size, Still(e, {c}, p, V), <<a>>, P)
  BY <1>1, <1>2, <1>4, SelectTriple
<1>7. ASSUME NEW x \in P, NEW y \in Configs, Does(size, b, x, y)
      PROVE  y \in Still(u, {c}, p, V)
  <2>1. /\ x \in Configs /\ x.e = e /\ Codec(x.c) = c /\ x.p = p /\ x.value \in V
        /\ x.fed = Atomic!Nothing /\ x.port = DefaultIoBase
        /\ Addressed(e, x.c) => x.c.index = "vendor"
    BY <1>4 DEF Selected, Still
  <2>2. x.c \in ChipType
    BY <2>1 DEF Configs
  <2>3. x.c.present = c.present
    BY <2>1, <2>2, CodecLemma
  <2>4. Probed(x) = u
    <3>1. CASE x.c.present
      <4>1. x.c.index = "vendor"
        BY <2>1, <3>1 DEF Addressed
      <4>2. Contents(x.c) = 16708
        BY <4>1 DEF Contents, VendorId
      <4>3. Reading(x) \notin {0, 65535}
        BY <2>1, <3>1, <4>2 DEF Reading, Answering
      <4>4. QED
        BY <1>3, <2>1, <2>3, <3>1, <4>3 DEF Probed
    <3>2. CASE ~x.c.present
      <4>1. Reading(x) \in {0, 65535}
        BY <3>2 DEF Reading, Answering
      <4>2. u = [e EXCEPT !["IoBase"] = 0]
        BY <1>3, <2>3, <3>2
      <4>3. Probed(x) = [x.e EXCEPT !.IoBase = 0]
        BY <4>1 DEF Probed
      <4>4. QED
        BY <2>1, <4>2, <4>3
    <3>3. QED
      BY <3>1, <3>2
  <2>5. y = [x EXCEPT !.e = u, !.port = 0]
    BY <1>2, <1>7, <2>4 DEF Does
  <2>6. y.e = u /\ y.c = x.c /\ y.p = x.p /\ y.value = x.value /\ y.fed = x.fed
    BY <2>1, <2>5 DEF Configs
  <2>7. QED
    BY <2>1, <2>6 DEF Still
<1>8. Triple(D, size, P, <<b>>, Still(u, {c}, p, V))
  BY <1>2, <1>5, <1>7, TripleAccess
<1>9. Triple(D, size, Still(e, {c}, p, V), <<a, b>>, Still(u, {c}, p, V))
  BY <1>2, <1>6, <1>8, TriplePair
<1>10. QED
  BY <1>1, <1>3, <1>9

\* Where Ac97Driver takes each request from rest state z: what the routine
\* leaves, y, and what it answers, st.
Begun(z) == Still(z.ext, {Codec(z.chip)}, z.pool, Words)
StopsTo(z, y) == Codec(y.c) \in Atomic!Ac97StopPlayback(z.ext, Codec(z.chip))
FreedPool(z) == z.pool \ {z.ext.WriteBuffer}

CreateEnds(z, y, st) ==
  /\ y.e = [z.ext EXCEPT !.Playing = FALSE, !.Configured = FALSE]
  /\ Codec(y.c) = Codec(z.chip) /\ y.p = z.pool
  /\ st = "SUCCESS" /\ y.fed = Atomic!Nothing

CloseEnds(z, y, st) ==
  /\ y.e = [z.ext EXCEPT !.Playing = FALSE, !.Configured = FALSE, !.WriteBuffer = Null]
  /\ StopsTo(z, y) /\ y.p = FreedPool(z)
  /\ st = "SUCCESS" /\ y.fed = Atomic!Nothing

StopIoctlEnds(z, y, st) ==
  /\ y.e = [z.ext EXCEPT !.Playing = FALSE]
  /\ StopsTo(z, y) /\ y.p = z.pool
  /\ st = "SUCCESS" /\ y.fed = Atomic!Nothing

StopDeviceEnds(z, y, st) ==
  /\ y.e = [z.ext EXCEPT !.Playing = FALSE, !.DeviceStarted = FALSE]
  /\ StopsTo(z, y) /\ y.p = z.pool
  /\ st = "SUCCESS" /\ y.fed = Atomic!Nothing

StartDeviceEnds(z, y, st) ==
  /\ y.e = [z.ext EXCEPT !.IoBase = IF Codec(z.chip).present THEN DefaultIoBase ELSE 0,
                         !.DeviceStarted = TRUE]
  /\ Codec(y.c) = Codec(z.chip) /\ y.p = z.pool
  /\ st = "SUCCESS" /\ y.fed = Atomic!Nothing

WriteEnds(z, size, y, st) ==
  /\ y.e = z.ext /\ Codec(y.c) = Codec(z.chip) /\ y.p = z.pool
  /\ IF z.ext.Configured /\ z.ext.Playing
     THEN st = "SUCCESS" /\ y.fed = Atomic!Ac97FeedSamples(z.ext, size)
     ELSE st = "INVALID_DEVICE_STATE" /\ y.fed = Atomic!Nothing

LEMMA StopBegun ==
  ASSUME NEW D, NEW size, NEW z
  PROVE  /\ Triple(D, size, Begun(z), Ac97StopPlayback,
                   Still([z.ext EXCEPT !["Playing"] = FALSE],
                         Atomic!Ac97StopPlayback(z.ext, Codec(z.chip)), z.pool, Words))
         /\ Begun(z) \in SUBSET Configs /\ Ac97StopPlayback \in Pieces
         /\ Return("SUCCESS") \in Routines /\ "SUCCESS" \in Atomic!Statuses
<1>1. \A c \in {Codec(z.chip)} : Atomic!Ac97StopPlayback(z.ext, c)
                                   \subseteq Atomic!Ac97StopPlayback(z.ext, Codec(z.chip))
  OBVIOUS
<1>2. Triple(D, size, Begun(z), Ac97StopPlayback,
             Still([z.ext EXCEPT !["Playing"] = FALSE],
                   Atomic!Ac97StopPlayback(z.ext, Codec(z.chip)), z.pool, Words))
  BY <1>1, StopTriple DEF Begun
<1>3. Begun(z) \in SUBSET Configs
  BY DEF Begun, Still
<1>4. "SUCCESS" \in Atomic!Statuses
  BY DEF Atomic!Statuses
<1>5. QED
  BY <1>2, <1>3, <1>4, RoutinePieces, ReturnLemma

LEMMA CreateSafe ==
  ASSUME NEW D, NEW size, NEW z, z.ext \in Atomic!ExtType,
         \A y \in Configs : CreateEnds(z, y, "SUCCESS") => <<y, "SUCCESS">> \in D
  PROVE  \A x \in Begun(z) : <<x, Ac97DispatchCreate>> \in Safe(D, size)
<1>1. PICK s1, s2 : s1 = Store("Playing", FALSE) /\ s2 = Store("Configured", FALSE)
  OBVIOUS
<1>2. s1 \in Pieces /\ s2 \in Pieces /\ s1 \o s2 \in Pieces
  BY <1>1, StorePieces, PiecesLemma
<1>3. PICK e, f : e = [z.ext EXCEPT !["Playing"] = FALSE] /\ f = [e EXCEPT !["Configured"] = FALSE]
  OBVIOUS
<1>4. PICK C : C = {Codec(z.chip)}
  OBVIOUS
<1>5. Triple(D, size, Begun(z), s1, Still(e, C, z.pool, Words))
  BY <1>1, <1>3, <1>4, StoresLemma, StoreTriple DEF Begun
<1>6. Triple(D, size, Still(e, C, z.pool, Words), s2, Still(f, C, z.pool, Words))
  BY <1>1, <1>3, StoresLemma, StoreTriple
<1>7. Triple(D, size, Begun(z), s1 \o s2, Still(f, C, z.pool, Words))
  BY <1>2, <1>5, <1>6, TripleConcat
<1>8. f = [z.ext EXCEPT !.Playing = FALSE, !.Configured = FALSE]
  BY <1>3 DEF Atomic!ExtType
<1>9. \A y \in Still(f, C, z.pool, Words) : <<y, "SUCCESS">> \in D
  BY <1>4, <1>8 DEF Still, CreateEnds
<1>10. Still(f, C, z.pool, Words) \in SUBSET Configs
  BY DEF Still
<1>11. \A x \in Begun(z) : <<x, (s1 \o s2) \o Return("SUCCESS")>> \in Safe(D, size)
  BY <1>2, <1>7, <1>9, <1>10, StopBegun, ReturnTriple
<1>12. QED
  BY <1>1, <1>11 DEF Ac97DispatchCreate

LEMMA CloseSafe ==
  ASSUME NEW D, NEW size, NEW z, z.ext \in Atomic!ExtType,
         \A y \in Configs : CloseEnds(z, y, "SUCCESS") => <<y, "SUCCESS">> \in D
  PROVE  \A x \in Begun(z) : <<x, Ac97DispatchClose>> \in Safe(D, size)
<1>1. PICK s, l, s1, s2 : /\ s = Ac97StopPlayback /\ l = << <<"free">> >>
                          /\ s1 = Store("WriteBuffer", Null) /\ s2 = Store("Configured", FALSE)
  OBVIOUS
<1>2. s \in Pieces /\ l \in Pieces /\ s1 \in Pieces /\ s2 \in Pieces
  <2>1. l \in Pieces
    BY <1>1, AccessesLemma, PiecesLemma
  <2>2. s1 \in Pieces /\ s2 \in Pieces
    BY <1>1, StorePieces
  <2>3. QED
    BY <1>1, <2>1, <2>2, RoutinePieces
<1>3. s \o l \in Pieces /\ (s \o l) \o s1 \in Pieces /\ ((s \o l) \o s1) \o s2 \in Pieces
  BY <1>2, PiecesLemma
<1>4. PICK e, f, g : /\ e = [z.ext EXCEPT !["Playing"] = FALSE]
                     /\ f = [e EXCEPT !["WriteBuffer"] = Null]
                     /\ g = [f EXCEPT !["Configured"] = FALSE]
  OBVIOUS
<1>5. PICK C, q : C = Atomic!Ac97StopPlayback(z.ext, Codec(z.chip)) /\ q = FreedPool(z)
  OBVIOUS
<1>6. Triple(D, size, Begun(z), s, Still(e, C, z.pool, Words))
  BY <1>1, <1>4, <1>5, StopBegun
<1>7. Triple(D, size, Still(e, C, z.pool, Words), l, Still(e, C, q, Words))
  <2>1. e.WriteBuffer = z.ext.WriteBuffer
    BY <1>4 DEF Atomic!ExtType
  <2>2. q = z.pool \ {e.WriteBuffer}
    BY <1>5, <2>1 DEF FreedPool
  <2>3. QED
    BY <1>1, <2>2, FreeTriple
<1>8. Triple(D, size, Still(e, C, q, Words), s1, Still(f, C, q, Words))
  BY <1>1, <1>4, StoresLemma, StoreTriple
<1>9. Triple(D, size, Still(f, C, q, Words), s2, Still(g, C, q, Words))
  BY <1>1, <1>4, StoresLemma, StoreTriple
<1>10. Triple(D, size, Begun(z), s \o l, Still(e, C, q, Words))
  BY <1>2, <1>6, <1>7, TripleConcat
<1>11. Triple(D, size, Begun(z), (s \o l) \o s1, Still(f, C, q, Words))
  BY <1>2, <1>3, <1>8, <1>10, TripleConcat
<1>12. Triple(D, size, Begun(z), ((s \o l) \o s1) \o s2, Still(g, C, q, Words))
  BY <1>2, <1>3, <1>9, <1>11, TripleConcat
<1>13. g = [z.ext EXCEPT !.Playing = FALSE, !.Configured = FALSE, !.WriteBuffer = Null]
  BY <1>4 DEF Atomic!ExtType
<1>14. \A y \in Still(g, C, q, Words) : <<y, "SUCCESS">> \in D
  BY <1>5, <1>13 DEF Still, CloseEnds, StopsTo
<1>15. Still(g, C, q, Words) \in SUBSET Configs
  BY DEF Still
<1>16. \A x \in Begun(z) :
         <<x, (((s \o l) \o s1) \o s2) \o Return("SUCCESS")>> \in Safe(D, size)
  BY <1>3, <1>12, <1>14, <1>15, StopBegun, ReturnTriple
<1>17. QED
  BY <1>1, <1>16 DEF Ac97DispatchClose

LEMMA StopIoctlSafe ==
  ASSUME NEW D, NEW size, NEW z, z.ext \in Atomic!ExtType,
         \A y \in Configs : StopIoctlEnds(z, y, "SUCCESS") => <<y, "SUCCESS">> \in D
  PROVE  \A x \in Begun(z) : <<x, StopIoctl>> \in Safe(D, size)
<1>1. PICK e, C : /\ e = [z.ext EXCEPT !["Playing"] = FALSE]
                  /\ C = Atomic!Ac97StopPlayback(z.ext, Codec(z.chip))
  OBVIOUS
<1>2. Triple(D, size, Begun(z), Ac97StopPlayback, Still(e, C, z.pool, Words))
  BY <1>1, StopBegun
<1>3. e = [z.ext EXCEPT !.Playing = FALSE]
  BY <1>1
<1>4. \A y \in Still(e, C, z.pool, Words) : <<y, "SUCCESS">> \in D
  BY <1>1, <1>3 DEF Still, StopIoctlEnds, StopsTo
<1>5. Still(e, C, z.pool, Words) \in SUBSET Configs
  BY DEF Still
<1>6. \A x \in Begun(z) : <<x, Ac97StopPlayback \o Return("SUCCESS")>> \in Safe(D, size)
  BY <1>2, <1>4, <1>5, StopBegun, ReturnTriple
<1>7. QED
  BY <1>6 DEF StopIoctl

LEMMA StopDeviceSafe ==
  ASSUME NEW D, NEW size, NEW z, z.ext \in Atomic!ExtType,
         \A y \in Configs : StopDeviceEnds(z, y, "SUCCESS") => <<y, "SUCCESS">> \in D
  PROVE  \A x \in Begun(z) : <<x, StopDevice>> \in Safe(D, size)
<1>1. PICK s, s1 : s = Ac97StopPlayback /\ s1 = Store("DeviceStarted", FALSE)
  OBVIOUS
<1>2. s \in Pieces /\ s1 \in Pieces /\ s \o s1 \in Pieces
  BY <1>1, StorePieces, PiecesLemma, RoutinePieces
<1>3. PICK e, f, C : /\ e = [z.ext EXCEPT !["Playing"] = FALSE]
                     /\ f = [e EXCEPT !["DeviceStarted"] = FALSE]
                     /\ C = Atomic!Ac97StopPlayback(z.ext, Codec(z.chip))
  OBVIOUS
<1>4. Triple(D, size, Begun(z), s, Still(e, C, z.pool, Words))
  BY <1>1, <1>3, StopBegun
<1>5. Triple(D, size, Still(e, C, z.pool, Words), s1, Still(f, C, z.pool, Words))
  BY <1>1, <1>3, StoresLemma, StoreTriple
<1>6. Triple(D, size, Begun(z), s \o s1, Still(f, C, z.pool, Words))
  BY <1>2, <1>4, <1>5, TripleConcat
<1>7. f = [z.ext EXCEPT !.Playing = FALSE, !.DeviceStarted = FALSE]
  BY <1>3 DEF Atomic!ExtType
<1>8. \A y \in Still(f, C, z.pool, Words) : <<y, "SUCCESS">> \in D
  BY <1>3, <1>7 DEF Still, StopDeviceEnds, StopsTo
<1>9. Still(f, C, z.pool, Words) \in SUBSET Configs
  BY DEF Still
<1>10. \A x \in Begun(z) : <<x, (s \o s1) \o Return("SUCCESS")>> \in Safe(D, size)
  BY <1>2, <1>6, <1>8, <1>9, StopBegun, ReturnTriple
<1>11. QED
  BY <1>1, <1>10 DEF StopDevice

LEMMA StartDeviceSafe ==
  ASSUME NEW D, NEW size, NEW z, z.ext \in Atomic!ExtType,
         \A y \in Configs : StartDeviceEnds(z, y, "SUCCESS") => <<y, "SUCCESS">> \in D
  PROVE  \A x \in Begun(z) : <<x, StartDevice>> \in Safe(D, size)
<1>1. PICK s1, l, s2 : /\ s1 = Store("IoBase", DefaultIoBase) /\ s2 = Store("DeviceStarted", TRUE)
                       /\ l = << <<"select", "vendor">>, <<"probe">> >>
  OBVIOUS
<1>2. s1 \in Pieces /\ l \in Pieces /\ s2 \in Pieces
  <2>1. l \in Pieces
    BY <1>1, AccessesLemma, PiecesLemma DEF Registers
  <2>2. s1 \in Pieces /\ s2 \in Pieces
    BY <1>1, StorePieces
  <2>3. QED
    BY <2>1, <2>2
<1>3. s1 \o l \in Pieces /\ (s1 \o l) \o s2 \in Pieces
  BY <1>2, PiecesLemma
<1>4. PICK c, e, f, g : /\ c = Codec(z.chip) /\ e = [z.ext EXCEPT !["IoBase"] = DefaultIoBase]
                        /\ f = IF c.present THEN e ELSE [e EXCEPT !["IoBase"] = 0]
                        /\ g = [f EXCEPT !["DeviceStarted"] = TRUE]
  OBVIOUS
<1>5. Triple(D, size, Begun(z), s1, Still(e, {c}, z.pool, Words))
  BY <1>1, <1>4, StoresLemma, StoreTriple DEF Begun
<1>6. e.IoBase = DefaultIoBase
  BY <1>4 DEF Atomic!ExtType
<1>7. Triple(D, size, Still(e, {c}, z.pool, Words), l, Still(f, {c}, z.pool, Words))
  BY <1>1, <1>4, <1>6, ProbeTriple
<1>8. Triple(D, size, Still(f, {c}, z.pool, Words), s2, Still(g, {c}, z.pool, Words))
  BY <1>1, <1>4, StoresLemma, StoreTriple
<1>9. Triple(D, size, Begun(z), s1 \o l, Still(f, {c}, z.pool, Words))
  BY <1>2, <1>5, <1>7, TripleConcat
<1>10. Triple(D, size, Begun(z), (s1 \o l) \o s2, Still(g, {c}, z.pool, Words))
  BY <1>2, <1>3, <1>8, <1>9, TripleConcat
<1>11. g = [z.ext EXCEPT !.IoBase = IF c.present THEN DefaultIoBase ELSE 0,
                         !.DeviceStarted = TRUE]
  <2>1. CASE c.present
    BY <1>4, <2>1 DEF Atomic!ExtType
  <2>2. CASE ~c.present
    BY <1>4, <2>2 DEF Atomic!ExtType
  <2>3. QED
    BY <2>1, <2>2
<1>12. \A y \in Still(g, {c}, z.pool, Words) : <<y, "SUCCESS">> \in D
  BY <1>4, <1>11 DEF Still, StartDeviceEnds
<1>13. Still(g, {c}, z.pool, Words) \in SUBSET Configs
  BY DEF Still
<1>14. \A x \in Begun(z) : <<x, ((s1 \o l) \o s2) \o Return("SUCCESS")>> \in Safe(D, size)
  BY <1>3, <1>10, <1>12, <1>13, StopBegun, ReturnTriple
<1>15. QED
  BY <1>1, <1>14 DEF StartDevice

LEMMA WriteSafe ==
  ASSUME NEW D, NEW size \in Nat, NEW z, z.ext \in Atomic!ExtType,
         \A y \in Configs, st \in Atomic!Statuses : WriteEnds(z, size, y, st) => <<y, st>> \in D
  PROVE  \A x \in Begun(z) : <<x, Ac97HandleWrite>> \in Safe(D, size)
<1>1. PICK a, b, r : a = <<"check">> /\ b = <<"feed">> /\ r = Return("SUCCESS")
  OBVIOUS
<1>2. /\ a \in Accesses /\ b \in Accesses /\ a[1] = "check" /\ b[1] = "feed" /\ r \in Routines
  BY <1>1, AccessesLemma, StopBegun
<1>3. PICK s, t : t = <<b>> \o r /\ s = <<a>> \o t
  OBVIOUS
<1>4. /\ t \in Routines /\ t[1] = b /\ Tail(t) = r
      /\ s \in Routines /\ s[1] = a /\ Tail(s) = t
  BY <1>2, <1>3, PiecesRoutine
<1>5. s = Ac97HandleWrite
  <2>1. <<a>> \in Pieces /\ <<b>> \in Pieces /\ <<a>> \o <<b>> = <<a, b>>
    BY <1>2, PiecesLemma, PairLemma
  <2>2. (<<a>> \o <<b>>) \o r = <<a>> \o (<<b>> \o r)
    BY <1>2, <2>1, PiecesRoutine
  <2>3. s = <<a, b>> \o r
    BY <1>3, <2>1, <2>2
  <2>4. QED
    BY <1>1, <2>3 DEF Ac97HandleWrite
<1>6. SUFFICES ASSUME NEW x \in Begun(z)
               PROVE  <<x, s>> \in Safe(D, size)
  BY <1>5
<1>7. x \in Configs /\ x.e = z.ext /\ Codec(x.c) = Codec(z.chip) /\ x.p = z.pool
      /\ x.fed = Atomic!Nothing
  BY DEF Begun, Still
<1>8. "SUCCESS" \in Atomic!Statuses /\ "INVALID_DEVICE_STATE" \in Atomic!Statuses
  BY DEF Atomic!Statuses
<1>9. ASSUME z.ext.Configured /\ z.ext.Playing
      PROVE  <<x, t>> \in Safe(D, size)
  <2>1. ASSUME NEW y \in Configs, NEW j \in Routines, Goes(size, x, t, y, j)
        PROVE  <<y, j>> \in Safe(D, size)
    <3>1. Does(size, b, x, y) /\ j = r
      BY <1>2, <1>4, <2>1 DEF Goes, Leaves
    <3>2. PICK f : f = Atomic!Ac97FeedSamples(z.ext, size)
      OBVIOUS
    <3>3. y = [x EXCEPT !.fed = f]
      BY <1>2, <1>7, <3>1, <3>2 DEF Does
    <3>4. y.e = x.e /\ y.c = x.c /\ y.p = x.p /\ y.fed = f
      BY <1>7, <3>3 DEF Configs
    <3>5. WriteEnds(z, size, y, "SUCCESS")
      BY <1>7, <1>9, <3>2, <3>4 DEF WriteEnds
    <3>6. QED
      BY <1>1, <1>8, <3>1, <3>5, SafeReturn
  <2>2. t[1][1] # "return"
    BY <1>2, <1>4
  <2>3. QED
    BY <1>4, <1>7, <2>1, <2>2, SafeStep
<1>10. ASSUME ~(z.ext.Configured /\ z.ext.Playing)
       PROVE  <<x, Return("INVALID_DEVICE_STATE")>> \in Safe(D, size)
  <2>1. WriteEnds(z, size, x, "INVALID_DEVICE_STATE")
    BY <1>7, <1>10 DEF WriteEnds
  <2>2. QED
    BY <1>7, <1>8, <2>1, SafeReturn
<1>11. ASSUME NEW y \in Configs, NEW j \in Routines, Goes(size, x, s, y, j)
       PROVE  <<y, j>> \in Safe(D, size)
  <2>1. \/ z.ext.Configured /\ z.ext.Playing /\ y = x /\ j = t
        \/ ~(z.ext.Configured /\ z.ext.Playing) /\ y = x /\ j = Return("INVALID_DEVICE_STATE")
    BY <1>2, <1>4, <1>7, <1>11 DEF Goes, Does, Leaves
  <2>2. QED
    BY <1>9, <1>10, <2>1
<1>12. s[1][1] # "return"
  BY <1>2, <1>4
<1>13. QED
  BY <1>4, <1>7, <1>11, <1>12, SafeStep

\* The codec is reached through IoBase only.
LEMMA SameBase ==
  ASSUME NEW e, NEW f, e.IoBase = f.IoBase
  PROVE  /\ \A c : Atomic!Ac97Reset(e, c) = Atomic!Ac97Reset(f, c)
         /\ \A c, r : Atomic!Ac97SetSampleRate(e, c, r) = Atomic!Ac97SetSampleRate(f, c, r)
         /\ \A c, w : Atomic!SetDacPower(e, c, w) = Atomic!SetDacPower(f, c, w)
         /\ \A c : Atomic!EnableVra(e, c) = Atomic!EnableVra(f, c)
         /\ e.SampleRate = f.SampleRate =>
              \A c, d : Atomic!Ac97StartPlayback(e, c, d) <=> Atomic!Ac97StartPlayback(f, c, d)
<1>1. \A c, n : Atomic!Poke(e, c, n) = Atomic!Poke(f, c, n)
  BY DEF Atomic!Poke
<1>2. \A c : Atomic!Ac97Reset(e, c) = Atomic!Ac97Reset(f, c)
  BY DEF Atomic!Ac97Reset
<1>3. \A c, r : Atomic!Ac97SetSampleRate(e, c, r) = Atomic!Ac97SetSampleRate(f, c, r)
  BY <1>1 DEF Atomic!Ac97SetSampleRate
<1>4. \A c, w : Atomic!SetDacPower(e, c, w) = Atomic!SetDacPower(f, c, w)
  BY <1>1 DEF Atomic!SetDacPower
<1>5. \A c : Atomic!EnableVra(e, c) = Atomic!EnableVra(f, c)
  BY <1>1 DEF Atomic!EnableVra
<1>6. e.SampleRate = f.SampleRate =>
        \A c, d : Atomic!Ac97StartPlayback(e, c, d) <=> Atomic!Ac97StartPlayback(f, c, d)
  BY <1>3, <1>4, <1>5 DEF Atomic!Ac97StartPlayback
<1>7. QED
  BY <1>2, <1>3, <1>4, <1>5, <1>6

Reformed(z, cfg) == [z.ext EXCEPT !.Playing = FALSE, !.SampleRate = cfg.SampleRate,
                                  !.Channels = cfg.Channels,
                                  !.BitsPerSample = cfg.BitsPerSample]

\* The codec once it is stopped, reset and set to the requested rate.
Rated(z, cfg) ==
  UNION {UNION {Atomic!Ac97SetSampleRate(z.ext, c2, cfg.SampleRate) :
                  c2 \in Atomic!Ac97Reset(z.ext, c1)} :
           c1 \in Atomic!Ac97StopPlayback(z.ext, Codec(z.chip))}

InvalidEnds(z, cfg, y, st) ==
  /\ ~ValidRequest(cfg)
  /\ y.e = [z.ext EXCEPT !.Playing = FALSE]
  /\ StopsTo(z, y) /\ y.p = z.pool
  /\ st = "INVALID_PARAMETER" /\ y.fed = Atomic!Nothing

NoPoolEnds(z, cfg, y, st) ==
  /\ ValidRequest(cfg)
  /\ y.e = [Reformed(z, cfg) EXCEPT !.WriteBuffer = Null, !.WriteBufferSize = 0]
  /\ Codec(y.c) \in Rated(z, cfg) /\ y.p = FreedPool(z)
  /\ st = "INSUFFICIENT_RESOURCES" /\ y.fed = Atomic!Nothing

ConfiguredEnds(z, cfg, y, st) ==
  /\ ValidRequest(cfg)
  /\ \E b \in Blocks \ FreedPool(z) :
       /\ y.p = FreedPool(z) \cup {b}
       /\ y.e = [Reformed(z, cfg) EXCEPT !.WriteBuffer = b,
                                         !.WriteBufferSize = Atomic!BufferSize(cfg),
                                         !.Configured = TRUE, !.Playing = TRUE]
  /\ \E c \in Rated(z, cfg) : Atomic!Ac97StartPlayback(Reformed(z, cfg), c, Codec(y.c))
  /\ st = "SUCCESS" /\ y.fed = Atomic!Nothing

LEMMA InvalidSafe ==
  ASSUME NEW D, NEW size, NEW z, z.ext \in Atomic!ExtType, NEW cfg \in Requests, ~ValidRequest(cfg),
         \A y \in Configs : InvalidEnds(z, cfg, y, "INVALID_PARAMETER") => <<y, "INVALID_PARAMETER">> \in D
  PROVE  \A x \in Begun(z) : <<x, Ac97ConfigureAndPlay(cfg)>> \in Safe(D, size)
<1>1. PICK e, C : /\ e = [z.ext EXCEPT !["Playing"] = FALSE]
                  /\ C = Atomic!Ac97StopPlayback(z.ext, Codec(z.chip))
  OBVIOUS
<1>2. Triple(D, size, Begun(z), Ac97StopPlayback, Still(e, C, z.pool, Words))
  BY <1>1, StopBegun
<1>3. e = [z.ext EXCEPT !.Playing = FALSE]
  BY <1>1
<1>4. \A y \in Still(e, C, z.pool, Words) : <<y, "INVALID_PARAMETER">> \in D
  BY <1>1, <1>3 DEF Still, InvalidEnds, StopsTo
<1>5. Still(e, C, z.pool, Words) \in SUBSET Configs /\ "INVALID_PARAMETER" \in Atomic!Statuses
  BY DEF Still, Atomic!Statuses
<1>6. \A x \in Begun(z) : <<x, Ac97StopPlayback \o Return("INVALID_PARAMETER")>> \in Safe(D, size)
  BY <1>2, <1>4, <1>5, StopBegun, ReturnTriple
<1>7. QED
  BY <1>6 DEF Ac97ConfigureAndPlay

LEMMA ReformedLemma ==
  ASSUME NEW x \in Atomic!ExtType, NEW cfg, NEW b, NEW n, NEW e,
         e = [[[[[x EXCEPT !["Playing"] = FALSE] EXCEPT !["Channels"] = cfg.Channels]
                 EXCEPT !["BitsPerSample"] = cfg.BitsPerSample]
                EXCEPT !["SampleRate"] = cfg.SampleRate] EXCEPT !["WriteBufferSize"] = n]
  PROVE  /\ [[[e EXCEPT !.WriteBuffer = b] EXCEPT !["Configured"] = TRUE] EXCEPT !["Playing"] = TRUE]
            = [[x EXCEPT !.Playing = FALSE, !.SampleRate = cfg.SampleRate,
                         !.Channels = cfg.Channels, !.BitsPerSample = cfg.BitsPerSample]
                 EXCEPT !.WriteBuffer = b, !.WriteBufferSize = n,
                        !.Configured = TRUE, !.Playing = TRUE]
         /\ [[e EXCEPT !.WriteBuffer = Null] EXCEPT !["WriteBufferSize"] = 0]
            = [[x EXCEPT !.Playing = FALSE, !.SampleRate = cfg.SampleRate,
                         !.Channels = cfg.Channels, !.BitsPerSample = cfg.BitsPerSample]
                 EXCEPT !.WriteBuffer = Null, !.WriteBufferSize = 0]
<1>1. [[[e EXCEPT !.WriteBuffer = b] EXCEPT !["Configured"] = TRUE] EXCEPT !["Playing"] = TRUE]
        = [[x EXCEPT !.Playing = FALSE, !.SampleRate = cfg.SampleRate,
                     !.Channels = cfg.Channels, !.BitsPerSample = cfg.BitsPerSample]
             EXCEPT !.WriteBuffer = b, !.WriteBufferSize = n,
                    !.Configured = TRUE, !.Playing = TRUE]
  BY DEF Atomic!ExtType
<1>2. [[e EXCEPT !.WriteBuffer = Null] EXCEPT !["WriteBufferSize"] = 0]
        = [[x EXCEPT !.Playing = FALSE, !.SampleRate = cfg.SampleRate,
                     !.Channels = cfg.Channels, !.BitsPerSample = cfg.BitsPerSample]
             EXCEPT !.WriteBuffer = Null, !.WriteBufferSize = 0]
  BY DEF Atomic!ExtType
<1>3. QED
  BY <1>1, <1>2

StartedCodecs(e, C) ==
  UNION {UNION {UNION {Atomic!Ac97SetSampleRate(e, c2, e.SampleRate) :
                         c2 \in Atomic!EnableVra(e, c1)} :
                  c1 \in Atomic!SetDacPower(e, c, "on")} :
           c \in C}

LEMMA StartedLemma ==
  ASSUME NEW e, NEW C, NEW d
  PROVE  d \in StartedCodecs(e, C) <=> \E c \in C : Atomic!Ac97StartPlayback(e, c, d)
BY DEF StartedCodecs, Atomic!Ac97StartPlayback

\* From the block on.
LEMMA PlaySafe ==
  ASSUME NEW D, NEW size, NEW z, z.ext \in Atomic!ExtType, NEW cfg \in Requests, ValidRequest(cfg),
         \A y \in Configs : ConfiguredEnds(z, cfg, y, "SUCCESS") => <<y, "SUCCESS">> \in D,
         NEW b \in Blocks \ FreedPool(z), NEW e \in Atomic!ExtType, NEW u,
         e.IoBase = z.ext.IoBase, e.SampleRate = cfg.SampleRate,
         u = [e EXCEPT !.WriteBuffer = b],
         [[u EXCEPT !["Configured"] = TRUE] EXCEPT !["Playing"] = TRUE]
           = [Reformed(z, cfg) EXCEPT !.WriteBuffer = b,
                                      !.WriteBufferSize = Atomic!BufferSize(cfg),
                                      !.Configured = TRUE, !.Playing = TRUE]
  PROVE  \A x \in Still(u, Rated(z, cfg), FreedPool(z) \cup {b}, Words) :
           <<x, (Store("Configured", TRUE) \o Ac97StartPlayback) \o Return("SUCCESS")>>
             \in Safe(D, size)
<1>1. PICK s, t : s = Store("Configured", TRUE) /\ t = Ac97StartPlayback
  OBVIOUS
<1>2. s \in Pieces /\ t \in Pieces /\ s \o t \in Pieces
  BY <1>1, StorePieces, RoutinePieces, PiecesLemma
<1>3. PICK v, w : v = [u EXCEPT !["Configured"] = TRUE] /\ w = [v EXCEPT !["Playing"] = TRUE]
  OBVIOUS
<1>4. PICK C, p : C = Rated(z, cfg) /\ p = FreedPool(z) \cup {b}
  OBVIOUS
<1>5. v \in Atomic!ExtType /\ v.IoBase = e.IoBase /\ v.SampleRate = e.SampleRate
  BY <1>3 DEF Atomic!ExtType
<1>6. PICK B : B = StartedCodecs(v, C)
  OBVIOUS
<1>7. Triple(D, size, Still(u, C, p, Words), s, Still(v, C, p, Words))
  BY <1>1, <1>3, StoresLemma, StoreTriple
<1>8. Triple(D, size, Still(v, C, p, Words), t, Still(w, B, p, Words))
  <2>1. \A c \in C : \A d : Atomic!Ac97StartPlayback(v, c, d) => d \in B
    BY <1>6, StartedLemma
  <2>2. QED
    BY <1>1, <1>3, <1>5, <2>1, StartTriple
<1>9. Triple(D, size, Still(u, C, p, Words), s \o t, Still(w, B, p, Words))
  BY <1>2, <1>7, <1>8, TripleConcat
<1>10. ASSUME NEW y \in Still(w, B, p, Words)
       PROVE  <<y, "SUCCESS">> \in D
  <2>1. y \in Configs /\ y.e = w /\ Codec(y.c) \in B /\ y.p = p /\ y.fed = Atomic!Nothing
    BY <1>10 DEF Still
  <2>2. PICK c \in C : Atomic!Ac97StartPlayback(v, c, Codec(y.c))
    BY <1>6, <2>1, StartedLemma
  <2>3. PICK f : f = Reformed(z, cfg)
    OBVIOUS
  <2>4. f.IoBase = v.IoBase /\ f.SampleRate = v.SampleRate
    BY <1>5, <2>3 DEF Reformed, Atomic!ExtType
  <2>5. Atomic!Ac97StartPlayback(f, c, Codec(y.c))
    BY <2>2, <2>4, SameBase
  <2>6. w = [f EXCEPT !.WriteBuffer = b, !.WriteBufferSize = Atomic!BufferSize(cfg),
                      !.Configured = TRUE, !.Playing = TRUE]
    BY <1>3, <2>3
  <2>7. ConfiguredEnds(z, cfg, y, "SUCCESS")
    BY <1>4, <2>1, <2>3, <2>5, <2>6 DEF ConfiguredEnds
  <2>8. QED
    BY <2>1, <2>7
<1>11. Still(u, C, p, Words) \in SUBSET Configs /\ Still(w, B, p, Words) \in SUBSET Configs
  BY DEF Still
<1>12. \A x \in Still(u, C, p, Words) : <<x, (s \o t) \o Return("SUCCESS")>> \in Safe(D, size)
  BY <1>2, <1>9, <1>10, <1>11, StopBegun, ReturnTriple
<1>13. QED
  BY <1>1, <1>4, <1>12

Joined(p, a, s, t, r) == (((p \o a) \o s) \o t) \o r = p \o (a \o ((s \o t) \o r))

LEMMA JoinLemma ==
  ASSUME NEW p \in Pieces, NEW a \in Pieces, NEW s \in Pieces, NEW t \in Pieces, NEW r \in Routines
  PROVE  Joined(p, a, s, t, r)
<1>1. PICK x \in Pieces : x = p \o a
  BY PiecesLemma
<1>2. PICK y \in Pieces : y = x \o s
  BY PiecesLemma
<1>3. PICK k \in Routines : k = t \o r
  BY RoutinesLemma
<1>4. PICK j \in Routines : j = s \o k
  BY RoutinesLemma
<1>5. (y \o t) \o r = y \o (t \o r)
  BY PiecesRoutine, SMTT(30)
<1>6. (x \o s) \o k = x \o (s \o k)
  BY PiecesRoutine, SMTT(30)
<1>7. (p \o a) \o j = p \o (a \o j)
  BY PiecesRoutine
<1>8. (s \o t) \o r = s \o (t \o r)
  BY PiecesRoutine, ZenonT(60)
<1>9. QED
  BY <1>1, <1>2, <1>3, <1>4, <1>5, <1>6, <1>7, <1>8 DEF Joined

LEMMA ConfigureSafe ==
  ASSUME NEW D, NEW size, NEW z, z.ext \in Atomic!ExtType, NEW cfg \in Requests, ValidRequest(cfg),
         \A y \in Configs : ConfiguredEnds(z, cfg, y, "SUCCESS") => <<y, "SUCCESS">> \in D,
         \A y \in Configs : NoPoolEnds(z, cfg, y, "INSUFFICIENT_RESOURCES")
                              => <<y, "INSUFFICIENT_RESOURCES">> \in D
  PROVE  \A x \in Begun(z) : <<x, Ac97ConfigureAndPlay(cfg)>> \in Safe(D, size)
<1>1. PICK rate, ch, bits, n : /\ rate = cfg.SampleRate /\ ch = cfg.Channels
                               /\ bits = cfg.BitsPerSample /\ n = Atomic!BufferSize(cfg)
  OBVIOUS
<1>2. rate \in Nat /\ ch \in Nat /\ bits \in Nat /\ n \in Nat
  <2>1. rate \in Nat /\ ch \in Nat /\ bits \in Nat
    BY <1>1, RequestsAssumption
  <2>2. \A i, j, k \in Nat : i * j * (k \div 8) \in Nat
    OBVIOUS
  <2>3. QED
    BY <1>1, <2>1, <2>2 DEF Atomic!BufferSize
<1>3. PICK s0, s1, s2, s3, s4, s5, s6, s7, s8, a, t :
        /\ s0 = Ac97StopPlayback
        /\ s1 = Store("Channels", ch) /\ s2 = Store("BitsPerSample", bits)
        /\ s3 = Ac97Reset /\ s4 = Ac97SetSampleRate(rate)
        /\ s5 = Store("SampleRate", rate) /\ s6 = << <<"free">> >>
        /\ s7 = Store("WriteBufferSize", n) /\ a = << <<"allocate">> >>
        /\ s8 = Store("Configured", TRUE) /\ t = Ac97StartPlayback
  OBVIOUS
<1>4. /\ s0 \in Pieces /\ s1 \in Pieces /\ s2 \in Pieces /\ s3 \in Pieces /\ s4 \in Pieces
      /\ s5 \in Pieces /\ s6 \in Pieces /\ s7 \in Pieces /\ s8 \in Pieces /\ a \in Pieces
      /\ t \in Pieces
  <2>1. s0 \in Pieces /\ s3 \in Pieces /\ s4 \in Pieces /\ t \in Pieces
    BY <1>2, <1>3, RoutinePieces
  <2>2. s1 \in Pieces /\ s2 \in Pieces /\ s5 \in Pieces /\ s7 \in Pieces /\ s8 \in Pieces
    BY <1>2, <1>3, StorePieces
  <2>3. s6 \in Pieces /\ a \in Pieces
    BY <1>3, AccessesLemma, PiecesLemma
  <2>4. QED
    BY <2>1, <2>2, <2>3
<1>5. PICK p2, p3, p4, p5, p6, p7 : /\ p2 = s1 \o s2 /\ p3 = p2 \o s3 /\ p4 = p3 \o s4
                                    /\ p5 = p4 \o s5 /\ p6 = p5 \o s6 /\ p7 = p6 \o s7
  OBVIOUS
<1>6. /\ p2 \in Pieces /\ p3 \in Pieces /\ p4 \in Pieces /\ p5 \in Pieces
      /\ p6 \in Pieces /\ p7 \in Pieces
  BY <1>4, <1>5, PiecesLemma
<1>7. PICK e1, e2, e3, e4, e5 : /\ e1 = [z.ext EXCEPT !["Playing"] = FALSE]
                                /\ e2 = [e1 EXCEPT !["Channels"] = ch]
                                /\ e3 = [e2 EXCEPT !["BitsPerSample"] = bits]
                                /\ e4 = [e3 EXCEPT !["SampleRate"] = rate]
                                /\ e5 = [e4 EXCEPT !["WriteBufferSize"] = n]
  OBVIOUS
<1>8. /\ e3.IoBase = z.ext.IoBase /\ e4.WriteBuffer = z.ext.WriteBuffer
      /\ e5 \in Atomic!ExtType /\ e5.IoBase = z.ext.IoBase /\ e5.SampleRate = rate
  BY <1>2, <1>7 DEF Atomic!ExtType
<1>9. PICK C1, C2, C3, p, q :
        /\ C1 = Atomic!Ac97StopPlayback(z.ext, Codec(z.chip))
        /\ C2 = UNION {Atomic!Ac97Reset(z.ext, c) : c \in C1}
        /\ C3 = Rated(z, cfg) /\ p = z.pool /\ q = FreedPool(z)
  OBVIOUS
<1>10. Triple(D, size, Begun(z), s0, Still(e1, C1, p, Words))
  BY <1>3, <1>7, <1>9, StopBegun
<1>11. Triple(D, size, Still(e1, C1, p, Words), s1, Still(e2, C1, p, Words))
  BY <1>2, <1>3, <1>7, StoresLemma, StoreTriple
<1>12. Triple(D, size, Still(e2, C1, p, Words), s2, Still(e3, C1, p, Words))
  BY <1>2, <1>3, <1>7, StoresLemma, StoreTriple
<1>13. Triple(D, size, Still(e3, C1, p, Words), s3, Still(e3, C2, p, Words))
  <2>1. \A c \in C1 : Atomic!Ac97Reset(e3, c) \subseteq C2
    BY <1>8, <1>9, SameBase
  <2>2. QED
    BY <1>3, <2>1, ResetTriple
<1>14. Triple(D, size, Still(e3, C2, p, Words), s4, Still(e3, C3, p, Words))
  <2>1. \A c \in C2 : Atomic!Ac97SetSampleRate(z.ext, c, rate) \subseteq C3
    BY <1>1, <1>9 DEF Rated
  <2>2. \A c \in C2 : Atomic!Ac97SetSampleRate(e3, c, rate) \subseteq C3
    BY <1>8, <2>1, SameBase
  <2>3. QED
    BY <1>2, <1>3, <2>2, RateTriple
<1>15. Triple(D, size, Still(e3, C3, p, Words), s5, Still(e4, C3, p, Words))
  BY <1>2, <1>3, <1>7, StoresLemma, StoreTriple
<1>16. Triple(D, size, Still(e4, C3, p, Words), s6, Still(e4, C3, q, Words))
  <2>1. q = p \ {e4.WriteBuffer}
    BY <1>8, <1>9 DEF FreedPool
  <2>2. QED
    BY <1>3, <2>1, FreeTriple
<1>17. Triple(D, size, Still(e4, C3, q, Words), s7, Still(e5, C3, q, Words))
  BY <1>2, <1>3, <1>7, StoresLemma, StoreTriple
<1>18. Triple(D, size, Still(e1, C1, p, Words), p2, Still(e3, C1, p, Words))
  BY <1>4, <1>5, <1>11, <1>12, TripleConcat
<1>19. Triple(D, size, Still(e1, C1, p, Words), p3, Still(e3, C2, p, Words))
  BY <1>4, <1>5, <1>6, <1>13, <1>18, TripleConcat
<1>20. Triple(D, size, Still(e1, C1, p, Words), p4, Still(e3, C3, p, Words))
  BY <1>4, <1>5, <1>6, <1>14, <1>19, TripleConcat
<1>21. Triple(D, size, Still(e1, C1, p, Words), p5, Still(e4, C3, p, Words))
  BY <1>4, <1>5, <1>6, <1>15, <1>20, TripleConcat
<1>22. Triple(D, size, Still(e1, C1, p, Words), p6, Still(e4, C3, q, Words))
  BY <1>4, <1>5, <1>6, <1>16, <1>21, TripleConcat
<1>23. Triple(D, size, Still(e1, C1, p, Words), p7, Still(e5, C3, q, Words))
  BY <1>4, <1>5, <1>6, <1>17, <1>22, TripleConcat
<1>24. PICK k : k = (s8 \o t) \o Return("SUCCESS")
  OBVIOUS
<1>25. k \in Routines /\ a \o k \in Routines
  <2>1. s8 \o t \in Pieces
    BY <1>4, PiecesLemma
  <2>2. k \in Routines
    BY <1>24, <2>1, StopBegun, RoutinesLemma
  <2>3. QED
    BY <1>4, <2>2, RoutinesLemma
<1>26. \A b : /\ [[[e5 EXCEPT !.WriteBuffer = b] EXCEPT !["Configured"] = TRUE]
                    EXCEPT !["Playing"] = TRUE]
                   = [Reformed(z, cfg) EXCEPT !.WriteBuffer = b, !.WriteBufferSize = n,
                                              !.Configured = TRUE, !.Playing = TRUE]
              /\ [[e5 EXCEPT !.WriteBuffer = Null] EXCEPT !["WriteBufferSize"] = 0]
                   = [Reformed(z, cfg) EXCEPT !.WriteBuffer = Null, !.WriteBufferSize = 0]
  BY <1>1, <1>7, ReformedLemma DEF Reformed
<1>27. ASSUME NEW b \in Blocks \ q
       PROVE  \A x \in Still([e5 EXCEPT !.WriteBuffer = b], C3, q \cup {b}, Words) :
                <<x, k>> \in Safe(D, size)
  <2>1. PICK u : u = [e5 EXCEPT !.WriteBuffer = b]
    OBVIOUS
  <2>2. [[u EXCEPT !["Configured"] = TRUE] EXCEPT !["Playing"] = TRUE]
          = [Reformed(z, cfg) EXCEPT !.WriteBuffer = b,
                                     !.WriteBufferSize = Atomic!BufferSize(cfg),
                                     !.Configured = TRUE, !.Playing = TRUE]
    BY <1>1, <1>26, <2>1
  <2>3. b \in Blocks \ FreedPool(z) /\ e5.SampleRate = cfg.SampleRate
    BY <1>1, <1>8, <1>9, <1>27
  <2>4. \A x \in Still(u, Rated(z, cfg), FreedPool(z) \cup {b}, Words) :
          <<x, (Store("Configured", TRUE) \o Ac97StartPlayback) \o Return("SUCCESS")>>
            \in Safe(D, size)
    BY <1>8, <2>1, <2>2, <2>3, PlaySafe
  <2>5. QED
    BY <1>3, <1>9, <1>24, <2>1, <2>4
<1>28. ASSUME NEW y \in Still([[e5 EXCEPT !.WriteBuffer = Null] EXCEPT !["WriteBufferSize"] = 0],
                              C3, q, Words)
       PROVE  <<y, "INSUFFICIENT_RESOURCES">> \in D
  <2>1. y.e = [Reformed(z, cfg) EXCEPT !.WriteBuffer = Null, !.WriteBufferSize = 0]
    BY <1>26 DEF Still
  <2>2. y \in Configs /\ Codec(y.c) \in C3 /\ y.p = q /\ y.fed = Atomic!Nothing
    BY DEF Still
  <2>3. NoPoolEnds(z, cfg, y, "INSUFFICIENT_RESOURCES")
    BY <1>9, <2>1, <2>2 DEF NoPoolEnds
  <2>4. QED
    BY <2>2, <2>3
<1>29. \A x \in Still(e5, C3, q, Words) : <<x, a \o k>> \in Safe(D, size)
  BY <1>3, <1>25, <1>27, <1>28, AllocateSafe
<1>30. \A x \in Still(e1, C1, p, Words) : <<x, p7 \o (a \o k)>> \in Safe(D, size)
  BY <1>23, <1>25, <1>29 DEF Triple
<1>31. \A x \in Begun(z) : <<x, s0 \o (p7 \o (a \o k))>> \in Safe(D, size)
  <2>1. p7 \o (a \o k) \in Routines
    BY <1>6, <1>25, RoutinesLemma
  <2>2. QED
    BY <1>10, <1>30, <2>1 DEF Triple
<1>32. s0 \o (p7 \o (a \o k)) = s0 \o ((((p7 \o a) \o s8) \o t) \o Return("SUCCESS"))
  <2>1. Return("SUCCESS") \in Routines
    BY StopBegun
  <2>2. Joined(p7, a, s8, t, Return("SUCCESS"))
    BY <1>4, <1>6, <2>1, JoinLemma
  <2>3. QED
    BY <1>24, <2>2 DEF Joined
<1>33. s0 \o ((((p7 \o a) \o s8) \o t) \o Return("SUCCESS")) = Ac97ConfigureAndPlay(cfg)
  BY <1>1, <1>3, <1>5 DEF Ac97ConfigureAndPlay
<1>34. QED
  BY <1>31, <1>32, <1>33

\* What Ac97Driver makes of an IRP of thread t.
Ends(z, t, op, size, y, st) ==
  \/ op = "CREATE" /\ t \in Handles \ z.handles /\ CreateEnds(z, y, st)
  \/ op = "CLOSE" /\ t \in z.handles /\ CloseEnds(z, y, st)
  \/ op = "STOP" /\ t \in z.handles /\ StopIoctlEnds(z, y, st)
  \/ op = "WRITE" /\ t \in z.handles /\ size \in Sizes \ {0} /\ WriteEnds(z, size, y, st)
  \/ /\ op = "CONFIGURE" /\ t \in z.handles
     /\ \E cfg \in Requests : \/ InvalidEnds(z, cfg, y, st)
                              \/ NoPoolEnds(z, cfg, y, st)
                              \/ ConfiguredEnds(z, cfg, y, st)
  \/ op = "PNP" /\ z.pnp = "started" /\ StopDeviceEnds(z, y, st)
  \/ op = "OTHER" /\ z.pnp = "stopped" /\ StartDeviceEnds(z, y, st)

Ended(z, t, op, size) == {w \in Configs \X Atomic!Statuses : Ends(z, t, op, size, w[1], w[2])}

LEMMA EndedLemma ==
  ASSUME NEW z, NEW t, NEW op, NEW size, NEW y, NEW st
  PROVE  <<y, st>> \in Ended(z, t, op, size)
           <=> y \in Configs /\ st \in Atomic!Statuses /\ Ends(z, t, op, size, y, st)
<1>1. PICK w : w = <<y, st>>
  OBVIOUS
<1>2. w[1] = y /\ w[2] = st
  BY <1>1
<1>3. w \in Configs \X Atomic!Statuses <=> y \in Configs /\ st \in Atomic!Statuses
  BY <1>1
<1>4. QED
  BY <1>1, <1>2, <1>3 DEF Ended

\* The routine of thread t, and what it has of its own.
Current(t) == [e |-> ext, c |-> chip, p |-> pool,
               port |-> irp[t].port, value |-> irp[t].value, fed |-> irp[t].fed]

LEMMA CurrentLemma ==
  ASSUME Typed, NEW t \in Threads
  PROVE  /\ Current(t) \in Configs /\ Current(t).e = ext /\ Current(t).c = chip
         /\ Current(t).p = pool /\ Current(t).port = irp[t].port
         /\ Current(t).value = irp[t].value /\ Current(t).fed = irp[t].fed
<1>1. irp[t].port \in {0, DefaultIoBase} /\ irp[t].value \in Words /\ irp[t].fed \in FedType
  BY DEF Typed, IrpType
<1>2. ext \in Atomic!ExtType /\ chip \in ChipType /\ pool \in SUBSET Blocks
  BY DEF Typed
<1>3. QED
  BY <1>1, <1>2 DEF Current, Configs

LEMMA CurrentNext ==
  ASSUME Typed', NEW t \in Threads
  PROVE  /\ Current(t)' \in Configs /\ Current(t)'.e = ext' /\ Current(t)'.c = chip'
         /\ Current(t)'.p = pool' /\ Current(t)'.port = irp'[t].port
         /\ Current(t)'.value = irp'[t].value /\ Current(t)'.fed = irp'[t].fed
<1>1. irp'[t].port \in {0, DefaultIoBase} /\ irp'[t].value \in Words /\ irp'[t].fed \in FedType
  BY DEF Typed, IrpType
<1>2. ext' \in Atomic!ExtType /\ chip' \in ChipType /\ pool' \in SUBSET Blocks
  BY DEF Typed
<1>3. QED
  BY <1>1, <1>2 DEF Current, Configs

LEMMA SameConfig ==
  ASSUME NEW x \in Configs, NEW y \in Configs,
         x.e = y.e, x.c = y.c, x.p = y.p, x.port = y.port, x.value = y.value, x.fed = y.fed
  PROVE  x = y
BY DEF Configs

\* What differs between two configurations is what an access changed.
LEMMA Rebuilt ==
  ASSUME NEW x \in Configs, NEW y \in Configs
  PROVE  /\ y.e = x.e /\ y.p = x.p /\ y.value = x.value /\ y.fed = x.fed
              => y = [x EXCEPT !.c = y.c, !.port = y.port]
         /\ y.e = x.e /\ y.c = x.c /\ y.p = x.p /\ y.fed = x.fed
              => y = [x EXCEPT !.port = y.port, !.value = y.value]
         /\ y.e = x.e /\ y.p = x.p /\ y.fed = x.fed
              => y = [x EXCEPT !.c = y.c, !.port = y.port, !.value = y.value]
         /\ y.e = x.e /\ y.c = x.c /\ y.p = x.p /\ y.value = x.value /\ y.fed = x.fed
              => y = [x EXCEPT !.port = y.port]
         /\ y.c = x.c /\ y.p = x.p /\ y.value = x.value /\ y.fed = x.fed
              => y = [x EXCEPT !.e = y.e, !.port = y.port]
         /\ y.c = x.c /\ y.p = x.p /\ y.port = x.port /\ y.value = x.value /\ y.fed = x.fed
              => y = [x EXCEPT !.e = y.e]
         /\ y.e = x.e /\ y.c = x.c /\ y.p = x.p /\ y.port = x.port /\ y.fed = x.fed
              => y = [x EXCEPT !.value = y.value]
         /\ y.c = x.c /\ y.port = x.port /\ y.value = x.value /\ y.fed = x.fed
              => y = [x EXCEPT !.p = y.p, !.e = y.e]
         /\ y.e = x.e /\ y.c = x.c /\ y.p = x.p /\ y.port = x.port /\ y.value = x.value
              => y = [x EXCEPT !.fed = y.fed]
         /\ y.e = x.e /\ y.c = x.c /\ y.port = x.port /\ y.value = x.value /\ y.fed = x.fed
              => y = [x EXCEPT !.p = y.p]
<1>1. PICK z1, z2, z3, z4, z5 :
        /\ z1 = [x EXCEPT !.c = y.c, !.port = y.port]
        /\ z2 = [x EXCEPT !.port = y.port, !.value = y.value]
        /\ z3 = [x EXCEPT !.c = y.c, !.port = y.port, !.value = y.value]
        /\ z4 = [x EXCEPT !.port = y.port]
        /\ z5 = [x EXCEPT !.e = y.e, !.port = y.port]
  OBVIOUS
<1>2. PICK z6, z7, z8, z9, z10 :
        /\ z6 = [x EXCEPT !.e = y.e]
        /\ z7 = [x EXCEPT !.value = y.value]
        /\ z8 = [x EXCEPT !.p = y.p, !.e = y.e]
        /\ z9 = [x EXCEPT !.fed = y.fed]
        /\ z10 = [x EXCEPT !.p = y.p]
  OBVIOUS
<1>3. /\ z1 \in Configs /\ z1.c = y.c /\ z1.port = y.port
      /\ z1.e = x.e /\ z1.p = x.p /\ z1.value = x.value /\ z1.fed = x.fed
  BY <1>1 DEF Configs
<1>4. /\ z2 \in Configs /\ z2.port = y.port /\ z2.value = y.value
      /\ z2.e = x.e /\ z2.c = x.c /\ z2.p = x.p /\ z2.fed = x.fed
  BY <1>1 DEF Configs
<1>5. /\ z3 \in Configs /\ z3.c = y.c /\ z3.port = y.port /\ z3.value = y.value
      /\ z3.e = x.e /\ z3.p = x.p /\ z3.fed = x.fed
  BY <1>1 DEF Configs
<1>6. /\ z4 \in Configs /\ z4.port = y.port
      /\ z4.e = x.e /\ z4.c = x.c /\ z4.p = x.p /\ z4.value = x.value /\ z4.fed = x.fed
  BY <1>1 DEF Configs
<1>7. /\ z5 \in Configs /\ z5.e = y.e /\ z5.port = y.port
      /\ z5.c = x.c /\ z5.p = x.p /\ z5.value = x.value /\ z5.fed = x.fed
  BY <1>1 DEF Configs
<1>8. /\ z6 \in Configs /\ z6.e = y.e /\ z6.c = x.c /\ z6.p = x.p
      /\ z6.port = x.port /\ z6.value = x.value /\ z6.fed = x.fed
  BY <1>2 DEF Configs
<1>9. /\ z7 \in Configs /\ z7.value = y.value /\ z7.e = x.e /\ z7.c = x.c /\ z7.p = x.p
      /\ z7.port = x.port /\ z7.fed = x.fed
  BY <1>2 DEF Configs
<1>10. /\ z8 \in Configs /\ z8.e = y.e /\ z8.p = y.p /\ z8.c = x.c
       /\ z8.port = x.port /\ z8.value = x.value /\ z8.fed = x.fed
  BY <1>2 DEF Configs
<1>11. /\ z9 \in Configs /\ z9.fed = y.fed /\ z9.e = x.e /\ z9.c = x.c /\ z9.p = x.p
       /\ z9.port = x.port /\ z9.value = x.value
  BY <1>2 DEF Configs
<1>12. /\ z10 \in Configs /\ z10.p = y.p /\ z10.e = x.e /\ z10.c = x.c
       /\ z10.port = x.port /\ z10.value = x.value /\ z10.fed = x.fed
  BY <1>2 DEF Configs
<1>13. /\ y.e = x.e /\ y.p = x.p /\ y.value = x.value /\ y.fed = x.fed => y = z1
       /\ y.e = x.e /\ y.c = x.c /\ y.p = x.p /\ y.fed = x.fed => y = z2
       /\ y.e = x.e /\ y.p = x.p /\ y.fed = x.fed => y = z3
       /\ y.e = x.e /\ y.c = x.c /\ y.p = x.p /\ y.value = x.value /\ y.fed = x.fed => y = z4
       /\ y.c = x.c /\ y.p = x.p /\ y.value = x.value /\ y.fed = x.fed => y = z5
  BY <1>3, <1>4, <1>5, <1>6, <1>7, SameConfig
<1>14. /\ y.c = x.c /\ y.p = x.p /\ y.port = x.port /\ y.value = x.value /\ y.fed = x.fed => y = z6
       /\ y.e = x.e /\ y.c = x.c /\ y.p = x.p /\ y.port = x.port /\ y.fed = x.fed => y = z7
       /\ y.c = x.c /\ y.port = x.port /\ y.value = x.value /\ y.fed = x.fed => y = z8
       /\ y.e = x.e /\ y.c = x.c /\ y.p = x.p /\ y.port = x.port /\ y.value = x.value => y = z9
       /\ y.e = x.e /\ y.c = x.c /\ y.port = x.port /\ y.value = x.value /\ y.fed = x.fed => y = z10
  BY <1>8, <1>9, <1>10, <1>11, <1>12, SameConfig
<1>15. QED
  BY <1>1, <1>2, <1>13, <1>14

LEMMA AdvancedLemma ==
  ASSUME Typed, NEW t \in Threads, NEW r \in IrpType, Advance(t, r)
  PROVE  /\ irp'[t].port = r.port /\ irp'[t].value = r.value /\ irp'[t].fed = r.fed
         /\ irp'[t].op = r.op /\ irp'[t].size = r.size /\ irp'[t].todo = Tail(irp[t].todo)
         /\ \A u \in Threads \ {t} : irp'[u] = irp[u]
<1>1. PICK k : k = Tail(irp[t].todo)
  OBVIOUS
<1>2. PICK q : q = [r EXCEPT !.todo = k]
  OBVIOUS
<1>3. q.port = r.port /\ q.value = r.value /\ q.fed = r.fed /\ q.op = r.op /\ q.size = r.size
      /\ q.todo = k
  BY <1>2 DEF IrpType
<1>4. irp' = [irp EXCEPT ![t] = q] /\ irp \in [Threads -> IrpType]
  BY <1>1, <1>2 DEF Advance, Typed
<1>5. irp'[t] = q /\ \A u \in Threads \ {t} : irp'[u] = irp[u]
  BY <1>4
<1>6. QED
  BY <1>1, <1>3, <1>5

LEMMA LeaveLemma ==
  ASSUME Typed, NEW t \in Threads, NEW k, irp' = [irp EXCEPT ![t].todo = k]
  PROVE  /\ irp'[t].port = irp[t].port /\ irp'[t].value = irp[t].value /\ irp'[t].fed = irp[t].fed
         /\ irp'[t].op = irp[t].op /\ irp'[t].size = irp[t].size /\ irp'[t].todo = k
         /\ \A u \in Threads \ {t} : irp'[u] = irp[u]
<1>1. PICK r \in IrpType : r = irp[t]
  BY DEF Typed
<1>2. PICK q : q = [r EXCEPT !.todo = k]
  OBVIOUS
<1>3. q.port = r.port /\ q.value = r.value /\ q.fed = r.fed /\ q.op = r.op /\ q.size = r.size
      /\ q.todo = k
  BY <1>1, <1>2 DEF IrpType
<1>4. irp' = [irp EXCEPT ![t] = q] /\ irp \in [Threads -> IrpType]
  BY <1>1, <1>2 DEF Typed
<1>5. irp'[t] = q /\ \A u \in Threads \ {t} : irp'[u] = irp[u]
  BY <1>4
<1>6. QED
  BY <1>1, <1>3, <1>5

\* Another thread, or the rest of the IRP, is not concerned.
Elsewhere(t) == /\ irp'[t].op = irp[t].op /\ irp'[t].size = irp[t].size
                /\ \A u \in Threads \ {t} : irp'[u] = irp[u]

\* Every access to a port is one that Goes knows of.
LEMMA PortGoes ==
  ASSUME Typed, Typed', NEW t \in Threads, AccessPort(t)
  PROVE  /\ Goes(irp[t].size, Current(t), irp[t].todo, Current(t)', irp'[t].todo)
         /\ Elsewhere(t)
<1>1. PICK x, y, a, s : x = Current(t) /\ y = Current(t)' /\ a = Access(t) /\ s = irp[t].todo
  OBVIOUS
<1>2. x \in Configs /\ x.e = ext /\ x.c = chip /\ x.p = pool /\ x.port = irp[t].port
      /\ x.value = irp[t].value /\ x.fed = irp[t].fed
  BY <1>1, CurrentLemma
<1>3. y \in Configs /\ y.e = ext' /\ y.c = chip' /\ y.p = pool' /\ y.port = irp'[t].port
      /\ y.value = irp'[t].value /\ y.fed = irp'[t].fed
  BY <1>1, CurrentNext
<1>4. s[1] = a
  BY <1>1 DEF Access
<1>5. PICK r \in IrpType : r = irp[t]
  BY DEF Typed
<1>6. PICK n : n = Reading(x)
  OBVIOUS
<1>7. (Answering(x) <=> Answers(t)) /\ n = InPortWord(t)
  BY <1>2, <1>6 DEF Answering, Answers, Reading, InPortWord
<1>8. n \in Words
  BY <1>2, <1>6, ReadingTyped
<1>9. ASSUME NEW k, At(t, k)
      PROVE  a[1] = k /\ (k # "return" => a \in Accesses)
  BY <1>1, <1>9, AtLemma, KindLemma DEF At
<1>10. ASSUME NEW q \in IrpType, Advance(t, q), q.op = r.op, q.size = r.size, q.fed = r.fed
       PROVE  /\ y.port = q.port /\ y.value = q.value /\ y.fed = x.fed
              /\ irp'[t].todo = Tail(s) /\ Elsewhere(t)
  BY <1>1, <1>2, <1>3, <1>5, <1>10, AdvancedLemma DEF Elsewhere
<1>11. ASSUME Goes(irp[t].size, x, s, y, irp'[t].todo), Elsewhere(t)
       PROVE  /\ Goes(irp[t].size, Current(t), irp[t].todo, Current(t)', irp'[t].todo)
              /\ Elsewhere(t)
  BY <1>1, <1>11
<1>12. ASSUME Does(irp[t].size, a, x, y), irp'[t].todo = Tail(s)
       PROVE  Goes(irp[t].size, x, s, y, irp'[t].todo)
  BY <1>4, <1>12 DEF Goes
<1>13. CASE SelectRegister(t)
  <2>1. At(t, "select") /\ ext' = ext /\ pool' = pool
        /\ chip' = (IF chip.present /\ ext.IoBase = DefaultIoBase
                    THEN [chip EXCEPT !.index = a[2]] ELSE chip)
    BY <1>1, <1>13 DEF SelectRegister
  <2>2. ext.IoBase \in {0, DefaultIoBase}
    BY DEF Typed, Atomic!ExtType, DefaultIoBase
  <2>3. PICK q : q = [r EXCEPT !.port = ext.IoBase]
    OBVIOUS
  <2>4. q \in IrpType /\ q.op = r.op /\ q.size = r.size /\ q.fed = r.fed /\ q.value = r.value
        /\ q.port = ext.IoBase
    BY <1>5, <2>2, <2>3 DEF IrpType
  <2>5. Advance(t, q)
    BY <1>5, <1>13, <2>3 DEF SelectRegister
  <2>6. /\ y.port = q.port /\ y.value = q.value /\ y.fed = x.fed
        /\ irp'[t].todo = Tail(s) /\ Elsewhere(t)
    BY <1>10, <2>4, <2>5
  <2>7. Selecting(a, x, y)
    <3>1. y.e = x.e /\ y.p = x.p /\ y.value = x.value /\ y.fed = x.fed /\ y.port = x.e.IoBase
      BY <1>2, <1>3, <1>5, <2>1, <2>4, <2>6
    <3>2. y = [x EXCEPT !.c = y.c, !.port = y.port]
      BY <1>2, <1>3, <3>1, Rebuilt
    <3>3. y.c = IF x.c.present /\ x.e.IoBase = DefaultIoBase
                THEN [x.c EXCEPT !.index = a[2]] ELSE x.c
      BY <1>2, <1>3, <2>1
    <3>4. QED
      BY <3>1, <3>2, <3>3, Zenon DEF Selecting
  <2>8. Does(irp[t].size, a, x, y)
    BY <1>9, <2>1, <2>7 DEF Does
  <2>9. QED
    BY <1>11, <1>12, <2>6, <2>8
<1>14. CASE ReadValue(t)
  <2>1. At(t, "in") /\ ext' = ext /\ chip' = chip /\ pool' = pool
    BY <1>14 DEF ReadValue
  <2>2. a[1] = "in" /\ a \in Accesses
    BY <1>9, <2>1
  <2>3. a[2] \in {"set DAC", "clear DAC", "set VRA"}
    BY <2>2, KindLemma
  <2>4. PICK v : v = Changed(a[2], n)
    OBVIOUS
  <2>5. v \in Words
    BY <1>8, <2>3, <2>4, BitLemma DEF Changed
  <2>6. PICK q : q = [[r EXCEPT !.port = 0] EXCEPT !.value = v]
    OBVIOUS
  <2>7. q \in IrpType /\ q.op = r.op /\ q.size = r.size /\ q.fed = r.fed /\ q.value = v
        /\ q.port = 0
    BY <1>5, <2>5, <2>6 DEF IrpType
  <2>8. Advance(t, q)
    BY <1>1, <1>5, <1>7, <1>14, <2>4, <2>6 DEF ReadValue, Returned, Changed
  <2>9. /\ y.port = q.port /\ y.value = q.value /\ y.fed = x.fed
        /\ irp'[t].todo = Tail(s) /\ Elsewhere(t)
    BY <1>10, <2>7, <2>8
  <2>10. y.e = x.e /\ y.c = x.c /\ y.p = x.p /\ y.port = 0 /\ y.value = v
    BY <1>2, <1>3, <2>1, <2>7, <2>9
  <2>11. y = [x EXCEPT !.port = 0, !.value = v]
    BY <1>2, <1>3, <2>9, <2>10, Rebuilt
  <2>12. Does(irp[t].size, a, x, y)
    BY <1>6, <2>2, <2>4, <2>11 DEF Does
  <2>13. QED
    BY <1>11, <1>12, <2>9, <2>12
<1>15. CASE WriteValue(t)
  <2>1. (At(t, "out") \/ At(t, "out back")) /\ ext' = ext /\ pool' = pool
    BY <1>15 DEF WriteValue
  <2>2. a[1] \in {"out", "out back"} /\ (At(t, "out") <=> a[1] = "out")
    BY <1>9, <2>1
  <2>3. PICK m : m = IF a[1] = "out" THEN a[2] ELSE x.value
    OBVIOUS
  <2>4. chip' \in IF Answers(t) THEN Stored(chip, m) ELSE {chip}
    BY <1>1, <1>2, <1>15, <2>2, <2>3 DEF WriteValue
  <2>5. 0 \in Words
    BY WordsLemma
  <2>6. PICK q : q = [[r EXCEPT !.port = 0] EXCEPT !.value = 0]
    OBVIOUS
  <2>7. q \in IrpType /\ q.op = r.op /\ q.size = r.size /\ q.fed = r.fed /\ q.value = 0
        /\ q.port = 0
    BY <1>5, <2>5, <2>6 DEF IrpType
  <2>8. Advance(t, q)
    BY <1>5, <1>15, <2>6 DEF WriteValue, Returned
  <2>9. /\ y.port = q.port /\ y.value = q.value /\ y.fed = x.fed
        /\ irp'[t].todo = Tail(s) /\ Elsewhere(t)
    BY <1>10, <2>7, <2>8
  <2>10. y.e = x.e /\ y.p = x.p /\ y.port = 0 /\ y.value = 0
    BY <1>2, <1>3, <2>1, <2>7, <2>9
  <2>11. y = [x EXCEPT !.c = y.c, !.port = 0, !.value = 0]
    <3>1. y = [x EXCEPT !.c = y.c, !.port = y.port, !.value = y.value]
      BY <1>2, <1>3, <2>9, <2>10, Rebuilt
    <3>2. QED
      BY <2>10, <3>1, Zenon
  <2>12. y.c \in IF Answering(x) THEN Stored(x.c, m) ELSE {x.c}
    BY <1>2, <1>3, <1>7, <2>4
  <2>13. Writing(m, x, y)
    BY <2>11, <2>12, Zenon DEF Writing
  <2>14. Does(irp[t].size, a, x, y)
    BY <2>2, <2>3, <2>13 DEF Does
  <2>15. QED
    BY <1>11, <1>12, <2>9, <2>14
<1>16. PICK f : f = [r EXCEPT !.port = 0]
  OBVIOUS
<1>17. f \in IrpType /\ f.op = r.op /\ f.size = r.size /\ f.fed = r.fed /\ f.value = r.value
       /\ f.port = 0
  BY <1>5, <1>16 DEF IrpType
<1>18. f = Returned(t)
  BY <1>5, <1>16 DEF Returned
<1>19. CASE PollReady(t)
  <2>1. At(t, "poll") /\ ext' = ext /\ chip' = chip /\ pool' = pool
    BY <1>19 DEF PollReady
  <2>2. CASE Advance(t, f)
    <3>1. /\ y.port = f.port /\ y.value = f.value /\ y.fed = x.fed
          /\ irp'[t].todo = Tail(s) /\ Elsewhere(t)
      BY <1>10, <1>17, <2>2
    <3>2. y.e = x.e /\ y.c = x.c /\ y.p = x.p /\ y.port = 0 /\ y.value = x.value
      BY <1>2, <1>3, <1>5, <1>17, <2>1, <3>1
    <3>3. y = [x EXCEPT !.port = 0]
      BY <1>2, <1>3, <3>1, <3>2, Rebuilt
    <3>4. Does(irp[t].size, a, x, y)
      BY <1>9, <2>1, <3>3 DEF Does
    <3>5. QED
      BY <1>11, <1>12, <3>1, <3>4
  <2>3. CASE irp' = [irp EXCEPT ![t].todo = << <<"select", "power">> >> \o @]
    <3>1. PICK k : k = << <<"select", "power">> >> \o s
      OBVIOUS
    <3>2. irp' = [irp EXCEPT ![t].todo = k]
      BY <1>1, <2>3, <3>1 DEF Typed
    <3>3. irp'[t].todo = k /\ Elsewhere(t)
          /\ irp'[t].port = irp[t].port /\ irp'[t].value = irp[t].value /\ irp'[t].fed = irp[t].fed
      BY <3>2, LeaveLemma DEF Elsewhere
    <3>4. y = x
      BY <1>2, <1>3, <2>1, <3>3, SameConfig
    <3>5. Leaves(x, s, y, k)
      BY <1>4, <1>9, <2>1, <3>1, <3>4 DEF Leaves
    <3>6. QED
      BY <1>11, <3>3, <3>5 DEF Goes
  <2>4. QED
    BY <1>18, <1>19, <2>2, <2>3 DEF PollReady
<1>20. CASE Probe(t)
  <2>1. At(t, "probe") /\ chip' = chip /\ pool' = pool /\ Advance(t, f)
    BY <1>18, <1>20 DEF Probe
  <2>2. ext' = Probed(x)
    BY <1>2, <1>6, <1>7, <1>20 DEF Probe, Probed
  <2>3. /\ y.port = f.port /\ y.value = f.value /\ y.fed = x.fed
        /\ irp'[t].todo = Tail(s) /\ Elsewhere(t)
    BY <1>10, <1>17, <2>1
  <2>4. y.e = Probed(x) /\ y.c = x.c /\ y.p = x.p /\ y.port = 0 /\ y.value = x.value
    BY <1>2, <1>3, <1>5, <1>17, <2>1, <2>2, <2>3
  <2>5. y = [x EXCEPT !.e = y.e, !.port = y.port]
    BY <1>2, <1>3, <2>3, <2>4, Rebuilt
  <2>6. y = [x EXCEPT !.e = Probed(x), !.port = 0]
    BY <2>4, <2>5, Zenon
  <2>7. Does(irp[t].size, a, x, y)
    BY <1>9, <2>1, <2>6 DEF Does
  <2>8. QED
    BY <1>11, <1>12, <2>3, <2>7
<1>21. QED
  BY <1>13, <1>14, <1>15, <1>19, <1>20 DEF AccessPort

\* Every access to the extension is one that Goes knows of.
LEMMA ExtensionGoes ==
  ASSUME Typed, Typed', NEW t \in Threads, AccessExtension(t)
  PROVE  /\ Goes(irp[t].size, Current(t), irp[t].todo, Current(t)', irp'[t].todo)
         /\ Elsewhere(t)
<1>1. PICK x, y, a, s : x = Current(t) /\ y = Current(t)' /\ a = Access(t) /\ s = irp[t].todo
  OBVIOUS
<1>2. x \in Configs /\ x.e = ext /\ x.c = chip /\ x.p = pool /\ x.port = irp[t].port
      /\ x.value = irp[t].value /\ x.fed = irp[t].fed
  BY <1>1, CurrentLemma
<1>3. y \in Configs /\ y.e = ext' /\ y.c = chip' /\ y.p = pool' /\ y.port = irp'[t].port
      /\ y.value = irp'[t].value /\ y.fed = irp'[t].fed
  BY <1>1, CurrentNext
<1>4. s[1] = a
  BY <1>1 DEF Access
<1>5. PICK r \in IrpType : r = irp[t]
  BY DEF Typed
<1>6. ASSUME NEW k, At(t, k)
      PROVE  a[1] = k
  BY <1>1, <1>6 DEF At
<1>7. ASSUME NEW q \in IrpType, Advance(t, q), q.op = r.op, q.size = r.size
      PROVE  /\ y.port = q.port /\ y.value = q.value /\ y.fed = q.fed
             /\ irp'[t].todo = Tail(s) /\ Elsewhere(t)
  BY <1>1, <1>3, <1>5, <1>7, AdvancedLemma DEF Elsewhere
<1>8. ASSUME NEW k, irp' = [irp EXCEPT ![t].todo = k]
      PROVE  /\ y.port = x.port /\ y.value = x.value /\ y.fed = x.fed
             /\ irp'[t].todo = k /\ Elsewhere(t)
  BY <1>2, <1>3, <1>8, LeaveLemma DEF Elsewhere
<1>9. ASSUME Goes(irp[t].size, x, s, y, irp'[t].todo), Elsewhere(t)
      PROVE  /\ Goes(irp[t].size, Current(t), irp[t].todo, Current(t)', irp'[t].todo)
             /\ Elsewhere(t)
  BY <1>1, <1>9
<1>10. ASSUME Does(irp[t].size, a, x, y), irp'[t].todo = Tail(s)
       PROVE  Goes(irp[t].size, x, s, y, irp'[t].todo)
  BY <1>4, <1>10 DEF Goes
<1>11. ASSUME Advance(t, r)
       PROVE  /\ y.port = x.port /\ y.value = x.value /\ y.fed = x.fed
              /\ irp'[t].todo = Tail(s) /\ Elsewhere(t)
  BY <1>2, <1>5, <1>7, <1>11
<1>12. CASE StoreField(t)
  <2>1. /\ At(t, "store") /\ chip' = chip /\ pool' = pool /\ Advance(t, r)
        /\ ext' = [ext EXCEPT ![a[2]] = a[3]]
    BY <1>1, <1>5, <1>12 DEF StoreField
  <2>2. /\ y.port = x.port /\ y.value = x.value /\ y.fed = x.fed
        /\ irp'[t].todo = Tail(s) /\ Elsewhere(t)
    BY <1>11, <2>1
  <2>3. y.e = [x.e EXCEPT ![a[2]] = a[3]] /\ y.c = x.c /\ y.p = x.p
    BY <1>2, <1>3, <2>1
  <2>4. y = [x EXCEPT !.e = y.e]
    BY <1>2, <1>3, <2>2, <2>3, Rebuilt
  <2>5. y = [x EXCEPT !.e = [x.e EXCEPT ![a[2]] = a[3]]]
    BY <2>3, <2>4, Zenon
  <2>6. Does(irp[t].size, a, x, y)
    BY <1>6, <2>1, <2>5 DEF Does
  <2>7. QED
    BY <1>9, <1>10, <2>2, <2>6
<1>13. CASE LoadRate(t)
  <2>1. PICK v : v = Atomic!Word(ext.SampleRate)
    OBVIOUS
  <2>2. v \in Words
    BY <2>1, WordsLemma, SMTT(30) DEF Typed, Atomic!ExtType, Atomic!Word
  <2>3. PICK q : q = [r EXCEPT !.value = v]
    OBVIOUS
  <2>4. q \in IrpType /\ q.op = r.op /\ q.size = r.size /\ q.fed = r.fed /\ q.value = v
        /\ q.port = r.port
    BY <1>5, <2>2, <2>3 DEF IrpType
  <2>5. At(t, "load") /\ ext' = ext /\ chip' = chip /\ pool' = pool /\ Advance(t, q)
    BY <1>5, <1>13, <2>1, <2>3 DEF LoadRate
  <2>6. /\ y.port = q.port /\ y.value = q.value /\ y.fed = q.fed
        /\ irp'[t].todo = Tail(s) /\ Elsewhere(t)
    BY <1>7, <2>4, <2>5
  <2>7. /\ y.e = x.e /\ y.c = x.c /\ y.p = x.p /\ y.port = x.port /\ y.fed = x.fed
        /\ y.value = Atomic!Word(x.e.SampleRate)
    BY <1>2, <1>3, <1>5, <2>1, <2>4, <2>5, <2>6
  <2>8. y = [x EXCEPT !.value = y.value]
    BY <1>2, <1>3, <2>7, Rebuilt
  <2>9. y = [x EXCEPT !.value = Atomic!Word(x.e.SampleRate)]
    BY <2>7, <2>8, Zenon
  <2>10. Does(irp[t].size, a, x, y)
    BY <1>6, <2>5, <2>9 DEF Does
  <2>11. QED
    BY <1>9, <1>10, <2>6, <2>10
<1>14. CASE Allocate(t)
  <2>1. At(t, "allocate") /\ chip' = chip
    BY <1>14 DEF Allocate
  <2>2. CASE /\ \E b \in Blocks \ pool : pool' = pool \cup {b} /\ ext' = [ext EXCEPT !.WriteBuffer = b]
             /\ Advance(t, irp[t])
    <3>1. /\ y.port = x.port /\ y.value = x.value /\ y.fed = x.fed
          /\ irp'[t].todo = Tail(s) /\ Elsewhere(t)
      BY <1>5, <1>11, <2>2
    <3>2. PICK b \in Blocks \ x.p : y.p = x.p \cup {b} /\ y.e = [x.e EXCEPT !.WriteBuffer = b]
      BY <1>2, <1>3, <2>2
    <3>3. y.c = x.c
      BY <1>2, <1>3, <2>1
    <3>4. y = [x EXCEPT !.p = y.p, !.e = y.e]
      BY <1>2, <1>3, <3>1, <3>3, Rebuilt
    <3>5. y = [x EXCEPT !.p = x.p \cup {b}, !.e = [x.e EXCEPT !.WriteBuffer = b]]
      BY <3>2, <3>4, Zenon
    <3>6. Does(irp[t].size, a, x, y)
      BY <1>6, <2>1, <3>5 DEF Does
    <3>7. QED
      BY <1>9, <1>10, <3>1, <3>6
  <2>3. CASE /\ ext' = [ext EXCEPT !.WriteBuffer = Null]
             /\ irp' = [irp EXCEPT ![t].todo = Store("WriteBufferSize", 0)
                                                 \o Return("INSUFFICIENT_RESOURCES")]
             /\ UNCHANGED pool
    <3>1. PICK k : k = Store("WriteBufferSize", 0) \o Return("INSUFFICIENT_RESOURCES")
      OBVIOUS
    <3>2. irp' = [irp EXCEPT ![t].todo = k]
      BY <2>3, <3>1
    <3>3. /\ y.port = x.port /\ y.value = x.value /\ y.fed = x.fed
          /\ irp'[t].todo = k /\ Elsewhere(t)
      BY <1>8, <3>2
    <3>4. y.e = [x.e EXCEPT !.WriteBuffer = Null] /\ y.c = x.c /\ y.p = x.p
      BY <1>2, <1>3, <2>1, <2>3
    <3>5. y = [x EXCEPT !.e = y.e]
      BY <1>2, <1>3, <3>3, <3>4, Rebuilt
    <3>6. y = [x EXCEPT !.e = [x.e EXCEPT !.WriteBuffer = Null]]
      BY <3>4, <3>5, Zenon
    <3>7. Leaves(x, s, y, k)
      BY <1>4, <1>6, <2>1, <3>1, <3>6 DEF Leaves
    <3>8. QED
      BY <1>9, <3>3, <3>7 DEF Goes
  <2>4. QED
    BY <1>14, <2>2, <2>3 DEF Allocate
<1>15. CASE CheckState(t)
  <2>1. At(t, "check") /\ ext' = ext /\ chip' = chip /\ pool' = pool
    BY <1>15 DEF CheckState
  <2>2. CASE ext.Configured /\ ext.Playing
    <3>1. Advance(t, r)
      BY <1>5, <1>15, <2>2 DEF CheckState
    <3>2. /\ y.port = x.port /\ y.value = x.value /\ y.fed = x.fed
          /\ irp'[t].todo = Tail(s) /\ Elsewhere(t)
      BY <1>11, <3>1
    <3>3. y = x
      BY <1>2, <1>3, <2>1, <3>2, SameConfig
    <3>4. Does(irp[t].size, a, x, y)
      BY <1>2, <1>6, <2>1, <2>2, <3>3 DEF Does
    <3>5. QED
      BY <1>9, <1>10, <3>2, <3>4
  <2>3. CASE ~(ext.Configured /\ ext.Playing)
    <3>1. PICK k : k = Return("INVALID_DEVICE_STATE")
      OBVIOUS
    <3>2. irp' = [irp EXCEPT ![t].todo = k]
      BY <1>15, <2>3, <3>1 DEF CheckState
    <3>3. /\ y.port = x.port /\ y.value = x.value /\ y.fed = x.fed
          /\ irp'[t].todo = k /\ Elsewhere(t)
      BY <1>8, <3>2
    <3>4. y = x
      BY <1>2, <1>3, <2>1, <3>3, SameConfig
    <3>5. Leaves(x, s, y, k)
      BY <1>2, <1>4, <1>6, <2>1, <2>3, <3>1, <3>4 DEF Leaves
    <3>6. QED
      BY <1>9, <3>3, <3>5 DEF Goes
  <2>4. QED
    BY <2>2, <2>3
<1>16. CASE Ac97FeedSamples(t)
  <2>1. PICK v : v = Atomic!Ac97FeedSamples(ext, irp[t].size)
    OBVIOUS
  <2>2. ext.BitsPerSample \in Nat /\ irp[t].size \in Nat
    BY <1>5 DEF Typed, IrpType, Atomic!ExtType
  <2>3. v \in FedType
    BY <2>1, <2>2 DEF Atomic!Ac97FeedSamples, FedType
  <2>4. PICK q : q = [r EXCEPT !.fed = v]
    OBVIOUS
  <2>5. q \in IrpType /\ q.op = r.op /\ q.size = r.size /\ q.fed = v /\ q.value = r.value
        /\ q.port = r.port
    BY <1>5, <2>3, <2>4 DEF IrpType
  <2>6. At(t, "feed") /\ ext' = ext /\ chip' = chip /\ pool' = pool /\ Advance(t, q)
    BY <1>5, <1>16, <2>1, <2>4 DEF Ac97FeedSamples
  <2>7. /\ y.port = q.port /\ y.value = q.value /\ y.fed = q.fed
        /\ irp'[t].todo = Tail(s) /\ Elsewhere(t)
    BY <1>7, <2>5, <2>6
  <2>8. /\ y.e = x.e /\ y.c = x.c /\ y.p = x.p /\ y.port = x.port /\ y.value = x.value
        /\ y.fed = Atomic!Ac97FeedSamples(x.e, irp[t].size)
    BY <1>2, <1>3, <1>5, <2>1, <2>5, <2>6, <2>7
  <2>9. y = [x EXCEPT !.fed = y.fed]
    BY <1>2, <1>3, <2>8, Rebuilt
  <2>10. y = [x EXCEPT !.fed = Atomic!Ac97FeedSamples(x.e, irp[t].size)]
    BY <2>8, <2>9, Zenon
  <2>11. Does(irp[t].size, a, x, y)
    BY <1>6, <2>6, <2>10 DEF Does
  <2>12. QED
    BY <1>9, <1>10, <2>7, <2>11
<1>17. QED
  BY <1>12, <1>13, <1>14, <1>15, <1>16 DEF AccessExtension

LEMMA FreeGoes ==
  ASSUME Typed, Typed', NEW t \in Threads, FreeBuffer(t)
  PROVE  /\ Goes(irp[t].size, Current(t), irp[t].todo, Current(t)', irp'[t].todo)
         /\ Elsewhere(t)
<1>1. PICK x, y, a, s : x = Current(t) /\ y = Current(t)' /\ a = Access(t) /\ s = irp[t].todo
  OBVIOUS
<1>2. x \in Configs /\ x.e = ext /\ x.c = chip /\ x.p = pool /\ x.port = irp[t].port
      /\ x.value = irp[t].value /\ x.fed = irp[t].fed
  BY <1>1, CurrentLemma
<1>3. y \in Configs /\ y.e = ext' /\ y.c = chip' /\ y.p = pool' /\ y.port = irp'[t].port
      /\ y.value = irp'[t].value /\ y.fed = irp'[t].fed
  BY <1>1, CurrentNext
<1>4. s[1] = a /\ a[1] = "free"
  BY <1>1 DEF Access, FreeBuffer, At
<1>5. PICK r \in IrpType : r = irp[t]
  BY DEF Typed
<1>6. /\ Advance(t, r) /\ ext' = ext /\ chip' = chip /\ pool' = pool \ {ext.WriteBuffer}
  BY <1>5 DEF FreeBuffer
<1>7. /\ y.port = x.port /\ y.value = x.value /\ y.fed = x.fed
      /\ irp'[t].todo = Tail(s) /\ Elsewhere(t)
  BY <1>1, <1>2, <1>3, <1>5, <1>6, AdvancedLemma DEF Elsewhere
<1>8. y.e = x.e /\ y.c = x.c /\ y.p = x.p \ {x.e.WriteBuffer}
  BY <1>2, <1>3, <1>6
<1>9. y = [x EXCEPT !.p = y.p]
  BY <1>2, <1>3, <1>7, <1>8, Rebuilt
<1>10. y = [x EXCEPT !.p = x.p \ {x.e.WriteBuffer}]
  BY <1>8, <1>9, Zenon
<1>11. Does(irp[t].size, a, x, y)
  BY <1>4, <1>10 DEF Does
<1>12. Goes(irp[t].size, x, s, y, irp'[t].todo)
  BY <1>4, <1>7, <1>11 DEF Goes
<1>13. QED
  BY <1>1, <1>7, <1>12

\* What an IRP of thread t that returns st in configuration y leaves at rest.
Settles(t, op, y, st) ==
  /\ rest'.ext = y.e /\ rest'.chip = y.c /\ rest'.pool = y.p
  /\ rest'.handles = CASE op = "CREATE" -> rest.handles \cup {t}
                       [] op = "CLOSE" -> rest.handles \ {t}
                       [] OTHER -> rest.handles
  /\ rest'.pnp = CASE op = "PNP" -> "stopped" [] op = "OTHER" -> "started" [] OTHER -> rest.pnp
  /\ rest'.last = [op |-> op, status |-> st, fed |-> y.fed]

\* Where Ends says an IRP ends is a step of Ac97Driver.
LEMMA EndsNext ==
  ASSUME NEW t, NEW op, NEW size, NEW y, NEW st, rest.pnp \in {"started", "stopped"},
         rest.handles \subseteq Handles,
         Ends(rest, t, op, size, y, st), Settles(t, op, y, st)
  PROVE  Atomic!Next
<1>1. /\ rest'.ext = y.e /\ rest'.chip = y.c /\ rest'.pool = y.p
      /\ rest'.last = [op |-> op, status |-> st, fed |-> y.fed]
  BY DEF Settles
<1>2. CASE op = "CREATE" /\ t \in Handles \ rest.handles /\ CreateEnds(rest, y, st)
  <2>1. Atomic!Ac97DispatchCreate(t)
    BY <1>1, <1>2 DEF CreateEnds, Settles, Atomic!Ac97DispatchCreate, Atomic!Complete
  <2>2. QED
    BY <1>2, <2>1 DEF Atomic!Next
<1>3. CASE op = "CLOSE" /\ t \in rest.handles /\ CloseEnds(rest, y, st)
  <2>1. Atomic!Ac97DispatchClose(t)
    BY <1>1, <1>3 DEF CloseEnds, StopsTo, FreedPool, Settles, Atomic!Ac97DispatchClose,
                      Atomic!Complete, Atomic!Freed
  <2>2. QED
    BY <1>3, <2>1 DEF Atomic!Next
<1>4. CASE op = "STOP" /\ t \in rest.handles /\ StopIoctlEnds(rest, y, st)
  <2>1. Atomic!StopIoctl(t)
    BY <1>1, <1>4 DEF StopIoctlEnds, StopsTo, Settles, Atomic!StopIoctl, Atomic!Complete
  <2>2. QED
    BY <1>4, <2>1 DEF Atomic!Next, Atomic!Ac97DispatchDeviceControl
<1>5. CASE op = "WRITE" /\ t \in rest.handles /\ size \in Sizes \ {0} /\ WriteEnds(rest, size, y, st)
  <2>1. size \in Sizes /\ size > 0
    BY <1>5, SizesAssumption
  <2>2. Atomic!Ac97HandleWrite(t, size)
    BY <1>1, <1>5, <2>1 DEF WriteEnds, Settles, Atomic!Ac97HandleWrite, Atomic!Complete
  <2>3. QED
    BY <1>5, <2>1, <2>2 DEF Atomic!Next, Atomic!Ac97DispatchDeviceControl
<1>6. ASSUME NEW cfg \in Requests, op = "CONFIGURE", t \in rest.handles, InvalidEnds(rest, cfg, y, st)
      PROVE  Atomic!Next
  <2>1. Atomic!ConfigureInvalid(t, cfg)
    BY <1>1, <1>6 DEF InvalidEnds, StopsTo, Settles, ValidRequest, Atomic!ConfigureInvalid,
                      Atomic!Complete
  <2>2. QED
    BY <1>6, <2>1 DEF Atomic!Next, Atomic!Ac97DispatchDeviceControl
<1>7. ASSUME NEW cfg \in Requests, op = "CONFIGURE", t \in rest.handles, NoPoolEnds(rest, cfg, y, st)
      PROVE  Atomic!Next
  <2>1. Atomic!ConfigureNoPool(t, cfg)
    BY <1>1, <1>7 DEF NoPoolEnds, Rated, FreedPool, Reformed, Settles, ValidRequest,
                      Atomic!ConfigureNoPool, Atomic!Complete, Atomic!Freed, Atomic!Reformatted
  <2>2. QED
    BY <1>7, <2>1 DEF Atomic!Next, Atomic!Ac97DispatchDeviceControl
<1>8. ASSUME NEW cfg \in Requests, op = "CONFIGURE", t \in rest.handles, ConfiguredEnds(rest, cfg, y, st)
      PROVE  Atomic!Next
  <2>1. Reformed(rest, cfg) = Atomic!Reformatted(cfg) /\ FreedPool(rest) = Atomic!Freed(rest.ext)
    BY DEF Reformed, Atomic!Reformatted, FreedPool, Atomic!Freed
  <2>2. /\ Atomic!ValidRequest(cfg)
        /\ rest'.handles = rest.handles /\ rest'.pnp = rest.pnp
    BY <1>8 DEF ConfiguredEnds, ValidRequest, Settles
  <2>3. \E b \in Blocks \ Atomic!Freed(rest.ext) :
          /\ rest'.pool = Atomic!Freed(rest.ext) \cup {b}
          /\ rest'.ext = [Atomic!Reformatted(cfg) EXCEPT !.WriteBuffer = b,
                                                        !.WriteBufferSize = Atomic!BufferSize(cfg),
                                                        !.Configured = TRUE,
                                                        !.Playing = TRUE]
    BY <1>1, <1>8, <2>1 DEF ConfiguredEnds
  <2>4. \E c1 \in Atomic!Ac97StopPlayback(rest.ext, Codec(rest.chip)) :
          \E c2 \in Atomic!Ac97Reset(rest.ext, c1) :
            \E c3 \in Atomic!Ac97SetSampleRate(rest.ext, c2, cfg.SampleRate) :
              Atomic!Ac97StartPlayback(Atomic!Reformatted(cfg), c3, Codec(rest'.chip))
    <3>1. PICK c3 \in Rated(rest, cfg) :
            Atomic!Ac97StartPlayback(Reformed(rest, cfg), c3, Codec(y.c))
      BY <1>8 DEF ConfiguredEnds
    <3>2. PICK c1 \in Atomic!Ac97StopPlayback(rest.ext, Codec(rest.chip)) :
            \E c2 \in Atomic!Ac97Reset(rest.ext, c1) :
              c3 \in Atomic!Ac97SetSampleRate(rest.ext, c2, cfg.SampleRate)
      BY DEF Rated
    <3>3. QED
      BY <1>1, <2>1, <3>1, <3>2
  <2>5. rest'.last = [op |-> "CONFIGURE", status |-> "SUCCESS", fed |-> Atomic!Nothing]
    BY <1>1, <1>8 DEF ConfiguredEnds
  <2>6. Atomic!ConfigureAndPlay(t, cfg)
    BY <1>8, <2>2, <2>3, <2>4, <2>5 DEF Atomic!ConfigureAndPlay, Atomic!Complete
  <2>7. QED
    BY <1>8, <2>6 DEF Atomic!Next, Atomic!Ac97DispatchDeviceControl
<1>9. CASE op = "PNP" /\ rest.pnp = "started" /\ StopDeviceEnds(rest, y, st)
  <2>1. Atomic!StopDevice
    BY <1>1, <1>9 DEF StopDeviceEnds, StopsTo, Settles, Atomic!StopDevice, Atomic!Complete
  <2>2. QED
    BY <2>1 DEF Atomic!Next, Atomic!Ac97DispatchPnp
<1>10. CASE op = "OTHER" /\ rest.pnp = "stopped" /\ StartDeviceEnds(rest, y, st)
  <2>1. Atomic!StartDevice
    BY <1>1, <1>10 DEF StartDeviceEnds, Settles, Atomic!StartDevice, Atomic!Complete, DefaultIoBase
  <2>2. QED
    BY <2>1 DEF Atomic!Next, Atomic!Ac97DispatchPnp
<1>11. QED
  BY <1>2, <1>3, <1>4, <1>5, <1>6, <1>7, <1>8, <1>9, <1>10 DEF Ends

\* Thread t can only return where Ac97Driver has it end.
Bound(t) == <<Current(t), irp[t].todo>> \in Safe(Ended(rest, t, irp[t].op, irp[t].size), irp[t].size)

Alone == /\ Typed
         /\ Running = {} => rest = Snapshot
         /\ ~overlap => \A t \in Running : /\ Running = {t}
                                           /\ rest.handles = handles /\ rest.pnp = pnp
                                           /\ Bound(t)

LEMMA InitAlone == Init => Alone
<1>1. SUFFICES ASSUME Init
               PROVE  Alone
  OBVIOUS
<1>2. Running = {}
  BY <1>1, IdleTyped DEF Init, Running
<1>3. QED
  BY <1>1, <1>2, InitTyped DEF Alone, Init

LEMMA SnapshotLemma ==
  /\ Snapshot.ext = ext /\ Snapshot.chip = chip /\ Snapshot.pool = pool
  /\ Snapshot.handles = handles /\ Snapshot.pnp = pnp /\ Snapshot.last = last
BY DEF Snapshot

LEMMA DispatchAlone ==
  ASSUME Alone, Typed', NEW t \in Threads, NEW op, op # "none", NEW size, NEW todo,
         Dispatch(t, op, size, todo),
         Running = {} => \A x \in Begun(rest) : <<x, todo>> \in Safe(Ended(rest, t, op, size), size)
  PROVE  Alone'
<1>1. PICK r : r = [Idle EXCEPT !.op = op, !.size = size, !.todo = todo]
  OBVIOUS
<1>2. /\ r.op = op /\ r.size = size /\ r.todo = todo /\ r.port = 0 /\ r.value = 0
      /\ r.fed = Atomic!Nothing
  BY <1>1 DEF Idle, Atomic!Nothing
<1>3. irp' = [irp EXCEPT ![t] = r] /\ UNCHANGED <<ext, chip, pool, handles, pnp>>
      /\ overlap' = (Running # {}) /\ irp[t].op = "none"
  BY <1>1 DEF Dispatch
<1>4. irp'[t] = r /\ \A u \in Threads \ {t} : irp'[u] = irp[u]
  BY <1>3 DEF Alone, Typed
<1>5. t \in Running' /\ (Running = {} => Running' = {t})
  BY <1>2, <1>4 DEF Running
<1>6. ASSUME Running = {}
      PROVE  /\ rest'.handles = handles' /\ rest'.pnp = pnp' /\ Bound(t)'
  <2>1. rest' = rest /\ rest = Snapshot
    BY <1>6 DEF Dispatch, Alone
  <2>2. /\ rest.ext = ext /\ rest.chip = chip /\ rest.pool = pool
        /\ rest.handles = handles /\ rest.pnp = pnp
    BY <2>1, SnapshotLemma
  <2>3. PICK y : y = Current(t)'
    OBVIOUS
  <2>4. /\ y \in Configs /\ y.e = ext /\ y.c = chip /\ y.p = pool
        /\ y.value = 0 /\ y.fed = Atomic!Nothing
    BY <1>2, <1>3, <1>4, <2>3, CurrentNext
  <2>5. 0 \in Words
    BY WordsLemma
  <2>6. y \in Begun(rest)
    BY <2>2, <2>4, <2>5 DEF Begun, Still
  <2>7. <<y, todo>> \in Safe(Ended(rest, t, op, size), size)
    BY <1>6, <2>6
  <2>8. Bound(t)'
    BY <1>2, <1>4, <2>1, <2>3, <2>7 DEF Bound
  <2>9. QED
    BY <1>3, <2>1, <2>2, <2>8
<1>7. QED
  BY <1>3, <1>5, <1>6 DEF Alone

LEMMA SendAlone ==
  ASSUME Alone, Typed', \/ \E h \in Handles : SendIrp(h)
                        \/ SendPnp
  PROVE  Alone'
<1>1. ext \in Atomic!ExtType /\ (Running = {} => rest = Snapshot)
  BY DEF Alone, Typed
<1>2. /\ rest = Snapshot => rest.ext \in Atomic!ExtType /\ rest.handles = handles /\ rest.pnp = pnp
  BY <1>1, SnapshotLemma
<1>3. {"SUCCESS", "INVALID_PARAMETER", "INSUFFICIENT_RESOURCES"} \subseteq Atomic!Statuses
  BY DEF Atomic!Statuses
<1>4. ASSUME NEW h \in Handles, SendIrp(h)
      PROVE  Alone'
  <2>1. h \in Threads
    BY DEF Threads
  <2>2. CASE h \notin handles /\ Dispatch(h, "CREATE", 0, Ac97DispatchCreate)
    <3>1. PICK D : D = Ended(rest, h, "CREATE", 0)
      OBVIOUS
    <3>2. rest = Snapshot =>
            \A y \in Configs : CreateEnds(rest, y, "SUCCESS") => <<y, "SUCCESS">> \in D
      BY <1>2, <1>3, <2>2, <3>1, EndedLemma DEF Ends
    <3>3. rest = Snapshot => \A x \in Begun(rest) : <<x, Ac97DispatchCreate>> \in Safe(D, 0)
      BY <1>2, <3>2, CreateSafe
    <3>4. QED
      BY <1>1, <2>1, <2>2, <3>1, <3>3, DispatchAlone
  <2>3. CASE h \in handles /\ Dispatch(h, "CLOSE", 0, Ac97DispatchClose)
    <3>1. PICK D : D = Ended(rest, h, "CLOSE", 0)
      OBVIOUS
    <3>2. rest = Snapshot =>
            \A y \in Configs : CloseEnds(rest, y, "SUCCESS") => <<y, "SUCCESS">> \in D
      BY <1>2, <1>3, <2>3, <3>1, EndedLemma DEF Ends
    <3>3. rest = Snapshot => \A x \in Begun(rest) : <<x, Ac97DispatchClose>> \in Safe(D, 0)
      BY <1>2, <3>2, CloseSafe
    <3>4. QED
      BY <1>1, <2>1, <2>3, <3>1, <3>3, DispatchAlone
  <2>4. CASE h \in handles /\ Dispatch(h, "STOP", 0, StopIoctl)
    <3>1. PICK D : D = Ended(rest, h, "STOP", 0)
      OBVIOUS
    <3>2. rest = Snapshot =>
            \A y \in Configs : StopIoctlEnds(rest, y, "SUCCESS") => <<y, "SUCCESS">> \in D
      BY <1>2, <1>3, <2>4, <3>1, EndedLemma DEF Ends
    <3>3. rest = Snapshot => \A x \in Begun(rest) : <<x, StopIoctl>> \in Safe(D, 0)
      BY <1>2, <3>2, StopIoctlSafe
    <3>4. QED
      BY <1>1, <2>1, <2>4, <3>1, <3>3, DispatchAlone
  <2>5. ASSUME h \in handles, NEW size \in Sizes \ {0}, Dispatch(h, "WRITE", size, Ac97HandleWrite)
        PROVE  Alone'
    <3>1. PICK D : D = Ended(rest, h, "WRITE", size)
      OBVIOUS
    <3>2. rest = Snapshot => \A y \in Configs, st \in Atomic!Statuses :
                               WriteEnds(rest, size, y, st) => <<y, st>> \in D
      BY <1>2, <2>5, <3>1, EndedLemma DEF Ends
    <3>3. size \in Nat
      BY SizesAssumption
    <3>4. rest = Snapshot => \A x \in Begun(rest) : <<x, Ac97HandleWrite>> \in Safe(D, size)
      BY <1>2, <3>2, <3>3, WriteSafe
    <3>5. QED
      BY <1>1, <2>1, <2>5, <3>1, <3>4, DispatchAlone
  <2>6. ASSUME h \in handles, NEW cfg \in Requests,
               Dispatch(h, "CONFIGURE", 0, Ac97ConfigureAndPlay(cfg))
        PROVE  Alone'
    <3>1. PICK D : D = Ended(rest, h, "CONFIGURE", 0)
      OBVIOUS
    <3>2. rest = Snapshot => \A y \in Configs, st \in Atomic!Statuses :
            InvalidEnds(rest, cfg, y, st) \/ NoPoolEnds(rest, cfg, y, st)
              \/ ConfiguredEnds(rest, cfg, y, st) => <<y, st>> \in D
      BY <1>2, <2>6, <3>1, EndedLemma DEF Ends
    <3>3. ASSUME rest = Snapshot, ValidRequest(cfg)
          PROVE  \A x \in Begun(rest) : <<x, Ac97ConfigureAndPlay(cfg)>> \in Safe(D, 0)
      <4>1. /\ \A y \in Configs : ConfiguredEnds(rest, cfg, y, "SUCCESS") => <<y, "SUCCESS">> \in D
            /\ \A y \in Configs : NoPoolEnds(rest, cfg, y, "INSUFFICIENT_RESOURCES")
                                    => <<y, "INSUFFICIENT_RESOURCES">> \in D
        BY <1>3, <3>2, <3>3
      <4>2. QED
        BY <1>2, <3>3, <4>1, ConfigureSafe
    <3>4. ASSUME rest = Snapshot, ~ValidRequest(cfg)
          PROVE  \A x \in Begun(rest) : <<x, Ac97ConfigureAndPlay(cfg)>> \in Safe(D, 0)
      <4>1. \A y \in Configs : InvalidEnds(rest, cfg, y, "INVALID_PARAMETER")
                                 => <<y, "INVALID_PARAMETER">> \in D
        BY <1>3, <3>2, <3>4
      <4>2. QED
        BY <1>2, <3>4, <4>1, InvalidSafe
    <3>5. QED
      BY <1>1, <2>1, <2>6, <3>1, <3>3, <3>4, DispatchAlone
  <2>7. QED
    BY <1>4, <2>2, <2>3, <2>4, <2>5, <2>6 DEF SendIrp
<1>5. ASSUME SendPnp
      PROVE  Alone'
  <2>1. PnP \in Threads
    BY DEF Threads
  <2>2. CASE pnp = "started" /\ Dispatch(PnP, "PNP", 0, StopDevice)
    <3>1. PICK D : D = Ended(rest, PnP, "PNP", 0)
      OBVIOUS
    <3>2. rest = Snapshot =>
            \A y \in Configs : StopDeviceEnds(rest, y, "SUCCESS") => <<y, "SUCCESS">> \in D
      BY <1>2, <1>3, <2>2, <3>1, EndedLemma DEF Ends
    <3>3. rest = Snapshot => \A x \in Begun(rest) : <<x, StopDevice>> \in Safe(D, 0)
      BY <1>2, <3>2, StopDeviceSafe
    <3>4. QED
      BY <1>1, <2>1, <2>2, <3>1, <3>3, DispatchAlone
  <2>3. CASE pnp = "stopped" /\ Dispatch(PnP, "OTHER", 0, StartDevice)
    <3>1. PICK D : D = Ended(rest, PnP, "OTHER", 0)
      OBVIOUS
    <3>2. rest = Snapshot =>
            \A y \in Configs : StartDeviceEnds(rest, y, "SUCCESS") => <<y, "SUCCESS">> \in D
      BY <1>2, <1>3, <2>3, <3>1, EndedLemma DEF Ends
    <3>3. rest = Snapshot => \A x \in Begun(rest) : <<x, StartDevice>> \in Safe(D, 0)
      BY <1>2, <3>2, StartDeviceSafe
    <3>4. QED
      BY <1>1, <2>1, <2>3, <3>1, <3>3, DispatchAlone
  <2>4. QED
    BY <1>5, <2>2, <2>3 DEF SendPnp
<1>6. QED
  BY <1>4, <1>5

LEMMA GoesAlone ==
  ASSUME Alone, Typed', NEW t \in Running,
         Goes(irp[t].size, Current(t), irp[t].todo, Current(t)', irp'[t].todo),
         Elsewhere(t), UNCHANGED <<handles, pnp, overlap, rest>>
  PROVE  Alone'
<1>1. t \in Threads /\ irp[t].op # "none"
  BY DEF Running
<1>2. Running' = Running
  BY DEF Running, Elsewhere
<1>3. irp'[t].op = irp[t].op /\ irp'[t].size = irp[t].size
  BY DEF Elsewhere
<1>4. ASSUME ~overlap
      PROVE  Bound(t)'
  <2>1. PICK x, s, y, k, n, D : /\ x = Current(t) /\ s = irp[t].todo /\ n = irp[t].size
                                /\ y = Current(t)' /\ k = irp'[t].todo
                                /\ D = Ended(rest, t, irp[t].op, irp[t].size)
    OBVIOUS
  <2>2. <<x, s>> \in Safe(D, n)
    BY <1>4, <2>1 DEF Alone, Bound
  <2>3. x \in Configs /\ y \in Configs
    BY <1>1, <2>1, CurrentLemma, CurrentNext DEF Alone
  <2>4. s \in Routines
    BY <1>1, <2>1, AtLemma DEF Alone
  <2>5. k \in Routines
    BY <1>1, <1>3, <2>1 DEF Typed, IrpType
  <2>6. Goes(n, x, s, y, k)
    BY <2>1
  <2>7. Closed(D, n, Safe(D, n))
    BY SafeClosed
  <2>8. <<y, k>> \in Safe(D, n)
    BY <2>2, <2>3, <2>4, <2>5, <2>6, <2>7 DEF Closed
  <2>9. QED
    BY <1>3, <2>1, <2>8 DEF Bound
<1>5. QED
  BY <1>2, <1>4 DEF Alone

LEMMA StepAlone ==
  ASSUME Alone, Typed', NEW t \in Threads, Step(t), ~Complete(t)
  PROVE  Alone' /\ UNCHANGED rest
<1>1. irp[t].op # "none" => t \in Running
  BY DEF Running
<1>2. Typed
  BY DEF Alone
<1>3. CASE (AccessPort(t) \/ AccessExtension(t)) /\ UNCHANGED <<handles, pnp, overlap, rest>>
  <2>1. irp[t].op # "none"
    <3>1. AccessPort(t) => irp[t].op # "none"
      <4>1. SelectRegister(t) \/ PollReady(t) \/ Probe(t) => irp[t].op # "none"
        BY DEF SelectRegister, PollReady, Probe, At
      <4>2. ReadValue(t) => irp[t].op # "none"
        BY DEF ReadValue, At
      <4>3. WriteValue(t) => irp[t].op # "none"
        BY DEF WriteValue, At
      <4>4. QED
        BY <4>1, <4>2, <4>3 DEF AccessPort
    <3>2. AccessExtension(t) => irp[t].op # "none"
      BY Zenon DEF AccessExtension, StoreField, LoadRate, Allocate, CheckState, Ac97FeedSamples, At
    <3>3. QED
      BY <1>3, <3>1, <3>2
  <2>2. /\ Goes(irp[t].size, Current(t), irp[t].todo, Current(t)', irp'[t].todo)
        /\ Elsewhere(t)
    BY <1>2, <1>3, PortGoes, ExtensionGoes
  <2>3. QED
    BY <1>1, <1>3, <2>1, <2>2, GoesAlone
<1>4. CASE FreeBuffer(t) /\ UNCHANGED <<handles, pnp, overlap, rest>>
  <2>1. irp[t].op # "none"
    BY <1>4 DEF FreeBuffer, At
  <2>2. /\ Goes(irp[t].size, Current(t), irp[t].todo, Current(t)', irp'[t].todo)
        /\ Elsewhere(t)
    BY <1>2, <1>4, FreeGoes
  <2>3. QED
    BY <1>1, <1>4, <2>1, <2>2, GoesAlone
<1>5. QED
  BY <1>3, <1>4 DEF Step

LEMMA CompleteAlone ==
  ASSUME Alone, Typed', NEW t \in Threads, Complete(t)
  PROVE  Alone' /\ (overlap' \/ Atomic!Next \/ UNCHANGED rest)
<1>1. irp[t].op # "none" /\ Access(t)[1] = "return" /\ t \in Running
  BY DEF Complete, At, Running
<1>2. irp' = [irp EXCEPT ![t] = Idle] /\ overlap' = overlap
      /\ ext' = ext /\ chip' = chip /\ pool' = pool
  BY DEF Complete
<1>3. irp'[t].op = "none" /\ \A u \in Threads \ {t} : irp'[u] = irp[u]
  BY <1>2, IdleTyped DEF Alone, Typed
<1>4. Running' = Running \ {t}
  BY <1>3 DEF Running
<1>5. CASE Running # {t}
  <2>1. overlap
    BY <1>1, <1>5 DEF Alone
  <2>2. Running' # {}
    BY <1>1, <1>4, <1>5
  <2>3. QED
    BY <1>2, <2>1, <2>2 DEF Alone
<1>6. CASE Running = {t}
  <2>1. Running' = {} /\ rest' = Snapshot'
    BY <1>4, <1>6 DEF Complete
  <2>2. Alone'
    BY <2>1 DEF Alone
  <2>3. ASSUME ~overlap
        PROVE  Atomic!Next
    <3>1. rest.handles = handles /\ rest.pnp = pnp /\ Bound(t)
      BY <1>1, <2>3 DEF Alone
    <3>2. PICK x, s, n, op, D, st : /\ x = Current(t) /\ s = irp[t].todo /\ n = irp[t].size
                                    /\ op = irp[t].op /\ D = Ended(rest, t, op, n)
                                    /\ st = Access(t)[2]
      OBVIOUS
    <3>3. <<x, s>> \in Safe(D, n) /\ s[1][1] = "return" /\ s[1][2] = st
      BY <1>1, <3>1, <3>2 DEF Bound, Access
    <3>4. /\ x \in Configs /\ x.e = ext /\ x.c = chip /\ x.p = pool /\ x.fed = irp[t].fed
      BY <3>2, CurrentLemma DEF Alone
    <3>5. s \in Routines
      BY <1>1, <3>2, AtLemma DEF Alone
    <3>6. <<x, st>> \in D
      BY <3>3, <3>4, <3>5, SafeClosed DEF Closed
    <3>7. Ends(rest, t, op, n, x, st)
      BY <3>2, <3>6, EndedLemma
    <3>8. /\ rest'.ext = ext /\ rest'.chip = chip /\ rest'.pool = pool
          /\ rest'.handles = handles' /\ rest'.pnp = pnp' /\ rest'.last = last'
      BY <1>2, <2>1 DEF Snapshot
    <3>9. Settles(t, op, x, st)
      BY <3>1, <3>2, <3>4, <3>8 DEF Settles, Complete
    <3>10. rest.pnp \in {"started", "stopped"} /\ rest.handles \subseteq Handles
      BY <3>1 DEF Alone, Typed
    <3>11. QED
      BY <3>7, <3>9, <3>10, EndsNext
  <2>4. QED
    BY <1>2, <2>2, <2>3
<1>7. QED
  BY <1>5, <1>6

LEMMA AloneInductive ==
  Alone /\ [Next]_vars => Alone' /\ (overlap' \/ [Atomic!Next]_(Atomic!vars))
<1>1. SUFFICES ASSUME Alone, [Next]_vars
               PROVE  Alone' /\ (overlap' \/ [Atomic!Next]_(Atomic!vars))
  OBVIOUS
<1>2. Typed'
  BY <1>1, NextTyped DEF Alone
<1>3. UNCHANGED rest => UNCHANGED Atomic!vars
  BY DEF Atomic!vars
<1>4. CASE (\E h \in Handles : SendIrp(h)) \/ SendPnp
  <2>1. Alone'
    BY <1>1, <1>2, <1>4, SendAlone
  <2>2. overlap' \/ UNCHANGED rest
    BY <1>4 DEF SendIrp, SendPnp, Dispatch
  <2>3. QED
    BY <1>3, <2>1, <2>2
<1>5. ASSUME NEW t \in Threads, Step(t)
      PROVE  Alone' /\ (overlap' \/ [Atomic!Next]_(Atomic!vars))
  BY <1>1, <1>2, <1>3, <1>5, StepAlone, CompleteAlone
<1>6. CASE UNCHANGED vars
  <2>1. Running' = Running /\ Snapshot' = Snapshot /\ rest' = rest /\ handles' = handles
        /\ pnp' = pnp /\ overlap' = overlap /\ \A t : Bound(t)' <=> Bound(t)
    BY <1>6 DEF vars, Running, Snapshot, Bound, Current
  <2>2. QED
    BY <1>1, <1>2, <1>3, <2>1 DEF Alone
<1>7. QED
  BY <1>1, <1>4, <1>5, <1>6 DEF Next

(***************************************************************************)
(* For any handles, requests, write sizes and blocks: an IRP that overlaps *)
(* no other is one step of Ac97Driver, so everything proved of that module *)
(* holds of the routines access by access as long as they do not overlap.  *)
(***************************************************************************)
THEOREM AloneAtomic == Spec => AloneIsAtomic
<1>1. Spec => []Alone
  <2>1. Alone /\ [Next]_vars => Alone'
    BY AloneInductive
  <2>2. QED
    BY InitAlone, <2>1, PTL DEF Spec
<1>2. Alone /\ [Next]_vars => [overlap' \/ Atomic!Next]_<<Atomic!vars>>
  BY AloneInductive
<1>3. QED
  BY <1>1, <1>2, PTL DEF Spec, AloneIsAtomic
================================================================================
