--------------------------- MODULE ConsoleProofs ---------------------------
EXTENDS ECToolProofs, TLAPS, SequenceTheorems, WellFoundedInduction

(* Induction over the natural numbers: every nonempty set has a least one. *)

LessThan == {ss \in Nat \X Nat : ss[1] < ss[2]}

\* The order of the numbers, in the library's terms.
LEMMA LessThanWellFounded == IsWellFoundedOn(LessThan, Nat)
BY NatLessThanWellFounded DEF OpToRel, LessThan

\* A set of numbers that is not empty has a least one.
LEMMA LeastNat ==
  ASSUME NEW T, T \subseteq Nat, T # {}
  PROVE  \E x \in T : \A y \in T : x <= y
<1>1. PICK x \in T : \A y \in T : ~(<<y, x>> \in LessThan)
  BY LessThanWellFounded, WFMin
<1>2. ASSUME NEW y \in T PROVE x <= y
  <2>1. SUFFICES ASSUME y < x PROVE FALSE
    OBVIOUS
  <2>2. <<y, x>> \in Nat \X Nat
    OBVIOUS
  <2>3. <<y, x>> \in LessThan
    BY <2>1, <2>2 DEF LessThan
  <2> QED
    BY <2>3, <1>1
<1> QED
  BY <1>1, <1>2

\* A set that holds n when it holds all smaller numbers holds all up to m.
LEMMA UpTo ==
  ASSUME NEW m \in Nat, NEW T,
         \A n \in 0 .. m : (\A k \in 0 .. n - 1 : k \in T) => n \in T
  PROVE  \A n \in 0 .. m : n \in T
<1> DEFINE Others == {n \in 0 .. m : n \notin T}
<1>1. SUFFICES ASSUME Others # {} PROVE FALSE
  OBVIOUS
<1>2. Others \subseteq Nat
  OBVIOUS
<1>3. PICK x \in Others : \A y \in Others : x <= y
  <2> HIDE DEF Others
  <2> QED
    BY <1>1, <1>2, LeastNat
<1>4. x \in 0 .. m /\ x \notin T
  OBVIOUS
<1>5. \A k \in 0 .. x - 1 : k \in T
  BY <1>3, <1>4
<1> QED
  BY <1>4, <1>5

-----------------------------------------------------------------------------
(* PrintLogBuffer *)

Bytes == [kind : {"x", "cr", "lf", "nul"}, at : Nat]

Kinds == {"x", "cr", "lf"}

\* The body of PrintLog's recursion, f for what the rest of the loop prints.
Line(b, length, f, bp) ==
  IF bp > length THEN <<>>
  ELSE IF b[bp].kind = "nul" THEN <<>>
  ELSE LET lf == Con!Scan(b, bp, length)
           segment == IF lf = 0 THEN length - (bp - 1)
                      ELSE IF lf > 1 /\ b[lf - 1].kind = "cr" THEN lf - bp - 1
                      ELSE lf - bp
       IN  IF lf = 0 THEN Con!Upto(b, bp, segment)
           ELSE Con!Upto(b, bp, segment) \o <<b[lf]>> \o f[lf + 1]

\* Min, by which SelectInSubSeq chooses, is that one.
LEMMA FirstOf ==
  ASSUME NEW I, I \subseteq Nat
  PROVE  I # {} => Con!Min(I) \in I /\ \A y \in I : Con!Min(I) <= y
<1>1. SUFFICES ASSUME I # {} PROVE Con!Min(I) \in I /\ \A y \in I : Con!Min(I) <= y
  OBVIOUS
<1>2. \E x \in I : \A y \in I : x <= y
  BY <1>1, LeastNat
<1> QED
  BY <1>2 DEF Con!Min

\* ScanMem8 finds the first line feed of its range, or there is none.
LEMMA ScanFacts ==
  ASSUME NEW b, NEW bp \in Nat \ {0}, NEW n \in Nat
  PROVE  \/ /\ Con!Scan(b, bp, n) = 0
            /\ \A i \in bp .. bp + n - 1 : b[i].kind # "lf"
         \/ /\ Con!Scan(b, bp, n) \in bp .. bp + n - 1
            /\ b[Con!Scan(b, bp, n)].kind = "lf"
            /\ \A i \in bp .. Con!Scan(b, bp, n) - 1 : b[i].kind # "lf"
<1> DEFINE I == {i \in bp .. bp + n - 1 : b[i].kind = "lf"}
<1>1. Con!Scan(b, bp, n) = IF I # {} THEN Con!Min(I) ELSE 0
  BY DEF Con!Scan, Con!SelectInSubSeq
<1>2. I # {} => Con!Min(I) \in I /\ \A y \in I : Con!Min(I) <= y
  <2>1. I \subseteq Nat
    OBVIOUS
  <2> HIDE DEF I
  <2> QED
    BY <2>1, FirstOf
<1>3. CASE I = {}
  BY <1>1, <1>3
<1>4. CASE I # {}
  <2>1. Con!Scan(b, bp, n) \in I /\ \A y \in I : Con!Scan(b, bp, n) <= y
    BY <1>1, <1>2, <1>4, Zenon
  <2>2. \A i \in bp .. Con!Scan(b, bp, n) - 1 : i \notin I
    BY <2>1
  <2> QED
    BY <2>1, <2>2
<1> QED
  BY <1>3, <1>4

\* What is printed of a segment ends before the first zero, or with the
\* segment.
LEMMA UptoFacts ==
  ASSUME NEW b \in Seq(Bytes), NEW bp \in 1 .. Len(b), NEW m \in Nat, NEW n \in bp .. Len(b),
         \A i \in bp .. n : b[i].kind # "nul"
  PROVE  \E e \in bp - 1 .. Len(b) :
            /\ Con!Upto(b, bp, m) = SubSeq(b, bp, e)
            /\ e <= bp + m - 1
            /\ e >= n \/ e = bp + m - 1
<1> DEFINE I == {i \in bp .. Len(b) : b[i].kind = "nul"}
           stop == IF I # {} THEN Con!Min(I) ELSE 0
           last == IF stop = 0 THEN Len(b) ELSE stop - 1
           e == IF m < 0 \/ bp + m - 1 > last THEN last ELSE bp + m - 1
<1>1. Con!Upto(b, bp, m) = SubSeq(b, bp, e)
  BY DEF Con!Upto, Con!SelectInSubSeq
<1>2. I \subseteq Nat /\ \A i \in I : i > n
  OBVIOUS
<1>3. stop = 0 \/ stop \in I
  <2> HIDE DEF I
  <2> QED
    BY <1>2, FirstOf
<1>4. last \in n .. Len(b)
  BY <1>2, <1>3
<1>5. e \in bp - 1 .. Len(b) /\ e <= bp + m - 1 /\ (e >= n \/ e = bp + m - 1)
  <2> HIDE DEF last
  <2> QED
    BY <1>4
<1> HIDE DEF e
<1> QED
  BY <1>1, <1>5

\* Each turn of the loop continues behind a line feed, further on.
LEMMA LineLocal ==
  ASSUME NEW b, NEW length \in Nat, Len(b) \in Nat, 2 * length <= Len(b),
         NEW bp \in 1 .. Len(b) + 1, NEW f, NEW g,
         \A x \in bp + 1 .. Len(b) + 1 : f[x] = g[x]
  PROVE  Line(b, length, f, bp) = Line(b, length, g, bp)
<1>1. CASE bp > length
  BY <1>1 DEF Line
<1>2. CASE bp <= length
  <2>0. bp \in Nat \ {0}
    OBVIOUS
  <2>1. Con!Scan(b, bp, length) = 0 \/ Con!Scan(b, bp, length) \in bp .. bp + length - 1
    BY <2>0, ScanFacts, Zenon
  <2>2. Con!Scan(b, bp, length) = 0 \/ Con!Scan(b, bp, length) + 1 \in bp + 1 .. Len(b) + 1
    BY <1>2, <2>1
  <2> QED
    BY <2>2 DEF Line
<1> QED
  BY <1>1, <1>2

\* The recursion has a solution from k on.
Solution(b, length, k, f) ==
  f = [bp \in k .. Len(b) + 1 |-> Line(b, length, f, bp)]

\* A solution from k + 1 on gives one from k on.
LEMMA SolutionMore ==
  ASSUME NEW b, NEW length \in Nat, Len(b) \in Nat, 2 * length <= Len(b),
         NEW k \in 1 .. Len(b), NEW g, Solution(b, length, k + 1, g)
  PROVE  \E f : Solution(b, length, k, f)
<1> DEFINE N == Len(b) + 1
           f == [bp \in k .. N |-> IF bp = k THEN Line(b, length, g, bp) ELSE g[bp]]
<1>1. ASSUME NEW bp \in k .. N
      PROVE  f[bp] = Line(b, length, f, bp)
  <2>1. f[bp] = Line(b, length, g, bp)
    <3>1. CASE bp = k
      BY <3>1
    <3>2. CASE bp # k
      <4>1. bp \in k + 1 .. N /\ f[bp] = g[bp]
        BY <3>2
      <4> HIDE DEF f
      <4>2. g[bp] = Line(b, length, g, bp)
        BY <4>1 DEF Solution
      <4> QED
        BY <4>1, <4>2
    <3> QED
      BY <3>1, <3>2
  <2>2. \A x \in bp + 1 .. N : g[x] = f[x]
    OBVIOUS
  <2>3. bp \in 1 .. N
    OBVIOUS
  <2> HIDE DEF f
  <2> QED
    BY <2>1, <2>2, <2>3, LineLocal
<1>2. f = [bp \in k .. N |-> f[bp]]
  OBVIOUS
<1> HIDE DEF f
<1>3. f = [bp \in k .. N |-> Line(b, length, f, bp)]
  BY <1>1, <1>2
<1> QED
  BY <1>3 DEF Solution

\* So there is one from the beginning on.
LEMMA PrintLogExists ==
  ASSUME NEW b, NEW length \in Nat, Len(b) \in Nat, 2 * length <= Len(b)
  PROVE  \E f : Solution(b, length, 1, f)
<1> DEFINE T == {d \in 0 .. Len(b) : \E f : Solution(b, length, Len(b) + 1 - d, f)}
<1>1. ASSUME NEW n \in 0 .. Len(b), \A k \in 0 .. n - 1 : k \in T
      PROVE  n \in T
  <2>1. CASE n = 0
    <3> DEFINE f == [bp \in Len(b) + 1 .. Len(b) + 1 |-> <<>>]
    <3>1. \A bp \in Len(b) + 1 .. Len(b) + 1 : Line(b, length, f, bp) = <<>>
      BY DEF Line
    <3>2. f = [bp \in Len(b) + 1 .. Len(b) + 1 |-> Line(b, length, f, bp)]
      <4> HIDE DEF f
      <4>1. f = [bp \in Len(b) + 1 .. Len(b) + 1 |-> <<>>]
        BY DEF f
      <4> QED
        BY <3>1, <4>1
    <3> HIDE DEF f
    <3>3. Solution(b, length, Len(b) + 1, f)
      BY <3>2 DEF Solution
    <3>4. Len(b) + 1 - n = Len(b) + 1
      BY <2>1
    <3> QED
      BY <3>3, <3>4
  <2>2. CASE n # 0
    <3>1. n - 1 \in 0 .. n - 1
      BY <2>2
    <3>2. PICK g : Solution(b, length, Len(b) + 1 - (n - 1), g)
      BY <1>1, <3>1
    <3>3. Len(b) + 1 - n \in 1 .. Len(b)
      BY <2>2
    <3>4. Len(b) + 1 - (n - 1) = (Len(b) + 1 - n) + 1
      OBVIOUS
    <3>5. \E f : Solution(b, length, Len(b) + 1 - n, f)
      BY <3>2, <3>3, <3>4, SolutionMore
    <3> QED
      BY <3>5
  <2> QED
    BY <2>1, <2>2
<1>2. Len(b) \in T
  <2> HIDE DEF T
  <2>1. \A n \in 0 .. Len(b) : n \in T
    BY <1>1, UpTo
  <2> QED
    BY <2>1
<1>3. Len(b) + 1 - Len(b) = 1
  OBVIOUS
<1> QED
  BY <1>2, <1>3

\* PrintLogBuffer is such a solution: it may be unfolded line by line.
LEMMA PrintLogIs ==
  ASSUME NEW b, NEW length \in Nat, Len(b) \in Nat, 2 * length <= Len(b)
  PROVE  \E f : /\ f = [bp \in 1 .. Len(b) + 1 |-> Line(b, length, f, bp)]
                /\ Con!PrintLog(b, length) = f[1]
<1>1. PICK f : f = [bp \in 1 .. Len(b) + 1 |-> Line(b, length, f, bp)]
  BY PrintLogExists DEF Solution
<1> QED
  BY <1>1 DEF Con!PrintLog, Line

\* An answer of n bytes in the buffer b, and what PrintLogBuffer is told of it.
Answer(b, n, length) ==
  /\ b \in Seq(Bytes)
  /\ n \in Nat /\ length \in {n, n + 1}
  /\ 2 * length <= Len(b)
  /\ \A k \in 1 .. n : b[k].kind # "nul" /\ b[k].at # 0
  /\ \A j, k \in 1 .. n : j < k => b[j].at < b[k].at
  /\ \A k \in n + 1 .. Len(b) : b[k].at = 0
  /\ length = n + 1 => b[n + 1].kind = "nul"

\* What is printed from bp on, the beginning of a line, shows the rest of the
\* answer.
Shows(b, n, bp, out) ==
  /\ out \in Seq(Bytes)
  /\ \A i \in DOMAIN out : out[i].at # 0 => \E k \in bp .. n : out[i] = b[k]
  /\ \A i, j \in DOMAIN out :
       i < j /\ out[i].at # 0 /\ out[j].at # 0 => out[i].at < out[j].at
  /\ \A k \in bp .. n : \/ \E i \in DOMAIN out : out[i] = b[k]
                        \/ b[k].kind = "cr" /\ (k = n \/ b[k + 1].kind = "lf")

\* The numbers of an answer.
LEMMA AnswerFacts ==
  ASSUME NEW b, NEW n, NEW length, Answer(b, n, length)
  PROVE  /\ b \in Seq(Bytes) /\ Len(b) \in Nat /\ n \in Nat /\ length \in Nat
         /\ length \in {n, n + 1} /\ n <= length /\ length <= Len(b) /\ n <= Len(b)
         /\ 2 * length <= Len(b)
  BY LenProperties DEF Answer

\* A line begins with the answer, and behind a line feed.
LineStart(b, bp) == bp = 1 \/ b[bp - 1].kind = "lf"

\* A piece of the buffer.
LEMMA PieceFacts ==
  ASSUME NEW b \in Seq(Bytes), NEW bp \in 1 .. Len(b), NEW e \in bp - 1 .. Len(b)
  PROVE  /\ SubSeq(b, bp, e) \in Seq(Bytes)
         /\ Len(SubSeq(b, bp, e)) = e - bp + 1
         /\ \A i \in 1 .. e - bp + 1 : SubSeq(b, bp, e)[i] = b[bp + i - 1]
<1>1. \A i \in bp .. e : b[i] \in Bytes
  BY ElementOfSeq
<1>2. bp \in Int /\ e \in Int
  OBVIOUS
<1> QED
  BY <1>1, <1>2, SubSeqProperties

\* The last line has no line feed.
LEMMA LastLine ==
  ASSUME NEW b, NEW n, NEW length, Answer(b, n, length),
         NEW bp \in 1 .. n, NEW e \in n .. Len(b)
  PROVE  Shows(b, n, bp, SubSeq(b, bp, e))
<1> DEFINE out == SubSeq(b, bp, e)
<1>0. b \in Seq(Bytes) /\ n \in Nat /\ n <= Len(b) /\ Len(b) \in Nat
  BY LenProperties DEF Answer
<1>1. /\ out \in Seq(Bytes)
      /\ Len(out) = e - bp + 1
      /\ \A i \in 1 .. e - bp + 1 : out[i] = b[bp + i - 1]
  BY <1>0, PieceFacts
<1> HIDE DEF out
<1>2. DOMAIN out = 1 .. e - bp + 1
  BY <1>1, LenProperties
<1>3. ASSUME NEW i \in DOMAIN out, out[i].at # 0
      PROVE  bp + i - 1 \in bp .. n /\ out[i] = b[bp + i - 1]
  <2>1. out[i] = b[bp + i - 1] /\ bp + i - 1 \in bp .. Len(b)
    BY <1>0, <1>1, <1>2
  <2> QED
    BY <1>0, <1>3, <2>1 DEF Answer
<1>4. ASSUME NEW i \in DOMAIN out, NEW j \in DOMAIN out, i < j, out[i].at # 0, out[j].at # 0
      PROVE  out[i].at < out[j].at
  <2>1. /\ bp + i - 1 \in 1 .. n /\ out[i] = b[bp + i - 1]
        /\ bp + j - 1 \in 1 .. n /\ out[j] = b[bp + j - 1]
    BY <1>3, <1>4
  <2>2. bp + i - 1 < bp + j - 1
    BY <1>0, <1>2, <1>4
  <2> QED
    BY <2>1, <2>2 DEF Answer
<1>5. ASSUME NEW k \in bp .. n
      PROVE  \E i \in DOMAIN out : out[i] = b[k]
  <2>1. k - bp + 1 \in 1 .. e - bp + 1 /\ bp + (k - bp + 1) - 1 = k
    BY <1>0
  <2>2. out[k - bp + 1] = b[k]
    BY <1>1, <2>1
  <2> QED
    BY <1>2, <2>1, <2>2
<1> QED
  BY <1>1, <1>3, <1>4, <1>5 DEF Shows, out

\* Two sequences with an element between them.
LEMMA Joined ==
  ASSUME NEW s \in Seq(Bytes), NEW x \in Bytes, NEW t \in Seq(Bytes), NEW out,
         out = s \o <<x>> \o t
  PROVE  /\ out \in Seq(Bytes)
         /\ Len(out) = Len(s) + 1 + Len(t)
         /\ \A i \in 1 .. Len(s) : out[i] = s[i]
         /\ out[Len(s) + 1] = x
         /\ \A i \in 1 .. Len(t) : out[Len(s) + 1 + i] = t[i]
<1>0. Len(s) \in Nat /\ Len(t) \in Nat
  OBVIOUS
<1> DEFINE line == s \o <<x>>
<1>1. /\ line \in Seq(Bytes) /\ Len(line) = Len(s) + 1
      /\ \A i \in 1 .. Len(s) : line[i] = s[i]
      /\ line[Len(s) + 1] = x
  OBVIOUS
<1>2. out = line \o t
  OBVIOUS
<1> HIDE DEF line
<1>3. /\ out \in Seq(Bytes) /\ Len(out) = Len(s) + 1 + Len(t)
      /\ \A i \in 1 .. Len(s) + 1 : out[i] = line[i]
      /\ \A i \in 1 .. Len(t) : out[Len(s) + 1 + i] = t[i]
  BY <1>0, <1>1, <1>2
<1>4. \A i \in 1 .. Len(s) : out[i] = s[i]
  BY <1>0, <1>1, <1>3
<1>5. out[Len(s) + 1] = x
  BY <1>0, <1>1, <1>3
<1> QED
  BY <1>3, <1>4, <1>5

\* A line of which size bytes are printed, its line feed at lf, and the lines
\* behind it: where each byte printed comes from.
LEMMA LineFacts ==
  ASSUME NEW b \in Seq(Bytes), NEW bp \in 1 .. Len(b), NEW lf \in bp .. Len(b),
         NEW size \in 0 .. lf - bp, NEW rest \in Seq(Bytes),
         NEW piece, piece = SubSeq(b, bp, bp + size - 1), NEW x, x = b[lf],
         NEW out, out = piece \o <<x>> \o rest
  PROVE  /\ out \in Seq(Bytes)
         /\ DOMAIN out = 1 .. size + 1 + Len(rest)
         /\ \A i \in 1 .. size : out[i] = b[bp + i - 1]
         /\ out[size + 1] = b[lf]
         /\ \A i \in 1 .. Len(rest) : out[size + 1 + i] = rest[i]
<1>0. /\ Len(b) \in Nat /\ bp \in Nat /\ lf \in 1 .. Len(b) /\ size \in Nat
      /\ bp + size - 1 \in bp - 1 .. Len(b)
      /\ (bp + size - 1) - bp + 1 = size
  BY LenProperties
<1>1. x \in Bytes
  BY <1>0, ElementOfSeq
<1>2. piece \in Seq(Bytes)
  BY <1>0, PieceFacts
<1>3. Len(piece) = size /\ \A i \in 1 .. size : piece[i] = b[bp + i - 1]
  BY <1>0, PieceFacts
<1>4. out = piece \o <<x>> \o rest
  OBVIOUS
<1>5. /\ out \in Seq(Bytes)
      /\ Len(out) = Len(piece) + 1 + Len(rest)
      /\ \A i \in 1 .. Len(piece) : out[i] = piece[i]
      /\ out[Len(piece) + 1] = x
      /\ \A i \in 1 .. Len(rest) : out[Len(piece) + 1 + i] = rest[i]
  BY <1>1, <1>2, <1>4, Joined
<1>6. DOMAIN out = 1 .. size + 1 + Len(rest)
  BY <1>3, <1>5, LenProperties
<1> QED
  BY <1>3, <1>5, <1>6

\* A line that is printed but for a carriage return, its line feed, and what shows the
\* rest show all from the line on.
LEMMA FirstLine ==
  ASSUME NEW b, NEW n, NEW length, Answer(b, n, length),
         NEW bp \in 1 .. n, NEW lf \in bp .. Len(b), NEW size \in 0 .. lf - bp,
         b[lf].kind = "lf",
         \A k \in bp .. n :
           k \in bp + size .. lf - 1 => b[k].kind = "cr" /\ k = lf - 1,
         NEW rest, Shows(b, n, lf + 1, rest)
  PROVE  Shows(b, n, bp, SubSeq(b, bp, bp + size - 1) \o <<b[lf]>> \o rest)
<1> DEFINE out == SubSeq(b, bp, bp + size - 1) \o <<b[lf]>> \o rest
<1>0. /\ b \in Seq(Bytes) /\ n \in Nat /\ n <= Len(b) /\ Len(b) \in Nat
      /\ bp \in Nat \ {0} /\ lf \in Nat /\ bp <= n /\ bp <= lf /\ lf <= Len(b)
      /\ size \in Nat /\ bp + size <= lf
  <2>1. b \in Seq(Bytes) /\ n \in Nat /\ n <= Len(b) /\ Len(b) \in Nat
    BY AnswerFacts
  <2> QED
    BY <2>1
<1>1. rest \in Seq(Bytes) /\ Len(rest) \in Nat /\ DOMAIN rest = 1 .. Len(rest)
  BY LenProperties DEF Shows
<1>2. /\ out \in Seq(Bytes)
      /\ DOMAIN out = 1 .. size + 1 + Len(rest)
      /\ \A i \in 1 .. size : out[i] = b[bp + i - 1]
      /\ out[size + 1] = b[lf]
      /\ \A i \in 1 .. Len(rest) : out[size + 1 + i] = rest[i]
  <2>1. b \in Seq(Bytes) /\ bp \in 1 .. Len(b) /\ rest \in Seq(Bytes)
    BY <1>0, <1>1
  <2>2. out = SubSeq(b, bp, bp + size - 1) \o <<b[lf]>> \o rest
    OBVIOUS
  <2> HIDE DEF out
  <2> QED
    BY <2>1, <2>2, LineFacts
<1> HIDE DEF out
\* Bytes behind the answer have no position.
<1>3. \A k \in bp .. Len(b) : b[k].at # 0 => k \in bp .. n
  BY <1>0 DEF Answer
\* Where in the answer a byte comes from that has a position.
<1>4. ASSUME NEW i \in 1 .. size, out[i].at # 0
      PROVE  bp + i - 1 \in bp .. n /\ bp + i - 1 < lf /\ out[i] = b[bp + i - 1]
  <2>1. out[i] = b[bp + i - 1]
    BY <1>2
  <2>2. bp + i - 1 \in bp .. Len(b) /\ bp + i - 1 < lf
    BY <1>0
  <2> QED
    BY <1>3, <1>4, <2>1, <2>2
<1>5. ASSUME out[size + 1].at # 0
      PROVE  lf \in bp .. n
  BY <1>0, <1>2, <1>3, <1>5
<1>6. ASSUME NEW i \in 1 .. Len(rest), out[size + 1 + i].at # 0
      PROVE  \E k \in lf + 1 .. n : out[size + 1 + i] = b[k]
  BY <1>1, <1>2, <1>6 DEF Shows
<1>7. ASSUME NEW i \in DOMAIN out
      PROVE  \/ i \in 1 .. size
             \/ i = size + 1
             \/ \E m \in 1 .. Len(rest) : i = size + 1 + m
  <2>1. CASE i > size + 1
    <3>1. i - (size + 1) \in 1 .. Len(rest) /\ i = size + 1 + (i - (size + 1))
      BY <1>0, <1>1, <1>2, <2>1
    <3> QED
      BY <3>1
  <2> QED
    BY <1>0, <1>1, <1>2, <2>1
\* Every byte with a position is one of the rest of the answer, ...
<1>8. ASSUME NEW i \in DOMAIN out, out[i].at # 0
      PROVE  \E k \in bp .. n : out[i] = b[k]
  <2>1. CASE i \in 1 .. size
    BY <1>4, <1>8, <2>1
  <2>2. CASE i = size + 1
    BY <1>2, <1>5, <1>8, <2>2
  <2>3. CASE \E m \in 1 .. Len(rest) : i = size + 1 + m
    <3>1. PICK k \in lf + 1 .. n : out[i] = b[k]
      BY <1>6, <1>8, <2>3
    <3>2. k \in bp .. n
      BY <1>0
    <3> QED
      BY <3>1, <3>2
  <2> QED
    BY <1>7, <2>1, <2>2, <2>3
\* ... they are in order, ...
<1>9. ASSUME NEW j \in bp .. n, NEW k \in bp .. n, j < k
      PROVE  b[j].at < b[k].at
  <2>1. j \in 1 .. n /\ k \in 1 .. n
    BY <1>0
  <2> QED
    BY <1>9, <2>1 DEF Answer
<1>10. ASSUME NEW i \in DOMAIN out, NEW j \in DOMAIN out, i < j,
              out[i].at # 0, out[j].at # 0
       PROVE  out[i].at < out[j].at
  <2>0. i \in Nat /\ j \in Nat
    BY <1>0, <1>1, <1>2
  <2>1. CASE i \in 1 .. size
    <3>1. /\ bp + i - 1 \in bp .. n /\ bp + i - 1 < lf
          /\ out[i] = b[bp + i - 1]
      BY <1>4, <1>10, <2>1
    <3>2. CASE j \in 1 .. size
      <4>1. bp + j - 1 \in bp .. n /\ out[j] = b[bp + j - 1]
        BY <1>4, <1>10, <3>2
      <4>2. bp + i - 1 < bp + j - 1
        BY <1>0, <1>10, <2>0
      <4> QED
        BY <1>9, <3>1, <4>1, <4>2
    <3>3. CASE j = size + 1
      BY <1>2, <1>5, <1>9, <1>10, <3>1, <3>3
    <3>4. CASE \E m \in 1 .. Len(rest) : j = size + 1 + m
      <4>1. PICK k \in lf + 1 .. n : out[j] = b[k]
        BY <1>6, <1>10, <3>4
      <4>2. k \in bp .. n /\ bp + i - 1 < k
        BY <1>0, <2>0, <3>1
      <4> QED
        BY <1>9, <3>1, <4>1, <4>2
    <3> QED
      BY <1>7, <3>2, <3>3, <3>4
  <2>2. CASE i = size + 1
    <3>1. lf \in bp .. n /\ out[i] = b[lf]
      BY <1>2, <1>5, <1>10, <2>2
    <3>2. PICK m \in 1 .. Len(rest) : j = size + 1 + m
      BY <1>0, <1>7, <1>10, <2>0, <2>2
    <3>3. PICK k \in lf + 1 .. n : out[j] = b[k]
      BY <1>6, <1>10, <3>2
    <3>4. k \in bp .. n /\ lf < k
      BY <1>0
    <3> QED
      BY <1>9, <3>1, <3>3, <3>4
  <2>3. CASE \E m \in 1 .. Len(rest) : i = size + 1 + m
    <3>1. PICK m \in 1 .. Len(rest) : i = size + 1 + m
      BY <2>3
    <3>2. PICK q \in 1 .. Len(rest) : j = size + 1 + q
      <4>1. ~(j \in 1 .. size) /\ j # size + 1
        BY <1>0, <1>1, <1>10, <2>0, <3>1
      <4> QED
        BY <1>7, <4>1, Zenon
    <3>3. m < q
      BY <1>0, <1>1, <1>10, <3>1, <3>2
    <3>4. out[i] = rest[m] /\ out[j] = rest[q]
      BY <1>2, <3>1, <3>2
    <3> QED
      BY <1>1, <1>10, <3>3, <3>4 DEF Shows
  <2> QED
    BY <1>7, <2>1, <2>2, <2>3
\* ... and none is missing.
<1>11. ASSUME NEW k \in bp .. n
       PROVE  \/ \E i \in DOMAIN out : out[i] = b[k]
              \/ b[k].kind = "cr" /\ (k = n \/ b[k + 1].kind = "lf")
  <2>1. CASE k < bp + size
    <3>1. /\ k - bp + 1 \in 1 .. size /\ bp + (k - bp + 1) - 1 = k
          /\ k - bp + 1 \in 1 .. size + 1 + Len(rest)
      BY <1>0, <1>1, <2>1
    <3>2. out[k - bp + 1] = b[k]
      BY <1>2, <3>1
    <3> QED
      BY <1>2, <3>1, <3>2
  <2>2. CASE k \in bp + size .. lf - 1
    <3>1. b[k].kind = "cr" /\ k = lf - 1
      BY <2>2
    <3>2. k + 1 = lf
      BY <1>0, <3>1
    <3> QED
      BY <3>1, <3>2
  <2>3. CASE k = lf
    <3>1. size + 1 \in 1 .. size + 1 + Len(rest)
      BY <1>0, <1>1
    <3> QED
      BY <1>2, <2>3, <3>1
  <2>4. CASE k \in lf + 1 .. n
    <3>1. CASE \E i \in DOMAIN rest : rest[i] = b[k]
      <4>1. PICK i \in 1 .. Len(rest) : rest[i] = b[k]
        BY <1>1, <3>1
      <4>2. size + 1 + i \in 1 .. size + 1 + Len(rest)
        BY <1>0, <1>1
      <4>3. out[size + 1 + i] = b[k]
        BY <1>2, <4>1
      <4> QED
        BY <1>2, <4>2, <4>3
    <3>2. CASE ~\E i \in DOMAIN rest : rest[i] = b[k]
      BY <2>4, <3>2 DEF Shows
    <3> QED
      BY <3>1, <3>2
  <2>5. k < bp + size \/ k \in bp + size .. lf - 1 \/ k = lf \/ k \in lf + 1 .. n
    BY <1>0
  <2> QED
    BY <2>1, <2>2, <2>3, <2>4, <2>5
<1> QED
  BY <1>2, <1>8, <1>10, <1>11 DEF Shows, out

\* What f prints from a line on shows the rest of the answer, if what it prints
\* from each later line on does.
LEMMA LineShows ==
  ASSUME NEW b, NEW n, NEW length, Answer(b, n, length),
         NEW bp \in 1 .. Len(b) + 1, LineStart(b, bp), NEW f,
         \A x \in bp + 1 .. Len(b) + 1 : LineStart(b, x) => Shows(b, n, x, f[x])
  PROVE  Shows(b, n, bp, Line(b, length, f, bp))
<1> DEFINE lf == Con!Scan(b, bp, length)
           segment == IF lf = 0 THEN length - (bp - 1)
                      ELSE IF lf > 1 /\ b[lf - 1].kind = "cr" THEN lf - bp - 1
                      ELSE lf - bp
<1>0. /\ b \in Seq(Bytes) /\ n \in Nat /\ Len(b) \in Nat /\ length \in {n, n + 1}
      /\ 2 * length <= Len(b) /\ bp \in Nat \ {0} /\ length \in Nat
      /\ \A k \in 1 .. n : b[k].kind # "nul"
      /\ length = n + 1 => b[n + 1].kind = "nul"
  BY LenProperties DEF Answer
<1>1. ASSUME bp > n PROVE Shows(b, n, bp, <<>>)
  BY <1>0, <1>1 DEF Shows
<1>2. CASE bp > length
  BY <1>0, <1>1, <1>2 DEF Line
<1>3. CASE bp <= length /\ b[bp].kind = "nul"
  BY <1>0, <1>1, <1>3 DEF Line
<1>4. CASE bp <= length /\ b[bp].kind # "nul"
  <2>1. bp \in 1 .. n
    BY <1>0, <1>4
  <2>2. bp \in 1 .. Len(b) /\ n \in bp .. Len(b)
    BY <1>0, <2>1
  <2>3. \A i \in bp .. n : b[i].kind # "nul"
    BY <1>0
  <2>4. Line(b, length, f, bp) =
          IF lf = 0 THEN Con!Upto(b, bp, segment)
          ELSE Con!Upto(b, bp, segment) \o <<b[lf]>> \o f[lf + 1]
    <3>1. ~(bp > length)
      BY <1>0, <1>4
    <3> QED
      BY <1>4, <3>1, Zenon DEF Line
  <2>5. lf = 0 \/ (lf \in bp .. bp + length - 1 /\ b[lf].kind = "lf")
    BY <1>0, ScanFacts, Zenon
  <2>6. lf = 0 \/ lf \in bp .. Len(b)
    BY <1>0, <1>4, <2>5
  <2>7. lf > 1 /\ b[lf - 1].kind = "cr" => lf # bp
    BY <1>0 DEF LineStart
  <2> HIDE DEF lf
  <2>8. segment \in Nat
    BY <1>0, <1>4, <2>6, <2>7
  <2> HIDE DEF segment
  <2>9. PICK e \in bp - 1 .. Len(b) :
          /\ Con!Upto(b, bp, segment) = SubSeq(b, bp, e)
          /\ e <= bp + segment - 1
          /\ e >= n \/ e = bp + segment - 1
    <3>1. b \in Seq(Bytes)
      BY <1>0
    <3> QED
      BY <2>2, <2>3, <2>8, <3>1, UptoFacts
  <2>10. CASE lf = 0
    <3>1. segment = length - (bp - 1)
      BY <2>10 DEF segment
    <3>2. e \in n .. Len(b)
      BY <1>0, <2>9, <3>1
    <3>3. Shows(b, n, bp, SubSeq(b, bp, e))
      BY <2>1, <3>2, LastLine
    <3> QED
      BY <2>4, <2>9, <2>10, <3>3
  <2>11. CASE lf # 0
    <3>1. lf \in bp .. Len(b) /\ b[lf].kind = "lf"
      BY <2>5, <2>6, <2>11
    <3>2. \/ segment = lf - bp
          \/ segment = lf - bp - 1 /\ b[lf - 1].kind = "cr"
      BY <2>11 DEF segment
    <3>3. PICK size : size = e - bp + 1
      OBVIOUS
    <3>4. size \in 0 .. lf - bp /\ e = bp + size - 1
      <4>1. bp - 1 <= e /\ e <= bp + segment - 1 /\ e \in Int
        BY <1>0, <2>9
      <4>2. bp \in Nat /\ lf \in Nat /\ segment <= lf - bp
        BY <1>0, <3>1, <3>2
      <4> QED
        BY <2>8, <3>3, <4>1, <4>2
    <3>5. (e >= n \/ size = segment) /\ size \in Nat
      <4>1. e >= n \/ e = bp + segment - 1
        BY <2>9
      <4> QED
        BY <1>0, <2>8, <3>4, <4>1
    <3>6. \A k \in bp .. n : k \in bp + size .. lf - 1 => b[k].kind = "cr" /\ k = lf - 1
      <4>1. SUFFICES ASSUME NEW k \in bp .. n, k \in bp + size .. lf - 1
                     PROVE  b[k].kind = "cr" /\ k = lf - 1
        OBVIOUS
      <4>2. k \in Nat /\ bp \in Nat /\ lf \in Nat /\ k <= n /\ n \in Nat
        BY <1>0, <3>1, <4>1
      <4>3. size = segment
        BY <3>4, <3>5, <4>1, <4>2
      <4>4. size # lf - bp
        BY <3>5, <4>1, <4>2
      <4>5. size = lf - bp - 1 /\ b[lf - 1].kind = "cr"
        BY <3>2, <4>3, <4>4
      <4>6. k = lf - 1
        BY <4>1, <4>2, <4>5
      <4> QED
        BY <4>5, <4>6
    <3>7. Shows(b, n, lf + 1, f[lf + 1])
      <4>1. lf + 1 \in bp + 1 .. Len(b) + 1 /\ (lf + 1) - 1 = lf
        BY <1>0, <3>1
      <4>2. LineStart(b, lf + 1)
        BY <3>1, <4>1 DEF LineStart
      <4> QED
        BY <4>1, <4>2
    <3>8. PICK rest : rest = f[lf + 1]
      OBVIOUS
    <3>9. Shows(b, n, bp, SubSeq(b, bp, bp + size - 1) \o <<b[lf]>> \o rest)
      BY <2>1, <3>1, <3>4, <3>6, <3>7, <3>8, FirstLine
    <3> QED
      BY <2>4, <2>9, <2>11, <3>4, <3>8, <3>9
  <2> QED
    BY <2>10, <2>11
<1> QED
  BY <1>0, <1>2, <1>3, <1>4

\* PrintLogBuffer shows the answer it is given, for every buffer and every
\* answer in it: in order, and all of it but for a carriage return at its end
\* or before a line feed.
THEOREM PrintLogShows ==
  ASSUME NEW b, NEW n, NEW length, Answer(b, n, length)
  PROVE  Shows(b, n, 1, Con!PrintLog(b, length))
<1> DEFINE N == Len(b) + 1
<1>0. Len(b) \in Nat /\ length \in Nat /\ 2 * length <= Len(b)
  BY LenProperties DEF Answer
<1>1. PICK f : /\ f = [bp \in 1 .. N |-> Line(b, length, f, bp)]
               /\ Con!PrintLog(b, length) = f[1]
  BY <1>0, PrintLogIs
<1>2. \A bp \in 1 .. N : f[bp] = Line(b, length, f, bp)
  BY <1>1
<1> DEFINE T == {d \in Nat : LineStart(b, N - d) => Shows(b, n, N - d, f[N - d])}
<1>3. ASSUME NEW m \in 0 .. Len(b), \A k \in 0 .. m - 1 : k \in T
      PROVE  m \in T
  <2>1. SUFFICES ASSUME LineStart(b, N - m)
                 PROVE  Shows(b, n, N - m, f[N - m])
    BY DEF T
  <2>2. N - m \in 1 .. N
    BY <1>0
  <2>3. ASSUME NEW x \in (N - m) + 1 .. N, LineStart(b, x)
        PROVE  Shows(b, n, x, f[x])
    <3>1. N - x \in 0 .. m - 1 /\ N - (N - x) = x
      BY <1>0
    <3> QED
      BY <1>3, <2>3, <3>1
  <2>4. Shows(b, n, N - m, Line(b, length, f, N - m))
    BY <2>1, <2>2, <2>3, LineShows
  <2> QED
    BY <1>2, <2>2, <2>4
<1>4. Len(b) \in T
  <2> HIDE DEF T
  <2>1. \A m \in 0 .. Len(b) : m \in T
    BY <1>0, <1>3, UpTo
  <2> QED
    BY <1>0, <2>1
<1>5. N - Len(b) = 1
  BY <1>0
<1>6. LineStart(b, 1)
  BY DEF LineStart
<1> QED
  BY <1>1, <1>4, <1>5, <1>6

-----------------------------------------------------------------------------
(* cmd_console *)

\* How much of the log the EC has answered that the command has asked for from
\* the beginning.
Answered == IF null THEN recent ELSE next

\* What is printed of the latest answer.
ShowsText ==
  /\ \A i \in DOMAIN printed : printed[i].at # 0 => printed[i] \in Con!ToSet(text)
  /\ \A i, j \in DOMAIN printed :
       i < j /\ printed[i].at # 0 /\ printed[j].at # 0 => printed[i].at < printed[j].at
  /\ \A k \in DOMAIN text :
       \/ text[k] \in Con!ToSet(printed)
       \/ text[k].kind = "cr" /\ (k = Len(text) \/ text[k + 1].kind = "lf")

ConsoleTypeOK ==
  /\ cpc \in {"off", "snapshot", "read", "failed", "done"}
  /\ null \in BOOLEAN /\ sub \in {"recent", "next"}
  /\ log \in Seq(Kinds)
  /\ recent \in 0 .. Len(log) /\ next \in 0 .. Len(log)
  /\ cpc # "off" => buf \in [1 .. 2 * BufMax -> Bytes]

\* The first question is for what is new; the others go on from where the EC
\* is, and what it has answered is on the screen, to the end of the log when
\* the loop ends.
ConsoleInv ==
  /\ ConsoleTypeOK
  /\ cpc = "snapshot" => sub = "recent"
  /\ cpc \in {"snapshot", "read"} /\ sub = "recent" =>
       next = 0 /\ seen = {} /\ (null => recent = 0)
  /\ \A p \in 1 .. Answered : p \in seen \/ log[p] = "cr"
  /\ cpc = "done" /\ seen # {} => Answered = Len(log)
  /\ ShowsText

\* At the end all of the log has been answered.
LEMMA ConsoleInvComplete ==
  ASSUME ConsoleInv
  PROVE  ConsoleComplete
<1>1. cpc = "done" /\ seen # {} => \A p \in DOMAIN log : p \in seen \/ log[p] = "cr"
  <2>1. DOMAIN log = 1 .. Len(log)
    BY LenProperties DEF ConsoleInv, ConsoleTypeOK
  <2> QED
    BY <2>1 DEF ConsoleInv
<1> QED
  BY <1>1 DEF ConsoleInv, ShowsText, ConsoleComplete, Con!ConsoleComplete

\* A byte that is not of the answer at hand has no position.
LEMMA ByteFacts ==
  /\ Con!Nul \in Bytes /\ Con!Nul.at = 0 /\ Con!Nul.kind = "nul"
  /\ \A c \in Bytes : [c EXCEPT !.at = 0] \in Bytes /\ [c EXCEPT !.at = 0].at = 0
BY DEF Con!Nul, Bytes

\* The buffer as a sequence.
LEMMA ArrayIsSeq ==
  ASSUME NEW M \in Nat, NEW b \in [1 .. M -> Bytes]
  PROVE  b \in Seq(Bytes) /\ Len(b) = M
OBVIOUS

\* The buffer behind an answer of n bytes of the log from place on, which is
\* rv bytes with its zero.
Response(b, old, said, place, n, rv) ==
  /\ old \in [1 .. 2 * BufMax -> Bytes]
  /\ said \in Seq(Kinds) /\ place \in 0 .. Len(said)
  /\ n \in 0 .. Len(said) - place /\ rv \in {n, n + 1} /\ rv <= BufMax
  /\ \A i \in 1 .. n : b[i] = [kind |-> said[place + i], at |-> place + i]
  /\ \A i \in n + 1 .. rv : b[i] = Con!Nul
  /\ \A i \in rv + 1 .. 2 * BufMax : b[i] = [old[i] EXCEPT !.at = 0]
  /\ \E c : b = [i \in 1 .. 2 * BufMax |-> c[i]]

\* Such a buffer holds an answer.
LEMMA ReadFacts ==
  ASSUME NEW b, NEW old, NEW said, NEW place, NEW n, NEW rv,
         Response(b, old, said, place, n, rv)
  PROVE  /\ b \in [1 .. 2 * BufMax -> Bytes]
         /\ Answer(b, n, rv)
         /\ \A k \in 1 .. n : b[k].kind = said[place + k] /\ b[k].at = place + k
<1> DEFINE M == 2 * BufMax
<1>0. /\ M \in Nat /\ 2 * rv <= M /\ Len(said) \in Nat /\ place \in Nat /\ n \in Nat /\ rv \in Nat
      /\ n <= rv /\ rv <= M /\ place + n <= Len(said)
      /\ said \in Seq(Kinds) /\ rv \in {n, n + 1}
  BY ConsoleAssumption, LenProperties DEF Response
<1>1. /\ \A i \in 1 .. n : b[i] = [kind |-> said[place + i], at |-> place + i]
      /\ \A i \in n + 1 .. rv : b[i] = Con!Nul
      /\ \A i \in rv + 1 .. M : b[i] = [old[i] EXCEPT !.at = 0]
  BY DEF Response
<1>2. old \in [1 .. M -> Bytes]
  BY DEF Response
<1>3. ASSUME \A i \in 1 .. M : b[i] \in Bytes
       PROVE  b \in [1 .. M -> Bytes]
  BY <1>3 DEF Response
<1> HIDE DEF M
<1>4. ASSUME NEW i \in 1 .. n
      PROVE  /\ b[i] \in Bytes
             /\ b[i].kind = said[place + i] /\ b[i].at = place + i
             /\ b[i].kind # "nul" /\ b[i].at # 0
  <2>1. place + i \in 1 .. Len(said) /\ place + i \in Nat /\ place + i # 0
    BY <1>0
  <2>2. said[place + i] \in {"x", "cr", "lf"}
    BY <1>0, <2>1, ElementOfSeq DEF Kinds
  <2>3. b[i] = [kind |-> said[place + i], at |-> place + i]
    BY <1>1
  <2> QED
    BY <2>1, <2>2, <2>3 DEF Bytes
<1>5. ASSUME NEW i \in n + 1 .. rv
      PROVE  b[i] \in Bytes /\ b[i].at = 0 /\ b[i].kind = "nul"
  <2>1. b[i] = Con!Nul
    BY <1>1
  <2> QED
    BY <2>1, ByteFacts, Zenon
<1>6. ASSUME NEW i \in rv + 1 .. M
      PROVE  b[i] \in Bytes /\ b[i].at = 0
  <2>0. i \in 1 .. M
    BY <1>0
  <2>1. old[i] \in Bytes
    BY <1>2, <2>0, Zenon
  <2>2. b[i] = [old[i] EXCEPT !.at = 0]
    BY <1>1
  <2> QED
    BY <2>1, <2>2, ByteFacts, Zenon
<1>7. ASSUME NEW i \in 1 .. M
      PROVE  i \in 1 .. n \/ i \in n + 1 .. rv \/ i \in rv + 1 .. M
  BY <1>0
<1>8. b \in [1 .. M -> Bytes]
  <2>1. \A i \in 1 .. M : b[i] \in Bytes
    BY <1>4, <1>5, <1>6, <1>7
  <2> QED
    BY <1>3, <2>1
<1>9. b \in Seq(Bytes) /\ Len(b) = M
  BY <1>0, <1>8, ArrayIsSeq
<1>10. ASSUME NEW j \in 1 .. n, NEW k \in 1 .. n, j < k
      PROVE  b[j].at < b[k].at
  <2>1. b[j].at = place + j /\ b[k].at = place + k
    BY <1>4
  <2>2. place + j < place + k
    BY <1>0, <1>10
  <2> QED
    BY <2>1, <2>2
<1>11. \A k \in n + 1 .. M : b[k].at = 0
  <2>1. \A k \in n + 1 .. M : k \in n + 1 .. rv \/ k \in rv + 1 .. M
    BY <1>0
  <2> QED
    BY <1>5, <1>6, <2>1
<1>12. rv = n + 1 => b[n + 1].kind = "nul"
  BY <1>0, <1>5
<1> QED
  BY <1>0, <1>4, <1>8, <1>9, <1>10, <1>11, <1>12 DEF Answer, M

\* An answer of nothing prints nothing.
LEMMA NothingShown ==
  ASSUME NEW b, NEW length, Answer(b, 0, length), length # 0
  PROVE  Con!PrintLog(b, length) = <<>>
<1>0. Len(b) \in Nat /\ length = 1 /\ 2 * length <= Len(b) /\ b[1].kind = "nul"
  BY LenProperties DEF Answer
<1>1. PICK f : /\ f = [bp \in 1 .. Len(b) + 1 |-> Line(b, length, f, bp)]
               /\ Con!PrintLog(b, length) = f[1]
  BY <1>0, PrintLogIs
<1>2. f[1] = Line(b, length, f, 1)
  BY <1>0, <1>1
<1>3. Line(b, length, f, 1) = <<>>
  BY <1>0 DEF Line
<1> QED
  BY <1>1, <1>2, <1>3

\* What one turn of cmd_console's loop does, with what is told of an answer.
LEMMA AnswerStep ==
  ASSUME ConsoleTypeOK, NEW n \in 0 .. BufMax, Con!Read(n)
  PROVE  \E place \in 0 .. Len(log), rv \in {n, n + 1} :
           /\ place = Con!Place
           /\ cpc = "read" /\ cpc' \in {"read", "done"}
           /\ (cpc' = "done") <=> (n = 0)
           /\ n <= Len(log) - place /\ (n = 0 => place = Len(log))
           /\ buf' \in [1 .. 2 * BufMax -> Bytes]
           /\ Answer(buf', n, rv)
           /\ \A k \in 1 .. n : buf'[k].kind = log[place + k] /\ buf'[k].at = place + k
           /\ text' = [k \in 1 .. n |-> buf'[k]]
           /\ printed' = IF rv > 0 THEN Con!PrintLog(buf', rv) ELSE <<>>
           /\ seen' = seen \union {printed'[i].at : i \in DOMAIN printed'}
           /\ IF sub = "recent" \/ null THEN recent' = place + n /\ next' = next
                                        ELSE next' = place + n /\ recent' = recent
           /\ sub' = "next" /\ null' = null /\ log' = log
<1> DEFINE M == 2 * BufMax
           place == Con!Place
           rv == IF null THEN n ELSE n + 1
           fresh == [i \in 1 .. n |-> [kind |-> log[place + i], at |-> place + i]]
           b == [i \in DOMAIN buf |-> IF i <= n THEN fresh[i]
                                      ELSE IF i <= rv THEN Con!Nul
                                      ELSE [buf[i] EXCEPT !.at = 0]]
<1>1. /\ cpc = "read"
      /\ n <= Len(log) - place /\ n <= Con!Room
      /\ n = 0 => place = Len(log)
      /\ buf' = b
      /\ text' = fresh
      /\ printed' = IF rv > 0 THEN Con!PrintLog(b, rv) ELSE <<>>
      /\ cpc' = IF Con!Continues(rv, b) THEN "read" ELSE "done"
      /\ seen' = seen \union {printed'[i].at : i \in DOMAIN printed'}
      /\ IF sub = "recent" \/ null THEN recent' = place + n /\ next' = next
                                   ELSE next' = place + n /\ recent' = recent
      /\ sub' = "next" /\ null' = null /\ log' = log
  BY DEF Con!Read
<1>2. /\ BufMax \in Nat \ {0} /\ M \in Nat /\ n \in Nat
      /\ log \in Seq(Kinds) /\ buf \in [1 .. M -> Bytes]
  BY <1>1, ConsoleAssumption DEF ConsoleTypeOK
<1>3. place \in 0 .. Len(log) /\ Len(log) \in Nat
  BY <1>2, LenProperties DEF ConsoleTypeOK, Con!Place
<1>4. rv \in {n, n + 1} /\ rv <= BufMax /\ 2 * rv <= M
  BY <1>1, <1>2 DEF ConsoleTypeOK, Con!Room
<1>5. n \in 0 .. Len(log) - place
  BY <1>1, <1>2, <1>3
<1> HIDE DEF place, rv, M
<1>6. b = [i \in 1 .. M |-> IF i <= n THEN fresh[i]
                            ELSE IF i <= rv THEN Con!Nul
                            ELSE [buf[i] EXCEPT !.at = 0]]
  BY <1>2
<1>7. \E c : b = [i \in 1 .. M |-> c[i]]
  <2>1. b = [i \in 1 .. M |-> b[i]]
    BY <1>6
  <2> QED
    BY <2>1
<1>8. \A i \in 1 .. M : b[i] = IF i <= n THEN fresh[i]
                               ELSE IF i <= rv THEN Con!Nul
                               ELSE [buf[i] EXCEPT !.at = 0]
  BY <1>6
<1>9. n <= rv /\ rv <= M /\ rv \in Nat
  BY <1>2, <1>4
<1>10. \A i \in 1 .. n : fresh[i] = [kind |-> log[place + i], at |-> place + i]
  OBVIOUS
<1>11. fresh = [i \in 1 .. n |-> fresh[i]]
  OBVIOUS
<1> HIDE DEF fresh, b
<1>12. \A i \in 1 .. n : b[i] = fresh[i]
  <2>1. SUFFICES ASSUME NEW i \in 1 .. n PROVE b[i] = fresh[i]
    OBVIOUS
  <2>2. i \in 1 .. M /\ i <= n
    BY <1>2, <1>9
  <2> QED
    BY <1>8, <2>2, Zenon
<1>13. \A i \in n + 1 .. rv : b[i] = Con!Nul
  <2>1. SUFFICES ASSUME NEW i \in n + 1 .. rv PROVE b[i] = Con!Nul
    OBVIOUS
  <2>2. i \in 1 .. M /\ ~(i <= n) /\ i <= rv
    BY <1>2, <1>9
  <2> QED
    BY <1>8, <2>2, Zenon
<1>14. \A i \in rv + 1 .. M : b[i] = [buf[i] EXCEPT !.at = 0]
  <2>1. SUFFICES ASSUME NEW i \in rv + 1 .. M PROVE b[i] = [buf[i] EXCEPT !.at = 0]
    OBVIOUS
  <2>2. i \in 1 .. M /\ ~(i <= n) /\ ~(i <= rv)
    BY <1>2, <1>9
  <2> QED
    BY <1>8, <2>2, Zenon
<1>15. \A i \in 1 .. n : b[i] = [kind |-> log[place + i], at |-> place + i]
  BY <1>10, <1>12
<1>16. /\ b \in [1 .. M -> Bytes]
       /\ Answer(b, n, rv)
       /\ \A k \in 1 .. n : b[k].kind = log[place + k] /\ b[k].at = place + k
  <2>1. Response(b, buf, log, place, n, rv)
    BY <1>2, <1>3, <1>4, <1>5, <1>7, <1>13, <1>14, <1>15 DEF Response, M
  <2> QED
    BY <2>1, ReadFacts DEF M
<1>17. fresh = [k \in 1 .. n |-> b[k]]
  BY <1>11, <1>12
<1>18. cpc' \in {"read", "done"} /\ (cpc' = "done" => n = 0)
  <2>1. n # 0 => b[1].kind # "nul" /\ rv > 0
    <3>1. n # 0 => 1 \in 1 .. n /\ rv > 0
      BY <1>2, <1>9
    <3>2. \A k \in 1 .. n : b[k].kind # "nul"
      BY <1>16 DEF Answer
    <3> QED
      BY <3>1, <3>2, Zenon
  <2>2. n # 0 => Con!Continues(rv, b)
    BY <2>1 DEF Con!Continues
  <2>3. cpc' = IF Con!Continues(rv, b) THEN "read" ELSE "done"
    BY <1>1
  <2> QED
    BY <2>2, <2>3
<1>19. buf' = b /\ text' = fresh
  BY <1>1
<1>20. /\ buf' \in [1 .. 2 * BufMax -> Bytes]
       /\ Answer(buf', n, rv)
       /\ \A k \in 1 .. n : buf'[k].kind = log[place + k] /\ buf'[k].at = place + k
       /\ text' = [k \in 1 .. n |-> buf'[k]]
       /\ printed' = IF rv > 0 THEN Con!PrintLog(buf', rv) ELSE <<>>
  <2>1. printed' = IF rv > 0 THEN Con!PrintLog(b, rv) ELSE <<>>
    BY <1>1
  <2> QED
    BY <1>16, <1>17, <1>19, <2>1 DEF M
<1>21. place = Con!Place
  BY DEF place
<1>22. /\ cpc = "read"
       /\ n <= Len(log) - place /\ (n = 0 => place = Len(log))
       /\ seen' = seen \union {printed'[i].at : i \in DOMAIN printed'}
       /\ IF sub = "recent" \/ null THEN recent' = place + n /\ next' = next
                                    ELSE next' = place + n /\ recent' = recent
       /\ sub' = "next" /\ null' = null /\ log' = log
  BY <1>1
<1>23. place \in 0 .. Len(log) /\ rv \in {n, n + 1}
  BY <1>3, <1>4
<1>24. n = 0 => cpc' = "done"
  <2>1. SUFFICES ASSUME n = 0 PROVE cpc' = "done"
    OBVIOUS
  <2>2. rv = 0 \/ b[1] = Con!Nul
    <3>1. rv = 0 \/ 1 \in n + 1 .. rv
      BY <2>1, <1>4
    <3> QED
      BY <3>1, <1>13
  <2>3. Con!Nul.kind = "nul"
    BY DEF Con!Nul
  <2>4. ~Con!Continues(rv, b)
    BY <2>2, <2>3 DEF Con!Continues
  <2>5. cpc' = IF Con!Continues(rv, b) THEN "read" ELSE "done"
    BY <1>1
  <2> QED
    BY <2>4, <2>5
<1>25. (cpc' = "done") <=> (n = 0)
  BY <1>18, <1>24
<1> QED
  BY <1>18, <1>20, <1>21, <1>22, <1>23, <1>25

\* A turn of the loop.
LEMMA ReadInv ==
  ASSUME ConsoleInv, NEW n \in 0 .. BufMax, Con!Read(n)
  PROVE  ConsoleInv'
<1>1. ConsoleTypeOK
  BY DEF ConsoleInv
<1>2. PICK place \in 0 .. Len(log), rv \in {n, n + 1} :
           /\ place = Con!Place
           /\ cpc = "read" /\ cpc' \in {"read", "done"}
           /\ (cpc' = "done") <=> (n = 0)
           /\ n <= Len(log) - place /\ (n = 0 => place = Len(log))
           /\ buf' \in [1 .. 2 * BufMax -> Bytes]
           /\ Answer(buf', n, rv)
           /\ \A k \in 1 .. n : buf'[k].kind = log[place + k] /\ buf'[k].at = place + k
           /\ text' = [k \in 1 .. n |-> buf'[k]]
           /\ printed' = IF rv > 0 THEN Con!PrintLog(buf', rv) ELSE <<>>
           /\ seen' = seen \union {printed'[i].at : i \in DOMAIN printed'}
           /\ IF sub = "recent" \/ null THEN recent' = place + n /\ next' = next
                                        ELSE next' = place + n /\ recent' = recent
           /\ sub' = "next" /\ null' = null /\ log' = log
  BY <1>1, AnswerStep
<1>3. /\ BufMax \in Nat \ {0} /\ n \in Nat /\ Len(log) \in Nat /\ rv \in Nat
      /\ recent \in 0 .. Len(log) /\ next \in 0 .. Len(log) /\ null \in BOOLEAN
      /\ place + n \in 0 .. Len(log) /\ place \in Nat
  BY <1>1, <1>2, ConsoleAssumption, LenProperties DEF ConsoleTypeOK
<1>4. place = IF sub = "recent" \/ null THEN recent ELSE next
  BY <1>2 DEF Con!Place
<1>5. ConsoleTypeOK'
  BY <1>1, <1>2, <1>3 DEF ConsoleTypeOK
<1>6. Shows(buf', n, 1, printed')
  <2>1. CASE rv > 0
    BY <1>2, <2>1, PrintLogShows
  <2>2. CASE rv = 0
    <3>1. n = 0 /\ printed' = <<>>
      BY <1>2, <1>3, <2>2
    <3> QED
      BY <3>1 DEF Shows
  <2> QED
    BY <1>3, <2>1, <2>2
<1>7. /\ DOMAIN text' = 1 .. n /\ Len(text') = n
      /\ \A k \in 1 .. n : text'[k] = buf'[k]
  BY <1>2, <1>3
<1>8. ShowsText'
  <2>1. ASSUME NEW i \in DOMAIN printed', printed'[i].at # 0
        PROVE  printed'[i] \in Con!ToSet(text')
    <3>1. PICK k \in 1 .. n : printed'[i] = buf'[k]
      BY <1>6, <2>1 DEF Shows
    <3>2. k \in DOMAIN text' /\ printed'[i] = text'[k]
      BY <1>7, <3>1
    <3> QED
      BY <3>2 DEF Con!ToSet
  <2>2. \A i, j \in DOMAIN printed' :
          i < j /\ printed'[i].at # 0 /\ printed'[j].at # 0 =>
            printed'[i].at < printed'[j].at
    BY <1>6 DEF Shows
  <2>3. ASSUME NEW k \in DOMAIN text'
        PROVE  \/ text'[k] \in Con!ToSet(printed')
               \/ text'[k].kind = "cr" /\ (k = Len(text') \/ text'[k + 1].kind = "lf")
    <3>1. k \in 1 .. n /\ text'[k] = buf'[k]
      BY <1>7
    <3>2. CASE \E i \in DOMAIN printed' : printed'[i] = buf'[k]
      BY <3>1, <3>2 DEF Con!ToSet
    <3>3. CASE buf'[k].kind = "cr" /\ (k = n \/ buf'[k + 1].kind = "lf")
      <4>1. k = n \/ (k + 1 \in 1 .. n /\ text'[k + 1] = buf'[k + 1])
        BY <1>3, <1>7, <3>1
      <4> QED
        BY <1>7, <3>1, <3>3, <4>1
    <3> QED
      BY <1>6, <3>1, <3>2, <3>3 DEF Shows
  <2> QED
    BY <2>1, <2>2, <2>3 DEF ShowsText
\* What is answered is on the screen.
<1>9. ASSUME NEW k \in 1 .. n
      PROVE  place + k \in seen' \/ log[place + k] = "cr"
  <2>1. buf'[k].kind = log[place + k] /\ buf'[k].at = place + k
    BY <1>2
  <2>2. CASE buf'[k].kind = "cr"
    BY <2>1, <2>2
  <2>3. CASE \E i \in DOMAIN printed' : printed'[i] = buf'[k]
    <3>1. PICK i \in DOMAIN printed' : printed'[i] = buf'[k]
      BY <2>3
    <3>2. printed'[i].at \in seen'
      BY <1>2, <3>1
    <3> QED
      BY <2>1, <3>1, <3>2
  <2> QED
    BY <1>6, <2>2, <2>3 DEF Shows
<1>10. \A p \in 1 .. Answered' : p \in seen' \/ log'[p] = "cr"
  <2>1. CASE Answered = place /\ Answered' = place + n
    <3>1. SUFFICES ASSUME NEW p \in 1 .. place + n
                   PROVE  p \in seen' \/ log[p] = "cr"
      BY <1>2, <2>1
    <3>2. CASE p <= place
      BY <1>2, <1>3, <2>1, <3>2 DEF ConsoleInv
    <3>3. CASE p > place
      <4>1. p - place \in 1 .. n /\ place + (p - place) = p
        BY <1>3, <3>3
      <4> QED
        BY <1>9, <4>1
    <3> QED
      BY <1>3, <3>2, <3>3
  <2>2. CASE sub = "recent" /\ ~null
    <3>1. Answered' = 0
      BY <1>2, <2>2 DEF ConsoleInv, Answered
    <3> QED
      BY <3>1
  <2>3. (sub = "recent" /\ ~null) \/ (Answered = place /\ Answered' = place + n)
    <3>1. sub \in {"recent", "next"}
      BY <1>1 DEF ConsoleTypeOK
    <3> QED
      BY <1>2, <1>4, <3>1 DEF Answered
  <2> QED
    BY <2>1, <2>2, <2>3
<1>11. cpc' = "done" /\ seen' # {} => Answered' = Len(log')
  <2>1. SUFFICES ASSUME cpc' = "done", seen' # {}
                 PROVE  Answered' = Len(log)
    BY <1>2
  <2>2. n = 0 /\ place = Len(log)
    BY <1>2, <2>1
  <2>3. printed' = <<>>
    <3>1. rv # 0 => Con!PrintLog(buf', rv) = <<>>
      BY <1>2, <2>2, NothingShown
    <3> QED
      BY <1>2, <1>3, <3>1
  <2>4. seen' = seen
    BY <1>2, <2>3
  <2>5. ~(sub = "recent")
    BY <1>2, <2>1, <2>4 DEF ConsoleInv
  <2> QED
    BY <1>2, <1>3, <1>4, <2>2, <2>5 DEF Answered
<1> QED
  BY <1>2, <1>5, <1>8, <1>10, <1>11 DEF ConsoleInv

\* A command begins, or its program is over.
LEMMA NothingYetInv ==
  ASSUME \/ cpc' = "off"
         \/ cpc' = "snapshot" /\ buf' \in [1 .. 2 * BufMax -> Bytes],
         null' \in BOOLEAN, sub' = "recent", log' = <<>>, recent' = 0, next' = 0,
         text' = <<>>, printed' = <<>>, seen' = {}
  PROVE  ConsoleInv'
<1>1. <<>> \in Seq(Kinds) /\ Len(<<>>) = 0 /\ DOMAIN <<>> = {}
  OBVIOUS
<1>2. ConsoleTypeOK'
  BY <1>1 DEF ConsoleTypeOK
<1>3. ShowsText'
  BY <1>1 DEF ShowsText
<1>4. Answered' = 0
  BY DEF Answered
<1> QED
  BY <1>2, <1>3, <1>4 DEF ConsoleInv

\* The command starts.
LEMMA StartInv ==
  ASSUME NEW stack \in {"x", "lf"}, Con!Start(stack)
  PROVE  ConsoleInv'
<1>1. /\ cpc' = "snapshot" /\ null' \in BOOLEAN /\ sub' = "recent"
      /\ log' = <<>> /\ recent' = 0 /\ next' = 0
      /\ text' = <<>> /\ printed' = <<>> /\ seen' = {}
      /\ buf' = [i \in 1 .. 2 * BufMax |->
                   IF i <= BufMax THEN Con!Nul ELSE [kind |-> stack, at |-> 0]]
  BY DEF Con!Start
<1>2. [kind |-> stack, at |-> 0] \in Bytes
  BY DEF Bytes
<1>3. buf' \in [1 .. 2 * BufMax -> Bytes]
  BY <1>1, <1>2, ByteFacts
<1> QED
  BY <1>1, <1>3, NothingYetInv

\* The log is fixed, and its first part answered before.
LEMMA SnapshotInv ==
  ASSUME ConsoleInv, Con!Snapshot
  PROVE  ConsoleInv'
<1>1. PICK m \in 0 .. LogMax : log' \in [1 .. m -> Kinds]
  BY DEF Con!Snapshot, Con!BoundedSeq, Con!SeqOf, Kinds
<1>2. log' \in Seq(Kinds) /\ Len(log') \in Nat
  BY <1>1, ConsoleAssumption
<1>3. /\ cpc = "snapshot" /\ cpc' = "read"
      /\ recent' \in IF null THEN {0} ELSE 0 .. Len(log')
      /\ null' = null /\ next' = next /\ sub' = sub /\ buf' = buf
      /\ text' = text /\ printed' = printed /\ seen' = seen
  BY DEF Con!Snapshot
<1>4. sub = "recent" /\ next = 0 /\ seen = {} /\ null \in BOOLEAN
  BY <1>3 DEF ConsoleInv, ConsoleTypeOK
<1>5. ConsoleTypeOK'
  BY <1>2, <1>3, <1>4 DEF ConsoleInv, ConsoleTypeOK
<1>6. ShowsText'
  BY <1>3 DEF ConsoleInv, ShowsText
<1>7. Answered' = 0
  BY <1>3, <1>4 DEF Answered
<1> QED
  BY <1>3, <1>4, <1>5, <1>6, <1>7 DEF ConsoleInv

\* Nothing but cpc changes, and the command is not done.
LEMMA OtherInv ==
  ASSUME ConsoleInv,
         \/ cpc' = cpc /\ buf' = buf
         \/ cpc # "off" /\ cpc' = "failed" /\ buf' = buf,
         UNCHANGED <<null, log, recent, next, sub, text, printed, seen>>
  PROVE  ConsoleInv'
<1>1. ConsoleTypeOK'
  BY DEF ConsoleInv, ConsoleTypeOK
<1>2. ShowsText'
  BY DEF ConsoleInv, ShowsText
<1>3. Answered' = Answered
  BY DEF Answered
<1> QED
  BY <1>1, <1>2, <1>3 DEF ConsoleInv

\* Whatever a session does keeps the invariant.
LEMMA ConsoleStep ==
  ASSUME ConsoleInv, [Next]_vars
  PROVE  ConsoleInv'
<1>1. CASE UNCHANGED con
  BY <1>1, OtherInv DEF con
<1>2. CASE ConsoleOff
  BY <1>2, NothingYetInv DEF ConsoleOff
<1>3. CASE \E stack \in {"x", "lf"} : Con!Start(stack)
  BY <1>3, StartInv
<1>4. CASE Con!Snapshot
  BY <1>4, SnapshotInv
<1>5. CASE Con!Fail
  BY <1>5, OtherInv DEF Con!Fail
<1>6. CASE Con!Answer
  BY <1>6, ReadInv DEF Con!Answer
<1>7. \/ UNCHANGED con \/ ConsoleOff
      \/ \E stack \in {"x", "lf"} : Con!Start(stack)
      \/ Con!Snapshot \/ Con!Fail \/ Con!Answer
  <2>1. CASE Image
    BY <2>1 DEF Image, Constructor, EntryPoint, Locate, TestProbes, DriverStays, AskOnce,
                Reboot, Reset, Boot, AskPanic, VersionBuildInfo, FlashreadOpen, Unlock, VersionRead,
                FlashreadRead, FlashreadFile, LockAgain, ReflashBegin, Reflash,
                WriteSize, Console, Return, Destructor, quiet
  <2>2. CASE \/ Start \/ EmptyWrites \/ PowerCycle \/ EcTakes \/ EcRuns \/ EcReboots
             \/ Rest \/ UNCHANGED vars
    BY <2>2 DEF Start, EmptyWrites, PowerCycle, EcTakes, EcRuns, EcReboots, Reset, Boot,
                Rest, vars, quiet
  <2> QED
    BY <2>1, <2>2 DEF Next
<1> QED
  BY <1>1, <1>2, <1>3, <1>4, <1>5, <1>6, <1>7

\* It holds before the first program.
LEMMA ConsoleBegins == Init => ConsoleInv
<1> SUFFICES ASSUME Init PROVE ConsoleInv
  OBVIOUS
<1>1. /\ cpc = "off" /\ null = FALSE /\ log = <<>> /\ recent = 0 /\ next = 0
      /\ sub = "recent" /\ text = <<>> /\ printed = <<>> /\ seen = {}
  BY DEF Init, Con!Init
<1>2. <<>> \in Seq(Kinds) /\ Len(<<>>) = 0 /\ DOMAIN <<>> = {}
  OBVIOUS
<1>3. ConsoleTypeOK
  <2>1. log \in Seq(Kinds) /\ Len(log) = 0
    BY <1>1, <1>2, Zenon
  <2>2. recent \in 0 .. Len(log) /\ next \in 0 .. Len(log)
    BY <1>1, <2>1
  <2>3. null \in BOOLEAN /\ cpc = "off" /\ sub = "recent"
    BY <1>1, Zenon
  <2> QED
    BY <2>1, <2>2, <2>3 DEF ConsoleTypeOK
<1>4. ShowsText
  BY <1>1, <1>2 DEF ShowsText
<1>5. Answered = 0
  BY <1>1 DEF Answered
<1> QED
  BY <1>1, <1>3, <1>4, <1>5 DEF ConsoleInv

\* The invariant of cmd_console.
LEMMA ConsoleHolds == Spec => []ConsoleInv
BY ConsoleBegins, ConsoleStep, PTL DEF Spec

\* cmd_console shows what the EC answers, and all of the log, for every size of
\* the buffer and every log.
THEOREM ConsoleIsComplete == Spec => []ConsoleComplete
<1>1. ConsoleInv => ConsoleComplete
  BY ConsoleInvComplete
<1> QED
  BY ConsoleHolds, <1>1, PTL
-----------------------------------------------------------------------------
(* Why every image ends: there are two loops, cmd_console's, and the empty *)
(* writes of cmd_reflash, which it may never leave.                        *)

LibsLeft == (IF "mec" \in left THEN 1 ELSE 0) + (IF "npcx" \in left THEN 1 ELSE 0)

\* The stages an image has before it, ...
StagesLeft ==
  CASE stage = "construct" -> 3
    [] stage = "run" -> 2
    [] stage = "destruct" -> 1
    [] stage = "idle" -> 0

\* ... the constructors or destructors of this one or the calls of the program, ...
PlacesLeft ==
  IF stage # "run" THEN LibsLeft
  ELSE CASE pc = "start" -> 6
         [] pc \in {"v_build", "f_open", "r_check", "c_snapshot", "p_ask"} -> 5
         [] pc \in {"v_unlock", "f_unlock", "r_unlock", "p_again"} -> 4
         [] pc \in {"v_version", "f_read", "r_work", "r_flash", "c_read"} -> 3
         [] pc \in {"f_file", "r_lock"} -> 2
         [] pc \in {"out", "ask", "r_endless", "r_fault"} -> 1
         [] pc = "exit" -> 0

\* ... and, of the one loop, the answers with something in them.
AnswersLeft == IF sub = "recent" THEN Len(log) + 1 ELSE Len(log) - Con!Place

Nearer ==
  \/ StagesLeft' < StagesLeft
  \/ StagesLeft' = StagesLeft /\ PlacesLeft' < PlacesLeft
  \/ StagesLeft' = StagesLeft /\ PlacesLeft' = PlacesLeft /\ AnswersLeft' < AnswersLeft

\* A constructor or destructor less to run.
LEMMA LibsCounted ==
  ASSUME NEW l \in Libs, l \in left, left' = left \ {l}
  PROVE  LibsLeft \in Nat /\ LibsLeft' = LibsLeft - 1
BY DEF Libs, LibsLeft

\* A step of the program from one place to another.
LEMMA PlacesCounted ==
  ASSUME stage = "run", stage' = "run",
         \/ pc = "start" /\ pc' \in Running \ {"start"}
         \/ /\ pc \in {"v_build", "f_open", "r_check", "c_snapshot", "p_ask"}
            /\ pc' \in Running \ {"start", "v_build", "f_open", "r_check", "c_snapshot", "p_ask"}
         \/ /\ pc \in {"v_unlock", "f_unlock", "r_unlock"}
            /\ pc' \in {"v_version", "f_read", "r_work", "out", "exit"}
         \/ /\ pc \in {"v_version", "f_read", "r_work"}
            /\ pc' \in {"f_file", "r_lock", "out", "exit"}
         \/ pc \in {"r_work", "r_flash"} /\ pc' \in {"r_endless", "r_fault"}
         \/ pc = "f_file" /\ pc' = "out"
         \/ /\ pc \in {"p_again", "r_flash", "r_endless", "c_read", "r_lock", "out", "ask"}
            /\ pc' = "exit"
  PROVE  Nearer
<1>1. StagesLeft' = StagesLeft
  BY DEF StagesLeft
<1>2. PlacesLeft' < PlacesLeft
  BY DEF PlacesLeft, Running
<1> QED
  BY <1>1, <1>2 DEF Nearer

\* The loop of cmd_console goes on after an answer with something in it only.
LEMMA AnswersCounted ==
  ASSUME ConsoleInv, NEW n \in 0 .. BufMax, Con!Read(n), cpc' = "read"
  PROVE  AnswersLeft' < AnswersLeft
<1>1. /\ recent \in 0 .. Len(log) /\ next \in 0 .. Len(log) /\ Len(log) \in Nat
      /\ null \in BOOLEAN /\ sub \in {"recent", "next"}
  BY LenProperties DEF ConsoleInv, ConsoleTypeOK
<1>2. /\ sub' = "next" /\ log' = log /\ null' = null
      /\ IF sub = "recent" \/ null THEN recent' = Con!Place + n /\ next' = next
                                   ELSE next' = Con!Place + n /\ recent' = recent
      /\ n <= Len(log) - Con!Place
  BY DEF Con!Read
<1>3. CASE sub = "recent"
  <2>1. Con!Place' \in Nat
    BY <1>1, <1>2, <1>3 DEF Con!Place
  <2> QED
    BY <1>1, <1>2, <1>3, <2>1 DEF AnswersLeft
<1>4. CASE sub = "next"
  <2>1. n # 0
    BY AnswerStep DEF ConsoleInv
  <2>2. Con!Place' = Con!Place + n /\ Con!Place \in Nat
    BY <1>1, <1>2, <1>4 DEF Con!Place
  <2> QED
    BY <1>1, <1>2, <1>4, <2>1, <2>2 DEF AnswersLeft
<1> QED
  BY <1>1, <1>3, <1>4

\* Every step of a program.
LEMMA RunGetsNearer ==
  ASSUME TypeOK, ConsoleInv, UNCHANGED life,
         \/ Locate \/ TestProbes \/ AskOnce \/ AskPanic \/ VersionBuildInfo \/ FlashreadOpen
         \/ Unlock \/ VersionRead \/ FlashreadRead \/ FlashreadFile \/ LockAgain
         \/ ReflashBegin \/ Reflash \/ WriteSize \/ Console
  PROVE  Nearer
<1> USE DEF Call, Ok, Bad, Running
<1>0. (pc # "off" => stage = "run") /\ stage' = stage
  BY DEF TypeOK, life
<1>1. CASE Locate
  <2>1. pc = "start" /\ pc' \in Running \ {"start"}
    BY <1>1 DEF Locate, First
  <2> QED
    BY <1>0, <2>1, PlacesCounted
<1>2. CASE TestProbes \/ AskOnce \/ AskPanic
  <2>1. \/ pc = "start" /\ pc' \in {"exit", "ask"}
        \/ pc = "p_ask" /\ pc' \in {"p_again", "exit"}
        \/ pc \in {"ask", "p_again"} /\ pc' = "exit"
    BY <1>2 DEF TestProbes, AskOnce, AskPanic
  <2> QED
    BY <1>0, <2>1, PlacesCounted
<1>3. CASE VersionBuildInfo \/ FlashreadOpen \/ Unlock \/ VersionRead \/ FlashreadRead
  <2>1. \/ pc = "v_build" /\ pc' \in {"v_unlock", "out"}
        \/ pc = "f_open" /\ pc' \in {"f_unlock", "out"}
        \/ pc \in {"v_unlock", "f_unlock"} /\ pc' \in {"v_version", "f_read", "out"}
        \/ pc \in {"v_version", "f_read"} /\ pc' \in {"f_file", "out"}
    BY <1>3 DEF VersionBuildInfo, FlashreadOpen, Unlock, VersionRead, FlashreadRead
  <2> QED
    BY <1>0, <2>1, PlacesCounted
<1>4. CASE FlashreadFile \/ LockAgain \/ ReflashBegin \/ Reflash \/ WriteSize
  <2>1. \/ pc = "f_file" /\ pc' = "out"
        \/ pc \in {"out", "r_flash", "r_lock"} /\ pc' = "exit"
        \/ pc = "r_check" /\ pc' \in {"exit", "r_unlock", "r_flash", "r_fault"}
        \/ pc = "r_unlock" /\ pc' \in {"r_work", "exit"}
        \/ pc = "r_work" /\ pc' \in {"r_lock", "exit"}
        \/ pc \in {"r_work", "r_flash"} /\ pc' \in {"r_endless", "r_fault"}
    BY <1>4 DEF FlashreadFile, LockAgain, ReflashBegin, Reflash, WriteSize
  <2> QED
    BY <1>0, <2>1, PlacesCounted
<1>5. CASE Console
  <2>1. CASE pc = "c_snapshot" /\ pc' \in {"c_read", "exit"}
    BY <1>0, <2>1, PlacesCounted
  <2>2. CASE pc = "c_read" /\ pc' = "exit"
    BY <1>0, <2>2, PlacesCounted
  <2>3. CASE pc = "c_read" /\ pc' = "c_read"
    <3>1. Con!Answer /\ cpc' = "read"
      BY <1>5, <2>3 DEF Console
    <3>2. AnswersLeft' < AnswersLeft
      BY <3>1, AnswersCounted DEF Con!Answer
    <3>3. StagesLeft' = StagesLeft /\ PlacesLeft' = PlacesLeft
      BY <1>0, <2>3 DEF StagesLeft, PlacesLeft
    <3> QED
      BY <3>2, <3>3 DEF Nearer
  <2> QED
    BY <1>5, <2>1, <2>2, <2>3 DEF Console
<1> QED
  BY <1>1, <1>2, <1>3, <1>4, <1>5

\* Every step of an image.
LEMMA ImageGetsNearer ==
  ASSUME TypeOK, ConsoleInv, Image
  PROVE  Nearer
<1>1. CASE Constructor \/ \E l \in Libs : Destruct(l)
  <2>1. PICK l \in Libs : l \in left /\ left' = left \ {l} /\ stage' = stage
                        /\ stage \in {"construct", "destruct"}
    BY <1>1 DEF Constructor, Construct, Destruct
  <2>2. PlacesLeft' < PlacesLeft
    BY <2>1, LibsCounted DEF PlacesLeft
  <2> QED
    BY <2>1, <2>2 DEF StagesLeft, Nearer
<1>2. CASE EntryPoint \/ Return \/ Unload
  BY <1>2 DEF EntryPoint, Enter, Return, End, Unload, StagesLeft, Nearer
<1>3. CASE Reboot
  <2>1. stage = "run" /\ stage' = "idle"
    BY <1>3 DEF Reboot, Reset, Boot, Restart, TypeOK
  <2> QED
    BY <2>1 DEF StagesLeft, Nearer
<1>4. CASE DriverStays
  <2>1. CASE stage = "run" /\ stage' = "idle"
    BY <2>1 DEF StagesLeft, Nearer
  <2>2. CASE stage = "run" /\ stage' = "run" /\ pc = "start" /\ pc' = "exit"
    BY <2>2, PlacesCounted DEF Running
  <2> QED
    BY <1>4, <2>1, <2>2 DEF DriverStays, Stay, TypeOK, life
<1>5. CASE \/ Locate \/ TestProbes \/ AskOnce \/ AskPanic \/ VersionBuildInfo \/ FlashreadOpen
           \/ Unlock \/ VersionRead \/ FlashreadRead \/ FlashreadFile \/ LockAgain
           \/ ReflashBegin \/ Reflash \/ WriteSize \/ Console
  <2>1. UNCHANGED life
    BY <1>5 DEF Locate, TestProbes, AskOnce, AskPanic, VersionBuildInfo, FlashreadOpen, Unlock,
           VersionRead, FlashreadRead, FlashreadFile, LockAgain, ReflashBegin, Reflash,
           WriteSize, Console, quiet
  <2> QED
    BY <1>5, <2>1, RunGetsNearer
<1> QED
  BY <1>1, <1>2, <1>3, <1>4, <1>5 DEF Image, Destructor

\* None of the three falls for ever.
LEMMA CountsAreNat ==
  ASSUME TypeOK, ConsoleInv
  PROVE  StagesLeft \in Nat /\ PlacesLeft \in Nat /\ AnswersLeft \in Nat
<1>1. StagesLeft \in Nat
  BY DEF TypeOK, LifecycleTypeOK, StagesLeft
<1>2. PlacesLeft \in Nat
  <2>1. CASE stage # "run"
    <3>1. LibsLeft \in Nat
      BY DEF LibsLeft
    <3> QED
      BY <2>1, <3>1 DEF PlacesLeft
  <2>2. CASE stage = "run"
    BY <2>2 DEF TypeOK, PlacesLeft
  <2> QED
    BY <2>1, <2>2
<1>3. AnswersLeft \in Nat
  <2>1. Con!Place \in 0 .. Len(log) /\ Len(log) \in Nat
    BY LenProperties DEF ConsoleInv, ConsoleTypeOK, Con!Place
  <2> QED
    BY <2>1 DEF AnswersLeft
<1> QED
  BY <1>1, <1>2, <1>3

\* Every step of an image brings it nearer to its end, but the empty write the
\* EC acknowledges, which changes nothing at all: the stages, the places of the
\* program and, in cmd_console's loop, the answers with something in them can
\* only run out; an EC that takes or runs a packet does not bring them back, one
\* that reboots ends the image, and so does a power cycle.  Into the loop of
\* empty writes there is one way, the size that FLASH_INFO reports.  This is what
\* EveryImageEnds needs besides fairness, for logs of any length.
THEOREM EveryImageStepCounts ==
  Spec => /\ [](StagesLeft \in Nat /\ PlacesLeft \in Nat /\ AnswersLeft \in Nat)
          /\ [][/\ Image \/ EmptyWrites => Nearer
                /\ EcTakes \/ EcRuns => UNCHANGED <<StagesLeft, PlacesLeft, AnswersLeft>>
                /\ EcReboots \/ PowerCycle => stage' = "idle"
                /\ pc' = "r_endless" /\ pc # "r_endless" => WriteSize]_vars
<1>1. TypeOK /\ ConsoleInv => StagesLeft \in Nat /\ PlacesLeft \in Nat /\ AnswersLeft \in Nat
  BY CountsAreNat
<1>2. EcTakes \/ EcRuns => UNCHANGED <<StagesLeft, PlacesLeft, AnswersLeft>>
  <2>1. EcTakes \/ EcRuns => UNCHANGED <<life, run, con>>
    BY DEF EcTakes, EcRuns
  <2>2. SUFFICES ASSUME UNCHANGED <<life, run, con>>
                 PROVE  UNCHANGED <<StagesLeft, PlacesLeft, AnswersLeft>>
    BY <2>1
  <2>3. /\ stage' = stage /\ left' = left /\ pc' = pc /\ sub' = sub /\ log' = log
        /\ null' = null /\ recent' = recent /\ next' = next
    BY <2>2 DEF life, run, con
  <2>4. StagesLeft' = StagesLeft
    BY <2>3 DEF StagesLeft
  <2>5. LibsLeft' = LibsLeft
    BY <2>3 DEF LibsLeft
  <2>6. PlacesLeft' = PlacesLeft
    BY <2>3, <2>5 DEF PlacesLeft
  <2>7. AnswersLeft' = AnswersLeft
    BY <2>3 DEF AnswersLeft, Con!Place
  <2> QED
    BY <2>4, <2>6, <2>7
<1>3. EcReboots \/ PowerCycle => stage' = "idle"
  BY DEF EcReboots, PowerCycle, Reset, Boot, Restart
<1>4. ASSUME TypeOK, EmptyWrites, vars' # vars
      PROVE  Nearer
  <2>1. UNCHANGED quiet /\ UNCHANGED unlocked /\ pc = "r_endless" /\ stage = "run"
    BY <1>4 DEF EmptyWrites, Call, Ok, Bad, TypeOK
  <2>2. ~Ok("r_endless", "FlashWrite", "r_endless")
    <3> SUFFICES ASSUME Ok("r_endless", "FlashWrite", "r_endless") PROVE FALSE
      OBVIOUS
    <3>1. UNCHANGED <<packet, before, lost>> /\ pc' = pc
      BY <2>1 DEF Ok
    <3>2. spi' = spi
      BY DEF Ok, Access
    <3> QED
      BY <1>4, <2>1, <3>1, <3>2 DEF vars, run, ec, quiet
  <2>3. pc' = "exit"
    BY <1>4, <2>2 DEF EmptyWrites, Call, Bad
  <2>4. stage' = "run"
    BY <2>1 DEF quiet, life
  <2> QED
    BY <2>1, <2>3, <2>4, PlacesCounted
<1>5. ASSUME Next, pc' = "r_endless", pc # "r_endless"
      PROVE  WriteSize
  <2>1. ~Locate
    BY <1>5 DEF Locate, First
  <2>2. ~(Start \/ EcTakes \/ EcRuns \/ EcReboots \/ PowerCycle \/ Rest \/ EmptyWrites)
    BY <1>5 DEF Start, EcTakes, EcRuns, EcReboots, PowerCycle, Rest, EmptyWrites, Call, Ok, Bad,
       Reset, Boot, vars, run
  <2>3. ~(Constructor \/ EntryPoint \/ TestProbes \/ DriverStays \/ AskOnce \/ Reboot \/ AskPanic)
    BY <1>5 DEF Constructor, EntryPoint, TestProbes, DriverStays, AskOnce, Reboot, AskPanic,
       Call, Ok, Bad, Reset, Boot, run
  <2>4. ~(VersionBuildInfo \/ FlashreadOpen \/ Unlock \/ VersionRead \/ FlashreadRead)
    BY <1>5 DEF VersionBuildInfo, FlashreadOpen, Unlock, VersionRead, FlashreadRead,
       Call, Ok, Bad
  <2>5. ~(FlashreadFile \/ LockAgain \/ ReflashBegin \/ Reflash)
    BY <1>5 DEF FlashreadFile, LockAgain, ReflashBegin, Reflash, Call, Ok, Bad
  <2>6. ~(Console \/ Return \/ Destructor)
    BY <1>5 DEF Console, Return, Destructor, Call, Ok, Bad, run
  <2> QED
    BY <1>5, <2>1, <2>2, <2>3, <2>4, <2>5, <2>6 DEF Next, Image
<1>6. TypeOK /\ ConsoleInv /\ [Next]_vars =>
        [/\ Image \/ EmptyWrites => Nearer
         /\ EcTakes \/ EcRuns => UNCHANGED <<StagesLeft, PlacesLeft, AnswersLeft>>
         /\ EcReboots \/ PowerCycle => stage' = "idle"
         /\ pc' = "r_endless" /\ pc # "r_endless" => WriteSize]_vars
  BY <1>2, <1>3, <1>4, <1>5, ImageGetsNearer
<1> QED
  BY TypeCorrect, ConsoleHolds, <1>1, <1>6, PTL DEF Spec
=============================================================================
