--------------------------- MODULE RetrievalProofs ---------------------------
(***************************************************************************)
(* Theorems about a graph run and its retrieval threads, for any number of *)
(* threads, turns, attempts and any query results.                         *)
(*                                                                         *)
(* First what the text of an answer is, for every limit, every marker and  *)
(* any rows.  The loops over the rows are folds of the library, which are  *)
(* recursive functions: NatSetInduction shows that they exist and what     *)
(* they compute.                                                           *)
(*                                                                         *)
(* Then each step of module Retrieval is a step of AgentGraph or leaves    *)
(* its variables alone, so what AgentGraphProofs shows of a run holds here *)
(* as well.                                                                *)
(***************************************************************************)
EXTENDS Retrieval, AgentGraphProofs, WellFoundedInduction

-----------------------------------------------------------------------------
(* Induction. *)

\* A set that has 0, and with a number its successor, has every number.
LEMMA NatSetInduction ==
    ASSUME NEW S, 0 \in S, \A n \in Nat : n \in S => n + 1 \in S
    PROVE  Nat \subseteq S
<1>1. SUFFICES ASSUME Nat \ S # {} PROVE FALSE
  OBVIOUS
<1>2. PICK m \in Nat \ S : \A n \in Nat \ S : <<n, m>> \notin OpToRel(<, Nat)
  BY <1>1, NatLessThanWellFounded, WFMin
<1>3. m - 1 \in Nat \ S
  <2>1. m # 0
    OBVIOUS
  <2> QED
    BY <2>1
<1>4. <<m - 1, m>> \in OpToRel(<, Nat)
  BY <1>3 DEF OpToRel
<1> QED
  BY <1>2, <1>3, <1>4

\* The values a fold from the left goes through: val[s] is the one after the
\* elements of seq at the places s.
FoldsTo(val, base, step, seq, n) ==
    \A s \in SUBSET (1 .. n) :
        val[s] = IF s = {} THEN base
                 ELSE step[<<val[s \ {Max(s)}], seq[Max(s)]>>]

\* The last place is the greatest.
LEMMA MaxOfPrefix ==
    ASSUME NEW n \in Nat, NEW s \in SUBSET (1 .. n + 1), n + 1 \in s
    PROVE  Max(s) = n + 1
<1>1. \A y \in s : n + 1 >= y
  OBVIOUS
<1>2. PICK m \in s : m = Max(s) /\ \A y \in s : m >= y
  BY <1>1 DEF Max
<1>3. m \in Nat /\ m <= n + 1 /\ m >= n + 1
  BY <1>2
<1> QED
  BY <1>2, <1>3

\* A fold exists: its values on shorter prefixes give those on longer ones.
LEMMA FoldExists ==
    ASSUME NEW B, NEW base \in B, NEW R, NEW step \in [B \X R -> B],
           NEW seq \in Seq(R)
    PROVE  \E val \in [SUBSET DOMAIN seq -> B] :
              FoldsTo(val, base, step, seq, Len(seq))
<1> DEFINE Has(n) == \E val \in [SUBSET (1 .. n) -> B] :
                        FoldsTo(val, base, step, seq, n)
           S == {n \in Nat : n <= Len(seq) => Has(n)}
<1>1. Has(0)
  <2> DEFINE first == [s \in SUBSET (1 .. 0) |-> base]
  <2>1. first \in [SUBSET (1 .. 0) -> B]
    OBVIOUS
  <2>2. \A s \in SUBSET (1 .. 0) : s = {} /\ first[s] = base
    OBVIOUS
  <2>3. FoldsTo(first, base, step, seq, 0)
    BY <2>2 DEF FoldsTo
  <2> QED
    BY <2>1, <2>3
<1>2. ASSUME NEW n \in Nat, n + 1 <= Len(seq), Has(n)
      PROVE  Has(n + 1)
  <2>2. PICK val \in [SUBSET (1 .. n) -> B] : FoldsTo(val, base, step, seq, n)
    BY <1>2
  <2>3. seq[n + 1] \in R
    BY <1>2
  <2> DEFINE next == [s \in SUBSET (1 .. n + 1) |->
                        IF s \in SUBSET (1 .. n) THEN val[s]
                        ELSE step[<<val[s \ {n + 1}], seq[n + 1]>>]]
  <2>4. ASSUME NEW s \in SUBSET (1 .. n + 1), s \notin SUBSET (1 .. n)
        PROVE  n + 1 \in s /\ s \ {n + 1} \in SUBSET (1 .. n)
    BY <2>4
  <2>5. ASSUME NEW s \in SUBSET (1 .. n + 1)
        PROVE  next[s] \in B
    BY <2>2, <2>3, <2>4
  <2>6. ASSUME NEW s \in SUBSET (1 .. n + 1)
        PROVE  next[s] = IF s = {} THEN base
                         ELSE step[<<next[s \ {Max(s)}], seq[Max(s)]>>]
    <3>1. CASE s \in SUBSET (1 .. n)
      <4>1. s \ {Max(s)} \in SUBSET (1 .. n)
        BY <3>1
      <4>2. s \ {Max(s)} \in SUBSET (1 .. n + 1)
        BY <3>1
      <4>3. next[s \ {Max(s)}] = val[s \ {Max(s)}] /\ next[s] = val[s]
        BY <3>1, <4>1, <4>2
      <4> QED
        BY <2>2, <3>1, <4>3 DEF FoldsTo
    <3>2. CASE s \notin SUBSET (1 .. n)
      <4>1. n + 1 \in s /\ s \ {n + 1} \in SUBSET (1 .. n)
        BY <2>4, <3>2
      <4>2. Max(s) = n + 1 /\ s # {}
        BY <4>1, MaxOfPrefix
      <4>3. s \ {n + 1} \in SUBSET (1 .. n + 1)
        OBVIOUS
      <4>4. next[s \ {n + 1}] = val[s \ {n + 1}]
        BY <4>1, <4>3
      <4>5. next[s] = step[<<val[s \ {n + 1}], seq[n + 1]>>]
        BY <3>2
      <4> QED
        BY <4>2, <4>4, <4>5
    <3> QED
      BY <3>1, <3>2
  <2>7. next \in [SUBSET (1 .. n + 1) -> B]
    BY <2>5
  <2>8. FoldsTo(next, base, step, seq, n + 1)
    BY <2>6 DEF FoldsTo
  <2> QED
    BY <2>7, <2>8
<1> HIDE DEF Has
<1>3. Nat \subseteq S
  <2>1. 0 \in S
    BY <1>1
  <2>2. \A n \in Nat : n \in S => n + 1 \in S
    BY <1>2
  <2> HIDE DEF S
  <2> QED
    BY <2>1, <2>2, NatSetInduction
<1>4. Has(Len(seq)) /\ DOMAIN seq = 1 .. Len(seq)
  BY <1>3
<1> QED
  BY <1>4 DEF Has

\* The greatest of some places is one of them.
LEMMA MaxOfPlaces ==
    ASSUME NEW m \in Nat, NEW s \in SUBSET (1 .. m), s # {}
    PROVE  Max(s) \in s
<1> DEFINE Has(n) == \A t \in SUBSET (1 .. n) : t # {} => Max(t) \in t
           S == {n \in Nat : Has(n)}
<1>1. Has(0)
  <2>1. \A t \in SUBSET (1 .. 0) : t = {}
    OBVIOUS
  <2> QED
    BY <2>1
<1>2. ASSUME NEW n \in Nat, Has(n)
      PROVE  Has(n + 1)
  <2> SUFFICES ASSUME NEW t \in SUBSET (1 .. n + 1), t # {}
               PROVE  Max(t) \in t
    OBVIOUS
  <2>1. CASE n + 1 \in t
    BY <2>1, MaxOfPrefix
  <2>2. CASE n + 1 \notin t
    <3>1. t \in SUBSET (1 .. n)
      BY <2>2
    <3> QED
      BY <1>2, <3>1
  <2> QED
    BY <2>1, <2>2
<1> HIDE DEF Has
<1>3. Nat \subseteq S
  <2>1. 0 \in S
    BY <1>1
  <2>2. \A n \in Nat : n \in S => n + 1 \in S
    BY <1>2
  <2> HIDE DEF S
  <2> QED
    BY <2>1, <2>2, NatSetInduction
<1> QED
  BY <1>3 DEF Has

\* The last of the first n places.
LEMMA PrefixPlaces ==
    ASSUME NEW m \in Nat, NEW n \in 1 .. m
    PROVE  /\ 1 .. n \in SUBSET (1 .. m) /\ 1 .. n - 1 \in SUBSET (1 .. m)
           /\ 1 .. n # {} /\ Max(1 .. n) = n /\ (1 .. n) \ {n} = 1 .. n - 1
<1>1. n - 1 \in Nat /\ (n - 1) + 1 = n /\ n \in 1 .. n
  OBVIOUS
<1>2. 1 .. n \in SUBSET (1 .. (n - 1) + 1)
  BY <1>1
<1>3. Max(1 .. n) = n
  BY <1>1, <1>2, MaxOfPrefix
<1> QED
  BY <1>1, <1>3

-----------------------------------------------------------------------------
(* The loop over the rows, and their total length. *)

RowSeq == Seq(Nat \ {0})
NoText == [size |-> 0, cut |-> FALSE]
Text   == [size: Nat, cut: BOOLEAN]

\* The loop appends the rows one by one.
LEMMA ClipFold ==
    ASSUME NEW rows \in RowSeq
    PROVE  \E out : /\ out[0] = NoText
                    /\ \A n \in 1 .. Len(rows) :
                          out[n] = AppendRow(out[n - 1], rows[n])
                    /\ out[Len(rows)] = FoldLeft(AppendRow, NoText, rows)
<1> DEFINE m == Len(rows)
           step == [p \in Text \X (Nat \ {0}) |-> AppendRow(p[1], p[2])]
           Loop(f) == [s \in SUBSET DOMAIN rows |->
                         IF s = {} THEN NoText
                         ELSE LET x == Max(s)
                              IN  AppendRow(f[s \ {x}], rows[x])]
           val == CHOOSE f : f = Loop(f)
           out == [n \in 0 .. m |-> val[1 .. n]]
<1>1. DOMAIN rows = 1 .. m /\ m \in Nat /\ rows \in Seq(Nat \ {0})
  BY DEF RowSeq
<1>2. \E f : f = Loop(f)
  <2>1. NoText \in Text
    BY DEF NoText, Text
  <2>2. ASSUME NEW text \in Text, NEW row \in Nat \ {0}
        PROVE  AppendRow(text, row) \in Text
    BY <2>2, ToolsAssumption DEF AppendRow, Text
  <2>3. step \in [Text \X (Nat \ {0}) -> Text]
    BY <2>2
  <2>4. PICK f \in [SUBSET DOMAIN rows -> Text] :
           FoldsTo(f, NoText, step, rows, m)
    BY <1>1, <2>1, <2>3, FoldExists
  <2>5. ASSUME NEW s \in SUBSET DOMAIN rows, s # {}
        PROVE  f[s] = AppendRow(f[s \ {Max(s)}], rows[Max(s)])
    <3>1. Max(s) \in s
      BY <1>1, <2>5, MaxOfPlaces
    <3>2. rows[Max(s)] \in Nat \ {0} /\ f[s \ {Max(s)}] \in Text
      BY <1>1, <3>1
    <3>3. f[s] = step[<<f[s \ {Max(s)}], rows[Max(s)]>>]
      BY <1>1, <2>4, <2>5 DEF FoldsTo
    <3> QED
      BY <3>2, <3>3
  <2>6. f[{}] = NoText
    BY <1>1, <2>4 DEF FoldsTo
  <2>7. f = Loop(f)
    BY <2>5, <2>6
  <2> QED
    BY <2>7
<1>3. val = Loop(val)
  BY <1>2
<1>4. val[DOMAIN rows] = FoldLeft(AppendRow, NoText, rows)
  BY DEF FoldLeft, MapThenFoldSet
<1> HIDE DEF val
<1>5. out[0] = NoText
  <2>1. 1 .. 0 = {} /\ 0 \in 0 .. m
    BY <1>1
  <2> QED
    BY <1>3, <2>1
<1>6. ASSUME NEW n \in 1 .. m
      PROVE  out[n] = AppendRow(out[n - 1], rows[n])
  <2>1. n \in 0 .. m /\ n - 1 \in 0 .. m
    BY <1>1
  <2>2. val[1 .. n] = AppendRow(val[1 .. n - 1], rows[n])
    <3> DEFINE s == 1 .. n
    <3>1. /\ s \in SUBSET DOMAIN rows /\ s # {}
          /\ Max(s) = n /\ s \ {n} = 1 .. n - 1
      BY <1>1, PrefixPlaces
    <3> HIDE DEF s
    <3>2. val[s] = AppendRow(val[s \ {Max(s)}], rows[Max(s)])
      BY <1>3, <3>1
    <3> QED
      BY <3>1, <3>2 DEF s
  <2> QED
    BY <2>1, <2>2
<1>7. out[m] = val[DOMAIN rows]
  BY <1>1
<1> HIDE DEF out
<1> QED
  BY <1>4, <1>5, <1>6, <1>7

\* sum[n] is the length of the first n rows.
Sums(sum, rows) ==
    /\ sum \in [0 .. Len(rows) -> Nat]
    /\ sum[0] = 0
    /\ \A n \in 1 .. Len(rows) : sum[n] = sum[n - 1] + rows[n]

\* Sums that are a function of the places are numbers.
LEMMA SumsType ==
    ASSUME NEW rows \in RowSeq, NEW sum, DOMAIN sum = 0 .. Len(rows),
           sum = [n \in DOMAIN sum |-> sum[n]], sum[0] = 0,
           \A n \in 1 .. Len(rows) : sum[n] = sum[n - 1] + rows[n]
    PROVE  Sums(sum, rows)
<1> DEFINE S == {n \in Nat : n <= Len(rows) => sum[n] \in Nat}
<1>1. 0 \in S
  OBVIOUS
<1>2. ASSUME NEW n \in Nat, n \in S
      PROVE  n + 1 \in S
  <2>1. CASE n + 1 <= Len(rows)
    <3>1. n + 1 \in 1 .. Len(rows) /\ (n + 1) - 1 = n /\ sum[n] \in Nat
      BY <1>2, <2>1 DEF RowSeq
    <3>2. sum[n + 1] = sum[n] + rows[n + 1] /\ rows[n + 1] \in Nat
      BY <3>1 DEF RowSeq
    <3> QED
      BY <3>1, <3>2
  <2>2. CASE ~(n + 1 <= Len(rows))
    BY <2>2
  <2> QED
    BY <2>1, <2>2
<1>3. Nat \subseteq S
  <2>1. \A n \in Nat : n \in S => n + 1 \in S
    BY <1>2
  <2> HIDE DEF S
  <2> QED
    BY <1>1, <2>1, NatSetInduction
<1>4. \A n \in 0 .. Len(rows) : sum[n] \in Nat
  BY <1>3 DEF RowSeq
<1> QED
  BY <1>4 DEF Sums

\* FoldLeft adds the rows up.
LEMMA SumFold ==
    ASSUME NEW rows \in RowSeq
    PROVE  \E sum : Sums(sum, rows) /\ FoldLeft(+, 0, rows) = sum[Len(rows)]
<1> DEFINE m == Len(rows)
           step == [p \in Nat \X (Nat \ {0}) |-> p[1] + p[2]]
           Loop(f) == [s \in SUBSET DOMAIN rows |->
                         IF s = {} THEN 0
                         ELSE LET x == Max(s) IN f[s \ {x}] + rows[x]]
           val == CHOOSE f : f = Loop(f)
           sum == [n \in 0 .. m |-> val[1 .. n]]
<1>1. DOMAIN rows = 1 .. m /\ m \in Nat /\ rows \in Seq(Nat \ {0})
  BY DEF RowSeq
<1>2. \E f : f = Loop(f)
  <2>3. step \in [Nat \X (Nat \ {0}) -> Nat]
    OBVIOUS
  <2>4. PICK f \in [SUBSET DOMAIN rows -> Nat] : FoldsTo(f, 0, step, rows, m)
    BY <1>1, <2>3, FoldExists
  <2>5. ASSUME NEW s \in SUBSET DOMAIN rows, s # {}
        PROVE  f[s] = f[s \ {Max(s)}] + rows[Max(s)]
    <3>1. Max(s) \in s
      BY <1>1, <2>5, MaxOfPlaces
    <3>2. rows[Max(s)] \in Nat \ {0} /\ f[s \ {Max(s)}] \in Nat
      BY <1>1, <3>1
    <3>3. f[s] = step[<<f[s \ {Max(s)}], rows[Max(s)]>>]
      BY <1>1, <2>4, <2>5 DEF FoldsTo
    <3> QED
      BY <3>2, <3>3
  <2>6. f[{}] = 0
    BY <1>1, <2>4 DEF FoldsTo
  <2>7. f = Loop(f)
    BY <2>5, <2>6
  <2> QED
    BY <2>7
<1>3. val = Loop(val)
  BY <1>2
<1>4. val[DOMAIN rows] = FoldLeft(+, 0, rows)
  BY DEF FoldLeft, MapThenFoldSet
<1> HIDE DEF val
<1>5. sum[0] = 0
  <2>1. 1 .. 0 = {} /\ 0 \in 0 .. m
    BY <1>1
  <2> QED
    BY <1>3, <2>1
<1>6. ASSUME NEW n \in 1 .. m
      PROVE  sum[n] = sum[n - 1] + rows[n]
  <2>1. n \in 0 .. m /\ n - 1 \in 0 .. m
    BY <1>1
  <2>2. val[1 .. n] = val[1 .. n - 1] + rows[n]
    <3> DEFINE s == 1 .. n
    <3>1. /\ s \in SUBSET DOMAIN rows /\ s # {}
          /\ Max(s) = n /\ s \ {n} = 1 .. n - 1
      BY <1>1, PrefixPlaces
    <3> HIDE DEF s
    <3>2. val[s] = val[s \ {Max(s)}] + rows[Max(s)]
      BY <1>3, <3>1
    <3> QED
      BY <3>1, <3>2 DEF s
  <2> QED
    BY <2>1, <2>2
<1>7. sum[m] = val[DOMAIN rows]
  BY <1>1
<1>8. DOMAIN sum = 0 .. m /\ sum = [n \in DOMAIN sum |-> sum[n]]
  OBVIOUS
<1> HIDE DEF sum
<1>9. Sums(sum, rows)
  BY <1>5, <1>6, <1>8, SumsType
<1> QED
  BY <1>4, <1>7, <1>9

\* One row more.
LEMMA SumsStep ==
    ASSUME NEW rows \in RowSeq, NEW sum, Sums(sum, rows),
           NEW n \in Nat, n + 1 <= Len(rows)
    PROVE  /\ sum[n] \in Nat /\ rows[n + 1] \in Nat \ {0}
           /\ sum[n + 1] = sum[n] + rows[n + 1]
<1>1. n + 1 \in 1 .. Len(rows) /\ (n + 1) - 1 = n /\ n \in 0 .. Len(rows)
  BY DEF RowSeq
<1>2. sum[n + 1] = sum[(n + 1) - 1] + rows[n + 1]
  BY <1>1 DEF Sums
<1>3. sum[n] \in Nat
  BY <1>1 DEF Sums
<1>4. rows[n + 1] \in Nat \ {0}
  BY <1>1 DEF RowSeq
<1> QED
  BY <1>1, <1>2, <1>3, <1>4

\* Each row has a length, so longer prefixes are longer texts.
LEMMA SumsGrow ==
    ASSUME NEW rows \in RowSeq, NEW sum, Sums(sum, rows),
           NEW i \in 0 .. Len(rows), NEW j \in i .. Len(rows)
    PROVE  sum[i] + (j - i) <= sum[j]
<1> DEFINE S == {d \in Nat : i + d <= Len(rows) => sum[i] + d <= sum[i + d]}
<1>1. 0 \in S
  BY DEF Sums
<1>2. ASSUME NEW d \in Nat, d \in S
      PROVE  d + 1 \in S
  <2>1. CASE i + (d + 1) <= Len(rows)
    <3>1. i + d \in Nat /\ (i + d) + 1 <= Len(rows)
      BY <2>1
    <3>2. /\ sum[i + d + 1] = sum[i + d] + rows[i + d + 1]
          /\ rows[i + d + 1] \in Nat \ {0}
          /\ sum[i] \in Nat /\ sum[i + d] \in Nat
      BY <3>1, SumsStep DEF Sums
    <3>3. sum[i] + d <= sum[i + d]
      BY <1>2, <3>1 DEF RowSeq
    <3>4. sum[i] + (d + 1) <= sum[i + d + 1]
      BY <3>2, <3>3
    <3>5. i + d + 1 = i + (d + 1)
      OBVIOUS
    <3>6. sum[i] + (d + 1) <= sum[i + (d + 1)]
      BY <3>4, <3>5
    <3> QED
      BY <3>6
  <2>2. CASE ~(i + (d + 1) <= Len(rows))
    BY <2>2
  <2> QED
    BY <2>1, <2>2
<1>3. Nat \subseteq S
  <2>1. \A d \in Nat : d \in S => d + 1 \in S
    BY <1>2
  <2> HIDE DEF S
  <2> QED
    BY <1>1, <2>1, NatSetInduction
<1>4. j - i \in S /\ i + (j - i) = j /\ j <= Len(rows)
  BY <1>3 DEF RowSeq
<1> QED
  BY <1>4

-----------------------------------------------------------------------------
(* The answer is what the loop is meant to keep. *)

\* The length of the first n rows joined by newlines.
JoinedLength(sum, n) == IF n = 0 THEN 0 ELSE sum[n] + n - 1

\* Whole is the length of the rows joined by newlines, ...
LEMMA WholeJoined ==
    ASSUME NEW rows \in RowSeq, NEW sum, Sums(sum, rows)
    PROVE  Whole(rows) = JoinedLength(sum, Len(rows))
<1>1. PICK other : Sums(other, rows) /\ FoldLeft(+, 0, rows) = other[Len(rows)]
  BY SumFold
<1> DEFINE S == {n \in Nat : n <= Len(rows) => other[n] = sum[n]}
<1>2. 0 \in S
  BY <1>1 DEF Sums
<1>3. ASSUME NEW n \in Nat, n \in S
      PROVE  n + 1 \in S
  <2>1. CASE n + 1 <= Len(rows)
    <3>1. other[n] = sum[n]
      BY <1>3, <2>1 DEF RowSeq
    <3>2. other[n + 1] = other[n] + rows[n + 1]
      BY <1>1, <2>1, SumsStep
    <3>3. sum[n + 1] = sum[n] + rows[n + 1]
      BY <2>1, SumsStep
    <3>4. other[n + 1] = sum[n + 1]
      BY <3>1, <3>2, <3>3
    <3> QED
      BY <3>4
  <2>2. CASE ~(n + 1 <= Len(rows))
    BY <2>2
  <2> QED
    BY <2>1, <2>2
<1>4. Nat \subseteq S
  <2>1. \A n \in Nat : n \in S => n + 1 \in S
    BY <1>3
  <2> HIDE DEF S
  <2> QED
    BY <1>2, <2>1, NatSetInduction
<1>5. other[Len(rows)] = sum[Len(rows)] /\ (rows = <<>> <=> Len(rows) = 0)
  BY <1>4 DEF RowSeq
<1> QED
  BY <1>1, <1>5 DEF Whole, JoinedLength

\* ... of each prefix too.
LEMMA WholePrefix ==
    ASSUME NEW rows \in RowSeq, NEW sum, Sums(sum, rows),
           NEW n \in 0 .. Len(rows)
    PROVE  Whole(SubSeq(rows, 1, n)) = JoinedLength(sum, n)
<1> DEFINE first == SubSeq(rows, 1, n)
           part  == [i \in 0 .. n |-> sum[i]]
<1>1. /\ first \in RowSeq /\ Len(first) = n
      /\ \A i \in 1 .. n : first[i] = rows[i] /\ i \in 1 .. Len(rows)
      /\ \A i \in 0 .. n : i \in 0 .. Len(rows)
  BY DEF RowSeq
<1>2. Sums(part, first)
  <2>1. part \in [0 .. n -> Nat] /\ part[0] = 0
    <3>1. \A i \in 0 .. n : sum[i] \in Nat
      BY <1>1 DEF Sums
    <3>2. 0 \in 0 .. n /\ sum[0] = 0
      BY DEF Sums, RowSeq
    <3> QED
      BY <3>1, <3>2
  <2>2. ASSUME NEW i \in 1 .. n
        PROVE  part[i] = part[i - 1] + first[i]
    <3>1. i \in 0 .. n /\ i - 1 \in 0 .. n
      BY <1>1 DEF RowSeq
    <3> QED
      BY <1>1, <3>1 DEF Sums
  <2> HIDE DEF part, first
  <2> QED
    BY <1>1, <2>1, <2>2 DEF Sums
<1>3. n \in 0 .. n /\ part[n] = sum[n]
  BY DEF RowSeq
<1> HIDE DEF first, part
<1>4. Whole(first) = JoinedLength(part, n)
  BY <1>1, <1>2, WholeJoined
<1> QED
  BY <1>3, <1>4 DEF JoinedLength, first

\* After n rows the text is whole, or it was cut at the first row that did not
\* fit.
LEMMA LoopText ==
    ASSUME NEW rows \in RowSeq, NEW sum, Sums(sum, rows), NEW out,
           out[0] = NoText,
           \A n \in 1 .. Len(rows) : out[n] = AppendRow(out[n - 1], rows[n]),
           NEW m \in 0 .. Len(rows)
    PROVE  \/ /\ out[m] = [size |-> sum[m] + m, cut |-> FALSE]
              /\ JoinedLength(sum, m) <= Limit
           \/ \E fit \in 0 .. m - 1 :
                 /\ out[m] = [size |-> sum[fit] + fit + Marker, cut |-> TRUE]
                 /\ JoinedLength(sum, fit) <= Limit
                 /\ JoinedLength(sum, fit + 1) > Limit
<1> USE ToolsAssumption
<1> DEFINE Fits(n) == /\ out[n] = [size |-> sum[n] + n, cut |-> FALSE]
                      /\ JoinedLength(sum, n) <= Limit
           CutAt(n) == \E fit \in 0 .. n - 1 :
                 /\ out[n] = [size |-> sum[fit] + fit + Marker, cut |-> TRUE]
                 /\ JoinedLength(sum, fit) <= Limit
                 /\ JoinedLength(sum, fit + 1) > Limit
           S == {n \in Nat : n <= Len(rows) => Fits(n) \/ CutAt(n)}
<1>1. Fits(0)
  BY DEF Sums, JoinedLength, NoText
<1>2. ASSUME NEW n \in Nat, n + 1 <= Len(rows), Fits(n) \/ CutAt(n)
      PROVE  Fits(n + 1) \/ CutAt(n + 1)
  <2>1. n + 1 \in 1 .. Len(rows) /\ (n + 1) - 1 = n /\ n \in 0 .. Len(rows)
    BY <1>2 DEF RowSeq
  <2>2. /\ sum[n] \in Nat /\ rows[n + 1] \in Nat /\ sum[n + 1] \in Nat
        /\ sum[n + 1] = sum[n] + rows[n + 1]
    BY <1>2, SumsStep
  <2>3. out[n + 1] = AppendRow(out[n], rows[n + 1])
    BY <2>1
  <2>4. JoinedLength(sum, n + 1) = sum[n] + n + rows[n + 1]
    BY <2>2 DEF JoinedLength
  <2>5. CASE Fits(n) /\ sum[n] + n + rows[n + 1] > Limit
    <3>1. out[n + 1] = [size |-> sum[n] + n + Marker, cut |-> TRUE]
      BY <2>2, <2>3, <2>5 DEF AppendRow
    <3>2. n \in 0 .. (n + 1) - 1
      OBVIOUS
    <3> QED
      BY <2>4, <2>5, <3>1, <3>2
  <2>6. CASE Fits(n) /\ ~(sum[n] + n + rows[n + 1] > Limit)
    <3>1. out[n + 1] = [size |-> sum[n] + n + rows[n + 1] + 1, cut |-> FALSE]
      BY <2>2, <2>3, <2>6 DEF AppendRow
    <3>2. sum[n + 1] + (n + 1) = sum[n] + n + rows[n + 1] + 1
      <4>1. ASSUME NEW a, NEW b, NEW c, a = sum[n], b = rows[n + 1],
                   c = sum[n + 1]
            PROVE  c + (n + 1) = a + n + b + 1
        <5>1. a \in Nat /\ b \in Nat /\ c = a + b
          BY <2>2, <4>1
        <5> QED
          BY <5>1
      <4> QED
        BY <4>1
    <3>3. JoinedLength(sum, n + 1) <= Limit
      BY <2>2, <2>4, <2>6
    <3> QED
      BY <3>1, <3>2, <3>3
  <2>7. CASE CutAt(n)
    <3>1. PICK fit \in 0 .. n - 1 :
             /\ out[n] = [size |-> sum[fit] + fit + Marker, cut |-> TRUE]
             /\ JoinedLength(sum, fit) <= Limit
             /\ JoinedLength(sum, fit + 1) > Limit
      BY <2>7
    <3>2. out[n + 1] = out[n]
      BY <2>3, <3>1 DEF AppendRow
    <3>3. fit \in 0 .. (n + 1) - 1
      OBVIOUS
    <3> QED
      BY <3>1, <3>2, <3>3
  <2> QED
    BY <1>2, <2>5, <2>6, <2>7
<1> HIDE DEF Fits, CutAt
<1>3. Nat \subseteq S
  <2>1. 0 \in S
    BY <1>1
  <2>2. \A n \in Nat : n \in S => n + 1 \in S
    BY <1>2 DEF RowSeq
  <2> HIDE DEF S
  <2> QED
    BY <2>1, <2>2, NatSetInduction
<1>4. Fits(m) \/ CutAt(m)
  BY <1>3 DEF RowSeq
<1> QED
  BY <1>4 DEF Fits, CutAt

\* Only one prefix is the longest that fits.
LEMMA OneFit ==
    ASSUME NEW rows \in RowSeq, NEW sum, Sums(sum, rows),
           NEW m \in 0 .. Len(rows), NEW n \in 0 .. Len(rows),
           JoinedLength(sum, m) <= Limit,
           m = Len(rows) \/ JoinedLength(sum, m + 1) > Limit,
           JoinedLength(sum, n) <= Limit,
           n = Len(rows) \/ JoinedLength(sum, n + 1) > Limit
    PROVE  m = n
<1> USE ToolsAssumption
<1>1. ASSUME NEW i \in 0 .. Len(rows), NEW j \in 0 .. Len(rows), i < j,
             JoinedLength(sum, j) <= Limit
      PROVE  JoinedLength(sum, i + 1) <= Limit
  <2>1. i + 1 \in 0 .. Len(rows) /\ j \in i + 1 .. Len(rows)
    BY <1>1 DEF RowSeq
  <2>2. sum[i + 1] + (j - (i + 1)) <= sum[j]
    BY <2>1, SumsGrow
  <2>3. sum[i + 1] \in Nat /\ sum[j] \in Nat
    BY <2>1 DEF Sums
  <2> QED
    BY <1>1, <2>2, <2>3 DEF JoinedLength
<1>2. ASSUME NEW i \in 0 .. Len(rows) - 1
      PROVE  JoinedLength(sum, i + 1) \in Int
  <2>1. i + 1 \in 0 .. Len(rows)
    BY DEF RowSeq
  <2>2. sum[i + 1] \in Nat
    BY <2>1 DEF Sums
  <2> QED
    BY <2>2 DEF JoinedLength
<1>3. ~(m < n)
  <2> SUFFICES ASSUME m < n PROVE FALSE
    OBVIOUS
  <2>1. m \in 0 .. Len(rows) - 1 /\ m # Len(rows)
    BY DEF RowSeq
  <2>2. JoinedLength(sum, m + 1) <= Limit
    BY <1>1
  <2>3. JoinedLength(sum, m + 1) \in Int /\ Limit \in Int
    BY <1>2, <2>1
  <2> QED
    BY <2>1, <2>2, <2>3
<1>4. ~(n < m)
  <2> SUFFICES ASSUME n < m PROVE FALSE
    OBVIOUS
  <2>1. n \in 0 .. Len(rows) - 1 /\ n # Len(rows)
    BY DEF RowSeq
  <2>2. JoinedLength(sum, n + 1) <= Limit
    BY <1>1
  <2>3. JoinedLength(sum, n + 1) \in Int /\ Limit \in Int
    BY <1>2, <2>1
  <2> QED
    BY <2>1, <2>2, <2>3
<1> QED
  BY <1>3, <1>4 DEF RowSeq

\* Whatever the rows, the text is the longest run of first rows that fits,
\* with the marker exactly when rows are missing (tools.py:27-33).
THEOREM ClipIsReference ==
    ASSUME NEW rows \in RowSeq
    PROVE  Clip(rows) = ClipReference(rows) /\ Clip(rows) \in 0 .. TextBound
<1> USE ToolsAssumption
<1> DEFINE len == Len(rows)
           text == FoldLeft(AppendRow, NoText, rows)
           IsFit(n) == /\ Whole(SubSeq(rows, 1, n)) <= Limit
                       /\ n = len \/ Whole(SubSeq(rows, 1, n + 1)) > Limit
           fit == CHOOSE n \in 0 .. len : IsFit(n)
<1>1. PICK sum : Sums(sum, rows)
  BY SumFold
<1>2. PICK out : /\ out[0] = NoText /\ out[len] = text
                 /\ \A n \in 1 .. len : out[n] = AppendRow(out[n - 1], rows[n])
  BY ClipFold
<1>3. len \in Nat /\ len \in 0 .. len
  BY DEF RowSeq
<1>4. \/ /\ text = [size |-> sum[len] + len, cut |-> FALSE]
         /\ JoinedLength(sum, len) <= Limit
      \/ \E n \in 0 .. len - 1 :
            /\ text = [size |-> sum[n] + n + Marker, cut |-> TRUE]
            /\ JoinedLength(sum, n) <= Limit
            /\ JoinedLength(sum, n + 1) > Limit
  BY <1>1, <1>2, <1>3, LoopText
<1>5. ASSUME NEW n \in 0 .. len
      PROVE  IsFit(n) <=> /\ JoinedLength(sum, n) <= Limit
                          /\ n = len \/ JoinedLength(sum, n + 1) > Limit
  <2>1. Whole(SubSeq(rows, 1, n)) = JoinedLength(sum, n)
    BY <1>1, WholePrefix
  <2>2. CASE n = len
    BY <2>1, <2>2
  <2>3. CASE n # len
    <3>1. n + 1 \in 0 .. len
      BY <1>3, <2>3
    <3>2. Whole(SubSeq(rows, 1, n + 1)) = JoinedLength(sum, n + 1)
      BY <1>1, <3>1, WholePrefix
    <3> QED
      BY <2>1, <2>3, <3>2
  <2> QED
    BY <2>2, <2>3
<1> HIDE DEF IsFit
<1>6. ASSUME NEW n \in 0 .. len, IsFit(n)
      PROVE  fit = n
  <2>1. fit \in 0 .. len /\ IsFit(fit)
    BY <1>6
  <2> HIDE DEF fit
  <2>2. /\ JoinedLength(sum, n) <= Limit
        /\ n = len \/ JoinedLength(sum, n + 1) > Limit
    BY <1>5, <1>6
  <2>3. /\ JoinedLength(sum, fit) <= Limit
        /\ fit = len \/ JoinedLength(sum, fit + 1) > Limit
    BY <1>5, <2>1
  <2> QED
    BY <1>1, <2>1, <2>2, <2>3, OneFit
<1>7. Clip(rows) = CASE text.size = 0 -> 0
                     [] text.cut /\ text.size > Marker -> text.size
                     [] OTHER -> text.size - 1
  BY DEF Clip, NoText
<1>8. ClipReference(rows) =
        IF fit = len THEN Whole(rows)
        ELSE IF fit = 0 THEN Marker - 1
        ELSE Whole(SubSeq(rows, 1, fit)) + 1 + Marker
  BY DEF ClipReference, IsFit
<1> HIDE DEF fit, text
<1>9. CASE /\ text = [size |-> sum[len] + len, cut |-> FALSE]
           /\ JoinedLength(sum, len) <= Limit
  <2>1. fit = len
    BY <1>3, <1>5, <1>6, <1>9
  <2>2. ClipReference(rows) = JoinedLength(sum, len)
    BY <1>1, <1>8, <2>1, WholeJoined
  <2>3. sum[len] \in Nat /\ sum[0] = 0
    BY <1>1, <1>3 DEF Sums
  <2>4. text.size = sum[len] + len /\ ~text.cut
    BY <1>9
  <2>5. Clip(rows) = JoinedLength(sum, len)
    BY <1>3, <1>7, <2>3, <2>4 DEF JoinedLength
  <2>6. JoinedLength(sum, len) \in Nat
    BY <1>3, <2>3 DEF JoinedLength
  <2> QED
    BY <1>9, <2>2, <2>5, <2>6 DEF TextBound
<1>10. ASSUME NEW n \in 0 .. len - 1,
              text = [size |-> sum[n] + n + Marker, cut |-> TRUE],
              JoinedLength(sum, n) <= Limit, JoinedLength(sum, n + 1) > Limit
       PROVE  Clip(rows) = ClipReference(rows) /\ Clip(rows) \in 0 .. TextBound
  <2>1. n \in 0 .. len /\ n # len /\ n \in Nat
    BY <1>3
  <2>2. fit = n
    BY <1>5, <1>6, <1>10, <2>1
  <2>3. sum[n] \in Nat /\ sum[0] = 0
    BY <1>1, <2>1 DEF Sums
  <2>4. text.size = sum[n] + n + Marker /\ text.cut
    BY <1>10
  <2>5. CASE n = 0
    <3>1. ClipReference(rows) = Marker - 1
      BY <1>8, <2>1, <2>2, <2>5
    <3>2. Clip(rows) = Marker - 1
      BY <1>7, <2>3, <2>4, <2>5
    <3> QED
      BY <3>1, <3>2 DEF TextBound
  <2>6. CASE n # 0
    <3>1. ClipReference(rows) = JoinedLength(sum, n) + 1 + Marker
      BY <1>1, <1>8, <2>1, <2>2, <2>6, WholePrefix
    <3>2. Clip(rows) = sum[n] + n + Marker
      BY <1>7, <2>1, <2>3, <2>4, <2>6
    <3>3. JoinedLength(sum, n) = sum[n] + n - 1
      BY <2>6 DEF JoinedLength
    <3> QED
      BY <1>10, <2>1, <2>3, <3>1, <3>2, <3>3 DEF TextBound
  <2> QED
    BY <2>5, <2>6
<1> QED
  BY <1>4, <1>9, <1>10

-----------------------------------------------------------------------------
(* The rows a FAQ lookup answers with. *)

\* FlattenSeq joins sequences of rows to one.
LEMMA FlattenRows ==
    ASSUME NEW seqs \in Seq(RowSeq)
    PROVE  FlattenSeq(seqs) \in RowSeq
<1> DEFINE len == Len(seqs)
           Join(f) == [i \in 1 .. len |->
                         IF i = 1 THEN seqs[i] ELSE f[i - 1] \o seqs[i]]
           flat == CHOOSE f : f = Join(f)
           Has(n) == \E f \in [1 .. n -> RowSeq] :
                       \A i \in 1 .. n :
                          f[i] = IF i = 1 THEN seqs[i] ELSE f[i - 1] \o seqs[i]
           S == {n \in Nat : n <= len => Has(n)}
<1>1. len \in Nat /\ \A i \in 1 .. len : seqs[i] \in RowSeq
  OBVIOUS
<1>2. \A a, b \in RowSeq : a \o b \in RowSeq
  BY DEF RowSeq
<1>3. Has(0)
  <2>1. [i \in 1 .. 0 |-> <<>>] \in [1 .. 0 -> RowSeq]
    OBVIOUS
  <2>2. \A i \in 1 .. 0 : FALSE
    OBVIOUS
  <2> QED
    BY <2>1, <2>2
<1>4. ASSUME NEW n \in Nat, n + 1 <= len, Has(n)
      PROVE  Has(n + 1)
  <2>1. PICK f \in [1 .. n -> RowSeq] :
           \A i \in 1 .. n :
              f[i] = IF i = 1 THEN seqs[i] ELSE f[i - 1] \o seqs[i]
    BY <1>4
  <2> DEFINE last == IF n = 0 THEN seqs[n + 1] ELSE f[n] \o seqs[n + 1]
             g == [i \in 1 .. n + 1 |-> IF i = n + 1 THEN last ELSE f[i]]
  <2>2. last \in RowSeq
    <3>1. seqs[n + 1] \in RowSeq
      BY <1>1, <1>4
    <3>2. n # 0 => f[n] \in RowSeq
      BY <2>1
    <3> QED
      BY <1>2, <3>1, <3>2
  <2>3. g \in [1 .. n + 1 -> RowSeq]
    <3> HIDE DEF last
    <3> QED
      BY <2>1, <2>2
  <2>4. ASSUME NEW i \in 1 .. n + 1
        PROVE  g[i] = IF i = 1 THEN seqs[i] ELSE g[i - 1] \o seqs[i]
    <3>1. CASE i = n + 1
      <4>1. g[i] = last /\ (n # 0 => g[i - 1] = f[n])
        <5> HIDE DEF last
        <5>1. (n + 1) - 1 = n /\ (n # 0 => n \in 1 .. n + 1 /\ n # n + 1)
          OBVIOUS
        <5> QED
          BY <3>1, <5>1
      <4> HIDE DEF g
      <4> QED
        BY <3>1, <4>1
    <3>2. CASE i # n + 1
      <4>1. /\ i \in 1 .. n /\ g[i] = f[i]
            /\ i # 1 => i - 1 \in 1 .. n + 1 /\ g[i - 1] = f[i - 1]
        <5> HIDE DEF last
        <5>1. i \in 1 .. n /\ (i # 1 => i - 1 \in 1 .. n + 1 /\ i - 1 # n + 1)
          BY <3>2
        <5> QED
          BY <3>2, <5>1
      <4> HIDE DEF g
      <4> QED
        BY <2>1, <4>1
    <3> QED
      BY <3>1, <3>2
  <2> HIDE DEF g
  <2> QED
    BY <2>3, <2>4
<1> HIDE DEF Has
<1>5. Nat \subseteq S
  <2>1. 0 \in S
    BY <1>3
  <2>2. \A n \in Nat : n \in S => n + 1 \in S
    BY <1>1, <1>4
  <2> HIDE DEF S
  <2> QED
    BY <2>1, <2>2, NatSetInduction
<1>6. \E f : f = Join(f)
  <2>1. Has(len)
    BY <1>1, <1>5
  <2>2. PICK f \in [1 .. len -> RowSeq] :
           \A i \in 1 .. len :
              f[i] = IF i = 1 THEN seqs[i] ELSE f[i - 1] \o seqs[i]
    BY <2>1 DEF Has
  <2>3. f = Join(f)
    BY <2>2
  <2> QED
    BY <2>3
<1>7. flat = Join(flat)
  BY <1>6
<1>8. CASE len = 0
  BY <1>8 DEF FlattenSeq, RowSeq
<1>9. CASE len # 0
  <2>1. FlattenSeq(seqs) = flat[len]
    BY <1>9 DEF FlattenSeq
  <2> DEFINE T == {n \in Nat : n + 1 <= len => flat[n + 1] \in RowSeq}
  <2> HIDE DEF flat
  <2>2. 0 \in T
    <3>1. 1 \in 1 .. len => flat[1] = seqs[1]
      BY <1>7
    <3> QED
      BY <1>1, <3>1
  <2>3. ASSUME NEW n \in Nat, n \in T
        PROVE  n + 1 \in T
    <3> SUFFICES ASSUME (n + 1) + 1 <= len PROVE flat[(n + 1) + 1] \in RowSeq
      OBVIOUS
    <3>1. /\ (n + 1) + 1 \in 1 .. len /\ n + 1 <= len /\ (n + 1) + 1 # 1
          /\ ((n + 1) + 1) - 1 = n + 1
      BY <1>1
    <3>2. ASSUME NEW i \in 1 .. len, i # 1
          PROVE  flat[i] = flat[i - 1] \o seqs[i]
      BY <1>7, <3>2
    <3>3. flat[(n + 1) + 1] = flat[n + 1] \o seqs[(n + 1) + 1]
      BY <3>1, <3>2
    <3>4. flat[n + 1] \in RowSeq /\ seqs[(n + 1) + 1] \in RowSeq
      BY <1>1, <2>3, <3>1
    <3> QED
      BY <1>2, <3>3, <3>4
  <2>4. Nat \subseteq T
    <3>1. \A n \in Nat : n \in T => n + 1 \in T
      BY <2>3
    <3> HIDE DEF T
    <3> QED
      BY <2>2, <3>1, NatSetInduction
  <2>5. len - 1 \in T /\ (len - 1) + 1 = len /\ len <= len
    BY <1>1, <1>9, <2>4
  <2> QED
    BY <2>1, <2>5
<1> QED
  BY <1>8, <1>9

\* With the documents the FAQ rows refer to they are rows still.
LEMMA WithDocsRows ==
    ASSUME NEW faqs \in Results, NEW rows \in WithDocs(faqs)
    PROVE  rows \in RowSeq
<1>1. PICK docs \in [DOMAIN faqs -> Docs] :
         rows = FlattenSeq([i \in DOMAIN faqs |-> <<faqs[i]>> \o docs[i]])
  BY DEF WithDocs
<1>2. faqs \in Seq(Nat \ {0}) /\ DOMAIN faqs = 1 .. Len(faqs)
  BY ToolsAssumption
<1>3. ASSUME NEW i \in DOMAIN faqs
      PROVE  <<faqs[i]>> \o docs[i] \in RowSeq
  <2>1. faqs[i] \in Nat \ {0}
    BY <1>2
  <2>2. docs[i] \in Seq(Nat \ {0})
    BY ToolsAssumption
  <2> QED
    BY <2>1, <2>2 DEF RowSeq
<1>4. [i \in DOMAIN faqs |-> <<faqs[i]>> \o docs[i]] \in Seq(RowSeq)
  <2>1. [i \in 1 .. Len(faqs) |-> <<faqs[i]>> \o docs[i]]
           \in [1 .. Len(faqs) -> RowSeq]
    BY <1>2, <1>3
  <2>2. Len(faqs) \in Nat
    BY <1>2
  <2> QED
    BY <1>2, <2>1, <2>2
<1> QED
  BY <1>1, <1>4, FlattenRows

-----------------------------------------------------------------------------
(* The text of every outcome. *)

\* A task that goes on has no text yet, and only the handler of the catalog
\* lookup answers with more than a clipped text.
LEMMA OutcomeText ==
    ASSUME NEW k \in Task, k.text = 0, NEW r \in CallOutcomes(k)
    PROVE  /\ r.pc \notin {"answered", "raised"} => r.text = 0
           /\ k.pc # "last" => r.text \in 0 .. TextBound
<1> USE ToolsAssumption
<1>1. 0 \in 0 .. TextBound /\ Message \in 0 .. TextBound
  BY DEF TextBound
<1>2. ASSUME r = Raises(k) \/ \E pc : r = Goes(k, pc)
      PROVE  r.text = 0
  BY <1>2 DEF Raises, Goes, Task
<1>3. ASSUME NEW text, r = Returns(k, text)
      PROVE  r.text = text /\ r.pc = "answered"
  BY <1>3 DEF Returns, Task
<1>4. ASSUME r = FailedAttempt(k)
      PROVE  \/ r.text = Message /\ r.pc = "answered"
             \/ r.text = 0
  BY <1>4 DEF FailedAttempt, Returns, Task
<1>5. \A rows \in RowSeq : Clip(rows) \in 0 .. TextBound
  BY ClipIsReference
<1>6. \A rows \in Results : rows \in RowSeq
  BY DEF RowSeq
<1>7. CASE k.pc = "faq"
  <2>1. \/ r = Raises(k)
        \/ \E faqs \in Results : \E rows \in WithDocs(faqs) :
              r = Returns(k, Clip(rows))
    BY <1>7 DEF CallOutcomes, Faq
  <2>2. ASSUME NEW faqs \in Results, NEW rows \in WithDocs(faqs)
        PROVE  Clip(rows) \in 0 .. TextBound
    BY <1>5, WithDocsRows
  <2> QED
    BY <1>1, <1>2, <1>3, <2>1, <2>2
<1>8. CASE k.pc = "filter"
  BY <1>1, <1>2, <1>8 DEF CallOutcomes, Filter
<1>9. CASE k.pc = "hybrid"
  <2>1. \/ r = Returns(k, 0) \/ \E pc : r = Goes(k, pc)
        \/ \E rows \in Results : r = Returns(k, Clip(rows))
    BY <1>9 DEF CallOutcomes, Hybrid
  <2> QED
    BY <1>1, <1>2, <1>3, <1>5, <1>6, <2>1
<1>10. CASE k.pc = "semantic"
  <2>1. \/ r = Goes(k, "last")
        \/ \E rows \in Results : r = Returns(k, Clip(rows))
    BY <1>10 DEF CallOutcomes, Semantic, Rows
  <2> QED
    BY <1>1, <1>2, <1>3, <1>5, <1>6, <2>1
<1>11. CASE k.pc = "last"
  <2>1. \E text : r = Returns(k, text)
    BY <1>11 DEF CallOutcomes, Fallback
  <2> QED
    BY <1>3, <1>11, <2>1
<1>12. CASE k.pc = "sql"
  <2>1. r = FailedAttempt(k) \/ r = Goes(k, "run")
    BY <1>12 DEF CallOutcomes, Sql
  <2> QED
    BY <1>1, <1>2, <1>4, <2>1
<1>13. CASE k.pc = "run"
  <2>1. \/ r = FailedAttempt(k)
        \/ \E rows \in Results :
              r = Returns(k, IF rows = <<>> THEN Message ELSE Clip(rows))
    BY <1>13 DEF CallOutcomes, Run
  <2>2. ASSUME NEW rows \in Results
        PROVE  (IF rows = <<>> THEN Message ELSE Clip(rows)) \in 0 .. TextBound
    BY <1>1, <1>5, <1>6
  <2> QED
    BY <1>1, <1>3, <1>4, <2>1, <2>2
<1>14. CASE k.pc = "tickets"
  <2>1. \/ r = Raises(k)
        \/ \E rows \in Results : r = Returns(k, Clip(rows))
    BY <1>14 DEF CallOutcomes, Tickets
  <2> QED
    BY <1>1, <1>2, <1>3, <1>5, <1>6, <2>1
<1>15. k.pc \in {"faq", "filter", "hybrid", "semantic", "last", "sql", "run",
                 "tickets"}
  BY DEF CallOutcomes
<1> QED
  BY <1>7, <1>8, <1>9, <1>10, <1>11, <1>12, <1>13, <1>14, <1>15

-----------------------------------------------------------------------------
(* The composition implements the graph. *)

\* What the event loop and the threads do is, for the graph, a step of its own
\* or no step at all.
LEMMA StepIsGraphStep ==
    ASSUME [Next]_vars
    PROVE  [GraphNext]_graphVars
<1>1. CASE Begins
  BY <1>1 DEF Begins, GraphNext
<1>2. CASE Routes
  BY <1>2 DEF Routes, GraphNext, GraphStep
<1>3. CASE Synthesizes
  BY <1>3 DEF Synthesizes, GraphNext, GraphStep
<1>4. CASE Cancelled
  BY <1>4 DEF Cancelled, GraphNext
<1>5. ASSUME NEW w \in Intents, Arrives(w) \/ Fails(w)
      PROVE  [GraphNext]_graphVars
  BY <1>5 DEF Arrives, Fails, GraphNext, GraphStep
<1>6. ASSUME NEW t \in Threads, \/ Takes(t) \/ Connects(t) \/ SeesModel(t)
                                \/ Locks(t) \/ Loads(t) \/ Calls(t)
      PROVE  [GraphNext]_graphVars
  BY <1>6 DEF Takes, Connects, SeesModel, Locks, Loads, Calls
<1>7. CASE UNCHANGED vars
  BY <1>7 DEF vars
<1> QED
  BY <1>1, <1>2, <1>3, <1>4, <1>5, <1>6, <1>7 DEF Next

\* Threads, queue, locks and failing tools do not let a run do anything that
\* module AgentGraph does not allow.
THEOREM ImplementsGraph == Spec => GraphSpec
<1>1. Init => GraphInit
  BY DEF Init
<1> QED
  BY <1>1, StepIsGraphStep, PTL DEF Spec, GraphSpec

-----------------------------------------------------------------------------
(* Tasks. *)

\* A tool starts as a well-formed task ...
LEMMA NewTaskType ==
    ASSUME NEW n \in Nat, NEW w \in Tools
    PROVE  /\ NewTask(n, w) \in Task
           /\ NewTask(n, w).turn = n /\ NewTask(n, w).tool = w
           /\ NewTask(n, w).try = 1 /\ NewTask(n, w).pc = "client"
BY DEF NewTask, Task, Pcs

\* ... and Resting is one that has finished.
LEMMA RestingType ==
    /\ Resting \in Task /\ Finished(Resting)
    /\ Resting.turn = 0 /\ Resting.try = 1 /\ Resting.pc = "answered"
BY NewTaskType DEF Resting, Task, Pcs, Tools, Finished


\* The ways on: with an answer, ...
LEMMA ReturnsMoves ==
    ASSUME NEW k \in Task, NEW text, NEW r, r = Returns(k, text)
    PROVE  r.turn = k.turn /\ r.tool = k.tool /\ r.pc = "answered" /\ r.try = 1
BY DEF Returns, Task

\* ... with an exception, ...
LEMMA RaisesMoves ==
    ASSUME NEW k \in Task, NEW r, r = Raises(k)
    PROVE  r.turn = k.turn /\ r.tool = k.tool /\ r.pc = "raised" /\ r.try = 1
BY DEF Raises, Task

\* ... with another call, ...
LEMMA GoesMoves ==
    ASSUME NEW k \in Task, NEW pc \in Pcs, NEW r, r = Goes(k, pc)
    PROVE  /\ r \in Task
           /\ r.turn = k.turn /\ r.tool = k.tool /\ r.pc = pc /\ r.try = k.try
BY DEF Goes, Task

\* ... or with another attempt.
LEMMA RetryMoves ==
    ASSUME NEW k \in Task, NEW r, r = [k EXCEPT !.pc = "sql", !.try = @ + 1]
    PROVE  /\ r \in Task /\ r.turn = k.turn /\ r.tool = k.tool
           /\ r.pc = "sql" /\ r.try = k.try + 1
<1>1. "sql" \in Pcs /\ k.try + 1 \in Nat
  BY DEF Pcs, Task
<1> QED
  BY <1>1 DEF Task

\* How one step takes task k on to task r: the same tool of the same turn,
\* within the allowed attempts, and well-formed unless it has finished.
Follows(k, r) ==
    /\ r.turn = k.turn /\ r.tool = k.tool
    /\ r.pc \in Pcs \ {"client", "lock", "load"}
    /\ r.try \in 1 .. SqlAttempts
    /\ ~Finished(r) => r \in Task
    /\ r.pc = "raised" => k.pc \in {"client", "load", "faq", "filter", "tickets"}

\* A failed attempt at the query is followed by another or by the apology.
LEMMA FailedAttemptFollows ==
    ASSUME NEW k \in Task, k.try \in 1 .. SqlAttempts
    PROVE  Follows(k, FailedAttempt(k))
<1> USE ToolsAssumption
<1>1. "sql" \in Pcs /\ "answered" \in Pcs /\ 1 \in 1 .. SqlAttempts
  BY DEF Pcs
<1>2. CASE k.try = SqlAttempts
  <2>1. FailedAttempt(k) = Returns(k, Message)
    BY <1>2 DEF FailedAttempt
  <2> QED
    BY <1>1, <2>1, ReturnsMoves DEF Follows, Finished
<1>3. CASE k.try # SqlAttempts
  <2>1. FailedAttempt(k) = [k EXCEPT !.pc = "sql", !.try = @ + 1]
    BY <1>3 DEF FailedAttempt
  <2>2. k.try + 1 \in 1 .. SqlAttempts
    BY <1>3
  <2> QED
    BY <1>1, <2>1, <2>2, RetryMoves DEF Follows, Finished
<1> QED
  BY <1>2, <1>3

\* Every outcome of a blocking call follows, and it is a failure only after
\* the FAQ lookup, the choice of a category or the ticket lookup.
LEMMA CallFollows ==
    ASSUME NEW k \in Task, k.try \in 1 .. SqlAttempts,
           NEW r \in CallOutcomes(k)
    PROVE  /\ Follows(k, r)
           /\ r.pc = "raised" => k.pc \in {"faq", "filter", "tickets"}
<1> USE ToolsAssumption
<1>1. /\ {"answered", "raised", "embed", "semantic", "last", "run"} \subseteq Pcs
      /\ 1 \in 1 .. SqlAttempts
  BY DEF Pcs
<1>2. ASSUME NEW text, r = Returns(k, text)
      PROVE  Follows(k, r) /\ r.pc # "raised"
  BY <1>1, <1>2, ReturnsMoves DEF Follows, Finished
<1>3. ASSUME r = Raises(k), k.pc \in {"faq", "filter", "tickets"}
      PROVE  Follows(k, r)
  <2>1. r.turn = k.turn /\ r.tool = k.tool /\ r.pc = "raised" /\ r.try = 1
    BY <1>3, RaisesMoves
  <2> QED
    BY <1>1, <1>3, <2>1 DEF Follows, Finished
<1>4. ASSUME NEW pc \in {"embed", "semantic", "last", "run"}, r = Goes(k, pc)
      PROVE  Follows(k, r) /\ r.pc # "raised"
  <2>1. pc \in Pcs
    BY <1>1
  <2>2. /\ r \in Task
        /\ r.turn = k.turn /\ r.tool = k.tool /\ r.pc = pc /\ r.try = k.try
    BY <1>4, <2>1, GoesMoves
  <2> QED
    BY <1>1, <2>1, <2>2 DEF Follows, Finished
<1>5. ASSUME r = FailedAttempt(k)
      PROVE  Follows(k, r) /\ r.pc # "raised"
  <2>1. CASE k.try = SqlAttempts
    BY <1>5, <2>1, ReturnsMoves, FailedAttemptFollows DEF FailedAttempt
  <2>2. CASE k.try # SqlAttempts
    BY <1>5, <2>2, RetryMoves, FailedAttemptFollows DEF FailedAttempt
  <2> QED
    BY <2>1, <2>2
<1>6. CASE k.pc = "faq"
  <2>1. r = Raises(k) \/ \E text : r = Returns(k, text)
    BY <1>6 DEF CallOutcomes, Faq
  <2> QED
    BY <1>2, <1>3, <1>6, <2>1
<1>7. CASE k.pc = "filter"
  <2>1. r = Raises(k) \/ r = Goes(k, "embed")
    BY <1>7 DEF CallOutcomes, Filter
  <2> QED
    BY <1>3, <1>4, <1>7, <2>1
<1>8. CASE k.pc = "hybrid"
  <2>1. \/ r = Goes(k, "last") \/ r = Goes(k, "semantic")
        \/ \E text : r = Returns(k, text)
    BY <1>8 DEF CallOutcomes, Hybrid
  <2> QED
    BY <1>2, <1>4, <2>1
<1>9. CASE k.pc = "semantic"
  <2>1. r = Goes(k, "last") \/ \E text : r = Returns(k, text)
    BY <1>9 DEF CallOutcomes, Semantic
  <2> QED
    BY <1>2, <1>4, <2>1
<1>10. CASE k.pc = "last"
  <2>1. \E text : r = Returns(k, text)
    BY <1>10 DEF CallOutcomes, Fallback
  <2> QED
    BY <1>2, <2>1
<1>11. CASE k.pc = "sql"
  <2>1. r = FailedAttempt(k) \/ r = Goes(k, "run")
    BY <1>11 DEF CallOutcomes, Sql
  <2> QED
    BY <1>4, <1>5, <2>1
<1>12. CASE k.pc = "run"
  <2>1. r = FailedAttempt(k) \/ \E text : r = Returns(k, text)
    BY <1>12 DEF CallOutcomes, Run
  <2> QED
    BY <1>2, <1>5, <2>1
<1>13. CASE k.pc = "tickets"
  <2>1. r = Raises(k) \/ \E text : r = Returns(k, text)
    BY <1>13 DEF CallOutcomes, Tickets
  <2> QED
    BY <1>2, <1>3, <1>13, <2>1
<1>14. k.pc \in {"faq", "filter", "hybrid", "semantic", "last", "sql", "run",
                 "tickets"}
  BY DEF CallOutcomes
<1> QED
  BY <1>6, <1>7, <1>8, <1>9, <1>10, <1>11, <1>12, <1>13, <1>14

-----------------------------------------------------------------------------
(* The inductive invariant. *)

\* The model is made once: a thread that is about to make it holds the lock,
\* and nobody has made it.
ModelInv ==
    /\ loads = IF model THEN 1 ELSE 0
    /\ \A t \in Threads : thread[t].pc = "load" => lock = t /\ ~model

\* No task tries its query too often.
TryInv ==
    /\ \A t \in Threads : thread[t].try \in 1 .. SqlAttempts
    /\ \A i \in DOMAIN queue : queue[i].try \in 1 .. SqlAttempts

\* What is queued has not begun.
StartInv == \A i \in DOMAIN queue : queue[i].pc = "client"

\* Workers wait only in their own superstep.
WaitInv == run.node # "workers" => run.waiting = {}

\* A tool of the current run is in one place: it is queued, or on a thread, or
\* on its way back to the loop.
PlaceInv ==
    /\ \A i, j \in DOMAIN queue : i # j => queue[i].tool # queue[j].tool
    /\ \A i \in DOMAIN queue : Threaded(queue[i].tool)
    /\ \A t \in Threads : ~Idle(t) /\ thread[t].turn = turns =>
          \A i \in DOMAIN queue : queue[i].tool # thread[t].tool
    /\ \A k \in ended, i \in DOMAIN queue : queue[i].tool # k.tool

\* A run that has not been routed has no tools yet.
RouterInv ==
    /\ \A t \in Threads : thread[t].turn <= turns
    /\ run.node = "router" =>
          ended = {} /\ \A t \in Threads : ~Idle(t) => thread[t].turn < turns

RetrievalInv ==
    /\ TypeOK /\ JoinInv
    /\ ModelInv /\ TryInv /\ StartInv /\ WaitInv /\ PlaceInv /\ RouterInv
    /\ QueueIsCurrent

\* Nothing is queued unless workers are waited for.
LEMMA QueueEmpty ==
    ASSUME RetrievalInv, run.waiting = {}
    PROVE  queue = <<>>
<1>1. queue \in Seq(Task)
  BY DEF RetrievalInv, TypeOK
<1>2. DOMAIN queue = {}
  BY DEF RetrievalInv, QueueIsCurrent
<1> QED
  BY <1>1, <1>2

\* The graph keeps its invariant, and WaitInv with it.
LEMMA GraphPart ==
    ASSUME GraphInv, WaitInv, [GraphNext]_graphVars
    PROVE  GraphInv' /\ WaitInv'
<1>1. GraphInv'
  BY GraphNextInv
<1> SUFFICES WaitInv'
  BY <1>1
<1> USE DEF WaitInv
<1>2. ASSUME NEW s \in Statuses, Invoke(s)
      PROVE  WaitInv'
  BY <1>2 DEF Invoke, FreshRun
<1>3. CASE RouterReplies \/ RouterCrashes
  BY <1>3 DEF RouterReplies, RouterCrashes, Route, GraphInv, GraphTypeOK,
     RunState
<1>4. ASSUME NEW w \in Intents, WorkerReturns(w)
      PROVE  WaitInv'
  BY <1>4 DEF WorkerReturns, Joined, GraphInv, GraphTypeOK, RunState
<1>5. ASSUME NEW w \in Intents, WorkerRaises(w)
      PROVE  WaitInv'
  BY <1>5 DEF WorkerRaises, FailedRun, NoRun, FreshRun
<1>6. CASE SynthSkips \/ SynthCalls \/ SynthFinishes
  BY <1>6 DEF SynthSkips, SynthCalls, SynthFinishes, GraphInv, GraphTypeOK,
     RunState
<1>7. ASSUME NEW retriable \in BOOLEAN, SynthRaises(retriable)
      PROVE  WaitInv'
  BY <1>7 DEF SynthRaises, FailedRun, NoRun, FreshRun, GraphInv, GraphTypeOK,
     RunState
<1>8. ASSUME NEW n \in {"router", "synthesizer"} \cup Intents, Token(n)
      PROVE  WaitInv'
  BY <1>8 DEF Token, GraphInv, GraphTypeOK, RunState
<1>9. CASE Abandon
  BY <1>9 DEF Abandon, NoRun, FreshRun
<1>10. CASE UNCHANGED run
  BY <1>10
<1>11. CASE LanguageDetected \/ UNCHANGED graphVars
  BY <1>10, <1>11 DEF LanguageDetected, graphVars
<1> QED
  BY <1>2, <1>3, <1>4, <1>5, <1>6, <1>7, <1>8, <1>9, <1>11
     DEF GraphNext, GraphStep

-----------------------------------------------------------------------------
(* What a superstep submits. *)

\* Tasks of the current run that have just been made, one for each tool.
Fresh(s, ws) ==
    /\ s \in Seq(Task)
    /\ \A i \in DOMAIN s : /\ s[i].turn = turns /\ s[i].try = 1
                           /\ s[i].pc = "client"
                           /\ s[i].tool \in ws /\ Threaded(s[i].tool)
    /\ \A i, j \in DOMAIN s : i # j => s[i].tool # s[j].tool

LEMMA FreshJoin ==
    ASSUME NEW s, NEW u, NEW ws, NEW vs,
           Fresh(s, ws), Fresh(u, vs), ws \cap vs = {}
    PROVE  Fresh(s \o u, ws \cup vs)
<1>1. s \in Seq(Task) /\ u \in Seq(Task)
  BY DEF Fresh
<1>2. /\ s \o u \in Seq(Task)
      /\ DOMAIN (s \o u) = 1 .. Len(s) + Len(u)
      /\ \A i \in DOMAIN (s \o u) :
            \/ i \in DOMAIN s /\ (s \o u)[i] = s[i]
            \/ i - Len(s) \in DOMAIN u /\ (s \o u)[i] = u[i - Len(s)]
  BY <1>1
<1>3. DOMAIN s = 1 .. Len(s) /\ DOMAIN u = 1 .. Len(u)
      /\ Len(s) \in Nat /\ Len(u) \in Nat
  BY <1>1
<1> QED
  BY <1>2, <1>3 DEF Fresh

LEMMA SubmittedFresh ==
    ASSUME NEW ws \in SUBSET Tools, turns \in Nat
    PROVE  Fresh(Submitted(ws), ws)
<1> DEFINE Of(w) == IF w \in ws /\ Threaded(w) THEN <<NewTask(turns, w)>>
                    ELSE <<>>
           In(w) == {w} \cap ws
<1>1. ASSUME NEW w \in Tools
      PROVE  Fresh(Of(w), In(w))
  BY NewTaskType DEF Fresh
<1>2. Submitted(ws) = Of("support") \o Of("orders") \o Of("catalog")
                                    \o Of("history")
  BY DEF Submitted
<1>3. ws = In("support") \cup In("orders") \cup In("catalog") \cup In("history")
  BY DEF Tools
<1>4. Fresh(Of("support"), In("support")) /\ Fresh(Of("orders"), In("orders"))
      /\ Fresh(Of("catalog"), In("catalog"))
      /\ Fresh(Of("history"), In("history"))
  BY <1>1 DEF Tools
<1>5. /\ In("support") \cap In("orders") = {}
      /\ (In("support") \cup In("orders")) \cap In("catalog") = {}
      /\ (In("support") \cup In("orders") \cup In("catalog"))
            \cap In("history") = {}
  OBVIOUS
<1> HIDE DEF Of, In
<1>6. Fresh(Of("support") \o Of("orders"), In("support") \cup In("orders"))
  BY <1>4, <1>5, FreshJoin
<1>7. Fresh((Of("support") \o Of("orders")) \o Of("catalog"),
            In("support") \cup In("orders") \cup In("catalog"))
  BY <1>4, <1>5, <1>6, FreshJoin
<1>8. Fresh(((Of("support") \o Of("orders")) \o Of("catalog")) \o Of("history"),
            In("support") \cup In("orders") \cup In("catalog") \cup In("history"))
  BY <1>4, <1>5, <1>7, FreshJoin
<1> QED
  BY <1>2, <1>3, <1>8

-----------------------------------------------------------------------------
(* Initial states, and what the steps of the threads do to their tasks. *)

LEMMA RetrievalInitInv ==
    ASSUME Init
    PROVE  RetrievalInv
<1>1. GraphInv
  BY GraphInitInv DEF Init
<1>2. run.node = "none" /\ run.waiting = {}
  BY DEF Init, GraphInit, NoRun, FreshRun
<1>3. \A t \in Threads : thread[t] = Resting
  BY DEF Init
<1>4. TypeOK
  BY <1>1, RestingType DEF Init, TypeOK, GraphInv
<1>5. /\ ModelInv /\ TryInv /\ StartInv /\ WaitInv /\ PlaceInv /\ RouterInv
      /\ QueueIsCurrent
  BY <1>2, <1>3, RestingType, ToolsAssumption
     DEF Init, ModelInv, TryInv, StartInv, WaitInv, PlaceInv, RouterInv, QueueIsCurrent,
         Idle
<1> QED
  BY <1>1, <1>4, <1>5 DEF RetrievalInv, GraphInv

\* A step of one thread's task, to r, that leaves run, turns and queue alone
\* and does not enter the constructor of the model.
LEMMA BecomesInv ==
    ASSUME RetrievalInv, NEW t \in Threads, NEW r,
           Becomes(t, r), ~Idle(t), Follows(thread[t], r) \/
             (r \in Task /\ r.turn = thread[t].turn /\ r.tool = thread[t].tool
               /\ r.try \in 1 .. SqlAttempts),
           UNCHANGED <<graphVars, turns, known, queue>>
    PROVE  /\ thread' \in [Threads -> Task]
           /\ ended' \subseteq [tool: Tools, pc: {"answered", "raised"}]
           /\ TryInv' /\ PlaceInv' /\ RouterInv' /\ QueueIsCurrent'
           /\ \A u \in Threads \ {t} : thread'[u] = thread[u]
           /\ thread'[t] = IF Finished(r) THEN Resting ELSE r
<1> USE DEF RetrievalInv
<1>1. /\ thread \in [Threads -> Task] /\ thread[t] \in Task
      /\ turns \in Nat
  BY DEF TypeOK
<1>2. /\ r.turn = thread[t].turn /\ r.tool = thread[t].tool
      /\ r.try \in 1 .. SqlAttempts /\ (~Finished(r) => r \in Task)
  BY DEF Follows
<1>3. thread[t].turn \in Nat /\ thread[t].tool \in Tools
  BY <1>1 DEF Task
<1>4. /\ thread' = [thread EXCEPT ![t] = IF Finished(r) THEN Resting ELSE r]
      /\ ended' = IF Finished(r) /\ r.turn = turns /\ r.tool \in run.waiting
                  THEN ended \cup {[tool |-> r.tool, pc |-> r.pc]} ELSE ended
  BY DEF Becomes
<1>5. /\ thread' \in [Threads -> Task]
      /\ \A u \in Threads \ {t} : thread'[u] = thread[u]
      /\ thread'[t] = IF Finished(r) THEN Resting ELSE r
  BY <1>1, <1>2, <1>4, RestingType
<1>6. ended' \subseteq [tool: Tools, pc: {"answered", "raised"}]
  BY <1>2, <1>3, <1>4 DEF TypeOK, Finished
<1>7. TryInv'
  BY <1>2, <1>5, RestingType, ToolsAssumption DEF TryInv
<1>8. /\ UNCHANGED <<run, turns, known, queue>>
      /\ \A w : Threaded(w)' <=> Threaded(w)
  BY DEF graphVars, Threaded
<1>9. \A u \in Threads : ~Idle(u)' =>
         ~Idle(u) /\ thread'[u].turn = thread[u].turn
                  /\ thread'[u].tool = thread[u].tool
  BY <1>2, <1>5, RestingType DEF Idle
<1>10. \A k \in ended' : k \in ended \/ (k.tool = thread[t].tool
                                           /\ thread[t].turn = turns
                                           /\ k.tool \in run.waiting)
  BY <1>2, <1>4
<1>11. PlaceInv'
  <2>1. \A u \in Threads : ~Idle(u)' /\ thread'[u].turn = turns' =>
          \A i \in DOMAIN queue' : queue'[i].tool # thread'[u].tool
    BY <1>8, <1>9 DEF PlaceInv
  <2>2. \A k \in ended', i \in DOMAIN queue' : queue'[i].tool # k.tool
    BY <1>8, <1>10 DEF PlaceInv
  <2> QED
    BY <1>8, <2>1, <2>2 DEF PlaceInv
<1>12. RouterInv'
  <2>1. \A u \in Threads : thread'[u].turn <= turns'
    BY <1>1, <1>2, <1>5, <1>8, RestingType DEF RouterInv
  <2>2. run'.node = "router" =>
          ended' = {} /\ \A u \in Threads : ~Idle(u)' => thread'[u].turn < turns'
    <3>1. SUFFICES ASSUME run.node = "router"
                   PROVE  ended' = {}
                          /\ \A u \in Threads : ~Idle(u)' => thread'[u].turn < turns
      BY <1>8
    <3>2. ended = {} /\ run.waiting = {}
      BY <3>1 DEF RouterInv, WaitInv
    <3> QED
      BY <1>8, <1>9, <1>10, <3>1, <3>2 DEF RouterInv
  <2> QED
    BY <2>1, <2>2 DEF RouterInv
<1>13. QueueIsCurrent'
  BY <1>8 DEF QueueIsCurrent
<1> QED
  BY <1>5, <1>6, <1>7, <1>11, <1>12, <1>13

\* A thread's step preserves the invariant if its task goes on, or ends, as a
\* well-formed one and the model's lock is respected.
LEMMA ThreadPreserves ==
    ASSUME RetrievalInv, NEW t \in Threads, NEW r,
           Becomes(t, r), ~Idle(t), Follows(thread[t], r) \/
             (r \in Task /\ r.turn = thread[t].turn /\ r.tool = thread[t].tool
               /\ r.try \in 1 .. SqlAttempts),
           UNCHANGED <<graphVars, turns, known, queue>>,
           connected' \subseteq Threads,
           model' \in BOOLEAN, lock' \in Threads \cup {NoThread},
           loads' = IF model' THEN 1 ELSE 0,
           r.pc = "load" => lock' = t /\ ~model',
           \A u \in Threads \ {t} :
              thread[u].pc = "load" => lock' = u /\ ~model'
    PROVE  RetrievalInv'
<1>1. /\ thread' \in [Threads -> Task]
      /\ ended' \subseteq [tool: Tools, pc: {"answered", "raised"}]
      /\ TryInv' /\ PlaceInv' /\ RouterInv' /\ QueueIsCurrent'
      /\ \A u \in Threads \ {t} : thread'[u] = thread[u]
      /\ thread'[t] = IF Finished(r) THEN Resting ELSE r
  BY BecomesInv
<1>2. UNCHANGED <<run, language, turns, known, queue>>
  BY DEF graphVars
<1>3. GraphTypeOK' /\ JoinInv' /\ WaitInv'
  BY <1>2 DEF RetrievalInv, TypeOK, GraphTypeOK, JoinInv, WaitInv,
     SynthesizerSeesEveryContext, AttemptsBounded
<1>4. ModelInv' /\ StartInv'
  BY <1>1, <1>2, RestingType DEF ModelInv, RetrievalInv, StartInv
<1>5. loads' \in Nat
  OBVIOUS
<1>6. TypeOK'
  BY <1>1, <1>2, <1>3, <1>5 DEF RetrievalInv, TypeOK
<1> QED
  BY <1>1, <1>3, <1>4, <1>6 DEF RetrievalInv

LEMMA ThreadStepInv ==
    ASSUME RetrievalInv, NEW t \in Threads,
           \/ Connects(t) \/ SeesModel(t) \/ Locks(t) \/ Loads(t) \/ Calls(t)
    PROVE  RetrievalInv'
<1> DEFINE k == thread[t]
<1>1. /\ k \in Task /\ k.try \in 1 .. SqlAttempts /\ k.pc \in Pcs
      /\ k.tool \in Tools
      /\ connected \subseteq Threads /\ model \in BOOLEAN
      /\ lock \in Threads \cup {NoThread}
      /\ loads = IF model THEN 1 ELSE 0
      /\ \A u \in Threads : thread[u].pc = "load" => lock = u /\ ~model
      /\ lock = NoThread => \A u \in Threads : thread[u].pc # "load"
      /\ 1 \in 1 .. SqlAttempts
  <2>1. thread \in [Threads -> Task] /\ k.try \in 1 .. SqlAttempts
    BY DEF RetrievalInv, TypeOK, TryInv
  <2>2. k \in Task /\ k.pc \in Pcs /\ k.tool \in Tools
    BY <2>1 DEF Task
  <2>3. /\ connected \subseteq Threads /\ model \in BOOLEAN
        /\ lock \in Threads \cup {NoThread}
    BY DEF RetrievalInv, TypeOK
  <2>4. /\ loads = IF model THEN 1 ELSE 0
        /\ \A u \in Threads : thread[u].pc = "load" => lock = u /\ ~model
    BY DEF RetrievalInv, ModelInv
  <2>5. lock = NoThread => \A u \in Threads : thread[u].pc # "load"
    BY <2>4, RetrievalAssumption
  <2>6. 1 \in 1 .. SqlAttempts
    BY ToolsAssumption
  <2> QED
    BY <2>1, <2>2, <2>3, <2>4, <2>5, <2>6
<1>2. /\ {"embed", "filter", "sql", "tickets", "faq", "hybrid", "lock", "load",
          "answered", "raised"} \subseteq Pcs
      /\ ~Finished(k) => ~Idle(t)
  BY DEF Pcs, Idle
<1> HIDE DEF k
<1>3. CASE Connects(t)
  <2>1. k.pc = "client" /\ ~Idle(t)
    BY <1>2, <1>3 DEF Connects, k, Finished
  <2>2. UNCHANGED <<graphVars, turns, known, queue, model, lock, loads>>
        /\ connected' \subseteq Threads
    BY <1>1, <1>3 DEF Connects
  <2>3. PICK r : /\ r = Goes(k, AfterClient(k.tool)) \/ r = Raises(k)
                 /\ Becomes(t, r)
    BY <1>3 DEF Connects, k
  <2>4. AfterClient(k.tool) \in {"embed", "filter", "sql", "tickets"}
    BY <1>1 DEF AfterClient, Tools
  <2>5. Follows(k, r) /\ r.pc # "load"
    <3>1. CASE r = Raises(k)
      <4>1. r.turn = k.turn /\ r.tool = k.tool /\ r.pc = "raised" /\ r.try = 1
        BY <1>1, <3>1, RaisesMoves
      <4> QED
        BY <1>1, <1>2, <2>1, <4>1 DEF Follows, Finished
    <3>2. CASE r = Goes(k, AfterClient(k.tool))
      <4>1. PICK pc \in Pcs : r = Goes(k, pc) /\ pc = AfterClient(k.tool)
        BY <1>2, <2>4, <3>2
      <4>2. /\ r \in Task /\ r.turn = k.turn /\ r.tool = k.tool
            /\ r.pc = pc /\ r.try = k.try
        BY <1>1, <4>1, GoesMoves
      <4> QED
        BY <1>1, <1>2, <2>4, <4>1, <4>2 DEF Follows, Finished
    <3> QED
      BY <2>3, <3>1, <3>2
  <2> QED
    BY <1>1, <2>1, <2>2, <2>3, <2>5, ThreadPreserves DEF k
<1>4. CASE SeesModel(t)
  <2> DEFINE pc == IF model THEN AfterModel(k.tool) ELSE "lock"
             r == Goes(k, pc)
  <2>1. k.pc = "embed" /\ ~Idle(t) /\ Becomes(t, r)
    BY <1>2, <1>4 DEF SeesModel, k, Finished
  <2>2. UNCHANGED <<graphVars, turns, known, queue, connected, model, lock,
                    loads>>
    BY <1>4 DEF SeesModel
  <2>3. pc \in Pcs /\ pc # "load"
    BY <1>2 DEF AfterModel
  <2> HIDE DEF pc
  <2>4. /\ r \in Task /\ r.turn = k.turn /\ r.tool = k.tool
        /\ r.pc # "load" /\ r.try = k.try
    BY <1>1, <2>3, GoesMoves
  <2> HIDE DEF r
  <2> QED
    BY <1>1, <2>1, <2>2, <2>4, ThreadPreserves DEF k
<1>5. CASE Locks(t)
  <2> DEFINE pc == IF model THEN AfterModel(k.tool) ELSE "load"
             r == Goes(k, pc)
  <2>1. k.pc = "lock" /\ ~Idle(t) /\ Becomes(t, r) /\ lock = NoThread
    BY <1>2, <1>5 DEF Locks, k, Finished
  <2>2. /\ UNCHANGED <<graphVars, turns, known, queue, connected, model, loads>>
        /\ lock' = IF model THEN lock ELSE t
    BY <1>5 DEF Locks
  <2>3. pc \in Pcs /\ (pc = "load" <=> ~model)
    BY <1>2 DEF AfterModel
  <2> HIDE DEF pc
  <2>4. /\ r \in Task /\ r.turn = k.turn /\ r.tool = k.tool
        /\ r.pc = pc /\ r.try = k.try
    BY <1>1, <2>3, GoesMoves
  <2> HIDE DEF r
  <2>5. r.pc = "load" => lock' = t /\ ~model'
    BY <2>2, <2>3, <2>4
  <2>6. \A u \in Threads \ {t} : thread[u].pc # "load"
    BY <1>1, <2>1
  <2>7. /\ connected' \subseteq Threads /\ model' \in BOOLEAN
        /\ lock' \in Threads \cup {NoThread}
        /\ loads' = IF model' THEN 1 ELSE 0
    BY <1>1, <2>2
  <2>8. r.try \in 1 .. SqlAttempts
    BY <1>1, <2>4
  <2> QED
    BY <2>1, <2>2, <2>4, <2>5, <2>6, <2>7, <2>8, ThreadPreserves DEF k
<1>6. CASE Loads(t)
  <2>1. k.pc = "load" /\ ~Idle(t)
    BY <1>2, <1>6 DEF Loads, k, Finished
  <2>2. /\ UNCHANGED <<graphVars, turns, known, queue, connected>>
        /\ lock' = NoThread
    BY <1>6 DEF Loads
  <2>3. lock = t /\ ~model
    BY <1>1, <2>1 DEF k
  <2>4. \A u \in Threads \ {t} : thread[u].pc # "load"
    BY <1>1, <2>3
  <2>5. loads' = (IF model' THEN 1 ELSE 0) /\ model' \in BOOLEAN
    <3>1. loads = 0 /\ model = FALSE
      BY <1>1, <2>3
    <3>2. CASE model' = TRUE /\ loads' = loads + 1
      BY <3>1, <3>2
    <3>3. CASE UNCHANGED <<model, loads>>
      BY <3>1, <3>3
    <3> QED
      BY <1>6, <3>2, <3>3 DEF Loads
  <2>6. PICK r : /\ r = Goes(k, AfterModel(k.tool)) \/ r = ModelRaises(k)
                 /\ Becomes(t, r)
    BY <1>6 DEF Loads, k
  <2>7. AfterModel(k.tool) \in {"faq", "hybrid"}
    BY DEF AfterModel
  <2>8. Follows(k, r) /\ r.pc # "load"
    <3>1. CASE r = ModelRaises(k)
      <4>1. /\ r.turn = k.turn /\ r.tool = k.tool /\ r.try = 1
            /\ r.pc \in {"answered", "raised"}
        BY <1>1, <3>1, RaisesMoves, ReturnsMoves DEF ModelRaises
      <4> QED
        BY <1>1, <1>2, <2>1, <4>1 DEF Follows, Finished
    <3>2. CASE r = Goes(k, AfterModel(k.tool))
      <4>1. PICK pc \in Pcs : r = Goes(k, pc) /\ pc = AfterModel(k.tool)
        BY <1>2, <2>7, <3>2
      <4>2. /\ r \in Task /\ r.turn = k.turn /\ r.tool = k.tool
            /\ r.pc = pc /\ r.try = k.try
        BY <1>1, <4>1, GoesMoves
      <4> QED
        BY <1>1, <1>2, <2>7, <4>1, <4>2 DEF Follows, Finished
    <3> QED
      BY <2>6, <3>1, <3>2
  <2> QED
    BY <1>1, <2>1, <2>2, <2>4, <2>5, <2>6, <2>8, ThreadPreserves DEF k
<1>7. CASE Calls(t)
  <2>1. PICK r \in CallOutcomes(k) : Becomes(t, r)
    BY <1>7 DEF Calls, k
  <2>2. UNCHANGED <<graphVars, turns, known, queue, connected, model, lock,
                    loads>>
    BY <1>7 DEF Calls
  <2>3. k.pc \in {"faq", "filter", "hybrid", "semantic", "last", "sql", "run",
                  "tickets"}
    BY <2>1 DEF CallOutcomes
  <2>4. ~Idle(t)
    BY <1>2, <2>3 DEF Finished
  <2>5. Follows(k, r)
    BY <1>1, <2>1, CallFollows
  <2>6. r.pc # "load"
    BY <2>5 DEF Follows
  <2> QED
    BY <1>1, <2>1, <2>2, <2>4, <2>5, <2>6, ThreadPreserves DEF k
<1> QED
  BY <1>3, <1>4, <1>5, <1>6, <1>7

-----------------------------------------------------------------------------
(* The executor's queue and the event loop. *)

LEMMA TakesInv ==
    ASSUME RetrievalInv, NEW t \in Threads, Takes(t)
    PROVE  RetrievalInv'
<1> USE DEF RetrievalInv
<1>1. /\ queue \in Seq(Task) /\ queue # <<>> /\ Idle(t)
      /\ thread \in [Threads -> Task] /\ turns \in Nat
  BY DEF TypeOK, Takes
<1>2. /\ thread' = [thread EXCEPT ![t] = Head(queue)] /\ queue' = Tail(queue)
      /\ UNCHANGED <<run, language, turns, known, connected, model, lock,
                     loads, ended>>
  BY DEF Takes, graphVars
<1>3. /\ Head(queue) = queue[1] /\ 1 \in DOMAIN queue /\ queue[1] \in Task
      /\ queue' \in Seq(Task)
      /\ \A i \in DOMAIN queue' : /\ i + 1 \in DOMAIN queue /\ i + 1 # 1
                                  /\ queue'[i] = queue[i + 1]
      /\ \A i \in DOMAIN queue' : i \in Nat
  BY <1>1, <1>2
<1>4. /\ thread' \in [Threads -> Task] /\ thread'[t] = queue[1]
      /\ \A u \in Threads \ {t} : thread'[u] = thread[u]
  BY <1>1, <1>2, <1>3
<1>5. /\ \A u \in Threads \ {t} : Idle(u)' <=> Idle(u)
      /\ \A w : Threaded(w)' <=> Threaded(w)
  BY <1>2, <1>4 DEF Idle, Threaded
<1>6. queue[1].turn = turns /\ queue[1].tool \in run.waiting
      /\ queue[1].pc = "client"
  <2>1. queue[1].turn = turns /\ queue[1].tool \in run.waiting
    BY <1>3 DEF QueueIsCurrent
  <2> QED
    BY <1>3, <2>1 DEF StartInv
<1>7. run.node = "workers"
  BY <1>6 DEF WaitInv
<1>8. TypeOK' /\ JoinInv' /\ WaitInv'
  BY <1>2, <1>3, <1>4 DEF TypeOK, GraphTypeOK, JoinInv, WaitInv,
     SynthesizerSeesEveryContext, AttemptsBounded
<1>9. ModelInv' /\ TryInv' /\ StartInv'
  <2>1. thread'[t].pc # "load"
    BY <1>4, <1>6
  <2>2. ModelInv'
    BY <1>2, <1>4, <2>1 DEF ModelInv
  <2> QED
    BY <1>3, <1>4, <2>2 DEF TryInv, StartInv
<1>10. PlaceInv'
  <2>1. \A i, j \in DOMAIN queue' : i # j => queue'[i].tool # queue'[j].tool
    BY <1>3 DEF PlaceInv
  <2>2. ASSUME NEW i \in DOMAIN queue'
        PROVE  Threaded(queue[i].tool)'
    <3>1. Threaded(queue[i + 1].tool) /\ queue'[i] = queue[i + 1]
      BY <1>3 DEF PlaceInv
    <3> QED
      BY <1>2, <3>1 DEF Threaded
  <2>3. \A u \in Threads : ~Idle(u)' /\ thread'[u].turn = turns' =>
          \A i \in DOMAIN queue' : queue'[i].tool # thread'[u].tool
    BY <1>2, <1>3, <1>4, <1>5 DEF PlaceInv
  <2>4. ASSUME NEW k \in ended, NEW i \in DOMAIN queue'
        PROVE  queue'[i].tool # k.tool
    <3>1. queue[i + 1].tool # k.tool /\ queue'[i] = queue[i + 1]
      BY <1>3 DEF PlaceInv
    <3> QED
      BY <3>1
  <2> QED
    BY <1>2, <2>1, <2>2, <2>3, <2>4 DEF PlaceInv
<1>11. RouterInv'
  BY <1>1, <1>2, <1>4, <1>6, <1>7 DEF RouterInv
<1>12. QueueIsCurrent'
  BY <1>2, <1>3 DEF QueueIsCurrent
<1> QED
  BY <1>8, <1>9, <1>10, <1>11, <1>12

\* A step of the event loop that leaves the threads alone, and what is queued
\* and returned as it is or forgotten.
LEMMA LoopPreserves ==
    ASSUME RetrievalInv, GraphInv', WaitInv',
           UNCHANGED <<known, thread, connected, model, lock, loads>>,
           turns' \in Nat, turns' >= turns,
           queue' \in {queue, <<>>}, ended' \in {ended, {}},
           queue' = queue /\ queue # <<>> => QueueIsCurrent' /\ turns' = turns,
           run'.node = "router" =>
              run.node = "router" \/ (turns' = turns + 1 /\ ended' = {})
    PROVE  RetrievalInv'
<1> USE DEF RetrievalInv
<1>1. TypeOK'
  <2>1. queue \in Seq(Task) /\ <<>> \in Seq(Task)
    BY DEF TypeOK
  <2>2. queue' \in Seq(Task)
    BY <2>1
  <2>3. ended' \subseteq [tool: Tools, pc: {"answered", "raised"}]
    <3>1. ended' \subseteq ended
      OBVIOUS
    <3> QED
      BY <3>1 DEF TypeOK
  <2> QED
    BY <2>2, <2>3 DEF TypeOK, GraphInv
<1>2. JoinInv'
  BY DEF GraphInv
<1>3. ModelInv' /\ TryInv' /\ StartInv'
  BY DEF ModelInv, TryInv, StartInv
<1>4. /\ \A u \in Threads : Idle(u)' <=> Idle(u)
      /\ \A w : Threaded(w)' <=> Threaded(w)
  BY DEF Idle, Threaded
<1>5. PlaceInv'
  BY <1>4 DEF PlaceInv
<1>6. RouterInv'
  <2>1. \A u \in Threads : thread[u].turn \in Nat /\ thread[u].turn <= turns
    BY DEF TypeOK, Task, RouterInv
  <2>2. \A u \in Threads : thread'[u].turn <= turns'
    BY <2>1 DEF TypeOK
  <2>3. ASSUME run'.node = "router", NEW u \in Threads, ~Idle(u)
        PROVE  thread[u].turn < turns'
    BY <2>1, <2>3 DEF RouterInv, TypeOK
  <2>4. run'.node = "router" => ended' = {}
    BY DEF RouterInv
  <2> QED
    BY <1>4, <2>2, <2>3, <2>4 DEF RouterInv
<1>7. QueueIsCurrent'
  BY DEF QueueIsCurrent
<1> QED
  BY <1>1, <1>2, <1>3, <1>5, <1>6, <1>7

\* The loop begins, ends and runs what surrounds the tools.
LEMMA LoopStepInv ==
    ASSUME RetrievalInv, GraphInv', WaitInv',
           \/ Begins \/ Synthesizes \/ Cancelled
           \/ \E w \in Intents : Arrives(w) \/ Fails(w)
    PROVE  RetrievalInv'
<1>1. /\ turns \in Nat /\ WaitInv /\ QueueIsCurrent /\ GraphTypeOK
      /\ JoinInv /\ run \in RunState
  BY DEF RetrievalInv, TypeOK, GraphTypeOK
<1>2. CASE Begins
  <2>1. run.node \in {"none", "done", "failed"}
    BY <1>2 DEF Begins, Invoke
  <2>2. queue = <<>>
    BY <1>1, <2>1, QueueEmpty DEF WaitInv
  <2>3. /\ UNCHANGED <<known, queue, thread, connected, model, lock, loads>>
        /\ turns' = turns + 1 /\ ended' = {}
    BY <1>2 DEF Begins
  <2> QED
    BY <1>1, <2>2, <2>3, LoopPreserves
<1>3. CASE Cancelled
  <2>1. /\ UNCHANGED <<turns, known, thread, connected, model, lock, loads>>
        /\ queue' = <<>> /\ ended' = {}
    BY <1>3 DEF Cancelled, Withdraw
  <2>2. run'.node # "router"
    BY <1>3 DEF Cancelled, Abandon, NoRun, FreshRun
  <2> QED
    BY <1>1, <2>1, <2>2, LoopPreserves
<1>4. ASSUME NEW w \in Intents, Fails(w)
      PROVE  RetrievalInv'
  <2>1. /\ UNCHANGED <<turns, known, thread, connected, model, lock, loads>>
        /\ queue' = <<>> /\ ended' = {}
    BY <1>4 DEF Fails, Withdraw
  <2>2. run'.node # "router"
    BY <1>4 DEF Fails, WorkerRaises, FailedRun, NoRun, FreshRun
  <2> QED
    BY <1>1, <2>1, <2>2, LoopPreserves
<1>5. CASE Synthesizes
  <2>1. UNCHANGED <<turns, known, queue, thread, connected, model, lock, loads,
                    ended>>
    BY <1>5 DEF Synthesizes, pool
  <2>2. run.node \in {"synthesizer", "speaking"}
    BY <1>5 DEF Synthesizes, SynthSkips, SynthCalls, SynthFinishes, SynthRaises
  <2>3. run'.node # "router"
    BY <1>1, <1>5 DEF Synthesizes, SynthSkips, SynthCalls, SynthFinishes,
       SynthRaises, FailedRun, NoRun, FreshRun, RunState
  <2>4. queue = <<>>
    BY <1>1, <2>2, QueueEmpty DEF WaitInv
  <2> QED
    BY <1>1, <2>1, <2>3, <2>4, LoopPreserves
<1>6. ASSUME NEW w \in Intents, Arrives(w)
      PROVE  RetrievalInv'
  <2>1. UNCHANGED <<turns, known, queue, thread, connected, model, lock, loads,
                    ended>>
    BY <1>6 DEF Arrives, pool
  <2>2. run'.waiting = run.waiting \ {w} /\ run'.node # "router"
    BY <1>1, <1>6 DEF Arrives, WorkerReturns, Joined, RunState
  <2>3. ASSUME NEW i \in DOMAIN queue
        PROVE  queue[i].tool # w
    BY <1>6 DEF Arrives, RetrievalInv, PlaceInv
  <2>4. QueueIsCurrent'
    BY <1>1, <2>1, <2>2, <2>3 DEF QueueIsCurrent
  <2> QED
    BY <1>1, <2>1, <2>2, <2>4, LoopPreserves
<1> QED
  BY <1>2, <1>3, <1>4, <1>5, <1>6

LEMMA RoutesInv ==
    ASSUME RetrievalInv, GraphInv', WaitInv', Routes
    PROVE  RetrievalInv'
<1> DEFINE s == Submitted(run'.waiting)
<1>1. /\ UNCHANGED <<turns, known, thread, connected, model, lock, loads, ended>>
      /\ queue' = queue \o s /\ run.node = "router"
  BY DEF Routes, RouterReplies, RouterCrashes
<1>2. /\ run.waiting = {} /\ turns \in Nat /\ run \in RunState
      /\ ended = {} /\ \A t \in Threads : ~Idle(t) => thread[t].turn < turns
      /\ \A t \in Threads : thread[t].turn <= turns /\ thread[t].turn \in Nat
  <2>1. run.waiting = {} /\ turns \in Nat /\ run \in RunState
    BY <1>1 DEF RetrievalInv, WaitInv, TypeOK, GraphTypeOK
  <2>2. /\ ended = {} /\ \A t \in Threads : ~Idle(t) => thread[t].turn < turns
        /\ \A t \in Threads : thread[t].turn <= turns
    BY <1>1 DEF RetrievalInv, RouterInv
  <2>3. \A t \in Threads : thread[t].turn \in Nat
    BY DEF RetrievalInv, TypeOK, Task
  <2> QED
    BY <2>1, <2>2, <2>3
<1>3. queue = <<>>
  BY <1>2, QueueEmpty
<1>4. run'.waiting \in SUBSET Tools
  BY RetrievalAssumption DEF GraphInv, GraphTypeOK, RunState
<1>5. Fresh(s, run'.waiting)
  BY <1>2, <1>4, SubmittedFresh
<1> HIDE DEF s
<1>6. queue' = s /\ s \in Seq(Task)
  BY <1>1, <1>3, <1>5 DEF Fresh
<1>7. run'.node # "router"
  BY <1>2 DEF Routes, RouterReplies, RouterCrashes, Route, RunState
<1>8. TypeOK' /\ JoinInv'
  BY <1>1, <1>6 DEF RetrievalInv, TypeOK, GraphInv
<1>9. 1 \in 1 .. SqlAttempts
  BY ToolsAssumption
<1>10. ModelInv' /\ TryInv' /\ StartInv'
  BY <1>1, <1>5, <1>6, <1>9 DEF RetrievalInv, ModelInv, TryInv, StartInv, Fresh
<1>11. PlaceInv'
  <2>1. \A i, j \in DOMAIN queue' : i # j => queue'[i].tool # queue'[j].tool
    BY <1>5, <1>6 DEF Fresh
  <2>2. ASSUME NEW i \in DOMAIN queue'
        PROVE  Threaded(queue[i].tool)'
    BY <1>1, <1>5, <1>6 DEF Fresh, Threaded
  <2>3. \A t \in Threads : ~Idle(t)' => thread'[t].turn # turns'
    BY <1>1, <1>2 DEF Idle
  <2> QED
    BY <1>1, <1>2, <2>1, <2>2, <2>3 DEF PlaceInv
<1>12. RouterInv'
  BY <1>1, <1>2, <1>7 DEF RouterInv
<1>13. QueueIsCurrent'
  BY <1>1, <1>5, <1>6 DEF QueueIsCurrent, Fresh
<1> QED
  BY <1>8, <1>10, <1>11, <1>12, <1>13 DEF RetrievalInv

-----------------------------------------------------------------------------
(* The texts. *)

\* A tool has no text before it returns one.
TextInv ==
    /\ \A t \in Threads : thread[t].text = 0
    /\ \A i \in DOMAIN queue : queue[i].text = 0

\* A task that goes on keeps its text.
LEMMA BecomesText ==
    ASSUME RetrievalInv, TextInv, NEW t \in Threads, NEW r, Becomes(t, r),
           Finished(r) \/ r.text = 0, UNCHANGED queue
    PROVE  TextInv'
<1>1. /\ thread \in [Threads -> Task]
      /\ thread' = [thread EXCEPT ![t] = IF Finished(r) THEN Resting ELSE r]
  BY DEF RetrievalInv, TypeOK, Becomes
<1>2. Resting.text = 0
  BY DEF Resting, NewTask
<1> QED
  BY <1>1, <1>2 DEF TextInv

LEMMA ThreadText ==
    ASSUME RetrievalInv, TextInv, NEW t \in Threads,
           \/ Connects(t) \/ SeesModel(t) \/ Locks(t) \/ Loads(t) \/ Calls(t)
    PROVE  TextInv'
<1> DEFINE k == thread[t]
<1>1. k \in Task /\ k.text = 0
  BY DEF RetrievalInv, TypeOK, TextInv
<1>2. UNCHANGED queue
  BY DEF Connects, SeesModel, Locks, Loads, Calls
<1>3. \E r : Becomes(t, r) /\ (Finished(r) \/ r.text = 0)
  <2>1. \A pc : Goes(k, pc).text = 0
    BY <1>1 DEF Goes, Task
  <2>2. Finished(Raises(k)) /\ Finished(ModelRaises(k))
    BY <1>1 DEF ModelRaises, Raises, Returns, Task, Finished
  <2> HIDE DEF k
  <2>3. ASSUME Connects(t) \/ SeesModel(t) \/ Locks(t) \/ Loads(t)
        PROVE  \E r : /\ Becomes(t, r)
                      /\ \/ r \in {Raises(k), ModelRaises(k)}
                         \/ \E pc : r = Goes(k, pc)
    BY <2>3 DEF Connects, SeesModel, Locks, Loads, k
  <2>4. ASSUME Calls(t)
        PROVE  \E r \in CallOutcomes(k) : Becomes(t, r)
    BY <2>4 DEF Calls, k
  <2>5. \A r \in CallOutcomes(k) : Finished(r) \/ r.text = 0
    BY <1>1, OutcomeText DEF Finished
  <2> QED
    BY <2>1, <2>2, <2>3, <2>4, <2>5
<1> QED
  BY <1>2, <1>3, BecomesText

LEMMA TextStep ==
    ASSUME RetrievalInv, TextInv, [Next]_vars
    PROVE  TextInv'
<1>1. queue \in Seq(Task) /\ thread \in [Threads -> Task] /\ turns \in Nat
  BY DEF RetrievalInv, TypeOK
<1>2. ASSUME UNCHANGED thread, queue' \in {queue, <<>>}
      PROVE  TextInv'
  BY <1>2 DEF TextInv
<1>3. CASE Routes
  <2>1. UNCHANGED thread /\ queue' = queue \o Submitted(run'.waiting)
    BY <1>3 DEF Routes
  <2> DEFINE Blank == {k \in Task : k.text = 0}
  <2>2. \A w \in Tools : NewTask(turns, w) \in Blank
    BY <1>1, NewTaskType DEF NewTask
  <2>3. "support" \in Tools /\ "orders" \in Tools /\ "catalog" \in Tools
        /\ "history" \in Tools
    BY DEF Tools
  <2> HIDE DEF Blank
  <2>4. Submitted(run'.waiting) \in Seq(Blank)
    BY <2>2, <2>3 DEF Submitted
  <2>5. queue \in Seq(Blank)
    BY <1>1 DEF TextInv, Blank
  <2>6. queue' \in Seq(Blank)
    BY <2>1, <2>4, <2>5
  <2>7. \A i \in DOMAIN queue' : queue'[i] \in Blank
    BY <2>6
  <2> QED
    BY <2>1, <2>7 DEF TextInv, Blank
<1>4. CASE Begins \/ Synthesizes \/ Cancelled
  BY <1>2, <1>4 DEF Begins, Synthesizes, Cancelled, Withdraw, pool
<1>5. ASSUME NEW w \in Intents, Arrives(w) \/ Fails(w)
      PROVE  TextInv'
  BY <1>2, <1>5 DEF Arrives, Fails, Withdraw, pool
<1>6. ASSUME NEW t \in Threads, Takes(t)
      PROVE  TextInv'
  <2>1. /\ queue # <<>> /\ thread' = [thread EXCEPT ![t] = Head(queue)]
        /\ queue' = Tail(queue)
    BY <1>6 DEF Takes
  <2>2. /\ 1 \in DOMAIN queue /\ Head(queue) = queue[1]
        /\ \A i \in DOMAIN queue' : i + 1 \in DOMAIN queue
                                    /\ queue'[i] = queue[i + 1]
    BY <1>1, <2>1
  <2> QED
    BY <1>1, <2>1, <2>2 DEF TextInv
<1>7. CASE UNCHANGED vars
  BY <1>2, <1>7 DEF vars, pool
<1> QED
  BY <1>3, <1>4, <1>5, <1>6, <1>7, ThreadText DEF Next

-----------------------------------------------------------------------------
(* The theorem. *)

LEMMA RetrievalNextInv ==
    ASSUME RetrievalInv, [Next]_vars
    PROVE  RetrievalInv'
<1>1. GraphInv' /\ WaitInv'
  BY StepIsGraphStep, GraphPart DEF RetrievalInv, TypeOK, GraphInv
<1>2. CASE UNCHANGED vars
  BY <1>2 DEF vars, graphVars, pool, RetrievalInv, TypeOK, GraphTypeOK, JoinInv,
     SynthesizerSeesEveryContext, AttemptsBounded, ModelInv, TryInv, StartInv,
     WaitInv, PlaceInv, RouterInv, QueueIsCurrent, Idle, Threaded
<1>3. CASE Routes
  BY <1>1, <1>3, RoutesInv
<1>4. ASSUME NEW t \in Threads, \/ Takes(t) \/ Connects(t) \/ SeesModel(t)
                                \/ Locks(t) \/ Loads(t) \/ Calls(t)
      PROVE  RetrievalInv'
  BY <1>4, TakesInv, ThreadStepInv
<1> QED
  BY <1>1, <1>2, <1>3, <1>4, LoopStepInv DEF Next

\* A tool raises only after the lookups its program does not guard, and never
\* asks for more attempts than it has.
LEMMA RetrievalContains ==
    ASSUME RetrievalInv
    PROVE  TypeOK /\ OneModel /\ QueueIsCurrent /\ FailuresContained
<1>1. OneModel
  BY DEF RetrievalInv, ModelInv, OneModel
<1>2. ASSUME NEW t \in Threads, NEW k \in CallOutcomes(thread[t])
      PROVE  /\ k.pc = "raised" => thread[t].pc \in {"faq", "filter", "tickets"}
             /\ k.try <= SqlAttempts
  <2>1. thread[t] \in Task /\ thread[t].try \in 1 .. SqlAttempts
    BY DEF RetrievalInv, TypeOK, TryInv
  <2>2. k.try \in 1 .. SqlAttempts
        /\ (k.pc = "raised" => thread[t].pc \in {"faq", "filter", "tickets"})
    BY <2>1, CallFollows DEF Follows
  <2> QED
    BY <2>2, ToolsAssumption
<1> QED
  BY <1>1, <1>2 DEF RetrievalInv, FailuresContained

\* For any number of threads, turns and attempts: the embedding model is built
\* at most once; nothing that is queued belongs to a run that is over; and an
\* order lookup, once it has a client, never raises (model_loader.py:6-16,
\* nodes.py:130-153, tools.py:163-275).
THEOREM RetrievalSafety ==
    Spec => [](TypeOK /\ OneModel /\ QueueIsCurrent /\ FailuresContained)
<1>1. Spec => []RetrievalInv
  BY RetrievalInitInv, RetrievalNextInv, PTL DEF Spec
<1> QED
  BY <1>1, RetrievalContains, PTL

\* What a tool returns, and what Clip makes of a FAQ lookup's rows.
LEMMA TextsContained ==
    ASSUME RetrievalInv, TextInv
    PROVE  AnswersBounded /\ ClipKeepsWhatFits
<1>1. ASSUME NEW t \in Threads, NEW k \in CallOutcomes(thread[t]),
             k.text > TextBound
      PROVE  thread[t].pc = "last"
  <2>1. thread[t] \in Task /\ thread[t].text = 0
    BY DEF RetrievalInv, TypeOK, TextInv
  <2>2. thread[t].pc # "last" => k.text \in 0 .. TextBound
    BY <2>1, OutcomeText
  <2>3. TextBound \in Nat
    BY ToolsAssumption DEF TextBound
  <2> QED
    BY <1>1, <2>2, <2>3
<1>2. \A faqs \in Results : \A rows \in WithDocs(faqs) :
         Clip(rows) = ClipReference(rows)
  BY WithDocsRows, ClipIsReference
<1> QED
  BY <1>1, <1>2 DEF AnswersBounded, ClipKeepsWhatFits

\* Whatever the queries return: no text but the one of the catalog's own
\* handler is longer than the limit, one newline and the marker, and what is
\* kept of the rows is the longest run that fits (tools.py:24-33).
THEOREM TextsAreClipped == Spec => [](AnswersBounded /\ ClipKeepsWhatFits)
<1>1. Init => TextInv
  BY DEF Init, TextInv, Resting, NewTask
<1>2. Spec => [](RetrievalInv /\ TextInv)
  BY <1>1, RetrievalInitInv, RetrievalNextInv, TextStep, PTL DEF Spec
<1> QED
  BY <1>2, TextsContained, PTL

\* The join and the retry bound hold with real threads behind the workers.
THEOREM GraphSafetyHolds ==
    Spec => [](SynthesizerSeesEveryContext /\ AttemptsBounded)
BY ImplementsGraph, GraphSafety, PTL
=============================================================================
