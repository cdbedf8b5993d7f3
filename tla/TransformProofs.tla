--------------------------- MODULE TransformProofs ---------------------------
(***************************************************************************)
(* Proofs about the transforms of bars, for input of any length, any       *)
(* interval and any range: splitting, resampling and filling of gaps do    *)
(* what their reference definitions say.                                   *)
(***************************************************************************)
EXTENDS AlgorithmProofs

-----------------------------------------------------------------------------
(* Sums, rows of segments and periods                                      *)

\* The sum of the first n numbers.
Plus == [p \in Int \X Int |-> p[1] + p[2]]
TotalTo(numbers, n) == LoopStates(Plus, 0, numbers)[n]

\* A total is reached number by number.
LEMMA TotalToIs ==
    ASSUME NEW numbers \in Seq(Int)
    PROVE  /\ TotalTo(numbers, 0) = 0 /\ Total(numbers) = TotalTo(numbers, Len(numbers))
           /\ \A n \in 0..Len(numbers) : TotalTo(numbers, n) \in Int
           /\ \A n \in 1..Len(numbers) : TotalTo(numbers, n) = TotalTo(numbers, n - 1) + numbers[n]
  <1> DEFINE f == LoopStates(Plus, 0, numbers)
  <1>1. Plus \in [Int \X Int -> Int]
    BY DEF Plus
  <1>2. RunsThrough(f, Int, Plus, 0, numbers)
    <2> DEFINE Z == Int
    <2>1. Plus \in [Z \X Z -> Z] /\ 0 \in Z /\ numbers \in Seq(Z)
      BY <1>1
    <2> HIDE DEF Z, f
    <2>2. RunsThrough(LoopStates(Plus, 0, numbers), Z, Plus, 0, numbers)
      BY <2>1, LoopStatesAre
    <2> QED BY <2>2 DEF Z, f
  <1>3. f \in [0..Len(numbers) -> Int] /\ f[0] = 0
        /\ \A n \in 1..Len(numbers) : f[n] = Plus[<<f[n - 1], numbers[n]>>]
    <2> HIDE DEF f
    <2> QED BY <1>2 DEF RunsThrough
  <1>4. Total(numbers) = f[Len(numbers)]
    BY DEF Total, Loop, Plus
  <1>5. \A n : TotalTo(numbers, n) = f[n]
    BY DEF TotalTo
  <1> HIDE DEF f
  <1>6. ASSUME NEW n \in 1..Len(numbers) PROVE f[n] = f[n - 1] + numbers[n]
    <2>1. n - 1 \in 0..Len(numbers) /\ numbers[n] \in Int
      OBVIOUS
    <2>2. f[n - 1] \in Int
      BY <1>3, <2>1
    <2>3. Plus[<<f[n - 1], numbers[n]>>] = f[n - 1] + numbers[n]
      BY <2>1, <2>2 DEF Plus
    <2> QED BY <1>3, <2>3
  <1> QED BY <1>3, <1>4, <1>5, <1>6

\* One more number adds to the total.
LEMMA TotalAppend ==
    ASSUME NEW numbers \in Seq(Int), NEW e \in Int
    PROVE  Total(Append(numbers, e)) = Total(numbers) + e /\ Total(<<>>) = 0 /\ Total(numbers) \in Int
  <1>1. Plus \in [Int \X Int -> Int]
    BY DEF Plus
  <1>2. /\ Loop(Plus, 0, Append(numbers, e)) = Plus[<<Loop(Plus, 0, numbers), e>>]
        /\ Loop(Plus, 0, <<>>) = 0 /\ Loop(Plus, 0, numbers) \in Int
    <2> DEFINE Z == Int
    <2>1. Plus \in [Z \X Z -> Z] /\ 0 \in Z /\ numbers \in Seq(Z) /\ e \in Z
      BY <1>1
    <2> HIDE DEF Z
    <2>2. /\ Loop(Plus, 0, Append(numbers, e)) = Plus[<<Loop(Plus, 0, numbers), e>>]
          /\ Loop(Plus, 0, <<>>) = 0 /\ Loop(Plus, 0, numbers) \in Z
      BY <2>1, LoopAppend
    <2> QED BY <2>2 DEF Z
  <1>3. \A s : Total(s) = Loop(Plus, 0, s)
    BY DEF Total, Plus
  <1>4. Plus[<<Loop(Plus, 0, numbers), e>>] = Loop(Plus, 0, numbers) + e
    BY <1>2 DEF Plus
  <1> QED BY <1>2, <1>3, <1>4

\* Sequences of bars, and how rows of them are joined.
Lists == Seq(MarketBar)
JoinRows == [p \in Lists \X Lists |-> p[1] \o p[2]]
\* One more segment ends the row.
LEMMA RowAppend ==
    ASSUME NEW segments \in Seq(Lists), NEW s \in Lists
    PROVE  InOneRow(Append(segments, s)) = InOneRow(segments) \o s /\ InOneRow(<<>>) = <<>>
           /\ InOneRow(segments) \in Lists
  <1>1. JoinRows \in [Lists \X Lists -> Lists] /\ <<>> \in Lists
    BY DEF JoinRows, Lists
  <1> HIDE DEF Lists
  <1>2. /\ Loop(JoinRows, <<>>, Append(segments, s)) = JoinRows[<<Loop(JoinRows, <<>>, segments), s>>]
        /\ Loop(JoinRows, <<>>, <<>>) = <<>> /\ Loop(JoinRows, <<>>, segments) \in Lists
    BY <1>1, LoopAppend
  <1>3. \A x : InOneRow(x) = Loop(JoinRows, <<>>, x)
    BY DEF InOneRow, JoinRows, Lists
  <1>4. JoinRows[<<Loop(JoinRows, <<>>, segments), s>>] = Loop(JoinRows, <<>>, segments) \o s
    BY <1>2 DEF JoinRows
  <1> QED BY <1>2, <1>3, <1>4

\* The start of the period of a time, and of the next one.
LEMMA PeriodIs ==
    ASSUME NEW d \in Nat \ {0}, NEW t \in Nat, NEW q \in Nat
    PROVE  /\ t \div d \in Nat /\ q * d \in Nat
           /\ start_of_period(d, t) = (t \div d) * d /\ next_boundary(d, t) = (t \div d) * d + d
           /\ (t \div d) * d <= t /\ t < (t \div d) * d + d
           /\ (t < q * d + d <=> t \div d <= q)
           /\ (q * d) \div d = q /\ (q * d) % d = 0
  <1> DEFINE p == t \div d
  <1>1. p \in Nat /\ p * d <= t /\ t < p * d + d
    BY Division
  <1>2. t % d = t - p * d
    <2>1. t - p * d \in 0..(d - 1)
      BY <1>1
    <2> DEFINE r == t - p * d
    <2> HIDE DEF p
    <2>2. (p * d + r) % d = r
      BY <1>1, <2>1, QuotientIs
    <2>3. p * d \in Nat /\ p * d + r = t
      BY <1>1
    <2> QED BY <2>2, <2>3
  <1>3. start_of_period(d, t) = p * d
    <2> DEFINE m == p * d
               r == t % d
    <2>1. m \in Int /\ r = t - m
      BY <1>1, <1>2
    <2>2. start_of_period(d, t) = t - r
      BY DEF start_of_period
    <2> HIDE DEF m, p, r
    <2>3. start_of_period(d, t) = m
      BY <2>1, <2>2
    <2> QED BY <2>3 DEF m
  <1>4. q * d \in Nat /\ 0 \in 0..(d - 1)
    OBVIOUS
  <1>5. (q * d) \div d = q /\ (q * d) % d = 0
    <2>1. (q * d + 0) \div d = q /\ (q * d + 0) % d = 0
      BY <1>4, QuotientIs
    <2> QED BY <1>4, <2>1
  <1>6. ASSUME q < p PROVE ~(t < q * d + d)
    <2> HIDE DEF p
    <2>1. q * d + d <= p * d
      BY <1>1, <1>6, Apart
    <2> DEFINE a == q * d
               b == p * d
    <2>2. a \in Int /\ b \in Int
      BY <1>1
    <2> HIDE DEF a, b
    <2>3. a + d <= b /\ b <= t
      BY <1>1, <2>1 DEF a, b
    <2>4. ~(t < a + d)
      BY <2>2, <2>3
    <2> QED BY <2>4 DEF a
  <1>7. ASSUME p <= q PROVE t < q * d + d
    <2> HIDE DEF p
    <2> DEFINE a == q * d
               b == p * d
    <2>1. p = q \/ b + d <= a
      BY <1>1, <1>7, Apart
    <2>2. a \in Int /\ b \in Int /\ (p = q => a = b)
      BY <1>1
    <2> HIDE DEF a, b
    <2>3. t < b + d
      BY <1>1 DEF b
    <2>4. t < a + d
      BY <2>1, <2>2, <2>3
    <2> QED BY <2>4 DEF a
  <1>8. t < q * d + d <=> p <= q
    BY <1>1, <1>6, <1>7
  <1> QED BY <1>1, <1>3, <1>4, <1>5, <1>8 DEF next_boundary

\* The rest of a sequence.
LEMMA TailIs ==
    ASSUME NEW S, NEW s \in Seq(S), s # <<>>
    PROVE  /\ Tail(s) \in Seq(S) /\ Len(Tail(s)) = Len(s) - 1 /\ Len(s) \in Nat \ {0}
           /\ \A n \in 1..(Len(s) - 1) : Tail(s)[n] = s[n + 1] /\ n + 1 \in 1..Len(s)
           /\ \A n \in 1..Len(s) : s[n] \in S
  OBVIOUS

-----------------------------------------------------------------------------
(* Splitting                                                               *)

\* The segments finished so far: each within a period, in order of the periods.
Finished(d, segments) ==
    /\ segments \in Seq(Lists)
    /\ \A k \in 1..Len(segments) :
          /\ segments[k] # <<>>
          /\ \A i \in DOMAIN segments[k] : Period(d, segments[k][i]) = Period(d, segments[k][1])
    /\ \A k \in 1..(Len(segments) - 1) : Period(d, segments[k][1]) < Period(d, segments[k + 1][1])

\* The state after n bars: the segments and the current one are those bars.
Splitting(d, x, n, s) ==
    LET all == InOneRow(s.segments)
    IN  /\ \A i \in 1..(n - 1) : x[i].time <= x[i + 1].time
        /\ Len(all \o s.current) = n /\ \A i \in 1..n : (all \o s.current)[i] = x[i]
        /\ s.last = x[n].time /\ s.next = Period(d, x[n]) * d + d
        /\ s.current # <<>> /\ \A i \in DOMAIN s.current : Period(d, s.current[i]) = Period(d, x[n])
        /\ s.segments # <<>> => Period(d, s.segments[Len(s.segments)][1]) < Period(d, x[n])
\* The invariant of the loop, for input in order and out of it.
SplitKept(d, x, n, s) ==
    /\ s \in SplitState /\ Finished(d, s.segments)
    /\ s.ok => Splitting(d, x, n, s)
    /\ ~s.ok => ~Ascending(x) /\ IsPrefix(InOneRow(s.segments), x)

\* One more element of a sequence.
LEMMA OneMore ==
    ASSUME NEW S, NEW c \in Seq(S), NEW e \in S
    PROVE  /\ Append(c, e) \in Seq(S) /\ Len(Append(c, e)) = Len(c) + 1 /\ Append(c, e)[Len(c) + 1] = e
           /\ \A i \in 1..Len(c) : Append(c, e)[i] = c[i]
           /\ DOMAIN Append(c, e) = 1..(Len(c) + 1) /\ DOMAIN c = 1..Len(c)
           /\ Len(c) \in Nat /\ Append(c, e) # <<>> /\ <<e>> \in Seq(S) /\ c \o <<e>> = Append(c, e)
  OBVIOUS

\* A function on the first n positions is a sequence of that length.
LEMMA RowOfLength ==
    ASSUME NEW S, NEW n \in Nat, NEW r \in [1..n -> S]
    PROVE  r \in Seq(S) /\ Len(r) = n
  OBVIOUS

\* One more element of a joined sequence.
LEMMA JoinOneMore ==
    ASSUME NEW S, NEW r \in Seq(S), NEW c \in Seq(S), NEW e \in S
    PROVE  r \o Append(c, e) = Append(r \o c, e) /\ r \o c \in Seq(S)
  <1>1. r \o c \in Seq(S) /\ Append(c, e) \in Seq(S)
    OBVIOUS
  <1>2. Append(c, e) = c \o <<e>> /\ Append(r \o c, e) = (r \o c) \o <<e>> /\ <<e>> \in Seq(S)
    BY <1>1
  <1>3. r \o (c \o <<e>>) = (r \o c) \o <<e>>
    BY <1>2, ConcatAssociative
  <1> QED BY <1>1, <1>2, <1>3

\* One more segment that is finished.
LEMMA FinishedMore ==
    ASSUME NEW d, NEW segments, Finished(d, segments), NEW s \in Lists, s # <<>>,
           \A i \in DOMAIN s : Period(d, s[i]) = Period(d, s[1]),
           segments # <<>> => Period(d, segments[Len(segments)][1]) < Period(d, s[1])
    PROVE  Finished(d, Append(segments, s))
  <1> DEFINE more == Append(segments, s)
             L == Len(segments)
  <1>1. segments \in Seq(Lists)
    BY DEF Finished
  <1> HIDE DEF Lists
  <1>2. /\ more \in Seq(Lists) /\ Len(more) = L + 1 /\ L \in Nat /\ more[L + 1] = s
        /\ \A k \in 1..L : more[k] = segments[k]
    BY <1>1
  <1> HIDE DEF more
  <1>3. ASSUME NEW k \in 1..(L + 1)
        PROVE  more[k] # <<>> /\ \A i \in DOMAIN more[k] : Period(d, more[k][i]) = Period(d, more[k][1])
    BY <1>2 DEF Finished
  <1>4. ASSUME NEW k \in 1..L PROVE Period(d, more[k][1]) < Period(d, more[k + 1][1])
    <2>1. CASE k = L
      <3>1. more[k] = segments[L] /\ more[k + 1] = s /\ segments # <<>>
        BY <1>2, <2>1
      <3> QED BY <2>1, <3>1
    <2>2. CASE k # L
      <3>1. k \in 1..(L - 1) /\ k + 1 \in 1..L
        BY <1>2, <2>2
      <3>2. more[k] = segments[k] /\ more[k + 1] = segments[k + 1]
        BY <1>2, <3>1
      <3> QED BY <3>1, <3>2 DEF Finished
    <2> QED BY <2>1, <2>2
  <1> QED BY <1>2, <1>3, <1>4 DEF Finished, more

\* A bar that is split off keeps the invariant.
LEMMA SplitKeeps ==
    ASSUME NEW d \in Nat \ {0}, NEW x \in Lists, NEW n \in 1..(Len(x) - 1), NEW s, SplitKept(d, x, n, s)
    PROVE  SplitKept(d, x, n + 1, SplitStep(s, x[n + 1], d)) /\ SplitStep(s, x[n + 1], d) \in SplitState
  <1> DEFINE bar == x[n + 1]
             t == SplitStep(s, bar, d)
             all == InOneRow(s.segments)
             p == Period(d, x[n])
             q == Period(d, bar)
  <1>1. /\ n \in Nat /\ n + 1 \in 1..Len(x) /\ n \in 1..Len(x) /\ bar \in MarketBar /\ x[n] \in MarketBar
        /\ bar.time \in Nat /\ x[n].time \in Nat
    <2>1. x \in Seq(MarketBar)
      BY DEF Lists
    <2>2. Len(x) \in Nat
      BY <2>1
    <2>3. n \in Nat /\ n + 1 \in 1..Len(x) /\ n \in 1..Len(x)
      BY <2>2
    <2>4. \A i \in 1..Len(x) : x[i] \in MarketBar
      <3> HIDE DEF MarketBar
      <3> QED BY <2>1
    <2>5. \A b \in MarketBar : b.time \in Nat
      BY DEF MarketBar
    <2> QED BY <2>3, <2>4, <2>5
  <1>2. s \in SplitState /\ Finished(d, s.segments) /\ s.ok \in BOOLEAN
        /\ s.segments \in Seq(Lists) /\ s.current \in Lists /\ all \in Lists
    <2>1. s \in SplitState /\ Finished(d, s.segments)
      BY DEF SplitKept
    <2>2. s.ok \in BOOLEAN /\ s.segments \in Seq(Lists) /\ s.current \in Lists
      BY <2>1 DEF SplitState, Lists
    <2> QED BY <2>1, <2>2, RowAppend
  <1>3. p \in Nat /\ q \in Nat /\ (bar.time < p * d + d <=> q <= p) /\ (x[n].time <= bar.time => p <= q)
        /\ next_boundary(d, bar.time) = q * d + d /\ q * d \in Nat
    <2>1. \A r \in Nat : /\ x[n].time \div d \in Nat /\ bar.time \div d \in Nat
                         /\ (bar.time < r * d + d <=> bar.time \div d <= r)
                         /\ next_boundary(d, bar.time) = (bar.time \div d) * d + d
                         /\ (bar.time \div d) * d \in Nat
      BY <1>1, PeriodIs
    <2>2. x[n].time <= bar.time => x[n].time \div d <= bar.time \div d
      BY <1>1, DivisionMonotone
    <2> QED BY <2>1, <2>2 DEF Period
  <1>4. CASE ~s.ok
    <2>1. t = s
      BY <1>4 DEF SplitStep
    <2> QED BY <1>2, <1>4, <2>1 DEF SplitKept
  <1>5. CASE s.ok
    <2>1. Splitting(d, x, n, s)
      BY <1>5 DEF SplitKept
    <2>2. s.last = x[n].time /\ s.next = p * d + d
      BY <2>1 DEF Splitting
    <2>3. CASE bar.time < s.last
      <3>1. t = [s EXCEPT !.ok = FALSE]
        <4>1. ~(bar.time >= s.last)
          BY <1>1, <2>2, <2>3
        <4> QED BY <1>5, <2>3, <4>1 DEF SplitStep
      <3>2. t \in SplitState /\ t.ok = FALSE /\ t.segments = s.segments
        BY <1>2, <3>1 DEF SplitState
      <3>3. ~Ascending(x)
        <4>1. ~(x[n].time <= x[n + 1].time)
          BY <1>1, <2>2, <2>3
        <4> QED BY <4>1 DEF Ascending
      <3>4. IsPrefix(all, x)
        <4> DEFINE row == all \o s.current
        <4>1. Len(row) = n /\ \A i \in 1..n : row[i] = x[i]
          BY <2>1 DEF Splitting
        <4>2. Len(row) = Len(all) + Len(s.current) /\ Len(s.current) \in Nat /\ Len(all) \in Nat
              /\ \A i \in 1..Len(all) : row[i] = all[i]
          BY <1>2 DEF Lists
        <4> HIDE DEF row, all
        <4>3. Len(all) <= Len(x) /\ \A i \in 1..Len(all) : i \in 1..n /\ all[i] = x[i]
          BY <1>1, <4>1, <4>2
        <4>4. SubSeq(all, 1, Len(all)) = SubSeq(x, 1, Len(all))
          BY <1>2, <4>2, <4>3 DEF Lists
        <4> QED BY <4>3, <4>4 DEF IsPrefix
      <3> QED BY <1>2, <3>2, <3>3, <3>4 DEF SplitKept
    <2>4. CASE ~(bar.time < s.last)
      <3>0. x[n].time <= bar.time /\ p <= q
        <4>1. x[n].time <= bar.time
          BY <1>1, <2>2, <2>4
        <4> QED BY <1>3, <4>1
      <3>1. \A i \in 1..((n + 1) - 1) : x[i].time <= x[i + 1].time
        BY <1>1, <2>1, <3>0 DEF Splitting
      <3>2. CASE bar.time >= s.next
        <4>1. t = [s EXCEPT !.segments = Append(@, s.current), !.current = <<bar>>,
                            !.next = next_boundary(d, bar.time), !.last = bar.time]
          BY <1>1, <1>5, <2>2, <2>4, <3>0, <3>2 DEF SplitStep
        <4> DEFINE more == Append(s.segments, s.current)
        <4>2. more \in Seq(Lists) /\ <<bar>> \in Lists /\ InOneRow(more) = all \o s.current
          <5>1. InOneRow(more) = all \o s.current
            BY <1>2, RowAppend
          <5>2. <<bar>> \in Lists
            BY <1>1 DEF Lists
          <5> HIDE DEF Lists
          <5> QED BY <1>2, <5>1, <5>2
        <4>3. t \in SplitState /\ t.ok = TRUE /\ t.segments = more /\ t.current = <<bar>>
              /\ t.next = q * d + d /\ t.last = bar.time
          <5> HIDE DEF more, q, bar
          <5>1. q * d + d \in Nat
            BY <1>3
          <5> QED BY <1>1, <1>2, <1>3, <1>5, <4>1, <4>2, <5>1 DEF SplitState, Lists, more
        <4>4. p < q
          <5>1. ~(bar.time < p * d + d)
            <6> DEFINE b == p * d + d
            <6>1. b \in Int
              BY <1>3
            <6> HIDE DEF b
            <6>2. bar.time >= b
              BY <2>2, <3>2 DEF b
            <6> HIDE DEF bar
            <6>3. ~(bar.time < b)
              BY <1>1, <6>1, <6>2
            <6> QED BY <6>3 DEF b
          <5> QED BY <1>3, <5>1
        <4>5. s.current # <<>> /\ \A i \in DOMAIN s.current : Period(d, s.current[i]) = p
          BY <2>1 DEF Splitting
        <4>6. Period(d, s.current[1]) = p
          <5>1. 1 \in DOMAIN s.current
            BY <1>2, <4>5 DEF Lists
          <5> QED BY <4>5, <5>1
        <4>7. s.segments # <<>> => Period(d, s.segments[Len(s.segments)][1]) < p
          BY <2>1 DEF Splitting
        <4> HIDE DEF p, q
        <4>8. Finished(d, more)
          BY <1>2, <4>5, <4>6, <4>7, FinishedMore
        <4>9. more[Len(more)] = s.current
          <5> HIDE DEF Lists, all
          <5> QED BY <1>2
        <4>10. Len((all \o s.current) \o <<bar>>) = n + 1
               /\ \A i \in 1..(n + 1) : ((all \o s.current) \o <<bar>>)[i] = x[i]
          <5> DEFINE row == all \o s.current
          <5>1. row \in Lists /\ Len(row) = n /\ \A i \in 1..n : row[i] = x[i]
            <6>1. Len(row) = n /\ \A i \in 1..n : row[i] = x[i]
              BY <2>1 DEF Splitting
            <6>2. row \in Lists
              <7> HIDE DEF all
              <7> QED BY <1>2 DEF Lists
            <6> QED BY <6>1, <6>2
          <5> HIDE DEF row
          <5>2. Len(row \o <<bar>>) = n + 1 /\ (row \o <<bar>>)[n + 1] = bar
                /\ \A i \in 1..n : (row \o <<bar>>)[i] = row[i]
            <6> HIDE DEF bar
            <6>1. row \in Seq(MarketBar)
              BY <5>1 DEF Lists
            <6> QED BY <1>1, <5>1, <6>1, OneMore
          <5> DEFINE whole == row \o <<bar>>
          <5>3. \A i \in 1..(n + 1) : i \in 1..n \/ i = n + 1
            BY <1>1
          <5>4. Len(whole) = n + 1 /\ \A i \in 1..(n + 1) : whole[i] = x[i]
            <6> HIDE DEF whole, row
            <6> QED BY <5>1, <5>2, <5>3 DEF whole
          <5> QED BY <5>4 DEF row, whole
        <4>11. Splitting(d, x, n + 1, t)
          <5>1. InOneRow(t.segments) \o t.current = (all \o s.current) \o <<bar>>
            BY <4>2, <4>3
          <5>2. t.current # <<>> /\ \A i \in DOMAIN t.current : Period(d, t.current[i]) = q
            BY <4>3 DEF q
          <5>3. t.segments # <<>> => Period(d, t.segments[Len(t.segments)][1]) < q
            BY <4>3, <4>4, <4>6, <4>9
          <5>4. t.last = x[n + 1].time /\ t.next = Period(d, x[n + 1]) * d + d
            BY <4>3 DEF q
          <5> HIDE DEF t
          <5> QED BY <3>1, <4>10, <5>1, <5>2, <5>3, <5>4 DEF Splitting, q
        <4> QED BY <4>3, <4>8, <4>11 DEF SplitKept
      <3>3. CASE ~(bar.time >= s.next)
        <4>1. t = [s EXCEPT !.current = Append(@, bar), !.last = bar.time]
          BY <1>1, <1>5, <2>2, <2>4, <3>0, <3>3 DEF SplitStep
        <4> DEFINE more == Append(s.current, bar)
        <4>2. /\ more \in Lists /\ Len(more) = Len(s.current) + 1 /\ more[Len(s.current) + 1] = bar
              /\ \A i \in 1..Len(s.current) : more[i] = s.current[i]
              /\ DOMAIN more = 1..(Len(s.current) + 1) /\ DOMAIN s.current = 1..Len(s.current)
              /\ Len(s.current) \in Nat /\ more # <<>>
          <5> DEFINE cur == s.current
          <5>1. cur \in Seq(MarketBar) /\ bar \in MarketBar
            BY <1>1, <1>2 DEF Lists
          <5> HIDE DEF bar, cur
          <5>2. /\ Append(cur, bar) \in Seq(MarketBar) /\ Len(Append(cur, bar)) = Len(cur) + 1
                /\ Append(cur, bar)[Len(cur) + 1] = bar
                /\ \A i \in 1..Len(cur) : Append(cur, bar)[i] = cur[i]
                /\ DOMAIN Append(cur, bar) = 1..(Len(cur) + 1) /\ DOMAIN cur = 1..Len(cur)
                /\ Len(cur) \in Nat /\ Append(cur, bar) # <<>>
            BY <5>1, OneMore
          <5> QED BY <5>2 DEF cur, Lists
        <4> HIDE DEF more
        <4>3. t \in SplitState /\ t.ok = TRUE /\ t.segments = s.segments /\ t.current = more
              /\ t.next = s.next /\ t.last = bar.time
          <5> DEFINE time == bar.time
          <5>1. t = [s EXCEPT !.current = more, !.last = time]
            BY <4>1 DEF more
          <5>2. time \in Nat /\ more \in Seq(MarketBar)
            BY <1>1, <4>2 DEF Lists
          <5>3. s \in SplitState /\ s.ok = TRUE
            BY <1>2, <1>5
          <5> HIDE DEF t, time
          <5>4. t \in SplitState
            BY <5>1, <5>2, <5>3 DEF SplitState
          <5>5. t.ok = TRUE /\ t.segments = s.segments /\ t.current = more /\ t.next = s.next /\ t.last = time
            BY <5>1, <5>3 DEF SplitState
          <5> QED BY <5>4, <5>5 DEF time
        <4>4. p = q
          <5>1. bar.time < p * d + d
            <6> DEFINE b == p * d + d
            <6>1. b \in Int
              BY <1>3
            <6> HIDE DEF b
            <6>2. ~(bar.time >= b)
              BY <2>2, <3>3 DEF b
            <6> HIDE DEF bar
            <6>3. bar.time < b
              BY <1>1, <6>1, <6>2
            <6> QED BY <6>3 DEF b
          <5> QED BY <1>3, <3>0, <5>1
        <4>5. \A i \in DOMAIN more : Period(d, more[i]) = q
          <5>1. \A i \in DOMAIN s.current : Period(d, s.current[i]) = p
            BY <2>1 DEF Splitting
          <5> HIDE DEF p
          <5> QED BY <4>2, <4>4, <5>1 DEF q
        <4>6. s.segments # <<>> => Period(d, s.segments[Len(s.segments)][1]) < p
          BY <2>1 DEF Splitting
        <4>7. Len(all \o more) = n + 1 /\ \A i \in 1..(n + 1) : (all \o more)[i] = x[i]
          <5> DEFINE row == all \o s.current
          <5>1. row \in Lists /\ Len(row) = n /\ \A i \in 1..n : row[i] = x[i]
            <6>1. Len(row) = n /\ \A i \in 1..n : row[i] = x[i]
              BY <2>1 DEF Splitting
            <6>2. row \in Lists
              <7> HIDE DEF all
              <7> QED BY <1>2 DEF Lists
            <6> QED BY <6>1, <6>2
          <5>2. all \o more = Append(row, bar)
            <6> HIDE DEF all
            <6>1. all \in Seq(MarketBar) /\ s.current \in Seq(MarketBar)
              BY <1>2 DEF Lists
            <6> HIDE DEF bar
            <6> DEFINE c == s.current
            <6>2. c \in Seq(MarketBar) /\ bar \in MarketBar
              BY <1>1, <6>1
            <6> HIDE DEF c
            <6>3. all \o Append(c, bar) = Append(all \o c, bar)
              BY <6>1, <6>2, JoinOneMore
            <6> QED BY <6>3 DEF more, c
          <5> HIDE DEF row
          <5>3. Len(Append(row, bar)) = n + 1 /\ Append(row, bar)[n + 1] = bar
                /\ \A i \in 1..n : Append(row, bar)[i] = row[i]
            BY <1>1, <5>1 DEF Lists
          <5> QED BY <1>1, <5>1, <5>2, <5>3
        <4> HIDE DEF p, q
        <4>8. Splitting(d, x, n + 1, t)
          <5>1. t.last = x[n + 1].time /\ t.next = Period(d, x[n + 1]) * d + d
            BY <2>2, <4>3, <4>4 DEF q
          <5>2. t.segments # <<>> => Period(d, t.segments[Len(t.segments)][1]) < q
            BY <4>3, <4>4, <4>6
          <5> HIDE DEF t
          <5> QED BY <3>1, <4>2, <4>3, <4>5, <4>7, <5>1, <5>2 DEF Splitting, q
        <4> QED BY <1>2, <4>3, <4>8 DEF SplitKept
      <3> QED BY <3>2, <3>3
    <2> QED BY <2>3, <2>4
  <1> QED BY <1>2, <1>4, <1>5

\* A step of the loop gives a state of it.
LEMMA SplitStepTypes ==
    ASSUME NEW d \in Nat \ {0}, NEW s \in SplitState, NEW bar \in MarketBar
    PROVE  SplitStep(s, bar, d) \in SplitState
  <1> DEFINE t == SplitStep(s, bar, d)
  <1>1. s.ok \in BOOLEAN /\ s.segments \in Seq(Lists) /\ s.current \in Lists /\ s.last \in Nat /\ s.next \in Nat
    BY DEF SplitState, Lists
  <1>2. bar.time \in Nat
    BY DEF MarketBar
  <1>3. next_boundary(d, bar.time) \in Nat
    <2> DEFINE m == (bar.time \div d) * d
    <2>1. 0 \in Nat /\ bar.time \in Nat
      BY <1>2
    <2>2. bar.time \div d \in Nat /\ next_boundary(d, bar.time) = m + d
      BY <2>1, PeriodIs
    <2>3. m \in Nat
      BY <2>2
    <2> HIDE DEF m
    <2> QED BY <2>2, <2>3
  <1>4. CASE ~s.ok
    BY <1>4 DEF SplitStep
  <1>5. CASE s.ok /\ bar.time < s.last
    <2>1. ~(bar.time >= s.last)
      BY <1>1, <1>2, <1>5
    <2>2. t = [s EXCEPT !.ok = FALSE]
      BY <1>5, <2>1 DEF SplitStep
    <2> QED BY <2>2 DEF SplitState
  <1>6. CASE s.ok /\ ~(bar.time < s.last) /\ bar.time >= s.next
    <2>1. bar.time >= s.last
      BY <1>1, <1>2, <1>6
    <2>2. t = [s EXCEPT !.segments = Append(@, s.current), !.current = <<bar>>,
                        !.next = next_boundary(d, bar.time), !.last = bar.time]
      BY <1>6, <2>1 DEF SplitStep
    <2>3. Append(s.segments, s.current) \in Seq(Lists)
      <3> HIDE DEF Lists
      <3> QED BY <1>1
    <2>4. <<bar>> \in Seq(MarketBar)
      OBVIOUS
    <2> QED BY <1>2, <1>3, <2>2, <2>3, <2>4 DEF SplitState, Lists
  <1>7. CASE s.ok /\ ~(bar.time < s.last) /\ ~(bar.time >= s.next)
    <2>1. t = [s EXCEPT !.current = Append(@, bar), !.last = bar.time]
      BY <1>7 DEF SplitStep
    <2>2. Append(s.current, bar) \in Seq(MarketBar)
      BY <1>1, OneMore DEF Lists
    <2> QED BY <1>2, <2>1, <2>2 DEF SplitState
  <1> QED BY <1>1, <1>4, <1>5, <1>6, <1>7

\* Where the loop begins.
SplitStart(d, x) ==
    [ok |-> TRUE, segments |-> <<>>, current |-> <<x[1]>>, last |-> x[1].time, next |-> next_boundary(d, x[1].time)]

\* It begins with the invariant.
LEMMA SplitStarts ==
    ASSUME NEW d \in Nat \ {0}, NEW x \in Lists, x # <<>>
    PROVE  SplitStart(d, x) \in SplitState /\ SplitKept(d, x, 1, SplitStart(d, x))
  <1> DEFINE bar == x[1]
             s == SplitStart(d, x)
             q == Period(d, bar)
             one == <<bar>>
  <1>1. x \in Seq(MarketBar) /\ bar \in MarketBar
    BY DEF Lists
  <1>2. bar.time \in Nat
    BY <1>1 DEF MarketBar
  <1>3. q \in Nat /\ next_boundary(d, bar.time) = q * d + d /\ q * d \in Nat
    <2>1. 0 \in Nat
      OBVIOUS
    <2>2. bar.time \div d \in Nat /\ next_boundary(d, bar.time) = (bar.time \div d) * d + d
      BY <1>2, <2>1, PeriodIs
    <2>3. (bar.time \div d) * d \in Nat
      BY <2>2
    <2> QED BY <2>2, <2>3 DEF Period
  <1>4. one \in Lists /\ Len(one) = 1 /\ one[1] = bar /\ one # <<>> /\ DOMAIN one = 1..1
    <2> HIDE DEF bar
    <2> QED BY <1>1 DEF Lists
  <1>5. <<>> \in Seq(Lists) /\ InOneRow(<<>>) = <<>>
    <2>1. <<>> \in Seq(Lists)
      OBVIOUS
    <2> QED BY <1>4, <2>1, RowAppend
  <1>6. s.ok = TRUE /\ s.segments = <<>> /\ s.current = one /\ s.last = bar.time /\ s.next = q * d + d
    <2> HIDE DEF q
    <2> QED BY <1>3 DEF SplitStart
  <1>7. s \in SplitState
    <2> HIDE DEF q, one, bar
    <2>1. q * d + d \in Nat
      BY <1>3
    <2>2. one \in Seq(MarketBar) /\ <<>> \in Seq(Seq(MarketBar))
      BY <1>4 DEF Lists
    <2>3. next_boundary(d, bar.time) \in Nat
      BY <1>3, <2>1
    <2> QED BY <1>2, <2>2, <2>3 DEF SplitState, SplitStart, bar, one
  <1>8. Finished(d, s.segments)
    BY <1>5, <1>6 DEF Finished
  <1>9. Splitting(d, x, 1, s)
    <2>1. InOneRow(s.segments) \o s.current = one
      <3> HIDE DEF one
      <3>1. <<>> \o one = one
        BY <1>4 DEF Lists
      <3> HIDE DEF s
      <3> QED BY <1>5, <1>6, <3>1
    <2>2. \A i \in 1..(1 - 1) : x[i].time <= x[i + 1].time
      OBVIOUS
    <2>3. s.current # <<>> /\ \A i \in DOMAIN s.current : Period(d, s.current[i]) = Period(d, x[1])
      BY <1>4, <1>6
    <2>4. s.last = x[1].time /\ s.next = Period(d, x[1]) * d + d /\ s.segments = <<>>
      BY <1>6 DEF q
    <2>5. Len(one) = 1 /\ \A i \in 1..1 : one[i] = x[i]
      BY <1>4
    <2> HIDE DEF s, one
    <2> QED BY <2>1, <2>2, <2>3, <2>4, <2>5 DEF Splitting
  <1> HIDE DEF s
  <1>10. SplitKept(d, x, 1, s)
    BY <1>6, <1>7, <1>8, <1>9 DEF SplitKept
  <1> QED BY <1>7, <1>10 DEF s

\* It ends with the invariant, for all bars.
LEMMA SplitEnds ==
    ASSUME NEW d \in Nat \ {0}, NEW x \in Lists, x # <<>>
    PROVE  LET s == Loop([p \in SplitState \X MarketBar |-> SplitStep(p[1], p[2], d)], SplitStart(d, x), Tail(x))
           IN  s \in SplitState /\ SplitKept(d, x, Len(x), s)
  <1> DEFINE body == [p \in SplitState \X MarketBar |-> SplitStep(p[1], p[2], d)]
             start == SplitStart(d, x)
             rest == Tail(x)
             kept == {p \in Nat \X SplitState : SplitKept(d, x, p[1] + 1, p[2])}
  <1>1. body \in [SplitState \X MarketBar -> SplitState]
    BY SplitStepTypes
  <1>2. start \in SplitState /\ SplitKept(d, x, 1, start)
    BY SplitStarts
  <1>3. /\ rest \in Seq(MarketBar) /\ Len(rest) = Len(x) - 1 /\ Len(x) \in Nat \ {0}
        /\ \A n \in 1..(Len(x) - 1) : rest[n] = x[n + 1]
    <2>1. x \in Seq(MarketBar)
      BY DEF Lists
    <2> QED BY <2>1, TailIs
  <1> HIDE DEF start, rest
  <1>4. <<0, start>> \in kept
    BY <1>2
  <1>5. ASSUME NEW n \in 1..Len(rest), NEW s \in SplitState, <<n - 1, s>> \in kept
        PROVE  <<n, body[<<s, rest[n]>>]>> \in kept
    <2>1. n \in 1..(Len(x) - 1) /\ rest[n] = x[n + 1] /\ rest[n] \in MarketBar /\ n \in Nat
      BY <1>3
    <2>2. SplitKept(d, x, (n - 1) + 1, s)
      BY <1>5
    <2>3. SplitKept(d, x, n, s)
      <3>1. (n - 1) + 1 = n
        BY <2>1
      <3> QED BY <2>2, <3>1
    <2>4. SplitKept(d, x, n + 1, SplitStep(s, x[n + 1], d)) /\ SplitStep(s, x[n + 1], d) \in SplitState
      BY <2>1, <2>3, SplitKeeps
    <2>5. body[<<s, rest[n]>>] = SplitStep(s, x[n + 1], d)
      BY <2>1
    <2> HIDE DEF body
    <2> QED BY <2>1, <2>4, <2>5
  <1> HIDE DEF body, kept
  <1>6. <<Len(rest), Loop(body, start, rest)>> \in kept /\ Loop(body, start, rest) \in SplitState
    BY <1>1, <1>2, <1>3, <1>4, <1>5, LoopInvariant
  <1>7. SplitKept(d, x, Len(rest) + 1, Loop(body, start, rest))
    BY <1>6 DEF kept
  <1>8. Len(rest) + 1 = Len(x)
    BY <1>3
  <1> QED BY <1>6, <1>7, <1>8 DEF body, start, rest

\* Splitting gives the segments of the input, and says whether it is sorted.
LEMMA SplitIs ==
    ASSUME NEW d \in Nat \ {0}, NEW x \in Lists
    PROVE  LET a == split_bars(d, x)
               all == InOneRow(a.segments)
           IN  /\ Finished(d, a.segments) /\ a.ok = Ascending(x)
               /\ (a.ok => all = x) /\ (~a.ok => IsPrefix(all, x))
  <1> DEFINE a == split_bars(d, x)
  <1>1. CASE x = <<>>
    <2>1. a.ok = TRUE /\ a.segments = <<>>
      BY <1>1 DEF split_bars
    <2>2. Len(x) = 0 /\ <<>> \in Seq(Lists) /\ <<>> \in Lists
      BY <1>1 DEF Lists
    <2>3. InOneRow(<<>>) = <<>>
      BY <2>2, RowAppend
    <2>4. Ascending(x)
      BY <2>2 DEF Ascending
    <2>5. Finished(d, <<>>)
      BY <2>2 DEF Finished
    <2> QED BY <1>1, <2>1, <2>3, <2>4, <2>5
  <1>2. CASE x # <<>>
    <2> DEFINE s == Loop([p \in SplitState \X MarketBar |-> SplitStep(p[1], p[2], d)], SplitStart(d, x), Tail(x))
               all == InOneRow(s.segments)
    <2>1. s \in SplitState /\ SplitKept(d, x, Len(x), s)
      BY <1>2, SplitEnds
    <2>2. a = [ok |-> s.ok, segments |-> IF s.ok THEN Append(s.segments, s.current) ELSE s.segments]
      BY <1>2 DEF split_bars, SplitStart
    <2> HIDE DEF s, a
    <2>3. s.ok \in BOOLEAN /\ s.segments \in Seq(Lists) /\ s.current \in Lists /\ Finished(d, s.segments)
          /\ all \in Lists
      <3>1. s.ok \in BOOLEAN /\ s.segments \in Seq(Lists) /\ s.current \in Lists /\ Finished(d, s.segments)
        BY <2>1 DEF SplitState, SplitKept, Lists
      <3> QED BY <3>1, RowAppend
    <2>4. CASE ~s.ok
      <3>1. a.ok = FALSE /\ a.segments = s.segments
        BY <2>2, <2>3, <2>4
      <3>2. ~Ascending(x) /\ IsPrefix(all, x)
        BY <2>1, <2>4 DEF SplitKept
      <3>3. Ascending(x) = FALSE
        BY <3>2 DEF Ascending
      <3> QED BY <2>3, <3>1, <3>2, <3>3 DEF a
    <2>5. CASE s.ok
      <3> DEFINE more == Append(s.segments, s.current)
      <3>1. a.ok = TRUE /\ a.segments = more
        BY <2>2, <2>3, <2>5
      <3>2. Splitting(d, x, Len(x), s)
        BY <2>1, <2>5 DEF SplitKept
      <3>3. Ascending(x)
        BY <3>2 DEF Splitting, Ascending
      <3>4. InOneRow(more) = all \o s.current
        BY <2>3, RowAppend
      <3>5. all \o s.current = x
        <4> DEFINE row == all \o s.current
        <4>1. Len(row) = Len(x) /\ \A i \in 1..Len(x) : row[i] = x[i]
          BY <3>2 DEF Splitting
        <4>2. row \in Seq(MarketBar) /\ x \in Seq(MarketBar)
          <5> HIDE DEF all
          <5> QED BY <2>3 DEF Lists
        <4> HIDE DEF row
        <4>3. row = x
          BY <4>1, <4>2, SeqEqual
        <4> QED BY <4>3 DEF row
      <3>6. Finished(d, more)
        <4> DEFINE p == Period(d, x[Len(x)])
        <4>1. s.current # <<>> /\ \A i \in DOMAIN s.current : Period(d, s.current[i]) = p
          BY <3>2 DEF Splitting
        <4>2. s.segments # <<>> => Period(d, s.segments[Len(s.segments)][1]) < p
          BY <3>2 DEF Splitting
        <4>3. 1 \in DOMAIN s.current
          BY <2>3, <4>1 DEF Lists
        <4> HIDE DEF p
        <4>4. Period(d, s.current[1]) = p
          BY <4>1, <4>3
        <4> QED BY <2>3, <4>1, <4>2, <4>4, FinishedMore
      <3> HIDE DEF more
      <3> QED BY <3>1, <3>3, <3>4, <3>5, <3>6 DEF a
    <2> QED BY <2>3, <2>4, <2>5
  <1> QED BY <1>1, <1>2

-----------------------------------------------------------------------------
(* Resampling: one step                                                    *)

\* What is kept of the running bucket.
Running == [bucket : MarketBar, sum : Int, count : Nat \ {0}]
Modes == {"no_spread", "last", "max", "avg"}

\* The fields of a bar.
LEMMA BarIs ==
    ASSUME NEW bar \in MarketBar
    PROVE  /\ bar.time \in Nat /\ bar.open \in Int /\ bar.high \in Int /\ bar.low \in Int /\ bar.close \in Int
           /\ bar.volume \in Int /\ bar.spread \in Int
  BY DEF MarketBar

\* Bars with the same fields.
LEMMA SameBar ==
    ASSUME NEW a \in MarketBar, NEW b \in MarketBar, a.time = b.time, a.open = b.open, a.high = b.high,
           a.low = b.low, a.close = b.close, a.volume = b.volume, a.spread = b.spread
    PROVE  a = b
  BY DEF MarketBar

\* A bucket as its first bar leaves it.
LEMMA OpenedIs ==
    ASSUME NEW bar \in MarketBar, NEW t \in Nat
    PROVE  LET c == Opened(bar, t)
           IN  /\ c \in Running /\ c.bucket \in MarketBar /\ c.sum = bar.spread /\ c.count = 1
               /\ c.bucket.time = t /\ c.bucket.open = bar.open /\ c.bucket.high = bar.high
               /\ c.bucket.low = bar.low /\ c.bucket.close = bar.close /\ c.bucket.volume = bar.volume
               /\ c.bucket.spread = bar.spread
  BY DEF Opened, Running, MarketBar

\* A bucket that takes one more bar.
LEMMA JoinedIs ==
    ASSUME NEW c \in Running, NEW bar \in MarketBar, NEW mode
    PROVE  LET j == Joined(c, bar, mode)
           IN  /\ j \in Running /\ j.bucket \in MarketBar
               /\ j.bucket.time = c.bucket.time /\ j.bucket.open = c.bucket.open
               /\ j.bucket.high = Greatest(c.bucket.high, bar.high) /\ j.bucket.low = Least(c.bucket.low, bar.low)
               /\ j.bucket.close = bar.close /\ j.bucket.volume = c.bucket.volume + bar.volume
               /\ j.bucket.spread = IF mode = "max" THEN Greatest(c.bucket.spread, bar.spread) ELSE bar.spread
               /\ j.sum = c.sum + bar.spread /\ j.count = c.count + 1
  <1> DEFINE j == Joined(c, bar, mode)
             b == c.bucket
             h == Greatest(b.high, bar.high)
             l == Least(b.low, bar.low)
             v == b.volume + bar.volume
             g == Greatest(b.spread, bar.spread)
             w == IF mode = "max" THEN g ELSE bar.spread
             m == [b EXCEPT !.high = h, !.low = l, !.close = bar.close, !.volume = v, !.spread = w]
             z == c.sum + bar.spread
             k == c.count + 1
  <1>1. b \in MarketBar /\ c.sum \in Int /\ c.count \in Nat \ {0}
    BY DEF Running
  <1>2. h \in Int /\ l \in Int /\ v \in Int /\ g \in Int /\ w \in Int /\ bar.close \in Int /\ z \in Int
        /\ k \in Nat \ {0}
    BY <1>1, BarIs DEF Greatest, Least
  <1>3. j = [c EXCEPT !.bucket = m, !.sum = z, !.count = k]
    BY DEF Joined, Running, MarketBar
  <1> HIDE DEF h, l, v, g, z, k, j
  <1>4. /\ m \in MarketBar /\ m.time = b.time /\ m.open = b.open /\ m.high = h /\ m.low = l
        /\ m.close = bar.close /\ m.volume = v /\ m.spread = w
    <2> HIDE DEF w
    <2> QED BY <1>1, <1>2 DEF MarketBar
  <1> HIDE DEF m, w
  <1>5. j \in Running /\ j.bucket = m /\ j.sum = z /\ j.count = k
    BY <1>2, <1>3, <1>4 DEF Running
  <1> QED BY <1>4, <1>5 DEF j, h, l, v, g, z, k, w

\* A bucket as it is closed.
LEMMA ClosedIs ==
    ASSUME NEW c \in Running, NEW mode \in Modes
    PROVE  LET j == Closed(c, mode)
           IN  /\ j \in MarketBar
               /\ j.time = c.bucket.time /\ j.open = c.bucket.open /\ j.high = c.bucket.high
               /\ j.low = c.bucket.low /\ j.close = c.bucket.close /\ j.volume = c.bucket.volume
               /\ j.spread = CASE mode = "no_spread" -> 0 [] mode = "avg" -> c.sum \div c.count
                               [] OTHER -> c.bucket.spread
  <1> DEFINE b == c.bucket
             q == c.sum \div c.count
             w == CASE mode = "no_spread" -> 0 [] mode = "avg" -> q [] OTHER -> b.spread
             j == Closed(c, mode)
  <1>1. b \in MarketBar /\ c.sum \in Int /\ c.count \in Nat \ {0}
    BY DEF Running
  <1>2. q \in Int /\ b.spread \in Int
    BY <1>1, BarIs
  <1> HIDE DEF q
  <1>3. w \in Int
    BY <1>2 DEF Modes
  <1>4. j = [b EXCEPT !.spread = w]
    BY DEF Closed, q
  <1> HIDE DEF w, j
  <1>5. j \in MarketBar /\ j.time = b.time /\ j.open = b.open /\ j.high = b.high /\ j.low = b.low
        /\ j.close = b.close /\ j.volume = b.volume /\ j.spread = w
    BY <1>1, <1>3, <1>4 DEF MarketBar
  <1> QED BY <1>5 DEF j, w, q

\* A bar opens a bucket or joins the running one.
LEMMA ResampleStepTypes ==
    ASSUME NEW d \in Nat \ {0}, NEW mode \in Modes, NEW s \in ResampleState, NEW bar \in MarketBar
    PROVE  LET t == ResampleStep(s, bar, d, mode)
           IN  /\ t \in ResampleState
               /\ s.result \in Lists /\ s.current \in Running /\ s.next \in Nat
               /\ bar.time = s.next => /\ t.result = Append(s.result, Closed(s.current, mode))
                                       /\ t.current = Opened(bar, s.next) /\ t.next = s.next + d
               /\ bar.time # s.next => /\ t.result = s.result /\ t.next = s.next
                                       /\ t.current = Joined(s.current, bar, mode)
  <1> DEFINE t == ResampleStep(s, bar, d, mode)
             c == Closed(s.current, mode)
             o == Opened(bar, s.next)
             j == Joined(s.current, bar, mode)
             Z == ResampleState
  <1>1. s.result \in Lists /\ s.current \in Running /\ s.next \in Nat
    BY DEF ResampleState, Lists, Running
  <1>2. c \in MarketBar /\ o \in Running /\ j \in Running /\ s.next + d \in Nat
    <2>1. c \in MarketBar
      BY <1>1, ClosedIs
    <2>2. o \in Running
      BY <1>1, OpenedIs
    <2>3. j \in Running
      BY <1>1, JoinedIs
    <2> QED BY <1>1, <2>1, <2>2, <2>3
  <1>3. Append(s.result, c) \in Lists
    <2> HIDE DEF c
    <2> QED BY <1>1, <1>2, OneMore DEF Lists
  <1>4. Z = [result : Lists, current : Running, next : Nat]
    BY DEF ResampleState, Lists, Running
  <1>5. CASE bar.time = s.next
    <2>1. t = [result |-> Append(s.result, c), current |-> o, next |-> s.next + d]
      BY <1>5 DEF ResampleStep
    <2> HIDE DEF t, c, o, j, Z
    <2>2. t \in Z /\ t.result = Append(s.result, c) /\ t.current = o /\ t.next = s.next + d
      BY <1>2, <1>3, <1>4, <2>1
    <2> QED BY <1>1, <1>5, <2>2 DEF Z, t, c, o
  <1>6. CASE bar.time # s.next
    <2>1. t = [s EXCEPT !.current = j]
      BY <1>6 DEF ResampleStep
    <2>2. s \in Z
      OBVIOUS
    <2> HIDE DEF t, c, o, j, Z
    <2>3. t \in Z /\ t.result = s.result /\ t.current = j /\ t.next = s.next
      BY <1>2, <1>4, <2>1, <2>2
    <2> QED BY <1>1, <1>6, <2>3 DEF Z, t, j
  <1> QED BY <1>5, <1>6

\* Where the loop begins.
ResampleStart(x, d) ==
    [result |-> <<>>, current |-> Opened(x[1], start_of_period(d, x[1].time)),
     next |-> start_of_period(d, x[1].time) + d]

\* What every step keeps of the state of a resampling is true of its end.
LEMMA ResampledKeeps ==
    ASSUME NEW d \in Nat \ {0}, NEW mode \in Modes, NEW x \in Lists, x # <<>>, NEW kept,
           <<1, ResampleStart(x, d)>> \in kept,
           \A n \in 1..(Len(x) - 1), s \in ResampleState :
               <<n, s>> \in kept => <<n + 1, ResampleStep(s, x[n + 1], d, mode)>> \in kept
    PROVE  \E s \in ResampleState :
               /\ <<Len(x), s>> \in kept
               /\ Resampled(x, d, mode) = Append(s.result, Closed(s.current, mode))
  <1> DEFINE body == [p \in ResampleState \X MarketBar |-> ResampleStep(p[1], p[2], d, mode)]
             start == ResampleStart(x, d)
             rest == Tail(x)
             moved == {p \in Nat \X ResampleState : <<p[1] + 1, p[2]>> \in kept}
             bucket == start_of_period(d, x[1].time)
  <1>1. body \in [ResampleState \X MarketBar -> ResampleState]
    <2>1. \A s \in ResampleState, bar \in MarketBar : ResampleStep(s, bar, d, mode) \in ResampleState
      BY ResampleStepTypes
    <2> QED BY <2>1
  <1>2. /\ rest \in Seq(MarketBar) /\ Len(rest) = Len(x) - 1 /\ Len(x) \in Nat \ {0}
        /\ \A n \in 1..(Len(x) - 1) : rest[n] = x[n + 1]
        /\ x[1] \in MarketBar
    <2>1. x \in Seq(MarketBar)
      BY DEF Lists
    <2>2. /\ rest \in Seq(MarketBar) /\ Len(rest) = Len(x) - 1 /\ Len(x) \in Nat \ {0}
          /\ \A n \in 1..(Len(x) - 1) : rest[n] = x[n + 1]
          /\ \A n \in 1..Len(x) : x[n] \in MarketBar
      BY <2>1, TailIs
    <2> QED BY <2>2
  <1>3. start \in ResampleState
    <2>1. x[1].time \in Nat /\ 0 \in Nat
      BY <1>2, BarIs
    <2>2. x[1].time \div d \in Nat /\ bucket = (x[1].time \div d) * d
      BY <2>1, PeriodIs
    <2>3. bucket \in Nat
      BY <2>2
    <2> HIDE DEF bucket
    <2>4. Opened(x[1], bucket) \in Running
      BY <1>2, <2>3, OpenedIs
    <2>5. start = [result |-> <<>>, current |-> Opened(x[1], bucket), next |-> bucket + d]
      BY DEF ResampleStart, bucket
    <2>6. bucket + d \in Nat /\ <<>> \in Seq(MarketBar)
      BY <2>3
    <2> HIDE DEF start
    <2> QED BY <2>4, <2>5, <2>6 DEF ResampleState, Running
  <1>4. Resampled(x, d, mode) = Append(Loop(body, start, rest).result, Closed(Loop(body, start, rest).current, mode))
    BY DEF Resampled, ResampleStart
  <1> HIDE DEF start, rest
  <1>5. <<0, start>> \in moved
    BY <1>3 DEF start
  <1>6. ASSUME NEW n \in 1..Len(rest), NEW s \in ResampleState, <<n - 1, s>> \in moved
        PROVE  <<n, body[<<s, rest[n]>>]>> \in moved
    <2>1. n \in 1..(Len(x) - 1) /\ rest[n] = x[n + 1] /\ rest[n] \in MarketBar /\ n \in Nat
      BY <1>2
    <2>2. <<(n - 1) + 1, s>> \in kept /\ (n - 1) + 1 = n
      <3>1. <<(n - 1) + 1, s>> \in kept
        <4> HIDE DEF body
        <4> QED BY <1>6
      <3> QED BY <2>1, <3>1
    <2>3. <<n + 1, ResampleStep(s, x[n + 1], d, mode)>> \in kept
      BY <2>1, <2>2
    <2>4. body[<<s, rest[n]>>] = ResampleStep(s, x[n + 1], d, mode) /\ body[<<s, rest[n]>>] \in ResampleState
      BY <1>1, <2>1
    <2> HIDE DEF body
    <2> QED BY <2>1, <2>3, <2>4
  <1> HIDE DEF body, moved
  <1>7. <<Len(rest), Loop(body, start, rest)>> \in moved /\ Loop(body, start, rest) \in ResampleState
    BY <1>1, <1>2, <1>3, <1>5, <1>6, LoopInvariant
  <1>8. <<Len(rest) + 1, Loop(body, start, rest)>> \in kept /\ Len(rest) + 1 = Len(x)
    BY <1>2, <1>7 DEF moved
  <1> QED BY <1>4, <1>7, <1>8

-----------------------------------------------------------------------------
(* Resampling: every bar is counted once                                   *)

\* What the greatest and the least of a set are.
LEMMA GreatestOf ==
    ASSUME NEW S \in SUBSET Int, NEW m \in S, \A y \in S : y <= m
    PROVE  Max(S) = m
  <1>1. \E x \in S : \A y \in S : x >= y
    OBVIOUS
  <1>2. Max(S) \in S /\ \A y \in S : Max(S) >= y
    <2> DEFINE M == CHOOSE x \in S : \A y \in S : x >= y
    <2>1. M \in S /\ \A y \in S : M >= y
      BY <1>1
    <2> QED BY <2>1 DEF Max
  <1>3. Max(S) \in Int /\ Max(S) >= m /\ m >= Max(S) /\ m \in Int
    BY <1>2
  <1> QED BY <1>3

LEMMA LeastOf ==
    ASSUME NEW S \in SUBSET Int, NEW m \in S, \A y \in S : m <= y
    PROVE  Min(S) = m
  <1>1. \E x \in S : \A y \in S : x =< y
    OBVIOUS
  <1>2. Min(S) \in S /\ \A y \in S : Min(S) =< y
    <2> DEFINE M == CHOOSE x \in S : \A y \in S : x =< y
    <2>1. M \in S /\ \A y \in S : M =< y
      BY <1>1
    <2> QED BY <2>1 DEF Min
  <1>3. Min(S) \in Int /\ Min(S) <= m /\ m <= Min(S) /\ m \in Int
    BY <1>2
  <1> QED BY <1>3

\* The last of an appended row.
LEMMA VolumeAppend ==
    ASSUME NEW rows \in Lists, NEW b \in MarketBar
    PROVE  /\ Field_of(rows, "volume") \in Seq(Int)
           /\ Total(Field_of(Append(rows, b), "volume")) = Total(Field_of(rows, "volume")) + b.volume
           /\ Total(Field_of(rows, "volume")) \in Int
  <1> DEFINE more == Append(rows, b)
             f == Field_of(rows, "volume")
             g == Field_of(more, "volume")
             N == Len(rows)
  <1>1. rows \in Seq(MarketBar) /\ b.volume \in Int
    BY BarIs DEF Lists
  <1>2. /\ more \in Seq(MarketBar) /\ Len(more) = N + 1 /\ N \in Nat /\ more[N + 1] = b
        /\ DOMAIN rows = 1..N /\ DOMAIN more = 1..(N + 1) /\ \A i \in 1..N : more[i] = rows[i]
    BY <1>1, OneMore
  <1> HIDE DEF more
  <1>3. \A i \in 1..N : rows[i] \in MarketBar /\ rows[i].volume \in Int
    BY <1>1, BarIs
  <1>4. f \in Seq(Int) /\ Len(f) = N /\ \A i \in 1..N : f[i] = rows[i].volume
    <2>1. f = [i \in 1..N |-> rows[i].volume]
      BY <1>2 DEF Field_of
    <2> HIDE DEF f
    <2> QED BY <1>2, <1>3, <2>1
  <1>5. g = Append(f, b.volume)
    <2>1. g = [i \in 1..(N + 1) |-> more[i].volume]
      BY <1>2 DEF Field_of
    <2> HIDE DEF f, g
    <2>2. \A i \in 1..(N + 1) : more[i].volume \in Int
      <3>1. \A i \in 1..(N + 1) : more[i] \in MarketBar
        BY <1>2
      <3> QED BY <3>1, BarIs
    <2>3. g \in Seq(Int) /\ Len(g) = N + 1
      BY <1>2, <2>1, <2>2
    <2>4. Append(f, b.volume) \in Seq(Int) /\ Len(Append(f, b.volume)) = N + 1
          /\ Append(f, b.volume)[N + 1] = b.volume /\ \A i \in 1..N : Append(f, b.volume)[i] = f[i]
      BY <1>1, <1>4, OneMore
    <2> DEFINE h == Append(f, b.volume)
    <2> HIDE DEF h
    <2>5. \A i \in 1..(N + 1) : g[i] = h[i]
      <3>1. \A i \in 1..(N + 1) : g[i] = more[i].volume /\ (i \in 1..N \/ i = N + 1)
        BY <1>2, <2>1
      <3> QED BY <1>2, <1>4, <2>4, <3>1 DEF h
    <2>6. h \in Seq(Int) /\ Len(h) = N + 1
      BY <2>4 DEF h
    <2>7. g = h
      BY <2>3, <2>5, <2>6, SeqEqual
    <2> QED BY <2>7 DEF h
  <1> HIDE DEF f, g
  <1>6. Total(g) = Total(f) + b.volume /\ Total(f) \in Int
    BY <1>1, <1>4, <1>5, TotalAppend
  <1> QED BY <1>4, <1>6 DEF f, g, more

\* The bars of rows are made of the first n bars of x, each counted once.
Once(d, x, n, rows) ==
    /\ rows \in Lists /\ rows # <<>>
    /\ Total(Field_of(rows, "volume")) = TotalTo(Field_of(x, "volume"), n)
    /\ rows[1].open = x[1].open /\ rows[Len(rows)].close = x[n].close
    /\ \A k \in 1..Len(rows) : \E i \in 1..n : rows[k].high = x[i].high
    /\ \A i \in 1..n : \E k \in 1..Len(rows) : x[i].high <= rows[k].high
    /\ \A k \in 1..Len(rows) : \E i \in 1..n : rows[k].low = x[i].low
    /\ \A i \in 1..n : \E k \in 1..Len(rows) : rows[k].low <= x[i].low
    /\ \A k \in 1..Len(rows) : rows[k].time % d = 0
    /\ \A k \in 1..(Len(rows) - 1) : rows[k].time < rows[k + 1].time

\* The volume of the first bars.
LEMMA VolumeOf ==
    ASSUME NEW x \in Lists
    PROVE  LET f == Field_of(x, "volume")
           IN  /\ TotalTo(f, 0) = 0 /\ Total(f) = TotalTo(f, Len(x))
               /\ \A n \in 0..Len(x) : TotalTo(f, n) \in Int
               /\ \A n \in 1..Len(x) : TotalTo(f, n) = TotalTo(f, n - 1) + x[n].volume
  <1> DEFINE f == Field_of(x, "volume")
             N == Len(x)
  <1>1. x \in Seq(MarketBar)
    BY DEF Lists
  <1>2. N \in Nat /\ DOMAIN x = 1..N /\ \A i \in 1..N : x[i] \in MarketBar
    BY <1>1
  <1>3. \A i \in 1..N : x[i].volume \in Int
    BY <1>2, BarIs
  <1>4. f = [i \in 1..N |-> x[i].volume]
    BY <1>2 DEF Field_of
  <1> HIDE DEF f
  <1>5. f \in Seq(Int) /\ Len(f) = N /\ \A i \in 1..N : f[i] = x[i].volume
    BY <1>2, <1>3, <1>4
  <1> HIDE DEF N
  <1>6. /\ TotalTo(f, 0) = 0 /\ Total(f) = TotalTo(f, Len(f))
        /\ \A n \in 0..Len(f) : TotalTo(f, n) \in Int
        /\ \A n \in 1..Len(f) : TotalTo(f, n) = TotalTo(f, n - 1) + f[n]
    BY <1>5, TotalToIs
  <1>7. /\ TotalTo(f, 0) = 0 /\ Total(f) = TotalTo(f, N)
        /\ \A n \in 0..N : TotalTo(f, n) \in Int
        /\ \A n \in 1..N : TotalTo(f, n) = TotalTo(f, n - 1) + x[n].volume
    BY <1>5, <1>6
  <1> QED BY <1>7 DEF f, N

\* The first bar opens the first bucket.
LEMMA OnceStarts ==
    ASSUME NEW d, NEW x \in Lists, x # <<>>, NEW b \in MarketBar, b.time % d = 0, b.open = x[1].open,
           b.high = x[1].high, b.low = x[1].low, b.close = x[1].close, b.volume = x[1].volume
    PROVE  Once(d, x, 1, Append(<<>>, b))
  <1> DEFINE A == Append(<<>>, b)
  <1>1. x \in Seq(MarketBar) /\ <<>> \in Seq(MarketBar) /\ <<>> \in Lists
    BY DEF Lists
  <1>2. x[1] \in MarketBar /\ Len(x) \in Nat \ {0} /\ 1 \in 1..Len(x)
    BY <1>1
  <1>3. A \in Lists /\ Len(A) = 1 /\ A[1] = b /\ A # <<>>
    <2>1. Len(<<>>) = 0
      OBVIOUS
    <2> QED BY <1>1, <2>1, OneMore DEF Lists
  <1>4. Total(Field_of(A, "volume")) = TotalTo(Field_of(x, "volume"), 1)
    <2>1. Total(Field_of(A, "volume")) = Total(Field_of(<<>>, "volume")) + b.volume
      BY <1>1, VolumeAppend
    <2>2. Field_of(<<>>, "volume") = <<>>
      BY DEF Field_of
    <2>3. Total(<<>>) = 0
      <3>1. <<>> \in Seq(Int) /\ 0 \in Int
        OBVIOUS
      <3> QED BY <3>1, TotalAppend
    <2>4. TotalTo(Field_of(x, "volume"), 1) = TotalTo(Field_of(x, "volume"), 1 - 1) + x[1].volume
          /\ TotalTo(Field_of(x, "volume"), 0) = 0
      BY <1>2, VolumeOf
    <2> QED BY <2>1, <2>2, <2>3, <2>4
  <1>5. \A k \in 1..1 : k = 1
    OBVIOUS
  <1>6. x[1].high <= x[1].high /\ x[1].low <= x[1].low
    BY <1>2, BarIs
  <1> HIDE DEF A
  <1> QED BY <1>3, <1>4, <1>5, <1>6 DEF Once, A

\* A bar that opens a bucket is counted once.
LEMMA OnceOpens ==
    ASSUME NEW d, NEW x \in Lists, NEW n \in 1..(Len(x) - 1), NEW rows, Once(d, x, n, rows),
           NEW b \in MarketBar, b.time % d = 0, rows[Len(rows)].time < b.time,
           b.open = x[n + 1].open, b.high = x[n + 1].high, b.low = x[n + 1].low, b.close = x[n + 1].close,
           b.volume = x[n + 1].volume
    PROVE  Once(d, x, n + 1, Append(rows, b))
  <1> DEFINE A == Append(rows, b)
             m == Len(rows)
             e == x[n + 1]
  <1>1. x \in Seq(MarketBar) /\ rows \in Seq(MarketBar) /\ rows # <<>> /\ rows \in Lists
    BY DEF Lists, Once
  <1>2. e \in MarketBar /\ n \in Nat /\ n + 1 \in 1..Len(x) /\ n \in 1..Len(x)
        /\ \A i \in 1..(n + 1) : i \in 1..n \/ i = n + 1
    BY <1>1
  <1>3. A \in Lists /\ Len(A) = m + 1 /\ A[m + 1] = b /\ A # <<>> /\ m \in Nat \ {0}
        /\ \A k \in 1..m : A[k] = rows[k]
    <2>1. m # 0
      BY <1>1
    <2> QED BY <1>1, <2>1, OneMore DEF Lists
  <1>4. Total(Field_of(A, "volume")) = TotalTo(Field_of(x, "volume"), n + 1)
    <2>1. Total(Field_of(A, "volume")) = Total(Field_of(rows, "volume")) + b.volume
      BY <1>1, VolumeAppend
    <2>2. TotalTo(Field_of(x, "volume"), n + 1) = TotalTo(Field_of(x, "volume"), (n + 1) - 1) + e.volume
      BY <1>2, VolumeOf
    <2>3. (n + 1) - 1 = n
      BY <1>2
    <2>4. Total(Field_of(rows, "volume")) = TotalTo(Field_of(x, "volume"), n)
      BY DEF Once
    <2> QED BY <2>1, <2>2, <2>3, <2>4
  <1>5. A[1].open = x[1].open /\ A[Len(A)].close = x[n + 1].close
    <2>1. rows[1].open = x[1].open
      BY DEF Once
    <2> HIDE DEF A
    <2> QED BY <1>3, <2>1
  <1>6. e.high <= e.high /\ e.low <= e.low
    BY <1>2, BarIs
  <1>7. \A k \in 1..(m + 1) : k \in 1..m \/ k = m + 1
    BY <1>3
  <1> HIDE DEF A
  <1>8. ASSUME NEW k \in 1..(m + 1)
        PROVE  /\ \E i \in 1..(n + 1) : A[k].high = x[i].high
               /\ \E i \in 1..(n + 1) : A[k].low = x[i].low
               /\ A[k].time % d = 0
    <2>1. CASE k \in 1..m
      <3>1. /\ \E i \in 1..n : rows[k].high = x[i].high
            /\ \E i \in 1..n : rows[k].low = x[i].low
            /\ rows[k].time % d = 0
        BY <2>1 DEF Once
      <3>2. 1..n \subseteq 1..(n + 1)
        BY <1>2
      <3> QED BY <1>3, <2>1, <3>1, <3>2
    <2>2. CASE k = m + 1
      <3>1. n + 1 \in 1..(n + 1)
        BY <1>2
      <3> QED BY <1>3, <2>2, <3>1
    <2> QED BY <1>7, <2>1, <2>2
  <1>9. ASSUME NEW i \in 1..(n + 1)
        PROVE  /\ \E k \in 1..(m + 1) : x[i].high <= A[k].high
               /\ \E k \in 1..(m + 1) : A[k].low <= x[i].low
    <2>1. CASE i \in 1..n
      <3>1. /\ \E k \in 1..m : x[i].high <= rows[k].high
            /\ \E k \in 1..m : rows[k].low <= x[i].low
        BY <2>1 DEF Once
      <3>2. 1..m \subseteq 1..(m + 1)
        BY <1>3
      <3> QED BY <1>3, <3>1, <3>2
    <2>2. CASE i = n + 1
      <3>1. m + 1 \in 1..(m + 1)
        BY <1>3
      <3> QED BY <1>3, <1>6, <2>2, <3>1
    <2> QED BY <1>2, <2>1, <2>2
  <1>10. ASSUME NEW k \in 1..((m + 1) - 1) PROVE A[k].time < A[k + 1].time
    <2>1. k \in 1..m /\ (k = m \/ k \in 1..(m - 1)) /\ k + 1 \in 1..(m + 1)
      BY <1>3
    <2>2. CASE k = m
      BY <1>3, <2>1, <2>2
    <2>3. CASE k \in 1..(m - 1)
      <3>1. rows[k].time < rows[k + 1].time
        BY <2>3 DEF Once
      <3>2. k + 1 \in 1..m
        BY <1>3, <2>3
      <3> QED BY <1>3, <2>1, <3>1, <3>2
    <2> QED BY <2>1, <2>2, <2>3
  <1> DEFINE N == m + 1
             z == n + 1
  <1>11. Once(d, x, z, A)
    <2>1. Len(A) = N
      BY <1>3
    <2> HIDE DEF e, m, N
    <2>2. \A k \in 1..N : /\ \E i \in 1..z : A[k].high = x[i].high
                          /\ \E i \in 1..z : A[k].low = x[i].low
                          /\ A[k].time % d = 0
      BY <1>8 DEF N
    <2>3. \A i \in 1..z : /\ \E k \in 1..N : x[i].high <= A[k].high
                          /\ \E k \in 1..N : A[k].low <= x[i].low
      BY <1>9 DEF N
    <2>4. \A k \in 1..(N - 1) : A[k].time < A[k + 1].time
      BY <1>10 DEF N
    <2>5. Total(Field_of(A, "volume")) = TotalTo(Field_of(x, "volume"), z)
      BY <1>4
    <2>6. A[1].open = x[1].open /\ A[Len(A)].close = x[z].close
      BY <1>5
    <2>7. A \in Lists /\ A # <<>>
      BY <1>3
    <2> HIDE DEF z
    <2> QED BY <2>1, <2>2, <2>3, <2>4, <2>5, <2>6, <2>7 DEF Once
  <1> QED BY <1>11 DEF A

\* The last row takes the next bar, or only another spread.
LEMMA OnceMoves ==
    ASSUME NEW d, NEW x \in Lists, NEW n \in 1..Len(x), NEW next \in 1..Len(x), NEW r \in Lists,
           NEW b \in MarketBar, NEW j \in MarketBar, Once(d, x, n, Append(r, b)),
           j.time = b.time, j.open = b.open, j.close = x[next].close,
           \/ next = n /\ j.high = b.high /\ j.low = b.low /\ j.volume = b.volume
           \/ /\ next = n + 1 /\ j.high = Greatest(b.high, x[next].high) /\ j.low = Least(b.low, x[next].low)
              /\ j.volume = b.volume + x[next].volume
    PROVE  Once(d, x, next, Append(r, j))
  <1> DEFINE A == Append(r, b)
             B == Append(r, j)
             m == Len(r) + 1
             f == Field_of(x, "volume")
             v == TotalTo(f, n)
             w == TotalTo(f, next)
  <1>1. x \in Seq(MarketBar) /\ r \in Seq(MarketBar)
    BY DEF Lists
  <1>2. x[next] \in MarketBar /\ x[n] \in MarketBar /\ n \in Nat /\ next \in Nat /\ Len(x) \in Nat
        /\ \A i \in 1..(n + 1) : i \in 1..n \/ i = n + 1
    BY <1>1
  <1>3. /\ A \in Lists /\ Len(A) = m /\ A[m] = b /\ A # <<>> /\ m \in Nat \ {0}
        /\ B \in Lists /\ Len(B) = m /\ B[m] = j /\ B # <<>>
        /\ \A k \in 1..(m - 1) : A[k] = r[k] /\ B[k] = r[k]
        /\ \A k \in 1..m : k \in 1..(m - 1) \/ k = m
    <2>1. /\ A \in Lists /\ Len(A) = m /\ A[m] = b /\ A # <<>> /\ Len(r) \in Nat
          /\ \A k \in 1..Len(r) : A[k] = r[k]
      BY <1>1, OneMore DEF Lists
    <2>2. /\ B \in Lists /\ Len(B) = m /\ B[m] = j /\ B # <<>>
          /\ \A k \in 1..Len(r) : B[k] = r[k]
      BY <1>1, OneMore DEF Lists
    <2>3. m - 1 = Len(r)
      BY <2>1
    <2> HIDE DEF A, B
    <2> QED BY <2>1, <2>2, <2>3
  <1>4. Total(Field_of(B, "volume")) = w
    <2>1. Total(Field_of(A, "volume")) = Total(Field_of(r, "volume")) + b.volume
          /\ Total(Field_of(B, "volume")) = Total(Field_of(r, "volume")) + j.volume
          /\ Total(Field_of(r, "volume")) \in Int
      BY VolumeAppend
    <2>2. Total(Field_of(A, "volume")) = v
      BY DEF Once
    <2>3. next = n + 1 => w = v + x[next].volume
      <3>1. w = TotalTo(f, next - 1) + x[next].volume
        BY VolumeOf
      <3>2. next = n + 1 => next - 1 = n
        BY <1>2
      <3> QED BY <3>1, <3>2
    <2>4. j.volume \in Int /\ b.volume \in Int /\ x[next].volume \in Int
      BY <1>2, BarIs
    <2>5. next = n => w = v
      OBVIOUS
    <2> HIDE DEF A, B, f, v, w
    <2> QED BY <2>1, <2>2, <2>3, <2>4, <2>5
  <1>5. \A i \in 1..Len(x) : x[i].high \in Int /\ x[i].low \in Int
    BY <1>1, BarIs
  <1>6. /\ b.high \in Int /\ b.low \in Int /\ b.high <= j.high /\ j.low <= b.low /\ j.high \in Int /\ j.low \in Int
        /\ x[next].high \in Int /\ x[next].low \in Int
        /\ next = n + 1 => /\ x[next].high <= j.high /\ j.low <= x[next].low
                           /\ j.high \in {b.high, x[next].high} /\ j.low \in {b.low, x[next].low}
        /\ next = n => j.high = b.high /\ j.low = b.low
        /\ next = n \/ next = n + 1
    <2>1. /\ b.high \in Int /\ b.low \in Int /\ j.high \in Int /\ j.low \in Int
          /\ x[next].high \in Int /\ x[next].low \in Int
      BY <1>2, BarIs
    <2> QED BY <1>2, <2>1 DEF Greatest, Least
  <1> HIDE DEF A, B
  <1>7. B[1].open = x[1].open /\ B[Len(B)].close = x[next].close
    <2>1. A[1].open = x[1].open
      BY DEF Once, A
    <2>2. B[1].open = A[1].open
      <3>1. 1 \in 1..m
        BY <1>3
      <3> QED BY <1>3, <3>1
    <2> QED BY <1>3, <2>1, <2>2
  <1>8. 1..n \subseteq 1..next /\ next \in 1..next
    BY <1>2, <1>6
  <1>9. ASSUME NEW k \in 1..m
        PROVE  /\ \E i \in 1..next : B[k].high = x[i].high
               /\ \E i \in 1..next : B[k].low = x[i].low
               /\ B[k].time % d = 0
    <2>1. /\ \E i \in 1..n : A[k].high = x[i].high
          /\ \E i \in 1..n : A[k].low = x[i].low
          /\ A[k].time % d = 0
      BY <1>3 DEF Once, A
    <2>2. CASE k \in 1..(m - 1)
      BY <1>3, <1>8, <2>1, <2>2
    <2>3. CASE k = m
      <3>1. B[k] = j /\ A[k] = b
        BY <1>3, <2>3
      <3>2. B[k].time % d = 0
        BY <2>1, <3>1
      <3>3. \E i \in 1..next : B[k].high = x[i].high
        BY <1>6, <1>8, <2>1, <3>1
      <3>4. \E i \in 1..next : B[k].low = x[i].low
        BY <1>6, <1>8, <2>1, <3>1
      <3> QED BY <3>2, <3>3, <3>4
    <2> QED BY <1>3, <2>2, <2>3
  <1>10. ASSUME NEW i \in 1..next
         PROVE  /\ \E k \in 1..m : x[i].high <= B[k].high
                /\ \E k \in 1..m : B[k].low <= x[i].low
    <2>1. CASE i \in 1..n
      <3>1. PICK k \in 1..m : x[i].high <= A[k].high
        BY <1>3, <2>1 DEF Once, A
      <3>2. PICK l \in 1..m : A[l].low <= x[i].low
        BY <1>3, <2>1 DEF Once, A
      <3>3. x[i].high \in Int /\ x[i].low \in Int
        BY <1>2, <1>5, <2>1
      <3>4. x[i].high <= B[k].high
        <4>1. CASE k = m
          <5>1. x[i].high <= b.high
            BY <1>3, <3>1, <4>1
          <5>2. b.high <= j.high /\ b.high \in Int /\ j.high \in Int
            BY <1>6
          <5>3. x[i].high <= j.high
            BY <3>3, <5>1, <5>2
          <5> QED BY <1>3, <4>1, <5>3
        <4>2. CASE k # m
          BY <1>3, <3>1, <4>2
        <4> QED BY <4>1, <4>2
      <3>5. B[l].low <= x[i].low
        <4>1. CASE l = m
          <5>1. b.low <= x[i].low
            BY <1>3, <3>2, <4>1
          <5>2. j.low <= b.low /\ b.low \in Int /\ j.low \in Int
            BY <1>6
          <5>3. j.low <= x[i].low
            BY <3>3, <5>1, <5>2
          <5> QED BY <1>3, <4>1, <5>3
        <4>2. CASE l # m
          BY <1>3, <3>2, <4>2
        <4> QED BY <4>1, <4>2
      <3> QED BY <3>4, <3>5
    <2>2. CASE i \notin 1..n
      <3>1. i = next /\ next = n + 1
        BY <1>2, <1>6, <2>2
      <3>2. m \in 1..m /\ B[m] = j
        BY <1>3
      <3>3. x[i].high <= B[m].high /\ B[m].low <= x[i].low
        BY <1>6, <3>1, <3>2
      <3> QED BY <3>2, <3>3
    <2> QED BY <2>1, <2>2
  <1>11. ASSUME NEW k \in 1..(m - 1) PROVE B[k].time < B[k + 1].time
    <2>1. A[k].time < A[k + 1].time
      BY <1>3 DEF Once, A
    <2>2. k + 1 \in 1..m /\ k \in 1..m
      BY <1>3
    <2>3. \A l \in 1..m : B[l].time = A[l].time
      BY <1>3
    <2> QED BY <2>1, <2>2, <2>3
  <1> HIDE DEF m
  <1>12. Once(d, x, next, B)
    BY <1>3, <1>4, <1>7, <1>9, <1>10, <1>11 DEF Once, w, f
  <1> QED BY <1>12 DEF B

\* Finitely many numbers have a greatest and a least.
LEMMA Extremes ==
    ASSUME NEW N \in Nat \ {0}, NEW f, \A i \in 1..N : f[i] \in Int
    PROVE  (\E i \in 1..N : \A j \in 1..N : f[j] <= f[i]) /\ (\E i \in 1..N : \A j \in 1..N : f[i] <= f[j])
  <1> DEFINE Top(n) == \E i \in 1..n : \A j \in 1..n : f[j] <= f[i]
             Low(n) == \E i \in 1..n : \A j \in 1..n : f[i] <= f[j]
             T == {n \in 0..N : n # 0 => Top(n) /\ Low(n)}
  <1>1. 0 \in T
    OBVIOUS
  <1>2. ASSUME NEW n \in 1..N, n - 1 \in T PROVE n \in T
    <2>1. CASE n = 1
      <3>1. Top(1) /\ Low(1)
        <4>1. f[1] \in Int /\ 1 \in 1..1 /\ \A j \in 1..1 : j = 1
          OBVIOUS
        <4>2. \A j \in 1..1 : f[j] <= f[1] /\ f[1] <= f[j]
          BY <4>1
        <4> QED BY <4>1, <4>2
      <3> HIDE DEF Top, Low
      <3> QED BY <2>1, <3>1
    <2>2. CASE n # 1
      <3>1. n - 1 # 0 /\ (\A j \in 1..n : j \in 1..(n - 1) \/ j = n) /\ n \in 1..n /\ 1..(n - 1) \subseteq 1..n
            /\ n \in Nat
        BY <2>2
      <3>2. Top(n - 1) /\ Low(n - 1)
        BY <1>2, <3>1
      <3>3. PICK i \in 1..(n - 1) : \A j \in 1..(n - 1) : f[j] <= f[i]
        BY <3>2
      <3>4. PICK k \in 1..(n - 1) : \A j \in 1..(n - 1) : f[k] <= f[j]
        BY <3>2
      <3>5. f[i] \in Int /\ f[k] \in Int /\ f[n] \in Int /\ i \in 1..n /\ k \in 1..n
            /\ \A j \in 1..n : f[j] \in Int
        BY <3>1
      <3>6. Top(n)
        <4>1. CASE f[n] <= f[i]
          BY <3>1, <3>3, <3>5, <4>1
        <4>2. CASE ~(f[n] <= f[i])
          <5>1. \A j \in 1..n : f[j] <= f[n]
            BY <3>1, <3>3, <3>5, <4>2
          <5> QED BY <3>1, <5>1
        <4> QED BY <4>1, <4>2
      <3>7. Low(n)
        <4>1. CASE f[k] <= f[n]
          BY <3>1, <3>4, <3>5, <4>1
        <4>2. CASE ~(f[k] <= f[n])
          <5>1. \A j \in 1..n : f[n] <= f[j]
            BY <3>1, <3>4, <3>5, <4>2
          <5> QED BY <3>1, <5>1
        <4> QED BY <4>1, <4>2
      <3> HIDE DEF Top, Low
      <3> QED BY <3>1, <3>6, <3>7
    <2> QED BY <2>1, <2>2
  <1> HIDE DEF T
  <1>3. 0..N \subseteq T
    BY <1>1, <1>2, BoundedInduction
  <1>4. N \in T /\ N # 0
    BY <1>3
  <1> QED BY <1>4 DEF T

\* What rows made of all bars of x have in common with x.
LEMMA OnceMeans ==
    ASSUME NEW d, NEW x \in Lists, x # <<>>, NEW bars, Once(d, x, Len(x), bars)
    PROVE  /\ Total(Field_of(bars, "volume")) = Total(Field_of(x, "volume"))
           /\ bars[1].open = x[1].open /\ Last(bars).close = Last(x).close
           /\ Max(ToSet(Field_of(bars, "high"))) = Max(ToSet(Field_of(x, "high")))
           /\ Min(ToSet(Field_of(bars, "low"))) = Min(ToSet(Field_of(x, "low")))
           /\ \A k \in DOMAIN bars : bars[k].time % d = 0
           /\ \A k \in 1..(Len(bars) - 1) : bars[k].time < bars[k + 1].time
  <1> DEFINE N == Len(x)
             M == Len(bars)
  <1>1. x \in Seq(MarketBar) /\ bars \in Seq(MarketBar) /\ bars # <<>>
    BY DEF Lists, Once
  <1>2. N \in Nat \ {0} /\ M \in Nat \ {0} /\ DOMAIN x = 1..N /\ DOMAIN bars = 1..M
    BY <1>1
  <1>3. /\ \A i \in 1..N : x[i].high \in Int /\ x[i].low \in Int
        /\ \A k \in 1..M : bars[k].high \in Int /\ bars[k].low \in Int
    <2>1. /\ \A i \in 1..N : x[i] \in MarketBar
          /\ \A k \in 1..M : bars[k] \in MarketBar
      BY <1>1
    <2> QED BY <2>1, BarIs
  <1>4. /\ \A k \in 1..M : \E i \in 1..N : bars[k].high = x[i].high
        /\ \A i \in 1..N : \E k \in 1..M : x[i].high <= bars[k].high
        /\ \A k \in 1..M : \E i \in 1..N : bars[k].low = x[i].low
        /\ \A i \in 1..N : \E k \in 1..M : bars[k].low <= x[i].low
    BY DEF Once
  <1>5. /\ ToSet(Field_of(bars, "high")) = {bars[k].high : k \in 1..M}
        /\ ToSet(Field_of(x, "high")) = {x[i].high : i \in 1..N}
        /\ ToSet(Field_of(bars, "low")) = {bars[k].low : k \in 1..M}
        /\ ToSet(Field_of(x, "low")) = {x[i].low : i \in 1..N}
    BY <1>2 DEF ToSet, Field_of
  <1> HIDE DEF N, M
  <1>6. Max({bars[k].high : k \in 1..M}) = Max({x[i].high : i \in 1..N})
    <2> DEFINE f == [i \in 1..N |-> x[i].high]
    <2>1. PICK i \in 1..N : \A j \in 1..N : f[j] <= f[i]
      <3>1. \A j \in 1..N : f[j] \in Int
        BY <1>3
      <3> HIDE DEF f
      <3> QED BY <1>2, <3>1, Extremes
    <2>2. \A j \in 1..N : x[j].high <= x[i].high
      BY <2>1
    <2> DEFINE S == {bars[k].high : k \in 1..M}
               R == {x[j].high : j \in 1..N}
               m == x[i].high
    <2>3. m \in R /\ R \subseteq Int /\ \A y \in R : y <= m
      BY <1>3, <2>2
    <2>4. S \subseteq R
      <3>1. ASSUME NEW k \in 1..M PROVE bars[k].high \in R
        <4>1. PICK j \in 1..N : bars[k].high = x[j].high
          BY <1>4
        <4>2. x[j].high \in R
          OBVIOUS
        <4> QED BY <4>1, <4>2
      <3> HIDE DEF R, f
      <3> QED BY <3>1
    <2>5. m \in S
      <3>1. PICK k \in 1..M : m <= bars[k].high
        BY <1>4
      <3>2. bars[k].high \in S
        OBVIOUS
      <3>3. bars[k].high <= m
        BY <2>3, <2>4, <3>2
      <3>4. bars[k].high = m
        BY <1>3, <3>1, <3>3
      <3> QED BY <3>2, <3>4
    <2> HIDE DEF S, R, m
    <2>6. Max(R) = m
      BY <2>3, GreatestOf
    <2>7. Max(S) = m
      <3>1. S \subseteq Int /\ \A y \in S : y <= m
        BY <2>3, <2>4
      <3> QED BY <2>5, <3>1, GreatestOf
    <2> QED BY <2>6, <2>7 DEF S, R
  <1>7. Min({bars[k].low : k \in 1..M}) = Min({x[i].low : i \in 1..N})
    <2> DEFINE f == [i \in 1..N |-> x[i].low]
    <2>1. PICK i \in 1..N : \A j \in 1..N : f[i] <= f[j]
      <3>1. \A j \in 1..N : f[j] \in Int
        BY <1>3
      <3> HIDE DEF f
      <3> QED BY <1>2, <3>1, Extremes
    <2>2. \A j \in 1..N : x[i].low <= x[j].low
      BY <2>1
    <2> DEFINE S == {bars[k].low : k \in 1..M}
               R == {x[j].low : j \in 1..N}
               m == x[i].low
    <2>3. m \in R /\ R \subseteq Int /\ \A y \in R : m <= y
      BY <1>3, <2>2
    <2>4. S \subseteq R
      <3>1. ASSUME NEW k \in 1..M PROVE bars[k].low \in R
        <4>1. PICK j \in 1..N : bars[k].low = x[j].low
          BY <1>4
        <4>2. x[j].low \in R
          OBVIOUS
        <4> QED BY <4>1, <4>2
      <3> HIDE DEF R, f
      <3> QED BY <3>1
    <2>5. m \in S
      <3>1. PICK k \in 1..M : bars[k].low <= m
        BY <1>4
      <3>2. bars[k].low \in S
        OBVIOUS
      <3>3. m <= bars[k].low
        BY <2>3, <2>4, <3>2
      <3>4. bars[k].low = m
        BY <1>3, <3>1, <3>3
      <3> QED BY <3>2, <3>4
    <2> HIDE DEF S, R, m
    <2>6. Min(R) = m
      BY <2>3, LeastOf
    <2>7. Min(S) = m
      <3>1. S \subseteq Int /\ \A y \in S : m <= y
        BY <2>3, <2>4
      <3> QED BY <2>5, <3>1, LeastOf
    <2> QED BY <2>6, <2>7 DEF S, R
  <1>8. Total(Field_of(bars, "volume")) = Total(Field_of(x, "volume"))
    <2>1. Total(Field_of(bars, "volume")) = TotalTo(Field_of(x, "volume"), Len(x))
      BY DEF Once
    <2>2. Total(Field_of(x, "volume")) = TotalTo(Field_of(x, "volume"), Len(x))
      BY VolumeOf
    <2> QED BY <2>1, <2>2
  <1>9. bars[1].open = x[1].open /\ Last(bars).close = Last(x).close
    BY DEF Once, Last
  <1>10. /\ \A k \in DOMAIN bars : bars[k].time % d = 0
         /\ \A k \in 1..(Len(bars) - 1) : bars[k].time < bars[k + 1].time
    BY <1>2 DEF Once, M
  <1> QED BY <1>5, <1>6, <1>7, <1>8, <1>9, <1>10

\* Periods start where the interval divides.
LEMMA StartsAre ==
    ASSUME NEW d \in Nat \ {0}, NEW t \in Nat
    PROVE  /\ start_of_period(d, t) \in Nat /\ start_of_period(d, t) % d = 0
           /\ t % d = 0 => (t + d) % d = 0 /\ t < t + d
  <1> DEFINE q == t \div d
             m == q * d
  <1>1. q \in Nat /\ m \in Nat /\ start_of_period(d, t) = m /\ m % d = 0
    <2>1. 0 \in Nat
      OBVIOUS
    <2>2. q \in Nat /\ start_of_period(d, t) = m
      BY <2>1, PeriodIs
    <2>3. m \in Nat /\ m % d = 0
      <3> HIDE DEF q
      <3> QED BY <2>2, PeriodIs
    <2> QED BY <2>2, <2>3
  <1>2. ASSUME t % d = 0 PROVE (t + d) % d = 0 /\ t < t + d
    <2>1. t = m
      <3>1. start_of_period(d, t) = t - (t % d)
        BY DEF start_of_period
      <3> HIDE DEF m
      <3> QED BY <1>1, <1>2, <3>1
    <2>2. (q + 1) * d = m + d
      <3> HIDE DEF q
      <3> QED BY <1>1
    <2>3. q + 1 \in Nat
      BY <1>1
    <2>4. ((q + 1) * d) % d = 0
      <3> DEFINE p == q + 1
      <3> HIDE DEF p
      <3>1. (p * d) % d = 0
        BY <2>3, PeriodIs DEF p
      <3> QED BY <3>1 DEF p
    <2> HIDE DEF m
    <2> QED BY <1>1, <2>1, <2>2, <2>4
  <1> QED BY <1>1, <1>2

\* Resampling counts every bar once, whatever periods are missing.
LEMMA EveryBarCounts ==
    ASSUME NEW d \in Nat \ {0}, NEW mode \in Modes, NEW x \in Lists, x # <<>>
    PROVE  Once(d, x, Len(x), Resampled(x, d, mode))
  <1> DEFINE Good(n, s) == LET b == s.current.bucket
                           IN  Once(d, x, n, Append(s.result, b)) /\ s.next = b.time + d /\ b.time % d = 0
             kept == {p \in Nat \X ResampleState : Good(p[1], p[2])}
             start == ResampleStart(x, d)
             p0 == start_of_period(d, x[1].time)
  <1>1. x \in Seq(MarketBar) /\ Len(x) \in Nat \ {0} /\ \A n \in 1..Len(x) : x[n] \in MarketBar
    BY DEF Lists
  <1>2. x[1] \in MarketBar /\ x[1].time \in Nat
    BY <1>1, BarIs
  <1>3. p0 \in Nat /\ p0 % d = 0
    BY <1>2, StartsAre
  <1> HIDE DEF p0
  <1>4. Good(1, start) /\ start \in ResampleState
    <2> DEFINE o == Opened(x[1], p0)
               b == o.bucket
    <2>1. o \in Running /\ b \in MarketBar /\ b.time = p0 /\ b.open = x[1].open /\ b.high = x[1].high
          /\ b.low = x[1].low /\ b.close = x[1].close /\ b.volume = x[1].volume
      <3> DEFINE k == x[1]
      <3>1. k \in MarketBar /\ p0 \in Nat
        BY <1>2, <1>3
      <3> HIDE DEF k
      <3>2. /\ Opened(k, p0) \in Running /\ Opened(k, p0).bucket \in MarketBar /\ Opened(k, p0).bucket.time = p0
            /\ Opened(k, p0).bucket.open = k.open /\ Opened(k, p0).bucket.high = k.high
            /\ Opened(k, p0).bucket.low = k.low /\ Opened(k, p0).bucket.close = k.close
            /\ Opened(k, p0).bucket.volume = k.volume
        BY <3>1, OpenedIs
      <3> QED BY <3>2 DEF k
    <2>2. start = [result |-> <<>>, current |-> o, next |-> p0 + d]
      BY DEF ResampleStart, p0
    <2> HIDE DEF start, o
    <2>3. start.result = <<>> /\ start.current = o /\ start.next = p0 + d
      BY <2>2
    <2>4. start \in ResampleState
      <3>1. p0 + d \in Nat /\ <<>> \in Seq(MarketBar)
        BY <1>3
      <3> QED BY <2>1, <2>2, <3>1 DEF ResampleState, Running
    <2> HIDE DEF b
    <2>5. Once(d, x, 1, Append(<<>>, b))
      BY <1>3, <2>1, OnceStarts
    <2> QED BY <1>3, <2>1, <2>3, <2>4, <2>5 DEF b
  <1> HIDE DEF Good
  <1>5. ASSUME NEW n \in 1..(Len(x) - 1), NEW s \in ResampleState, Good(n, s)
        PROVE  Good(n + 1, ResampleStep(s, x[n + 1], d, mode)) /\ ResampleStep(s, x[n + 1], d, mode) \in ResampleState
    <2> DEFINE bar == x[n + 1]
               t == ResampleStep(s, bar, d, mode)
               b == s.current.bucket
               r == s.result
    <2>1. bar \in MarketBar /\ n \in Nat /\ n \in 1..Len(x) /\ n + 1 \in 1..Len(x)
      BY <1>1
    <2>2. /\ t \in ResampleState /\ r \in Lists /\ s.current \in Running /\ s.next \in Nat
          /\ bar.time = s.next => /\ t.result = Append(r, Closed(s.current, mode))
                                  /\ t.current = Opened(bar, s.next) /\ t.next = s.next + d
          /\ bar.time # s.next => t.result = r /\ t.next = s.next /\ t.current = Joined(s.current, bar, mode)
      BY <2>1, ResampleStepTypes
    <2>3. b \in MarketBar
      BY <2>2 DEF Running
    <2>4. Once(d, x, n, Append(r, b)) /\ s.next = b.time + d /\ b.time % d = 0
      BY <1>5 DEF Good
    <2>5. b.time \in Nat /\ b.time < b.time + d /\ (b.time + d) % d = 0
      <3>1. b.time \in Nat
        BY <2>3, BarIs
      <3> QED BY <2>4, <3>1, StartsAre
    <2>6. b.close = x[n].close
      <3>1. Append(r, b)[Len(Append(r, b))] = b
        <4> HIDE DEF b, r
        <4> QED BY <2>2, <2>3, OneMore DEF Lists
      <3>2. Append(r, b)[Len(Append(r, b))].close = x[n].close
        BY <2>4 DEF Once
      <3> QED BY <3>1, <3>2
    <2> HIDE DEF b, r, t
    <2>7. CASE bar.time = s.next
      <3> DEFINE c == Closed(s.current, mode)
                 o == Opened(bar, s.next)
                 ob == o.bucket
                 rows == Append(r, c)
      <3>1. /\ c \in MarketBar /\ c.time = b.time /\ c.open = b.open /\ c.high = b.high /\ c.low = b.low
            /\ c.close = b.close /\ c.volume = b.volume
        BY <2>2, ClosedIs DEF b
      <3>2. /\ ob \in MarketBar /\ ob.time = s.next /\ ob.open = bar.open /\ ob.high = bar.high
            /\ ob.low = bar.low /\ ob.close = bar.close /\ ob.volume = bar.volume
        BY <2>1, <2>2, OpenedIs
      <3> HIDE DEF c
      <3>3. Once(d, x, n, rows)
        BY <2>1, <2>2, <2>3, <2>4, <2>6, <3>1, OnceMoves
      <3>4. rows[Len(rows)] = c
        BY <2>2, <3>1, OneMore DEF Lists
      <3> HIDE DEF rows, ob
      <3>5. rows[Len(rows)].time < ob.time /\ ob.time % d = 0
        BY <2>4, <2>5, <3>1, <3>2, <3>4
      <3>6. Once(d, x, n + 1, Append(rows, ob))
        BY <3>2, <3>3, <3>5, OnceOpens
      <3>7. t.result = rows /\ t.current.bucket = ob /\ t.next = ob.time + d
        BY <2>2, <2>7, <3>2 DEF rows, ob, c
      <3>8. Good(n + 1, t)
        BY <3>5, <3>6, <3>7 DEF Good
      <3> QED BY <2>2, <3>8 DEF t
    <2>8. CASE bar.time # s.next
      <3> DEFINE j == Joined(s.current, bar, mode).bucket
      <3>1. /\ j \in MarketBar /\ j.time = b.time /\ j.open = b.open /\ j.close = bar.close
            /\ j.high = Greatest(b.high, bar.high) /\ j.low = Least(b.low, bar.low)
            /\ j.volume = b.volume + bar.volume
        BY <2>1, <2>2, JoinedIs DEF b
      <3>2. t.result = r /\ t.current.bucket = j /\ t.next = s.next
        BY <2>2, <2>8
      <3> HIDE DEF j
      <3>3. Once(d, x, n + 1, Append(r, j))
        <4> DEFINE next == n + 1
        <4>1. next \in 1..Len(x) /\ next = n + 1
          BY <2>1
        <4> HIDE DEF next
        <4>2. j.close = x[next].close /\ j.high = Greatest(b.high, x[next].high) /\ j.low = Least(b.low, x[next].low)
              /\ j.volume = b.volume + x[next].volume
          BY <3>1 DEF next
        <4>3. Once(d, x, next, Append(r, j))
          BY <2>1, <2>2, <2>3, <2>4, <3>1, <4>1, <4>2, OnceMoves
        <4> QED BY <4>3 DEF next
      <3>4. Good(n + 1, t)
        BY <2>4, <3>1, <3>2, <3>3 DEF Good
      <3> QED BY <2>2, <3>4 DEF t
    <2> QED BY <2>7, <2>8
  <1> HIDE DEF start
  <1>6. <<1, start>> \in kept
    BY <1>4
  <1>7. \A n \in 1..(Len(x) - 1), s \in ResampleState :
            <<n, s>> \in kept => <<n + 1, ResampleStep(s, x[n + 1], d, mode)>> \in kept
    <2> SUFFICES ASSUME NEW n \in 1..(Len(x) - 1), NEW s \in ResampleState, <<n, s>> \in kept
                 PROVE  <<n + 1, ResampleStep(s, x[n + 1], d, mode)>> \in kept
      OBVIOUS
    <2>1. Good(n, s)
      OBVIOUS
    <2>2. n + 1 \in Nat
      BY <1>1
    <2> QED BY <1>5, <2>1, <2>2
  <1> HIDE DEF kept
  <1>8. PICK s \in ResampleState :
            <<Len(x), s>> \in kept /\ Resampled(x, d, mode) = Append(s.result, Closed(s.current, mode))
    BY <1>6, <1>7, ResampledKeeps DEF start
  <1>9. Good(Len(x), s)
    BY <1>8 DEF kept
  <1> DEFINE c == Closed(s.current, mode)
             b == s.current.bucket
             r == s.result
  <1>10. r \in Lists /\ s.current \in Running /\ b \in MarketBar
    BY DEF ResampleState, Lists, Running
  <1>11. /\ c \in MarketBar /\ c.time = b.time /\ c.open = b.open /\ c.high = b.high /\ c.low = b.low
         /\ c.close = b.close /\ c.volume = b.volume
    BY <1>10, ClosedIs
  <1>12. Once(d, x, Len(x), Append(r, b))
    BY <1>9 DEF Good
  <1> HIDE DEF c, b, r
  <1>13. b.close = x[Len(x)].close
    <2>1. Append(r, b)[Len(Append(r, b))] = b
      BY <1>10, OneMore DEF Lists
    <2> QED BY <1>12, <2>1 DEF Once
  <1>14. Len(x) \in 1..Len(x)
    BY <1>1
  <1>15. Once(d, x, Len(x), Append(r, c))
    BY <1>10, <1>11, <1>12, <1>13, <1>14, OnceMoves
  <1> QED BY <1>8, <1>15 DEF r, c

-----------------------------------------------------------------------------
(* Resampling: each bucket is the bars of its period                       *)

\* A column of bars.
LEMMA FieldIs ==
    ASSUME NEW x \in Lists
    PROVE  LET f == Field_of(x, "volume")
               g == Field_of(x, "spread")
           IN  /\ f \in Seq(Int) /\ Len(f) = Len(x) /\ \A i \in 1..Len(x) : f[i] = x[i].volume
               /\ g \in Seq(Int) /\ Len(g) = Len(x) /\ \A i \in 1..Len(x) : g[i] = x[i].spread
  <1> DEFINE f == Field_of(x, "volume")
             g == Field_of(x, "spread")
             N == Len(x)
  <1>1. N \in Nat /\ DOMAIN x = 1..N /\ \A i \in 1..N : x[i] \in MarketBar
    BY DEF Lists
  <1>2. \A i \in 1..N : x[i].volume \in Int /\ x[i].spread \in Int
    BY <1>1, BarIs
  <1>3. f = [i \in 1..N |-> x[i].volume] /\ g = [i \in 1..N |-> x[i].spread]
    BY <1>1 DEF Field_of
  <1> HIDE DEF f, g, N
  <1>4. f \in Seq(Int) /\ Len(f) = N /\ \A i \in 1..N : f[i] = x[i].volume
    BY <1>1, <1>2, <1>3
  <1>5. g \in Seq(Int) /\ Len(g) = N /\ \A i \in 1..N : g[i] = x[i].spread
    BY <1>1, <1>2, <1>3
  <1> QED BY <1>4, <1>5 DEF f, g, N

\* The sum of the numbers at some places in a row.
LEMMA MaskedTotal ==
    ASSUME NEW g \in Seq(Int), NEW b \in 1..Len(g), NEW a \in 1..b, NEW h,
           h = [i \in 1..Len(g) |-> IF i \in a..b THEN g[i] ELSE 0]
    PROVE  Total(h) = TotalTo(g, b) - TotalTo(g, a - 1)
  <1> DEFINE N == Len(g)
             G(n) == TotalTo(g, n)
             H(n) == TotalTo(h, n)
             V(n) == IF n < a THEN 0 ELSE IF n <= b THEN G(n) - G(a - 1) ELSE G(b) - G(a - 1)
             T == {n \in 0..N : H(n) = V(n)}
  <1>1. N \in Nat /\ a \in Nat /\ b \in Nat /\ a <= b /\ 1 <= a /\ b <= N /\ \A i \in 1..N : g[i] \in Int
    OBVIOUS
  <1>2. h \in Seq(Int) /\ Len(h) = N /\ \A i \in 1..N : h[i] = IF i \in a..b THEN g[i] ELSE 0
    <2>1. \A i \in 1..N : (IF i \in a..b THEN g[i] ELSE 0) \in Int
      BY <1>1
    <2> QED BY <1>1, <2>1
  <1>3. /\ G(0) = 0 /\ \A n \in 0..N : G(n) \in Int
        /\ \A n \in 1..N : G(n) = G(n - 1) + g[n]
    BY TotalToIs
  <1>4. /\ H(0) = 0 /\ Total(h) = H(N) /\ \A n \in 0..N : H(n) \in Int
        /\ \A n \in 1..N : H(n) = H(n - 1) + h[n]
    <2> HIDE DEF N
    <2>1. /\ H(0) = 0 /\ Total(h) = H(Len(h)) /\ \A n \in 0..Len(h) : H(n) \in Int
          /\ \A n \in 1..Len(h) : H(n) = H(n - 1) + h[n]
      BY <1>2, TotalToIs
    <2> QED BY <1>2, <2>1
  <1> HIDE DEF G, H, N
  <1>5. 0 \in T
    BY <1>1, <1>4
  <1>6. ASSUME NEW n \in 1..N, n - 1 \in T PROVE n \in T
    <2>1. /\ n \in Nat /\ n - 1 \in 0..N /\ n \in 0..N /\ a - 1 \in 0..N /\ b \in 0..N /\ (n - 1) + 1 = n
      BY <1>1
    <2>2. H(n - 1) = V(n - 1)
      BY <1>6
    <2>3. /\ G(n) \in Int /\ G(n - 1) \in Int /\ G(a - 1) \in Int /\ G(b) \in Int /\ g[n] \in Int
          /\ G(n) = G(n - 1) + g[n] /\ H(n) = H(n - 1) + h[n]
      BY <1>1, <1>3, <1>4, <2>1
    <2>4. CASE n < a
      <3>1. h[n] = 0 /\ V(n - 1) = 0 /\ V(n) = 0
        BY <1>1, <1>2, <2>1, <2>4
      <3>2. H(n) = V(n)
        <4>1. H(n) = V(n - 1) + h[n]
          BY <2>2, <2>3
        <4>2. G(n) \in Int /\ G(n - 1) \in Int /\ G(a - 1) \in Int /\ g[n] \in Int /\ G(n) = G(n - 1) + g[n]
          BY <2>3
        <4> HIDE DEF V, G, H, T
        <4> QED BY <3>1, <4>1, <4>2
      <3> QED BY <2>1, <3>2
    <2>5. CASE n = a
      <3>1. h[n] = g[n] /\ V(n - 1) = 0 /\ V(n) = G(n) - G(n - 1)
        BY <1>1, <1>2, <2>1, <2>5
      <3>2. H(n) = V(n)
        <4>1. H(n) = V(n - 1) + h[n]
          BY <2>2, <2>3
        <4>2. G(n) \in Int /\ G(n - 1) \in Int /\ G(a - 1) \in Int /\ g[n] \in Int /\ G(n) = G(n - 1) + g[n]
          BY <2>3
        <4> HIDE DEF V, G, H, T
        <4> QED BY <3>1, <4>1, <4>2
      <3> QED BY <2>1, <3>2
    <2>6. CASE a < n /\ n <= b
      <3>1. h[n] = g[n] /\ V(n - 1) = G(n - 1) - G(a - 1) /\ V(n) = G(n) - G(a - 1)
        BY <1>1, <1>2, <2>1, <2>6
      <3>2. H(n) = V(n)
        <4> DEFINE u == G(n - 1)
                   o == G(a - 1)
                   e == g[n]
        <4>1. H(n) = V(n - 1) + e /\ V(n - 1) = u - o /\ V(n) = G(n) - o /\ G(n) = u + e
          BY <2>2, <2>3, <3>1
        <4>2. u \in Int /\ o \in Int /\ e \in Int
          BY <2>3
        <4> HIDE DEF V, G, H, T, u, o, e
        <4>3. (u + e) - o = (u - o) + e
          BY <4>2
        <4> QED BY <4>1, <4>3
      <3> QED BY <2>1, <3>2
    <2>7. CASE b < n
      <3>1. h[n] = 0
        BY <1>1, <1>2, <2>1, <2>7
      <3>2. V(n) = G(b) - G(a - 1)
        BY <1>1, <2>1, <2>7
      <3>3. V(n - 1) = G(b) - G(a - 1)
        <4>1. CASE n - 1 = b
          BY <1>1, <2>1, <2>7, <4>1
        <4>2. CASE n - 1 # b
          <5>1. ~(n - 1 < a) /\ ~(n - 1 <= b)
            BY <1>1, <2>1, <2>7, <4>2
          <5> QED BY <5>1
        <4> QED BY <4>1, <4>2
      <3>4. H(n) = V(n)
        <4>1. H(n) = H(n - 1) + 0 /\ H(n - 1) \in Int
          BY <1>4, <2>1, <2>3, <3>1
        <4> HIDE DEF V
        <4> QED BY <2>2, <3>2, <3>3, <4>1
      <3> QED BY <2>1, <3>4
    <2> QED BY <1>1, <2>1, <2>4, <2>5, <2>6, <2>7
  <1> HIDE DEF T, V
  <1>7. 0..N \subseteq T
    BY <1>1, <1>5, <1>6, BoundedInduction
  <1>8. H(N) = V(N)
    BY <1>1, <1>7 DEF T
  <1>9. V(N) = G(b) - G(a - 1)
    <2>1. ~(N < a) /\ (N <= b => N = b)
      BY <1>1
    <2> QED BY <2>1 DEF V
  <1> QED BY <1>4, <1>8, <1>9 DEF G

-----------------------------------------------------------------------------
\* A running bucket made of the bars from a to b.
Made(x, mode, a, b, c) ==
    LET v == Field_of(x, "volume")
        w == Field_of(x, "spread")
        m == c.bucket
    IN  /\ m.open = x[a].open /\ m.close = x[b].close
        /\ \A i \in a..b : x[i].high <= m.high /\ m.low <= x[i].low
        /\ \E i \in a..b : x[i].high = m.high
        /\ \E i \in a..b : x[i].low = m.low
        /\ m.volume = TotalTo(v, b) - TotalTo(v, a - 1)
        /\ c.sum = TotalTo(w, b) - TotalTo(w, a - 1) /\ c.count = b - a + 1
        /\ mode = "max" => (\A i \in a..b : x[i].spread <= m.spread) /\ (\E i \in a..b : x[i].spread = m.spread)
        /\ mode # "max" => m.spread = x[b].spread

\* A bucket of one bar.
LEMMA MadeOpens ==
    ASSUME NEW x \in Lists, NEW mode, NEW n \in 1..Len(x), NEW t \in Nat
    PROVE  Made(x, mode, n, n, Opened(x[n], t))
  <1> DEFINE v == Field_of(x, "volume")
             w == Field_of(x, "spread")
             c == Opened(x[n], t)
             m == c.bucket
  <1>1. x[n] \in MarketBar /\ n \in Nat /\ n..n = {n} /\ n - n + 1 = 1
    BY DEF Lists
  <1>2. /\ x[n].high \in Int /\ x[n].low \in Int /\ x[n].spread \in Int /\ x[n].volume \in Int
    BY <1>1, BarIs
  <1>3. /\ c.sum = x[n].spread /\ c.count = 1
        /\ m.open = x[n].open /\ m.high = x[n].high
        /\ m.low = x[n].low /\ m.close = x[n].close /\ m.volume = x[n].volume
        /\ m.spread = x[n].spread
    BY <1>1, OpenedIs
  <1>4. x[n].volume = TotalTo(v, n) - TotalTo(v, n - 1) /\ x[n].spread = TotalTo(w, n) - TotalTo(w, n - 1)
    <2>1. v \in Seq(Int) /\ Len(v) = Len(x) /\ v[n] = x[n].volume
          /\ w \in Seq(Int) /\ Len(w) = Len(x) /\ w[n] = x[n].spread
      BY FieldIs
    <2>2. n - 1 \in 0..Len(x)
      BY <1>1
    <2> HIDE DEF v, w
    <2>3. TotalTo(v, n) = TotalTo(v, n - 1) + v[n] /\ TotalTo(v, n - 1) \in Int
      BY <2>1, <2>2, TotalToIs
    <2>4. TotalTo(w, n) = TotalTo(w, n - 1) + w[n] /\ TotalTo(w, n - 1) \in Int
      BY <2>1, <2>2, TotalToIs
    <2>5. x[n].volume \in Int /\ x[n].spread \in Int
      BY <1>2
    <2>6. x[n].volume = TotalTo(v, n) - TotalTo(v, n - 1)
      BY <2>1, <2>3, <2>5
    <2>7. x[n].spread = TotalTo(w, n) - TotalTo(w, n - 1)
      BY <2>1, <2>4, <2>5
    <2> QED BY <2>6, <2>7
  <1> HIDE DEF c
  <1>5. Made(x, mode, n, n, c)
    BY <1>1, <1>2, <1>3, <1>4 DEF Made
  <1> QED BY <1>5 DEF c

\* The greater and the lesser of two.
LEMMA Outermost ==
    ASSUME NEW a \in Int, NEW b \in Int
    PROVE  /\ Greatest(a, b) \in {a, b} /\ a <= Greatest(a, b) /\ b <= Greatest(a, b) /\ Greatest(a, b) \in Int
           /\ Least(a, b) \in {a, b} /\ Least(a, b) <= a /\ Least(a, b) <= b /\ Least(a, b) \in Int
  BY DEF Greatest, Least

\* A bucket that one more bar joins.
LEMMA MadeJoins ==
    ASSUME NEW x \in Lists, NEW mode, NEW n \in 1..(Len(x) - 1), NEW a \in 1..n, NEW c \in Running,
           Made(x, mode, a, n, c)
    PROVE  Made(x, mode, a, n + 1, Joined(c, x[n + 1], mode))
  <1> DEFINE v == Field_of(x, "volume")
             w == Field_of(x, "spread")
             j == Joined(c, x[n + 1], mode)
             m == c.bucket
             k == j.bucket
             e == x[n + 1]
             z == n + 1
  <1>1. /\ e \in MarketBar /\ n \in Nat /\ a \in Nat /\ a <= n /\ n \in 1..Len(x) /\ z \in 1..Len(x) /\ z - 1 = n
        /\ a - 1 \in 0..Len(x) /\ n \in 0..Len(x) /\ z \in a..z /\ a..n \subseteq a..z
        /\ \A i \in a..z : (i \in a..n \/ i = z)
        /\ \A i \in a..n : i \in 1..Len(x)
        /\ n - a + 1 + 1 = z - a + 1
    <2>1. x \in Seq(MarketBar)
      BY DEF Lists
    <2> QED BY <2>1
  <1>2. /\ e.high \in Int /\ e.low \in Int /\ e.spread \in Int /\ e.volume \in Int
        /\ m.high \in Int /\ m.low \in Int /\ m.spread \in Int /\ m.volume \in Int /\ c.sum \in Int
    BY <1>1, BarIs DEF Running
  <1>3. /\ k.open = m.open
        /\ k.high = Greatest(m.high, e.high) /\ k.low = Least(m.low, e.low)
        /\ k.close = e.close /\ k.volume = m.volume + e.volume
        /\ k.spread = IF mode = "max" THEN Greatest(m.spread, e.spread) ELSE e.spread
        /\ j.sum = c.sum + e.spread /\ j.count = c.count + 1
    BY <1>1, JoinedIs
  <1>4. /\ m.open = x[a].open /\ m.close = x[n].close
        /\ \A i \in a..n : x[i].high <= m.high /\ m.low <= x[i].low
        /\ \E i \in a..n : x[i].high = m.high
        /\ \E i \in a..n : x[i].low = m.low
        /\ m.volume = TotalTo(v, n) - TotalTo(v, a - 1)
        /\ c.sum = TotalTo(w, n) - TotalTo(w, a - 1) /\ c.count = n - a + 1
        /\ mode = "max" => (\A i \in a..n : x[i].spread <= m.spread) /\ (\E i \in a..n : x[i].spread = m.spread)
        /\ mode # "max" => m.spread = x[n].spread
    BY DEF Made
  <1>5. /\ TotalTo(v, z) = TotalTo(v, n) + e.volume /\ TotalTo(w, z) = TotalTo(w, n) + e.spread
        /\ TotalTo(v, n) \in Int /\ TotalTo(w, n) \in Int /\ TotalTo(v, a - 1) \in Int /\ TotalTo(w, a - 1) \in Int
    <2>1. v \in Seq(Int) /\ Len(v) = Len(x) /\ v[z] = e.volume
          /\ w \in Seq(Int) /\ Len(w) = Len(x) /\ w[z] = e.spread
      BY <1>1, FieldIs
    <2> HIDE DEF v, w, z, e
    <2>2. /\ TotalTo(v, z) = TotalTo(v, z - 1) + v[z] /\ TotalTo(v, n) \in Int /\ TotalTo(v, a - 1) \in Int
      BY <1>1, <2>1, TotalToIs
    <2>3. /\ TotalTo(w, z) = TotalTo(w, z - 1) + w[z] /\ TotalTo(w, n) \in Int /\ TotalTo(w, a - 1) \in Int
      BY <1>1, <2>1, TotalToIs
    <2> QED BY <1>1, <2>1, <2>2, <2>3
  <1>6. \A i \in a..n : x[i].high \in Int /\ x[i].low \in Int /\ x[i].spread \in Int
    <2>1. \A i \in a..n : x[i] \in MarketBar
      BY <1>1 DEF Lists
    <2> QED BY <2>1, BarIs
  <1> HIDE DEF k, m, e, z, j, v, w
  <1>7. /\ k.high \in {m.high, e.high} /\ m.high <= k.high /\ e.high <= k.high
        /\ k.low \in {m.low, e.low} /\ k.low <= m.low /\ k.low <= e.low
        /\ k.high \in Int /\ k.low \in Int
    <2>1. k.high = Greatest(m.high, e.high) /\ k.low = Least(m.low, e.low)
      BY <1>3
    <2>2. m.high \in Int /\ e.high \in Int /\ m.low \in Int /\ e.low \in Int
      BY <1>2
    <2>3. k.high \in {m.high, e.high} /\ m.high <= k.high /\ e.high <= k.high /\ k.high \in Int
      <3> DEFINE p == m.high
                 q == e.high
      <3>1. p \in Int /\ q \in Int /\ k.high = Greatest(p, q)
        BY <2>1, <2>2
      <3> HIDE DEF p, q
      <3>2. k.high \in {p, q} /\ p <= k.high /\ q <= k.high /\ k.high \in Int
        <4> DEFINE u == k.high
        <4>1. Greatest(p, q) \in {p, q} /\ p <= Greatest(p, q) /\ q <= Greatest(p, q) /\ Greatest(p, q) \in Int
          BY <3>1, Outermost
        <4>2. u = Greatest(p, q)
          BY <3>1
        <4> HIDE DEF u
        <4>3. u \in {p, q} /\ p <= u /\ q <= u /\ u \in Int
          BY <4>1, <4>2
        <4> QED BY <4>3 DEF u
      <3> QED BY <3>2 DEF p, q
    <2>4. k.low \in {m.low, e.low} /\ k.low <= m.low /\ k.low <= e.low /\ k.low \in Int
      <3> DEFINE p == m.low
                 q == e.low
      <3>1. p \in Int /\ q \in Int /\ k.low = Least(p, q)
        BY <2>1, <2>2
      <3> HIDE DEF p, q
      <3> DEFINE u == k.low
      <3>2. u = Least(p, q)
        BY <3>1
      <3> HIDE DEF u
      <3>3. u \in {p, q} /\ u <= p /\ u <= q /\ u \in Int
        BY <3>1, <3>2, Outermost
      <3> QED BY <3>3 DEF p, q, u
    <2> QED BY <2>3, <2>4
  <1>8. \A i \in a..z : x[i].high <= k.high /\ k.low <= x[i].low
    <2> SUFFICES ASSUME NEW i \in a..z PROVE x[i].high <= k.high /\ k.low <= x[i].low
      OBVIOUS
    <2>1. CASE i \in a..n
      <3>1. x[i].high <= m.high /\ m.low <= x[i].low /\ x[i].high \in Int /\ x[i].low \in Int
        BY <1>4, <1>6, <2>1
      <3>2. x[i].high <= k.high
        BY <1>2, <1>7, <3>1
      <3>3. k.low <= x[i].low
        BY <1>2, <1>7, <3>1
      <3> QED BY <3>2, <3>3
    <2>2. CASE i = z
      <3>1. x[i] = e
        BY <2>2 DEF e, z
      <3> QED BY <1>7, <3>1
    <2> QED BY <1>1, <2>1, <2>2
  <1>9. x[z] = e
    BY DEF e, z
  <1>10. (\E i \in a..z : x[i].high = k.high) /\ (\E i \in a..z : x[i].low = k.low)
    <2>1. \E i \in a..z : x[i].high = k.high
      <3>1. CASE k.high = e.high
        BY <1>1, <1>9, <3>1
      <3>2. CASE k.high = m.high
        BY <1>1, <1>4, <3>2
      <3> QED BY <1>7, <3>1, <3>2
    <2>2. \E i \in a..z : x[i].low = k.low
      <3>1. CASE k.low = e.low
        BY <1>1, <1>9, <3>1
      <3>2. CASE k.low = m.low
        BY <1>1, <1>4, <3>2
      <3> QED BY <1>7, <3>1, <3>2
    <2> QED BY <2>1, <2>2
  <1>11. k.volume = TotalTo(v, z) - TotalTo(v, a - 1) /\ j.sum = TotalTo(w, z) - TotalTo(w, a - 1)
         /\ j.count = z - a + 1
    <2>1. k.volume = TotalTo(v, z) - TotalTo(v, a - 1)
      <3>1. k.volume = m.volume + e.volume /\ m.volume = TotalTo(v, n) - TotalTo(v, a - 1)
        BY <1>3, <1>4
      <3>2. m.volume \in Int /\ e.volume \in Int
        BY <1>2
      <3> QED BY <1>5, <3>1, <3>2
    <2>2. j.sum = TotalTo(w, z) - TotalTo(w, a - 1)
      <3>1. j.sum = c.sum + e.spread /\ c.sum = TotalTo(w, n) - TotalTo(w, a - 1)
        BY <1>3, <1>4
      <3>2. c.sum \in Int /\ e.spread \in Int
        BY <1>2
      <3> QED BY <1>5, <3>1, <3>2
    <2>3. j.count = z - a + 1
      BY <1>1, <1>3, <1>4
    <2> QED BY <2>1, <2>2, <2>3
  <1>12. ASSUME mode = "max"
         PROVE (\A i \in a..z : x[i].spread <= k.spread) /\ (\E i \in a..z : x[i].spread = k.spread)
    <2>1. k.spread \in {m.spread, e.spread} /\ m.spread <= k.spread /\ e.spread <= k.spread /\ k.spread \in Int
      <3> DEFINE p == m.spread
                 q == e.spread
                 u == k.spread
      <3>1. p \in Int /\ q \in Int /\ u = Greatest(p, q)
        BY <1>2, <1>3, <1>12
      <3> HIDE DEF p, q, u
      <3>2. u \in {p, q} /\ p <= u /\ q <= u /\ u \in Int
        BY <3>1, Outermost
      <3> QED BY <3>2 DEF p, q, u
    <2>2. (\A i \in a..n : x[i].spread <= m.spread) /\ (\E i \in a..n : x[i].spread = m.spread)
      BY <1>4, <1>12
    <2>3. ASSUME NEW i \in a..z PROVE x[i].spread <= k.spread
      <3>1. CASE i \in a..n
        <4>1. x[i].spread <= m.spread /\ m.spread <= k.spread
          BY <2>1, <2>2, <3>1
        <4>2. x[i].spread \in Int
          BY <1>6, <3>1
        <4>3. m.spread \in Int /\ k.spread \in Int
          BY <1>2, <2>1
        <4> QED BY <4>1, <4>2, <4>3
      <3>2. CASE i = z
        BY <1>9, <2>1, <3>2
      <3> QED BY <1>1, <3>1, <3>2
    <2>4. \E i \in a..z : x[i].spread = k.spread
      <3>1. CASE k.spread = e.spread
        BY <1>1, <1>9, <3>1
      <3>2. CASE k.spread = m.spread
        BY <1>1, <2>2, <3>2
      <3> QED BY <2>1, <3>1, <3>2
    <2> QED BY <2>3, <2>4
  <1>13. mode # "max" => k.spread = x[z].spread
    BY <1>3, <1>9
  <1>14. k.open = x[a].open /\ k.close = x[z].close
    BY <1>3, <1>4, <1>9
  <1>15. Made(x, mode, a, z, j)
    BY <1>8, <1>10, <1>11, <1>12, <1>13, <1>14 DEF Made, k, v, w
  <1> QED BY <1>15 DEF j, z

\* The bars of a period are those from a to b.
Owned(d, x, p, a, b) == \A i \in 1..Len(x) : Period(d, x[i]) = p <=> i \in a..b

\* The bucket that is closed is the one its period should have.
LEMMA BucketIs ==
    ASSUME NEW d \in Nat \ {0}, NEW x \in Lists, NEW mode \in Modes, NEW p \in Nat, NEW b \in 1..Len(x),
           NEW a \in 1..b, NEW c \in Running, Made(x, mode, a, b, c), c.bucket.time = p * d,
           Owned(d, x, p, a, b)
    PROVE  Bucket(x, d, mode, p) = Closed(c, mode)
  <1> DEFINE own == {i \in DOMAIN x : Period(d, x[i]) = p}
             last == x[Max(own)]
             sum(f) == Total([i \in DOMAIN x |-> IF i \in own THEN x[i][f] ELSE 0])
             m == c.bucket
             v == Field_of(x, "volume")
             w == Field_of(x, "spread")
             highs == {x[i].high : i \in own}
             lows == {x[i].low : i \in own}
             spreads == {x[i].spread : i \in own}
             j == Closed(c, mode)
             spread == CASE mode = "no_spread" -> 0
                         [] mode = "last" -> last.spread
                         [] mode = "max" -> Max(spreads)
                         [] mode = "avg" -> sum("spread") \div Cardinality(own)
  <1>1. x \in Seq(MarketBar) /\ Len(x) \in Nat /\ DOMAIN x = 1..Len(x) /\ \A i \in 1..Len(x) : x[i] \in MarketBar
        /\ b \in Nat /\ a \in Nat /\ a <= b /\ b <= Len(x) /\ 1 <= a
    BY DEF Lists
  <1>2. own = a..b /\ a..b \subseteq 1..Len(x)
    <2>1. a..b \subseteq 1..Len(x)
      BY <1>1
    <2> QED BY <1>1, <2>1 DEF Owned
  <1>3. /\ \A i \in 1..Len(x) : /\ x[i].high \in Int /\ x[i].low \in Int /\ x[i].spread \in Int
                                 /\ x[i].volume \in Int
        /\ m \in MarketBar /\ c.sum \in Int /\ c.count \in Nat \ {0}
    <2>1. m \in MarketBar /\ c.sum \in Int /\ c.count \in Nat \ {0}
      BY DEF Running
    <2> QED BY <1>1, <2>1, BarIs
  <1>4. /\ m.open = x[a].open /\ m.close = x[b].close
        /\ \A i \in a..b : x[i].high <= m.high /\ m.low <= x[i].low
        /\ \E i \in a..b : x[i].high = m.high
        /\ \E i \in a..b : x[i].low = m.low
        /\ m.volume = TotalTo(v, b) - TotalTo(v, a - 1)
        /\ c.sum = TotalTo(w, b) - TotalTo(w, a - 1) /\ c.count = b - a + 1
        /\ mode = "max" => (\A i \in a..b : x[i].spread <= m.spread) /\ (\E i \in a..b : x[i].spread = m.spread)
        /\ mode # "max" => m.spread = x[b].spread
    BY DEF Made
  <1> HIDE DEF own
  <1>5. Max(own) = b /\ Min(own) = a
    <2>1. own \in SUBSET Int /\ b \in own /\ a \in own /\ \A y \in own : y <= b /\ a <= y
      BY <1>1, <1>2
    <2> QED BY <2>1, GreatestOf, LeastOf
  <1>6. Max(highs) = m.high
    <2> DEFINE h == m.high
    <2>1. highs \in SUBSET Int
      BY <1>2, <1>3
    <2>2. h \in highs
      BY <1>2, <1>4
    <2>3. \A y \in highs : y <= h
      BY <1>2, <1>4
    <2> HIDE DEF h, highs
    <2>4. Max(highs) = h
      BY <2>1, <2>2, <2>3, GreatestOf
    <2> QED BY <2>4 DEF h
  <1>7. Min(lows) = m.low
    <2> DEFINE h == m.low
    <2>1. lows \in SUBSET Int
      BY <1>2, <1>3
    <2>2. h \in lows
      BY <1>2, <1>4
    <2>3. \A y \in lows : h <= y
      BY <1>2, <1>4
    <2> HIDE DEF h, lows
    <2>4. Min(lows) = h
      BY <2>1, <2>2, <2>3, LeastOf
    <2> QED BY <2>4 DEF h
  <1>8. mode = "max" => Max(spreads) = m.spread
    <2> SUFFICES ASSUME mode = "max" PROVE Max(spreads) = m.spread
      OBVIOUS
    <2> DEFINE h == m.spread
    <2>1. spreads \in SUBSET Int
      BY <1>2, <1>3
    <2>2. h \in spreads
      BY <1>2, <1>4
    <2>3. \A y \in spreads : y <= h
      BY <1>2, <1>4
    <2> HIDE DEF h, spreads
    <2>4. Max(spreads) = h
      BY <2>1, <2>2, <2>3, GreatestOf
    <2> QED BY <2>4 DEF h
  <1>9. sum("volume") = m.volume /\ sum("spread") = c.sum
    <2> DEFINE h == [i \in DOMAIN x |-> IF i \in own THEN x[i].volume ELSE 0]
               g == [i \in DOMAIN x |-> IF i \in own THEN x[i].spread ELSE 0]
    <2>1. /\ v \in Seq(Int) /\ Len(v) = Len(x) /\ \A i \in 1..Len(x) : v[i] = x[i].volume
          /\ w \in Seq(Int) /\ Len(w) = Len(x) /\ \A i \in 1..Len(x) : w[i] = x[i].spread
      BY FieldIs
    <2>2. sum("volume") = Total(h) /\ sum("spread") = Total(g)
      OBVIOUS
    <2>3. h = [i \in 1..Len(v) |-> IF i \in a..b THEN v[i] ELSE 0]
      BY <1>1, <1>2, <2>1
    <2>4. g = [i \in 1..Len(w) |-> IF i \in a..b THEN w[i] ELSE 0]
      BY <1>1, <1>2, <2>1
    <2> HIDE DEF h, g, v, w, sum
    <2>5. Total(h) = TotalTo(v, b) - TotalTo(v, a - 1)
      BY <1>1, <2>1, <2>3, MaskedTotal
    <2>6. Total(g) = TotalTo(w, b) - TotalTo(w, a - 1)
      BY <1>1, <2>1, <2>4, MaskedTotal
    <2> QED BY <1>4, <2>2, <2>5, <2>6
  <1>10. Cardinality(own) = c.count
    <2>1. a \in Int /\ b \in Int /\ ~(a > b)
      BY <1>1
    <2>2. Cardinality(a..b) = b - a + 1
      BY <2>1, FS_Interval
    <2> QED BY <1>2, <1>4, <2>2
  <1>11. /\ j \in MarketBar
         /\ j.time = m.time /\ j.open = m.open /\ j.high = m.high
         /\ j.low = m.low /\ j.close = m.close /\ j.volume = m.volume
         /\ j.spread = CASE mode = "no_spread" -> 0 [] mode = "avg" -> c.sum \div c.count
                         [] OTHER -> m.spread
    BY ClosedIs
  <1>12. Bucket(x, d, mode, p) =
            [time |-> p * d, open |-> x[Min(own)].open, close |-> last.close, high |-> Max(highs), low |-> Min(lows),
             volume |-> sum("volume"), spread |-> spread]
    BY DEF Bucket, own
  <1>13. last = x[b]
    BY <1>5
  <1> HIDE DEF sum, highs, lows, spreads, last, m, j
  <1>14. j.spread = spread
    <2>1. CASE mode = "no_spread"
      BY <1>11, <2>1
    <2>2. CASE mode = "last"
      BY <1>4, <1>11, <1>13, <2>2
    <2>3. CASE mode = "max"
      BY <1>8, <1>11, <2>3
    <2>4. CASE mode = "avg"
      BY <1>9, <1>10, <1>11, <2>4
    <2> QED BY <2>1, <2>2, <2>3, <2>4 DEF Modes
  <1> HIDE DEF spread
  <1>15. Bucket(x, d, mode, p) =
            [time |-> j.time, open |-> j.open, close |-> j.close, high |-> j.high, low |-> j.low,
             volume |-> j.volume, spread |-> j.spread]
    <2>1. p * d = j.time
      BY <1>11 DEF m
    <2>2. /\ x[Min(own)].open = j.open /\ last.close = j.close /\ Max(highs) = j.high
          /\ Min(lows) = j.low /\ sum("volume") = j.volume
      BY <1>4, <1>5, <1>6, <1>7, <1>9, <1>11, <1>13
    <2> QED BY <1>12, <1>14, <2>1, <2>2
  <1>16. j = [time |-> j.time, open |-> j.open, close |-> j.close, high |-> j.high, low |-> j.low,
              volume |-> j.volume, spread |-> j.spread]
    BY <1>11 DEF MarketBar
  <1> QED BY <1>15, <1>16 DEF j

\* Bars in order of their times.
Climbing(x) == \A i \in 1..(Len(x) - 1) : x[i].time < x[i + 1].time

\* Not only neighbours are in order.
LEMMA ClimbingOrders ==
    ASSUME NEW x \in Lists, Climbing(x)
    PROVE  \A k \in 1..Len(x), i \in 1..Len(x) : i < k => x[i].time < x[k].time
  <1> DEFINE N == Len(x)
             T == {n \in 0..N : \A i \in 1..N : i < n => x[i].time < x[n].time}
  <1>1. N \in Nat /\ \A i \in 1..N : x[i].time \in Nat
    <2>1. N \in Nat /\ \A i \in 1..N : x[i] \in MarketBar
      BY DEF Lists
    <2> QED BY <2>1, BarIs
  <1>2. 0 \in T
    BY <1>1
  <1>3. ASSUME NEW n \in 1..N, n - 1 \in T PROVE n \in T
    <2>1. ASSUME NEW i \in 1..N, i < n PROVE x[i].time < x[n].time
      <3>1. n - 1 \in 1..(N - 1) /\ n - 1 \in 1..N /\ (n - 1) + 1 = n
        BY <1>1, <2>1
      <3>2. x[n - 1].time < x[n].time
        <4>1. x[n - 1].time < x[(n - 1) + 1].time
          BY <3>1 DEF Climbing
        <4> QED BY <3>1, <4>1
      <3>3. CASE i = n - 1
        BY <3>2, <3>3
      <3>4. CASE i # n - 1
        <4>1. i < n - 1
          BY <2>1, <3>4
        <4>2. x[i].time < x[n - 1].time
          BY <1>3, <4>1
        <4> QED BY <1>1, <3>1, <3>2, <4>2
      <3> QED BY <3>3, <3>4
    <2>2. n \in 0..N
      BY <1>1
    <2> QED BY <2>1, <2>2
  <1> HIDE DEF T
  <1>4. 0..N \subseteq T
    BY <1>1, <1>2, <1>3, BoundedInduction
  <1>5. 1..N \subseteq T
    BY <1>1, <1>4
  <1> QED BY <1>5 DEF T

\* The number of places from one to another.
LEMMA SpanIs ==
    ASSUME NEW f \in Nat, NEW g \in Nat, f <= g, NEW l, l = g - f
    PROVE  l \in Nat /\ g = f + l /\ g - f + 1 = l + 1
  OBVIOUS

\* The period of a bar.
LEMMA PeriodOf ==
    ASSUME NEW d \in Nat \ {0}, NEW bar \in MarketBar, NEW other \in MarketBar
    PROVE  LET p == Period(d, bar)
           IN  /\ p \in Nat /\ bar.time \in Nat /\ p * d \in Nat /\ p * d <= bar.time /\ bar.time < p * d + d
               /\ bar.time <= other.time => p <= Period(d, other)
               /\ start_of_period(d, bar.time) = p * d
               /\ \A q \in Nat : /\ bar.time = q * d => p = q
                                 /\ bar.time < q * d + d <=> p <= q
  <1> DEFINE p == Period(d, bar)
  <1>1. bar.time \in Nat /\ other.time \in Nat
    BY BarIs
  <1>2. \A q \in Nat : /\ p \in Nat /\ start_of_period(d, bar.time) = p * d /\ p * d <= bar.time
                       /\ bar.time < p * d + d /\ (bar.time < q * d + d <=> p <= q)
                       /\ (q * d) \div d = q
    BY <1>1, PeriodIs DEF Period
  <1>3. 0 \in Nat
    OBVIOUS
  <1>4. p \in Nat /\ p * d \in Nat
    <2>1. p \in Nat
      BY <1>2, <1>3
    <2> HIDE DEF p
    <2> QED BY <2>1
  <1>5. bar.time <= other.time => p <= Period(d, other)
    BY <1>1, DivisionMonotone DEF Period
  <1>6. \A q \in Nat : bar.time = q * d => p = q
    BY <1>2 DEF Period
  <1> HIDE DEF p
  <1> QED BY <1>1, <1>2, <1>3, <1>4, <1>5, <1>6 DEF p

\* As long as no period misses its first bar, resampling gives the bucket of
\* each period.
LEMMA GroupsAre ==
    ASSUME NEW d \in Nat \ {0}, NEW mode \in Modes, NEW x \in Lists, x # <<>>, Climbing(x),
           NEW first, NEW last, first = Period(d, x[1]), last = Period(d, x[Len(x)]),
           \A p \in (first..last) \ {first} : \E i \in 1..Len(x) : x[i].time = p * d
    PROVE  Resampled(x, d, mode) = [k \in 1..(last - first + 1) |-> Bucket(x, d, mode, first + k - 1)]
  <1> DEFINE N == Len(x)
             P(n) == Period(d, x[n])
             B(p) == Bucket(x, d, mode, p)
             Good(n, s) ==
                 /\ s.next = P(n) * d + d
                 /\ Len(s.result) = P(n) - first
                 /\ \A k \in 1..Len(s.result) : s.result[k] = B(first + k - 1)
                 /\ s.current.bucket.time = P(n) * d
                 /\ \E a \in 1..n : Made(x, mode, a, n, s.current) /\ \A i \in 1..n : P(i) = P(n) <=> i \in a..n
             kept == {p \in Nat \X ResampleState : Good(p[1], p[2])}
             start == ResampleStart(x, d)
  <1>1. x \in Seq(MarketBar) /\ N \in Nat \ {0} /\ \A n \in 1..N : x[n] \in MarketBar
    BY DEF Lists
  <1>2. ASSUME NEW i \in 1..N, NEW k \in 1..N, i <= k
        PROVE  P(i) <= P(k) /\ x[i].time <= x[k].time
    <2>1. i \in Nat /\ k \in Nat
      BY <1>1
    <2>2. i < k \/ i = k
      BY <1>2, <2>1
    <2>3. x[i].time \in Nat /\ x[k].time \in Nat
      BY <1>1, BarIs
    <2>4. i < k => x[i].time < x[k].time
      BY ClimbingOrders
    <2>5. x[i].time <= x[k].time
      <3>1. i = k => x[i].time = x[k].time
        OBVIOUS
      <3> QED BY <2>2, <2>3, <2>4, <3>1
    <2>6. P(i) <= P(k)
      BY <1>1, <2>5, PeriodOf
    <2> QED BY <2>5, <2>6
  <1>3. ASSUME NEW n \in 1..N
        PROVE  P(n) \in Nat /\ P(n) * d \in Nat /\ P(n) * d <= x[n].time /\ x[n].time < P(n) * d + d
               /\ x[n].time \in Nat
               /\ \A q \in Nat : (x[n].time = q * d => P(n) = q) /\ (x[n].time < q * d + d <=> P(n) <= q)
    BY <1>1, PeriodOf
  <1>4. first = P(1) /\ last = P(N) /\ 1 \in 1..N /\ N \in 1..N
    BY <1>1
  <1>5. ASSUME NEW n \in 1..N, NEW a \in 1..n, \A i \in 1..n : P(i) = P(n) <=> i \in a..n,
               n # N => P(n) < P(n + 1)
        PROVE  \A i \in 1..N : P(i) = P(n) <=> i \in a..n
    <2> SUFFICES ASSUME NEW i \in 1..N, i \notin 1..n PROVE P(i) # P(n) /\ i \notin a..n
      BY <1>5
    <2>1. n + 1 <= i /\ n # N /\ n + 1 \in 1..N /\ i \notin a..n /\ n \in Nat /\ i \in Nat
      BY <1>1
    <2>2. P(n + 1) <= P(i)
      BY <1>2, <2>1
    <2>3. P(n) < P(n + 1)
      BY <1>5, <2>1
    <2>4. P(n) \in Nat /\ P(n + 1) \in Nat /\ P(i) \in Nat
      BY <1>3, <2>1
    <2> HIDE DEF P
    <2> QED BY <2>1, <2>2, <2>3, <2>4
  <1> HIDE DEF P
  <1>6. Good(1, start) /\ start \in ResampleState
    <2> DEFINE m == P(1) * d
               o == Opened(x[1], m)
    <2>1. m \in Nat /\ start_of_period(d, x[1].time) = m
      <3>1. start_of_period(d, x[1].time) = P(1) * d
        BY <1>1, <1>4, PeriodOf DEF P
      <3> QED BY <1>3, <1>4, <3>1
    <2> HIDE DEF m
    <2>2. o \in Running /\ o.bucket.time = m
      BY <1>1, <1>4, <2>1, OpenedIs
    <2>3. start = [result |-> <<>>, current |-> o, next |-> m + d]
      BY <2>1 DEF ResampleStart
    <2>4. Made(x, mode, 1, 1, o)
      BY <1>4, <2>1, MadeOpens
    <2> HIDE DEF start, o
    <2>5. start.result = <<>> /\ start.current = o /\ start.next = m + d
      BY <2>3
    <2>6. start \in ResampleState
      <3>1. m + d \in Nat /\ <<>> \in Seq(MarketBar)
        BY <2>1
      <3> QED BY <2>2, <2>3, <3>1 DEF ResampleState, Running
    <2>7. Len(start.result) = 0 /\ P(1) - first = 0
      BY <1>3, <1>4, <2>5
    <2>8. \A i \in 1..1 : P(i) = P(1) <=> i \in 1..1
      OBVIOUS
    <2> QED BY <2>2, <2>4, <2>5, <2>6, <2>7, <2>8 DEF m
  <1> HIDE DEF B
  <1>7. ASSUME NEW n \in 1..(N - 1), NEW s \in ResampleState, Good(n, s)
        PROVE  Good(n + 1, ResampleStep(s, x[n + 1], d, mode)) /\ ResampleStep(s, x[n + 1], d, mode) \in ResampleState
    <2> DEFINE z == n + 1
               bar == x[z]
               t == ResampleStep(s, bar, d, mode)
               b == s.current.bucket
               r == s.result
               p == P(n)
               q == P(z)
    <2>1. bar \in MarketBar /\ n \in Nat /\ n \in 1..N /\ z \in 1..N /\ n <= z /\ n # N
          /\ \A i \in 1..z : i \in 1..n \/ i = z
      BY <1>1
    <2>2. /\ t \in ResampleState /\ r \in Lists /\ s.current \in Running /\ s.next \in Nat
          /\ bar.time = s.next => /\ t.result = Append(r, Closed(s.current, mode))
                                  /\ t.current = Opened(bar, s.next) /\ t.next = s.next + d
          /\ bar.time # s.next => t.result = r /\ t.next = s.next /\ t.current = Joined(s.current, bar, mode)
      BY <2>1, ResampleStepTypes
    <2>3. PICK a \in 1..n : Made(x, mode, a, n, s.current) /\ \A i \in 1..n : P(i) = p <=> i \in a..n
      BY <1>7
    <2>4. s.next = p * d + d /\ Len(r) = p - first /\ (\A k \in 1..Len(r) : r[k] = B(first + k - 1))
          /\ b.time = p * d
      BY <1>7
    <2>5. p \in Nat /\ q \in Nat /\ p <= q /\ p * d \in Nat /\ q * d \in Nat /\ first \in Nat /\ first <= p
          /\ q <= last /\ last \in Nat
      <3>1. p <= q /\ q <= P(N)
        BY <1>1, <1>2, <1>4, <2>1
      <3>2. P(1) <= p
        <4>1. 1 <= n
          BY <2>1
        <4> QED BY <1>2, <1>4, <2>1, <4>1
      <3> QED BY <1>3, <1>4, <2>1, <3>1, <3>2
    <2>6. bar.time \in Nat /\ q * d <= bar.time /\ bar.time < q * d + d
          /\ \A u \in Nat : (bar.time = u * d => q = u) /\ (bar.time < u * d + d <=> q <= u)
      BY <1>3, <2>1
    <2>7. (p + 1) * d = p * d + d /\ p + 1 \in Nat
      <3> HIDE DEF p
      <3> QED BY <2>5
    <2> HIDE DEF t, b, r, p, q, bar, z
    <2>8. CASE bar.time = s.next
      <3> DEFINE c == Closed(s.current, mode)
                 rows == Append(r, c)
                 o == Opened(bar, s.next)
      <3>1. q = p + 1
        <4>1. bar.time = (p + 1) * d
          BY <2>4, <2>7, <2>8
        <4> QED BY <2>6, <2>7, <4>1
      <3>2. \A i \in 1..N : P(i) = p <=> i \in a..n
        <4>1. n # N => P(n) < P(n + 1)
          BY <2>5, <3>1 DEF p, q, z
        <4>2. \A i \in 1..n : P(i) = P(n) <=> i \in a..n
          BY <2>3 DEF p
        <4> QED BY <1>5, <2>1, <4>1, <4>2 DEF p
      <3>3. c = B(p)
        <4>1. Owned(d, x, p, a, n)
          BY <3>2 DEF P, Owned
        <4>2. s.current.bucket.time = p * d
          BY <2>4 DEF b
        <4> DEFINE cur == s.current
        <4>3. cur \in Running /\ cur.bucket.time = p * d /\ Made(x, mode, a, n, cur) /\ n \in 1..Len(x) /\ p \in Nat
          BY <2>1, <2>2, <2>3, <2>5, <4>2
        <4> HIDE DEF cur
        <4>4. Bucket(x, d, mode, p) = Closed(cur, mode)
          BY <4>1, <4>3, BucketIs
        <4> QED BY <4>4 DEF B, cur
      <3>4. c \in MarketBar
        BY <2>2, ClosedIs
      <3> HIDE DEF c
      <3>5. Len(rows) = Len(r) + 1 /\ rows[Len(r) + 1] = c /\ \A k \in 1..Len(r) : rows[k] = r[k]
        BY <2>2, <3>4, OneMore DEF Lists
      <3> HIDE DEF rows
      <3>6. o \in Running /\ o.bucket.time = s.next /\ Made(x, mode, z, z, o)
        BY <2>1, <2>2, OpenedIs, MadeOpens DEF bar
      <3> HIDE DEF o
      <3>7. t.result = rows /\ t.current = o /\ t.next = s.next + d
        BY <2>2, <2>8 DEF rows, c, o
      <3>8. Len(rows) = q - first
        <4> DEFINE l == Len(r)
        <4>1. l = p - first /\ Len(rows) = l + 1
          BY <2>4, <3>5
        <4>2. p \in Nat /\ first \in Nat
          BY <2>5
        <4> HIDE DEF l
        <4> QED BY <3>1, <4>1, <4>2
      <3>9. ASSUME NEW k \in 1..Len(rows) PROVE rows[k] = B(first + k - 1)
        <4> DEFINE l == Len(r)
        <4>0. l = p - first /\ l \in Nat /\ first \in Nat /\ p \in Nat /\ Len(rows) = l + 1
          <5>1. l = p - first /\ Len(rows) = l + 1
            BY <2>4, <3>5
          <5>2. p \in Nat /\ first \in Nat /\ first <= p
            BY <2>5
          <5> HIDE DEF l
          <5>3. l \in Nat
            BY <5>1, <5>2, SpanIs
          <5> QED BY <5>1, <5>2, <5>3
        <4>1. l \in Nat /\ k \in Nat /\ (k \in 1..l \/ k = l + 1)
          <5> HIDE DEF l
          <5> QED BY <4>0
        <4>2. k = l + 1 => first + k - 1 = p
          <5> HIDE DEF l
          <5> QED BY <4>0
        <4> QED BY <2>4, <3>3, <3>5, <4>1, <4>2
      <3>10. q * d = s.next /\ s.next + d = q * d + d
        BY <2>4, <2>7, <3>1
      <3>11. ASSUME NEW i \in 1..z PROVE P(i) = q <=> i \in z..z
        <4>1. CASE i = z
          <5>1. i \in z..z
            BY <2>1, <4>1
          <5> QED BY <4>1, <5>1 DEF q
        <4>2. CASE i \in 1..n
          <5>1. i \in 1..N /\ i <= n /\ i \notin z..z
            BY <2>1, <4>2 DEF z
          <5>2. P(i) <= p /\ P(i) \in Nat
            BY <1>2, <1>3, <2>1, <5>1 DEF p
          <5> QED BY <2>5, <3>1, <5>1, <5>2
        <4> QED BY <2>1, <4>1, <4>2
      <3>12. z \in 1..z
        BY <2>1
      <3>13. Good(z, t)
        <4>1. t.next = P(z) * d + d
          BY <3>7, <3>10 DEF q
        <4>2. Len(t.result) = P(z) - first
          BY <3>7, <3>8 DEF q
        <4>3. \A k \in 1..Len(t.result) : t.result[k] = B(first + k - 1)
          BY <3>7, <3>9
        <4>4. t.current.bucket.time = P(z) * d
          BY <3>6, <3>7, <3>10 DEF q
        <4>5. \E e \in 1..z : Made(x, mode, e, z, t.current) /\ \A i \in 1..z : P(i) = P(z) <=> i \in e..z
          BY <3>6, <3>7, <3>11, <3>12 DEF q
        <4> QED BY <4>1, <4>2, <4>3, <4>4, <4>5
      <3> HIDE DEF Good
      <3> QED BY <2>2, <3>13 DEF t, bar, z
    <2>9. CASE bar.time # s.next
      <3> DEFINE j == Joined(s.current, bar, mode)
      <3>1. q = p
        <4>1. CASE q # p
          <5>1. p + 1 <= q /\ p + 1 \in (first..last) \ {first}
            BY <2>5, <4>1
          <5>2. PICK i \in 1..N : x[i].time = (p + 1) * d
            BY <5>1
          <5>3. P(i) = p + 1
            BY <1>3, <2>7, <5>2
          <5>4. ~(i <= n)
            <6>1. i <= n => P(i) <= p
              BY <1>2, <2>1 DEF p
            <6> QED BY <2>5, <5>3, <6>1
          <5>5. z <= i
            BY <2>1, <5>4 DEF z
          <5>6. bar.time <= x[i].time
            BY <1>2, <2>1, <5>5 DEF bar
          <5>7. bar.time <= s.next
            BY <2>4, <2>7, <5>2, <5>6
          <5>8. ~(bar.time < p * d + d)
            <6>1. bar.time < p * d + d <=> q <= p
              BY <2>5, <2>6
            <6> QED BY <2>5, <5>1, <6>1
          <5>9. bar.time >= s.next
            <6> DEFINE u == p * d + d
            <6>1. u \in Nat
              BY <2>5
            <6> HIDE DEF u
            <6>2. ~(bar.time < u)
              BY <5>8 DEF u
            <6>3. s.next = u
              BY <2>4 DEF u
            <6> DEFINE v == bar.time
            <6>4. v \in Nat /\ ~(v < u)
              BY <2>6, <6>2
            <6> HIDE DEF v
            <6>5. v >= u
              BY <6>1, <6>4
            <6> QED BY <6>3, <6>5 DEF v
          <5>10. bar.time = s.next
            <6> DEFINE v == bar.time
                       u == s.next
            <6>1. v \in Nat /\ u \in Nat /\ v <= u /\ v >= u
              BY <2>2, <2>6, <5>7, <5>9
            <6> HIDE DEF u, v
            <6>2. v = u
              BY <6>1
            <6> QED BY <6>2 DEF u, v
          <5> QED BY <2>9, <5>10
        <4> QED BY <4>1
      <3>2. j.bucket.time = b.time
        BY <2>1, <2>2, JoinedIs DEF b
      <3>3. Made(x, mode, a, z, j)
        <4>1. a \in 1..n
          OBVIOUS
        <4> QED BY <2>2, <2>3, MadeJoins DEF z, bar
      <3> HIDE DEF j
      <3>4. t.result = r /\ t.current = j /\ t.next = s.next
        BY <2>2, <2>9 DEF j
      <3>5. ASSUME NEW i \in 1..z PROVE P(i) = q <=> i \in a..z
        <4>1. CASE i = z
          <5>1. i \in a..z
            BY <2>1, <4>1 DEF z
          <5> QED BY <4>1, <5>1 DEF q
        <4>2. CASE i \in 1..n
          <5>1. i \in a..z <=> i \in a..n
            BY <2>1, <4>2 DEF z
          <5> QED BY <2>3, <3>1, <4>2, <5>1
        <4> QED BY <2>1, <4>1, <4>2
      <3>6. a \in 1..z
        BY <2>1 DEF z
      <3>7. Good(z, t)
        <4>1. t.next = P(z) * d + d
          BY <2>4, <3>1, <3>4 DEF q
        <4>2. Len(t.result) = P(z) - first
          BY <2>4, <3>1, <3>4 DEF q
        <4>3. \A k \in 1..Len(t.result) : t.result[k] = B(first + k - 1)
          BY <2>4, <3>4
        <4>4. t.current.bucket.time = P(z) * d
          BY <2>4, <3>1, <3>2, <3>4 DEF q
        <4>5. \E e \in 1..z : Made(x, mode, e, z, t.current) /\ \A i \in 1..z : P(i) = P(z) <=> i \in e..z
          BY <3>3, <3>4, <3>5, <3>6 DEF q
        <4> QED BY <4>1, <4>2, <4>3, <4>4, <4>5
      <3> HIDE DEF Good
      <3> QED BY <2>2, <3>7 DEF t, bar, z
    <2> QED BY <2>8, <2>9
  <1> HIDE DEF Good, start
  <1>8. <<1, start>> \in kept
    BY <1>6
  <1>9. \A n \in 1..(N - 1), s \in ResampleState :
            <<n, s>> \in kept => <<n + 1, ResampleStep(s, x[n + 1], d, mode)>> \in kept
    <2> SUFFICES ASSUME NEW n \in 1..(N - 1), NEW s \in ResampleState, <<n, s>> \in kept
                 PROVE  <<n + 1, ResampleStep(s, x[n + 1], d, mode)>> \in kept
      OBVIOUS
    <2>1. Good(n, s)
      OBVIOUS
    <2>2. n + 1 \in Nat
      BY <1>1
    <2> QED BY <1>7, <2>1, <2>2
  <1> HIDE DEF kept
  <1>10. PICK s \in ResampleState :
             <<N, s>> \in kept /\ Resampled(x, d, mode) = Append(s.result, Closed(s.current, mode))
    BY <1>8, <1>9, ResampledKeeps DEF start
  <1>11. Good(N, s)
    BY <1>10 DEF kept
  <1> DEFINE c == Closed(s.current, mode)
             r == s.result
             rows == Append(r, c)
             L == last - first + 1
  <1>12. r \in Lists /\ s.current \in Running
    BY DEF ResampleState, Lists, Running
  <1>13. PICK a \in 1..N : Made(x, mode, a, N, s.current) /\ \A i \in 1..N : P(i) = P(N) <=> i \in a..N
    BY <1>11 DEF Good
  <1>14. Len(r) = last - first /\ (\A k \in 1..Len(r) : r[k] = B(first + k - 1))
         /\ s.current.bucket.time = last * d
    BY <1>4, <1>11 DEF Good
  <1>15. first \in Nat /\ last \in Nat /\ first <= last
    <2>1. 1 <= N
      BY <1>1
    <2>2. P(1) <= P(N)
      BY <1>2, <1>4, <2>1
    <2>3. P(1) \in Nat /\ P(N) \in Nat
      BY <1>3, <1>4
    <2> QED BY <1>4, <2>2, <2>3
  <1>16. c = B(last)
    <2>1. Owned(d, x, last, a, N)
      BY <1>4, <1>13 DEF P, Owned
    <2> DEFINE cur == s.current
    <2>2. cur \in Running /\ cur.bucket.time = last * d /\ Made(x, mode, a, N, cur) /\ N \in 1..Len(x)
      BY <1>4, <1>12, <1>13, <1>14
    <2> HIDE DEF cur
    <2>3. Bucket(x, d, mode, last) = Closed(cur, mode)
      BY <1>15, <2>1, <2>2, BucketIs
    <2> QED BY <2>3 DEF B, cur
  <1>17. c \in MarketBar
    BY <1>12, ClosedIs
  <1> HIDE DEF c, r
  <1>18. rows \in Seq(MarketBar) /\ Len(rows) = Len(r) + 1 /\ rows[Len(r) + 1] = c /\ \A k \in 1..Len(r) : rows[k] = r[k]
    BY <1>12, <1>17, OneMore DEF Lists
  <1>19. Len(rows) = L /\ L \in Nat
    BY <1>14, <1>15, <1>18
  <1> HIDE DEF rows
  <1>20. ASSUME NEW k \in 1..L PROVE rows[k] = B(first + k - 1)
    <2> DEFINE l == Len(r)
    <2>0. l = last - first
      BY <1>14
    <2>1. k \in 1..l \/ (k = l + 1 /\ first + k - 1 = last)
      <3> HIDE DEF l
      <3>1. l \in Nat /\ first \in Nat /\ last = first + l /\ L = l + 1
        <4>1. L = last - first + 1
          BY DEF L
        <4>2. l \in Nat /\ last = first + l /\ last - first + 1 = l + 1
          BY <1>15, <2>0, SpanIs
        <4> QED BY <1>15, <4>1, <4>2
      <3>2. k \in Nat /\ 1 <= k /\ k <= l + 1
        BY <3>1
      <3>3. k = l + 1 => first + k - 1 = last
        BY <3>1, <3>2
      <3>4. k # l + 1 => k \in 1..l
        BY <3>1, <3>2
      <3> QED BY <3>3, <3>4
    <2> QED BY <1>14, <1>16, <1>18, <2>1
  <1> HIDE DEF L
  <1>21. rows = [k \in 1..L |-> rows[k]]
    BY <1>18, <1>19
  <1>22. rows = [k \in 1..L |-> B(first + k - 1)]
    BY <1>20, <1>21
  <1> QED BY <1>10, <1>22 DEF rows, r, c, L, B

-----------------------------------------------------------------------------
(* Grids of times                                                          *)

\* The times of a grid, and the place of a bar on it.
At(d, start, q) == start + q * d
Place(d, start, bar) == (bar.time - start) \div d

\* The grid is strictly monotone, and goes on from each of its times.
LEMMA AtIs ==
    ASSUME NEW d \in Nat \ {0}, NEW start \in Nat, NEW a \in Nat, NEW b \in Nat
    PROVE  /\ At(d, start, a) \in Nat /\ start <= At(d, start, a)
           /\ At(d, start, a) < At(d, start, b) <=> a < b
           /\ At(d, start, a) <= At(d, start, b) <=> a <= b
           /\ At(d, start, a) = At(d, start, b) <=> a = b
           /\ At(d, start, a + b) = At(d, At(d, start, a), b) /\ At(d, start, 0) = start
           /\ At(d, start, a + 1) = At(d, start, a) + d
           /\ (At(d, start, a) - start) % d = 0
  <1> DEFINE p == a * d
             q == b * d
  <1>1. p \in Nat /\ q \in Nat /\ (a < b => p + d <= q) /\ (b < a => q + d <= p) /\ (a = b => p = q)
    <2>1. p \in Nat /\ q \in Nat
      OBVIOUS
    <2>2. (a < b => p + d <= q) /\ (b < a => q + d <= p)
      BY Apart
    <2> QED BY <2>1, <2>2
  <1>2. (a + b) * d = p + q /\ (a + 1) * d = p + d /\ 0 * d = 0
    OBVIOUS
  <1>3. At(d, start, a) = start + p /\ At(d, start, b) = start + q /\ At(d, start, a + b) = start + (a + b) * d
        /\ At(d, start, 0) = start + 0 * d /\ At(d, start, a + 1) = start + (a + 1) * d
        /\ At(d, At(d, start, a), b) = At(d, start, a) + q
    BY DEF At
  <1>4. p % d = 0
    BY PeriodIs
  <1> HIDE DEF p, q
  <1>5. At(d, start, a) \in Nat /\ start <= At(d, start, a)
    BY <1>1, <1>3
  <1>6. /\ At(d, start, a) < At(d, start, b) <=> a < b
        /\ At(d, start, a) <= At(d, start, b) <=> a <= b
        /\ At(d, start, a) = At(d, start, b) <=> a = b
    BY <1>1, <1>3
  <1>7. /\ At(d, start, a + b) = At(d, At(d, start, a), b) /\ At(d, start, 0) = start
        /\ At(d, start, a + 1) = At(d, start, a) + d
    BY <1>1, <1>2, <1>3
  <1>8. At(d, start, a) - start = p
    BY <1>1, <1>3
  <1> QED BY <1>4, <1>5, <1>6, <1>7, <1>8

\* A time that the interval divides lies on the grid.
LEMMA OnTheGrid ==
    ASSUME NEW d \in Nat \ {0}, NEW start \in Nat, NEW t \in Nat, t >= start, (t - start) % d = 0
    PROVE  LET q == (t - start) \div d
           IN  q \in Nat /\ t = At(d, start, q)
  <1> DEFINE u == t - start
             q == u \div d
             p == q * d
  <1>1. u \in Nat /\ 0 \in Nat /\ t = start + u
    OBVIOUS
  <1>2. start_of_period(d, u) = u
    BY <1>1 DEF start_of_period
  <1> HIDE DEF u
  <1>3. q \in Nat /\ start_of_period(d, u) = p
    BY <1>1, PeriodIs
  <1> QED BY <1>1, <1>2, <1>3 DEF At, u

\* The grid before an end.
LEMMA GridIs ==
    ASSUME NEW d \in Nat \ {0}, NEW start \in Nat, NEW end \in Nat
    PROVE  LET g == Grid(start, d, end)
           IN  /\ g \in Seq(Nat) /\ Len(g) \in Nat /\ DOMAIN g = 1..Len(g)
               /\ \A i \in 1..Len(g) : i - 1 \in Nat /\ g[i] = At(d, start, i - 1)
               /\ \A q \in Nat : At(d, start, q) < end <=> q < Len(g)
  <1> DEFINE g == Grid(start, d, end)
             u == end - start + d - 1
             L == IF start < end THEN u \div d ELSE 0
  <1>1. L \in Nat /\ \A q \in Nat : At(d, start, q) < end <=> q < L
    <2>1. CASE ~(start < end)
      <3>1. \A q \in Nat : At(d, start, q) \in Nat /\ start <= At(d, start, q)
        BY AtIs
      <3> QED BY <2>1, <3>1
    <2>2. CASE start < end
      <3>1. u \in Nat /\ u + 1 = end - start + d
        BY <2>2
      <3>2. L = u \div d
        BY <2>2
      <3> DEFINE l == u \div d
      <3> HIDE DEF u
      <3>3. \A q \in Nat : l \in Nat /\ (u < q * d + d <=> l <= q) /\ q * d \in Nat
        BY <3>1, PeriodIs
      <3>4. l \in Nat
        <4>1. 0 \in Nat
          OBVIOUS
        <4> QED BY <3>3, <4>1
      <3>5. ASSUME NEW q \in Nat PROVE At(d, start, q) < end <=> q < l
        <4> DEFINE p == q * d
        <4>1. p \in Nat /\ (u < p + d <=> l <= q) /\ At(d, start, q) = start + p
          BY <3>3 DEF At
        <4> HIDE DEF p, l
        <4>2. u < p + d <=> ~(start + p < end)
          BY <3>1, <4>1
        <4>3. l <= q <=> ~(q < l)
          BY <3>4
        <4> QED BY <4>1, <4>2, <4>3
      <3> HIDE DEF l
      <3> QED BY <3>2, <3>4, <3>5 DEF l
    <2> QED BY <2>1, <2>2
  <1>2. g = [i \in 1..L |-> start + (i - 1) * d]
    BY DEF Grid
  <1> HIDE DEF L, g
  <1>3. \A i \in 1..L : i - 1 \in Nat
    BY <1>1
  <1>4. \A i \in 1..L : start + (i - 1) * d = At(d, start, i - 1) /\ At(d, start, i - 1) \in Nat
    BY <1>3, AtIs DEF At
  <1>5. g = [i \in 1..L |-> At(d, start, i - 1)]
    BY <1>2, <1>4
  <1>6. g \in Seq(Nat) /\ Len(g) = L /\ DOMAIN g = 1..L /\ \A i \in 1..L : g[i] = At(d, start, i - 1)
    BY <1>1, <1>4, <1>5
  <1> QED BY <1>1, <1>3, <1>6 DEF g

\* A length is known from the places before it.
LEMMA SameLength ==
    ASSUME NEW L \in Nat, NEW M \in Nat, \A q \in Nat : q < L <=> q < M
    PROVE  L = M
  <1>1. ~(L < M) /\ ~(M < L)
    OBVIOUS
  <1> QED BY <1>1

\* The bar at a time, from the number of bars up to it.
LEMMA BarAtIs ==
    ASSUME NEW x \in Lists, x # <<>>, NEW time, NEW j \in 0..Len(x), \A i \in 1..Len(x) : x[i].time <= time <=> i <= j
    PROVE  BarAt(x, time) = x[IF j = 0 THEN 1 ELSE j] /\ (IF j = 0 THEN 1 ELSE j) \in 1..Len(x)
  <1> DEFINE S == {1} \cup {i \in DOMAIN x : x[i].time <= time}
             m == IF j = 0 THEN 1 ELSE j
  <1>1. Len(x) \in Nat \ {0} /\ DOMAIN x = 1..Len(x) /\ j \in Nat
    BY DEF Lists
  <1>2. S \in SUBSET Int /\ m \in S /\ \A y \in S : y <= m
    BY <1>1
  <1>3. m \in 1..Len(x)
    BY <1>1
  <1> HIDE DEF S, m
  <1>4. Max(S) = m
    BY <1>2, GreatestOf
  <1> QED BY <1>3, <1>4 DEF BarAt, S, m

\* A filler is a flat bar.
LEMMA FillerIs ==
    ASSUME NEW time \in Nat, NEW price \in Int, NEW spread \in Int
    PROVE  LET b == Filler(time, price, spread)
           IN  b \in MarketBar /\ b.time = time /\ b.close = price /\ Flat(b)
  BY DEF Filler, MarketBar, Flat

\* Bars that lie on the grid from start on, in order.
Gridded(d, start, x) ==
    /\ x \in Lists /\ x # <<>>
    /\ \A i \in 1..Len(x) : Place(d, start, x[i]) \in Nat /\ x[i].time = At(d, start, Place(d, start, x[i]))
    /\ \A k \in 1..Len(x), i \in 1..Len(x) : i < k => Place(d, start, x[i]) < Place(d, start, x[k])

\* What OnGrid says, by places.
LEMMA GriddedIs ==
    ASSUME NEW d \in Nat \ {0}, NEW start \in Nat, NEW x \in Lists, x # <<>>, Climbing(x), OnGrid(x, d, start)
    PROVE  Gridded(d, start, x)
  <1> DEFINE P(i) == Place(d, start, x[i])
  <1>1. Len(x) \in Nat \ {0} /\ DOMAIN x = 1..Len(x) /\ \A i \in 1..Len(x) : x[i] \in MarketBar
    BY DEF Lists
  <1>2. ASSUME NEW i \in 1..Len(x)
        PROVE  P(i) \in Nat /\ x[i].time = At(d, start, P(i)) /\ x[i].time \in Nat
    <2>1. x[i].time \in Nat /\ x[i].time >= start /\ (x[i].time - start) % d = 0
      BY <1>1, BarIs DEF OnGrid
    <2> QED BY <2>1, OnTheGrid DEF Place
  <1>3. ASSUME NEW k \in 1..Len(x), NEW i \in 1..Len(x), i < k PROVE P(i) < P(k)
    <2>1. x[i].time < x[k].time
      BY <1>3, ClimbingOrders
    <2>2. At(d, start, P(i)) < At(d, start, P(k))
      BY <1>2, <2>1
    <2> HIDE DEF P
    <2> QED BY <1>2, <2>2, AtIs
  <1> QED BY <1>2, <1>3 DEF Gridded

\* What a bar of the answer should be: the bar of that time, else a flat one.
Entry(x, time, a, inplace, known) ==
    LET bar == BarAt(x, time)
    IN  /\ a \in MarketBar /\ a.time = time
        /\ IF bar.time = time THEN a = bar
           ELSE /\ Flat(a)
                /\ known => a.close = IF inplace /\ time < bar.time THEN bar.open ELSE bar.close

\* The bar of a place, or a filler with the right price.
LEMMA EntryIs ==
    ASSUME NEW d \in Nat \ {0}, NEW start \in Nat, NEW x, Gridded(d, start, x), NEW q \in Nat,
           NEW j \in 0..Len(x), \A i \in 1..Len(x) : Place(d, start, x[i]) <= q <=> i <= j,
           NEW inplace \in BOOLEAN, NEW known \in BOOLEAN, NEW a,
           \/ /\ j # 0 /\ Place(d, start, x[j]) = q /\ a = x[j]
           \/ /\ j # 0 => Place(d, start, x[j]) # q
              /\ \E price \in Int, spread \in Int :
                    /\ a = Filler(At(d, start, q), price, spread)
                    /\ known => price = IF j # 0 THEN x[j].close ELSE IF inplace THEN x[1].open ELSE x[1].close
    PROVE  Entry(x, At(d, start, q), a, inplace, known)
  <1> DEFINE P(i) == Place(d, start, x[i])
             t == At(d, start, q)
             m == IF j = 0 THEN 1 ELSE j
             bar == x[m]
  <1>1. /\ x \in Lists /\ x # <<>> /\ Len(x) \in Nat \ {0}
        /\ \A i \in 1..Len(x) : x[i] \in MarketBar
        /\ \A i \in 1..Len(x) : P(i) \in Nat /\ x[i].time = At(d, start, P(i))
    <2>1. x \in Lists /\ x # <<>> /\ \A i \in 1..Len(x) : P(i) \in Nat /\ x[i].time = At(d, start, P(i))
      BY DEF Gridded
    <2>2. Len(x) \in Nat \ {0} /\ \A i \in 1..Len(x) : x[i] \in MarketBar
      BY <2>1 DEF Lists
    <2> QED BY <2>1, <2>2
  <1>2. \A i \in 1..Len(x) : /\ x[i].time <= t <=> P(i) <= q
                             /\ x[i].time = t <=> P(i) = q
                             /\ t < x[i].time <=> q < P(i)
    <2> SUFFICES ASSUME NEW i \in 1..Len(x)
                 PROVE  /\ x[i].time <= t <=> P(i) <= q
                        /\ x[i].time = t <=> P(i) = q
                        /\ t < x[i].time <=> q < P(i)
      OBVIOUS
    <2> DEFINE p == P(i)
    <2>1. p \in Nat /\ x[i].time = At(d, start, p)
      BY <1>1
    <2> HIDE DEF p
    <2>2. /\ At(d, start, p) <= t <=> p <= q
          /\ At(d, start, p) = t <=> p = q
          /\ t < At(d, start, p) <=> q < p
      <3>1. At(d, start, p) <= At(d, start, q) <=> p <= q
        BY <2>1, AtIs
      <3>2. At(d, start, p) = At(d, start, q) <=> p = q
        BY <2>1, AtIs
      <3>3. At(d, start, q) < At(d, start, p) <=> q < p
        BY <2>1, AtIs
      <3> QED BY <3>1, <3>2, <3>3
    <2> HIDE DEF t
    <2>3. /\ x[i].time <= t <=> p <= q
          /\ x[i].time = t <=> p = q
          /\ t < x[i].time <=> q < p
      BY <2>1, <2>2
    <2> QED BY <2>3 DEF p
  <1>3. t \in Nat
    BY AtIs
  <1>4. \A i \in 1..Len(x) : P(i) <= q <=> i <= j
    OBVIOUS
  <1> HIDE DEF P, t
  <1>5. \A i \in 1..Len(x) : x[i].time <= t <=> i <= j
    BY <1>2, <1>4
  <1>6. BarAt(x, t) = bar /\ m \in 1..Len(x)
    BY <1>1, <1>5, BarAtIs
  <1>7. bar.time = t <=> P(m) = q
    BY <1>2, <1>6
  <1>8. bar \in MarketBar
    BY <1>1, <1>6
  <1>9. j = 0 => P(m) # q /\ t < bar.time
    <2> SUFFICES ASSUME j = 0 PROVE P(m) # q /\ t < bar.time
      OBVIOUS
    <2>1. m = 1 /\ 1 \in 1..Len(x) /\ ~(1 <= j)
      BY <1>1
    <2>2. ~(P(m) <= q) /\ P(m) \in Nat
      BY <1>1, <1>4, <2>1
    <2>3. q < P(m)
      BY <2>2
    <2> QED BY <1>2, <2>1, <2>3
  <1>10. j # 0 => m = j /\ ~(t < bar.time)
    <2> SUFFICES ASSUME j # 0 PROVE m = j /\ ~(t < bar.time)
      OBVIOUS
    <2>1. m = j /\ j <= j /\ j \in 1..Len(x)
      OBVIOUS
    <2>2. P(j) <= q /\ P(j) \in Nat
      BY <1>1, <1>4, <2>1
    <2> QED BY <1>2, <2>1, <2>2
  <1>11. CASE j # 0 /\ P(j) = q /\ a = x[j]
    <2>1. a = bar /\ bar.time = t
      BY <1>7, <1>10, <1>11
    <2> HIDE DEF bar
    <2>2. Entry(x, t, a, inplace, known)
      BY <1>6, <1>8, <2>1 DEF Entry
    <2> QED BY <2>2 DEF t
  <1>12. CASE ~(j # 0 /\ P(j) = q /\ a = x[j])
    <2>0. /\ j # 0 => P(j) # q
          /\ \E price \in Int, spread \in Int :
                /\ a = Filler(t, price, spread)
                /\ known => price = IF j # 0 THEN x[j].close ELSE IF inplace THEN x[1].open ELSE x[1].close
      BY <1>12 DEF P, t
    <2>1. PICK price \in Int, spread \in Int :
              /\ a = Filler(t, price, spread)
              /\ known => price = IF j # 0 THEN x[j].close ELSE IF inplace THEN x[1].open ELSE x[1].close
      BY <2>0
    <2>2. a \in MarketBar /\ a.time = t /\ a.close = price /\ Flat(a)
      <3> DEFINE b == Filler(t, price, spread)
      <3>1. b \in MarketBar /\ b.time = t /\ b.close = price /\ Flat(b)
        BY <1>3, FillerIs
      <3>2. a = b
        BY <2>1
      <3> HIDE DEF b
      <3> QED BY <3>1, <3>2
    <2>3. bar.time # t
      BY <1>7, <1>9, <1>10, <2>0
    <2>4. known => price = IF inplace /\ t < bar.time THEN bar.open ELSE bar.close
      <3>1. CASE j = 0
        BY <1>9, <2>1, <3>1
      <3>2. CASE j # 0
        BY <1>10, <2>1, <3>2
      <3> QED BY <3>1, <3>2
    <2> HIDE DEF bar
    <2>5. Entry(x, t, a, inplace, known)
      BY <1>6, <2>2, <2>3, <2>4 DEF Entry
    <2> QED BY <2>5 DEF t
  <1> QED BY <1>11, <1>12

\* A row that has what belongs at each time of the grid.
GridRow(d, start, x, row, M, inplace, known) ==
    /\ row \in Lists /\ Len(row) = M /\ M \in Nat
    /\ known \in [1..M -> BOOLEAN]
    /\ \A k \in 1..M : Entry(x, At(d, start, k - 1), row[k], inplace, known[k])

\* What filling gives.
GridAnswered(d, start, x, row, M, inplace, known) ==
    /\ ToSet(Field_of(row, "time")) = {At(d, start, k - 1) : k \in 1..M}
    /\ \A k \in 1..(Len(row) - 1) : row[k].time < row[k + 1].time
    /\ \A k \in DOMAIN row : k \in 1..M /\ row[k].time = At(d, start, k - 1) /\
          LET bar == BarAt(x, row[k].time)
          IN  IF bar.time = row[k].time THEN row[k] = bar
              ELSE /\ Flat(row[k])
                   /\ known[k] => row[k].close =
                         IF inplace /\ row[k].time < bar.time THEN bar.open ELSE bar.close

\* Such a row is what filling gives.
LEMMA GridAnswer ==
    ASSUME NEW d \in Nat \ {0}, NEW start \in Nat, NEW x, NEW row, NEW M,
           NEW inplace \in BOOLEAN, NEW known, GridRow(d, start, x, row, M, inplace, known)
    PROVE  GridAnswered(d, start, x, row, M, inplace, known)
  <1>1. DOMAIN row = 1..M /\ M \in Nat /\ Len(row) = M
    BY DEF Lists, GridRow
  <1>2. \A k \in 1..M : row[k].time = At(d, start, k - 1)
    BY DEF Entry, GridRow
  <1>3. ToSet(Field_of(row, "time")) = {At(d, start, k - 1) : k \in 1..M}
    <2>1. ToSet(Field_of(row, "time")) = {row[k].time : k \in 1..M}
      BY <1>1 DEF ToSet, Field_of
    <2> QED BY <1>2, <2>1
  <1>4. ASSUME NEW k \in 1..(Len(row) - 1) PROVE row[k].time < row[k + 1].time
    <2>1. k \in 1..M /\ k + 1 \in 1..M /\ k - 1 \in Nat /\ k \in Nat /\ (k + 1) - 1 = k /\ k - 1 < k
      BY <1>1
    <2>2. At(d, start, k - 1) < At(d, start, k)
      BY <2>1, AtIs
    <2> QED BY <1>2, <2>1, <2>2
  <1>5. ASSUME NEW k \in DOMAIN row
        PROVE  k \in 1..M /\ row[k].time = At(d, start, k - 1) /\
                 LET bar == BarAt(x, row[k].time)
                 IN  IF bar.time = row[k].time THEN row[k] = bar
                     ELSE /\ Flat(row[k])
                          /\ known[k] => row[k].close =
                                IF inplace /\ row[k].time < bar.time THEN bar.open ELSE bar.close
    BY <1>1, <1>2 DEF Entry, GridRow
  <1> QED BY <1>3, <1>4, <1>5 DEF GridAnswered

-----------------------------------------------------------------------------
(* Filling a range                                                         *)

\* A time takes the next bar, if it is the bar of that time, or a filler.
TimeTaken(x, s, time, t) ==
    LET hit == s.index < Len(x) /\ x[s.index + 1].time = time
        price == IF s.index # 0 THEN x[s.index].close ELSE x[1].close
    IN  /\ t \in FillState(x) /\ s.result \in Lists /\ s.index \in 0..Len(x) /\ s.spread \in Int
        /\ hit => /\ s.index + 1 \in 1..Len(x) /\ t.index = s.index + 1
                  /\ t.result = Append(s.result, x[s.index + 1])
        /\ ~hit => /\ t.index = s.index /\ t.result = Append(s.result, Filler(time, price, s.spread))
                   /\ price \in Int /\ Filler(time, price, s.spread) \in MarketBar

LEMMA FillStepIs ==
    ASSUME NEW x \in Lists, x # <<>>, NEW s \in FillState(x), NEW time \in Nat
    PROVE  TimeTaken(x, s, time, FillStep(s, x, time))
  <1> USE DEF TimeTaken
  <1> DEFINE t == FillStep(s, x, time)
             n == s.index + 1
             hit == s.index < Len(x) /\ x[n].time = time
             price == IF s.index # 0 THEN x[s.index].close ELSE x[1].close
             f == Filler(time, price, s.spread)
             b == x[n]
  <1>1. /\ Len(x) \in Nat \ {0} /\ \A i \in 1..Len(x) : x[i] \in MarketBar
        /\ s.result \in Seq(MarketBar) /\ s.index \in 0..Len(x) /\ s.spread \in Int
    BY DEF Lists, FillState
  <1>2. s.index \in Nat /\ s.index <= Len(x) /\ (s.index > 0 <=> s.index # 0) /\ 1 \in 1..Len(x)
        /\ (s.index # 0 => s.index \in 1..Len(x)) /\ (s.index < Len(x) => n \in 1..Len(x) /\ n \in 0..Len(x))
    BY <1>1
  <1>3. price \in Int
    BY <1>1, <1>2, BarIs
  <1> HIDE DEF price
  <1>4. f \in MarketBar
    BY <1>1, <1>3, FillerIs
  <1> HIDE DEF f
  <1>5. CASE hit
    <2>1. t = [result |-> Append(s.result, b), index |-> n, spread |-> b.spread]
      BY <1>5 DEF FillStep
    <2>2. n \in 1..Len(x) /\ n \in 0..Len(x) /\ b \in MarketBar /\ b.spread \in Int
      BY <1>1, <1>2, <1>5, BarIs
    <2>3. Append(s.result, b) \in Seq(MarketBar)
      BY <1>1, <2>2, OneMore
    <2> HIDE DEF t, b, n
    <2>4. t \in FillState(x) /\ t.index = n /\ t.result = Append(s.result, b)
      BY <2>1, <2>2, <2>3 DEF FillState
    <2> QED BY <1>1, <1>5, <2>2, <2>4 DEF t, b, n, Lists
  <1>6. CASE ~hit
    <2>1. t = [s EXCEPT !.result = Append(@, f)]
      BY <1>2, <1>6 DEF FillStep, f, price
    <2>2. Append(s.result, f) \in Seq(MarketBar)
      BY <1>1, <1>4, OneMore
    <2> HIDE DEF t
    <2>3. t \in FillState(x) /\ t.index = s.index /\ t.result = Append(s.result, f)
      BY <2>1, <2>2 DEF FillState
    <2> QED BY <1>1, <1>3, <1>4, <1>6, <2>3 DEF t, f, price, Lists
  <1> QED BY <1>5, <1>6

\* Filling over a range gives what belongs at each time of it.
LEMMA FillIs ==
    ASSUME NEW d \in Nat \ {0}, NEW start \in Nat, NEW end \in Nat, NEW x, Gridded(d, start, x)
    PROVE  LET row == fill_missing_bars(x, d, start, end)
           IN  /\ row \in Lists /\ Len(row) = Len(Grid(start, d, end))
               /\ \A k \in 1..Len(row) : Entry(x, At(d, start, k - 1), row[k], FALSE, TRUE)
  <1> DEFINE g == Grid(start, d, end)
             P(i) == Place(d, start, x[i])
             N == Len(x)
             body == [p \in FillState(x) \X Nat |-> FillStep(p[1], x, p[2])]
             first == [result |-> <<>>, index |-> 0, spread |-> x[1].spread]
             Good(n, s) ==
                 /\ Len(s.result) = n
                 /\ \A k \in 1..n : Entry(x, At(d, start, k - 1), s.result[k], FALSE, TRUE)
                 /\ \A i \in 1..N : P(i) < n <=> i <= s.index
             kept == {p \in Nat \X FillState(x) : Good(p[1], p[2])}
  <1>1. /\ x \in Lists /\ x # <<>> /\ N \in Nat \ {0} /\ 1 \in 1..N
        /\ \A i \in 1..N : x[i] \in MarketBar
        /\ \A i \in 1..N : P(i) \in Nat /\ x[i].time = At(d, start, P(i))
        /\ \A k \in 1..N, i \in 1..N : i < k => P(i) < P(k)
    <2>1. x \in Lists /\ x # <<>> /\ (\A i \in 1..N : P(i) \in Nat /\ x[i].time = At(d, start, P(i)))
          /\ \A k \in 1..N, i \in 1..N : i < k => P(i) < P(k)
      BY DEF Gridded
    <2>2. N \in Nat \ {0} /\ 1 \in 1..N /\ \A i \in 1..N : x[i] \in MarketBar
      BY <2>1 DEF Lists
    <2> QED BY <2>1, <2>2
  <1>2. g \in Seq(Nat) /\ Len(g) \in Nat /\ \A i \in 1..Len(g) : i - 1 \in Nat /\ g[i] = At(d, start, i - 1)
    BY GridIs
  <1>3. body \in [FillState(x) \X Nat -> FillState(x)]
    <2>1. \A s \in FillState(x), time \in Nat : FillStep(s, x, time) \in FillState(x)
      BY <1>1, FillStepIs DEF TimeTaken
    <2> QED BY <2>1
  <1>4. first \in FillState(x) /\ Good(0, first)
    <2>1. x[1].spread \in Int /\ 0 \in 0..N /\ <<>> \in Seq(MarketBar)
      BY <1>1, BarIs
    <2>2. first \in FillState(x)
      BY <2>1 DEF FillState
    <2>3. \A i \in 1..N : ~(P(i) < 0) /\ ~(i <= 0)
      <3> HIDE DEF P
      <3> QED BY <1>1
    <2> QED BY <2>2, <2>3
  <1> HIDE DEF g, P
  <1>5. ASSUME NEW n \in 1..Len(g), NEW s \in FillState(x), Good(n - 1, s)
        PROVE  Good(n, FillStep(s, x, g[n])) /\ FillStep(s, x, g[n]) \in FillState(x)
    <2> DEFINE q == n - 1
               time == g[n]
               t == FillStep(s, x, time)
               j == s.index
               r == s.result
               price == IF j # 0 THEN x[j].close ELSE x[1].close
               f == Filler(time, price, s.spread)
               hit == j < N /\ x[j + 1].time = time
    <2>1. q \in Nat /\ n \in Nat /\ n = q + 1 /\ time = At(d, start, q) /\ time \in Nat
      <3>1. q \in Nat /\ n \in Nat /\ n = q + 1 /\ time = At(d, start, q)
        BY <1>2
      <3> HIDE DEF q, time
      <3> QED BY <3>1, AtIs
    <2>2. /\ t \in FillState(x) /\ r \in Lists /\ j \in 0..N /\ s.spread \in Int
          /\ hit => j + 1 \in 1..N /\ t.index = j + 1 /\ t.result = Append(r, x[j + 1])
          /\ ~hit => t.index = j /\ t.result = Append(r, f) /\ price \in Int /\ f \in MarketBar
      <3>1. x \in Lists /\ x # <<>>
        BY <1>1
      <3>2. time \in Nat
        BY <2>1
      <3> HIDE DEF time
      <3>3. TimeTaken(x, s, time, t)
        BY <3>1, <3>2, FillStepIs
      <3> HIDE DEF t
      <3> QED BY <3>3 DEF TimeTaken
    <2>3. /\ Len(r) = q
          /\ \A k \in 1..q : Entry(x, At(d, start, k - 1), r[k], FALSE, TRUE)
          /\ \A i \in 1..N : P(i) < q <=> i <= j
      BY <1>5
    <2>4. \A i \in 1..N : x[i].time = time <=> P(i) = q
      <3> SUFFICES ASSUME NEW i \in 1..N PROVE x[i].time = time <=> P(i) = q
        OBVIOUS
      <3> DEFINE p == P(i)
      <3>1. p \in Nat /\ x[i].time = At(d, start, p)
        BY <1>1
      <3> HIDE DEF p, q, time
      <3>2. At(d, start, p) = At(d, start, q) <=> p = q
        <4>1. q \in Nat /\ p \in Nat
          BY <2>1, <3>1
        <4> QED BY <4>1, AtIs
      <3> QED BY <2>1, <3>1, <3>2 DEF p
    <2> HIDE DEF q, time, t, j, r, f, price
    <2>5. \A i \in 1..N : P(i) \in Nat /\ i \in Nat /\ (P(i) < n <=> P(i) <= q) /\ (P(i) < q => P(i) <= q)
      BY <1>1, <2>1
    <2>6. CASE hit
      <3> DEFINE z == j + 1
                 b == x[z]
      <3>1. z \in 1..N /\ t.index = z /\ t.result = Append(r, b) /\ P(z) = q /\ z \in 0..N /\ z # 0 /\ j \in Nat
        BY <2>2, <2>4, <2>6
      <3>2. ASSUME NEW i \in 1..N PROVE P(i) <= q <=> i <= z
        <4>1. CASE i <= j
          BY <2>3, <2>5, <3>1, <4>1
        <4>2. CASE i = z
          BY <2>1, <3>1, <4>2
        <4>3. CASE z < i
          <5>1. P(z) < P(i)
            BY <1>1, <3>1, <4>3
          <5> QED BY <2>1, <2>5, <3>1, <4>3, <5>1
        <4> QED BY <2>5, <3>1, <4>1, <4>2, <4>3
      <3> HIDE DEF z
      <3>3. Entry(x, At(d, start, q), b, FALSE, TRUE)
        <4>1. z # 0 /\ Place(d, start, x[z]) = q /\ \A i \in 1..Len(x) : Place(d, start, x[i]) <= q <=> i <= z
          BY <3>1, <3>2 DEF P
        <4> QED BY <2>1, <3>1, <4>1, EntryIs
      <3>4. Good(n, t)
        <4>1. b \in MarketBar
          BY <1>1, <3>1
        <4> HIDE DEF b
        <4>2. Len(t.result) = q + 1 /\ t.result[q + 1] = b /\ \A k \in 1..q : t.result[k] = r[k]
          BY <2>2, <2>3, <3>1, <4>1, OneMore DEF Lists
        <4>3. \A k \in 1..n : k \in 1..q \/ k = n
          BY <2>1
        <4>4. \A k \in 1..n : Entry(x, At(d, start, k - 1), t.result[k], FALSE, TRUE)
          <5> SUFFICES ASSUME NEW k \in 1..n PROVE Entry(x, At(d, start, k - 1), t.result[k], FALSE, TRUE)
            OBVIOUS
          <5>1. k = n => k - 1 = q /\ t.result[k] = b
            BY <2>1, <4>2
          <5> QED BY <2>3, <3>3, <4>2, <4>3, <5>1
        <4>5. \A i \in 1..N : P(i) < n <=> i <= t.index
          BY <2>5, <3>1, <3>2
        <4> QED BY <2>1, <4>2, <4>4, <4>5
      <3> HIDE DEF Good
      <3> QED BY <2>2, <3>4 DEF t, time
    <2>7. CASE ~hit
      <3>1. t.index = j /\ t.result = Append(r, f) /\ price \in Int /\ f \in MarketBar /\ j \in Nat
        BY <2>2, <2>7
      <3>2. ASSUME NEW i \in 1..N PROVE P(i) <= q <=> i <= j
        <4>1. CASE i <= j
          BY <2>3, <2>5, <4>1
        <4>2. CASE ~(i <= j)
          <5>1. j + 1 \in 1..N /\ j < N /\ (i = j + 1 \/ j + 1 < i)
            BY <2>2, <3>1, <4>2
          <5>2. P(j + 1) # q
            BY <2>4, <2>7, <5>1
          <5>3. ~(P(j + 1) < q)
            BY <2>3, <3>1, <5>1
          <5>4. P(j + 1) <= P(i)
            <6>1. j + 1 < i => P(j + 1) < P(i)
              BY <1>1, <5>1
            <6>2. P(j + 1) \in Nat /\ P(i) \in Nat
              BY <2>5, <5>1
            <6>3. i = j + 1 => P(j + 1) <= P(i)
              BY <6>2
            <6> QED BY <5>1, <6>1, <6>2, <6>3
          <5>5. P(j + 1) \in Nat /\ P(i) \in Nat
            BY <2>5, <5>1
          <5>6. q < P(i)
            BY <2>1, <5>2, <5>3, <5>4, <5>5
          <5> QED BY <2>1, <4>2, <5>5, <5>6
        <4> QED BY <4>1, <4>2
      <3>3. Entry(x, At(d, start, q), f, FALSE, TRUE)
        <4>1. j \in 0..Len(x) /\ \A i \in 1..Len(x) : Place(d, start, x[i]) <= q <=> i <= j
          BY <2>2, <3>2 DEF P
        <4>2. j # 0 => Place(d, start, x[j]) # q
          <5> SUFFICES ASSUME j # 0 PROVE P(j) # q
            BY DEF P
          <5>1. j \in 1..N /\ j <= j
            BY <2>2, <3>1
          <5>2. P(j) < q /\ P(j) \in Nat
            BY <2>3, <2>5, <5>1
          <5> QED BY <2>1, <5>2
        <4>3. \E p \in Int, spread \in Int :
                  /\ f = Filler(At(d, start, q), p, spread)
                  /\ TRUE => p = IF j # 0 THEN x[j].close ELSE IF FALSE THEN x[1].open ELSE x[1].close
          <5>1. f = Filler(At(d, start, q), price, s.spread)
            BY <2>1 DEF f
          <5>2. price = IF j # 0 THEN x[j].close ELSE IF FALSE THEN x[1].open ELSE x[1].close
            BY DEF price
          <5> QED BY <2>2, <3>1, <5>1, <5>2
        <4> QED BY <2>1, <4>1, <4>2, <4>3, EntryIs
      <3>4. Good(n, t)
        <4>2. Len(t.result) = q + 1 /\ t.result[q + 1] = f /\ \A k \in 1..q : t.result[k] = r[k]
          BY <2>2, <2>3, <3>1, OneMore DEF Lists
        <4>3. \A k \in 1..n : k \in 1..q \/ k = n
          BY <2>1
        <4>4. \A k \in 1..n : Entry(x, At(d, start, k - 1), t.result[k], FALSE, TRUE)
          <5> SUFFICES ASSUME NEW k \in 1..n PROVE Entry(x, At(d, start, k - 1), t.result[k], FALSE, TRUE)
            OBVIOUS
          <5>1. k = n => k - 1 = q /\ t.result[k] = f
            BY <2>1, <4>2
          <5> QED BY <2>3, <3>3, <4>2, <4>3, <5>1
        <4>5. \A i \in 1..N : P(i) < n <=> i <= t.index
          BY <2>5, <3>1, <3>2
        <4> QED BY <2>1, <4>2, <4>4, <4>5
      <3> HIDE DEF Good
      <3> QED BY <2>2, <3>4 DEF t, time
    <2> QED BY <2>6, <2>7
  <1>6. fill_missing_bars(x, d, start, end) = Loop(body, first, g).result
    BY <1>1 DEF fill_missing_bars, g
  <1> HIDE DEF Good, first
  <1>7. <<0, first>> \in kept
    BY <1>4
  <1>8. \A n \in 1..Len(g), s \in FillState(x) : <<n - 1, s>> \in kept => <<n, body[<<s, g[n]>>]>> \in kept
    <2> SUFFICES ASSUME NEW n \in 1..Len(g), NEW s \in FillState(x), <<n - 1, s>> \in kept
                 PROVE  <<n, body[<<s, g[n]>>]>> \in kept
      OBVIOUS
    <2>1. Good(n - 1, s)
      <3> HIDE DEF body
      <3> QED OBVIOUS
    <2>2. n \in Nat /\ g[n] \in Nat
      BY <1>2
    <2>3. body[<<s, g[n]>>] = FillStep(s, x, g[n])
      BY <2>2
    <2>4. Good(n, FillStep(s, x, g[n])) /\ FillStep(s, x, g[n]) \in FillState(x)
      BY <1>5, <2>1
    <2> HIDE DEF body
    <2> QED BY <2>2, <2>3, <2>4
  <1> HIDE DEF kept, body
  <1>9. <<Len(g), Loop(body, first, g)>> \in kept /\ Loop(body, first, g) \in FillState(x)
    <2> DEFINE S == FillState(x)
    <2>1. body \in [S \X Nat -> S] /\ first \in S /\ g \in Seq(Nat)
          /\ \A n \in 1..Len(g), s \in S : <<n - 1, s>> \in kept => <<n, body[<<s, g[n]>>]>> \in kept
      BY <1>2, <1>3, <1>4, <1>8
    <2> HIDE DEF S
    <2>2. <<Len(g), Loop(body, first, g)>> \in kept /\ Loop(body, first, g) \in S
      BY <1>7, <2>1, LoopInvariant
    <2> QED BY <2>2 DEF S
  <1> DEFINE row == Loop(body, first, g).result
  <1>10. row \in Lists /\ Len(row) = Len(g) /\ \A k \in 1..Len(row) : Entry(x, At(d, start, k - 1), row[k], FALSE, TRUE)
    <2>1. row \in Lists
      BY <1>9 DEF FillState, Lists
    <2>2. Good(Len(g), Loop(body, first, g))
      BY <1>9 DEF kept
    <2> QED BY <2>1, <2>2 DEF Good
  <1> QED BY <1>6, <1>10 DEF g

-----------------------------------------------------------------------------
(* Filling in place                                                        *)

\* Bars in place from a place of the grid on.  What a stale reference gave is
\* known only where it is not used.
PriceKnown(d, x, time) == ~(time > x[Len(x)].time + d)
Laid(d, start, x, from, row) ==
    /\ row \in Lists
    /\ \A k \in 1..Len(row) :
          LET time == At(d, start, from + k - 1)
          IN  Entry(x, time, row[k], TRUE, PriceKnown(d, x, time))

\* Pieces that follow each other.
LEMMA LaidJoins ==
    ASSUME NEW d, NEW start, NEW x, NEW from \in Nat, NEW r, NEW s,
           Laid(d, start, x, from, r), Laid(d, start, x, from + Len(r), s)
    PROVE  Laid(d, start, x, from, r \o s) /\ Len(r \o s) = Len(r) + Len(s)
  <1> DEFINE t == r \o s
             N == Len(r)
             M == Len(s)
             time(k) == At(d, start, from + k - 1)
  <1>1. r \in Seq(MarketBar) /\ s \in Seq(MarketBar)
    BY DEF Laid, Lists
  <1>2. /\ t \in Seq(MarketBar) /\ Len(t) = N + M /\ N \in Nat /\ M \in Nat
        /\ \A k \in 1..N : t[k] = r[k]
        /\ \A k \in 1..M : t[N + k] = s[k]
    BY <1>1
  <1> HIDE DEF t
  <1>3. ASSUME NEW k \in 1..(N + M) PROVE Entry(x, time(k), t[k], TRUE, PriceKnown(d, x, time(k)))
    <2>1. CASE k \in 1..N
      BY <1>2, <2>1 DEF Laid
    <2>2. CASE k \notin 1..N
      <3> DEFINE l == k - N
      <3>1. l \in 1..M /\ N + l = k /\ from + k - 1 = (from + N) + l - 1
        BY <1>2, <2>2
      <3> HIDE DEF l
      <3>2. t[k] = s[l]
        BY <1>2, <3>1
      <3> DEFINE u == At(d, start, (from + N) + l - 1)
      <3>3. Entry(x, u, s[l], TRUE, PriceKnown(d, x, u))
        BY <3>1 DEF Laid
      <3>4. u = time(k)
        BY <3>1
      <3> HIDE DEF u, time
      <3> QED BY <3>2, <3>3, <3>4
    <2> QED BY <2>1, <2>2
  <1>4. Laid(d, start, x, from, t)
    BY <1>2, <1>3 DEF Laid, Lists
  <1> QED BY <1>2, <1>4 DEF t

\* A bar at its own place.
LEMMA LaidBar ==
    ASSUME NEW d \in Nat \ {0}, NEW start \in Nat, NEW x, Gridded(d, start, x), NEW n \in 1..Len(x)
    PROVE  Laid(d, start, x, Place(d, start, x[n]), <<x[n]>>) /\ Len(<<x[n]>>) = 1
  <1> DEFINE q == Place(d, start, x[n])
             b == x[n]
             row == <<b>>
             t == At(d, start, q)
  <1>1. /\ x \in Lists /\ \A i \in 1..Len(x) : Place(d, start, x[i]) \in Nat
        /\ \A k \in 1..Len(x), i \in 1..Len(x) : i < k => Place(d, start, x[i]) < Place(d, start, x[k])
    BY DEF Gridded
  <1>2. b \in MarketBar /\ Len(x) \in Nat /\ n \in 0..Len(x) /\ n # 0
    BY <1>1 DEF Lists
  <1>3. q \in Nat
    BY <1>1
  <1>4. ASSUME NEW i \in 1..Len(x) PROVE Place(d, start, x[i]) <= q <=> i <= n
    <2>1. i < n => Place(d, start, x[i]) < q
      BY <1>1
    <2>2. n < i => q < Place(d, start, x[i])
      BY <1>1
    <2>3. Place(d, start, x[i]) \in Nat /\ i \in Nat /\ n \in Nat
      BY <1>1
    <2>4. i = n => Place(d, start, x[i]) = q
      OBVIOUS
    <2> HIDE DEF q
    <2> QED BY <1>3, <2>1, <2>2, <2>3, <2>4
  <1>5. Entry(x, t, b, TRUE, PriceKnown(d, x, t))
    <2>1. PriceKnown(d, x, t) \in BOOLEAN
      BY DEF PriceKnown
    <2> DEFINE known == PriceKnown(d, x, t)
    <2>2. Place(d, start, x[n]) = q /\ b = x[n]
      OBVIOUS
    <2> HIDE DEF q, b, known
    <2>3. Entry(x, At(d, start, q), b, TRUE, known)
      BY <1>2, <1>3, <1>4, <2>1, <2>2, EntryIs DEF known
    <2> QED BY <2>3 DEF known
  <1> HIDE DEF b
  <1>6. row \in Lists /\ Len(row) = 1 /\ row[1] = b
    BY <1>2 DEF Lists
  <1>7. \A k \in 1..1 : k = 1 /\ q + k - 1 = q
    BY <1>3
  <1> HIDE DEF row, q
  <1>8. Laid(d, start, x, q, row)
    BY <1>5, <1>6, <1>7 DEF Laid
  <1> QED BY <1>6, <1>8 DEF row, q, b

\* The first j bars are the ones before each place from here to a time.
Between(d, start, x, from, end, j) ==
    \A q \in Nat : from <= q /\ At(d, start, q) < end =>
        \A i \in 1..Len(x) : Place(d, start, x[i]) <= q <=> i <= j
\* Fillers at these times, at this price where it is known.
FillersOf(d, x, g, row, price) ==
    /\ row = [i \in DOMAIN g |-> row[i]]
    /\ \A i \in DOMAIN g : \E p \in Int, spread \in Int :
          row[i] = Filler(g[i], p, spread) /\ (PriceKnown(d, x, g[i]) => p = price)

\* Fillers from a place on, up to a time, with the same bars before each.
LEMMA FillersLaid ==
    ASSUME NEW d \in Nat \ {0}, NEW start \in Nat, NEW x, Gridded(d, start, x), NEW from \in Nat, NEW end \in Nat,
           NEW j \in 0..Len(x),
           Between(d, start, x, from, end, j),
           j # 0 => Place(d, start, x[j]) < from,
           NEW g, g = Grid(At(d, start, from), d, end),
           NEW row, FillersOf(d, x, g, row, IF j # 0 THEN x[j].close ELSE x[1].open)
    PROVE  /\ Laid(d, start, x, from, row) /\ Len(row) \in Nat
           /\ \A q \in Nat : At(d, start, from + q) < end <=> q < Len(row)
  <1> DEFINE L == Len(g)
             o == At(d, start, from)
  <1>1. o \in Nat
    BY AtIs
  <1>2. /\ L \in Nat /\ DOMAIN g = 1..L
        /\ \A i \in 1..L : i - 1 \in Nat /\ g[i] = At(d, o, i - 1)
        /\ \A q \in Nat : At(d, o, q) < end <=> q < L
    <2> HIDE DEF o
    <2>1. g = Grid(o, d, end)
      BY DEF o
    <2>2. L \in Nat /\ DOMAIN g = 1..L
      BY <1>1, <2>1, GridIs
    <2>3. \A i \in 1..L : i - 1 \in Nat /\ g[i] = At(d, o, i - 1)
      <3> DEFINE h == Grid(o, d, end)
      <3>1. \A i \in 1..Len(h) : i - 1 \in Nat /\ h[i] = At(d, o, i - 1)
        BY <1>1, GridIs
      <3>2. g = h
        BY <2>1
      <3> HIDE DEF h
      <3> QED BY <3>1, <3>2
    <2>4. \A q \in Nat : At(d, o, q) < end <=> q < L
      <3>1. \A q \in Nat : At(d, o, q) < end <=> q < Len(Grid(o, d, end))
        BY <1>1, GridIs
      <3> QED BY <2>1, <3>1
    <2> QED BY <2>2, <2>3, <2>4
  <1>3. \A q \in Nat : At(d, start, from + q) = At(d, o, q) /\ from + q \in Nat /\ from <= from + q
    <2> SUFFICES ASSUME NEW q \in Nat
                 PROVE  At(d, start, from + q) = At(d, o, q) /\ from + q \in Nat /\ from <= from + q
      OBVIOUS
    <2>1. At(d, start, from + q) = At(d, o, q)
      BY AtIs
    <2> QED BY <2>1
  <1> HIDE DEF o
  <1>4. ASSUME NEW k \in 1..L
        PROVE  LET time == At(d, start, from + k - 1)
               IN  Entry(x, time, row[k], TRUE, PriceKnown(d, x, time)) /\ row[k] \in MarketBar
    <2> DEFINE q == from + (k - 1)
               t == At(d, start, q)
               known == PriceKnown(d, x, t)
               a == row[k]
    <2>1. q \in Nat /\ from <= q /\ t = g[k] /\ t < end /\ from + k - 1 = q
      <3>1. k - 1 \in Nat /\ k - 1 < L
        BY <1>2
      <3>2. t = At(d, o, k - 1) /\ q \in Nat /\ from <= q
        BY <1>3, <3>1
      <3> QED BY <1>2, <3>1, <3>2
    <2>2. \A i \in 1..Len(x) : Place(d, start, x[i]) <= q <=> i <= j
      BY <2>1 DEF Between
    <2>3. j # 0 => Place(d, start, x[j]) # q
      <3> SUFFICES ASSUME j # 0 PROVE Place(d, start, x[j]) # q
        OBVIOUS
      <3>1. Place(d, start, x[j]) < from /\ Place(d, start, x[j]) \in Nat
        <4>1. j \in 1..Len(x)
          OBVIOUS
        <4> QED BY <4>1 DEF Gridded
      <3> HIDE DEF q
      <3> QED BY <2>1, <3>1
    <2>4. known \in BOOLEAN
      BY DEF PriceKnown
    <2>5. \E price \in Int, spread \in Int :
              /\ a = Filler(t, price, spread)
              /\ known => price = IF j # 0 THEN x[j].close ELSE IF TRUE THEN x[1].open ELSE x[1].close
      <3>1. \E price \in Int, spread \in Int :
               /\ row[k] = Filler(g[k], price, spread)
               /\ PriceKnown(d, x, g[k]) => price = IF j # 0 THEN x[j].close ELSE x[1].open
        BY <1>2 DEF FillersOf
      <3> QED BY <2>1, <3>1
    <2> HIDE DEF q, a, known
    <2>6. Entry(x, At(d, start, q), a, TRUE, known)
      <3>1. q \in Nat /\ TRUE \in BOOLEAN
        BY <2>1
      <3>2. \E price \in Int, spread \in Int :
                /\ a = Filler(At(d, start, q), price, spread)
                /\ known => price = IF j # 0 THEN x[j].close ELSE IF TRUE THEN x[1].open ELSE x[1].close
        BY <2>5
      <3> QED BY <3>1, <2>2, <2>3, <2>4, <3>2, EntryIs
    <2>7. a \in MarketBar
      BY <2>6 DEF Entry
    <2> QED BY <2>1, <2>6, <2>7 DEF a, known
  <1>5. row \in Lists /\ Len(row) = L
    <2>1. \A k \in 1..L : row[k] \in MarketBar
      BY <1>4
    <2>2. row = [i \in 1..L |-> row[i]]
      BY <1>2 DEF FillersOf
    <2>3. L \in Nat
      BY <1>2
    <2> HIDE DEF L
    <2>4. row \in [1..L -> MarketBar]
      BY <2>1, <2>2
    <2> QED BY <2>3, <2>4, RowOfLength DEF Lists
  <1>6. Laid(d, start, x, from, row)
    BY <1>4, <1>5 DEF Laid
  <1> QED BY <1>2, <1>3, <1>5, <1>6

\* The steps of the loop between the first bar and the last.
Inner(d) == [p \in (Seq(MarketBar) \ {<<>>}) \X MarketBar |->
                 p[1] \o FillersAfter(p[1][Len(p[1])], d, p[2].time) \o <<p[2]>>]

\* The fillers behind a bar.
LEMMA FillersAfterIs ==
    ASSUME NEW d \in Nat \ {0}, NEW bar \in MarketBar, NEW end \in Nat
    PROVE  LET g == Grid(bar.time + d, d, end)
               row == FillersAfter(bar, d, end)
           IN  /\ row \in Lists /\ row = [i \in DOMAIN g |-> row[i]]
               /\ \A i \in DOMAIN g : row[i] = Filler(g[i], bar.close, bar.spread)
  <1> DEFINE g == Grid(bar.time + d, d, end)
             row == FillersAfter(bar, d, end)
  <1>1. bar.time + d \in Nat /\ bar.close \in Int /\ bar.spread \in Int
    BY BarIs
  <1>2. g \in Seq(Nat) /\ Len(g) \in Nat /\ DOMAIN g = 1..Len(g)
    <2> DEFINE o == bar.time + d
    <2>1. o \in Nat
      BY <1>1
    <2> HIDE DEF o
    <2>2. Grid(o, d, end) \in Seq(Nat) /\ Len(Grid(o, d, end)) \in Nat
          /\ DOMAIN Grid(o, d, end) = 1..Len(Grid(o, d, end))
      BY <2>1, GridIs
    <2> QED BY <2>2 DEF o
  <1>3. row = [i \in DOMAIN g |-> Filler(g[i], bar.close, bar.spread)]
    BY DEF FillersAfter
  <1> HIDE DEF g, row
  <1>4. \A i \in 1..Len(g) : Filler(g[i], bar.close, bar.spread) \in MarketBar
    <2>1. \A i \in 1..Len(g) : g[i] \in Nat
      BY <1>2
    <2> QED BY <1>1, <2>1, FillerIs
  <1>5. row \in [1..Len(g) -> MarketBar]
    BY <1>2, <1>3, <1>4
  <1>6. row \in Lists
    BY <1>2, <1>5 DEF Lists
  <1> QED BY <1>3, <1>6 DEF g, row

\* The places of a piece of the grid, one for one.
LEMMA PlacesAdd ==
    ASSUME NEW a \in Nat, NEW b \in Nat, NEW c \in Nat, a <= b, b < c, NEW from, from = b + 1
    PROVE  /\ c - from \in Nat /\ b - a + 1 \in Nat /\ from \in Nat
           /\ a + (b - a + 1) = from
           /\ a + ((b - a + 1) + (c - from)) = c
           /\ ((b - a + 1) + (c - from)) + 1 = c - a + 1
           /\ \A q \in Nat : from + q \in Nat /\ (from + q < c <=> q < c - from)
  OBVIOUS

\* What the loop has laid when it has come to the bar n.
LaidUpTo(d, start, x, n, r) ==
    /\ r \in Lists \ {<<>>} /\ r[Len(r)] = x[n]
    /\ Laid(d, start, x, Place(d, start, x[1]), r)
    /\ Len(r) = Place(d, start, x[n]) - Place(d, start, x[1]) + 1

\* From one bar to the next.
LEMMA InnerStepIs ==
    ASSUME NEW d \in Nat \ {0}, NEW start \in Nat, NEW x, Gridded(d, start, x), NEW n \in 1..(Len(x) - 1),
           NEW r, LaidUpTo(d, start, x, n, r)
    PROVE  LaidUpTo(d, start, x, n + 1, r \o FillersAfter(r[Len(r)], d, x[n + 1].time) \o <<x[n + 1]>>)
  <1> DEFINE P(i) == Place(d, start, x[i])
             N == Len(x)
             z == n + 1
             from == P(n) + 1
             end == x[z].time
             g == Grid(At(d, start, from), d, end)
             row == FillersAfter(x[n], d, end)
             b == x[z]
             one == <<b>>
  <1>17. /\ r \in Seq(MarketBar) /\ r # <<>> /\ r[Len(r)] = x[n] /\ Laid(d, start, x, P(1), r)
         /\ Len(r) = P(n) - P(1) + 1
    BY DEF LaidUpTo, Lists
  <1>1. /\ x \in Lists /\ N \in Nat /\ n \in Nat /\ z \in 1..N /\ n \in 1..N /\ n < z /\ 1 \in 1..N
        /\ \A i \in 1..N : x[i] \in MarketBar
        /\ \A i \in 1..N : P(i) \in Nat /\ x[i].time = At(d, start, P(i))
        /\ \A k \in 1..N, i \in 1..N : i < k => P(i) < P(k)
    <2>1. x \in Lists /\ (\A i \in 1..N : P(i) \in Nat /\ x[i].time = At(d, start, P(i)))
          /\ \A k \in 1..N, i \in 1..N : i < k => P(i) < P(k)
      BY DEF Gridded
    <2>2. N \in Nat /\ n \in Nat /\ z \in 1..N /\ n \in 1..N /\ n < z /\ 1 \in 1..N
          /\ \A i \in 1..N : x[i] \in MarketBar
      BY <2>1 DEF Lists
    <2> QED BY <2>1, <2>2
  <1>2. P(n) \in Nat /\ P(z) \in Nat /\ P(1) \in Nat /\ P(n) < P(z) /\ from \in Nat /\ from <= P(z) /\ end \in Nat
        /\ end = At(d, start, P(z)) /\ x[n].time = At(d, start, P(n))
    <2>1. P(n) \in Nat /\ P(z) \in Nat /\ P(1) \in Nat /\ P(n) < P(z) /\ end \in Nat /\ end = At(d, start, P(z))
          /\ x[n].time = At(d, start, P(n))
      BY <1>1, BarIs
    <2> HIDE DEF P
    <2> QED BY <2>1
  <1>3. At(d, start, from) = x[n].time + d
    <2> DEFINE p == P(n)
    <2>1. p \in Nat /\ x[n].time = At(d, start, p)
      BY <1>2
    <2> HIDE DEF p
    <2>2. At(d, start, p + 1) = At(d, start, p) + d
      BY <2>1, AtIs
    <2> QED BY <2>1, <2>2 DEF p
  <1> HIDE DEF P, from
  <1>4. /\ row \in Lists /\ row = [i \in DOMAIN g |-> row[i]]
        /\ \A i \in DOMAIN g : row[i] = Filler(g[i], x[n].close, x[n].spread)
    <2> HIDE DEF row
    <2>1. LET h == Grid(x[n].time + d, d, end)
          IN  /\ row \in Lists /\ row = [i \in DOMAIN h |-> row[i]]
              /\ \A i \in DOMAIN h : row[i] = Filler(h[i], x[n].close, x[n].spread)
      BY <1>1, <1>2, FillersAfterIs DEF row
    <2> QED BY <1>3, <2>1
  <1>5. \A q \in Nat : from <= q /\ At(d, start, q) < end => \A i \in 1..N : P(i) <= q <=> i <= n
    <2> SUFFICES ASSUME NEW q \in Nat, from <= q, At(d, start, q) < end, NEW i \in 1..N
                 PROVE  P(i) <= q <=> i <= n
      OBVIOUS
    <2>1. q < P(z)
      BY <1>2, AtIs
    <2>2. P(n) < q /\ P(i) \in Nat /\ i \in Nat
      <3>1. P(i) \in Nat /\ i \in Nat
        BY <1>1
      <3>2. P(n) \in Nat /\ P(n) + 1 <= q
        BY <1>2 DEF from
      <3> QED BY <3>1, <3>2
    <2>3. CASE i <= n
      <3>1. i < n => P(i) < P(n)
        BY <1>1
      <3>2. i = n \/ i < n
        BY <1>1, <2>2, <2>3
      <3> QED BY <1>2, <2>2, <2>3, <3>1, <3>2
    <2>4. CASE ~(i <= n)
      <3>1. i = z \/ z < i
        BY <1>1, <2>2, <2>4
      <3>2. z < i => P(z) < P(i)
        BY <1>1
      <3> QED BY <1>2, <2>1, <2>2, <2>4, <3>1, <3>2
    <2> QED BY <2>3, <2>4
  <1>6. /\ Laid(d, start, x, from, row) /\ Len(row) \in Nat
        /\ \A q \in Nat : At(d, start, from + q) < end <=> q < Len(row)
    <2>1. Between(d, start, x, from, end, n)
      BY <1>5 DEF P, Between
    <2>2. n \in 0..Len(x) /\ n # 0 /\ Place(d, start, x[n]) < from
      BY <1>1, <1>2 DEF from, P
    <2> DEFINE price == x[n].close
               spread == x[n].spread
    <2>3. price \in Int /\ spread \in Int
      BY <1>1, BarIs
    <2> HIDE DEF g, row, N, price, spread
    <2>4. FillersOf(d, x, g, row, price)
      <3>1. row = [i \in DOMAIN g |-> row[i]] /\ \A i \in DOMAIN g : row[i] = Filler(g[i], price, spread)
        BY <1>4 DEF price, spread
      <3> QED BY <2>3, <3>1 DEF FillersOf
    <2>5. FillersOf(d, x, g, row, IF n # 0 THEN x[n].close ELSE x[1].open)
      BY <2>2, <2>4 DEF price
    <2>6. from \in Nat /\ end \in Nat
      BY <1>2
    <2>7. g = Grid(At(d, start, from), d, end)
      BY DEF g
    <2>8. n # 0 => Place(d, start, x[n]) < from
      BY <2>2
    <2>9. n \in 0..Len(x)
      BY <2>2
    <2> HIDE DEF end
    <2> QED BY <2>1, <2>5, <2>6, <2>7, <2>8, <2>9, FillersLaid
  <1> DEFINE L == P(z) - from
  <1> DEFINE p1 == P(1)
             pn == P(n)
             pz == P(z)
  <1>15. /\ L \in Nat /\ pn - p1 + 1 \in Nat /\ p1 \in Nat
         /\ p1 + (pn - p1 + 1) = from
         /\ p1 + ((pn - p1 + 1) + L) = pz
         /\ ((pn - p1 + 1) + L) + 1 = pz - p1 + 1
         /\ \A q \in Nat : from + q \in Nat /\ (from + q < pz <=> q < L)
    <2>1. p1 \in Nat /\ pn \in Nat /\ pz \in Nat /\ pn < pz /\ from = pn + 1
      BY <1>2 DEF from
    <2>2. p1 <= pn
      <3>1. n = 1 \/ 1 < n
        BY <1>1
      <3>2. n = 1 => p1 <= pn
        BY <2>1
      <3>3. 1 < n => p1 < pn
        BY <1>1
      <3> HIDE DEF p1, pn
      <3> QED BY <2>1, <3>1, <3>2, <3>3
    <2>3. L = pz - from
      OBVIOUS
    <2> HIDE DEF p1, pn, pz, L
    <2> QED BY <2>1, <2>2, <2>3, PlacesAdd
  <1>7. Len(row) = L
    <2>1. L \in Nat /\ Len(row) \in Nat
      <3>1. L \in Nat
        BY <1>15
      <3>2. Len(row) \in Nat
        BY <1>6
      <3> QED BY <3>1, <3>2
    <2>2. ASSUME NEW q \in Nat PROVE q < Len(row) <=> q < L
      <3>1. At(d, start, from + q) < end <=> q < Len(row)
        BY <1>6
      <3> DEFINE v == from + q
      <3>2. v \in Nat /\ (v < pz <=> q < L)
        BY <1>15
      <3>3. At(d, start, v) < end <=> v < pz
        <4>1. v \in Nat /\ pz \in Nat
          BY <1>2, <3>2
        <4>2. end = At(d, start, pz)
          BY <1>2
        <4> HIDE DEF v, pz, end
        <4>3. At(d, start, v) < At(d, start, pz) <=> v < pz
          BY <4>1, AtIs
        <4> QED BY <4>2, <4>3
      <3>4. v < pz <=> q < L
        BY <3>2
      <3> HIDE DEF v, pz, L
      <3> QED BY <3>1, <3>3, <3>4 DEF v
    <2> HIDE DEF L, row
    <2> QED BY <2>1, <2>2, SameLength
  <1>8. Laid(d, start, x, P(z), one) /\ Len(one) = 1
    BY <1>1, LaidBar DEF P
  <1>9. Len(r) = pn - p1 + 1 /\ Laid(d, start, x, p1, r)
    BY <1>17
  <1> DEFINE m == r \o row
             s == m \o one
  <1>16. Laid(d, start, x, pz, one)
    BY <1>8
  <1> HIDE DEF row, one, L, p1, pn, pz, P
  <1>10. Laid(d, start, x, p1, m) /\ Len(m) = Len(r) + Len(row)
    <2>1. p1 + Len(r) = from /\ p1 \in Nat
      BY <1>9, <1>15
    <2>2. Laid(d, start, x, p1 + Len(r), row)
      BY <1>6, <2>1
    <2>3. Laid(d, start, x, p1, r)
      BY <1>9
    <2>4. p1 \in Nat
      BY <2>1
    <2> HIDE DEF from
    <2> QED BY <2>2, <2>3, <2>4, LaidJoins
  <1> HIDE DEF m
  <1>11. Laid(d, start, x, p1, s) /\ Len(s) = Len(m) + Len(one)
    <2>1. p1 + Len(m) = pz
      BY <1>7, <1>9, <1>10, <1>15
    <2>2. Laid(d, start, x, p1 + Len(m), one)
      BY <1>16, <2>1
    <2>3. Laid(d, start, x, p1, m)
      BY <1>10
    <2>4. p1 \in Nat
      BY <1>15
    <2> QED BY <2>2, <2>3, <2>4, LaidJoins
  <1>12. Len(s) = pz - p1 + 1
    BY <1>7, <1>8, <1>9, <1>10, <1>11, <1>15
  <1>13. s \in Seq(MarketBar) /\ s # <<>> /\ s[Len(s)] = b
    <2>1. m \in Seq(MarketBar) /\ b \in MarketBar
      BY <1>1, <1>10 DEF Laid, Lists
    <2> HIDE DEF b
    <2>2. s = Append(m, b)
      BY <2>1, OneMore DEF one
    <2> QED BY <2>1, <2>2, OneMore
  <1>14. s = r \o FillersAfter(r[Len(r)], d, x[n + 1].time) \o <<x[n + 1]>>
    BY <1>17 DEF s, m, one, row
  <1> HIDE DEF s
  <1>18. LaidUpTo(d, start, x, n + 1, s)
    BY <1>11, <1>12, <1>13 DEF P, p1, pz, LaidUpTo, Lists
  <1> QED BY <1>14, <1>18

\* A step of the loop gives a sequence that is not empty.
LEMMA InnerTypes ==
    ASSUME NEW d \in Nat \ {0}
    PROVE  /\ Inner(d) \in [(Lists \ {<<>>}) \X MarketBar -> Lists \ {<<>>}]
           /\ \A r \in Lists \ {<<>>}, b \in MarketBar :
                  Inner(d)[<<r, b>>] = r \o FillersAfter(r[Len(r)], d, b.time) \o <<b>>
  <1> DEFINE Z == Lists \ {<<>>}
             next(r, b) == r \o FillersAfter(r[Len(r)], d, b.time) \o <<b>>
  <1>1. ASSUME NEW r \in Z, NEW b \in MarketBar PROVE next(r, b) \in Z
    <2> DEFINE row == FillersAfter(r[Len(r)], d, b.time)
    <2>1. r[Len(r)] \in MarketBar /\ b.time \in Nat /\ r \in Seq(MarketBar)
      <3>1. r \in Seq(MarketBar) /\ r # <<>>
        BY DEF Lists
      <3>2. Len(r) \in 1..Len(r)
        BY <3>1
      <3> QED BY <3>1, <3>2, BarIs
    <2>2. row \in Seq(MarketBar)
      <3> DEFINE bar == r[Len(r)]
                 end == b.time
      <3>1. bar \in MarketBar /\ end \in Nat
        BY <2>1
      <3> HIDE DEF bar, end
      <3>2. FillersAfter(bar, d, end) \in Seq(MarketBar)
        BY <3>1, FillersAfterIs DEF Lists
      <3> QED BY <3>2 DEF bar, end
    <2> DEFINE m == r \o row
    <2>3. m \in Seq(MarketBar)
      BY <2>1, <2>2
    <2>4. next(r, b) = m \o <<b>>
      OBVIOUS
    <2> HIDE DEF m
    <2>5. m \o <<b>> \in Seq(MarketBar) /\ m \o <<b>> # <<>>
      BY <2>3, OneMore
    <2> QED BY <2>4, <2>5 DEF Lists
  <1>2. Inner(d) = [p \in Z \X MarketBar |-> next(p[1], p[2])]
    BY DEF Inner, Lists
  <1> HIDE DEF next, Z
  <1>3. Inner(d) \in [Z \X MarketBar -> Z]
    BY <1>1, <1>2
  <1>4. \A r \in Z, b \in MarketBar : Inner(d)[<<r, b>>] = next(r, b)
    BY <1>2
  <1> QED BY <1>3, <1>4 DEF next, Z

\* From the first bar to the last the loop leaves no place empty.
LEMMA InnerIs ==
    ASSUME NEW d \in Nat \ {0}, NEW start \in Nat, NEW x, Gridded(d, start, x)
    PROVE  LaidUpTo(d, start, x, Len(x), Loop(Inner(d), <<x[1]>>, Tail(x)))
  <1> DEFINE N == Len(x)
             S == Lists \ {<<>>}
             body == Inner(d)
             first == <<x[1]>>
             elems == Tail(x)
             kept == {p \in Nat \X S : LaidUpTo(d, start, x, p[1] + 1, p[2])}
  <1>1. /\ x \in Seq(MarketBar) /\ x # <<>> /\ N \in Nat \ {0} /\ 1 \in 1..N
        /\ \A i \in 1..N : x[i] \in MarketBar /\ Place(d, start, x[i]) \in Nat
    <2>1. x \in Seq(MarketBar) /\ x # <<>> /\ \A i \in 1..N : Place(d, start, x[i]) \in Nat
      BY DEF Gridded, Lists
    <2>2. N \in Nat \ {0} /\ 1 \in 1..N /\ \A i \in 1..N : x[i] \in MarketBar
      BY <2>1
    <2> QED BY <2>1, <2>2
  <1>2. elems \in Seq(MarketBar) /\ Len(elems) = N - 1 /\ \A n \in 1..(N - 1) : elems[n] = x[n + 1]
    BY <1>1, TailIs
  <1>3. body \in [S \X MarketBar -> S]
    BY InnerTypes
  <1>4. first \in S /\ LaidUpTo(d, start, x, 1, first)
    <2>1. Laid(d, start, x, Place(d, start, x[1]), first) /\ Len(first) = 1
      BY <1>1, LaidBar
    <2>2. first \in S /\ first[Len(first)] = x[1]
      BY <1>1, <2>1 DEF Lists
    <2>3. 1 = Place(d, start, x[1]) - Place(d, start, x[1]) + 1
      BY <1>1
    <2> HIDE DEF first
    <2> QED BY <2>1, <2>2, <2>3 DEF LaidUpTo
  <1>5. <<0, first>> \in kept
    <2> HIDE DEF first
    <2>1. 0 + 1 = 1 /\ 0 \in Nat
      OBVIOUS
    <2>2. LaidUpTo(d, start, x, 0 + 1, first) /\ first \in S
      BY <1>4, <2>1
    <2> QED BY <2>1, <2>2
  <1>6. ASSUME NEW n \in 1..(N - 1), NEW r \in S, <<n - 1, r>> \in kept
        PROVE  <<n, body[<<r, elems[n]>>]>> \in kept
    <2> DEFINE b == x[n + 1]
               s == r \o FillersAfter(r[Len(r)], d, b.time) \o <<b>>
    <2>1. n \in Nat /\ n \in 1..(Len(x) - 1) /\ (n - 1) + 1 = n /\ n + 1 \in 1..N
      BY <1>1
    <2>2. LaidUpTo(d, start, x, n, r)
      BY <1>6, <2>1
    <2>4. LaidUpTo(d, start, x, n + 1, s)
      <3> HIDE DEF N
      <3> QED BY <2>1, <2>2, InnerStepIs
    <2>5. elems[n] = b /\ b \in MarketBar
      BY <1>1, <1>2, <2>1
    <2>6. body[<<r, b>>] = s
      BY <2>5, InnerTypes
    <2> HIDE DEF s, b, body
    <2>7. s \in S /\ LaidUpTo(d, start, x, n + 1, s)
      BY <2>4 DEF LaidUpTo
    <2> QED BY <2>1, <2>5, <2>6, <2>7
  <1> HIDE DEF kept, body, first, elems, S
  <1>7. <<Len(elems), Loop(body, first, elems)>> \in kept
    <2>1. \A n \in 1..Len(elems), r \in S : <<n - 1, r>> \in kept => <<n, body[<<r, elems[n]>>]>> \in kept
      BY <1>2, <1>6
    <2>2. first \in S /\ elems \in Seq(MarketBar)
      BY <1>2, <1>4
    <2> QED BY <1>3, <1>5, <2>1, <2>2, LoopInvariant
  <1>8. LaidUpTo(d, start, x, Len(elems) + 1, Loop(body, first, elems))
    BY <1>7 DEF kept
  <1>9. Len(elems) + 1 = Len(x)
    BY <1>1, <1>2
  <1> QED BY <1>8, <1>9 DEF body, first, elems

\* The three pieces: before the first bar, between, and behind the last.
Leading(x, d, start) ==
    [i \in DOMAIN Grid(start, d, x[1].time) |-> Filler(Grid(start, d, x[1].time)[i], x[1].open, x[1].spread)]
Trailing(x, d, end, stale) ==
    LET row == FillersAfter(x[Len(x)], d, end)
    IN  [i \in DOMAIN row |-> IF i = 1 THEN row[i] ELSE Filler(row[i].time, stale.close, stale.spread)]

\* The bars on a grid, between the first and the last.
LEMMA GriddedMeans ==
    ASSUME NEW d \in Nat \ {0}, NEW start \in Nat, NEW x, Gridded(d, start, x)
    PROVE  /\ x \in Lists /\ x # <<>> /\ Len(x) \in Nat \ {0} /\ 1 \in 1..Len(x) /\ Len(x) \in 1..Len(x)
           /\ \A i \in 1..Len(x) : /\ x[i] \in MarketBar /\ Place(d, start, x[i]) \in Nat
                                   /\ x[i].time = At(d, start, Place(d, start, x[i]))
                                   /\ Place(d, start, x[1]) <= Place(d, start, x[i])
                                   /\ Place(d, start, x[i]) <= Place(d, start, x[Len(x)])
  <1> DEFINE P(i) == Place(d, start, x[i])
  <1>1. /\ x \in Lists /\ x # <<>>
        /\ \A i \in 1..Len(x) : P(i) \in Nat /\ x[i].time = At(d, start, P(i))
        /\ \A k \in 1..Len(x), i \in 1..Len(x) : i < k => P(i) < P(k)
    BY DEF Gridded
  <1>2. Len(x) \in Nat \ {0} /\ 1 \in 1..Len(x) /\ Len(x) \in 1..Len(x) /\ \A i \in 1..Len(x) : x[i] \in MarketBar
    BY <1>1 DEF Lists
  <1> HIDE DEF P
  <1>3. ASSUME NEW i \in 1..Len(x) PROVE P(1) <= P(i) /\ P(i) <= P(Len(x))
    <2>1. /\ i = 1 \/ 1 < i
          /\ i = Len(x) \/ i < Len(x)
      BY <1>2
    <2>2. P(1) <= P(i)
      <3>1. P(1) \in Nat /\ P(i) \in Nat /\ (1 < i => P(1) < P(i))
        BY <1>1, <1>2
      <3> QED BY <2>1, <3>1
    <2>3. P(i) <= P(Len(x))
      <3>1. P(Len(x)) \in Nat /\ P(i) \in Nat /\ (i < Len(x) => P(i) < P(Len(x)))
        BY <1>1, <1>2
      <3> QED BY <2>1, <3>1
    <2> QED BY <2>2, <2>3
  <1> QED BY <1>1, <1>2, <1>3 DEF P

\* The fillers before the first bar.
LEMMA LeadingLaid ==
    ASSUME NEW d \in Nat \ {0}, NEW start \in Nat, NEW x, Gridded(d, start, x)
    PROVE  Laid(d, start, x, 0, Leading(x, d, start)) /\ Len(Leading(x, d, start)) = Place(d, start, x[1])
  <1> DEFINE b == x[1]
             p == Place(d, start, b)
             end == b.time
             g == Grid(start, d, end)
             row == Leading(x, d, start)
             price == b.open
             spread == b.spread
  <1>1. b \in MarketBar /\ p \in Nat /\ end = At(d, start, p) /\ end \in Nat /\ Len(x) \in Nat
    BY GriddedMeans, BarIs
  <1>2. price \in Int /\ spread \in Int
    BY <1>1, BarIs
  <1>3. \A i \in 1..Len(x) : Place(d, start, x[i]) \in Nat /\ p <= Place(d, start, x[i])
    BY GriddedMeans
  <1>4. row = [i \in DOMAIN g |-> Filler(g[i], price, spread)]
    BY DEF Leading
  <1> HIDE DEF p, end
  <1>5. \A q \in Nat : At(d, start, q) < end <=> q < p
    <2> SUFFICES ASSUME NEW q \in Nat PROVE At(d, start, q) < end <=> q < p
      OBVIOUS
    <2>1. At(d, start, q) < At(d, start, p) <=> q < p
      BY <1>1, AtIs
    <2> QED BY <1>1, <2>1
  <1>6. Between(d, start, x, 0, end, 0)
    <2>1. ASSUME NEW q \in Nat, q < p, NEW i \in 1..Len(x) PROVE Place(d, start, x[i]) <= q <=> i <= 0
      <3> DEFINE pi == Place(d, start, x[i])
      <3>1. pi \in Nat /\ p <= pi
        BY <1>3
      <3> HIDE DEF pi
      <3>2. ~(pi <= q) /\ ~(i <= 0)
        BY <1>1, <2>1, <3>1
      <3> QED BY <3>2 DEF pi
    <2> QED BY <1>5, <2>1 DEF Between
  <1>7. g = Grid(At(d, start, 0), d, end)
    BY AtIs
  <1> HIDE DEF g, row, b, price, spread
  <1>8. FillersOf(d, x, g, row, price)
    BY <1>2, <1>4 DEF FillersOf
  <1>9. FillersOf(d, x, g, row, IF 0 # 0 THEN x[0].close ELSE x[1].open)
    BY <1>8 DEF price, b
  <1>10. /\ Laid(d, start, x, 0, row) /\ Len(row) \in Nat
         /\ \A q \in Nat : At(d, start, 0 + q) < end <=> q < Len(row)
    <2>1. 0 \in 0..Len(x) /\ 0 \in Nat /\ end \in Nat
      BY <1>1
    <2>2. 0 # 0 => Place(d, start, x[0]) < 0
      OBVIOUS
    <2> QED BY <1>6, <1>7, <1>9, <2>1, <2>2, FillersLaid
  <1>11. Len(row) = p
    <2>1. \A q \in Nat : q < Len(row) <=> q < p
      <3>1. \A q \in Nat : 0 + q = q
        OBVIOUS
      <3> QED BY <1>5, <1>10, <3>1
    <2>2. Len(row) \in Nat /\ p \in Nat
      BY <1>1, <1>10
    <2> QED BY <2>1, <2>2, SameLength
  <1> QED BY <1>10, <1>11 DEF row, p, b

\* A row of fillers that starts at a place behind the first j bars, and a row
\* laid from there up to a time.
FillersFit(d, start, x, from, end, j, g, row) ==
    /\ Between(d, start, x, from, end, j)
    /\ j # 0 => Place(d, start, x[j]) < from
    /\ g = Grid(At(d, start, from), d, end)
    /\ FillersOf(d, x, g, row, IF j # 0 THEN x[j].close ELSE x[1].open)
LaidBefore(d, start, x, from, end, row) ==
    /\ Laid(d, start, x, from, row) /\ Len(row) \in Nat
    /\ \A q \in Nat : At(d, start, from + q) < end <=> q < Len(row)

\* Fillers that fit are laid.
LEMMA FittingFillers ==
    ASSUME NEW d \in Nat \ {0}, NEW start \in Nat, NEW x, Gridded(d, start, x), NEW from \in Nat, NEW end \in Nat,
           NEW j \in 0..Len(x), NEW g, NEW row, FillersFit(d, start, x, from, end, j, g, row)
    PROVE  LaidBefore(d, start, x, from, end, row)
  <1> DEFINE price == IF j # 0 THEN x[j].close ELSE x[1].open
  <1>1. Between(d, start, x, from, end, j) /\ g = Grid(At(d, start, from), d, end) /\ FillersOf(d, x, g, row, price)
    BY DEF FillersFit
  <1>2. j # 0 => Place(d, start, x[j]) < from
    BY DEF FillersFit
  <1> QED BY <1>1, <1>2, FillersLaid DEF LaidBefore

\* The fillers behind the last bar, the stale ones among them.
LEMMA TrailingLaid ==
    ASSUME NEW d \in Nat \ {0}, NEW start \in Nat, NEW x, Gridded(d, start, x), NEW end \in Nat,
           NEW stale \in MarketBar
    PROVE  LET from == Place(d, start, x[Len(x)]) + 1
               row == Trailing(x, d, end, stale)
           IN  /\ Laid(d, start, x, from, row) /\ Len(row) \in Nat
               /\ \A q \in Nat : At(d, start, from + q) < end <=> q < Len(row)
  <1> DEFINE N == Len(x)
             b == x[N]
             p == Place(d, start, b)
             from == p + 1
             o == b.time + d
             g == Grid(o, d, end)
             fill == FillersAfter(b, d, end)
             row == Trailing(x, d, end, stale)
             price == b.close
  <1>1. b \in MarketBar /\ p \in Nat /\ b.time = At(d, start, p) /\ b.time \in Nat /\ N \in Nat \ {0} /\ N \in 1..N
    BY GriddedMeans, BarIs
  <1>2. \A i \in 1..N : Place(d, start, x[i]) \in Nat /\ Place(d, start, x[i]) <= p
    BY GriddedMeans
  <1>3. from \in Nat /\ p < from /\ o \in Nat
    <2> HIDE DEF p
    <2> QED BY <1>1
  <1>4. o = At(d, start, from)
    <2> HIDE DEF p
    <2>1. At(d, start, p + 1) = At(d, start, p) + d
      BY <1>1, AtIs
    <2> QED BY <1>1, <2>1
  <1>5. /\ fill \in Lists /\ fill = [i \in DOMAIN g |-> fill[i]]
        /\ \A i \in DOMAIN g : fill[i] = Filler(g[i], price, b.spread)
    <2> HIDE DEF b
    <2> QED BY <1>1, FillersAfterIs
  <1>6. row = [i \in DOMAIN fill |-> IF i = 1 THEN fill[i] ELSE Filler(fill[i].time, stale.close, stale.spread)]
    BY DEF Trailing
  <1>7. price \in Int /\ b.spread \in Int /\ stale.close \in Int /\ stale.spread \in Int
    BY <1>1, BarIs
  <1>8. g \in Seq(Nat) /\ DOMAIN g = 1..Len(g) /\ Len(g) \in Nat
        /\ \A i \in 1..Len(g) : i - 1 \in Nat /\ g[i] = At(d, o, i - 1)
    <2> HIDE DEF o
    <2> QED BY <1>3, GridIs
  <1> HIDE DEF g, fill, row, b, price, o, p, from
  <1>9. ASSUME NEW i \in DOMAIN g, i # 1 PROVE ~PriceKnown(d, x, g[i])
    <2>1. i - 1 \in Nat /\ 0 \in Nat /\ 0 < i - 1 /\ g[i] = At(d, o, i - 1)
      BY <1>8, <1>9
    <2> DEFINE q == i - 1
    <2> HIDE DEF q
    <2>2. q \in Nat /\ 0 < q
      BY <2>1 DEF q
    <2>3. At(d, o, 0) < At(d, o, q)
      BY <1>3, <2>2, AtIs
    <2>4. At(d, o, 0) = o
      BY <1>3, <2>2, AtIs
    <2>5. g[i] > o
      BY <2>1, <2>3, <2>4 DEF q
    <2> QED BY <2>5 DEF PriceKnown, o, b
  <1>10. FillersOf(d, x, g, row, price)
    <2>1. DOMAIN fill = DOMAIN g
      BY <1>5
    <2>2. row = [i \in DOMAIN g |-> row[i]]
      BY <1>6, <2>1
    <2>3. ASSUME NEW i \in DOMAIN g
          PROVE  \E q \in Int, spread \in Int : row[i] = Filler(g[i], q, spread) /\ (PriceKnown(d, x, g[i]) => q = price)
      <3>1. fill[i] = Filler(g[i], price, b.spread) /\ row[i] = IF i = 1 THEN fill[i] ELSE Filler(fill[i].time, stale.close, stale.spread)
        BY <1>5, <1>6, <2>1
      <3>2. CASE i = 1
        BY <1>7, <3>1, <3>2
      <3>3. CASE i # 1
        <4>1. fill[i].time = g[i]
          <5> DEFINE t == g[i]
          <5> HIDE DEF t
          <5>1. Filler(t, price, b.spread).time = t
            BY DEF Filler
          <5> QED BY <3>1, <5>1 DEF t
        <4>2. row[i] = Filler(g[i], stale.close, stale.spread)
          BY <3>1, <3>3, <4>1
        <4> QED BY <1>7, <1>9, <3>3, <4>2
      <3> QED BY <3>2, <3>3
    <2> QED BY <2>2, <2>3 DEF FillersOf
  <1>11. FillersOf(d, x, g, row, IF N # 0 THEN x[N].close ELSE x[1].open)
    BY <1>1, <1>10 DEF price, b
  <1>12. Between(d, start, x, from, end, N)
    <2>1. ASSUME NEW q \in Nat, from <= q, NEW i \in 1..N PROVE Place(d, start, x[i]) <= q <=> i <= N
      <3> DEFINE pi == Place(d, start, x[i])
      <3>1. pi \in Nat /\ pi <= p
        BY <1>2
      <3> HIDE DEF pi
      <3>2. pi <= q /\ i <= N
        BY <1>1, <1>3, <2>1, <3>1
      <3> QED BY <3>2 DEF pi
    <2> QED BY <2>1 DEF Between
  <1>13. LaidBefore(d, start, x, from, end, row)
    <2>1. N \in 0..Len(x) /\ from \in Nat
      BY <1>1, <1>3
    <2>2. N # 0 => Place(d, start, x[N]) < from
      BY <1>3 DEF p, b
    <2>3. g = Grid(At(d, start, from), d, end)
      BY <1>4 DEF g
    <2> HIDE DEF N
    <2>4. FillersFit(d, start, x, from, end, N, g, row)
      BY <1>11, <1>12, <2>2, <2>3 DEF FillersFit
    <2> QED BY <2>1, <2>4, FittingFillers
  <1>14. /\ Laid(d, start, x, from, row) /\ Len(row) \in Nat
         /\ \A q \in Nat : At(d, start, from + q) < end <=> q < Len(row)
    BY <1>13 DEF LaidBefore
  <1> QED BY <1>14 DEF row, from, p, b

\* Filling in place gives what belongs at each time up to the last bar and in
\* the range.
LEMMA FillInPlaceIs ==
    ASSUME NEW d \in Nat \ {0}, NEW start \in Nat, NEW x, Gridded(d, start, x), NEW end \in Nat,
           NEW stale \in MarketBar
    PROVE  LET row == fill_missing_bars_inplace(x, d, start, end, stale)
           IN  /\ Laid(d, start, x, 0, row) /\ Len(row) \in Nat
               /\ \A q \in Nat : q < Len(row) <=> q <= Place(d, start, x[Len(x)]) \/ At(d, start, q) < end
  <1> DEFINE p1 == Place(d, start, x[1])
             pn == Place(d, start, x[Len(x)])
             lead == Leading(x, d, start)
             inner == Loop(Inner(d), <<x[1]>>, Tail(x))
             trail == Trailing(x, d, end, stale)
             from == pn + 1
             m == lead \o inner
             row == m \o trail
  <1>1. p1 \in Nat /\ pn \in Nat /\ p1 <= pn /\ x # <<>>
    BY GriddedMeans
  <1>2. Laid(d, start, x, 0, lead) /\ Len(lead) = p1
    BY LeadingLaid
  <1>3. Laid(d, start, x, p1, inner) /\ Len(inner) = pn - p1 + 1
    BY InnerIs DEF LaidUpTo
  <1>4. /\ Laid(d, start, x, from, trail) /\ Len(trail) \in Nat
        /\ \A q \in Nat : At(d, start, from + q) < end <=> q < Len(trail)
    BY TrailingLaid
  <1>5. fill_missing_bars_inplace(x, d, start, end, stale) = row
    BY <1>1 DEF fill_missing_bars_inplace, Leading, Inner, Trailing
  <1> HIDE DEF p1, pn, lead, inner, trail, from, row
  <1>6. Laid(d, start, x, 0, m) /\ Len(m) = from
    <2>1. 0 \in Nat /\ 0 + Len(lead) = p1
      BY <1>1, <1>2
    <2>2. Laid(d, start, x, 0 + Len(lead), inner)
      BY <1>3, <2>1
    <2>3. Laid(d, start, x, 0, m) /\ Len(m) = Len(lead) + Len(inner)
      BY <1>2, <2>1, <2>2, LaidJoins
    <2>4. p1 + (pn - p1 + 1) = from
      BY <1>1 DEF from
    <2> QED BY <1>2, <1>3, <2>3, <2>4
  <1> HIDE DEF m
  <1>7. Laid(d, start, x, 0, row) /\ Len(row) = from + Len(trail)
    <2>1. 0 \in Nat /\ 0 + Len(m) = from
      BY <1>1, <1>6 DEF from
    <2>2. Laid(d, start, x, 0 + Len(m), trail)
      BY <1>4, <2>1
    <2>3. Laid(d, start, x, 0, m)
      BY <1>6
    <2>4. Laid(d, start, x, 0, m \o trail) /\ Len(m \o trail) = Len(m) + Len(trail)
      BY <2>1, <2>2, <2>3, LaidJoins
    <2> QED BY <1>6, <2>4 DEF row
  <1>8. ASSUME NEW q \in Nat PROVE q < Len(row) <=> q <= pn \/ At(d, start, q) < end
    <2>1. CASE q <= pn
      BY <1>1, <1>4, <1>7, <2>1 DEF from
    <2>2. CASE ~(q <= pn)
      <3> DEFINE r == q - from
      <3>1. r \in Nat /\ from + r = q
        BY <1>1, <2>2 DEF from
      <3> HIDE DEF r
      <3>2. At(d, start, q) < end <=> r < Len(trail)
        BY <1>4, <3>1
      <3>3. r < Len(trail) <=> q < Len(row)
        <4> DEFINE L == Len(trail)
                   M == Len(row)
        <4>1. L \in Nat
          BY <1>4
        <4>2. M = from + L
          BY <1>7
        <4>3. from \in Nat
          BY <1>1 DEF from
        <4> HIDE DEF L, M
        <4>4. r < L <=> q < M
          BY <3>1, <4>1, <4>2, <4>3
        <4> QED BY <4>4 DEF L, M
      <3> QED BY <2>2, <3>2, <3>3
    <2> QED BY <2>1, <2>2
  <1>9. Len(row) \in Nat
    BY <1>1, <1>4, <1>7 DEF from
  <1> QED BY <1>5, <1>7, <1>8, <1>9 DEF pn

-----------------------------------------------------------------------------
(* What filling gives                                                      *)

\* What FillIsGrid says of one call.
FilledToGrid(name, x, d, start, end, rows) ==
    LET times == {t \in start..end - 1 : (t - start) % d = 0}
                 \cup (IF name = "fill_inplace" THEN ToSet(Field_of(x, "time"))
                          \cup {t \in start..(IF x = <<>> THEN 0 ELSE Last(x).time) :
                                   (t - start) % d = 0} ELSE {})
        stale(k) == name = "fill_inplace" /\ rows[k].time > Last(x).time + d
    IN  OnGrid(x, d, start) /\ x # <<>> =>
          /\ ToSet(Field_of(rows, "time")) = times
          /\ \A k \in 1..Len(rows) - 1 : rows[k].time < rows[k + 1].time
          /\ \A k \in DOMAIN rows :
                LET bar == BarAt(x, rows[k].time)
                IN  IF bar.time = rows[k].time THEN rows[k] = bar
                    ELSE /\ Flat(rows[k])
                         /\ ~stale(k) => rows[k].close =
                               IF name = "fill_inplace" /\ rows[k].time < bar.time THEN bar.open ELSE bar.close

\* The times of a row, from the places it has.
LEMMA SameTimes ==
    ASSUME NEW d \in Nat \ {0}, NEW start \in Nat, NEW M \in Nat, NEW T,
           \A t \in T : t \in Nat /\ t >= start /\ (t - start) % d = 0,
           \A q \in Nat : q < M <=> At(d, start, q) \in T
    PROVE  {At(d, start, k - 1) : k \in 1..M} = T
  <1>1. ASSUME NEW k \in 1..M PROVE At(d, start, k - 1) \in T
    <2>1. k - 1 \in Nat /\ k - 1 < M
      OBVIOUS
    <2> QED BY <2>1
  <1>2. ASSUME NEW t \in T PROVE \E k \in 1..M : t = At(d, start, k - 1)
    <2> DEFINE q == (t - start) \div d
    <2>1. t \in Nat /\ t >= start /\ (t - start) % d = 0
      BY <1>2
    <2>2. q \in Nat /\ t = At(d, start, q)
      BY <2>1, OnTheGrid
    <2> HIDE DEF q
    <2>3. q < M
      BY <1>2, <2>2
    <2>4. q + 1 \in 1..M /\ (q + 1) - 1 = q
      BY <2>2, <2>3
    <2> QED BY <2>2, <2>4
  <1> QED BY <1>1, <1>2

\* The times of the grid in a range.
LEMMA TimesUpTo ==
    ASSUME NEW d \in Nat \ {0}, NEW start \in Nat, NEW end \in Nat, NEW q \in Nat
    PROVE  LET t == At(d, start, q)
           IN  /\ t < end <=> t \in {u \in start..end - 1 : (u - start) % d = 0}
               /\ t <= end <=> t \in {u \in start..end : (u - start) % d = 0}
  <1> DEFINE t == At(d, start, q)
  <1>1. t \in Nat /\ start <= t /\ (t - start) % d = 0
    BY AtIs
  <1> HIDE DEF t
  <1>2. (t < end <=> t \in start..end - 1) /\ (t <= end <=> t \in start..end)
    BY <1>1
  <1> QED BY <1>1, <1>2 DEF t

\* Filling a range.
LEMMA FillGives ==
    ASSUME NEW d \in Nat \ {0}, NEW start \in Nat, NEW end \in Nat, NEW x \in Lists
    PROVE  FilledToGrid("fill", x, d, start, end, fill_missing_bars(x, d, start, end))
  <1> SUFFICES ASSUME OnGrid(x, d, start), x # <<>>
               PROVE  FilledToGrid("fill", x, d, start, end, fill_missing_bars(x, d, start, end))
    BY DEF FilledToGrid
  <1> DEFINE rows == fill_missing_bars(x, d, start, end)
             M == Len(rows)
             known == [k \in 1..M |-> TRUE]
             T == {t \in start..end - 1 : (t - start) % d = 0}
  <1>1. Gridded(d, start, x)
    BY GriddedIs DEF OnGrid, Climbing
  <1>2. rows \in Lists /\ M = Len(Grid(start, d, end)) /\ M \in Nat
        /\ \A k \in 1..M : Entry(x, At(d, start, k - 1), rows[k], FALSE, TRUE)
    <2>1. rows \in Lists /\ M = Len(Grid(start, d, end))
          /\ \A k \in 1..M : Entry(x, At(d, start, k - 1), rows[k], FALSE, TRUE)
      BY <1>1, FillIs
    <2> HIDE DEF rows
    <2>2. M \in Nat
      <3> HIDE DEF M
      <3>1. Len(Grid(start, d, end)) \in Nat
        BY GridIs
      <3> QED BY <2>1, <3>1
    <2> HIDE DEF M
    <2> QED BY <2>1, <2>2
  <1> HIDE DEF rows, M
  <1>3. {At(d, start, k - 1) : k \in 1..M} = T
    <2>1. \A t \in T : t \in Nat /\ t >= start /\ (t - start) % d = 0
      OBVIOUS
    <2>2. \A q \in Nat : q < M <=> At(d, start, q) < end
      BY <1>2, GridIs
    <2>3. \A q \in Nat : At(d, start, q) < end <=> At(d, start, q) \in T
      BY TimesUpTo
    <2> HIDE DEF T
    <2> QED BY <1>2, <2>1, <2>2, <2>3, SameTimes
  <1>4. /\ ToSet(Field_of(rows, "time")) = {At(d, start, k - 1) : k \in 1..M}
        /\ \A k \in 1..(Len(rows) - 1) : rows[k].time < rows[k + 1].time
        /\ \A k \in DOMAIN rows : k \in 1..M /\ rows[k].time = At(d, start, k - 1) /\
              LET bar == BarAt(x, rows[k].time)
              IN  IF bar.time = rows[k].time THEN rows[k] = bar
                  ELSE /\ Flat(rows[k])
                       /\ known[k] => rows[k].close =
                             IF FALSE /\ rows[k].time < bar.time THEN bar.open ELSE bar.close
    <2>1. known \in [1..M -> BOOLEAN] /\ \A k \in 1..M : known[k] = TRUE
      OBVIOUS
    <2>2. \A k \in 1..M : Entry(x, At(d, start, k - 1), rows[k], FALSE, known[k])
      BY <1>2, <2>1
    <2> DEFINE no == FALSE
    <2>3. no \in BOOLEAN /\ no = FALSE /\ Len(rows) = M
      BY DEF M
    <2> HIDE DEF known, no
    <2>4. GridRow(d, start, x, rows, M, no, known)
      BY <1>2, <2>1, <2>2, <2>3 DEF GridRow
    <2>5. GridAnswered(d, start, x, rows, M, no, known)
      BY <2>3, <2>4, GridAnswer
    <2> QED BY <2>3, <2>5 DEF GridAnswered
  <1>5. ToSet(Field_of(rows, "time")) = T
    BY <1>3, <1>4
  <1>6. ASSUME NEW k \in DOMAIN rows
        PROVE  LET bar == BarAt(x, rows[k].time)
               IN  IF bar.time = rows[k].time THEN rows[k] = bar
                   ELSE Flat(rows[k]) /\ rows[k].close = bar.close
    <2>1. known[k] = TRUE
      BY <1>4
    <2> HIDE DEF known
    <2> QED BY <1>4, <2>1
  <1>7. FilledToGrid("fill", x, d, start, end, rows)
    <2>1. "fill" # "fill_inplace"
      OBVIOUS
    <2> QED BY <1>4, <1>5, <1>6, <2>1 DEF FilledToGrid
  <1> QED BY <1>7 DEF rows

\* Filling in place.
LEMMA FillInPlaceGives ==
    ASSUME NEW d \in Nat \ {0}, NEW start \in Nat, NEW end \in Nat, NEW x \in Lists, NEW stale \in MarketBar
    PROVE  FilledToGrid("fill_inplace", x, d, start, end, fill_missing_bars_inplace(x, d, start, end, stale))
  <1> SUFFICES ASSUME OnGrid(x, d, start), x # <<>>
               PROVE  FilledToGrid("fill_inplace", x, d, start, end, fill_missing_bars_inplace(x, d, start, end, stale))
    BY DEF FilledToGrid
  <1> DEFINE rows == fill_missing_bars_inplace(x, d, start, end, stale)
             M == Len(rows)
             N == Len(x)
             P(i) == Place(d, start, x[i])
             known == [k \in 1..M |-> PriceKnown(d, x, At(d, start, k - 1))]
             T1 == {t \in start..end - 1 : (t - start) % d = 0}
             T2 == ToSet(Field_of(x, "time"))
             T3 == {t \in start..x[N].time : (t - start) % d = 0}
             T == T1 \cup (T2 \cup T3)
  <1>1. Gridded(d, start, x)
    BY GriddedIs DEF OnGrid, Climbing
  <1>2. /\ Laid(d, start, x, 0, rows) /\ M \in Nat
        /\ \A q \in Nat : q < M <=> q <= P(N) \/ At(d, start, q) < end
    BY <1>1, FillInPlaceIs
  <1>3. /\ N \in 1..N /\ Last(x) = x[N] /\ DOMAIN x = 1..N
        /\ \A i \in 1..N : P(i) \in Nat /\ x[i].time = At(d, start, P(i)) /\ P(i) <= P(N)
    <2>1. N \in 1..N /\ \A i \in 1..N : P(i) \in Nat /\ x[i].time = At(d, start, P(i)) /\ P(i) <= P(N)
      BY <1>1, GriddedMeans
    <2>2. Last(x) = x[N] /\ DOMAIN x = 1..N
      BY DEF Last, Lists
    <2> QED BY <2>1, <2>2
  <1> HIDE DEF rows, M, P
  <1>4. {At(d, start, k - 1) : k \in 1..M} = T
    <2> DEFINE e == x[N].time
               pn == P(N)
    <2>1. pn \in Nat /\ e = At(d, start, pn) /\ e \in Nat
      <3>1. pn \in Nat /\ e = At(d, start, pn)
        BY <1>3
      <3> HIDE DEF pn, e
      <3>2. At(d, start, pn) \in Nat
        BY <3>1, AtIs
      <3> QED BY <3>1, <3>2
    <2> HIDE DEF pn, e
    <2>2. T2 = {x[i].time : i \in 1..N}
      BY <1>3 DEF ToSet, Field_of
    <2>3. \A t \in T2 : \E q \in Nat : t = At(d, start, q) /\ q <= pn
      BY <1>3, <2>2 DEF pn
    <2>4. ASSUME NEW t \in T PROVE t \in Nat /\ t >= start /\ (t - start) % d = 0
      <3>1. CASE t \in T2
        <4>1. PICK q \in Nat : t = At(d, start, q)
          BY <2>3, <3>1
        <4>2. At(d, start, q) \in Nat /\ start <= At(d, start, q) /\ (At(d, start, q) - start) % d = 0
          BY AtIs
        <4> QED BY <4>1, <4>2
      <3>2. CASE t \notin T2
        <4> HIDE DEF T2
        <4>1. t \in T1 \/ t \in T3
          BY <3>2
        <4> QED BY <2>1, <4>1 DEF e
      <3> QED BY <3>1, <3>2
    <2>5. ASSUME NEW q \in Nat PROVE q < M <=> At(d, start, q) \in T
      <3> DEFINE t == At(d, start, q)
      <3>1. t < end <=> t \in T1
        BY TimesUpTo
      <3>2. t <= e <=> t \in T3
        BY <2>1, TimesUpTo DEF e
      <3>3. t <= e <=> q <= pn
        BY <2>1, AtIs
      <3>4. t \in T2 => q <= pn
        <4> SUFFICES ASSUME t \in T2 PROVE q <= pn
          OBVIOUS
        <4>1. PICK r \in Nat : t = At(d, start, r) /\ r <= pn
          BY <2>3
        <4>2. q = r
          BY <4>1, AtIs
        <4> QED BY <4>1, <4>2
      <3>5. q < M <=> q <= pn \/ t < end
        BY <1>2 DEF pn
      <3> HIDE DEF t, T1, T2, T3
      <3>6. q < M <=> t \in T
        BY <3>1, <3>2, <3>3, <3>4, <3>5
      <3> QED BY <3>6 DEF t
    <2> HIDE DEF T
    <2> QED BY <1>2, <2>4, <2>5, SameTimes
  <1>5. rows \in Lists /\ Len(rows) = M
        /\ \A k \in 1..M : Entry(x, At(d, start, k - 1), rows[k], TRUE, known[k])
    <2>1. rows \in Lists /\ Len(rows) = M
      BY <1>2 DEF Laid, M
    <2>2. ASSUME NEW k \in 1..M PROVE Entry(x, At(d, start, k - 1), rows[k], TRUE, known[k])
      <3>1. 0 + k - 1 = k - 1
        OBVIOUS
      <3>2. Entry(x, At(d, start, 0 + k - 1), rows[k], TRUE, PriceKnown(d, x, At(d, start, 0 + k - 1)))
        BY <1>2, <2>1 DEF Laid
      <3>3. known[k] = PriceKnown(d, x, At(d, start, k - 1))
        OBVIOUS
      <3> HIDE DEF known
      <3> QED BY <3>1, <3>2, <3>3
    <2> QED BY <2>1, <2>2
  <1>6. /\ ToSet(Field_of(rows, "time")) = {At(d, start, k - 1) : k \in 1..M}
        /\ \A k \in 1..(Len(rows) - 1) : rows[k].time < rows[k + 1].time
        /\ \A k \in DOMAIN rows : k \in 1..M /\ rows[k].time = At(d, start, k - 1) /\
              LET bar == BarAt(x, rows[k].time)
              IN  IF bar.time = rows[k].time THEN rows[k] = bar
                  ELSE /\ Flat(rows[k])
                       /\ known[k] => rows[k].close =
                             IF TRUE /\ rows[k].time < bar.time THEN bar.open ELSE bar.close
    <2> DEFINE yes == TRUE
    <2>1. known \in [1..M -> BOOLEAN] /\ yes \in BOOLEAN /\ yes = TRUE
      BY DEF PriceKnown
    <2> HIDE DEF known, yes
    <2>2. GridRow(d, start, x, rows, M, yes, known)
      BY <1>2, <1>5, <2>1 DEF GridRow
    <2>3. GridAnswered(d, start, x, rows, M, yes, known)
      BY <2>1, <2>2, GridAnswer
    <2> QED BY <2>1, <2>3 DEF GridAnswered
  <1>7. ToSet(Field_of(rows, "time")) = T
    BY <1>4, <1>6
  <1>8. ASSUME NEW k \in DOMAIN rows
        PROVE  LET bar == BarAt(x, rows[k].time)
               IN  IF bar.time = rows[k].time THEN rows[k] = bar
                   ELSE /\ Flat(rows[k])
                        /\ ~(rows[k].time > Last(x).time + d) => rows[k].close =
                             IF rows[k].time < bar.time THEN bar.open ELSE bar.close
    <2>1. k \in 1..M /\ rows[k].time = At(d, start, k - 1)
      BY <1>6
    <2>2. known[k] = ~(rows[k].time > Last(x).time + d)
      BY <1>3, <2>1 DEF PriceKnown
    <2> HIDE DEF known
    <2> QED BY <1>6, <2>2
  <1>9. FilledToGrid("fill_inplace", x, d, start, end, rows)
    <2>1. \A k \in 1..Len(rows) - 1 : rows[k].time < rows[k + 1].time
      BY <1>6
    <2>2. x # <<>> /\ Last(x) = x[N]
      BY <1>3
    <2>3. T = T1 \cup (T2 \cup {t \in start..(IF x = <<>> THEN 0 ELSE Last(x).time) : (t - start) % d = 0})
      BY <2>2
    <2> HIDE DEF T, T2
    <2> QED BY <1>7, <1>8, <2>1, <2>3 DEF FilledToGrid, T2
  <1> QED BY <1>9 DEF rows

-----------------------------------------------------------------------------
(* The specification                                                       *)

\* What the transforms are given.
TransformInputs ==
    /\ BarSeqs \subseteq Lists /\ AnyBars \subseteq Lists /\ StaleBars \subseteq MarketBar
    /\ \A x \in BarSeqs : Climbing(x)
    /\ Intervals \subseteq Nat \ {0} /\ Times \subseteq Nat

LEMMA InputsAre == TransformInputs
  BY BarAssumption DEF TransformInputs, Lists, Climbing

\* The mode that the flags ask for.
LEMMA ModeIs ==
    ASSUME NEW flags
    PROVE  /\ spread_mode(flags) # "throws" => spread_mode(flags) \in Modes
           /\ \A x \in Lists, n \in Nat \ {0} : x # <<>> /\ spread_mode(flags) # "throws" =>
                 resample_market_bars(x, n, flags) = Resampled(x, n, spread_mode(flags))
  <1> DEFINE mode == spread_mode(flags)
  <1>1. mode # "throws" => mode \in Modes
    <2>1. CASE "ENABLE_SPREAD" \notin flags
      BY <2>1 DEF spread_mode, Modes
    <2>2. CASE "ENABLE_SPREAD" \in flags /\ "SPREAD_LAST" \in flags
      BY <2>2 DEF spread_mode, Modes
    <2>3. CASE {"ENABLE_SPREAD", "SPREAD_MAX"} \subseteq flags /\ "SPREAD_LAST" \notin flags
      BY <2>3 DEF spread_mode, Modes
    <2>4. CASE {"SPREAD_LAST", "SPREAD_MAX"} \cap flags = {} /\ {"ENABLE_SPREAD", "SPREAD_AVG"} \subseteq flags
      BY <2>4 DEF spread_mode, Modes
    <2>5. CASE /\ ~("ENABLE_SPREAD" \notin flags)
               /\ ~("ENABLE_SPREAD" \in flags /\ "SPREAD_LAST" \in flags)
               /\ ~({"ENABLE_SPREAD", "SPREAD_MAX"} \subseteq flags /\ "SPREAD_LAST" \notin flags)
               /\ ~({"SPREAD_LAST", "SPREAD_MAX"} \cap flags = {} /\ {"ENABLE_SPREAD", "SPREAD_AVG"} \subseteq flags)
      BY <2>5 DEF spread_mode
    <2> QED BY <2>1, <2>2, <2>3, <2>4, <2>5
  <1> HIDE DEF mode
  <1>2. ASSUME NEW x \in Lists, NEW n \in Nat \ {0}, x # <<>>, mode # "throws"
        PROVE  resample_market_bars(x, n, flags) = Resampled(x, n, mode)
    <2>1. resample_market_bars(x, n, flags) =
             CASE x = <<>> \/ mode = "throws" -> <<>>
               [] x # <<>> /\ mode = "no_spread" -> Resampled(x, n, "no_spread")
               [] x # <<>> /\ mode = "last" -> Resampled(x, n, "last")
               [] x # <<>> /\ mode = "max" -> Resampled(x, n, "max")
               [] x # <<>> /\ mode = "avg" -> Resampled(x, n, "avg")
      BY DEF resample_market_bars, mode, resample_market_bars_no_spread, resample_market_bars_last,
             resample_market_bars_max, resample_market_bars_avg
    <2>2. mode = "no_spread" \/ mode = "last" \/ mode = "max" \/ mode = "avg"
      BY <1>1, <1>2 DEF Modes
    <2> QED BY <1>2, <2>1, <2>2
  <1> QED BY <1>1, <1>2 DEF mode

\* A call of split_bars.
LEMMA SplitExactStep ==
    ASSUME NEW x \in Lists, NEW n \in Nat \ {0}, Returns("split", x, n, split_bars(n, x))
    PROVE  SplitIsExact'
  <1> DEFINE a == split_bars(n, x)
             all == InOneRow(a.segments)
  <1>1. Finished(n, a.segments) /\ a.ok = Ascending(x) /\ (a.ok => all = x) /\ (~a.ok => IsPrefix(all, x))
    BY SplitIs
  <1>2. op' = "split" /\ input' = x /\ base' = n /\ answer' = a
    BY DEF Returns
  <1> HIDE DEF a
  <1>3. /\ \A k \in 1..Len(a.segments) : \A i \in DOMAIN a.segments[k] :
              Period(n, a.segments[k][i]) = Period(n, a.segments[k][1])
        /\ \A k \in 1..Len(a.segments) - 1 : Period(n, a.segments[k][1]) < Period(n, a.segments[k + 1][1])
    BY <1>1 DEF Finished
  <1>4. a.ok = Ascending(x) /\ IF a.ok THEN all = x ELSE IsPrefix(all, x)
    BY <1>1
  <1> QED BY <1>2, <1>3, <1>4 DEF SplitIsExact

\* A call of resample_market_bars.
LEMMA ResampleExactStep ==
    ASSUME NEW x \in Lists, Climbing(x), NEW n \in Nat \ {0}, NEW flags,
           Returns("resample", x, n, [mode |-> spread_mode(flags), bars |-> resample_market_bars(x, n, flags)])
    PROVE  GroupsAreBuckets' /\ EveryBarOnce'
  <1> DEFINE mode == spread_mode(flags)
             bars == resample_market_bars(x, n, flags)
  <1>1. op' = "resample" /\ input' = x /\ base' = n /\ answer'.mode = mode /\ answer'.bars = bars
    BY DEF Returns
  <1>2. x # <<>> /\ mode # "throws" => mode \in Modes /\ bars = Resampled(x, n, mode)
    BY ModeIs
  <1> HIDE DEF mode, bars
  <1>3. Last(x) = x[Len(x)] /\ DOMAIN x = 1..Len(x)
    BY DEF Last, Lists
  <1>4. ASSUME x # <<>>, mode # "throws",
               \A p \in (Period(n, x[1])..Period(n, Last(x))) \ {Period(n, x[1])} : \E i \in DOMAIN x : x[i].time = p * n
        PROVE  bars = [k \in 1..Period(n, Last(x)) - Period(n, x[1]) + 1 |-> Bucket(x, n, mode, Period(n, x[1]) + k - 1)]
    <2> DEFINE first == Period(n, x[1])
               last == Period(n, x[Len(x)])
    <2>1. \A p \in (first..last) \ {first} : \E i \in 1..Len(x) : x[i].time = p * n
      BY <1>3, <1>4
    <2>3. mode \in Modes /\ x # <<>> /\ first = Period(n, x[1]) /\ last = Period(n, x[Len(x)])
      BY <1>2, <1>4
    <2> HIDE DEF first, last
    <2>2. Resampled(x, n, mode) = [k \in 1..(last - first + 1) |-> Bucket(x, n, mode, first + k - 1)]
      BY <2>1, <2>3, GroupsAre
    <2> QED BY <1>2, <1>3, <1>4, <2>2 DEF first, last
  <1>5. GroupsAreBuckets'
    BY <1>1, <1>4 DEF GroupsAreBuckets
  <1>6. ASSUME x # <<>>, mode # "throws"
        PROVE  /\ Total(Field_of(bars, "volume")) = Total(Field_of(x, "volume"))
               /\ bars[1].open = x[1].open /\ Last(bars).close = Last(x).close
               /\ Max(ToSet(Field_of(bars, "high"))) = Max(ToSet(Field_of(x, "high")))
               /\ Min(ToSet(Field_of(bars, "low"))) = Min(ToSet(Field_of(x, "low")))
               /\ \A k \in DOMAIN bars : bars[k].time % n = 0
               /\ \A k \in 1..(Len(bars) - 1) : bars[k].time < bars[k + 1].time
    <2>1. Once(n, x, Len(x), bars)
      BY <1>2, <1>6, EveryBarCounts
    <2> QED BY <1>6, <2>1, OnceMeans
  <1>7. EveryBarOnce'
    BY <1>1, <1>6 DEF EveryBarOnce
  <1> QED BY <1>5, <1>7

\* A call that fills gaps.
LEMMA FillExactStep ==
    ASSUME NEW x, NEW d, NEW start, NEW end, NEW rows, NEW name \in {"fill", "fill_inplace"},
           FilledToGrid(name, x, d, start, end, rows),
           Returns(name, x, <<d, start, end>>, rows)
    PROVE  FillIsGrid'
  <1>1. op' = name /\ input' = x /\ base'[1] = d /\ base'[2] = start /\ base'[3] = end /\ answer' = rows
    BY DEF Returns
  <1> QED BY <1>1 DEF FillIsGrid, FilledToGrid

\* The calls of other functions.
LEMMA NotTheirCalls ==
    /\ op' # "split" => SplitIsExact'
    /\ op' # "resample" => GroupsAreBuckets' /\ EveryBarOnce'
    /\ op' \notin {"fill", "fill_inplace"} => FillIsGrid'
  <1>1. op' # "split" => SplitIsExact'
    BY DEF SplitIsExact
  <1>2. op' # "resample" => GroupsAreBuckets' /\ EveryBarOnce'
    BY DEF GroupsAreBuckets, EveryBarOnce
  <1>3. op' \notin {"fill", "fill_inplace"} => FillIsGrid'
    BY DEF FillIsGrid
  <1> QED BY <1>1, <1>2, <1>3

\* A transform of bars.
LEMMA TransformStep ==
    ASSUME TransformBars
    PROVE  TransformsAreExact'
  <1>1. PICK x \in BarSeqs, t \in Times, u \in Times, n \in Intervals :
           \/ Returns("crop", x, t, [before |-> crop_before(x, t), after |-> crop_after(x, t)])
           \/ \E flags \in SUBSET SpreadFlags :
                 Returns("resample", x, n, [mode |-> spread_mode(flags), bars |-> resample_market_bars(x, n, flags)])
           \/ t <= u /\ Returns("fill", x, <<n, t, u>>, fill_missing_bars(x, n, t, u))
           \/ \E stale \in StaleBars :
                 t <= u /\ Returns("fill_inplace", x, <<n, t, u>>, fill_missing_bars_inplace(x, n, t, u, stale))
    BY DEF TransformBars
  <1>2. x \in Lists /\ Climbing(x) /\ n \in Nat \ {0} /\ t \in Nat /\ u \in Nat
    BY InputsAre DEF TransformInputs
  <1>3. ASSUME Returns("crop", x, t, [before |-> crop_before(x, t), after |-> crop_after(x, t)])
        PROVE  TransformsAreExact'
    <2>1. op' = "crop"
      BY <1>3 DEF Returns
    <2> QED BY <2>1, NotTheirCalls DEF TransformsAreExact
  <1>4. ASSUME NEW flags \in SUBSET SpreadFlags,
               Returns("resample", x, n, [mode |-> spread_mode(flags), bars |-> resample_market_bars(x, n, flags)])
        PROVE  TransformsAreExact'
    <2>1. op' = "resample"
      BY <1>4 DEF Returns
    <2>2. GroupsAreBuckets' /\ EveryBarOnce'
      BY <1>2, <1>4, ResampleExactStep
    <2> QED BY <2>1, <2>2, NotTheirCalls DEF TransformsAreExact
  <1>5. ASSUME Returns("fill", x, <<n, t, u>>, fill_missing_bars(x, n, t, u))
        PROVE  TransformsAreExact'
    <2> DEFINE rows == fill_missing_bars(x, n, t, u)
    <2>1. op' = "fill"
      BY <1>5 DEF Returns
    <2>2. FilledToGrid("fill", x, n, t, u, rows)
      BY <1>2, FillGives
    <2> HIDE DEF rows
    <2>3. FillIsGrid'
      BY <1>5, <2>2, FillExactStep DEF rows
    <2> QED BY <2>1, <2>3, NotTheirCalls DEF TransformsAreExact
  <1>6. ASSUME NEW stale \in StaleBars,
               Returns("fill_inplace", x, <<n, t, u>>, fill_missing_bars_inplace(x, n, t, u, stale))
        PROVE  TransformsAreExact'
    <2> DEFINE rows == fill_missing_bars_inplace(x, n, t, u, stale)
    <2>1. op' = "fill_inplace"
      BY <1>6 DEF Returns
    <2>2. stale \in MarketBar
      BY InputsAre DEF TransformInputs
    <2>3. FilledToGrid("fill_inplace", x, n, t, u, rows)
      BY <1>2, <2>2, FillInPlaceGives
    <2> HIDE DEF rows
    <2>4. FillIsGrid'
      BY <1>6, <2>3, FillExactStep DEF rows
    <2> QED BY <2>1, <2>4, NotTheirCalls DEF TransformsAreExact
  <1> QED BY <1>1, <1>3, <1>4, <1>5, <1>6

\* The codecs name themselves.
LEMMA CodersNames ==
    ASSUME \/ CodeSigned32 \/ CodeSigned64 \/ CodeUnsigned32 \/ CodeUnsigned64 \/ CodeRuns \/ CodeColumns
    PROVE  op' \in CodecNames
  <1>1. ASSUME CodeSigned32 PROVE op' \in CodecNames
    BY <1>1 DEF CodeSigned32, Returns, CodecNames, Coders, ScalarChunks
  <1>2. ASSUME CodeSigned64 PROVE op' \in CodecNames
    BY <1>2 DEF CodeSigned64, Returns, CodecNames, Coders, ScalarChunks
  <1>3. ASSUME CodeUnsigned32 PROVE op' \in CodecNames
    BY <1>3 DEF CodeUnsigned32, Returns, CodecNames, Coders
  <1>4. ASSUME CodeUnsigned64 PROVE op' \in CodecNames
    BY <1>4 DEF CodeUnsigned64, Returns, CodecNames, Coders
  <1>5. ASSUME CodeRuns PROVE op' \in CodecNames
    BY <1>5 DEF CodeRuns, Returns, CodecNames, RunCoders
  <1>6. ASSUME CodeColumns PROVE op' \in CodecNames
    BY <1>6 DEF CodeColumns, Returns, CodecNames
  <1> QED BY <1>1, <1>2, <1>3, <1>4, <1>5, <1>6

\* Each transform of bars does what its reference definition says: split_bars.hpp,
\* resample_market_bars.hpp and bar_gap_filler.hpp, whatever the bars, the
\* interval, the range and what a dangling reference finds.
THEOREM TransformsAreExactHolds == AlgSpec => []TransformsAreExact
  <1>1. AlgInit => TransformsAreExact
    BY DEF AlgInit, TransformsAreExact, SplitIsExact, GroupsAreBuckets, EveryBarOnce, FillIsGrid
  <1>2. ASSUME TransformsAreExact, [AlgNext \/ ConvNext]_avars PROVE TransformsAreExact'
    <2>1. CASE UNCHANGED avars
      <3>1. op' = op /\ input' = input /\ base' = base /\ answer' = answer
        BY <2>1 DEF avars
      <3> QED BY <1>2, <3>1 DEF TransformsAreExact, SplitIsExact, GroupsAreBuckets, EveryBarOnce, FillIsGrid
    <2>2. ASSUME op' \notin {"split", "resample", "fill", "fill_inplace"} PROVE TransformsAreExact'
      BY <2>2, NotTheirCalls DEF TransformsAreExact
    <2>3. CASE CodeSigned32 \/ CodeSigned64 \/ CodeUnsigned32 \/ CodeUnsigned64 \/ CodeRuns \/ CodeColumns
      <3>1. op' \in CodecNames
        BY <2>3, CodersNames
      <3>2. op' \notin {"split", "resample", "fill", "fill_inplace"}
        BY <3>1 DEF CodecNames, Coders, ScalarChunks, RunCoders
      <3> QED BY <2>2, <3>2
    <2>4. CASE MakeKeys \/ LookUpFrames \/ ConvNext
      <3>1. op' \in PlainNames
        BY <2>4, PlainCalls DEF ConvNext
      <3>2. op' \notin {"split", "resample", "fill", "fill_inplace"}
        BY <3>1 DEF PlainNames
      <3> QED BY <2>2, <3>2
    <2>5. CASE TransformBars
      BY <2>5, TransformStep
    <2>6. CASE SplitBars
      <3>1. PICK x \in AnyBars, n \in Intervals : Returns("split", x, n, split_bars(n, x))
        BY <2>6 DEF SplitBars
      <3>2. x \in Lists /\ n \in Nat \ {0}
        BY InputsAre DEF TransformInputs
      <3>3. SplitIsExact'
        BY <3>1, <3>2, SplitExactStep
      <3>4. op' = "split"
        BY <3>1 DEF Returns
      <3> QED BY <3>3, <3>4, NotTheirCalls DEF TransformsAreExact
    <2> QED BY <1>2, <2>1, <2>3, <2>4, <2>5, <2>6 DEF AlgNext
  <1> QED BY <1>1, <1>2, PTL DEF AlgSpec
=============================================================================
