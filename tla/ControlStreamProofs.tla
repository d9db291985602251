--------------------------- MODULE ControlStreamProofs ---------------------------
(***************************************************************************)
(* What the browser's terminal shows, for every value of the constants:    *)
(* the bytes of its pane without a hole, never backwards, and on again     *)
(* after a pause of tmux.                                                  *)
(***************************************************************************)
EXTENDS MCControl, ControlTerminalProofs, SequenceTheorems

\* Moving the head of one queue to the end of another keeps their join.
LEMMA JoinedPut ==
  ASSUME NEW S, NEW q \in Seq(S), NEW p \in Seq(S), p # <<>>
  PROVE  Append(q, Head(p)) \o Tail(p) = q \o p
<1> DEFINE s == Append(q, Head(p)) \o Tail(p)
           t == q \o p
<1>1. Append(q, Head(p)) \in Seq(S) /\ Tail(p) \in Seq(S)
  OBVIOUS
<1>2. s \in Seq(S) /\ t \in Seq(S)
  BY <1>1
<1>3. Len(s) = Len(t)
  BY <1>1
<1>4. ASSUME NEW i \in 1..Len(t) PROVE s[i] = t[i]
  <2>1. CASE i <= Len(q)
    BY <1>1, <2>1
  <2>2. CASE i = Len(q) + 1
    BY <1>1, <2>2
  <2>3. CASE i > Len(q) + 1
    BY <1>1, <2>3
  <2>4. QED BY <2>1, <2>2, <2>3
<1> HIDE DEF s, t
<1>5. s = t
  BY <1>2, <1>3, <1>4, SeqEqual
<1>6. QED BY <1>5 DEF s, t

\* Taking the head of a queue takes the head of its join with another.
LEMMA JoinedTail ==
  ASSUME NEW S, NEW q \in Seq(S), NEW p \in Seq(S), q # <<>>
  PROVE  Tail(q) \o p = Tail(q \o p) /\ Head(q \o p) = Head(q) /\ q \o p # <<>>
<1> DEFINE s == Tail(q) \o p
           t == Tail(q \o p)
<1>1. Tail(q) \in Seq(S) /\ q \o p \in Seq(S) /\ q \o p # <<>> /\ Len(q \o p) = Len(q) + Len(p)
  OBVIOUS
<1>2. s \in Seq(S) /\ t \in Seq(S)
  BY <1>1
<1>3. Len(s) = Len(t)
  BY <1>1
<1>4. ASSUME NEW i \in 1..Len(t) PROVE s[i] = t[i]
  <2>1. t[i] = (q \o p)[i + 1] /\ i + 1 \in 1..Len(q) + Len(p)
    BY <1>1
  <2>2. CASE i <= Len(q) - 1
    BY <1>1, <2>1, <2>2
  <2>3. CASE i > Len(q) - 1
    BY <1>1, <2>1, <2>3
  <2>4. QED BY <2>2, <2>3
<1>5. Head(q \o p) = Head(q)
  BY <1>1
<1> HIDE DEF s, t
<1>6. s = t
  BY <1>2, <1>3, <1>4, SeqEqual
<1>7. QED BY <1>1, <1>5, <1>6 DEF s, t

\* Appending to a queue appends to its join with one before it.
LEMMA JoinedAppend ==
  ASSUME NEW S, NEW q \in Seq(S), NEW p \in Seq(S), NEW e \in S
  PROVE  q \o Append(p, e) = Append(q \o p, e) /\ p \o <<e>> = Append(p, e)
<1> DEFINE s == q \o Append(p, e)
           t == Append(q \o p, e)
<1>1. Append(p, e) \in Seq(S) /\ q \o p \in Seq(S) /\ Len(q \o p) = Len(q) + Len(p)
  OBVIOUS
<1>2. s \in Seq(S) /\ t \in Seq(S)
  BY <1>1
<1>3. Len(s) = Len(t)
  BY <1>1
<1>4. ASSUME NEW i \in 1..Len(t) PROVE s[i] = t[i]
  <2>1. CASE i <= Len(q)
    BY <1>1, <2>1
  <2>2. CASE i > Len(q) /\ i <= Len(q) + Len(p)
    BY <1>1, <2>2
  <2>3. CASE i = Len(q) + Len(p) + 1
    BY <1>1, <2>3
  <2>4. QED BY <1>1, <2>1, <2>2, <2>3
<1> HIDE DEF s, t
<1>5. s = t
  BY <1>2, <1>3, <1>4, SeqEqual
<1>6. p \o <<e>> = Append(p, e)
  BY AppendIsConcat
<1>7. QED BY <1>5, <1>6 DEF s, t

\* A line of pane p comes strictly between the i-th and the j-th.
Between(s, p, i, j) == \E k \in DOMAIN s : i < k /\ k < j /\ s[k].pane = p

\* The output of pane p goes on where its line before ended, unless tmux paused there.
Continues(s, p) ==
  \A i, j \in DOMAIN s :
    i < j /\ IsOutputOf(p, s[j]) /\ s[i].pane = p /\ ~Between(s, p, i, j)
      => s[i].type = "pause" \/ s[j].byte = s[i].byte + 1

\* The last line of pane p, if there is one and it is no pause, is of byte n.
EndsAt(s, p, n) ==
  \A i \in DOMAIN s :
    s[i].pane = p /\ ~Between(s, p, i, Len(s) + 1)
      => s[i].type = "pause" \/ s[i].byte = n

\* What is left of the output of a paused pane comes before the word of the pause.
PauseSaid(s, p) ==
  \A i \in DOMAIN s : IsOutputOf(p, s[i]) => \E j \in DOMAIN s : i < j /\ s[j] = Pause(p)

\* No line is of pane p.
Silent(s, p) == \A i \in DOMAIN s : s[i].pane # p
\* Lines s go on with pane p behind a terminal that shows its byte n.
Joins(s, p, n) ==
  \A i \in DOMAIN s : IsOutputOf(p, s[i]) /\ ~Between(s, p, 0, i) => s[i].byte = n + 1

\* What the rest of the stream says of a pane once its first line is read.
LEMMA ReadContinues ==
  ASSUME NEW s \in Seq(LineSet), s # <<>>, NEW p
  PROVE  /\ Continues(s, p) => Continues(Tail(s), p)
         /\ \A n : EndsAt(s, p, n) => EndsAt(Tail(s), p, n)
         /\ PauseSaid(s, p) => PauseSaid(Tail(s), p)
         /\ Continues(s, p) /\ Head(s).pane = p /\ Head(s).type # "pause"
              => Joins(Tail(s), p, Head(s).byte)
         /\ \A n : EndsAt(s, p, n) /\ Head(s).pane = p /\ Head(s).type # "pause"
              /\ Silent(Tail(s), p)
              => Head(s).byte = n
         /\ Head(s).pane # p =>
              (\A n : Joins(s, p, n) => Joins(Tail(s), p, n)) /\ (Silent(Tail(s), p)
                   => Silent(s, p))
         /\ \A n : Joins(s, p, n) /\ IsOutputOf(p, Head(s)) => Head(s).byte = n + 1
<1> DEFINE t == Tail(s)
           n == Len(t)
<1>1. /\ n \in Nat /\ Len(s) = n + 1 /\ DOMAIN t = 1..n /\ DOMAIN s = 1..n + 1
      /\ Head(s) = s[1] /\ \A i \in 1..n : t[i] = s[i + 1]
  BY Popped
<1> HIDE DEF t, n
<1>2. \A i \in DOMAIN t : i \in Nat /\ i + 1 \in DOMAIN s /\ t[i] = s[i + 1]
  BY <1>1
<1>3. \A j, i \in Nat : Between(s, p, j + 1, i + 1) => Between(t, p, j, i)
  <2> SUFFICES ASSUME NEW j \in Nat, NEW i \in Nat, Between(s, p, j + 1, i + 1)
               PROVE  Between(t, p, j, i)
    OBVIOUS
  <2>1. PICK k \in DOMAIN s : j + 1 < k /\ k < i + 1 /\ s[k].pane = p
    BY DEF Between
  <2>2. k - 1 \in DOMAIN t /\ j < k - 1 /\ k - 1 < i /\ t[k - 1] = s[k]
    BY <1>1, <2>1
  <2>3. QED BY <2>1, <2>2 DEF Between
<1>4. Continues(s, p) => Continues(t, p)
  <2> SUFFICES ASSUME Continues(s, p), NEW i \in DOMAIN t, NEW j \in DOMAIN t,
                      i < j, IsOutputOf(p, t[j]), t[i].pane = p, ~Between(t, p, i, j)
               PROVE  t[i].type = "pause" \/ t[j].byte = t[i].byte + 1
    BY DEF Continues
  <2>1. i + 1 < j + 1 /\ ~Between(s, p, i + 1, j + 1)
    BY <1>2, <1>3
  <2>2. QED BY <1>2, <2>1 DEF Continues
<1>5. ASSUME NEW m, EndsAt(s, p, m) PROVE EndsAt(t, p, m)
  <2> SUFFICES ASSUME NEW j \in DOMAIN t, t[j].pane = p, ~Between(t, p, j, n + 1)
               PROVE  t[j].type = "pause" \/ t[j].byte = m
    BY DEF EndsAt, n
  <2>1. ~Between(s, p, j + 1, Len(s) + 1)
    BY <1>1, <1>2, <1>3
  <2>2. QED BY <1>2, <1>5, <2>1 DEF EndsAt
<1>6. PauseSaid(s, p) => PauseSaid(t, p)
  <2> SUFFICES ASSUME PauseSaid(s, p), NEW j \in DOMAIN t, IsOutputOf(p, t[j])
               PROVE  \E k \in DOMAIN t : j < k /\ t[k] = Pause(p)
    BY DEF PauseSaid
  <2>1. PICK k \in DOMAIN s : j + 1 < k /\ s[k] = Pause(p)
    BY <1>2 DEF PauseSaid
  <2>2. k - 1 \in DOMAIN t /\ j < k - 1 /\ t[k - 1] = s[k]
    BY <1>1, <2>1
  <2>3. QED BY <2>1, <2>2
<1>7. ASSUME Continues(s, p), s[1].type # "pause", s[1].pane = p
      PROVE  Joins(t, p, s[1].byte)
  <2>0. 1 \in DOMAIN s /\ 0 + 1 = 1 /\ 0 \in Nat
    BY <1>1
  <2>1. ASSUME NEW i \in DOMAIN t, IsOutputOf(p, t[i]), ~Between(t, p, 0, i)
        PROVE  t[i].byte = s[1].byte + 1
    <3>1. ~Between(s, p, 0 + 1, i + 1) /\ 1 < i + 1
      BY <1>1, <1>2, <1>3, <2>1
    <3>2. ~Between(s, p, 1, i + 1)
      BY <3>1
    <3>3. QED BY <1>2, <1>7, <2>0, <2>1, <3>1, <3>2 DEF Continues
  <2>3. QED BY <2>1 DEF Joins
<1>8. ASSUME NEW m, EndsAt(s, p, m), s[1].type # "pause", s[1].pane = p, Silent(t, p)
      PROVE  s[1].byte = m
  <2>1. ~Between(t, p, 0, n + 1)
    BY <1>8 DEF Between, Silent
  <2>2. ~Between(s, p, 0 + 1, (n + 1) + 1)
    BY <1>1, <1>3, <2>1
  <2>3. ~Between(s, p, 1, Len(s) + 1) /\ 1 \in DOMAIN s
    BY <1>1, <2>2
  <2>4. QED BY <1>8, <2>3 DEF EndsAt
<1>9. ASSUME s[1].pane # p
      PROVE  (\A m : Joins(s, p, m) => Joins(t, p, m)) /\ (Silent(t, p) => Silent(s, p))
  <2>1. \A i \in Nat : Between(s, p, 0, i + 1) => Between(t, p, 0, i)
    <3> SUFFICES ASSUME NEW i \in Nat, Between(s, p, 0, i + 1) PROVE Between(t, p, 0, i)
      OBVIOUS
    <3>1. PICK k \in DOMAIN s : 0 < k /\ k < i + 1 /\ s[k].pane = p
      BY DEF Between
    <3>2. k # 1
      BY <1>9, <3>1
    <3>3. k - 1 \in DOMAIN t /\ 0 < k - 1 /\ k - 1 < i /\ t[k - 1] = s[k]
      BY <1>1, <3>1, <3>2
    <3>4. QED BY <3>1, <3>3 DEF Between
  <2>2. \A m : Joins(s, p, m) => Joins(t, p, m)
    BY <1>2, <2>1 DEF Joins
  <2>3. \A i \in DOMAIN s : i = 1 \/ (i - 1 \in DOMAIN t /\ t[i - 1] = s[i])
    BY <1>1
  <2>4. QED BY <1>9, <2>2, <2>3 DEF Silent
<1>10. ASSUME NEW m, Joins(s, p, m), IsOutputOf(p, s[1]) PROVE s[1].byte = m + 1
  <2>1. ~Between(s, p, 0, 1) /\ 1 \in DOMAIN s
    BY <1>1 DEF Between
  <2>2. QED BY <1>10, <2>1 DEF Joins
<1>11. QED BY <1>1, <1>4, <1>5, <1>6, <1>7, <1>8, <1>9, <1>10 DEF t

\* A line of another pane, or of none, at the end of the stream changes nothing.
LEMMA OthersSaid ==
  ASSUME NEW s \in Seq(LineSet), NEW t \in Seq(LineSet), Len(t) = Len(s) + 1, NEW p,
         \A i \in 1..Len(s) : t[i] = s[i] \/ (t[i].pane # p /\ s[i].pane # p),
         t[Len(s) + 1].pane # p
  PROVE  /\ Continues(s, p) => Continues(t, p)
         /\ \A n : EndsAt(s, p, n) => EndsAt(t, p, n)
         /\ PauseSaid(s, p) => PauseSaid(t, p)
         /\ \A n : Joins(s, p, n) => Joins(t, p, n)
         /\ Silent(t, p) => Silent(s, p)
<1> DEFINE n == Len(s)
<1>1. n \in Nat /\ Len(t) = n + 1 /\ DOMAIN s = 1..n /\ DOMAIN t = 1..n + 1
  OBVIOUS
<1> HIDE DEF n
<1>2. \A i \in DOMAIN t : t[i].pane = p => i \in DOMAIN s /\ t[i] = s[i]
  BY <1>1 DEF n
<1>3. \A i \in DOMAIN s : i \in DOMAIN t /\ (s[i].pane = p => t[i] = s[i])
  BY <1>1 DEF n
<1>4. \A j, i : Between(s, p, j, i) => Between(t, p, j, i)
  BY <1>3 DEF Between
<1>5. Continues(s, p) => Continues(t, p)
  BY <1>2, <1>4 DEF Continues, IsOutputOf
<1>6. \A j : Between(s, p, j, n + 1) => Between(t, p, j, (n + 1) + 1)
  <2> SUFFICES ASSUME NEW j, Between(s, p, j, n + 1) PROVE Between(t, p, j, (n + 1) + 1)
    OBVIOUS
  <2>1. PICK k \in DOMAIN s : j < k /\ k < n + 1 /\ s[k].pane = p
    BY DEF Between
  <2>2. k \in DOMAIN t /\ t[k].pane = p /\ k < (n + 1) + 1
    BY <1>1, <1>3, <2>1
  <2>3. QED BY <2>1, <2>2 DEF Between
<1>7. ASSUME NEW m, EndsAt(s, p, m) PROVE EndsAt(t, p, m)
  <2> SUFFICES ASSUME NEW j \in DOMAIN t, t[j].pane = p, ~Between(t, p, j, (n + 1) + 1)
               PROVE  t[j].type = "pause" \/ t[j].byte = m
    BY <1>1 DEF EndsAt
  <2>1. QED BY <1>2, <1>6, <1>7 DEF EndsAt, n
<1>8. PauseSaid(s, p) => PauseSaid(t, p)
  BY <1>2, <1>3 DEF PauseSaid, IsOutputOf, Pause
<1>9. \A m : Joins(s, p, m) => Joins(t, p, m)
  BY <1>2, <1>4 DEF Joins, IsOutputOf
<1>10. Silent(t, p) => Silent(s, p)
  BY <1>3 DEF Silent
<1>11. QED BY <1>5, <1>7, <1>8, <1>9, <1>10

\* A line of the pane itself goes on where the stream ended, and ends it anew.
LEMMA PaneSaid ==
  ASSUME NEW s \in Seq(LineSet), NEW p, NEW l \in LineSet, l.pane = p
  PROVE  /\ EndsAt(Append(s, l), p, l.byte)
         /\ ~Silent(Append(s, l), p)
         /\ l.type # "output" => /\ Continues(s, p) => Continues(Append(s, l), p)
                                 /\ PauseSaid(s, p) => PauseSaid(Append(s, l), p)
                                 /\ \A n : Joins(s, p, n) => Joins(Append(s, l), p, n)
         /\ \A n : EndsAt(s, p, n) /\ l.byte = n + 1 =>
              /\ Continues(s, p) => Continues(Append(s, l), p)
              /\ \A m : Joins(s, p, m) /\ (Silent(s, p) => m = n) => Joins(Append(s, l), p, m)
<1> DEFINE t == Append(s, l)
           n == Len(s)
<1>1. /\ n \in Nat /\ Len(t) = n + 1 /\ DOMAIN s = 1..n /\ DOMAIN t = 1..n + 1
      /\ (\A i \in 1..n : t[i] = s[i]) /\ t[n + 1] = l
  BY Appended
<1> HIDE DEF t, n
<1>2. \A i \in DOMAIN t : i = n + 1 \/ (i \in DOMAIN s /\ t[i] = s[i])
  BY <1>1
<1>3. DOMAIN s \subseteq DOMAIN t /\ \A i \in DOMAIN s : t[i] = s[i]
  BY <1>1
<1>4. \A j, i : Between(s, p, j, i) => Between(t, p, j, i)
  BY <1>3 DEF Between
<1>5. EndsAt(t, p, l.byte)
  <2> SUFFICES ASSUME NEW j \in DOMAIN t, ~Between(t, p, j, (n + 1) + 1) PROVE j = n + 1
    BY <1>1 DEF EndsAt
  <2>1. CASE j < n + 1
    BY <1>1, <2>1 DEF Between
  <2>2. QED BY <1>1, <2>1
<1>6. ~Silent(t, p)
  BY <1>1 DEF Silent
<1>7. ASSUME Continues(s, p), l.type # "output" PROVE Continues(t, p)
  <2> SUFFICES ASSUME NEW i \in DOMAIN t, NEW j \in DOMAIN t,
                      i < j, IsOutputOf(p, t[j]), t[i].pane = p, ~Between(t, p, i, j)
               PROVE  t[i].type = "pause" \/ t[j].byte = t[i].byte + 1
    BY DEF Continues
  <2>1. j # n + 1
    BY <1>1, <1>7 DEF IsOutputOf
  <2>2. i \in DOMAIN s /\ j \in DOMAIN s
    BY <1>1, <2>1
  <2>3. QED BY <1>3, <1>4, <1>7, <2>2 DEF Continues
<1>8. ASSUME NEW m, Joins(s, p, m), l.type # "output" PROVE Joins(t, p, m)
  BY <1>1, <1>2, <1>4, <1>8 DEF Joins, IsOutputOf
<1>9. ASSUME NEW m, EndsAt(s, p, m), l.byte = m + 1, Continues(s, p) PROVE Continues(t, p)
  <2> SUFFICES ASSUME NEW i \in DOMAIN t, NEW j \in DOMAIN t,
                      i < j, IsOutputOf(p, t[j]), t[i].pane = p, ~Between(t, p, i, j)
               PROVE  t[i].type = "pause" \/ t[j].byte = t[i].byte + 1
    BY DEF Continues
  <2>0. i \in DOMAIN s /\ t[i] = s[i] /\ ~Between(s, p, i, j)
    BY <1>1, <1>4
  <2>1. CASE j # n + 1
    BY <1>2, <1>9, <2>0, <2>1 DEF Continues
  <2>2. CASE j = n + 1
    BY <1>1, <1>9, <2>0, <2>2 DEF EndsAt, n
  <2>3. QED BY <2>1, <2>2
<1>10. ASSUME NEW k, EndsAt(s, p, k), l.byte = k + 1, NEW m, Joins(s, p, m), Silent(s, p)
     => m = k
       PROVE  Joins(t, p, m)
  <2> SUFFICES ASSUME NEW i \in DOMAIN t, IsOutputOf(p, t[i]), ~Between(t, p, 0, i)
               PROVE  t[i].byte = m + 1
    BY DEF Joins
  <2>1. CASE i # n + 1
    BY <1>2, <1>4, <1>10, <2>1 DEF Joins
  <2>2. CASE i = n + 1
    <3>1. Silent(s, p)
      BY <1>1, <1>3, <2>2 DEF Silent, Between
    <3>2. QED BY <1>1, <1>10, <2>2, <3>1
  <2>3. QED BY <2>1, <2>2
<1>11. ASSUME PauseSaid(s, p), l.type # "output" PROVE PauseSaid(t, p)
  <2>1. \A i \in DOMAIN t : IsOutputOf(p, t[i]) => i \in DOMAIN s /\ t[i] = s[i]
    BY <1>1, <1>2, <1>11 DEF IsOutputOf
  <2>2. QED BY <1>3, <1>11, <2>1 DEF PauseSaid
<1>12. QED BY <1>5, <1>6, <1>7, <1>8, <1>9, <1>10, <1>11 DEF t

\* tmux pauses the pane: it drops some of its newest lines and says so at the end.
LEMMA PausedThere ==
  ASSUME NEW s \in Seq(LineSet), NEW t \in Seq(LineSet), Len(t) = Len(s) + 1, NEW p,
       NEW k \in Int,
         p # NoPane,
         \A i \in 1..Len(s) : t[i] = IF i > k
              /\ IsOutputOf(p, s[i]) THEN Line("lost") ELSE s[i],
         t[Len(s) + 1] = Pause(p)
  PROVE  /\ Continues(s, p) => Continues(t, p)
         /\ PauseSaid(t, p)
         /\ \A n : Joins(s, p, n) => Joins(t, p, n)
         /\ ~Silent(t, p)
<1> DEFINE n == Len(s)
<1>1. n \in Nat /\ Len(t) = n + 1 /\ DOMAIN s = 1..n /\ DOMAIN t = 1..n + 1
  OBVIOUS
<1> HIDE DEF n
<1>2. Line("lost").pane # p /\ Line("lost").type # "output" /\ Pause(p).pane = p
     /\ Pause(p).type # "output"
  BY DEF Line, Pause
<1>3. t[n + 1] = Pause(p)
  BY DEF n
<1>4. \A i \in DOMAIN t : IsOutputOf(p, t[i]) => i \in DOMAIN s /\ t[i] = s[i] /\ i <= k
  <2> SUFFICES ASSUME NEW i \in DOMAIN t, IsOutputOf(p, t[i])
               PROVE  i \in DOMAIN s /\ t[i] = s[i] /\ i <= k
    OBVIOUS
  <2>1. i # n + 1
    BY <1>2, <1>3 DEF IsOutputOf
  <2>2. i \in DOMAIN s /\ i \in Int
    BY <1>1, <2>1
  <2>3. t[i] = IF i > k /\ IsOutputOf(p, s[i]) THEN Line("lost") ELSE s[i]
    BY <2>2, <1>1 DEF n
  <2>4. ~(i > k /\ IsOutputOf(p, s[i]))
    BY <2>3, <1>2 DEF IsOutputOf
  <2>5. t[i] = s[i]
    BY <2>3, <2>4
  <2>6. QED BY <2>2, <2>4, <2>5
<1>5. \A i \in DOMAIN s : i <= k => i \in DOMAIN t /\ t[i] = s[i]
  BY <1>1 DEF n
<1>6. \A j, i \in DOMAIN t : i <= k => (Between(s, p, j, i) => Between(t, p, j, i))
  <2> SUFFICES ASSUME NEW j \in DOMAIN t, NEW i \in DOMAIN t, i <= k, Between(s, p, j, i)
               PROVE  Between(t, p, j, i)
    OBVIOUS
  <2>1. PICK h \in DOMAIN s : j < h /\ h < i /\ s[h].pane = p
    BY DEF Between
  <2>2. h <= k
    BY <1>1, <2>1
  <2>3. QED BY <1>5, <2>1, <2>2 DEF Between
<1>7. \A i \in DOMAIN t : i <= k => (Between(s, p, 0, i) => Between(t, p, 0, i))
  <2> SUFFICES ASSUME NEW i \in DOMAIN t, i <= k, Between(s, p, 0, i)
               PROVE  Between(t, p, 0, i)
    OBVIOUS
  <2>1. PICK h \in DOMAIN s : 0 < h /\ h < i /\ s[h].pane = p
    BY DEF Between
  <2>2. h <= k
    BY <1>1, <2>1
  <2>3. QED BY <1>5, <2>1, <2>2 DEF Between
<1>8. Continues(s, p) => Continues(t, p)
  <2> SUFFICES ASSUME Continues(s, p), NEW i \in DOMAIN t, NEW j \in DOMAIN t,
                      i < j, IsOutputOf(p, t[j]), t[i].pane = p, ~Between(t, p, i, j)
               PROVE  t[i].type = "pause" \/ t[j].byte = t[i].byte + 1
    BY DEF Continues
  <2>1. j \in DOMAIN s /\ t[j] = s[j] /\ j <= k
    BY <1>4
  <2>2. i <= k /\ i \in DOMAIN s
    BY <2>1, <1>1
  <2>3. t[i] = s[i] /\ ~Between(s, p, i, j)
    BY <2>1, <2>2, <1>5, <1>6
  <2>4. QED BY <2>1, <2>2, <2>3 DEF Continues
<1>9. PauseSaid(t, p)
  <2> SUFFICES ASSUME NEW i \in DOMAIN t, IsOutputOf(p, t[i])
               PROVE  \E j \in DOMAIN t : i < j /\ t[j] = Pause(p)
    BY DEF PauseSaid
  <2>1. i < n + 1 /\ n + 1 \in DOMAIN t
    BY <1>1, <1>4
  <2>2. QED BY <1>3, <2>1
<1>10. \A m : Joins(s, p, m) => Joins(t, p, m)
  BY <1>4, <1>7 DEF Joins
<1>11. ~Silent(t, p)
  BY <1>1, <1>2, <1>3 DEF Silent
<1>12. QED BY <1>8, <1>9, <1>10, <1>11

\* When a continue resumes a pane, what it was paused at is at its end.
LEMMA PausedEnds ==
  ASSUME NEW s \in Seq(LineSet), NEW p, NEW n, PauseSaid(s, p),
         \A i \in DOMAIN s : s[i].pane = p => s[i].type \in {"output", "pause"}
  PROVE  EndsAt(s, p, n)
<1> SUFFICES ASSUME NEW i \in DOMAIN s, s[i].pane = p, ~Between(s, p, i, Len(s) + 1)
             PROVE  s[i].type = "pause"
  BY DEF EndsAt
<1>1. CASE s[i].type = "output"
  <2>1. PICK j \in DOMAIN s : i < j /\ s[j] = Pause(p)
    BY <1>1 DEF PauseSaid, IsOutputOf
  <2>2. j < Len(s) + 1 /\ s[j].pane = p
    BY <2>1 DEF Pause
  <2>3. QED BY <2>1, <2>2 DEF Between
<1>2. QED BY <1>1

\* The head of the queue goes on where the terminal stands, and is painted.
LEMMA ShownNext ==
  ASSUME NEW v, NEW items \in Seq(ItemSet), items # <<>>, items[1].type # "end",
         WholeWith(v, items), v.whole \in BOOLEAN
  PROVE  WholeWith(Painted(v, items[1]), Tail(items))
<1> DEFINE t == Tail(items)
           n == Len(t)
           item == items[1]
           w == Painted(v, item)
<1>1. /\ n \in Nat /\ Len(items) = n + 1 /\ DOMAIN t = 1..n /\ DOMAIN items = 1..n + 1
      /\ items[1] \in ItemSet /\ \A i \in 1..n : t[i] = items[i + 1] /\ t[i] \in ItemSet
  BY Popped
<1>2. w.pane = item.pane /\ w.last = item.byte
  BY DEF Painted
<1>3. item.type \in {"seed", "output"}
  BY <1>1 DEF ItemSet
<1>4. item.type = "seed" => w.whole = TRUE
  BY DEF Painted
<1>5. item.type = "output" => (w.whole <=> v.whole /\ v.pane = item.pane
     /\ item.byte = v.last + 1)
  BY DEF Painted
<1> HIDE DEF t, n, w
<1>6. \A i \in Nat : Repainted(items, i + 1) => Repainted(t, i)
  <2> SUFFICES ASSUME NEW i \in Nat, Repainted(items, i + 1) PROVE Repainted(t, i)
    OBVIOUS
  <2>1. PICK j \in DOMAIN items : j > i + 1 /\ items[j].type = "seed"
    BY DEF Repainted
  <2>2. j - 1 \in DOMAIN t /\ j - 1 > i /\ t[j - 1] = items[j]
    BY <1>1, <2>1
  <2>3. QED BY <2>1, <2>2 DEF Repainted
<1>7. 1 \in DOMAIN items
  BY <1>1
<1>8. w.whole \/ Repainted(t, 0)
  <2>1. CASE item.type = "seed"
    BY <1>4, <2>1
  <2>2. CASE item.type = "output" /\ ~Repainted(t, 0)
    <3>1. ~Repainted(items, 0 + 1)
      BY <1>6, <2>2
    <3>2. ~Repainted(items, 1)
      BY <3>1
    <3>3. ~Repainted(items, 0)
      <4> SUFFICES ASSUME NEW j \in DOMAIN items, j > 0, items[j].type = "seed" PROVE FALSE
        BY DEF Repainted
      <4>1. j # 1
        BY <2>2
      <4>2. j > 1
        BY <1>1, <4>1
      <4>3. QED BY <3>2, <4>2 DEF Repainted
    <3>4. v.whole
      BY <3>3 DEF WholeWith
    <3>5. item.pane = v.pane /\ item.byte = v.last + 1
      BY <1>7, <2>2, <3>2 DEF WholeWith, Before
    <3>6. QED BY <1>5, <2>2, <3>4, <3>5
  <2>3. QED BY <1>3, <2>1, <2>2
<1>9. ASSUME NEW i \in DOMAIN t, t[i].type = "output", ~Repainted(t, i)
      PROVE  t[i].pane = Before(w, t, i).pane /\ t[i].byte = Before(w, t, i).byte + 1
  <2>1. i \in Nat /\ i + 1 \in DOMAIN items /\ t[i] = items[i + 1] /\ i + 1 # 1
    BY <1>1
  <2>2. ~Repainted(items, i + 1)
    BY <1>6, <1>9, <2>1
  <2>3. items[i + 1].pane = Before(v, items, i + 1).pane
        /\ items[i + 1].byte = Before(v, items, i + 1).byte + 1
    BY <1>9, <2>1, <2>2 DEF WholeWith
  <2>4. Before(v, items, i + 1) = [pane |-> items[i].pane, byte |-> items[i].byte]
    BY <2>1 DEF Before
  <2>5. Before(w, t, i) = [pane |-> items[i].pane, byte |-> items[i].byte]
    <3>1. CASE i = 1
      BY <3>1, <1>2 DEF Before
    <3>2. CASE i # 1
      <4>1. i - 1 \in DOMAIN t /\ t[i - 1] = items[i]
        BY <1>1, <3>2
      <4>2. QED BY <3>2, <4>1 DEF Before
    <3>3. QED BY <3>1, <3>2
  <2>6. QED BY <2>1, <2>3, <2>4, <2>5
<1>10. WholeWith(w, t)
  BY <1>8, <1>9 DEF WholeWith
<1>11. QED BY <1>10 DEF w, t

\* An item at the end that goes on where the last one before it ended.
LEMMA MoreComes ==
  ASSUME NEW v, NEW items \in Seq(ItemSet), NEW e \in ItemSet
  PROVE  /\ e.type = "seed" => WholeWith(v, Append(items, e))
         /\ e.type = "end" /\ WholeWith(v, items) => WholeWith(v, Append(items, e))
         /\ /\ e.type = "output" /\ WholeWith(v, items)
            /\ e.pane = Before(v, items, Len(items) + 1).pane
            /\ e.byte = Before(v, items, Len(items) + 1).byte + 1
            => WholeWith(v, Append(items, e))
         /\ Before(v, Append(items, e), Len(items) + 2) = [pane |-> e.pane, byte |-> e.byte]
<1> DEFINE t == Append(items, e)
           n == Len(items)
<1>1. /\ n \in Nat /\ Len(t) = n + 1 /\ DOMAIN items = 1..n /\ DOMAIN t = 1..n + 1
      /\ (\A i \in 1..n : t[i] = items[i]) /\ t[n + 1] = e
  BY Appended
<1> HIDE DEF t, n
<1>2. \A i : Repainted(items, i) => Repainted(t, i)
  BY <1>1 DEF Repainted
<1>3. \A i \in DOMAIN items : Before(v, t, i) = Before(v, items, i)
  <2> SUFFICES ASSUME NEW i \in DOMAIN items PROVE Before(v, t, i) = Before(v, items, i)
    OBVIOUS
  <2>1. i # 1 => i - 1 \in 1..n
    BY <1>1
  <2>2. QED BY <1>1, <2>1 DEF Before
<1>4. Before(v, t, n + 1) = Before(v, items, n + 1)
  <2>1. n + 1 # 1 => (n + 1) - 1 \in 1..n
    BY <1>1
  <2>2. QED BY <1>1, <2>1 DEF Before
<1>5. Before(v, t, n + 2) = [pane |-> e.pane, byte |-> e.byte]
  <2>1. n + 2 # 1 /\ (n + 2) - 1 = n + 1
    BY <1>1
  <2>2. QED BY <1>1, <2>1 DEF Before
<1>6. ASSUME e.type = "seed" PROVE WholeWith(v, t)
  <2>1. \A i \in 0..n : Repainted(t, i)
    BY <1>1, <1>6 DEF Repainted
  <2>2. 0 \in 0..n
    BY <1>1
  <2>3. \A i \in DOMAIN t : t[i].type = "output" => Repainted(t, i)
    BY <1>1, <1>6, <2>1
  <2>4. QED BY <2>1, <2>2, <2>3 DEF WholeWith
<1>7. ASSUME WholeWith(v, items),
             \/ e.type = "end"
             \/ e.type = "output" /\ e.pane = Before(v, items, n + 1).pane
                                  /\ e.byte = Before(v, items, n + 1).byte + 1
      PROVE  WholeWith(v, t)
  <2>1. v.whole \/ Repainted(t, 0)
    BY <1>2, <1>7 DEF WholeWith
  <2>2. ASSUME NEW i \in DOMAIN t, t[i].type = "output", ~Repainted(t, i)
        PROVE  t[i].pane = Before(v, t, i).pane /\ t[i].byte = Before(v, t, i).byte + 1
    <3>1. CASE i \in DOMAIN items
      BY <1>1, <1>2, <1>3, <1>7, <2>2, <3>1 DEF WholeWith
    <3>2. CASE i = n + 1
      BY <1>1, <1>4, <1>7, <2>2, <3>2
    <3>3. QED BY <1>1, <3>1, <3>2
  <2>3. QED BY <2>1, <2>2 DEF WholeWith
<1>8. QED BY <1>5, <1>6, <1>7 DEF t, n

\* Where the terminal will stand is where the last item that comes leaves it.
LEMMA ShownLast ==
  ASSUME NEW v, NEW items \in Seq(ItemSet), items # <<>>
  PROVE  Before(Painted(v, items[1]), Tail(items), Len(Tail(items)) + 1)
           = Before(v, items, Len(items) + 1)
<1> DEFINE t == Tail(items)
           n == Len(t)
           w == Painted(v, items[1])
<1>1. /\ n \in Nat /\ Len(items) = n + 1 /\ \A i \in 1..n : t[i] = items[i + 1]
  BY Popped
<1>2. w.pane = items[1].pane /\ w.last = items[1].byte
  BY DEF Painted
<1> HIDE DEF t, n, w
<1>3. (n + 1) + 1 # 1 /\ ((n + 1) + 1) - 1 = n + 1
  BY <1>1
<1>4. Before(w, t, n + 1) = Before(v, items, (n + 1) + 1)
  <2>1. CASE n = 0
    BY <1>1, <1>2, <1>3, <2>1 DEF Before
  <2>2. CASE n # 0
    <3>1. n + 1 # 1 /\ (n + 1) - 1 = n /\ n \in 1..n
      BY <1>1, <2>2
    <3>2. QED BY <1>1, <1>3, <3>1 DEF Before
  <2>3. QED BY <2>1, <2>2
<1>5. Before(w, t, n + 1) = Before(v, items, Len(items) + 1)
  BY <1>1, <1>4
<1>6. QED BY <1>5 DEF w, t, n

\* What the reader does with a line: take nothing, take an item, seed or reseed.
LEMMA FeedCases ==
  ASSUME TypeOK, HandlersAligned, FeedLine
  PROVE  LET l == Head(pipe) IN
    \/ /\ l.type = "output" /\ phase = "live" /\ l.pane = paneId
       /\ l \in ItemSet /\ pending' = Append(pending, l) /\ UNCHANGED <<phase, paneId, torn>>
    \/ /\ l.type = "seed" /\ phase = "closed" /\ UNCHANGED <<phase, pending>>
    \/ /\ l.type = "seed" /\ phase # "closed" /\ paneId' = l.pane /\ torn' = FALSE
       /\ l \in ItemSet /\ pending' = Append(pending, l) /\ phase' \in {"live", "seeding"}
    \/ /\ l.type \in Replies \ {"seed"} /\ torn' = TRUE /\ phase' \in {phase, "live", "seeding"}
       /\ (phase = "closed" => phase' = "closed")
       /\ UNCHANGED <<pending, paneId>>
    \/ /\ l.type # "seed" /\ UNCHANGED <<pending, paneId, torn>>
       /\ \/ phase' = phase /\ (phase = "live"
            => l.type \notin {"output", "pause"} \/ l.pane # paneId)
          \/ phase # "closed" /\ phase' = "seeding"
          \/ l.type = "exit" /\ phase' = "closed"
<1> DEFINE l == Head(pipe)
<1>1. pipe # <<>> /\ pipe \in Seq(LineSet) /\ l \in LineSet /\ pending \in Seq(ItemSet)
  BY DEF FeedLine, TypeOK
<1>2. l.type \in {"seed", "output"} => l \in ItemSet
  BY <1>1 DEF LineSet, ItemSet
<1>3. pending \o <<>> = pending
  BY <1>1
<1>4. l \in ItemSet => pending \o <<l>> = Append(pending, l)
  BY <1>1, JoinedAppend
<1>5. CASE l.type = "output"
  BY <1>2, <1>5 DEF FeedLine, OutputLine
<1>6. CASE l.type = "pause"
  <2>1. PauseLine(l)
    BY <1>6 DEF FeedLine
  <2>2. QED BY <1>6, <2>1 DEF PauseLine, Reseed
<1>7. CASE l.type = "exit"
  BY <1>7 DEF FeedLine, ExitLine
<1>8. CASE l.type \notin {"output", "pause", "exit"}
  <2>1. BlockLine(l)
    BY <1>8 DEF FeedLine
  <2>2. CASE l.type \notin Replies
    <3>1. UNCHANGED <<pending, paneId, torn, phase>>
      BY <2>1, <2>2 DEF BlockLine
    <3>2. QED BY <1>8, <2>2, <3>1 DEF Replies
  <2>3. CASE l.type \in Replies
    <3>1. handlers # <<>> /\ Head(handlers) = HandlerFor(l)
      <4>1. handlers \in Handlers /\ cmds \in Seq(CmdSet) /\ Aligned(handlers, pipe, cmds)
        BY DEF TypeOK, Handlers, HandlersAligned
      <4>2. QED BY <1>1, <2>3, <4>1, ReplyRead DEF IsReply
    <3>2. CASE l.type = "seed"
      <4>1. SeedReply(l)
        BY <2>1, <2>3, <3>1, <3>2 DEF BlockLine, HandlerFor
      <4>2. paneId' = l.pane /\ torn' = FALSE /\ GoLive(<<l>>, l.pane)
        BY <3>2, <4>1 DEF SeedReply
      <4>3. CASE phase = "closed"
        BY <3>2, <4>2, <4>3 DEF GoLive
      <4>4. CASE phase # "closed"
        <5>1. pending' = Append(pending, l) /\ phase' \in {"live", "seeding"}
          BY <1>2, <1>4, <3>2, <4>2, <4>4 DEF GoLive
        <5>2. QED BY <1>2, <3>2, <4>2, <4>4, <5>1
      <4>5. QED BY <4>3, <4>4
    <3>3. CASE l.type # "seed" /\ SeedReply(l)
      <4>1. paneId' = paneId /\ torn' = TRUE /\ GoLive(<<>>, paneId)
        BY <3>3 DEF SeedReply
      <4>2. QED BY <1>3, <2>3, <3>3, <4>1 DEF GoLive
    <3>4. CASE l.type # "seed" /\ ~SeedReply(l)
      <4>1. UNCHANGED <<phase, paneId, pending, torn>>
        BY <2>1, <2>3, <3>1, <3>4 DEF BlockLine
      <4>2. QED BY <1>8, <3>4, <4>1
    <3>5. QED BY <3>2, <3>3, <3>4
  <2>4. QED BY <2>2, <2>3
<1>9. QED BY <1>5, <1>6, <1>7, <1>8

\* Only lines of output, pauses and seeds are of a pane.
Named(s) == \A i \in DOMAIN s : s[i].pane \in Panes
     <=> s[i].type \in {"output", "pause", "seed"}

\* %exit is the last thing tmux says.
ExitLast(s) == \A i \in DOMAIN s : s[i].type = "exit" => i = Len(s) /\ ~alive

\* How a stream ends: nothing follows %exit, the queue's end or a closed view.
EndInv ==
  /\ ExitLast(pipe)
  /\ phase = "closed" => ~alive /\ (pipe = <<>> \/ reader = "done")
  /\ reader \in {"ending", "done"} => phase = "closed"
  /\ reader \in {"read", "ending"} => pending = <<>>
  /\ \A i \in DOMAIN pending : pending[i].type # "end"
  /\ \A i \in DOMAIN queue : queue[i].type = "end" =>
       i = Len(queue) /\ reader = "done" /\ pending = <<>>

\* While tmux runs it has not said %exit.
LEMMA LastSaid ==
  ASSUME NEW s \in Seq(LineSet), NEW l \in LineSet, alive, ExitLast(s), l.type # "exit"
  PROVE  \A i \in DOMAIN Append(s, l) : Append(s, l)[i].type # "exit"
<1> DEFINE t == Append(s, l)
<1>1. /\ DOMAIN s = 1..Len(s) /\ DOMAIN t = 1..Len(s) + 1 /\ Len(s) \in Nat
      /\ (\A i \in 1..Len(s) : t[i] = s[i]) /\ t[Len(s) + 1] = l
  BY Appended
<1> HIDE DEF t
<1>2. \A i \in DOMAIN s : s[i].type # "exit"
  BY DEF ExitLast
<1>3. \A i \in DOMAIN t : t[i].type # "exit"
  BY <1>1, <1>2
<1>4. QED BY <1>3 DEF t

\* Every step keeps the end of the stream the end.
LEMMA EndStep == TypeOK /\ HandlersAligned /\ EndInv /\ [Next]_vars => EndInv'
<1> SUFFICES ASSUME TypeOK, HandlersAligned, EndInv, [Next]_vars PROVE EndInv'
  OBVIOUS
<1>1. pipe \in Seq(LineSet) /\ pending \in Seq(ItemSet) /\ queue \in Seq(ItemSet)
  BY DEF TypeOK
<1>2. CASE UNCHANGED <<alive, phase, pipe, reader, queue, pending>>
  BY <1>2 DEF EndInv, ExitLast
<1>3. ASSUME UNCHANGED <<alive, phase, reader, queue, pending>>, alive,
             NEW l \in LineSet, l.type # "exit", pipe' = Append(pipe, l)
      PROVE  EndInv'
  <2>1. ExitLast(pipe)'
    BY <1>1, <1>3, LastSaid DEF EndInv, ExitLast
  <2>2. QED BY <1>3, <2>1 DEF EndInv
<1>4. ASSUME NEW p \in Panes, ProgramWrites(p) PROVE EndInv'
  <2>1. written'[p] \in Nat
    BY <1>4 DEF ProgramWrites, TypeOK
  <2>2. Output(p, written'[p]) \in LineSet /\ Output(p, written'[p]).type # "exit"
    BY <2>1, LineTyped DEF Output
  <2>3. QED BY <1>2, <1>3, <1>4, <2>2 DEF ProgramWrites, client, browser
<1>5. ASSUME NEW p \in Panes, PauseAfter(p) PROVE EndInv'
  <2>1. PICK k \in 0..Len(pipe) :
          pipe' = Append([i \in 1..Len(pipe) |->
                           IF i > k /\ IsOutputOf(p, pipe[i]) THEN Line("lost")
                                                             ELSE pipe[i]],
                         Pause(p))
    BY <1>5 DEF PauseAfter
  <2> DEFINE left == [i \in 1..Len(pipe) |->
                       IF i > k /\ IsOutputOf(p, pipe[i]) THEN Line("lost") ELSE pipe[i]]
  <2>2. /\ Line("lost") \in LineSet /\ Line("lost").type # "exit"
        /\ Pause(p) \in LineSet /\ Pause(p).type # "exit"
    BY LineTyped DEF LineTypes, Line, Pause
  <2>3. left \in Seq(LineSet) /\ Len(left) = Len(pipe)
    BY <1>1, <2>2
  <2>4. alive /\ UNCHANGED <<alive, phase, reader, queue, pending>>
    BY <1>5 DEF PauseAfter, client, browser
  <2>5. ExitLast(left)
    <3>1. \A i \in 1..Len(pipe) : left[i] = pipe[i] \/ left[i].type # "exit"
      BY <2>2
    <3>2. DOMAIN left = DOMAIN pipe /\ DOMAIN pipe = 1..Len(pipe)
      BY <1>1
    <3> HIDE DEF left
    <3>3. QED BY <2>4, <3>1, <3>2 DEF EndInv, ExitLast
  <2> HIDE DEF left
  <2>6. \A i \in DOMAIN Append(left, Pause(p)) : Append(left, Pause(p))[i].type # "exit"
    BY <2>2, <2>3, <2>4, <2>5, LastSaid
  <2>7. ExitLast(pipe)'
    BY <2>1, <2>6 DEF ExitLast, left
  <2>8. QED BY <2>4, <2>7 DEF EndInv
<1>6. ASSUME NEW p \in Panes, SelectPane(p) PROVE EndInv'
  BY <1>2, <1>6 DEF SelectPane, client, browser
<1>7. CASE RunCommand
  <2>1. /\ Seed(active, written[active], size) \in LineSet
        /\ Line("done") \in LineSet /\ Line("unreadable") \in LineSet
    <3>1. active \in Panes /\ written[active] \in Nat /\ size \in Nat
      BY DEF TypeOK
    <3>2. QED BY <3>1, LineTyped DEF LineTypes, Replies
  <2>2. \E l \in LineSet : pipe' = Append(pipe, l) /\ l.type # "exit"
    BY <1>7, <2>1 DEF RunCommand, Seed, Line
  <2>3. QED BY <1>3, <1>7, <2>2 DEF RunCommand, client, browser
<1>8. CASE ServerExits
  <2>0. /\ alive /\ ~alive' /\ UNCHANGED <<phase, reader, queue, pending>>
        /\ (pipe' = pipe \/ pipe' = Append(pipe, Line("exit")))
    BY <1>8 DEF ServerExits, client, browser
  <2>1. Line("exit") \in LineSet
    BY LineTyped DEF LineTypes
  <2>2. \A i \in DOMAIN pipe : pipe[i].type # "exit"
    BY <2>0 DEF EndInv, ExitLast
  <2>3. ExitLast(pipe)'
    <3>1. CASE pipe' = pipe
      BY <2>2, <3>1 DEF ExitLast
    <3>2. CASE pipe' = Append(pipe, Line("exit"))
      <4>1. /\ Len(pipe') = Len(pipe) + 1 /\ DOMAIN pipe = 1..Len(pipe) /\ Len(pipe) \in Nat
            /\ DOMAIN pipe' = 1..Len(pipe) + 1 /\ \A i \in 1..Len(pipe) : pipe'[i] = pipe[i]
        BY <1>1, <2>1, <3>2, Appended
      <4>2. QED BY <2>0, <2>2, <4>1 DEF ExitLast
    <3>3. QED BY <2>0, <3>1, <3>2
  <2>4. phase # "closed"
    BY <2>0 DEF EndInv
  <2>5. QED BY <2>0, <2>3, <2>4 DEF EndInv
<1>9. CASE FeedLine
  <2> DEFINE l == Head(pipe)
  <2>0. /\ pipe # <<>> /\ pipe' = Tail(pipe) /\ reader \in {"read", "feed"}
        /\ reader' \in {"feed", "put"} /\ UNCHANGED <<alive, queue>>
    BY <1>9 DEF FeedLine, server, browser
  <2>1. phase # "closed"
    BY <2>0 DEF EndInv
  <2>2. /\ Len(pipe') \in Nat /\ Len(pipe) = Len(pipe') + 1
        /\ DOMAIN pipe' = 1..Len(pipe') /\ DOMAIN pipe = 1..Len(pipe') + 1
        /\ l = pipe[1] /\ \A i \in 1..Len(pipe') : pipe'[i] = pipe[i + 1]
    BY <1>1, <2>0, Popped
  <2>3. ExitLast(pipe)'
    <3> SUFFICES ASSUME NEW i \in DOMAIN pipe', pipe'[i].type = "exit"
                 PROVE  i = Len(pipe') /\ ~alive
      BY <2>0 DEF ExitLast
    <3>1. i + 1 \in DOMAIN pipe /\ pipe[i + 1].type = "exit"
      BY <2>2
    <3>2. i + 1 = Len(pipe) /\ ~alive
      BY <3>1 DEF EndInv, ExitLast
    <3>3. QED BY <2>2, <3>2
  <2>4. l.type = "exit" => pipe' = <<>> /\ ~alive
    <3> SUFFICES ASSUME l.type = "exit" PROVE pipe' = <<>> /\ ~alive
      OBVIOUS
    <3>1. 1 \in DOMAIN pipe /\ pipe[1].type = "exit"
      BY <2>2
    <3>2. 1 = Len(pipe) /\ ~alive
      BY <3>1 DEF EndInv, ExitLast
    <3>3. QED BY <1>1, <2>0, <2>2, <3>2
  <2>5. \/ l \in ItemSet /\ l.type \in {"output", "seed"} /\ pending' = Append(pending, l)
        \/ pending' = pending
    BY <1>9, FeedCases
  <2>6. \A i \in DOMAIN pending' : pending'[i].type # "end"
    <3>1. CASE pending' = pending
      BY <3>1 DEF EndInv
    <3>2. CASE pending' = Append(pending, l) /\ l \in ItemSet /\ l.type \in {"output", "seed"}
      <4> HIDE DEF l
      <4>1. /\ DOMAIN pending = 1..Len(pending) /\ Len(pending) \in Nat
            /\ DOMAIN pending' = 1..Len(pending) + 1
            /\ (\A i \in 1..Len(pending) : pending'[i] = pending[i])
            /\ pending'[Len(pending) + 1] = l
        BY <1>1, <3>2, Appended
      <4>2. l.type # "end"
        BY <3>2
      <4>3. \A i \in 1..Len(pending) : pending[i].type # "end"
        BY <4>1 DEF EndInv
      <4>4. QED BY <4>1, <4>2, <4>3
    <3>3. QED BY <2>5, <3>1, <3>2
  <2>7. phase' = "closed" => l.type = "exit"
    BY <1>9, <2>1, FeedCases
  <2>8. \A i \in DOMAIN queue : queue[i].type # "end"
    BY <2>0 DEF EndInv
  <2>9. QED BY <2>0, <2>3, <2>4, <2>6, <2>7, <2>8 DEF EndInv
<1>10. CASE PutPending
  <2>1. /\ pending # <<>> /\ pending' = Tail(pending) /\ queue' = Append(queue, Head(pending))
        /\ UNCHANGED <<alive, phase, pipe, reader>> /\ reader = "put"
    BY <1>10 DEF PutPending, server
  <2>2. /\ DOMAIN pending' = 1..Len(pending') /\ DOMAIN pending = 1..Len(pending') + 1
        /\ Head(pending) = pending[1] /\ pending[1] \in ItemSet /\ Len(pending') \in Nat
        /\ \A i \in 1..Len(pending') : pending'[i] = pending[i + 1]
    BY <1>1, <2>1, Popped
  <2>3. /\ DOMAIN queue = 1..Len(queue) /\ DOMAIN queue' = 1..Len(queue) + 1
        /\ (\A i \in 1..Len(queue) : queue'[i] = queue[i])
        /\ queue'[Len(queue) + 1] = pending[1] /\ Len(queue) \in Nat
    BY <1>1, <2>1, <2>2, Appended
  <2>4. \A i \in DOMAIN queue : queue[i].type # "end"
    BY <2>1 DEF EndInv
  <2>5. 1 \in DOMAIN pending /\ pending[1].type # "end"
    BY <2>2 DEF EndInv
  <2>6. \A i \in DOMAIN queue' : queue'[i].type # "end"
    BY <2>3, <2>4, <2>5
  <2>7. \A i \in DOMAIN pending' : pending'[i].type # "end"
    <3>1. \A i \in DOMAIN pending' : i + 1 \in DOMAIN pending
      BY <2>2
    <3>2. QED BY <2>2, <3>1 DEF EndInv
  <2>8. QED BY <2>1, <2>6, <2>7 DEF EndInv, ExitLast
<1>11. CASE ChunkDone
  BY <1>11 DEF ChunkDone, EndInv, ExitLast, server, client, browser
<1>12. CASE EndOfFile
  BY <1>12 DEF EndOfFile, EndInv, ExitLast, server, browser
<1>13. CASE PutEnd
  <2>1. /\ reader = "ending" /\ reader' = "done" /\ queue' = Append(queue, End)
        /\ UNCHANGED <<alive, phase, pipe, pending>>
    BY <1>13 DEF PutEnd, server, client
  <2>2. End \in ItemSet
    BY DEF End, ItemSet
  <2>3. /\ DOMAIN queue = 1..Len(queue) /\ DOMAIN queue' = 1..Len(queue) + 1
        /\ (\A i \in 1..Len(queue) : queue'[i] = queue[i]) /\ Len(queue) \in Nat
        /\ Len(queue') = Len(queue) + 1
    BY <1>1, <2>1, <2>2, Appended
  <2>4. \A i \in DOMAIN queue : queue[i].type # "end"
    BY <2>1 DEF EndInv
  <2>5. \A i \in DOMAIN queue' : queue'[i].type = "end" => i = Len(queue')
    BY <2>3, <2>4
  <2>6. QED BY <2>1, <2>5 DEF EndInv, ExitLast
<1>14. ASSUME NEW sized \in BOOLEAN, Start(sized) PROVE EndInv'
  BY <1>14 DEF Start, EndInv, ExitLast, server, browser
<1>15. CASE Resize \/ WriteInput \/ PasteLoad \/ PasteSend
  BY <1>2, <1>15 DEF Resize, WriteInput, PasteLoad, PasteSend, server, client, browser
<1>16. CASE ResizeSettled \/ Refresh
  <2>1. /\ UNCHANGED <<alive, pipe, reader, queue, pending>>
        /\ phase' = phase \/ (phase \in {"starting", "live"} /\ phase' = "seeding")
    BY <1>16 DEF ResizeSettled, Refresh, Reseed, server, browser
  <2>2. QED BY <1>2, <2>1 DEF EndInv, ExitLast
<1>17. CASE Deliver
  <2>1. /\ queue # <<>> /\ queue' = Tail(queue)
        /\ UNCHANGED <<alive, phase, pipe, reader, pending>>
    BY <1>17 DEF Deliver, server, client
  <2>2. /\ DOMAIN queue' = 1..Len(queue') /\ DOMAIN queue = 1..Len(queue') + 1
        /\ Len(queue) = Len(queue') + 1 /\ Len(queue') \in Nat
        /\ \A i \in 1..Len(queue') : queue'[i] = queue[i + 1]
    BY <1>1, <2>1, Popped
  <2>3. \A i \in DOMAIN queue' : queue'[i].type = "end" =>
            i = Len(queue') /\ reader = "done" /\ pending = <<>>
    <3> SUFFICES ASSUME NEW i \in DOMAIN queue', queue'[i].type = "end"
                 PROVE  i = Len(queue') /\ reader = "done" /\ pending = <<>>
      OBVIOUS
    <3>1. i + 1 \in DOMAIN queue /\ queue[i + 1].type = "end"
      BY <2>2
    <3>2. i + 1 = Len(queue) /\ reader = "done" /\ pending = <<>>
      BY <3>1 DEF EndInv
    <3>3. QED BY <2>2, <3>2
  <2>4. QED BY <2>1, <2>3 DEF EndInv, ExitLast
<1>18. CASE Close
  BY <1>18 DEF Close, EndInv, ExitLast
<1>19. CASE StdinBreaks
  BY <1>2, <1>19 DEF StdinBreaks, client, browser
<1>20. CASE UNCHANGED vars
  BY <1>2, <1>20 DEF vars, server, client, browser
<1>21. QED
  BY <1>4, <1>5, <1>6, <1>7, <1>8, <1>9, <1>10, <1>11, <1>12, <1>13, <1>14, <1>15, <1>16,
     <1>17, <1>18, <1>19, <1>20 DEF Next, Reader

\* What the lines of pane p in the pipe say, if its program wrote w[p] bytes so far
\* and the panes pa are paused.
PaneInv(s, p, w, pa) ==
  /\ Continues(s, p)
  /\ p \in pa => PauseSaid(s, p)
  /\ p \notin pa => EndsAt(s, p, w[p])

\* ... and go on behind a terminal that shows byte n, up to the last one written.
JoinsAt(s, p, n, w, pa) == Joins(s, p, n) /\ (Silent(s, p) /\ p \notin pa => n = w[p])

\* A view that is live awaits no reply that would be a seed.
LEMMA NoSeedOnTheWay ==
  ASSUME TypeOK, HandlersAligned, SeedingHasOneReply, phase # "closed",
         cmds # <<>>, Head(cmds).type = "reseed"
  PROVE  phase = "seeding" /\ \A i \in DOMAIN pipe : pipe[i].type # "seed"
<1> DEFINE r == RepliesIn(pipe, Len(pipe))
<1>1. pipe \in Seq(LineSet) /\ handlers \in Handlers /\ cmds \in Seq(CmdSet)
  BY DEF TypeOK, Handlers
<1>2. Len(pipe) \in Nat /\ DOMAIN pipe = 1..Len(pipe) /\ r \in Nat
  BY <1>1, ReplFinite
<1>3. Len(cmds) \in Nat /\ Len(cmds) >= 1 /\ 1 \in DOMAIN cmds /\ Head(cmds) = cmds[1]
  BY <1>1
<1> HIDE DEF r
<1>4. Len(handlers) = r + Len(cmds) /\ DOMAIN handlers = 1..Len(handlers)
  BY <1>1 DEF HandlersAligned, Aligned, r, Handlers
<1>5. handlers[r + 1] = "seed" /\ r + 1 \in DOMAIN handlers
  BY <1>2, <1>3, <1>4 DEF HandlersAligned, Aligned, r, OwedFor
<1>6. phase = "seeding"
  BY <1>5 DEF SeedingHasOneReply
<1>7. ASSUME NEW i \in DOMAIN pipe, pipe[i].type = "seed" PROVE FALSE
  <2>1. IsReply(pipe[i])
    BY <1>7 DEF IsReply, Replies
  <2>2. RepliesIn(pipe, i) \in 1..r
    BY <1>2, <2>1, RepliesUpTo DEF r
  <2>3. handlers[RepliesIn(pipe, i)] = "seed"
    BY <1>7, <2>1 DEF HandlersAligned, Aligned, HandlerFor
  <2>4. RepliesIn(pipe, i) \in DOMAIN handlers /\ RepliesIn(pipe, i) # r + 1
    BY <1>2, <1>3, <1>4, <2>2
  <2>5. QED BY <1>5, <2>3, <2>4 DEF SeedingHasOneReply
<1>8. QED BY <1>6, <1>7

\* A line of another pane, or of none.
LEMMA OtherPanes ==
  ASSUME NEW s \in Seq(LineSet), NEW l \in LineSet, NEW q, l.pane # q, NEW w, NEW pa
  PROVE  /\ PaneInv(s, q, w, pa) => PaneInv(Append(s, l), q, w, pa)
         /\ \A n : JoinsAt(s, q, n, w, pa) => JoinsAt(Append(s, l), q, n, w, pa)
<1> DEFINE t == Append(s, l)
<1>1. /\ t \in Seq(LineSet) /\ Len(t) = Len(s) + 1
      /\ (\A i \in 1..Len(s) : t[i] = s[i]) /\ t[Len(s) + 1] = l
  BY Appended
<1> HIDE DEF t
<1>2. /\ Continues(s, q) => Continues(t, q)
      /\ \A n : EndsAt(s, q, n) => EndsAt(t, q, n)
      /\ PauseSaid(s, q) => PauseSaid(t, q)
      /\ \A n : Joins(s, q, n) => Joins(t, q, n)
      /\ Silent(t, q) => Silent(s, q)
  BY <1>1, OthersSaid
<1>3. PaneInv(s, q, w, pa) => PaneInv(t, q, w, pa)
  BY <1>2 DEF PaneInv
<1>4. \A n : JoinsAt(s, q, n, w, pa) => JoinsAt(t, q, n, w, pa)
  BY <1>2 DEF JoinsAt
<1>5. QED BY <1>3, <1>4 DEF t

\* A program writes one more byte, which goes to the pipe unless its pane is paused.
LEMMA WriteKeeps ==
  ASSUME TypeOK, NEW p \in Panes, ProgramWrites(p), NEW q \in Panes,
         PaneInv(pipe, q, written, paused)
  PROVE  /\ PaneInv(pipe', q, written', paused')
         /\ \A n : JoinsAt(pipe, q, n, written, paused)
              => JoinsAt(pipe', q, n, written', paused')
<1> DEFINE l == Output(p, written'[p])
<1>1. /\ pipe \in Seq(LineSet) /\ written'[p] = written[p] + 1 /\ written[p] \in Nat
      /\ paused' = paused /\ (q # p => written'[q] = written[q])
  BY DEF ProgramWrites, TypeOK
<1>2. l \in LineSet /\ l.pane = p /\ l.type = "output" /\ l.byte = written[p] + 1
  BY <1>1, LineTyped DEF Output
<1>3. pipe' = IF p \in paused THEN pipe ELSE Append(pipe, l)
  BY DEF ProgramWrites
<1> HIDE DEF l
<1>4. CASE p \in paused
  BY <1>1, <1>3, <1>4 DEF PaneInv, JoinsAt
<1>5. CASE p \notin paused /\ q # p
  <2>1. PaneInv(pipe', q, written, paused)
    BY <1>1, <1>2, <1>3, <1>5, OtherPanes
  <2>2. \A n : JoinsAt(pipe, q, n, written, paused) => JoinsAt(pipe', q, n, written, paused)
    BY <1>1, <1>2, <1>3, <1>5, OtherPanes
  <2>3. QED BY <1>1, <1>5, <2>1, <2>2 DEF PaneInv, JoinsAt
<1>6. CASE p \notin paused /\ q = p
  <2>1. EndsAt(pipe, p, written[p]) /\ Continues(pipe, p)
    BY <1>6 DEF PaneInv
  <2>2. EndsAt(pipe', p, written'[p]) /\ ~Silent(pipe', p) /\ Continues(pipe', p)
    BY <1>1, <1>2, <1>3, <1>6, <2>1, PaneSaid
  <2>3. \A n : Joins(pipe, p, n) /\ (Silent(pipe, p) => n = written[p]) => Joins(pipe', p, n)
    BY <1>1, <1>2, <1>3, <1>6, <2>1, PaneSaid
  <2>4. QED BY <1>1, <1>6, <2>2, <2>3 DEF PaneInv, JoinsAt
<1>7. QED BY <1>4, <1>5, <1>6

\* tmux pauses the pane.
LEMMA PauseKeeps ==
  ASSUME TypeOK, NEW p \in Panes, PauseAfter(p), NEW q \in Panes,
         PaneInv(pipe, q, written, paused)
  PROVE  /\ PaneInv(pipe', q, written', paused')
         /\ \A n : JoinsAt(pipe, q, n, written, paused)
              => JoinsAt(pipe', q, n, written', paused')
<1>0. pipe \in Seq(LineSet) /\ written' = written /\ paused' = paused \cup {p} /\ p # NoPane
  BY NoPaneAssumption DEF PauseAfter, TypeOK
<1>1. PICK k \in 0..Len(pipe) :
        pipe' = Append([i \in 1..Len(pipe) |->
                         IF i > k /\ IsOutputOf(p, pipe[i]) THEN Line("lost")
                                                           ELSE pipe[i]],
                       Pause(p))
  BY DEF PauseAfter
<1> DEFINE left == [i \in 1..Len(pipe) |->
                     IF i > k /\ IsOutputOf(p, pipe[i]) THEN Line("lost") ELSE pipe[i]]
<1>2. /\ Line("lost") \in LineSet /\ Line("lost").pane = NoPane
      /\ Pause(p) \in LineSet /\ Pause(p).pane = p
  BY LineTyped DEF LineTypes, Line, Pause
<1>3. /\ left \in Seq(LineSet) /\ Len(left) = Len(pipe)
      /\ \A i \in 1..Len(pipe) : left[i] = IF i > k
           /\ IsOutputOf(p, pipe[i]) THEN Line("lost") ELSE pipe[i]
  BY <1>0, <1>2
<1> HIDE DEF left
<1>4. /\ pipe' \in Seq(LineSet) /\ Len(pipe') = Len(pipe) + 1
      /\ pipe'[Len(pipe) + 1] = Pause(p) /\ k \in Int
      /\ \A i \in 1..Len(pipe) : pipe'[i] = left[i]
  <2>1. pipe' = Append(left, Pause(p))
    BY <1>1 DEF left
  <2>2. QED BY <1>2, <1>3, <2>1, Appended
<1>5. CASE q # p
  <2>0. q # NoPane
    BY NoPaneAssumption
  <2>1. \A i \in 1..Len(pipe) : pipe'[i] = pipe[i] \/ (pipe'[i].pane # q /\ pipe[i].pane # q)
    BY <1>2, <1>3, <1>4, <1>5, <2>0 DEF IsOutputOf
  <2>2. /\ Continues(pipe, q) => Continues(pipe', q)
        /\ \A n : EndsAt(pipe, q, n) => EndsAt(pipe', q, n)
        /\ PauseSaid(pipe, q) => PauseSaid(pipe', q)
        /\ \A n : Joins(pipe, q, n) => Joins(pipe', q, n)
        /\ Silent(pipe', q) => Silent(pipe, q)
    BY <1>0, <1>2, <1>4, <1>5, <2>1, OthersSaid
  <2>3. QED BY <1>0, <1>5, <2>2 DEF PaneInv, JoinsAt
<1>6. CASE q = p
  <2>1. \A i \in 1..Len(pipe) :
          pipe'[i] = IF i > k /\ IsOutputOf(p, pipe[i]) THEN Line("lost") ELSE pipe[i]
    BY <1>3, <1>4
  <2>2. /\ Continues(pipe, p) => Continues(pipe', p)
        /\ PauseSaid(pipe', p)
        /\ \A n : Joins(pipe, p, n) => Joins(pipe', p, n)
        /\ ~Silent(pipe', p)
    BY <1>0, <1>4, <2>1, PausedThere
  <2>3. QED BY <1>0, <1>6, <2>2 DEF PaneInv, JoinsAt
<1>7. QED BY <1>5, <1>6

\* tmux reads the pane at the byte its program is at, which may resume it.
LEMMA RunKeeps ==
  ASSUME TypeOK, HandlersAligned, SeedingHasOneReply, phase # "closed", Named(pipe), RunCommand,
         NEW q \in Panes, PaneInv(pipe, q, written, paused)
  PROVE  /\ PaneInv(pipe', q, written', paused')
         /\ phase = "live" =>
              \A n : JoinsAt(pipe, q, n, written, paused)
                   => JoinsAt(pipe', q, n, written', paused')
<1>1. pipe \in Seq(LineSet) /\ written' = written /\ cmds # <<>> /\ q # NoPane
  BY NoPaneAssumption DEF RunCommand, TypeOK
<1>2. /\ Seed(active, written[active], size) \in LineSet
      /\ Line("done") \in LineSet /\ Line("unreadable") \in LineSet
  <2>1. active \in Panes /\ written[active] \in Nat /\ size \in Nat
    BY DEF TypeOK
  <2>2. QED BY <2>1, LineTyped DEF LineTypes, Replies
<1>3. CASE Head(cmds).type # "reseed"
  <2>1. pipe' = Append(pipe, Line("done")) /\ paused' = paused
    BY <1>3 DEF RunCommand
  <2>2. Line("done").pane # q
    BY <1>1 DEF Line
  <2>3. QED BY <1>1, <1>2, <2>1, <2>2, OtherPanes
<1>4. CASE Head(cmds).type = "reseed"
  <2>1. phase = "seeding" /\ \A i \in DOMAIN pipe : pipe[i].type # "seed"
    BY <1>1, <1>4, NoSeedOnTheWay
  <2>2. paused' = paused \ {Head(cmds).pane}
    BY <1>4 DEF RunCommand
  <2>3. PaneInv(pipe, q, written, paused')
    <3>1. CASE q \in paused /\ q \notin paused'
      <4>1. \A i \in DOMAIN pipe : pipe[i].pane = q => pipe[i].type \in {"output", "pause"}
        BY <2>1 DEF Named
      <4>2. PauseSaid(pipe, q) /\ Continues(pipe, q)
        BY <3>1 DEF PaneInv
      <4>3. EndsAt(pipe, q, written[q])
        BY <1>1, <4>1, <4>2, PausedEnds
      <4>4. QED BY <3>1, <4>2, <4>3 DEF PaneInv
    <3>2. QED BY <2>2, <3>1 DEF PaneInv
  <2>4. CASE pipe' = Append(pipe, Line("unreadable"))
    <3>1. Line("unreadable").pane # q
      BY <1>1 DEF Line
    <3>2. QED BY <1>1, <1>2, <2>1, <2>3, <2>4, <3>1, OtherPanes
  <2>5. CASE pipe' = Append(pipe, Seed(active, written[active], size))
    <3> DEFINE l == Seed(active, written[active], size)
    <3>1. l \in LineSet /\ l.pane = active /\ l.type = "seed" /\ l.byte = written[active]
      BY <1>2 DEF Seed
    <3>2. pipe' = Append(pipe, l)
      BY <2>5
    <3> HIDE DEF l
    <3>3. CASE q # active
      <4>1. PaneInv(pipe', q, written, paused')
        BY <1>1, <2>3, <3>1, <3>2, <3>3, OtherPanes
      <4>2. QED BY <1>1, <2>1, <4>1
    <3>4. CASE q = active
      <4>1. EndsAt(pipe', q, written[q])
        BY <1>1, <3>1, <3>2, <3>4, PaneSaid
      <4>2. Continues(pipe, q) => Continues(pipe', q)
        BY <1>1, <3>1, <3>2, <3>4, PaneSaid
      <4>3. PauseSaid(pipe, q) => PauseSaid(pipe', q)
        BY <1>1, <3>1, <3>2, <3>4, PaneSaid
      <4>4. QED BY <1>1, <2>1, <2>3, <4>1, <4>2, <4>3 DEF PaneInv
    <3>5. QED BY <3>3, <3>4
  <2>6. QED BY <1>4, <2>4, <2>5 DEF RunCommand
<1>5. QED BY <1>3, <1>4

\* What is in the pipe, of every pane.
PipeInv ==
  /\ Named(pipe)
  /\ phase # "closed" => \A p \in Panes : PaneInv(pipe, p, written, paused)

\* The item after which the browser's terminal stands still for now.
Last == Before(xterm, Coming, Len(Coming) + 1)

\* The pipe goes on where the items before it end, while the view is live.
JoinInv ==
  phase = "live" /\ ~torn =>
    /\ paneId \in Panes
    /\ Last.pane = paneId
    /\ JoinsAt(pipe, paneId, Last.byte, written, paused)

\* The invariant of the stream, from the programs' bytes to the browser's terminal.
StreamInv == EndInv /\ PipeInv /\ JoinInv /\ StreamIsWhole

\* A new line is of a pane or of none, as its kind has it.
LEMMA NamedAppend ==
  ASSUME NEW s \in Seq(LineSet), NEW l \in LineSet, Named(s),
         l.pane \in Panes <=> l.type \in {"output", "pause", "seed"}
  PROVE  Named(Append(s, l))
<1> DEFINE t == Append(s, l)
<1>1. /\ DOMAIN s = 1..Len(s) /\ DOMAIN t = 1..Len(s) + 1 /\ Len(s) \in Nat
      /\ (\A i \in 1..Len(s) : t[i] = s[i]) /\ t[Len(s) + 1] = l
  BY Appended
<1> HIDE DEF t
<1>2. Named(t)
  BY <1>1 DEF Named
<1>3. QED BY <1>2 DEF t

\* So are the lines tmux sends.
LEMMA LinesNamed ==
  /\ \A p \in Panes : \A n :
       Output(p, n).pane \in Panes <=> Output(p, n).type \in {"output", "pause", "seed"}
  /\ \A p \in Panes : \A n, s :
       Seed(p, n, s).pane \in Panes <=> Seed(p, n, s).type \in {"output", "pause", "seed"}
  /\ \A p \in Panes :
       Pause(p).pane \in Panes <=> Pause(p).type \in {"output", "pause", "seed"}
  /\ \A t \in {"lost", "done", "unreadable", "exit", "greeting"} :
       Line(t).pane \in Panes <=> Line(t).type \in {"output", "pause", "seed"}
BY NoPaneAssumption DEF Output, Seed, Pause, Line

\* tmux keeps the lines named.
LEMMA ServerNames ==
  ASSUME TypeOK, Named(pipe),
         (\E p \in Panes : ProgramWrites(p) \/ PauseAfter(p)) \/ RunCommand \/ ServerExits
  PROVE  Named(pipe')
<1>1. pipe \in Seq(LineSet)
  BY DEF TypeOK
<1>2. ASSUME NEW p \in Panes, ProgramWrites(p) PROVE Named(pipe')
  <2>1. written'[p] \in Nat
    BY <1>2 DEF ProgramWrites, TypeOK
  <2>2. Output(p, written'[p]) \in LineSet
    BY <2>1, LineTyped
  <2>3. QED BY <1>1, <1>2, <2>2, NamedAppend, LinesNamed DEF ProgramWrites
<1>3. ASSUME NEW p \in Panes, PauseAfter(p) PROVE Named(pipe')
  <2>1. PICK k \in 0..Len(pipe) :
          pipe' = Append([i \in 1..Len(pipe) |->
                           IF i > k /\ IsOutputOf(p, pipe[i]) THEN Line("lost")
                                                             ELSE pipe[i]],
                         Pause(p))
    BY <1>3 DEF PauseAfter
  <2> DEFINE left == [i \in 1..Len(pipe) |->
                       IF i > k /\ IsOutputOf(p, pipe[i]) THEN Line("lost") ELSE pipe[i]]
  <2>2. Line("lost") \in LineSet /\ Pause(p) \in LineSet
    BY LineTyped DEF LineTypes
  <2>3. left \in Seq(LineSet) /\ DOMAIN left = DOMAIN pipe
    BY <1>1, <2>2
  <2>4. \A i \in DOMAIN pipe : left[i] = pipe[i] \/ left[i] = Line("lost")
    BY <1>1
  <2> HIDE DEF left
  <2>5. Named(left)
    BY <2>3, <2>4, LinesNamed DEF Named
  <2>6. Named(Append(left, Pause(p)))
    BY <2>2, <2>3, <2>5, NamedAppend, LinesNamed
  <2>7. QED BY <2>1, <2>6 DEF left
<1>4. CASE RunCommand
  <2>0. active \in Panes /\ written[active] \in Nat /\ size \in Nat
    BY DEF TypeOK
  <2>1. /\ Seed(active, written[active], size) \in LineSet
        /\ Line("done") \in LineSet /\ Line("unreadable") \in LineSet
    BY <2>0, LineTyped DEF LineTypes, Replies
  <2>2. pipe' \in {Append(pipe, Seed(active, written[active], size)),
                   Append(pipe, Line("done")), Append(pipe, Line("unreadable"))}
    BY <1>4 DEF RunCommand
  <2>3. /\ Named(Append(pipe, Seed(active, written[active], size)))
        /\ Named(Append(pipe, Line("done"))) /\ Named(Append(pipe, Line("unreadable")))
    BY <1>1, <2>0, <2>1, NamedAppend, LinesNamed
  <2>4. QED BY <2>2, <2>3
<1>5. CASE ServerExits
  <2>1. Line("exit") \in LineSet
    BY LineTyped DEF LineTypes
  <2>2. QED BY <1>1, <1>5, <2>1, NamedAppend, LinesNamed DEF ServerExits
<1>6. QED BY <1>2, <1>3, <1>4, <1>5

\* tmux, the programs and the users of other clients keep the invariant.
LEMMA ServerStream ==
  ASSUME TypeOK, HandlersAligned, SeedingHasOneReply, StreamInv,
         (\E p \in Panes : ProgramWrites(p) \/ PauseAfter(p) \/ SelectPane(p))
           \/ RunCommand \/ ServerExits
  PROVE  PipeInv' /\ JoinInv' /\ StreamIsWhole'
<1>1. UNCHANGED <<phase, paneId, torn, xterm, queue, pending>>
  BY DEF ProgramWrites, PauseAfter, SelectPane, RunCommand, ServerExits, client, browser
<1>2. StreamIsWhole' /\ Last' = Last
  BY <1>1 DEF StreamInv, StreamIsWhole, Coming, Last
<1>3. ASSUME Named(pipe'),
             ASSUME phase # "closed", NEW q \in Panes, PaneInv(pipe, q, written, paused)
             PROVE  /\ PaneInv(pipe', q, written', paused')
                    /\ phase = "live" =>
                        \A n : JoinsAt(pipe, q, n, written, paused)
                             => JoinsAt(pipe', q, n, written', paused')
      PROVE  PipeInv' /\ JoinInv'
  <2>1. PipeInv'
    BY <1>1, <1>3 DEF StreamInv, PipeInv
  <2>2. ASSUME phase = "live", ~torn
        PROVE  paneId \in Panes /\ Last.pane = paneId
               /\ JoinsAt(pipe', paneId, Last.byte, written', paused')
    <3>1. paneId \in Panes /\ Last.pane = paneId
         /\ JoinsAt(pipe, paneId, Last.byte, written, paused)
      BY <2>2 DEF StreamInv, JoinInv
    <3>2. PaneInv(pipe, paneId, written, paused)
      BY <2>2, <3>1 DEF StreamInv, PipeInv
    <3>3. QED BY <1>3, <2>2, <3>1, <3>2
  <2>3. JoinInv'
    BY <1>1, <1>2, <2>2 DEF JoinInv
  <2>4. QED BY <2>1, <2>3
<1>4. ASSUME NEW p \in Panes, ProgramWrites(p) PROVE PipeInv' /\ JoinInv'
  <2>1. Named(pipe')
    BY <1>4, ServerNames DEF StreamInv, PipeInv
  <2>2. QED BY <1>3, <1>4, <2>1, WriteKeeps
<1>5. ASSUME NEW p \in Panes, PauseAfter(p) PROVE PipeInv' /\ JoinInv'
  <2>1. Named(pipe')
    BY <1>5, ServerNames DEF StreamInv, PipeInv
  <2>2. QED BY <1>3, <1>5, <2>1, PauseKeeps
<1>6. CASE RunCommand
  <2>1. Named(pipe') /\ Named(pipe)
    BY <1>6, ServerNames DEF StreamInv, PipeInv
  <2>2. QED BY <1>2, <1>3, <1>6, <2>1, RunKeeps
<1>7. ASSUME NEW p \in Panes, SelectPane(p) PROVE PipeInv' /\ JoinInv'
  <2>1. UNCHANGED <<pipe, written, paused>>
    BY <1>7 DEF SelectPane
  <2>2. QED BY <1>1, <1>2, <2>1 DEF StreamInv, PipeInv, JoinInv
<1>8. CASE ServerExits
  <2>1. Named(pipe') /\ UNCHANGED <<written, paused>>
    BY <1>8, ServerNames DEF StreamInv, PipeInv, ServerExits
  <2>2. pipe \in Seq(LineSet) /\ Line("exit") \in LineSet
       /\ \A q \in Panes : Line("exit").pane # q
    BY LineTyped, NoPaneAssumption DEF LineTypes, TypeOK, Line
  <2>3. pipe' = pipe \/ pipe' = Append(pipe, Line("exit"))
    BY <1>8 DEF ServerExits
  <2>4. CASE pipe' = pipe
    BY <1>1, <1>2, <2>1, <2>4 DEF StreamInv, PipeInv, JoinInv
  <2>5. CASE pipe' = Append(pipe, Line("exit"))
    BY <1>2, <1>3, <2>1, <2>2, <2>5, OtherPanes
  <2>6. QED BY <2>3, <2>4, <2>5
<1>9. QED BY <1>2, <1>4, <1>5, <1>6, <1>7, <1>8

\* So does what the reader makes of one line.
LEMMA FeedStream ==
  ASSUME TypeOK, HandlersAligned, StreamInv, FeedLine
  PROVE  PipeInv' /\ JoinInv' /\ StreamIsWhole'
<1> DEFINE l == Head(pipe)
<1>1. /\ pipe # <<>> /\ pipe \in Seq(LineSet) /\ pipe' = Tail(pipe) /\ l \in LineSet
      /\ UNCHANGED <<written, paused, queue, xterm>> /\ reader # "done"
      /\ queue \in Seq(ItemSet) /\ pending \in Seq(ItemSet) /\ Coming \in Seq(ItemSet)
  <2>1. /\ pipe # <<>> /\ pipe' = Tail(pipe) /\ reader # "done"
        /\ UNCHANGED <<written, paused, queue, xterm>>
    BY DEF FeedLine, server, browser
  <2>2. pipe \in Seq(LineSet) /\ queue \in Seq(ItemSet) /\ pending \in Seq(ItemSet)
    BY DEF TypeOK
  <2>3. Coming \in Seq(ItemSet)
    BY <2>2 DEF Coming
  <2>4. Head(pipe) \in LineSet
    BY <2>1, <2>2
  <2> QED BY <2>1, <2>2, <2>3, <2>4
<1>2. phase # "closed"
  BY <1>1 DEF StreamInv, EndInv
<1>3. Named(pipe') /\ (l.pane \in Panes <=> l.type \in {"output", "pause", "seed"})
  <2>1. /\ DOMAIN pipe' = 1..Len(pipe') /\ DOMAIN pipe = 1..Len(pipe') + 1
        /\ l = pipe[1] /\ Len(pipe') \in Nat /\ \A i \in 1..Len(pipe') : pipe'[i] = pipe[i + 1]
    BY <1>1, Popped
  <2>2. 1 \in DOMAIN pipe /\ \A i \in DOMAIN pipe' : i + 1 \in DOMAIN pipe
    BY <2>1
  <2>3. QED BY <2>1, <2>2 DEF StreamInv, PipeInv, Named
<1>4. \A p \in Panes : PaneInv(pipe, p, written, paused) /\ PaneInv(pipe', p, written, paused)
  BY <1>1, <1>2, ReadContinues DEF StreamInv, PipeInv, PaneInv
<1>5. PipeInv'
  BY <1>1, <1>3, <1>4 DEF PipeInv
<1>6. ASSUME NEW p \in Panes, l.pane = p, l.type # "pause"
      PROVE  JoinsAt(pipe', p, l.byte, written, paused)
  <2>1. Continues(pipe, p) /\ (p \notin paused => EndsAt(pipe, p, written[p]))
    BY <1>4 DEF PaneInv
  <2>2. Joins(pipe', p, l.byte)
    BY <1>1, <1>6, <2>1, ReadContinues
  <2>3. p \notin paused /\ Silent(pipe', p) => l.byte = written[p]
    BY <1>1, <1>6, <2>1, ReadContinues
  <2>4. QED BY <2>2, <2>3 DEF JoinsAt
<1>7. ASSUME pending' = Append(pending, l), l \in ItemSet
      PROVE  /\ Coming' = Append(Coming, l)
             /\ Last'.pane = l.pane /\ Last'.byte = l.byte
  <2>1. Coming' = Append(Coming, l)
    BY <1>1, <1>7, JoinedAppend DEF Coming
  <2>2. Len(Coming') + 1 = Len(Coming) + 2
    BY <1>1, <2>1
  <2>3. Last' = Before(xterm, Coming', Len(Coming') + 1)
    BY <1>1 DEF Last
  <2>4. Before(xterm, Append(Coming, l), Len(Coming) + 2) = [pane |-> l.pane, byte |-> l.byte]
    BY <1>1, <1>7, MoreComes
  <2> HIDE DEF l
  <2>5. QED BY <2>1, <2>2, <2>3, <2>4
<1>8. CASE /\ l.type = "output" /\ phase = "live" /\ l.pane = paneId
           /\ l \in ItemSet /\ pending' = Append(pending, l)
                /\ UNCHANGED <<phase, paneId, torn>>
  <2>1. paneId \in Panes
    BY <1>3, <1>8
  <2>2. JoinInv'
    BY <1>1, <1>6, <1>7, <1>8, <2>1 DEF JoinInv
  <2>3. ASSUME ~torn PROVE WholeWith(xterm, Coming')
    <3>1. WholeWith(xterm, Coming)
      BY <2>3 DEF StreamInv, StreamIsWhole
    <3>2. Last.pane = paneId /\ Joins(pipe, paneId, Last.byte)
      BY <1>8, <2>3 DEF StreamInv, JoinInv, JoinsAt
    <3>3. l.byte = Last.byte + 1
      BY <1>1, <1>8, <3>2, ReadContinues DEF IsOutputOf
    <3>4. QED BY <1>1, <1>7, <1>8, <3>1, <3>2, <3>3, MoreComes DEF Last
  <2>4. StreamIsWhole'
    BY <1>1, <1>8, <2>3 DEF StreamIsWhole
  <2>5. QED BY <1>5, <2>2, <2>4
<1>9. CASE /\ l.type = "seed" /\ phase # "closed" /\ paneId' = l.pane /\ torn' = FALSE
           /\ l \in ItemSet /\ pending' = Append(pending, l) /\ phase' \in {"live", "seeding"}
  <2>1. l.pane \in Panes
    BY <1>3, <1>9
  <2>2. JoinInv'
    BY <1>1, <1>6, <1>7, <1>9, <2>1 DEF JoinInv
  <2>3. StreamIsWhole'
    BY <1>1, <1>7, <1>9, MoreComes DEF StreamIsWhole
  <2>4. QED BY <1>5, <2>2, <2>3
<1>10. CASE /\ l.type \in Replies \ {"seed"} /\ torn' = TRUE
  BY <1>5, <1>10 DEF JoinInv, StreamIsWhole
<1>11. CASE /\ l.type # "seed" /\ UNCHANGED <<pending, paneId, torn>>
            /\ \/ phase' = phase /\ (phase = "live"
                 => l.type \notin {"output", "pause"} \/ l.pane # paneId)
               \/ phase # "closed" /\ phase' = "seeding"
               \/ l.type = "exit" /\ phase' = "closed"
  <2>1. Coming' = Coming /\ Last' = Last
    BY <1>1, <1>11 DEF Coming, Last
  <2>2. StreamIsWhole'
    BY <1>1, <1>11, <2>1 DEF StreamInv, StreamIsWhole
  <2>3. ASSUME phase' = "live", ~torn
       PROVE JoinsAt(pipe', paneId, Last.byte, written, paused) /\ paneId \in Panes
            /\ Last.pane = paneId
    <3>1. phase = "live" /\ (l.type \notin {"output", "pause"} \/ l.pane # paneId)
      BY <1>11, <2>3
    <3>2. paneId \in Panes /\ Last.pane = paneId
         /\ JoinsAt(pipe, paneId, Last.byte, written, paused)
      BY <2>3, <3>1 DEF StreamInv, JoinInv
    <3>3. l.pane # paneId
      BY <1>3, <1>11, <3>1, <3>2
    <3>4. QED BY <1>1, <3>2, <3>3, ReadContinues DEF JoinsAt
  <2>4. JoinInv'
    BY <1>1, <1>11, <2>1, <2>3 DEF JoinInv
  <2>5. QED BY <1>5, <2>2, <2>4
<1>12. QED BY <1>2, <1>8, <1>9, <1>10, <1>11, FeedCases

\* So does sending an item to the browser.
LEMMA DeliverStream ==
  ASSUME TypeOK, StreamInv, Deliver
  PROVE  PipeInv' /\ JoinInv' /\ StreamIsWhole'
<1>1. /\ queue # <<>> /\ queue' = Tail(queue)
      /\ UNCHANGED <<pipe, written, paused, phase, paneId, torn, pending>>
      /\ queue \in Seq(ItemSet) /\ pending \in Seq(ItemSet) /\ Coming \in Seq(ItemSet)
  BY DEF Deliver, server, client, TypeOK, Coming
<1>2. Coming # <<>> /\ Coming' = Tail(Coming) /\ Head(Coming) = Head(queue)
  BY <1>1, JoinedTail DEF Coming
<1>3. PipeInv'
  BY <1>1 DEF StreamInv, PipeInv
<1>4. Head(Coming) = Coming[1] /\ Head(queue) = queue[1]
  BY <1>1, <1>2, Popped
<1>5. CASE Head(queue).type # "end"
  <2>1. xterm' = Painted(xterm, Coming[1])
    BY <1>2, <1>4, <1>5 DEF Deliver
  <2>2. Last' = Last
    BY <1>1, <1>2, <2>1, ShownLast DEF Last
  <2>3. JoinInv'
    BY <1>1, <2>2 DEF StreamInv, JoinInv
  <2>4. xterm.whole \in BOOLEAN
    BY DEF TypeOK, ViewSet
  <2>5. StreamIsWhole'
    BY <1>1, <1>2, <1>4, <1>5, <2>1, <2>4, ShownNext DEF StreamInv, StreamIsWhole
  <2>6. QED BY <1>3, <2>3, <2>5
<1>6. CASE Head(queue).type = "end"
  <2>0. 1 \in DOMAIN queue /\ DOMAIN queue = 1..Len(queue) /\ Len(queue) \in Nat
    BY <1>1
  <2>1. 1 = Len(queue) /\ reader = "done" /\ pending = <<>>
    BY <1>4, <1>6, <2>0 DEF StreamInv, EndInv
  <2>2. phase = "closed" /\ xterm' = xterm
    BY <1>6, <2>1 DEF Deliver, StreamInv, EndInv
  <2>3. JoinInv'
    BY <1>1, <2>2 DEF JoinInv
  <2>4. Len(Coming) = 1 /\ Coming[1].type = "end" /\ DOMAIN Coming = {1}
    <3>1. Len(Coming) = 1
      BY <1>1, <2>1 DEF Coming
    <3>2. QED BY <1>1, <1>2, <1>4, <1>6, <3>1
  <2>5. Len(Coming') = 0 /\ DOMAIN Coming' = {}
    BY <1>1, <1>2, <2>4
  <2>6. WholeWith(xterm, Coming) => WholeWith(xterm, Coming')
    <3>1. ~Repainted(Coming, 0)
      BY <2>4 DEF Repainted
    <3>2. QED BY <2>5, <3>1 DEF WholeWith
  <2>7. StreamIsWhole'
    BY <1>1, <2>2, <2>6 DEF StreamInv, StreamIsWhole
  <2>8. QED BY <1>3, <2>3, <2>7
<1>7. QED BY <1>5, <1>6

\* Every step keeps the invariant.
LEMMA StreamStep ==
  TypeOK /\ HandlersAligned /\ SeedingHasOneReply /\ StreamInv /\ [Next]_vars => StreamInv'
<1> SUFFICES ASSUME TypeOK, HandlersAligned, SeedingHasOneReply, StreamInv, [Next]_vars
             PROVE  StreamInv'
  OBVIOUS
<1>1. EndInv'
  BY EndStep DEF StreamInv
<1> SUFFICES PipeInv' /\ JoinInv' /\ StreamIsWhole'
  BY <1>1 DEF StreamInv
<1>2. CASE /\ UNCHANGED <<pipe, written, paused, xterm, queue, pending, torn, paneId>>
           /\ phase' = phase \/ (phase # "closed" /\ phase' = "seeding") \/ phase' = "closed"
  <2>1. Last' = Last /\ StreamIsWhole'
    BY <1>2 DEF StreamInv, StreamIsWhole, Coming, Last
  <2>2. QED BY <1>2, <2>1 DEF StreamInv, PipeInv, JoinInv
<1>3. CASE (\E p \in Panes : ProgramWrites(p) \/ PauseAfter(p) \/ SelectPane(p))
     \/ RunCommand \/ ServerExits
  BY <1>3, ServerStream
<1>4. CASE FeedLine
  BY <1>4, FeedStream
<1>5. CASE PutPending
  <2>1. /\ pending # <<>> /\ queue' = Append(queue, Head(pending)) /\ pending' = Tail(pending)
        /\ UNCHANGED <<pipe, written, paused, xterm, torn, paneId, phase>>
        /\ queue \in Seq(ItemSet) /\ pending \in Seq(ItemSet)
    BY <1>5 DEF PutPending, server, TypeOK
  <2>2. Coming' = Coming
    BY <2>1, JoinedPut DEF Coming
  <2>3. QED BY <2>1, <2>2 DEF StreamInv, StreamIsWhole, Last, PipeInv, JoinInv
<1>6. CASE ChunkDone \/ EndOfFile
  BY <1>2, <1>6 DEF ChunkDone, EndOfFile, server, client, browser
<1>7. CASE PutEnd
  <2>1. /\ phase = "closed" /\ pending = <<>> /\ queue' = Append(queue, End)
        /\ UNCHANGED <<pipe, written, paused, xterm, torn, paneId, phase, pending>>
        /\ queue \in Seq(ItemSet) /\ pending \in Seq(ItemSet)
    BY <1>7 DEF PutEnd, server, client, TypeOK, StreamInv, EndInv
  <2>2. Coming = queue /\ Coming' = Append(queue, End) /\ End \in ItemSet /\ End.type = "end"
    <3>1. \A s \in Seq(ItemSet) : s \o <<>> = s
      OBVIOUS
    <3>2. End \in ItemSet /\ End.type = "end"
      BY DEF End, ItemSet
    <3>3. Append(queue, End) \in Seq(ItemSet)
      BY <2>1, <3>2
    <3>4. QED BY <2>1, <3>1, <3>2, <3>3 DEF Coming
  <2>3. WholeWith(xterm, Coming) => WholeWith(xterm, Coming')
    BY <2>1, <2>2, MoreComes
  <2>4. StreamIsWhole'
    BY <2>1, <2>3 DEF StreamInv, StreamIsWhole
  <2>5. QED BY <2>1, <2>4 DEF StreamInv, PipeInv, JoinInv
<1>8. ASSUME NEW sized \in BOOLEAN, Start(sized) PROVE PipeInv' /\ JoinInv' /\ StreamIsWhole'
  BY <1>2, <1>8 DEF Start, server, browser
<1>9. CASE Resize \/ WriteInput \/ PasteLoad \/ PasteSend
  BY <1>2, <1>9 DEF Resize, WriteInput, PasteLoad, PasteSend, server, client, browser
<1>10. CASE ResizeSettled \/ Refresh
  <2>1. \/ phase' = phase
        \/ phase \in {"starting", "live"} /\ phase' = "seeding"
    BY <1>10 DEF ResizeSettled, Refresh, Reseed
  <2>2. QED BY <1>2, <1>10, <2>1 DEF ResizeSettled, Refresh, server, browser
<1>11. CASE Deliver
  BY <1>11, DeliverStream
<1>12. CASE Close
  BY <1>2, <1>12 DEF Close
<1>13. CASE StdinBreaks \/ UNCHANGED vars
  BY <1>2, <1>13 DEF StdinBreaks, vars, server, client, browser
<1>14. QED
  BY <1>3, <1>4, <1>5, <1>6, <1>7, <1>8, <1>9, <1>10, <1>11, <1>12, <1>13 DEF Next, Reader

\* A new view has a blank terminal and only the greeting in the pipe.
LEMMA StreamInit == Init => StreamInv
<1> SUFFICES ASSUME Init PROVE StreamInv
  OBVIOUS
<1>1. /\ pipe = <<Line("greeting")>> /\ queue = <<>> /\ pending = <<>> /\ phase = "starting"
      /\ reader = "read" /\ torn = FALSE /\ xterm = Blank /\ paused = {}
  BY DEF Init
<1>2. /\ DOMAIN pipe = {1} /\ Len(pipe) = 1 /\ pipe[1] = Line("greeting")
      /\ pipe[1].pane = NoPane /\ pipe[1].type = "greeting"
  <2> DEFINE g == Line("greeting")
  <2>1. g.pane = NoPane /\ g.type = "greeting"
    BY DEF Line
  <2> HIDE DEF g
  <2>2. pipe = <<g>>
    BY <1>1 DEF g
  <2>3. DOMAIN pipe = {1} /\ Len(pipe) = 1 /\ pipe[1] = g
    BY <2>2
  <2>4. QED BY <2>1, <2>3 DEF g
<1>3. DOMAIN queue = {} /\ DOMAIN pending = {} /\ Coming = <<>> /\ DOMAIN Coming = {}
  BY <1>1 DEF Coming
<1>4. EndInv
  BY <1>1, <1>2, <1>3 DEF EndInv, ExitLast
<1>5. PipeInv
  <2>1. NoPane \notin Panes
    BY NoPaneAssumption
  <2>2. Named(pipe)
    BY <1>2, <2>1 DEF Named
  <2>3. \A p \in Panes : PaneInv(pipe, p, written, paused)
    BY <1>1, <1>2, <2>1 DEF PaneInv, Continues, EndsAt
  <2>4. QED BY <2>2, <2>3 DEF PipeInv
<1>6. JoinInv
  BY <1>1 DEF JoinInv
<1>7. StreamIsWhole
  BY <1>1, <1>3 DEF StreamIsWhole, WholeWith, Blank
<1>8. QED BY <1>4, <1>5, <1>6, <1>7 DEF StreamInv

\* The browser's terminal shows the bytes of the pane without a hole: each item goes
\* on where the one before ended, across seeds, pauses, dropped output, resizes and
\* reseeds in any order (_output, _pause, on_reply, _go_live), unless a seed was torn.
THEOREM StreamHasNoHole == Spec => []StreamIsWhole
<1>1. Init => StreamInv
  BY StreamInit
<1>2. TypeOK /\ HandlersAligned /\ SeedingHasOneReply /\ StreamInv /\ [Next]_vars => StreamInv'
  BY StreamStep
<1>3. StreamInv => StreamIsWhole
  BY DEF StreamInv
<1>4. QED BY <1>1, <1>2, <1>3, TypeCorrect, RepliesMeetHandlers, OneSeedAwaited, PTL DEF Spec

-------------------------------------------------------------------------------
(***************************************************************************)
(* NeverRewinds: the terminal never goes back, and shows nothing never written.*)
(***************************************************************************)

\* A line or an item that tells what a pane shows.
Content(l) == l.type \in {"output", "seed"}

\* Items t come no earlier in a pane than items s.
Below(s, t) ==
  \A i \in DOMAIN s, j \in DOMAIN t :
    Content(s[i]) /\ Content(t[j]) /\ s[i].pane = t[j].pane => s[i].byte <= t[j].byte

\* Later items come no earlier in a pane.
Rising(s) ==
  \A i, j \in DOMAIN s :
    i < j /\ Content(s[i]) /\ Content(s[j]) /\ s[i].pane = s[j].pane => s[i].byte <= s[j].byte

\* Items tell what the programs have written.
Genuine(s, w) ==
  \A i \in DOMAIN s : Content(s[i]) => s[i].pane \in Panes /\ s[i].byte <= w[s[i].pane]

\* Items come no earlier than what terminal v shows of their pane.
Ahead(v, s) ==
  \A i \in DOMAIN s : Content(s[i]) /\ s[i].pane = v.pane => v.last <= s[i].byte

\* Each item of t is one of s.
Of(t, s) == \A i \in DOMAIN t : \E j \in DOMAIN s : t[i] = s[j]
\* ... or is l.
OfOr(t, s, l) == \A i \in DOMAIN t : t[i] = l \/ \E j \in DOMAIN s : t[i] = s[j]

\* Appending and taking the head, in these words.
LEMMA MadeOf ==
  ASSUME NEW S, NEW s \in Seq(S), NEW l \in S
  PROVE  /\ OfOr(Append(s, l), s, l)
         /\ s # <<>> => /\ Of(Tail(s), s) /\ (\E j \in DOMAIN s : Head(s) = s[j])
                        /\ Rising(s) => Rising(Tail(s))
                        /\ Rising(s) /\ Content(Head(s)) => Below(<<Head(s)>>, Tail(s))
         /\ Rising(s) /\ Below(s, <<l>>) => Rising(Append(s, l))
<1> DEFINE t == Append(s, l)
           u == Tail(s)
           n == Len(s)
<1>1. /\ n \in Nat /\ Len(t) = n + 1 /\ DOMAIN s = 1..n /\ DOMAIN t = 1..n + 1
      /\ (\A i \in 1..n : t[i] = s[i]) /\ t[n + 1] = l
  BY Appended
<1>2. s # <<>> => /\ DOMAIN u = 1..Len(u) /\ n = Len(u) + 1 /\ Len(u) \in Nat
                  /\ Head(s) = s[1] /\ \A i \in 1..Len(u) : u[i] = s[i + 1]
  BY Popped
<1>3. DOMAIN <<l>> = {1} /\ <<l>>[1] = l /\ DOMAIN <<Head(s)>> = {1} /\ <<Head(s)>>[1] = Head(s)
  OBVIOUS
<1> HIDE DEF t, u, n
<1>4. OfOr(t, s, l)
  BY <1>1 DEF OfOr
<1>5. ASSUME s # <<>>
      PROVE  /\ Of(u, s) /\ (\E j \in DOMAIN s : Head(s) = s[j])
             /\ Rising(s) => Rising(u)
             /\ Rising(s) /\ Content(Head(s)) => Below(<<Head(s)>>, u)
  <2>1. \A i \in DOMAIN u : i \in Nat /\ i + 1 \in DOMAIN s /\ u[i] = s[i + 1] /\ 1 < i + 1
    BY <1>1, <1>2, <1>5
  <2>2. 1 \in DOMAIN s /\ Head(s) = s[1]
    BY <1>1, <1>2, <1>5
  <2>3. Rising(s) => Rising(u)
    <3> SUFFICES ASSUME Rising(s), NEW i \in DOMAIN u, NEW j \in DOMAIN u, i < j,
                        Content(u[i]), Content(u[j]), u[i].pane = u[j].pane
                 PROVE  u[i].byte <= u[j].byte
      BY DEF Rising
    <3>1. i + 1 < j + 1
      BY <2>1
    <3>2. QED BY <2>1, <3>1 DEF Rising
  <2>4. Rising(s) => Below(<<Head(s)>>, u)
    BY <1>3, <2>1, <2>2 DEF Below, Rising
  <2>5. QED BY <2>1, <2>2, <2>3, <2>4 DEF Of
<1>6. ASSUME Rising(s), Below(s, <<l>>) PROVE Rising(t)
  <2> SUFFICES ASSUME NEW i \in DOMAIN t, NEW j \in DOMAIN t, i < j,
                      Content(t[i]), Content(t[j]), t[i].pane = t[j].pane
               PROVE  t[i].byte <= t[j].byte
    BY DEF Rising
  <2>1. i \in DOMAIN s /\ t[i] = s[i]
    BY <1>1
  <2>2. CASE j = n + 1
    BY <1>1, <1>3, <1>6, <2>1, <2>2 DEF Below
  <2>3. CASE j # n + 1
    <3>1. j \in DOMAIN s /\ t[j] = s[j]
      BY <1>1, <2>3
    <3>2. QED BY <1>6, <2>1, <3>1 DEF Rising
  <2>4. QED BY <2>2, <2>3
<1>7. QED BY <1>4, <1>5, <1>6 DEF t, u

\* Dropping items keeps all of this.
LEMMA OfKeeps ==
  ASSUME NEW s, NEW t, Of(t, s)
  PROVE  /\ \A u : (Below(s, u) => Below(t, u)) /\ (Below(u, s) => Below(u, t))
         /\ \A w : Genuine(s, w) => Genuine(t, w)
         /\ \A v : Ahead(v, s) => Ahead(v, t)
BY DEF Of, Below, Genuine, Ahead

\* Adding an item keeps what holds of the items and of the new one.
LEMMA OfOrKeeps ==
  ASSUME NEW s, NEW t, NEW l, OfOr(t, s, l)
  PROVE  /\ \A u : Below(s, u) /\ Below(<<l>>, u) => Below(t, u)
         /\ \A u : Below(u, s) /\ Below(u, <<l>>) => Below(u, t)
         /\ \A w : Genuine(s, w) /\ Genuine(<<l>>, w) => Genuine(t, w)
         /\ \A v : Ahead(v, s) /\ Ahead(v, <<l>>) => Ahead(v, t)
<1>1. DOMAIN <<l>> = {1} /\ <<l>>[1] = l
  OBVIOUS
<1> DEFINE o == <<l>>
<1>2. DOMAIN o = {1} /\ o[1] = l
  BY <1>1
<1> HIDE DEF o
<1>3. \A u : Below(s, u) /\ Below(o, u) => Below(t, u)
  BY <1>2 DEF OfOr, Below
<1>4. \A u : Below(u, s) /\ Below(u, o) => Below(u, t)
  BY <1>2 DEF OfOr, Below
<1>5. \A w : Genuine(s, w) /\ Genuine(o, w) => Genuine(t, w)
  BY <1>2 DEF OfOr, Genuine
<1>6. \A v : Ahead(v, s) /\ Ahead(v, o) => Ahead(v, t)
  BY <1>2 DEF OfOr, Ahead
<1>7. QED BY <1>3, <1>4, <1>5, <1>6 DEF o

\* Everything on its way to the terminal was written, and comes in this order.
Forward ==
  /\ Rising(Coming) /\ Rising(pipe) /\ Below(Coming, pipe)
  /\ Genuine(Coming, written) /\ Genuine(pipe, written)
  /\ Ahead(xterm, Coming) /\ Ahead(xterm, pipe)
  /\ xterm.pane \in Panes => xterm.last <= written[xterm.pane]

\* Bytes are counted from zero.
LEMMA BytesTyped ==
  /\ \A s \in Seq(LineSet) : \A i \in DOMAIN s : s[i].byte \in Nat
  /\ \A s \in Seq(ItemSet) : \A i \in DOMAIN s : s[i].byte \in Nat
<1>1. ASSUME NEW s \in Seq(LineSet), NEW i \in DOMAIN s PROVE s[i].byte \in Nat
  <2>1. s[i] \in LineSet
    BY <1>1
  <2>2. QED BY <2>1 DEF LineSet
<1>2. ASSUME NEW s \in Seq(ItemSet), NEW i \in DOMAIN s PROVE s[i].byte \in Nat
  <2>1. s[i] \in ItemSet
    BY <1>2
  <2>2. QED BY <2>1 DEF ItemSet
<1>3. QED BY <1>1, <1>2

\* A line that tells the state of a pane right now goes behind all others.
LEMMA SayKeeps ==
  ASSUME TypeOK, Forward, NEW l \in LineSet, NEW w \in [Panes -> Nat],
         \A p \in Panes : written[p] <= w[p],
         Content(l) => l.pane \in Panes /\ l.byte = w[l.pane],
         pipe' = Append(pipe, l), written' = w, UNCHANGED <<xterm, queue, pending>>
  PROVE  Forward'
<1>1. pipe \in Seq(LineSet) /\ written \in [Panes -> Nat] /\ Coming' = Coming
      /\ queue \in Seq(ItemSet) /\ pending \in Seq(ItemSet) /\ Coming \in Seq(ItemSet)
      /\ xterm.last \in Nat
  BY DEF TypeOK, Coming, ViewSet
<1>2. OfOr(pipe', pipe, l) /\ DOMAIN <<l>> = {1} /\ <<l>>[1] = l
  <2>1. OfOr(Append(pipe, l), pipe, l)
    BY <1>1, MadeOf
  <2>2. DOMAIN <<l>> = {1} /\ <<l>>[1] = l
    OBVIOUS
  <2>3. QED BY <2>1, <2>2
<1> DEFINE o == <<l>>
<1>3. DOMAIN o = {1} /\ o[1] = l
  BY <1>2
<1>4. Below(Coming, pipe) /\ Below(pipe, o) /\ Below(Coming, o)
  <2> HIDE DEF o
  <2>1. \A s : Genuine(s, written) /\ (\A i \in DOMAIN s : s[i].byte \in Nat) => Below(s, o)
    <3> SUFFICES ASSUME NEW s, Genuine(s, written), NEW i \in DOMAIN s, s[i].byte \in Nat,
         Content(s[i]),
                        Content(l), s[i].pane = l.pane
                 PROVE  s[i].byte <= l.byte
      BY <1>3 DEF Below
    <3>1. s[i].pane \in Panes /\ s[i].byte <= written[s[i].pane]
      BY DEF Genuine
    <3>2. l.byte = w[l.pane] /\ written[l.pane] <= w[l.pane] /\ written[l.pane] \in Nat
         /\ w[l.pane] \in Nat
      BY <1>1, <3>1
    <3>3. QED BY <3>1, <3>2
  <2>2. \A i \in DOMAIN pipe : pipe[i].byte \in Nat
    BY <1>1, BytesTyped
  <2>3. \A i \in DOMAIN Coming : Coming[i].byte \in Nat
    BY <1>1, BytesTyped
  <2>4. QED BY <2>1, <2>2, <2>3 DEF Forward
<1>5. Genuine(o, w)
  <2> HIDE DEF o
  <2>1. Content(l) => l.byte <= w[l.pane]
    BY DEF LineSet
  <2>2. QED BY <1>3, <2>1 DEF Genuine
<1>6. ASSUME NEW s, Genuine(s, written), \A i \in DOMAIN s : s[i].byte \in Nat
     PROVE Genuine(s, w)
  <2> SUFFICES ASSUME NEW i \in DOMAIN s, Content(s[i])
       PROVE s[i].pane \in Panes /\ s[i].byte <= w[s[i].pane]
    BY DEF Genuine
  <2>1. s[i].pane \in Panes /\ s[i].byte <= written[s[i].pane] /\ s[i].byte \in Nat
    BY <1>6 DEF Genuine
  <2>2. written[s[i].pane] <= w[s[i].pane] /\ written[s[i].pane] \in Nat /\ w[s[i].pane] \in Nat
    BY <1>1, <2>1
  <2>3. QED BY <2>1, <2>2
<1>7. Genuine(Coming, w) /\ Genuine(pipe, w)
  <2>1. \A i \in DOMAIN pipe : pipe[i].byte \in Nat
    BY <1>1, BytesTyped
  <2>2. \A i \in DOMAIN Coming : Coming[i].byte \in Nat
    BY <1>1, BytesTyped
  <2>3. QED BY <1>6, <2>1, <2>2 DEF Forward
<1>8. xterm.pane \in Panes => xterm.last <= w[xterm.pane]
  <2> SUFFICES ASSUME xterm.pane \in Panes PROVE xterm.last <= w[xterm.pane]
    OBVIOUS
  <2>1. xterm.last <= written[xterm.pane] /\ written[xterm.pane] <= w[xterm.pane]
        /\ written[xterm.pane] \in Nat /\ w[xterm.pane] \in Nat
    BY <1>1 DEF Forward
  <2>2. QED BY <1>1, <2>1
<1>9. Ahead(xterm, o)
  <2> HIDE DEF o
  <2>1. QED BY <1>3, <1>8 DEF Ahead
<1>10. Rising(pipe')
  BY <1>1, <1>4, MadeOf DEF Forward
<1>11. Genuine(pipe', w) /\ Below(Coming, pipe') /\ Ahead(xterm, pipe')
  BY <1>2, <1>4, <1>5, <1>7, <1>9, OfOrKeeps DEF Forward
<1>12. QED BY <1>1, <1>7, <1>8, <1>10, <1>11 DEF Forward

\* tmux sends a line, which tells the pane as it is, or says nothing.
LEMMA ServerForward ==
  ASSUME TypeOK, Forward,
         (\E p \in Panes : ProgramWrites(p) \/ PauseAfter(p) \/ SelectPane(p))
           \/ RunCommand \/ ServerExits
  PROVE  Forward'
<1>1. UNCHANGED <<xterm, queue, pending>> /\ pipe \in Seq(LineSet) /\ written \in [Panes -> Nat]
      /\ written' \in [Panes -> Nat] /\ \A p \in Panes : written[p] <= written[p]
  <2>1. UNCHANGED <<xterm, queue, pending>>
    BY DEF ProgramWrites, PauseAfter, SelectPane, RunCommand, ServerExits, client, browser
  <2>2. pipe \in Seq(LineSet) /\ written \in [Panes -> Nat]
    BY DEF TypeOK
  <2>3. written' = written \/ \E p \in Panes : written' = [written EXCEPT ![p] = @ + 1]
    BY DEF ProgramWrites, PauseAfter, SelectPane, RunCommand, ServerExits
  <2>4. written' \in [Panes -> Nat]
    BY <2>2, <2>3
  <2>5. \A p \in Panes : written[p] <= written[p]
    BY <2>2
  <2>6. QED BY <2>1, <2>2, <2>4, <2>5
<1>2. ASSUME NEW l \in LineSet, ~Content(l) \/ (l.pane \in Panes /\ l.byte = written[l.pane]),
             pipe' = Append(pipe, l), written' = written
      PROVE  Forward'
  BY <1>1, <1>2, SayKeeps
<1>3. ASSUME NEW p \in Panes, ProgramWrites(p) PROVE Forward'
  <2> DEFINE l == Output(p, written'[p])
  <2>1. written'[p] \in Nat /\ written' = [written EXCEPT ![p] = @ + 1]
    BY <1>1, <1>3 DEF ProgramWrites
  <2>2. l \in LineSet /\ l.pane = p /\ l.byte = written'[p]
    BY <2>1, LineTyped DEF Output
  <2>3. \A q \in Panes : written[q] <= written'[q]
    BY <1>1, <2>1
  <2> HIDE DEF l
  <2>4. CASE p \notin paused
    <3>1. pipe' = Append(pipe, l)
      BY <1>3, <2>4 DEF ProgramWrites, l
    <3>2. QED BY <1>1, <2>2, <2>3, <3>1, SayKeeps
  <2>5. CASE p \in paused
    <3>1. pipe' = pipe /\ Coming' = Coming /\ xterm' = xterm
      BY <1>1, <1>3, <2>5 DEF ProgramWrites, Coming
    <3>2. Coming \in Seq(ItemSet) /\ xterm.last \in Nat
      BY DEF TypeOK, Coming, ViewSet
    <3>3. ASSUME NEW s, Genuine(s, written), \A i \in DOMAIN s : s[i].byte \in Nat
          PROVE  Genuine(s, written')
      <4> SUFFICES ASSUME NEW i \in DOMAIN s, Content(s[i])
                   PROVE  s[i].pane \in Panes /\ s[i].byte <= written'[s[i].pane]
        BY DEF Genuine
      <4>1. s[i].pane \in Panes /\ s[i].byte <= written[s[i].pane] /\ s[i].byte \in Nat
        BY <3>3 DEF Genuine
      <4>2. /\ written[s[i].pane] <= written'[s[i].pane]
            /\ written[s[i].pane] \in Nat /\ written'[s[i].pane] \in Nat
        BY <1>1, <2>3, <4>1
      <4>3. QED BY <4>1, <4>2
    <3>4. Genuine(Coming, written') /\ Genuine(pipe, written')
      BY <1>1, <3>2, <3>3, BytesTyped DEF Forward
    <3>5. xterm.pane \in Panes => xterm.last <= written'[xterm.pane]
      <4> SUFFICES ASSUME xterm.pane \in Panes PROVE xterm.last <= written'[xterm.pane]
        OBVIOUS
      <4>1. /\ xterm.last <= written[xterm.pane] /\ written[xterm.pane] <= written'[xterm.pane]
            /\ written[xterm.pane] \in Nat /\ written'[xterm.pane] \in Nat
        BY <1>1, <2>3 DEF Forward
      <4>2. QED BY <3>2, <4>1
    <3>6. QED BY <3>1, <3>4, <3>5 DEF Forward
  <2>6. QED BY <2>4, <2>5
<1>4. ASSUME NEW p \in Panes, PauseAfter(p) PROVE Forward'
  <2>1. PICK k \in 0..Len(pipe) :
          pipe' = Append([i \in 1..Len(pipe) |->
                           IF i > k /\ IsOutputOf(p, pipe[i]) THEN Line("lost")
                                                             ELSE pipe[i]],
                         Pause(p))
    BY <1>4 DEF PauseAfter
  <2> DEFINE left == [i \in 1..Len(pipe) |->
                       IF i > k /\ IsOutputOf(p, pipe[i]) THEN Line("lost") ELSE pipe[i]]
             t == Append(left, Pause(p))
  <2>2. /\ Line("lost") \in LineSet /\ Pause(p) \in LineSet
        /\ ~Content(Line("lost")) /\ ~Content(Pause(p))
    BY LineTyped DEF LineTypes, Line, Pause, Content
  <2>3. left \in Seq(LineSet) /\ Len(left) = Len(pipe) /\ DOMAIN pipe = 1..Len(pipe)
    BY <1>1, <2>2
  <2>4. \A i \in DOMAIN pipe : left[i] = pipe[i] \/ ~Content(left[i])
    BY <1>1, <2>2
  <2> HIDE DEF left
  <2>5. /\ DOMAIN t = 1..Len(left) + 1 /\ t[Len(left) + 1] = Pause(p)
        /\ \A i \in 1..Len(left) : t[i] = left[i]
    BY <2>2, <2>3, Appended
  <2>6. pipe' = t
    BY <2>1 DEF left
  <2> HIDE DEF t
  <2>7. \A i \in DOMAIN pipe' : Content(pipe'[i]) => i \in DOMAIN pipe /\ pipe'[i] = pipe[i]
    <3> SUFFICES ASSUME NEW i \in DOMAIN pipe', Content(pipe'[i])
                 PROVE  i \in DOMAIN pipe /\ pipe'[i] = pipe[i]
      OBVIOUS
    <3>1. i # Len(left) + 1
      BY <2>2, <2>5, <2>6
    <3>2. i \in DOMAIN pipe /\ pipe'[i] = left[i]
      BY <1>1, <2>3, <2>5, <2>6, <3>1
    <3>3. QED BY <2>4, <3>2
  <2>8. Coming' = Coming /\ xterm' = xterm /\ written' = written
    BY <1>1, <1>4 DEF PauseAfter, Coming
  <2>9. Rising(pipe')
    BY <2>7 DEF Forward, Rising
  <2>10. Below(Coming, pipe') /\ Genuine(pipe', written) /\ Ahead(xterm, pipe')
    BY <2>7 DEF Forward, Below, Genuine, Ahead
  <2>11. QED BY <2>8, <2>9, <2>10 DEF Forward
<1>5. ASSUME NEW p \in Panes, SelectPane(p) PROVE Forward'
  BY <1>1, <1>5 DEF SelectPane, Forward, Coming
<1>6. CASE RunCommand
  <2>0. active \in Panes /\ written[active] \in Nat /\ size \in Nat /\ written' = written
    BY <1>6 DEF TypeOK, RunCommand
  <2>1. /\ Seed(active, written[active], size) \in LineSet
        /\ Line("done") \in LineSet /\ Line("unreadable") \in LineSet
        /\ ~Content(Line("done")) /\ ~Content(Line("unreadable"))
    BY <2>0, LineTyped DEF LineTypes, Replies, Line, Content
  <2>2. Seed(active, written[active], size).pane = active
        /\ Seed(active, written[active], size).byte = written[active]
    BY DEF Seed
  <2>3. pipe' \in {Append(pipe, Seed(active, written[active], size)),
                   Append(pipe, Line("done")), Append(pipe, Line("unreadable"))}
    BY <1>6 DEF RunCommand
  <2>4. QED BY <1>2, <2>0, <2>1, <2>2, <2>3
<1>7. CASE ServerExits
  <2>1. Line("exit") \in LineSet /\ ~Content(Line("exit")) /\ written' = written
    BY <1>7, LineTyped DEF LineTypes, Line, Content, ServerExits
  <2>2. CASE pipe' = pipe
    BY <1>1, <2>1, <2>2 DEF Forward, Coming
  <2>3. QED BY <1>2, <1>7, <2>1, <2>2 DEF ServerExits
<1>8. QED BY <1>3, <1>4, <1>5, <1>6, <1>7

\* The reader takes a line from the pipe, into the items or not.
LEMMA FeedForward ==
  ASSUME TypeOK, HandlersAligned, Forward, FeedLine
  PROVE  Forward'
<1> DEFINE l == Head(pipe)
<1>1. /\ pipe # <<>> /\ pipe \in Seq(LineSet) /\ pipe' = Tail(pipe) /\ l \in LineSet
      /\ UNCHANGED <<written, queue, xterm>>
      /\ queue \in Seq(ItemSet) /\ pending \in Seq(ItemSet) /\ Coming \in Seq(ItemSet)
  BY DEF FeedLine, server, browser, TypeOK, Coming
<1>2. /\ Of(Tail(pipe), pipe) /\ (\E j \in DOMAIN pipe : l = pipe[j])
      /\ Rising(pipe) => Rising(Tail(pipe))
      /\ Rising(pipe) /\ Content(l) => Below(<<l>>, Tail(pipe))
  BY <1>1, MadeOf
<1>3. Rising(pipe') /\ Genuine(pipe', written) /\ Ahead(xterm, pipe') /\ Below(Coming, pipe')
  BY <1>1, <1>2, OfKeeps DEF Forward
<1>4. pending' = pending \/ (l \in ItemSet /\ Content(l) /\ pending' = Append(pending, l))
  BY FeedCases DEF Content
<1>5. CASE pending' = pending
  BY <1>1, <1>3, <1>5 DEF Forward, Coming
<1>6. CASE l \in ItemSet /\ Content(l) /\ pending' = Append(pending, l)
  <2> HIDE DEF l
  <2> DEFINE o == <<l>>
  <2>1. Coming' = Append(Coming, l)
    BY <1>1, <1>6, JoinedAppend DEF Coming
  <2>2. DOMAIN o = {1} /\ o[1] = l
    OBVIOUS
  <2>3. OfOr(Append(Coming, l), Coming, l)
        /\ (Rising(Coming) /\ Below(Coming, o) => Rising(Append(Coming, l)))
    BY <1>1, <1>6, MadeOf
  <2>4. Below(o, pipe')
    BY <1>1, <1>2, <1>6 DEF Forward
  <2> HIDE DEF o
  <2>5. Below(Coming, o) /\ Genuine(o, written) /\ Ahead(xterm, o)
    <3>1. PICK j \in DOMAIN pipe : l = pipe[j]
      BY <1>2
    <3>2. Below(Coming, o)
      BY <2>2, <3>1 DEF Forward, Below
    <3>3. Genuine(o, written) /\ Ahead(xterm, o)
      BY <2>2, <3>1 DEF Forward, Genuine, Ahead
    <3>4. QED BY <3>2, <3>3
  <2>6. Rising(Coming')
    BY <2>1, <2>3, <2>5 DEF Forward
  <2>7. Below(Coming', pipe') /\ Genuine(Coming', written) /\ Ahead(xterm, Coming')
    BY <1>3, <2>1, <2>3, <2>4, <2>5, OfOrKeeps DEF Forward, o
  <2>8. QED BY <1>1, <1>3, <2>6, <2>7 DEF Forward
<1>7. QED BY <1>4, <1>5, <1>6

\* An item is sent to the browser.
LEMMA DeliverForward ==
  ASSUME TypeOK, Forward, Deliver
  PROVE  /\ Forward'
         /\ [View!Show]_(View!vars)
<1>1. /\ queue # <<>> /\ queue' = Tail(queue)
      /\ UNCHANGED <<pipe, written, pending>>
      /\ queue \in Seq(ItemSet) /\ pending \in Seq(ItemSet) /\ Coming \in Seq(ItemSet)
      /\ written \in [Panes -> Nat]
  BY DEF Deliver, server, client, TypeOK, Coming
<1> DEFINE l == Head(Coming)
<1>2. Coming # <<>> /\ Coming' = Tail(Coming) /\ l = Head(queue) /\ l \in ItemSet
  <2>1. Coming # <<>> /\ Coming' = Tail(Coming) /\ l = Head(queue)
    BY <1>1, JoinedTail DEF Coming
  <2>2. QED BY <1>1, <2>1
<1>3. /\ Of(Tail(Coming), Coming) /\ (\E j \in DOMAIN Coming : l = Coming[j])
      /\ Rising(Coming) => Rising(Tail(Coming))
      /\ Rising(Coming) /\ Content(l) => Below(<<l>>, Tail(Coming))
  BY <1>1, <1>2, MadeOf
<1>4. Rising(Coming') /\ Genuine(Coming', written) /\ Ahead(xterm, Coming')
     /\ Below(Coming', pipe)
  BY <1>2, <1>3, OfKeeps DEF Forward
<1>5. CASE l.type = "end"
  <2>1. xterm' = xterm
    BY <1>2, <1>5 DEF Deliver
  <2>2. QED BY <1>1, <1>4, <2>1 DEF Forward, View!vars
<1>6. CASE l.type # "end"
  <2>1. xterm' = Painted(xterm, l)
    BY <1>2, <1>6 DEF Deliver
  <2>2. xterm'.pane = l.pane /\ xterm'.last = l.byte
    BY <2>1 DEF Painted
  <2>3. Content(l) /\ l.byte \in Nat
    BY <1>2, <1>6 DEF Content, ItemSet
  <2> DEFINE o == <<l>>
  <2> HIDE DEF l
  <2>4. DOMAIN o = {1} /\ o[1] = l
    OBVIOUS
  <2>5. Below(o, Coming')
    BY <1>2, <1>3, <2>3 DEF Forward
  <2> HIDE DEF o
  <2>6. PICK j \in DOMAIN Coming : l = Coming[j]
    BY <1>3
  <2>7. l.pane \in Panes /\ l.byte <= written[l.pane] /\ (l.pane = xterm.pane
       => xterm.last <= l.byte)
    BY <2>3, <2>6 DEF Forward, Genuine, Ahead
  <2>8. Ahead(xterm', Coming')
    BY <2>2, <2>3, <2>4, <2>5 DEF Below, Ahead
  <2>9. Ahead(xterm', pipe)
    BY <2>2, <2>3, <2>6 DEF Forward, Below, Ahead
  <2>10. Forward'
    BY <1>1, <1>4, <2>2, <2>7, <2>8, <2>9 DEF Forward
  <2>11. View!Show
    <3>1. l.byte \in 0..written[l.pane]
      <4>1. written[l.pane] \in Nat
        BY <1>1, <2>7
      <4>2. QED BY <2>3, <2>7, <4>1
    <3>2. [pane |-> xterm.pane, last |-> xterm.last]' = [pane |-> l.pane, last |-> l.byte]
      BY <2>2
    <3>3. QED BY <1>1, <2>7, <3>1, <3>2 DEF View!Show
  <2>12. QED BY <2>10, <2>11
<1>7. QED BY <1>5, <1>6

\* Every step keeps the order.
LEMMA ForwardStep == TypeOK /\ HandlersAligned /\ Forward /\ [Next]_vars => Forward'
<1> SUFFICES ASSUME TypeOK, HandlersAligned, Forward, [Next]_vars PROVE Forward'
  OBVIOUS
<1>1. CASE UNCHANGED <<pipe, written, xterm, queue, pending>>
  BY <1>1 DEF Forward, Coming
<1>2. CASE (\E p \in Panes : ProgramWrites(p) \/ PauseAfter(p) \/ SelectPane(p))
     \/ RunCommand \/ ServerExits
  BY <1>2, ServerForward
<1>3. CASE FeedLine
  BY <1>3, FeedForward
<1>4. CASE PutPending
  <2>1. /\ pending # <<>> /\ queue' = Append(queue, Head(pending)) /\ pending' = Tail(pending)
        /\ UNCHANGED <<pipe, written, xterm>>
        /\ queue \in Seq(ItemSet) /\ pending \in Seq(ItemSet)
    BY <1>4 DEF PutPending, server, TypeOK
  <2>2. Coming' = Coming
    BY <2>1, JoinedPut DEF Coming
  <2>3. QED BY <2>1, <2>2 DEF Forward
<1>5. CASE ChunkDone \/ EndOfFile
  BY <1>1, <1>5 DEF ChunkDone, EndOfFile, server, client, browser
<1>6. CASE PutEnd
  <2>1. /\ queue' = Append(queue, End) /\ UNCHANGED <<pipe, written, xterm, pending>>
        /\ queue \in Seq(ItemSet) /\ pending \in Seq(ItemSet)
    BY <1>6 DEF PutEnd, server, client, TypeOK
  <2>2. End \in ItemSet /\ ~Content(End)
    BY DEF End, ItemSet, Content
  <2>3. Coming' = Append(queue, End) \o pending /\ Coming \in Seq(ItemSet)
       /\ Coming' \in Seq(ItemSet)
    BY <2>1, <2>2 DEF Coming
  <2> DEFINE n == Len(queue)
             f(i) == IF i > n THEN i - 1 ELSE i
  <2>4. \A i \in DOMAIN Coming' : Content(Coming'[i])
       => i # n + 1 /\ f(i) \in DOMAIN Coming /\ Coming'[i] = Coming[f(i)]
    <3> SUFFICES ASSUME NEW i \in DOMAIN Coming', Content(Coming'[i])
                 PROVE  i # n + 1 /\ f(i) \in DOMAIN Coming /\ Coming'[i] = Coming[f(i)]
      OBVIOUS
    <3> DEFINE q == Append(queue, End)
    <3>1. /\ q \in Seq(ItemSet) /\ Len(q) = n + 1 /\ n \in Nat /\ q[n + 1] = End
          /\ \A k \in 1..n : q[k] = queue[k]
      BY <2>1, <2>2, Appended
    <3>2. Coming' = q \o pending /\ Coming = queue \o pending
      BY <2>3 DEF Coming
    <3> HIDE DEF q
    <3>3. i \in 1..(n + 1) + Len(pending) /\ DOMAIN Coming = 1..n + Len(pending)
         /\ Len(pending) \in Nat
      BY <2>1, <3>1, <3>2
    <3>4. i # n + 1
      BY <2>1, <2>2, <3>1, <3>2
    <3>5. CASE i <= n
      <4>1. Coming'[i] = q[i] /\ Coming[i] = queue[i]
        BY <2>1, <3>1, <3>2, <3>3, <3>5
      <4>2. QED BY <3>1, <3>3, <3>4, <3>5, <4>1
    <3>6. CASE i > n + 1
      <4>1. Coming'[i] = pending[i - (n + 1)] /\ Coming[i - 1] = pending[(i - 1) - n]
        BY <2>1, <3>1, <3>2, <3>3, <3>6
      <4>2. QED BY <3>1, <3>3, <3>4, <3>6, <4>1
    <3>7. QED BY <3>1, <3>3, <3>4, <3>5, <3>6
  <2>5. n \in Nat /\ \A i \in DOMAIN Coming' : i \in Nat
    BY <2>1, <2>3
  <2>6. \A i, j \in DOMAIN Coming' : i < j /\ i # n + 1 /\ j # n + 1 => f(i) < f(j)
    BY <2>5
  <2> HIDE DEF f, n
  <2>7. Rising(Coming')
    BY <2>4, <2>6 DEF Forward, Rising
  <2>8. Below(Coming', pipe) /\ Genuine(Coming', written) /\ Ahead(xterm, Coming')
    BY <2>4 DEF Forward, Below, Genuine, Ahead
  <2>9. QED BY <2>1, <2>7, <2>8 DEF Forward
<1>7. ASSUME NEW sized \in BOOLEAN, Start(sized) PROVE Forward'
  BY <1>1, <1>7 DEF Start, server, browser
<1>8. CASE Resize \/ WriteInput \/ PasteLoad \/ PasteSend \/ ResizeSettled \/ Refresh
  BY <1>1, <1>8 DEF Resize, WriteInput, PasteLoad, PasteSend, ResizeSettled, Refresh, server,
       client, browser
<1>9. CASE Deliver
  BY <1>9, DeliverForward
<1>10. CASE Close
  BY <1>1, <1>10 DEF Close
<1>11. CASE StdinBreaks \/ UNCHANGED vars
  BY <1>1, <1>11 DEF StdinBreaks, vars, server, client, browser
<1>12. QED
  BY <1>2, <1>3, <1>4, <1>5, <1>6, <1>7, <1>8, <1>9, <1>10, <1>11 DEF Next, Reader

\* Every step is one of PaneView: a program writes, the terminal shows a later state
\* of its pane or another pane, or neither.
LEMMA ShowsOrWrites ==
  TypeOK /\ Forward /\ [Next]_vars => [View!Next]_(View!vars)
<1> SUFFICES ASSUME TypeOK, Forward, [Next]_vars PROVE [View!Next]_(View!vars)
  OBVIOUS
<1>1. CASE UNCHANGED <<written, xterm>>
  BY <1>1 DEF View!vars
<1>2. ASSUME NEW p \in Panes, ProgramWrites(p) PROVE View!Next
  <2>1. written' = [written EXCEPT ![p] = @ + 1] /\ xterm' = xterm
    BY <1>2 DEF ProgramWrites, browser
  <2>2. QED BY <2>1 DEF View!Next, View!Write
<1>3. ASSUME NEW p \in Panes, PauseAfter(p) \/ SelectPane(p) PROVE UNCHANGED <<written, xterm>>
  BY <1>3 DEF PauseAfter, SelectPane, browser
<1>4. CASE RunCommand \/ ServerExits \/ StdinBreaks
  BY <1>1, <1>4 DEF RunCommand, ServerExits, StdinBreaks, browser
<1>5. CASE Reader
  BY <1>1, <1>5 DEF Reader, FeedLine, PutPending, ChunkDone, EndOfFile, PutEnd, server, browser
<1>6. ASSUME NEW sized \in BOOLEAN, Start(sized) PROVE UNCHANGED <<written, xterm>>
  BY <1>6 DEF Start, server, browser
<1>7. CASE Resize \/ WriteInput \/ PasteLoad \/ PasteSend \/ ResizeSettled \/ Refresh
  BY <1>1, <1>7 DEF Resize, WriteInput, PasteLoad, PasteSend, ResizeSettled, Refresh, server,
       browser
<1>8. CASE Deliver
  BY <1>8, DeliverForward DEF View!Next
<1>9. CASE Close
  BY <1>1, <1>9 DEF Close
<1>10. CASE UNCHANGED vars
  BY <1>1, <1>10 DEF vars, server, browser
<1>11. QED
  BY <1>1, <1>2, <1>3, <1>4, <1>5, <1>6, <1>7, <1>8, <1>9, <1>10 DEF Next

\* A view implements PaneView: the browser's terminal only ever shows what a pane's
\* program wrote, and never goes back behind what it showed of it.
THEOREM ViewImplementsPaneView == Spec => NeverRewinds
<1>1. Init => Forward /\ View!Init
  <2> SUFFICES ASSUME Init PROVE Forward /\ View!Init
    OBVIOUS
  <2> DEFINE g == Line("greeting")
  <2>1. pipe = <<g>> /\ queue = <<>> /\ pending = <<>> /\ xterm = Blank
        /\ written = [p \in Panes |-> 0]
    BY DEF Init
  <2>2. ~Content(g)
    BY DEF Line, Content
  <2> HIDE DEF g
  <2>3. DOMAIN pipe = {1} /\ pipe[1] = g
    BY <2>1
  <2>4. DOMAIN Coming = {}
    BY <2>1 DEF Coming
  <2>5. \A i \in DOMAIN pipe : ~Content(pipe[i])
    BY <2>2, <2>3
  <2>6. Forward
    <3>1. xterm.pane \notin Panes
      BY <2>1, NoPaneAssumption DEF Blank
    <3>2. Rising(Coming) /\ Rising(pipe) /\ Below(Coming, pipe)
      BY <2>4, <2>5 DEF Rising, Below
    <3>3. Genuine(Coming, written) /\ Genuine(pipe, written) /\ Ahead(xterm, Coming)
         /\ Ahead(xterm, pipe)
      BY <2>4, <2>5 DEF Genuine, Ahead
    <3>4. QED BY <3>1, <3>2, <3>3 DEF Forward
  <2>7. View!Init
    BY <2>1 DEF View!Init, View!Blank, Blank
  <2>8. QED BY <2>6, <2>7
<1>2. TypeOK /\ HandlersAligned /\ Forward /\ [Next]_vars => Forward' /\ [View!Next]_(View!vars)
  BY ForwardStep, ShowsOrWrites
<1>3. QED BY <1>1, <1>2, TypeCorrect, RepliesMeetHandlers, PTL DEF Spec, NeverRewinds, View!Spec

-------------------------------------------------------------------------------
(***************************************************************************)
(* PaneResumes: a paused pane is resumed while its user stays.             *)
(***************************************************************************)

\* Every seed is of pane p.
SeedsOf(s, p) == \A i \in DOMAIN s : s[i].type = "seed" => s[i].pane = p

\* What holds while the user stays in a pane: all seeds are of it, tmux pauses it only
\* once a seed of it was read, and what paused it is said, queued or sent.
Stays ==
  /\ SeedsOf(pipe, active)
  /\ paneId \in {NoPane, active}
  /\ paneId = NoPane => pending = <<>> /\ paused = {}
  /\ phase = "starting" => paneId = NoPane
  /\ PausedPaneResumes

\* It holds until the user first leaves.
StayInv == switches = 0 => Stays

\* x is in s.
Has(s, x) == \E i \in DOMAIN s : s[i] = x
\* The pause of pane p is still to be read.
SaidAfter(s, p) == Has(s, Pause(p))
\* The reseed that resumes pane p is sent.
Sent(s, p) == Has(s, ReseedCmd("continue", p))

\* What is in a sequence with one more element.
LEMMA HasAppended ==
  ASSUME NEW S, NEW s \in Seq(S), NEW e \in S, NEW t, t = Append(s, e)
  PROVE  Has(t, e) /\ (\A x : Has(s, x) => Has(t, x)) /\ (\A x : Has(t, x)
       => x = e \/ Has(s, x))
<1>1. /\ DOMAIN s = 1..Len(s) /\ DOMAIN t = 1..Len(s) + 1 /\ Len(s) \in Nat
      /\ (\A i \in 1..Len(s) : t[i] = s[i]) /\ t[Len(s) + 1] = e
  BY Appended
<1>2. Has(t, e)
  BY <1>1 DEF Has
<1>3. \A x : Has(s, x) => Has(t, x)
  BY <1>1 DEF Has
<1>4. \A x : Has(t, x) => x = e \/ Has(s, x)
  BY <1>1 DEF Has
<1>5. QED BY <1>2, <1>3, <1>4

\* What is in a sequence without its first.
LEMMA HasPopped ==
  ASSUME NEW S, NEW s \in Seq(S), s # <<>>, NEW t, t = Tail(s)
  PROVE  Has(s, Head(s)) /\ (\A x : Has(t, x) => Has(s, x)) /\ (\A x : Has(s, x)
       => x = Head(s) \/ Has(t, x))
<1>1. /\ DOMAIN t = 1..Len(t) /\ DOMAIN s = 1..Len(t) + 1 /\ Len(t) \in Nat
      /\ Head(s) = s[1] /\ \A i \in 1..Len(t) : t[i] = s[i + 1]
  BY Popped
<1>2. \A i \in DOMAIN s : s[i] = Head(s) \/ (i - 1 \in DOMAIN t /\ t[i - 1] = s[i])
  <2> SUFFICES ASSUME NEW i \in DOMAIN s
       PROVE s[i] = Head(s) \/ (i - 1 \in DOMAIN t /\ t[i - 1] = s[i])
    OBVIOUS
  <2>1. CASE i = 1
    BY <1>1, <2>1
  <2>2. CASE i # 1
    <3>1. i - 1 \in 1..Len(t) /\ (i - 1) + 1 = i
      BY <1>1, <2>2
    <3>2. QED BY <1>1, <3>1
  <2>3. QED BY <2>1, <2>2
<1>3. \A i \in DOMAIN t : i + 1 \in DOMAIN s /\ s[i + 1] = t[i]
  BY <1>1
<1>4. 1 \in DOMAIN s
  BY <1>1
<1>5. Has(s, Head(s))
  BY <1>1, <1>4 DEF Has
<1>6. \A x : Has(t, x) => Has(s, x)
  BY <1>3 DEF Has
<1>7. \A x : Has(s, x) => x = Head(s) \/ Has(t, x)
  BY <1>2 DEF Has
<1>8. QED BY <1>5, <1>6, <1>7

\* Pane p will be resumed: by the pause still to be read, the reseed that waits or the
\* one that is sent.
Resuming(pi, cs, ph, qu, p) ==
  SaidAfter(pi, p) \/ (ph = "seeding" /\ qu = "continue") \/ Sent(cs, p)

\* PausedPaneResumes in these words.
LEMMA ResumesMeans ==
  /\ PausedPaneResumes <=> (alive /\ phase \in {"seeding", "live"} /\ paneId \in paused
       => Resuming(pipe, cmds, phase, queued, paneId))
  /\ PausedPaneResumes' <=> (alive' /\ phase' \in {"seeding", "live"}
       /\ paneId' \in paused' => Resuming(pipe', cmds', phase', queued', paneId'))
BY DEF PausedPaneResumes, Resuming, SaidAfter, Sent, Has

\* reseed() forgets no continue, and one asked for is sent or queued.
LEMMA ReseedResumes ==
  ASSUME TypeOK, stdinOpen, NEW cont, Reseed(cont), phase' \in {"seeding", "live"}
  PROVE  /\ Sent(cmds, paneId) => Sent(cmds', paneId)
         /\ phase = "seeding" /\ queued = "continue"
              => phase' = "seeding" /\ queued' = "continue"
         /\ cont = "continue" => (phase' = "seeding"
              /\ queued' = "continue") \/ Sent(cmds', paneId)
<1>1. cmds \in Seq(CmdSet) /\ paneId \in Panes \cup {NoPane}
  BY DEF TypeOK
<1>2. CASE phase = "seeding"
  BY <1>2 DEF Reseed, Merge
<1>3. CASE phase \in {"starting", "live"}
  <2>1. cmds' = Append(cmds, ReseedCmd(cont, paneId))
    BY <1>3 DEF Reseed, SendList
  <2>2. ReseedCmd(cont, paneId) \in CmdSet
    BY <1>1, ReseedsAreOwed
  <2>3. QED BY <1>1, <1>3, <2>1, <2>2, HasAppended DEF Sent
<1>4. QED BY <1>2, <1>3 DEF Reseed, TypeOK

\* _go_live sends the continue that waited.
LEMMA GoLiveResumes ==
  ASSUME TypeOK, stdinOpen, NEW items, NEW p \in Panes \cup {NoPane}, GoLive(items, p),
       phase' \in {"seeding", "live"}
  PROVE  /\ Sent(cmds, p) => Sent(cmds', p)
         /\ queued = "continue" => Sent(cmds', p)
<1>1. cmds \in Seq(CmdSet) /\ ReseedCmd(queued, p) \in CmdSet
  BY ReseedsAreOwed DEF TypeOK
<1>2. (cmds' = cmds /\ queued = "none") \/ cmds' = Append(cmds, ReseedCmd(queued, p))
  BY DEF GoLive
<1>3. QED BY <1>1, <1>2, HasAppended DEF Sent

\* The reader keeps it: the pause it reads becomes a reseed with a continue.
LEMMA FeedStays ==
  ASSUME TypeOK, StdinLast, AlignedInv, Named(pipe), Stays, switches = 0, FeedLine
  PROVE  Stays'
<1> DEFINE l == Head(pipe)
<1>1. /\ pipe # <<>> /\ pipe \in Seq(LineSet) /\ pipe' = Tail(pipe) /\ l \in LineSet
      /\ UNCHANGED <<active, paused, alive>>
      /\ paneId \in Panes \cup {NoPane} /\ active \in Panes /\ NoPane \notin Panes
  BY NoPaneAssumption DEF FeedLine, server, TypeOK
<1>2. \E i \in DOMAIN pipe : pipe[i] = l
  BY <1>1, HasPopped DEF Has
<1>3. SeedsOf(pipe', active)
  <2>1. \A x : Has(pipe', x) => Has(pipe, x)
    BY <1>1, HasPopped
  <2>2. QED BY <2>1 DEF Stays, SeedsOf, Has
<1>4. /\ l.type = "seed" => l.pane = active
      /\ l.pane \in Panes <=> l.type \in {"output", "pause", "seed"}
  BY <1>2 DEF Stays, Named, SeedsOf
<1>5. HandlersAligned
  BY DEF AlignedInv
<1>6. paneId' \in {paneId, active} /\ (phase' = "starting" => phase = "starting")
  <2>1. paneId' \in {paneId, active}
    BY <1>4 DEF FeedLine, OutputLine, PauseLine, ExitLine, BlockLine, SeedReply
  <2>2. phase' = "starting" => phase = "starting"
    BY FeedAligned
  <2>3. QED BY <2>1, <2>2
<1>7. paneId' = NoPane => pending' = <<>> /\ paused' = {}
  <2> SUFFICES ASSUME paneId' = NoPane PROVE pending' = <<>> /\ paused' = {}
    OBVIOUS
  <2>1. paneId = NoPane /\ pending = <<>> /\ paused = {}
    BY <1>1, <1>6 DEF Stays
  <2>2. l.type # "seed" \/ pending' = pending
    BY <1>1, <1>4, <1>5, FeedCases
  <2>3. pending' = pending
    BY <1>1, <1>4, <1>5, <2>1, <2>2, FeedCases
  <2>4. QED BY <1>1, <2>1, <2>3
<1>8. phase' = "starting" => paneId' = NoPane
  <2> SUFFICES ASSUME phase' = "starting" PROVE paneId' = NoPane
    OBVIOUS
  <2>1. phase = "starting" /\ handlers = <<>> /\ paneId = NoPane
    BY <1>6 DEF AlignedInv, Stays
  <2>2. paneId' = paneId
    BY <2>1 DEF FeedLine, OutputLine, PauseLine, ExitLine, BlockLine
  <2>3. QED BY <2>1, <2>2
<1>9. ASSUME alive, phase' \in {"seeding", "live"}, paneId' \in paused
      PROVE  Resuming(pipe', cmds', phase', queued', paneId')
  <2>0. stdinOpen
    BY <1>9 DEF StdinLast
  <2>1. phase # "closed"
    <3>1. phase = "closed" => phase' = "closed"
      BY DEF FeedLine, OutputLine, PauseLine, Reseed, ExitLine, BlockLine, SeedReply, GoLive
    <3>2. QED BY <1>9, <3>1
  <2>2. paneId = active /\ paneId' = active
    BY <1>1, <1>6, <1>9 DEF Stays, TypeOK
  <2>3. phase \in {"seeding", "live"}
    BY <1>1, <2>1, <2>2 DEF Stays, TypeOK
  <2>4. Resuming(pipe, cmds, phase, queued, active)
    BY <1>9, <2>2, <2>3, ResumesMeans DEF Stays
  <2>5. SaidAfter(pipe, active) => l = Pause(active) \/ SaidAfter(pipe', active)
    BY <1>1, HasPopped DEF SaidAfter
  <2>6. ASSUME l # Pause(active), UNCHANGED <<phase, queued, cmds>>
        PROVE  Resuming(pipe', cmds', phase', queued', active)
    BY <2>4, <2>5, <2>6 DEF Resuming
  <2>7. ASSUME l # Pause(active), NEW items, GoLive(items, active)
        PROVE  Resuming(pipe', cmds', phase', queued', active)
    BY <1>1, <1>9, <2>0, <2>4, <2>5, <2>7, GoLiveResumes DEF Resuming
  <2>8. CASE l.type = "output"
    BY <2>2, <2>6, <2>8 DEF FeedLine, OutputLine, Pause
  <2>9. CASE l.type = "pause"
    <3>1. PauseLine(l)
      BY <2>9 DEF FeedLine
    <3>2. CASE l.pane = active
      <4>1. Reseed("continue")
        BY <2>2, <3>1, <3>2 DEF PauseLine
      <4>2. QED BY <1>9, <2>0, <2>2, <4>1, ReseedResumes DEF Resuming
    <3>3. CASE l.pane # active
      BY <2>2, <2>6, <3>1, <3>3 DEF PauseLine, Pause
    <3>4. QED BY <3>2, <3>3
  <2>10. CASE l.type = "exit"
    BY <1>9, <2>10 DEF FeedLine, ExitLine
  <2>11. CASE l.type \notin {"output", "pause", "exit"}
    <3>1. BlockLine(l) /\ l # Pause(active)
      BY <2>11 DEF FeedLine, Pause
    <3>2. CASE SeedReply(l)
      <4>1. \E items : GoLive(items, active)
        BY <2>2, <3>2 DEF SeedReply
      <4>2. QED BY <2>2, <2>7, <3>1, <4>1
    <3>3. CASE ~SeedReply(l)
      BY <2>2, <2>6, <3>1, <3>3 DEF BlockLine
    <3>4. QED BY <3>2, <3>3
  <2>12. QED BY <2>8, <2>9, <2>10, <2>11
<1>10. PausedPaneResumes'
  BY <1>1, <1>9, ResumesMeans
<1>11. paneId' \in {NoPane, active}
  BY <1>6 DEF Stays
<1>12. QED BY <1>1, <1>3, <1>7, <1>8, <1>10, <1>11 DEF Stays

\* tmux keeps it.
LEMMA ServerStays ==
  ASSUME TypeOK, Stays, switches' = 0,
         (\E p \in Panes : ProgramWrites(p) \/ PauseAfter(p)) \/ RunCommand \/ ServerExits
  PROVE  Stays'
<1>1. /\ UNCHANGED <<active, phase, paneId, queued, pending>>
      /\ pipe \in Seq(LineSet) /\ cmds \in Seq(CmdSet) /\ active \in Panes /\ size \in Nat
      /\ written[active] \in Nat
  <2>1. UNCHANGED <<active, phase, paneId, queued, pending>>
    BY DEF ProgramWrites, PauseAfter, RunCommand, ServerExits, client
  <2>2. QED BY <2>1 DEF TypeOK
<1>2. ASSUME NEW l \in LineSet, l.type = "seed" => l.pane = active,
             pipe' = pipe \/ pipe' = Append(pipe, l), UNCHANGED cmds,
             paused' \subseteq paused, alive' => alive
      PROVE  Stays'
  <2>0. (\A x : Has(pipe, x) => Has(pipe', x)) /\ (\A x : Has(pipe', x)
       => x = l \/ Has(pipe, x))
    BY <1>1, <1>2, HasAppended
  <2>1. SeedsOf(pipe', active)
    BY <1>2, <2>0 DEF Stays, SeedsOf, Has
  <2>2. SaidAfter(pipe, paneId) => SaidAfter(pipe', paneId)
    BY <2>0 DEF SaidAfter
  <2>3. PausedPaneResumes'
    BY <1>1, <1>2, <2>2, ResumesMeans DEF Stays, Resuming
  <2>4. QED BY <1>1, <1>2, <2>1, <2>3 DEF Stays
<1>3. ASSUME NEW p \in Panes, ProgramWrites(p) PROVE Stays'
  <2>1. written'[p] \in Nat
    BY <1>3 DEF ProgramWrites, TypeOK
  <2>2. Output(p, written'[p]) \in LineSet /\ Output(p, written'[p]).type # "seed"
    BY <2>1, LineTyped DEF Output
  <2>3. QED BY <1>2, <1>3, <2>2 DEF ProgramWrites
<1>4. ASSUME NEW p \in Panes, PauseAfter(p) PROVE Stays'
  <2>1. PICK k \in 0..Len(pipe) :
          pipe' = Append([i \in 1..Len(pipe) |->
                           IF i > k /\ IsOutputOf(p, pipe[i]) THEN Line("lost")
                                                             ELSE pipe[i]],
                         Pause(p))
    BY <1>4 DEF PauseAfter
  <2> DEFINE left == [i \in 1..Len(pipe) |->
                       IF i > k /\ IsOutputOf(p, pipe[i]) THEN Line("lost") ELSE pipe[i]]
  <2>2. /\ Line("lost") \in LineSet /\ Pause(p) \in LineSet
        /\ Line("lost").type # "seed" /\ Pause(p).type # "seed"
             /\ \A q : Pause(q).type # "output"
    BY LineTyped DEF LineTypes, Line, Pause
  <2>3. left \in Seq(LineSet) /\ DOMAIN left = DOMAIN pipe
    BY <1>1, <2>2
  <2>4. \A i \in DOMAIN pipe : left[i] = pipe[i] \/ (left[i] = Line("lost")
       /\ pipe[i].type = "output")
    BY <1>1 DEF IsOutputOf
  <2> HIDE DEF left
  <2>5. pipe' = Append(left, Pause(p))
    BY <2>1 DEF left
  <2>6. /\ Has(pipe', Pause(p)) /\ (\A x : Has(left, x) => Has(pipe', x))
        /\ \A x : Has(pipe', x) => x = Pause(p) \/ Has(left, x)
    BY <2>2, <2>3, <2>5, HasAppended
  <2>7. SeedsOf(pipe', active)
    <3> SUFFICES ASSUME NEW i \in DOMAIN pipe', pipe'[i].type = "seed"
         PROVE pipe'[i].pane = active
      BY DEF SeedsOf
    <3>1. PICK j \in DOMAIN left : left[j] = pipe'[i]
      BY <2>2, <2>6 DEF Has
    <3>2. left[j] = pipe[j] /\ j \in DOMAIN pipe
      BY <2>2, <2>3, <2>4, <3>1
    <3>3. QED BY <3>1, <3>2 DEF Stays, SeedsOf
  <2>8. \A q : SaidAfter(pipe, q) \/ q = p => SaidAfter(pipe', q)
    <3> SUFFICES ASSUME NEW q, SaidAfter(pipe, q) PROVE SaidAfter(pipe', q)
      BY <2>6 DEF SaidAfter
    <3>1. PICK i \in DOMAIN pipe : pipe[i] = Pause(q)
      BY DEF SaidAfter, Has
    <3>2. left[i] = Pause(q) /\ i \in DOMAIN left
      BY <2>2, <2>3, <2>4, <3>1
    <3>3. QED BY <2>6, <3>2 DEF SaidAfter, Has
  <2>9. pending # <<>> /\ paused' = paused \cup {p} /\ UNCHANGED <<alive, cmds>>
    BY <1>4 DEF PauseAfter, ReaderBlocked
  <2>10. PausedPaneResumes'
    <3> SUFFICES ASSUME alive, phase \in {"seeding", "live"}, paneId \in paused'
                 PROVE  Resuming(pipe', cmds', phase', queued', paneId')
      BY <1>1, <2>9, ResumesMeans
    <3>1. CASE paneId = p
      BY <1>1, <2>8, <3>1 DEF Resuming
    <3>2. CASE paneId # p
      <4>1. Resuming(pipe, cmds, phase, queued, paneId)
        BY <2>9, <3>2, ResumesMeans DEF Stays
      <4>2. QED BY <1>1, <2>8, <2>9, <4>1 DEF Resuming
    <3>3. QED BY <3>1, <3>2
  <2>11. QED BY <1>1, <2>7, <2>9, <2>10 DEF Stays
<1>5. CASE RunCommand
  <2>1. /\ Seed(active, written[active], size) \in LineSet
        /\ Line("done") \in LineSet /\ Line("unreadable") \in LineSet
    BY <1>1, LineTyped DEF LineTypes, Replies
  <2>2. \E l \in LineSet : pipe' = Append(pipe, l) /\ (l.type = "seed" => l.pane = active)
    BY <1>5, <2>1 DEF RunCommand, Seed, Line
  <2>3. PICK l \in LineSet : pipe' = Append(pipe, l) /\ (l.type = "seed" => l.pane = active)
    BY <2>2
  <2>4. (\A x : Has(pipe, x) => Has(pipe', x)) /\ (\A x : Has(pipe', x)
       => x = l \/ Has(pipe, x))
    BY <1>1, <2>3, HasAppended
  <2>5. SeedsOf(pipe', active)
    BY <2>3, <2>4 DEF Stays, SeedsOf, Has
  <2>6. SaidAfter(pipe, paneId) => SaidAfter(pipe', paneId)
    BY <2>4 DEF SaidAfter
  <2>7. paused' \subseteq paused /\ alive' = alive /\ cmds # <<>> /\ cmds' = Tail(cmds)
    BY <1>5 DEF RunCommand
  <2>8. Sent(cmds, paneId) /\ paneId \in paused' => Sent(cmds', paneId)
    <3> SUFFICES ASSUME Sent(cmds, paneId), paneId \in paused', ~Sent(cmds', paneId) PROVE FALSE
      OBVIOUS
    <3>1. Head(cmds) = ReseedCmd("continue", paneId)
      BY <1>1, <2>7, HasPopped DEF Sent
    <3>2. Head(cmds).type = "reseed" /\ Head(cmds).pane = paneId
      BY <3>1 DEF ReseedCmd, Cmd
    <3>3. QED BY <1>5, <3>2 DEF RunCommand
  <2>9. PausedPaneResumes'
    BY <1>1, <2>6, <2>7, <2>8, ResumesMeans DEF Stays, Resuming
  <2>10. QED BY <1>1, <2>5, <2>7, <2>9 DEF Stays
<1>6. CASE ServerExits
  <2>1. Line("exit") \in LineSet /\ Line("exit").type # "seed"
    BY LineTyped DEF LineTypes, Line
  <2>2. QED BY <1>2, <1>6, <2>1 DEF ServerExits
<1>7. QED BY <1>3, <1>4, <1>5, <1>6

\* Every step keeps it, until the user leaves.
LEMMA StayStep ==
  TypeOK /\ StdinLast /\ AlignedInv /\ StreamInv /\ StayInv /\ [Next]_vars => StayInv'
<1> SUFFICES ASSUME TypeOK, StdinLast, AlignedInv, StreamInv, StayInv, [Next]_vars, switches' = 0
     PROVE Stays'
  BY DEF StayInv
<1>0. ASSUME NEW p \in Panes, SelectPane(p) PROVE FALSE
  BY <1>0 DEF SelectPane, TypeOK
<1>1. switches = 0 /\ Stays
  <2>1. switches' = switches \/ \E p \in Panes : SelectPane(p)
    BY DEF Next, ProgramWrites, PauseAfter, RunCommand, ServerExits, StdinBreaks, Reader, FeedLine,
         PutPending,
           ChunkDone, EndOfFile, PutEnd, Start, Resize, ResizeSettled, Refresh, WriteInput,
                PasteLoad,
           PasteSend, Deliver, Close, server, vars
  <2>2. QED BY <1>0, <2>1 DEF StayInv
<1>2. CASE (\E p \in Panes : ProgramWrites(p) \/ PauseAfter(p)) \/ RunCommand \/ ServerExits
  BY <1>1, <1>2, ServerStays
<1>3. CASE FeedLine
  BY <1>1, <1>3, FeedStays DEF StreamInv, PipeInv
<1>4. CASE /\ UNCHANGED <<pipe, active, paused, paneId, cmds, queued>>
           /\ pending' = pending \/ pending # <<>>
           /\ alive' => alive
           /\ phase' \in {phase, "closed"}
  <2>1. PausedPaneResumes'
    BY <1>1, <1>4, ResumesMeans DEF Stays
  <2>2. QED BY <1>1, <1>4, <2>1 DEF Stays
<1>5. CASE PutPending \/ ChunkDone \/ EndOfFile \/ PutEnd
  BY <1>4, <1>5 DEF PutPending, ChunkDone, EndOfFile, PutEnd, server, client
<1>6. ASSUME NEW sized \in BOOLEAN, Start(sized) PROVE Stays'
  <2>1. /\ UNCHANGED <<pipe, active, paused, paneId, pending>> /\ paneId = NoPane
       /\ phase' # "starting"
    BY <1>1, <1>6 DEF Start, server, Stays
  <2>2. PausedPaneResumes'
    BY <1>1, <2>1, ResumesMeans DEF Stays
  <2>3. QED BY <1>1, <2>1, <2>2 DEF Stays
<1>7. ASSUME UNCHANGED <<pipe, active, paused, paneId, queued, pending, phase, alive>>,
             Sent(cmds, paneId) => Sent(cmds', paneId)
      PROVE  Stays'
  <2>1. PausedPaneResumes'
    BY <1>1, <1>7, ResumesMeans DEF Stays, Resuming
  <2>2. QED BY <1>1, <1>7, <2>1 DEF Stays
<1>8. cmds \in Seq(CmdSet) /\ paneId \in Panes \cup {NoPane}
  BY DEF TypeOK
<1>9. ASSUME NEW c \in CmdSet, NEW h, SendList(c, h)
     PROVE Sent(cmds, paneId) => Sent(cmds', paneId)
  <2>1. cmds' = cmds \/ cmds' = Append(cmds, c)
    BY <1>9 DEF SendList
  <2>2. QED BY <1>8, <2>1, HasAppended DEF Sent
<1>10. CASE Resize
  <2>1. cols' \in Nat
    BY <1>10 DEF Resize, TypeOK
  <2>2. Cmd("size", NoPane, cols') \in CmdSet
    BY <2>1, CmdTyped
  <2>3. QED BY <1>7, <1>9, <1>10, <2>2 DEF Resize, server
<1>11. CASE WriteInput
  <2>1. inputs' \in Nat
    BY <1>11 DEF WriteInput, TypeOK
  <2>2. Cmd("input", paneId, inputs') \in CmdSet
    BY <1>8, <2>1, CmdTyped
  <2>3. QED BY <1>7, <1>9, <1>11, <2>2 DEF WriteInput, server
<1>12. CASE PasteSend
  <2>1. typing \in Nat
    BY DEF TypeOK
  <2>2. Cmd("input", paneId, typing) \in CmdSet
    BY <1>8, <2>1, CmdTyped
  <2>3. QED BY <1>7, <1>9, <1>12, <2>2 DEF PasteSend, server
<1>13. CASE PasteLoad
  BY <1>4, <1>13 DEF PasteLoad, server, client
<1>14. CASE ResizeSettled \/ Refresh
  <2>1. Reseed("plain") /\ UNCHANGED <<pipe, active, paused, paneId, pending, alive>>
    BY <1>14 DEF ResizeSettled, Refresh, server
  <2>2. phase' = phase \/ (phase \in {"starting", "live"} /\ phase' = "seeding")
    BY <2>1 DEF Reseed
  <2>3. PausedPaneResumes'
    <3> SUFFICES ASSUME alive, phase' \in {"seeding", "live"}, paneId \in paused
                 PROVE  Resuming(pipe', cmds', phase', queued', paneId')
      BY <2>1, ResumesMeans
    <3>1. phase \in {"seeding", "live"}
      BY <1>1, <2>2 DEF Stays, TypeOK
    <3>2. Resuming(pipe, cmds, phase, queued, paneId)
      BY <1>1, <3>1, ResumesMeans DEF Stays
    <3>3. stdinOpen
      BY DEF StdinLast
    <3>4. QED BY <2>1, <3>2, <3>3, ReseedResumes DEF Resuming
  <2>4. QED BY <1>1, <2>1, <2>2, <2>3 DEF Stays
<1>15. CASE Deliver
  BY <1>4, <1>15 DEF Deliver, server, client
<1>16. CASE Close
  BY <1>4, <1>16 DEF Close
<1>17. CASE StdinBreaks \/ UNCHANGED vars
  BY <1>4, <1>17 DEF StdinBreaks, vars, server, client
<1>18. QED
  BY <1>0, <1>2, <1>3, <1>5, <1>6, <1>10, <1>11, <1>12, <1>13, <1>14, <1>15, <1>16, <1>17
     DEF Next, Reader

\* The aligned handlers and the invariant of the stream, always.
LEMMA AlwaysAligned == Spec => []AlignedInv
<1>1. Init => AlignedInv
  BY AlignedInit
<1>2. QED BY <1>1, AlignedStep, TypeCorrect, PTL DEF Spec

\* A broken stdin means a client that is gone, always.
LEMMA StdinStaysLast == Spec => []StdinLast
<1>1. Init => StdinLast
  BY DEF Init, StdinLast
<1>2. QED BY <1>1, StdinLastKept, TypeCorrect, PTL DEF Spec

LEMMA StreamKept == Spec => []StreamInv
<1>1. TypeOK /\ HandlersAligned /\ SeedingHasOneReply /\ StreamInv /\ [Next]_vars => StreamInv'
  BY StreamStep
<1>2. QED
  BY <1>1, StreamInit, TypeCorrect, RepliesMeetHandlers, OneSeedAwaited, PTL DEF Spec

\* A pane that tmux paused for a slow view is resumed (_pause, reseed, _go_live): while
\* its user stays in it, the pause is still to be read, or a reseed that continues the
\* pane waits or is sent.
THEOREM PausedPaneIsResumed == StreamSpec => []PaneResumes
<1>1. Init => StayInv
  BY NoPaneAssumption DEF Init, StayInv, Stays, SeedsOf, PausedPaneResumes, Line
<1>2. StayInv => PaneResumes
  BY DEF StayInv, Stays, PaneResumes, NotLeft
<1>3. [Next /\ Within]_vars => [Next]_vars
  OBVIOUS
<1>4. StreamSpec => Spec
  BY <1>3, PTL DEF StreamSpec, Spec
<1>5. Spec => []StayInv
  BY <1>1, StayStep, AlwaysAligned, StreamKept, StdinStaysLast, TypeCorrect, PTL DEF Spec
<1>6. QED BY <1>2, <1>4, <1>5, PTL
==================================================================================
