---------------------------- MODULE SequenceFacts ----------------------------
(***************************************************************************)
(* What the proofs need to know of sequences.  A stream is the packets on  *)
(* the wire followed by those in the write buffer: s \o t.                 *)
(***************************************************************************)
EXTENDS Integers, Sequences, SequenceTheorems, TLAPS

\* What Append does.
LEMMA Appended ==
  ASSUME NEW S, NEW s \in Seq(S), NEW x \in S
  PROVE  /\ Append(s, x) \in Seq(S) /\ Len(Append(s, x)) = Len(s) + 1
         /\ \A i \in 1 .. Len(s) : Append(s, x)[i] = s[i]
         /\ Append(s, x)[Len(s) + 1] = x
  OBVIOUS

\* What Head and Tail take from a sequence.
LEMMA TailTaken ==
  ASSUME NEW S, NEW s \in Seq(S), s # << >>
  PROVE  /\ Tail(s) \in Seq(S) /\ Len(Tail(s)) = Len(s) - 1 /\ Len(s) > 0
         /\ \A i \in 1 .. Len(s) - 1 : Tail(s)[i] = s[i + 1]
         /\ Head(s) = s[1] /\ Head(s) \in S
  OBVIOUS

\* What SubSeq takes from the front of a sequence.
LEMMA PrefixTaken ==
  ASSUME NEW S, NEW s \in Seq(S), NEW n \in 0 .. Len(s)
  PROVE  /\ SubSeq(s, 1, n) \in Seq(S) /\ Len(SubSeq(s, 1, n)) = n
         /\ \A i \in 1 .. n : SubSeq(s, 1, n)[i] = s[i]
  OBVIOUS

\* What SubSeq takes from the back of a sequence.
LEMMA SuffixTaken ==
  ASSUME NEW S, NEW s \in Seq(S), NEW n \in 0 .. Len(s)
  PROVE  /\ SubSeq(s, n + 1, Len(s)) \in Seq(S) /\ Len(SubSeq(s, n + 1, Len(s))) = Len(s) - n
         /\ \A i \in 1 .. Len(s) - n : SubSeq(s, n + 1, Len(s))[i] = s[n + i]
  OBVIOUS

\* What concatenation does.
LEMMA Joined ==
  ASSUME NEW S, NEW s \in Seq(S), NEW t \in Seq(S)
  PROVE  /\ s \o t \in Seq(S) /\ Len(s \o t) = Len(s) + Len(t)
         /\ \A i \in 1 .. Len(s) : (s \o t)[i] = s[i]
         /\ \A i \in 1 .. Len(t) : (s \o t)[Len(s) + i] = t[i]
  OBVIOUS

\* Two sequences with the same elements are the same.
LEMMA Same ==
  ASSUME NEW S, NEW s \in Seq(S), NEW t \in Seq(S), Len(s) = Len(t),
         \A i \in 1 .. Len(s) : s[i] = t[i]
  PROVE  s = t
  OBVIOUS

\* What is appended to the second part of a sequence comes last.
LEMMA JoinAppend ==
  ASSUME NEW S, NEW s \in Seq(S), NEW t \in Seq(S), NEW x \in S
  PROVE  s \o Append(t, x) = Append(s \o t, x)
  OBVIOUS

\* What is taken from the first part of a sequence came first.
LEMMA JoinTail ==
  ASSUME NEW S, NEW s \in Seq(S), NEW t \in Seq(S), s # << >>
  PROVE  /\ s \o t # << >> /\ Head(s \o t) = Head(s)
         /\ Tail(s) \o t = Tail(s \o t)
  OBVIOUS

\* What moves from the second part to the first changes nothing.
LEMMA JoinMove ==
  ASSUME NEW S, NEW s \in Seq(S), NEW t \in Seq(S), NEW k \in 0 .. Len(t)
  PROVE  (s \o SubSeq(t, 1, k)) \o SubSeq(t, k + 1, Len(t)) = s \o t
<1> DEFINE p == SubSeq(t, 1, k)
           q == SubSeq(t, k + 1, Len(t))
<1>0. Len(t) \in Nat /\ k \in Nat /\ k <= Len(t)
  OBVIOUS
<1>1. p \in Seq(S) /\ Len(p) = k /\ \A i \in 1 .. k : p[i] = t[i]
  BY PrefixTaken
<1>2. q \in Seq(S) /\ Len(q) = Len(t) - k /\ \A i \in 1 .. Len(t) - k : q[i] = t[k + i]
  BY SuffixTaken
<1> HIDE DEF p, q
<1>3. p \o q \in Seq(S) /\ Len(p \o q) = Len(t)
  <2>1. p \o q \in Seq(S) /\ Len(p \o q) = Len(p) + Len(q)
    BY <1>1, <1>2, Joined
  <2> QED
    BY <2>1, <1>0, <1>1, <1>2
<1>4. ASSUME NEW i \in 1 .. Len(t)
      PROVE  (p \o q)[i] = t[i]
  <2>1. CASE i <= k
    BY <1>1, <1>2, <2>1
  <2>2. CASE i > k
    <3>1. i - k \in 1 .. Len(q) /\ i = k + (i - k)
      BY <2>2, <1>2
    <3>2. (p \o q)[Len(p) + (i - k)] = q[i - k]
      BY <3>1, <1>1, <1>2, Joined
    <3> QED
      BY <3>1, <3>2, <1>1, <1>2
  <2>3. i <= k \/ i > k
    BY <1>0
  <2> QED
    BY <2>1, <2>2, <2>3
<1>5. p \o q = t
  BY <1>3, <1>4, Same
<1>6. (s \o p) \o q = s \o (p \o q)
  BY <1>1, <1>2
<1> QED
  BY <1>5, <1>6 DEF p, q

\* The front of the first part is the front of the whole.
LEMMA JoinPrefix ==
  ASSUME NEW S, NEW s \in Seq(S), NEW t \in Seq(S), NEW n \in 0 .. Len(s)
  PROVE  SubSeq(s \o t, 1, n) = SubSeq(s, 1, n)
  OBVIOUS

\* What is left of the steps s after i of them.
LEMMA StepsLeft ==
  ASSUME NEW S, NEW s \in Seq(S), NEW i \in 0 .. Len(s)
  PROVE  /\ SubSeq(s, i + 1, Len(s)) \in Seq(S)
         /\ i = Len(s) <=> SubSeq(s, i + 1, Len(s)) = << >>
         /\ i < Len(s) => /\ Head(SubSeq(s, i + 1, Len(s))) = s[i + 1]
                          /\ Tail(SubSeq(s, i + 1, Len(s))) = SubSeq(s, (i + 1) + 1, Len(s))
<1> DEFINE q == SubSeq(s, i + 1, Len(s))
<1>0. Len(s) \in Nat /\ i \in Nat /\ i <= Len(s)
  OBVIOUS
<1>1. q \in Seq(S) /\ Len(q) = Len(s) - i /\ \A k \in 1 .. Len(s) - i : q[k] = s[i + k]
  BY SuffixTaken
<1> HIDE DEF q
<1>2. i = Len(s) <=> q = << >>
  BY <1>0, <1>1
<1>3. ASSUME i < Len(s)
      PROVE  Head(q) = s[i + 1] /\ Tail(q) = SubSeq(s, (i + 1) + 1, Len(s))
  <2> DEFINE r == SubSeq(s, (i + 1) + 1, Len(s))
  <2>1. i + 1 \in 0 .. Len(s)
    BY <1>0, <1>3
  <2>2. r \in Seq(S) /\ Len(r) = Len(s) - (i + 1) /\ \A k \in 1 .. Len(s) - (i + 1) : r[k] = s[(i + 1) + k]
    BY <2>1, SuffixTaken
  <2> HIDE DEF r
  <2>3. /\ Tail(q) \in Seq(S) /\ Len(Tail(q)) = Len(q) - 1 /\ Head(q) = q[1]
        /\ \A k \in 1 .. Len(q) - 1 : Tail(q)[k] = q[k + 1]
    BY <1>0, <1>1, <1>2, <1>3, TailTaken
  <2>4. Head(q) = s[i + 1]
    BY <1>0, <1>1, <1>3, <2>3
  <2>5. ASSUME NEW k \in 1 .. Len(r)
        PROVE  Tail(q)[k] = r[k]
    <3>1. k \in Nat /\ k + 1 \in 1 .. Len(s) - i /\ k \in 1 .. Len(q) - 1 /\ i + (k + 1) = (i + 1) + k
      BY <1>0, <1>1, <1>3, <2>2
    <3>2. Tail(q)[k] = s[i + (k + 1)]
      BY <1>1, <2>3, <3>1
    <3> QED
      BY <2>2, <3>1, <3>2
  <2>6. Len(Tail(q)) = Len(r)
    BY <1>0, <1>1, <2>2, <2>3
  <2>7. Tail(q) = r
    BY <2>2, <2>3, <2>5, <2>6, Same
  <2> QED
    BY <2>4, <2>7 DEF r
<1> QED
  BY <1>1, <1>2, <1>3 DEF q
=============================================================================
