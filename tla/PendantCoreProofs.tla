-------------------------- MODULE PendantCoreProofs --------------------------
(***************************************************************************)
(* What TLAPS proves of PendantCore for every set of axes, every limit of  *)
(* the queue and every length of macros and jobs.                          *)
(*                                                                         *)
(* Discard is a recursive function over the positions of the queue, so that*)
(* what it returns is proved by induction over them: the least position    *)
(* up to which a claim fails cannot exist.                                 *)
(***************************************************************************)
EXTENDS PendantCore, FiniteSetTheorems, WellFoundedInduction, TLAPS

-----------------------------------------------------------------------------
(* The invariant.                                                          *)

JogsAuthorised ==
    \A i \in Waiting(queue, Axes) : in.deadman /\ ~Inhibited /\ queue[i] = in.axis

AnswersInOrder ==
    /\ awaiting # "none" /\ grbl # <<>> => grbl[Len(grbl)] = awaiting
    /\ ~drift => grbl = <<>> \/ grbl = <<awaiting>>

\* While inhibited, or when the job was ended for good, no line of it waits.
StreamSilent ==
    Inhibited \/ job.state \in {"cancelled", "inhibited", "alarm"} =>
        Waiting(queue, {"stream"}) = {}

\* The lines under way of a job that was not started over an older line.
NoLine == Waiting(queue, {"stream"}) = {} /\ awaiting # "stream"
OneLine ==
    /\ \A i, j \in Waiting(queue, {"stream"}) : i = j
    /\ awaiting = "stream" => Waiting(queue, {"stream"}) = {}
Settled == (job.open /\ ~job.awaiting) \/ job.state \in {"idle", "complete"}
LinesCovered == ~job.leftover => IF Settled THEN NoLine ELSE OneLine

Inv == TypeOK /\ JogsAuthorised /\ AnswersInOrder /\ StreamSilent /\ LinesCovered

-----------------------------------------------------------------------------
(* Induction over positions.                                               *)

LEMMA Positions ==
    ASSUME NEW S, 0 \in S, \A n \in Nat : n \in S => n + 1 \in S
    PROVE  Nat \subseteq S
<1> DEFINE T == Nat \ S
           R == OpToRel(<, Nat)
<1>1. ASSUME T # {} PROVE FALSE
  <2>1. PICK x \in T : \A y \in T : ~(<<y, x>> \in R)
    <3>1. T \subseteq Nat /\ IsWellFoundedOn(R, Nat)
      BY NatLessThanWellFounded
    <3> HIDE DEF T, R
    <3> QED
      BY <1>1, <3>1, WFMin
  <2>2. x # 0 /\ x - 1 \in Nat /\ x - 1 < x
    OBVIOUS
  <2>3. <<x - 1, x>> \in R
    BY <2>2 DEF OpToRel
  <2>4. x - 1 \in S
    BY <2>1, <2>2, <2>3
  <2> QED
    BY <2>2, <2>4
<1> QED
  BY <1>1

-----------------------------------------------------------------------------
(* What Discard returns.                                                   *)

\* f holds what is left of each prefix of q, up to position n.
Keeps(f, q, K, n) ==
    f = [i \in 0..n |-> IF i = 0 THEN <<>>
                        ELSE IF q[i] \in K THEN f[i - 1] ELSE Append(f[i - 1], q[i])]

Kept(q, K) == CHOOSE f : Keeps(f, q, K, Len(q))

\* There is such a function up to every position.
LEMMA KeptExists ==
    ASSUME NEW q, NEW K, NEW n \in Nat
    PROVE  \E f : Keeps(f, q, K, n)
<1> DEFINE S == {m \in Nat : \E f : Keeps(f, q, K, m)}
<1>1. 0 \in S
  <2> DEFINE f == [i \in 0..0 |-> <<>>]
  <2>1. f = [i \in 0..0 |-> IF i = 0 THEN <<>>
                        ELSE IF q[i] \in K THEN f[i - 1] ELSE Append(f[i - 1], q[i])]
    OBVIOUS
  <2> QED
    BY <2>1 DEF Keeps
<1>2. ASSUME NEW m \in Nat, m \in S PROVE m + 1 \in S
  <2>1. PICK f : Keeps(f, q, K, m)
    BY <1>2
  <2> DEFINE last == IF q[m + 1] \in K THEN f[m] ELSE Append(f[m], q[m + 1])
             g == [i \in 0..(m + 1) |-> IF i = m + 1 THEN last ELSE f[i]]
  <2>2. \A i \in 0..m : f[i] = IF i = 0 THEN <<>>
                        ELSE IF q[i] \in K THEN f[i - 1] ELSE Append(f[i - 1], q[i])
    BY <2>1 DEF Keeps
  <2>3. \A i \in 0..(m + 1) :
            g[i] = IF i = 0 THEN <<>>
                   ELSE IF q[i] \in K THEN g[i - 1] ELSE Append(g[i - 1], q[i])
    <3> SUFFICES ASSUME NEW i \in 0..(m + 1)
                 PROVE  g[i] = IF i = 0 THEN <<>>
                               ELSE IF q[i] \in K THEN g[i - 1] ELSE Append(g[i - 1], q[i])
      OBVIOUS
    <3>1. CASE i = m + 1
      <4>1. g[i] = last /\ i # 0 /\ i - 1 = m /\ g[i - 1] = f[m]
        BY <3>1
      <4> QED
        BY <3>1, <4>1
    <3>2. CASE i # m + 1
      <4>1. i \in 0..m /\ g[i] = f[i]
        BY <3>2
      <4>2. i # 0 => i - 1 \in 0..(m + 1) /\ i - 1 # m + 1
        OBVIOUS
      <4>3. i # 0 => g[i - 1] = f[i - 1]
        BY <4>2
      <4> HIDE DEF g
      <4> QED
        BY <2>2, <4>1, <4>3
    <3> QED
      BY <3>1, <3>2
  <2>4. g = [i \in 0..(m + 1) |-> g[i]]
    OBVIOUS
  <2> HIDE DEF g
  <2>5. Keeps(g, q, K, m + 1)
    BY <2>3, <2>4 DEF Keeps
  <2> QED
    BY <2>5
<1> HIDE DEF S
<1>3. Nat \subseteq S
  BY <1>1, <1>2, Positions
<1> QED
  BY <1>3 DEF S

LEMMA KeptFacts ==
    ASSUME NEW T, NEW q \in Seq(T), NEW K
    PROVE  /\ Discard(q, K) = Kept(q, K)[Len(q)]
           /\ Kept(q, K)[0] = <<>>
           /\ \A i \in 1..Len(q) :
                  Kept(q, K)[i] = IF q[i] \in K THEN Kept(q, K)[i - 1]
                                  ELSE Append(Kept(q, K)[i - 1], q[i])
<1>1. Len(q) \in Nat
  OBVIOUS
<1>2. Keeps(Kept(q, K), q, K, Len(q))
  BY <1>1, KeptExists DEF Kept
<1>3. Discard(q, K) = Kept(q, K)[Len(q)]
  BY DEF Discard, Kept, Keeps
<1> DEFINE f == Kept(q, K)
<1>4. \A i \in 0..Len(q) : f[i] = IF i = 0 THEN <<>>
                        ELSE IF q[i] \in K THEN f[i - 1] ELSE Append(f[i - 1], q[i])
  BY <1>2 DEF Keeps
<1> HIDE DEF f
<1>5. f[0] = <<>> /\ \A i \in 1..Len(q) :
                  f[i] = IF q[i] \in K THEN f[i - 1] ELSE Append(f[i - 1], q[i])
  BY <1>1, <1>4
<1> QED
  BY <1>3, <1>5 DEF f

\* h places the items of r among the first n of q, in order and outside K.
Places(h, r, q, K, n) ==
    /\ h \in [1..Len(r) -> 1..n]
    /\ \A i, j \in 1..Len(r) : i < j => h[i] < h[j]
    /\ \A i \in 1..Len(r) : r[i] = q[h[i]] /\ r[i] \notin K

LEMMA PlacesAppend ==
    ASSUME NEW T, NEW r \in Seq(T), NEW x \in T, NEW q, NEW K, NEW m \in Nat,
           NEW h, Places(h, r, q, K, m), q[m + 1] = x, x \notin K
    PROVE  \E g : Places(g, Append(r, x), q, K, m + 1)
<1> DEFINE k == Len(r)
           g == [i \in 1..(k + 1) |-> IF i = k + 1 THEN m + 1 ELSE h[i]]
           new == Append(r, x)
<1>1. k \in Nat /\ Len(new) = k + 1 /\ new[k + 1] = x /\ \A i \in 1..k : new[i] = r[i]
  OBVIOUS
<1>2. /\ h \in [1..k -> 1..m]
      /\ \A i, j \in 1..k : i < j => h[i] < h[j]
      /\ \A i \in 1..k : r[i] = q[h[i]] /\ r[i] \notin K
  BY DEF Places
<1> HIDE DEF new, k
<1>3. k + 1 \in 1..(k + 1) /\ \A i \in 1..(k + 1) : i = k + 1 \/ (i \in 1..k /\ i # k + 1)
  BY <1>1
<1>4. g[k + 1] = m + 1
  BY <1>3
<1>5. \A i \in 1..k : i \in 1..(k + 1) /\ i # k + 1
  BY <1>1
<1>6. \A i \in 1..k : g[i] = h[i]
  BY <1>5
<1>7. \A i \in 1..k : h[i] \in 1..m
  BY <1>2
<1>8. g \in [1..(k + 1) -> 1..(m + 1)]
  <2>1. \A i \in 1..(k + 1) : (IF i = k + 1 THEN m + 1 ELSE h[i]) \in 1..(m + 1)
    BY <1>3, <1>7
  <2> QED
    BY <2>1
<1> HIDE DEF g
<1>9. \A i, j \in 1..(k + 1) : i < j => g[i] < g[j]
  <2> SUFFICES ASSUME NEW i \in 1..(k + 1), NEW j \in 1..(k + 1), i < j PROVE g[i] < g[j]
    OBVIOUS
  <2>1. i \in 1..k
    BY <1>1
  <2>2. g[i] = h[i] /\ h[i] \in 1..m
    BY <1>6, <1>7, <2>1
  <2>3. CASE j = k + 1
    BY <1>4, <2>2, <2>3
  <2>4. CASE j # k + 1
    <3>1. j \in 1..k
      BY <1>3, <2>4
    <3> QED
      BY <1>2, <1>6, <2>1, <3>1
  <2> QED
    BY <2>3, <2>4
<1>10. \A i \in 1..(k + 1) : new[i] = q[g[i]] /\ new[i] \notin K
  BY <1>1, <1>2, <1>3, <1>4, <1>6
<1>11. Places(g, new, q, K, m + 1)
  BY <1>1, <1>8, <1>9, <1>10 DEF Places
<1> QED
  BY <1>11 DEF new

\* What is left are items of the queue, none of the kinds, in the same order.
LEMMA DiscardFacts ==
    ASSUME NEW T, NEW q \in Seq(T), NEW K
    PROVE  /\ Discard(q, K) \in Seq(T) /\ Len(Discard(q, K)) <= Len(q)
           /\ \E h : Places(h, Discard(q, K), q, K, Len(q))
<1> DEFINE f == Kept(q, K)
           P(m) == /\ f[m] \in Seq(T) /\ Len(f[m]) <= m
                   /\ \E h : Places(h, f[m], q, K, m)
           S == {m \in Nat : m <= Len(q) => P(m)}
<1>1. /\ Discard(q, K) = f[Len(q)] /\ f[0] = <<>>
      /\ \A i \in 1..Len(q) :
             f[i] = IF q[i] \in K THEN f[i - 1] ELSE Append(f[i - 1], q[i])
      /\ Len(q) \in Nat /\ \A i \in 1..Len(q) : q[i] \in T
  BY KeptFacts
<1> HIDE DEF f
<1>2. 0 \in S
  <2>1. f[0] \in Seq(T) /\ Len(f[0]) = 0
    BY <1>1
  <2> DEFINE h == [i \in 1..0 |-> 0]
  <2>2. Places(h, f[0], q, K, 0)
    BY <2>1 DEF Places
  <2> QED
    BY <2>1, <2>2
<1>3. ASSUME NEW m \in Nat, m \in S PROVE m + 1 \in S
  <2> SUFFICES ASSUME m + 1 <= Len(q) PROVE P(m + 1)
    OBVIOUS
  <2>1. f[m] \in Seq(T) /\ Len(f[m]) \in Nat /\ Len(f[m]) <= m
    BY <1>1, <1>3
  <2>2. PICK h : Places(h, f[m], q, K, m)
    BY <1>1, <1>3
  <2>3. m + 1 \in 1..Len(q) /\ (m + 1) - 1 = m /\ q[m + 1] \in T
    BY <1>1
  <2>4. CASE q[m + 1] \in K
    <3>1. f[m + 1] = f[m]
      BY <1>1, <2>3, <2>4
    <3>2. Places(h, f[m + 1], q, K, m + 1)
      BY <2>1, <2>2, <3>1 DEF Places
    <3> QED
      BY <2>1, <3>1, <3>2
  <2>5. CASE q[m + 1] \notin K
    <3>1. f[m + 1] = Append(f[m], q[m + 1])
      BY <1>1, <2>3, <2>5
    <3>2. \E g : Places(g, f[m + 1], q, K, m + 1)
      BY <2>1, <2>2, <2>3, <2>5, <3>1, PlacesAppend
    <3>3. f[m + 1] \in Seq(T) /\ Len(f[m + 1]) = Len(f[m]) + 1
      BY <2>1, <2>3, <3>1
    <3> QED
      BY <2>1, <3>2, <3>3
  <2> QED
    BY <2>4, <2>5
<1> HIDE DEF S
<1>4. Nat \subseteq S
  BY <1>2, <1>3, Positions
<1> QED
  BY <1>1, <1>4 DEF S

-----------------------------------------------------------------------------
(* What waits in a queue that changes.                                     *)

\* What waits in r of some kinds waited in q already.
Fewer(r, q, kinds) ==
    \E h \in [Waiting(r, kinds) -> Waiting(q, kinds)] :
        /\ \A i, j \in Waiting(r, kinds) : h[i] = h[j] => i = j
        /\ \A i \in Waiting(r, kinds) : r[i] = q[h[i]]

LEMMA FewerNone ==
    ASSUME NEW r, NEW q, NEW kinds, Waiting(r, kinds) = {}
    PROVE  Fewer(r, q, kinds)
<1> DEFINE h == [i \in Waiting(r, kinds) |-> 0]
<1>1. h \in [Waiting(r, kinds) -> Waiting(q, kinds)]
  OBVIOUS
<1> QED
  BY <1>1 DEF Fewer

LEMMA FewerSame ==
    ASSUME NEW r, NEW q, NEW kinds,
           \A i \in Waiting(r, kinds) : i \in Waiting(q, kinds) /\ r[i] = q[i]
    PROVE  Fewer(r, q, kinds)
<1> DEFINE h == [i \in Waiting(r, kinds) |-> i]
<1>1. /\ h \in [Waiting(r, kinds) -> Waiting(q, kinds)]
      /\ \A i \in Waiting(r, kinds) : h[i] = i
  OBVIOUS
<1> HIDE DEF h
<1> QED
  BY <1>1 DEF Fewer

LEMMA FewerFewer ==
    ASSUME NEW r, NEW s, NEW q, NEW kinds, Fewer(r, s, kinds), Fewer(s, q, kinds)
    PROVE  Fewer(r, q, kinds)
<1>1. PICK g \in [Waiting(r, kinds) -> Waiting(s, kinds)] :
        /\ \A i, j \in Waiting(r, kinds) : g[i] = g[j] => i = j
        /\ \A i \in Waiting(r, kinds) : r[i] = s[g[i]]
  BY DEF Fewer
<1>2. PICK h \in [Waiting(s, kinds) -> Waiting(q, kinds)] :
        /\ \A i, j \in Waiting(s, kinds) : h[i] = h[j] => i = j
        /\ \A i \in Waiting(s, kinds) : s[i] = q[h[i]]
  BY DEF Fewer
<1> DEFINE both == [i \in Waiting(r, kinds) |-> h[g[i]]]
<1>3. both \in [Waiting(r, kinds) -> Waiting(q, kinds)]
  OBVIOUS
<1>4. /\ \A i, j \in Waiting(r, kinds) : both[i] = both[j] => i = j
      /\ \A i \in Waiting(r, kinds) : r[i] = q[both[i]]
  BY <1>1, <1>2
<1> HIDE DEF both
<1> QED
  BY <1>3, <1>4 DEF Fewer

LEMMA FewerDiscard ==
    ASSUME NEW T, NEW q \in Seq(T), NEW K, NEW kinds
    PROVE  Fewer(Discard(q, K), q, kinds)
<1> DEFINE r == Discard(q, K)
<1>1. PICK h : Places(h, r, q, K, Len(q))
  BY DiscardFacts
<1>2. r \in Seq(T) /\ Len(r) \in Nat /\ DOMAIN r = 1..Len(r) /\ DOMAIN q = 1..Len(q)
  BY DiscardFacts
<1> DEFINE g == [i \in Waiting(r, kinds) |-> h[i]]
<1>3. \A i \in Waiting(r, kinds) :
          i \in 1..Len(r) /\ h[i] \in 1..Len(q) /\ r[i] = q[h[i]] /\ r[i] \in kinds
  BY <1>1, <1>2 DEF Places, Waiting
<1>4. g \in [Waiting(r, kinds) -> Waiting(q, kinds)]
  BY <1>2, <1>3 DEF Waiting
<1>5. \A i, j \in 1..Len(r) : h[i] = h[j] => i = j
  <2> SUFFICES ASSUME NEW i \in 1..Len(r), NEW j \in 1..Len(r), h[i] = h[j], i # j
               PROVE  FALSE
    OBVIOUS
  <2>1. h[i] \in 1..Len(q) /\ h[j] \in 1..Len(q)
    BY <1>1 DEF Places
  <2>2. i < j \/ j < i
    BY <1>2
  <2>3. h[i] < h[j] \/ h[j] < h[i]
    BY <1>1, <2>2 DEF Places
  <2> QED
    BY <2>1, <2>3
<1>6. /\ \A i, j \in Waiting(r, kinds) : g[i] = g[j] => i = j
      /\ \A i \in Waiting(r, kinds) : r[i] = q[g[i]]
  BY <1>3, <1>5
<1> HIDE DEF r, g
<1>7. Fewer(r, q, kinds)
  BY <1>4, <1>6 DEF Fewer
<1> QED
  BY <1>7 DEF r

LEMMA DiscardNone ==
    ASSUME NEW T, NEW q \in Seq(T), NEW K, NEW kinds, kinds \subseteq K
    PROVE  Waiting(Discard(q, K), kinds) = {}
<1> DEFINE r == Discard(q, K)
<1>1. PICK h : Places(h, r, q, K, Len(q))
  BY DiscardFacts
<1>2. r \in Seq(T)
  BY DiscardFacts
<1> QED
  BY <1>1, <1>2 DEF Places, Waiting

LEMMA FewerTail ==
    ASSUME NEW T, NEW q \in Seq(T), q # <<>>, NEW kinds
    PROVE  /\ Fewer(Tail(q), q, kinds)
           /\ \A i \in Waiting(Tail(q), kinds) : i + 1 \in Waiting(q, kinds) /\ i + 1 # 1
<1> DEFINE r == Tail(q)
           h == [i \in Waiting(r, kinds) |-> i + 1]
<1>1. /\ r \in Seq(T) /\ Len(r) \in Nat /\ Len(q) = Len(r) + 1
      /\ \A i \in 1..Len(r) : r[i] = q[i + 1]
  OBVIOUS
<1>2. \A i \in Waiting(r, kinds) :
          i \in Nat /\ i + 1 \in Waiting(q, kinds) /\ r[i] = q[i + 1] /\ i + 1 # 1
  <2> HIDE DEF r
  <2> QED
    BY <1>1 DEF Waiting
<1>3. h \in [Waiting(r, kinds) -> Waiting(q, kinds)]
  BY <1>2
<1>4. \A i \in Waiting(r, kinds) : h[i] = i + 1
  OBVIOUS
<1> HIDE DEF r, h
<1>5. /\ \A i, j \in Waiting(r, kinds) : h[i] = h[j] => i = j
      /\ \A i \in Waiting(r, kinds) : r[i] = q[h[i]]
  BY <1>2, <1>4
<1>6. Fewer(r, q, kinds)
  BY <1>3, <1>5 DEF Fewer
<1> QED
  BY <1>2, <1>6 DEF r

LEMMA JoinedFacts ==
    ASSUME NEW T, NEW q \in Seq(T), NEW items \in Seq(T), NEW kinds,
           NEW i \in Waiting(q \o items, kinds)
    PROVE  \/ i \in Waiting(q, kinds) /\ (q \o items)[i] = q[i]
           \/ i - Len(q) \in Waiting(items, kinds) /\ (q \o items)[i] = items[i - Len(q)]
              /\ i \in Nat /\ i > Len(q)
<1> DEFINE r == q \o items
<1>1. /\ Len(q) \in Nat /\ Len(items) \in Nat /\ Len(r) = Len(q) + Len(items) /\ r \in Seq(T)
      /\ i \in 1..Len(r) /\ r[i] \in kinds
  BY DEF Waiting
<1>2. CASE i <= Len(q)
  BY <1>1, <1>2 DEF Waiting
<1>3. CASE i > Len(q)
  <2>1. r[i] = items[i - Len(q)] /\ i - Len(q) \in 1..Len(items)
    BY <1>1, <1>3
  <2> QED
    BY <1>1, <1>3, <2>1 DEF Waiting
<1> QED
  BY <1>1, <1>2, <1>3

LEMMA FewerJoined ==
    ASSUME NEW T, NEW q \in Seq(T), NEW items \in Seq(T), NEW kinds,
           Waiting(items, kinds) = {}
    PROVE  Fewer(q \o items, q, kinds)
BY JoinedFacts, FewerSame

-----------------------------------------------------------------------------
(* Types.                                                                  *)

LEMMA LineFacts ==
    /\ Axes \subseteq Lines /\ {"stream", "action", "macro"} \subseteq Lines
    /\ "none" \notin Lines
    /\ Axes \cap {"stream", "action", "macro", "OFF", "none"} = {}
BY PendantConstants DEF Lines

LEMMA LimitFacts ==
    QueueLimit \in Nat \ {0} /\ MacroLines \in Nat \ {0} /\ JobLines \in Nat \ {0}
BY PendantConstants

\* How each step changes the queue.
Discards ==
    \/ \E K : queue' = Discard(queue, K)
    \/ \E K, L : queue' = Discard(Discard(queue, K), L)
Sends == queue # <<>> /\ queue' = Tail(queue) /\ awaiting = "none" /\ awaiting' = Head(queue)
Joins(items) == queue' = queue \o items /\ Len(queue) + Len(items) <= QueueLimit
Others == {<<"action">>} \cup {[i \in 1..MacroLines |-> "macro"]}
QueueStep ==
    \/ queue' = queue
    \/ queue' = <<>>
    \/ Discards
    \/ Sends
    \/ \E items \in Others : Joins(items)
    \/ Jog /\ in.axis # "OFF" /\ Joins(<<in.axis>>)
    \/ StreamLine /\ Joins(<<"stream">>)

LEMMA QueueSteps ==
    ASSUME TypeOK, Next
    PROVE  QueueStep
<1>1. CASE SampleInputs
  BY <1>1 DEF SampleInputs, InhibitQueue, QueueStep, Discards
<1>2. CASE UIEvent
  <2>1. CASE Jog
    BY <2>1 DEF Jog, Enqueue, QueueStep, Joins
  <2>2. CASE QueueAction
    BY <2>2 DEF QueueAction, Enqueue, QueueStep, Joins, Others
  <2>3. CASE Unlock
    BY <2>3 DEF Unlock, Enqueue, QueueStep, Joins, Others
  <2>4. CASE RunMacro
    BY <2>4 DEF RunMacro, Enqueue, QueueStep, Joins, Others
  <2>5. CASE JogCancel \/ CancelJob \/ SoftReset
    BY <2>5 DEF JogCancel, CancelJog, CancelJob, SoftReset, QueueStep, Discards
  <2>6. CASE StartJob \/ HoldJob \/ ResumeJob \/ RecoverEstop \/ Refused \/ FileGone
    BY <2>6 DEF StartJob, HoldJob, ResumeJob, RecoverEstop, Refused, FileGone, QueueStep
  <2> QED
    BY <1>2, <2>1, <2>2, <2>3, <2>4, <2>5, <2>6 DEF UIEvent
<1>3. CASE ControllerPoll
  <2>1. CASE SendNext
    BY <2>1 DEF SendNext, MaySend, QueueStep, Sends
  <2>2. CASE ParseError \/ ParseAlarm
    BY <2>2 DEF ParseError, ParseAlarm, QueueStep, Discards
  <2>3. CASE BeginController \/ ParseOk \/ ParseBanner \/ ParseStatus
    BY <2>3 DEF BeginController, ParseOk, ParseBanner, ParseStatus, QueueStep
  <2> QED
    BY <1>3, <2>1, <2>2, <2>3 DEF ControllerPoll
<1>4. CASE StreamerPoll
  <2>1. CASE StreamLine
    <3>1. CASE Len(queue) < QueueLimit
      <4>1. queue' = Append(queue, "stream") /\ queue \in Seq(Lines)
        BY <2>1, <3>1 DEF StreamLine, TypeOK
      <4>2. queue' = queue \o <<"stream">> /\ Len(queue) + Len(<<"stream">>) <= QueueLimit
        BY <3>1, <4>1, LimitFacts
      <4> QED
        BY <2>1, <4>2 DEF QueueStep, Joins
    <3>2. CASE ~(Len(queue) < QueueLimit)
      BY <2>1, <3>2 DEF StreamLine, QueueStep
    <3> QED
      BY <3>1, <3>2
  <2>2. CASE StreamIdle \/ StreamTimeout \/ StreamEnd
    BY <2>2 DEF StreamIdle, StreamTimeout, StreamEnd, QueueStep
  <2> QED
    BY <1>4, <2>1, <2>2 DEF StreamerPoll
<1>5. CASE WatchdogPoll
  BY <1>5 DEF WatchdogPoll, WatchdogQuiet, CommunicationTimeout, JogTimeout, CancelJog,
              QueueStep, Discards
<1> QED
  BY <1>1, <1>2, <1>3, <1>4, <1>5 DEF Next

LEMMA ItemFacts ==
    ASSUME NEW items \in Others
    PROVE  /\ items \in Seq(Lines) /\ Waiting(items, Axes) = {} /\ Waiting(items, {"stream"}) = {}
<1>1. CASE items = <<"action">>
  <2>1. items \in Seq(Lines) /\ DOMAIN items = 1..1 /\ items[1] = "action"
    BY <1>1, LineFacts
  <2> QED
    BY <2>1, LineFacts DEF Waiting
<1>2. CASE items = [i \in 1..MacroLines |-> "macro"]
  <2>1. items \in Seq(Lines) /\ \A i \in DOMAIN items : items[i] = "macro"
    BY <1>2, LimitFacts, LineFacts
  <2> QED
    BY <2>1, LineFacts DEF Waiting
<1> QED
  BY <1>1, <1>2 DEF Others

LEMMA OneItem ==
    ASSUME NEW x \in Lines, NEW kinds
    PROVE  /\ <<x>> \in Seq(Lines) /\ Len(<<x>>) = 1 /\ <<x>>[1] = x
           /\ Waiting(<<x>>, kinds) = IF x \in kinds THEN {1} ELSE {}
<1>1. <<x>> \in Seq(Lines) /\ DOMAIN <<x>> = 1..1 /\ <<x>>[1] = x /\ Len(<<x>>) = 1
  OBVIOUS
<1> QED
  BY <1>1 DEF Waiting

\* The queue stays a queue within its limit.
LEMMA QueueType ==
    ASSUME TypeOK, Next
    PROVE  queue' \in Seq(Lines) /\ Len(queue') <= QueueLimit
<1> DEFINE Good(q) == q \in Seq(Lines) /\ Len(q) <= QueueLimit
<1>1. Good(queue) /\ Len(queue) \in Nat /\ QueueLimit \in Nat
  BY LimitFacts DEF TypeOK
<1>2. \A q : Good(q) => \A K : Good(Discard(q, K))
  <2> SUFFICES ASSUME NEW q, Good(q), NEW K PROVE Good(Discard(q, K))
    OBVIOUS
  <2>1. Discard(q, K) \in Seq(Lines) /\ Len(Discard(q, K)) <= Len(q)
    BY DiscardFacts
  <2>2. Len(q) \in Nat /\ Len(Discard(q, K)) \in Nat
    BY <2>1
  <2> QED
    BY <1>1, <2>1, <2>2
<1>3. CASE queue' = queue
  BY <1>1, <1>3
<1>4. CASE queue' = <<>>
  BY <1>1, <1>4
<1>5. CASE Discards
  BY <1>1, <1>2, <1>5 DEF Discards
<1>6. CASE Sends
  BY <1>1, <1>6 DEF Sends
<1>7. ASSUME NEW items \in Seq(Lines), Joins(items) PROVE Good(queue')
  BY <1>1, <1>7 DEF Joins
<1>8. CASE \E items \in Others : Joins(items)
  BY <1>7, <1>8, ItemFacts
<1>9. CASE Jog /\ in.axis # "OFF" /\ Joins(<<in.axis>>)
  <2>1. in.axis \in Lines
    BY <1>9, LineFacts DEF TypeOK
  <2> QED
    BY <1>7, <1>9, <2>1, OneItem
<1>10. CASE StreamLine /\ Joins(<<"stream">>)
  BY <1>7, <1>10, OneItem, LineFacts
<1> QED
  BY <1>3, <1>4, <1>5, <1>6, <1>8, <1>9, <1>10, QueueSteps DEF QueueStep

\* The types of the variables other than the queue.
RestType ==
    /\ stage \in {"inputs", "events", "lines", "stream", "watch", "halted"}
    /\ in \in [estop : BOOLEAN, deadman : BOOLEAN, axis : Axes \cup {"OFF"}]
    /\ st \in [connection : {"disconnected", "connecting", "connected"},
               machine : MachineStates, alarm : BOOLEAN, latched : BOOLEAN,
               jogActive : BOOLEAN, answered : BOOLEAN]
    /\ age \in [{"response", "jog", "send"} -> {"never", "now", "past"}]
    /\ awaiting \in Lines \cup {"none"}
    /\ job \in [state : JobStates, open : BOOLEAN, lines : 0..JobLines,
                awaiting : BOOLEAN, leftover : BOOLEAN]
    /\ grbl \in Seq(Lines) /\ drift \in BOOLEAN

LEMMA FinishType ==
    ASSUME RestType, NEW result \in {"cancelled", "inhibited", "error", "alarm", "complete"}
    PROVE  Finish(job, result) \in [state : JobStates, open : BOOLEAN, lines : 0..JobLines,
                                    awaiting : BOOLEAN, leftover : BOOLEAN]
BY DEF RestType, Finish, JobStates

LEMMA UIType ==
    ASSUME TypeOK, RestType, UIEvent
    PROVE  RestType'
<1> USE DEF RestType
<1>1. CASE Jog
  BY <1>1 DEF Jog, Handling, At
<1>2. CASE JogCancel
  BY <1>2 DEF JogCancel, CancelJog, Handling, At
<1>3. CASE QueueAction \/ Unlock \/ RunMacro
  BY <1>3 DEF QueueAction, Unlock, RunMacro, Handling, At
<1>4. CASE SoftReset
  BY <1>4 DEF SoftReset, Handling, At
<1>5. CASE StartJob
  BY <1>5, LimitFacts DEF StartJob, Handling, At, JobStates
<1>6. CASE HoldJob \/ ResumeJob
  BY <1>6 DEF HoldJob, ResumeJob, Handling, At, JobStates
<1>7. CASE CancelJob
  BY <1>7, FinishType DEF CancelJob, Handling, At
<1>8. CASE RecoverEstop
  BY <1>8 DEF RecoverEstop, Handling, At, MachineStates
<1>9. CASE Refused \/ FileGone
  BY <1>9 DEF Refused, FileGone, Raise
<1> QED
  BY <1>1, <1>2, <1>3, <1>4, <1>5, <1>6, <1>7, <1>8, <1>9 DEF UIEvent

LEMMA ControllerType ==
    ASSUME TypeOK, RestType, ControllerPoll
    PROVE  RestType'
<1> USE DEF RestType
<1>1. CASE BeginController
  BY <1>1 DEF BeginController, At, MachineStates
<1>2. CASE ParseOk \/ ParseError \/ ParseAlarm \/ ParseBanner \/ ParseStatus
  <2>1. stage' \in {"lines"} /\ in' = in /\ age' = [age EXCEPT !.response = "now"]
    BY <1>2 DEF ParseOk, ParseError, ParseAlarm, ParseBanner, ParseStatus, Parsing, At, Heard
  <2>2. awaiting' \in Lines \cup {"none"}
    BY <1>2 DEF ParseOk, ParseError, ParseAlarm, ParseBanner, ParseStatus
  <2>3. grbl' \in Seq(Lines)
    <3>1. grbl' = <<>> \/ grbl' = grbl \/ (grbl # <<>> /\ grbl' = Tail(grbl))
      BY <1>2 DEF ParseOk, ParseError, ParseAlarm, ParseBanner, ParseStatus
    <3>2. CASE grbl' = <<>>
      BY <3>2
    <3>3. CASE grbl' = grbl
      BY <3>3
    <3>4. CASE grbl # <<>> /\ grbl' = Tail(grbl)
      BY <3>4
    <3> QED
      BY <3>1, <3>2, <3>3, <3>4
  <2>4. drift' \in BOOLEAN
    BY <1>2 DEF ParseOk, ParseError, ParseAlarm, ParseBanner, ParseStatus
  <2>5. st' \in [connection : {"disconnected", "connecting", "connected"},
                 machine : MachineStates, alarm : BOOLEAN, latched : BOOLEAN,
                 jogActive : BOOLEAN, answered : BOOLEAN]
    <3>1. Responded(st) \in [connection : {"disconnected", "connecting", "connected"},
                 machine : MachineStates, alarm : BOOLEAN, latched : BOOLEAN,
                 jogActive : BOOLEAN, answered : BOOLEAN]
      BY DEF Responded
    <3>2. Reports \subseteq MachineStates
      BY PendantConstants DEF MachineStates
    <3>3. CASE ParseStatus
      BY <3>1, <3>2, <3>3 DEF ParseStatus
    <3>4. CASE ParseOk \/ ParseError
      BY <3>1, <3>4 DEF ParseOk, ParseError
    <3>5. CASE ParseAlarm \/ ParseBanner
      BY <3>1, <3>5 DEF ParseAlarm, ParseBanner, MachineStates
    <3> QED
      BY <1>2, <3>3, <3>4, <3>5
  <2>6. job' \in [state : JobStates, open : BOOLEAN, lines : 0..JobLines,
                  awaiting : BOOLEAN, leftover : BOOLEAN]
    BY <1>2, FinishType DEF ParseOk, ParseError, ParseAlarm, ParseBanner, ParseStatus
  <2> QED
    BY <2>1, <2>2, <2>3, <2>4, <2>5, <2>6
<1>3. CASE SendNext
  <2>1. UNCHANGED <<in, st, job, drift>> /\ stage' = "stream"
    BY <1>3 DEF SendNext, At
  <2>2. awaiting' \in Lines \cup {"none"} /\ grbl' \in Seq(Lines)
    <3>1. CASE MaySend
      <4>1. Head(queue) \in Lines /\ awaiting' = Head(queue) /\ grbl' = Append(grbl, Head(queue))
        BY <1>3, <3>1 DEF SendNext, MaySend, TypeOK
      <4> QED
        BY <4>1
    <3> QED
      BY <1>3, <3>1 DEF SendNext
  <2>3. age' \in [{"response", "jog", "send"} -> {"never", "now", "past"}]
    BY <1>3 DEF SendNext
  <2> QED
    BY <2>1, <2>2, <2>3
<1> QED
  BY <1>1, <1>2, <1>3 DEF ControllerPoll

LEMMA RestTypes ==
    ASSUME TypeOK, Next
    PROVE  RestType'
<1>1. RestType
  BY DEF TypeOK, RestType
<1>2. CASE SampleInputs
  <2>1. stage' = "events" /\ UNCHANGED <<awaiting, grbl, drift>>
        /\ in' \in [estop : BOOLEAN, deadman : BOOLEAN, axis : Axes \cup {"OFF"}]
    BY <1>2 DEF SampleInputs, At
  <2>2. age' \in [{"response", "jog", "send"} -> {"never", "now", "past"}]
    BY <1>1, <1>2 DEF SampleInputs, RestType
  <2>3. job' \in [state : JobStates, open : BOOLEAN, lines : 0..JobLines,
                  awaiting : BOOLEAN, leftover : BOOLEAN]
    <3>1. job' = job \/ job' = Finish(job, "inhibited")
      BY <1>2 DEF SampleInputs
    <3> QED
      BY <1>1, <3>1, FinishType DEF RestType
  <2>4. st' \in [connection : {"disconnected", "connecting", "connected"},
               machine : MachineStates, alarm : BOOLEAN, latched : BOOLEAN,
               jogActive : BOOLEAN, answered : BOOLEAN]
    <3> DEFINE pressed == in'.estop /\ ~in.estop
    <3>1. st' = [st EXCEPT !.jogActive = @ /\ ~Revokes(in'),
                           !.latched = @ \/ pressed,
                           !.machine = IF pressed THEN "estop" ELSE @]
      BY <1>2 DEF SampleInputs
    <3>2. (st.jogActive /\ ~Revokes(in')) \in BOOLEAN /\ (st.latched \/ pressed) \in BOOLEAN
          /\ (IF pressed THEN "estop" ELSE st.machine) \in MachineStates
      BY <1>1 DEF RestType, MachineStates
    <3> QED
      BY <1>1, <3>1, <3>2 DEF RestType
  <2> QED
    BY <1>1, <2>1, <2>2, <2>3, <2>4 DEF RestType
<1>3. CASE UIEvent
  BY <1>1, <1>3, UIType
<1>4. CASE ControllerPoll
  BY <1>1, <1>4, ControllerType
<1>5. CASE StreamerPoll
  <2>1. stage' = "watch" /\ UNCHANGED <<in, st, awaiting, grbl, drift>>
    BY <1>5 DEF StreamerPoll, StreamIdle, StreamTimeout, StreamLine, StreamEnd, Streaming, At
  <2>2. age' \in [{"response", "jog", "send"} -> {"never", "now", "past"}]
    BY <1>1, <1>5 DEF StreamerPoll, StreamIdle, StreamTimeout, StreamLine, StreamEnd, RestType
  <2>3. job' \in [state : JobStates, open : BOOLEAN, lines : 0..JobLines,
                  awaiting : BOOLEAN, leftover : BOOLEAN]
    <3>1. CASE StreamLine
      <4>1. /\ job.lines > 0 /\ job.lines \in 0..JobLines
            /\ job' = [job EXCEPT !.lines = @ - 1, !.awaiting = Len(queue) < QueueLimit]
        BY <1>1, <3>1 DEF StreamLine, RestType
      <4>2. job.lines - 1 \in 0..JobLines /\ (Len(queue) < QueueLimit) \in BOOLEAN
        BY <4>1, LimitFacts
      <4> QED
        BY <1>1, <4>1, <4>2 DEF RestType
    <3>2. CASE ~StreamLine
      <4>1. job' = job \/ \E r \in {"inhibited", "error", "complete"} : job' = Finish(job, r)
        BY <1>5, <3>2 DEF StreamerPoll, StreamIdle, StreamTimeout, StreamEnd
      <4> QED
        BY <1>1, <4>1, FinishType DEF RestType
    <3> QED
      BY <3>1, <3>2
  <2> QED
    BY <1>1, <2>1, <2>2, <2>3 DEF RestType
<1>6. CASE WatchdogPoll
  BY <1>1, <1>6 DEF WatchdogPoll, WatchdogQuiet, CommunicationTimeout, JogTimeout, CancelJog,
                    Watching, At, RestType, MachineStates
<1> QED
  BY <1>2, <1>3, <1>4, <1>5, <1>6 DEF Next

LEMMA TypeStep ==
    ASSUME TypeOK, [Next]_vars
    PROVE  TypeOK'
<1>1. CASE Next
  BY <1>1, QueueType, RestTypes DEF TypeOK, RestType
<1>2. CASE UNCHANGED vars
  BY <1>2 DEF TypeOK, vars
<1> QED
  BY <1>1, <1>2

-----------------------------------------------------------------------------
(* Jogs.                                                                   *)

\* No step but Jog adds a jog, no step but StreamLine a job line.
LEMMA FewerSteps ==
    ASSUME TypeOK, Next, NEW kinds \in {Axes, {"stream"}}
    PROVE  \/ Fewer(queue', queue, kinds)
           \/ kinds = Axes /\ Jog /\ in.axis \in Axes /\ queue' = queue \o <<in.axis>>
           \/ kinds = {"stream"} /\ StreamLine /\ queue' = queue \o <<"stream">>
<1>1. queue \in Seq(Lines)
  BY DEF TypeOK
<1>2. CASE queue' = queue
  BY <1>2, FewerSame
<1>3. CASE queue' = <<>>
  <2>1. Waiting(queue', kinds) = {}
    BY <1>3 DEF Waiting
  <2> QED
    BY <2>1, FewerNone
<1>4. CASE Discards
  <2>1. CASE \E K : queue' = Discard(queue, K)
    BY <1>1, <2>1, FewerDiscard
  <2>2. CASE \E K, L : queue' = Discard(Discard(queue, K), L)
    <3>1. PICK K, L : queue' = Discard(Discard(queue, K), L)
      BY <2>2
    <3> DEFINE mid == Discard(queue, K)
    <3>2. mid \in Seq(Lines) /\ Fewer(mid, queue, kinds)
      BY <1>1, DiscardFacts, FewerDiscard
    <3> HIDE DEF mid
    <3>3. queue' = Discard(mid, L)
      BY <3>1 DEF mid
    <3>4. Fewer(queue', mid, kinds)
      BY <3>2, <3>3, FewerDiscard
    <3> QED
      BY <3>2, <3>4, FewerFewer
  <2> QED
    BY <1>4, <2>1, <2>2 DEF Discards
<1>5. CASE Sends
  BY <1>1, <1>5, FewerTail DEF Sends
<1>6. CASE \E items \in Others : Joins(items)
  <2>1. PICK items \in Others : queue' = queue \o items
    BY <1>6 DEF Joins
  <2>2. items \in Seq(Lines) /\ Waiting(items, kinds) = {}
    BY ItemFacts
  <2> QED
    BY <1>1, <2>1, <2>2, FewerJoined
<1>7. CASE Jog /\ in.axis # "OFF" /\ Joins(<<in.axis>>)
  <2>1. in.axis \in Axes /\ in.axis \in Lines /\ in.axis # "stream"
    BY <1>7, LineFacts DEF TypeOK
  <2>2. CASE kinds = Axes
    BY <1>7, <2>1, <2>2 DEF Joins
  <2>3. CASE kinds = {"stream"}
    <3>1. Waiting(<<in.axis>>, kinds) = {} /\ <<in.axis>> \in Seq(Lines)
      BY <2>1, <2>3, OneItem
    <3> QED
      BY <1>1, <1>7, <3>1, FewerJoined DEF Joins
  <2> QED
    BY <2>2, <2>3
<1>8. CASE StreamLine /\ Joins(<<"stream">>)
  <2>1. CASE kinds = {"stream"}
    BY <1>8, <2>1 DEF Joins
  <2>2. CASE kinds = Axes
    <3>1. Waiting(<<"stream">>, kinds) = {} /\ <<"stream">> \in Seq(Lines)
      BY <2>2, LineFacts, OneItem
    <3> QED
      BY <1>1, <1>8, <3>1, FewerJoined DEF Joins
  <2> QED
    BY <2>1, <2>2
<1> QED
  BY <1>2, <1>3, <1>4, <1>5, <1>6, <1>7, <1>8, QueueSteps DEF QueueStep

\* Only a new sample changes the inputs, and only it sets the latch.
LEMMA InputsKept ==
    ASSUME TypeOK, Next, ~SampleInputs
    PROVE  in' = in /\ (~st.latched => ~st'.latched)
<1>1. CASE UIEvent
  BY <1>1 DEF UIEvent, Jog, JogCancel, CancelJog, QueueAction, Unlock, RunMacro, SoftReset,
              StartJob, HoldJob, ResumeJob, CancelJob, RecoverEstop, Refused, FileGone, Handling,
              TypeOK
<1>2. CASE ControllerPoll
  BY <1>2 DEF ControllerPoll, BeginController, ParseOk, ParseError, ParseAlarm, ParseBanner,
              ParseStatus, SendNext, Parsing, Responded, TypeOK
<1>3. CASE StreamerPoll
  BY <1>3 DEF StreamerPoll, StreamIdle, StreamTimeout, StreamLine, StreamEnd, Streaming
<1>4. CASE WatchdogPoll
  BY <1>4 DEF WatchdogPoll, WatchdogQuiet, CommunicationTimeout, JogTimeout, CancelJog,
              Watching, TypeOK
<1> QED
  BY <1>1, <1>2, <1>3, <1>4 DEF Next

\* Jogs wait only while nothing has revoked them: the dead-man, the axis and
\* the E-stop stay as they are, or the sample that changes them discards them.
LEMMA JogsStep ==
    ASSUME TypeOK, JogsAuthorised, Next
    PROVE  JogsAuthorised'
<1>1. CASE Waiting(queue', Axes) = {}
  BY <1>1 DEF JogsAuthorised
<1>2. CASE SampleInputs /\ ~Revokes(in')
  <2>1. queue' = queue
    BY <1>2 DEF SampleInputs, Revokes
  <2>2. /\ in.deadman \in BOOLEAN /\ in.estop \in BOOLEAN /\ in'.estop \in BOOLEAN
        /\ in'.deadman \in BOOLEAN
        /\ in.deadman => in'.deadman
        /\ in'.axis = in.axis
        /\ ~in.estop => ~in'.estop
    BY <1>2 DEF SampleInputs, Revokes, TypeOK
  <2>3. ~in'.estop => st'.latched = st.latched
    BY <1>2, <2>2 DEF SampleInputs, TypeOK
  <2> QED
    BY <2>1, <2>2, <2>3 DEF JogsAuthorised, Inhibited
<1>3. CASE SampleInputs /\ Revokes(in')
  <2> DEFINE kept == Discard(queue, Axes)
  <2>1. queue' = kept \/ queue' = Discard(kept, {"stream"})
    BY <1>3 DEF SampleInputs, InhibitQueue
  <2>2. kept \in Seq(Lines) /\ Waiting(kept, Axes) = {}
    BY DiscardFacts, DiscardNone DEF TypeOK
  <2> HIDE DEF kept
  <2>3. Fewer(Discard(kept, {"stream"}), kept, Axes)
    BY <2>2, FewerDiscard
  <2>4. Waiting(queue', Axes) = {}
    BY <2>1, <2>2, <2>3 DEF Fewer
  <2> QED
    BY <1>1, <2>4
<1>4. CASE ~SampleInputs /\ ~Jog
  <2>1. Fewer(queue', queue, Axes)
    <3>1. Axes # {"stream"}
      BY LineFacts
    <3> QED
      BY <1>4, <3>1, FewerSteps
  <2>2. in' = in
    BY <1>4, InputsKept
  <2>3. ~st.latched => ~st'.latched
    BY <1>4, InputsKept
  <2> QED
    BY <2>1, <2>2, <2>3 DEF JogsAuthorised, Fewer, Inhibited, TypeOK
<1>5. CASE Jog
  <2>1. /\ in' = in /\ st'.latched = st.latched /\ in.axis \in Axes
        /\ ~Inhibited /\ in.deadman
    BY <1>5 DEF Jog, Handling, Authorised, TypeOK
  <2>2. ~Inhibited'
    BY <2>1 DEF Inhibited
  <2>3. CASE queue' = queue
    BY <2>1, <2>2, <2>3 DEF JogsAuthorised
  <2>4. CASE queue' = queue \o <<in.axis>>
    <3>1. queue \in Seq(Lines) /\ <<in.axis>> \in Seq(Lines) /\ <<in.axis>>[1] = in.axis
          /\ Waiting(<<in.axis>>, Axes) = {1}
      BY <2>1, OneItem, LineFacts DEF TypeOK
    <3>2. \A i \in Waiting(queue', Axes) :
              \/ i \in Waiting(queue, Axes) /\ queue'[i] = queue[i]
              \/ i - Len(queue) = 1 /\ queue'[i] = <<in.axis>>[i - Len(queue)]
      BY <2>4, <3>1, JoinedFacts
    <3> QED
      BY <2>1, <2>2, <3>1, <3>2 DEF JogsAuthorised
  <2> QED
    BY <1>5, <2>3, <2>4 DEF Jog, Enqueue
<1> QED
  BY <1>2, <1>3, <1>4, <1>5

-----------------------------------------------------------------------------
(* Job lines.                                                              *)

Ended == {"cancelled", "inhibited", "alarm"}

LEMMA NoneLeft ==
    ASSUME NEW r, NEW q, NEW kinds, Fewer(r, q, kinds), Waiting(q, kinds) = {}
    PROVE  Waiting(r, kinds) = {}
BY DEF Fewer

\* The steps that end a job for good discard its lines, or find none.
LEMMA EndedKept ==
    ASSUME TypeOK, Next, ~SampleInputs, ~CancelJob, ~ParseAlarm
    PROVE  job'.state \in Ended => job.state \in Ended \/ Inhibited
<1>1. CASE UIEvent
  <2>1. CASE StartJob \/ HoldJob \/ ResumeJob
    <3>1. job'.state \in {"streaming", "paused"}
      BY <2>1 DEF StartJob, HoldJob, ResumeJob, TypeOK
    <3> QED
      BY <3>1 DEF Ended
  <2>2. CASE ~(StartJob \/ HoldJob \/ ResumeJob)
    <3>1. job' = job
      BY <1>1, <2>2 DEF UIEvent, Jog, JogCancel, QueueAction, Unlock, RunMacro, SoftReset,
                        RecoverEstop, Refused, FileGone
    <3> QED
      BY <3>1
  <2> QED
    BY <2>1, <2>2
<1>2. CASE ControllerPoll
  BY <1>2 DEF ControllerPoll, BeginController, ParseOk, ParseError, ParseBanner, ParseStatus,
              SendNext, Finish, Ended, TypeOK
<1>3. CASE StreamerPoll
  BY <1>3 DEF StreamerPoll, StreamIdle, StreamTimeout, StreamLine, StreamEnd, Finish, Ended,
              TypeOK
<1>4. CASE WatchdogPoll
  BY <1>4 DEF WatchdogPoll, WatchdogQuiet, CommunicationTimeout, JogTimeout, Watching
<1> QED
  BY <1>1, <1>2, <1>3, <1>4 DEF Next

LEMMA SilentStep ==
    ASSUME TypeOK, StreamSilent, Next
    PROVE  StreamSilent'
<1> DEFINE none(q) == Waiting(q, {"stream"}) = {}
<1>1. queue \in Seq(Lines)
  BY DEF TypeOK
<1>2. CASE none(queue')
  BY <1>2 DEF StreamSilent
<1>3. CASE SampleInputs /\ in'.estop /\ ~in.estop
  <2> DEFINE kept == IF Revokes(in') THEN Discard(queue, Axes) ELSE queue
  <2>1. queue' = Discard(kept, {"stream"})
    BY <1>3 DEF SampleInputs, InhibitQueue
  <2>2. kept \in Seq(Lines)
    BY <1>1, DiscardFacts
  <2> HIDE DEF kept
  <2>3. none(queue')
    BY <2>1, <2>2, DiscardNone
  <2> QED
    BY <1>2, <2>3
<1>4. CASE SampleInputs /\ ~(in'.estop /\ ~in.estop)
  <2>1. /\ job' = job /\ (in'.estop => in.estop)
        /\ queue' = queue \/ queue' = Discard(queue, Axes)
    BY <1>4 DEF SampleInputs
  <2>2. st'.latched => st.latched
    BY <1>4 DEF SampleInputs, TypeOK
  <2>3. none(queue) => none(queue')
    BY <1>1, <2>1, FewerDiscard, NoneLeft
  <2> QED
    BY <2>1, <2>2, <2>3 DEF StreamSilent, Inhibited
<1>5. CASE CancelJob
  <2>1. queue' = Discard(queue, Axes \cup {"stream"})
    BY <1>5 DEF CancelJob
  <2>2. none(queue')
    BY <1>1, <2>1, DiscardNone
  <2> QED
    BY <1>2, <2>2
<1>6. CASE ParseAlarm
  <2>1. none(queue')
    BY <1>6 DEF ParseAlarm, Waiting
  <2> QED
    BY <1>2, <2>1
<1>7. CASE StreamLine
  <2>1. ~Inhibited /\ job'.state = "streaming" /\ in' = in /\ st' = st
    BY <1>7 DEF StreamLine, Producing, Streaming, TypeOK
  <2> QED
    BY <2>1 DEF StreamSilent, Inhibited
<1>8. CASE ~SampleInputs /\ ~CancelJob /\ ~ParseAlarm /\ ~StreamLine
  <2>1. none(queue) => none(queue')
    <3>1. Axes # {"stream"}
      BY LineFacts
    <3>2. Fewer(queue', queue, {"stream"})
      BY <1>8, <3>1, FewerSteps
    <3> QED
      BY <3>2, NoneLeft
  <2>2. Inhibited' => Inhibited
    BY <1>8, InputsKept DEF Inhibited
  <2>3. job'.state \in Ended => job.state \in Ended \/ Inhibited
    BY <1>8, EndedKept
  <2> QED
    BY <2>1, <2>2, <2>3 DEF StreamSilent, Ended
<1> QED
  BY <1>3, <1>4, <1>5, <1>6, <1>7, <1>8

\* The steps that neither start a job, nor move its line on, nor answer it.
LEMMA JobKept ==
    ASSUME TypeOK, Next, ~StartJob, ~ParseOk, ~SendNext, ~StreamLine
    PROVE  /\ job'.leftover = job.leftover /\ (Settled' => Settled)
           /\ awaiting' \in {awaiting, "none"}
<1>1. CASE SampleInputs
  BY <1>1 DEF SampleInputs, Finish, TypeOK, Settled
<1>2. CASE UIEvent
  BY <1>2 DEF UIEvent, Jog, JogCancel, QueueAction, Unlock, RunMacro, SoftReset, HoldJob,
              ResumeJob, CancelJob, RecoverEstop, Refused, FileGone, Finish, TypeOK, Settled
<1>3. CASE ControllerPoll
  BY <1>3 DEF ControllerPoll, BeginController, ParseError, ParseAlarm, ParseBanner, ParseStatus,
              Finish, TypeOK, Settled
<1>4. CASE StreamerPoll
  BY <1>4 DEF StreamerPoll, StreamIdle, StreamTimeout, StreamEnd, Streaming, Producing, Finish,
              TypeOK, Settled
<1>5. CASE WatchdogPoll
  BY <1>5 DEF WatchdogPoll, WatchdogQuiet, CommunicationTimeout, JogTimeout, Watching, Settled
<1> QED
  BY <1>1, <1>2, <1>3, <1>4, <1>5 DEF Next

LEMMA OneLeft ==
    ASSUME NEW r, NEW q, NEW kinds, Fewer(r, q, kinds),
           \A i, j \in Waiting(q, kinds) : i = j
    PROVE  \A i, j \in Waiting(r, kinds) : i = j
BY DEF Fewer

\* A line of the job is read only when none is under way, and its answer or
\* the job's end is what lets the next one be read.
LEMMA CoveredStep ==
    ASSUME TypeOK, LinesCovered, Next
    PROVE  LinesCovered'
<1> DEFINE lines(q) == Waiting(q, {"stream"})
<1>1. queue \in Seq(Lines) /\ job.open \in BOOLEAN /\ job.awaiting \in BOOLEAN
      /\ job.leftover \in BOOLEAN /\ "none" # "stream"
  BY DEF TypeOK
<1>2. CASE StartJob
  <2>1. /\ job' = [state |-> "streaming", open |-> TRUE, lines |-> JobLines, awaiting |-> FALSE,
                   leftover |-> awaiting = "stream" \/ lines(queue) # {}]
        /\ queue' = queue /\ awaiting' = awaiting
    BY <1>2 DEF StartJob
  <2> QED
    BY <2>1 DEF LinesCovered, NoLine, Settled
<1>3. CASE ParseOk
  <2>1. /\ queue' = queue /\ awaiting' = "none"
        /\ job' = IF job.open /\ awaiting = "stream" THEN [job EXCEPT !.awaiting = FALSE] ELSE job
    BY <1>3 DEF ParseOk
  <2>2. CASE job.open /\ awaiting = "stream"
    <3>1. job'.leftover = job.leftover
      BY <2>1, <2>2 DEF TypeOK
    <3>2. ~job.leftover => lines(queue) = {}
      BY <2>2 DEF LinesCovered, OneLine, NoLine
    <3> QED
      BY <2>1, <3>1, <3>2 DEF LinesCovered, NoLine, OneLine
  <2>3. CASE ~(job.open /\ awaiting = "stream")
    BY <2>1, <2>3 DEF LinesCovered, NoLine, OneLine, Settled
  <2> QED
    BY <2>2, <2>3
<1>4. CASE SendNext /\ MaySend
  <2>1. /\ queue # <<>> /\ queue' = Tail(queue) /\ awaiting' = Head(queue) /\ job' = job
    BY <1>4 DEF SendNext, MaySend
  <2>2. /\ Fewer(queue', queue, {"stream"})
        /\ \A i \in lines(queue') : i + 1 \in lines(queue) /\ i + 1 # 1
    BY <1>1, <2>1, FewerTail
  <2>3. awaiting' = "stream" => 1 \in lines(queue)
    BY <1>1, <2>1 DEF Waiting
  <2>4. NoLine => NoLine'
    BY <2>2, <2>3, NoneLeft DEF NoLine
  <2>5. OneLine => OneLine'
    BY <2>2, <2>3, OneLeft DEF OneLine
  <2> QED
    BY <2>1, <2>4, <2>5 DEF LinesCovered, Settled
<1>5. CASE SendNext /\ ~MaySend
  BY <1>5 DEF SendNext, LinesCovered, OneLine, NoLine, Settled
<1>6. CASE StreamLine
  <2>1. /\ job.open /\ ~job.awaiting /\ job.state = "streaming" /\ awaiting' = awaiting
        /\ job' = [job EXCEPT !.lines = @ - 1, !.awaiting = Len(queue) < QueueLimit]
        /\ queue' = IF Len(queue) < QueueLimit THEN Append(queue, "stream") ELSE queue
    BY <1>6 DEF StreamLine, Streaming, Producing
  <2>2. /\ job'.leftover = job.leftover /\ job'.state = "streaming" /\ job'.open
        /\ job'.awaiting = (Len(queue) < QueueLimit)
    BY <2>1 DEF TypeOK
  <2>3. SUFFICES ASSUME ~job.leftover
                 PROVE  IF job'.awaiting THEN OneLine' ELSE NoLine'
    BY <2>2 DEF LinesCovered, Settled
  <2>4. NoLine
    BY <2>1, <2>3 DEF LinesCovered, Settled
  <2>5. CASE Len(queue) < QueueLimit
    <3>1. queue' = Append(queue, "stream")
      BY <2>1, <2>5
    <3>2. \A i \in lines(queue') : i = Len(queue) + 1
      <4>1. /\ DOMAIN queue' = 1..(Len(queue) + 1) /\ Len(queue) \in Nat
            /\ \A i \in 1..Len(queue) : queue'[i] = queue[i] /\ i \in DOMAIN queue
        BY <1>1, <3>1
      <4> QED
        BY <2>4, <4>1 DEF NoLine, Waiting
    <3> QED
      BY <2>1, <2>2, <2>4, <2>5, <3>2 DEF OneLine, NoLine
  <2>6. CASE ~(Len(queue) < QueueLimit)
    BY <2>1, <2>2, <2>4, <2>6 DEF NoLine
  <2> QED
    BY <2>5, <2>6
<1>7. CASE ~StartJob /\ ~ParseOk /\ ~SendNext /\ ~StreamLine
  <2>1. Fewer(queue', queue, {"stream"})
    <3>1. Axes # {"stream"}
      BY LineFacts
    <3> QED
      BY <1>7, <3>1, FewerSteps
  <2>2. /\ job'.leftover = job.leftover /\ (Settled' => Settled)
        /\ awaiting' \in {awaiting, "none"}
    BY <1>7, JobKept
  <2>3. NoLine => NoLine'
    BY <1>1, <2>1, <2>2, NoneLeft DEF NoLine
  <2>4. OneLine => OneLine'
    BY <1>1, <2>1, <2>2, OneLeft, NoneLeft DEF OneLine
  <2> QED
    <3>1. NoLine => OneLine
      BY DEF NoLine, OneLine
    <3> QED
      BY <2>2, <2>3, <2>4, <3>1 DEF LinesCovered
<1> QED
  BY <1>2, <1>3, <1>4, <1>5, <1>6, <1>7

-----------------------------------------------------------------------------
(* Answers.                                                                *)

LEMMA AnswersStep ==
    ASSUME TypeOK, AnswersInOrder, Next
    PROVE  AnswersInOrder'
<1>1. grbl \in Seq(Lines) /\ drift \in BOOLEAN /\ awaiting \in Lines \cup {"none"}
  BY DEF TypeOK
<1>2. CASE ParseOk \/ ParseError
  <2>1. grbl # <<>> /\ grbl' = Tail(grbl) /\ drift' = (drift /\ Len(grbl) > 1)
    BY <1>2 DEF ParseOk, ParseError
  <2>2. ~drift => grbl' = <<>>
    BY <1>1, <2>1 DEF AnswersInOrder
  <2>3. ~(Len(grbl) > 1) => grbl' = <<>>
    BY <1>1, <2>1
  <2>4. awaiting' = "none"
    BY <1>2 DEF ParseOk, ParseError
  <2> QED
    BY <2>1, <2>2, <2>3, <2>4 DEF AnswersInOrder
<1>3. CASE ParseAlarm \/ ParseBanner
  BY <1>3 DEF ParseAlarm, ParseBanner, AnswersInOrder
<1>4. CASE SendNext
  <2>1. CASE MaySend
    <3>1. /\ awaiting = "none" /\ grbl' = Append(grbl, Head(queue)) /\ awaiting' = Head(queue)
          /\ drift' = drift
      BY <1>4, <2>1 DEF SendNext, MaySend
    <3>2. ~drift => grbl = <<>>
      <4>1. grbl # <<"none">>
        <5>1. ASSUME grbl = <<"none">> PROVE FALSE
          <6>1. 1 \in 1..Len(grbl) /\ grbl[1] = "none"
            BY <5>1
          <6> QED
            BY <1>1, <6>1, LineFacts
        <5> QED
          BY <5>1
      <4> QED
        BY <3>1, <4>1 DEF AnswersInOrder
    <3>3. ~drift => grbl' = <<awaiting'>>
      BY <3>1, <3>2
    <3>4. grbl'[Len(grbl')] = awaiting'
      BY <1>1, <3>1
    <3> QED
      BY <3>1, <3>3, <3>4 DEF AnswersInOrder
  <2> QED
    BY <1>4, <2>1 DEF SendNext, AnswersInOrder
<1>5. CASE SoftReset
  BY <1>1, <1>5 DEF SoftReset, Handling, AnswersInOrder
<1>6. CASE UNCHANGED <<awaiting, grbl, drift>>
  BY <1>6 DEF AnswersInOrder
<1>7. \/ ParseOk \/ ParseError \/ ParseAlarm \/ ParseBanner \/ SendNext \/ SoftReset
      \/ UNCHANGED <<awaiting, grbl, drift>>
  <2>1. CASE SampleInputs
    BY <2>1 DEF SampleInputs
  <2>2. CASE UIEvent
    BY <2>2 DEF UIEvent, Jog, JogCancel, QueueAction, Unlock, RunMacro, StartJob, HoldJob,
                ResumeJob, CancelJob, RecoverEstop, Refused, FileGone, Handling
  <2>3. CASE ControllerPoll
    BY <2>3 DEF ControllerPoll, BeginController, ParseStatus
  <2>4. CASE StreamerPoll \/ WatchdogPoll
    BY <2>4 DEF StreamerPoll, StreamIdle, StreamTimeout, StreamLine, StreamEnd, Streaming,
                WatchdogPoll, WatchdogQuiet, CommunicationTimeout, JogTimeout, Watching
  <2> QED
    BY <2>1, <2>2, <2>3, <2>4 DEF Next
<1> QED
  BY <1>2, <1>3, <1>4, <1>5, <1>6, <1>7

-----------------------------------------------------------------------------
(* The theorems.                                                           *)

LEMMA InitInv == Init => Inv
<1> SUFFICES ASSUME Init PROVE Inv
  OBVIOUS
<1>1. queue = <<>> /\ Waiting(queue, Axes) = {} /\ Waiting(queue, {"stream"}) = {}
  BY DEF Init, Waiting
<1>2. TypeOK
  <2>1. queue \in Seq(Lines) /\ Len(queue) <= QueueLimit /\ grbl \in Seq(Lines)
    BY LimitFacts DEF Init
  <2>2. age \in [{"response", "jog", "send"} -> {"never", "now", "past"}]
    BY DEF Init
  <2>3. job \in [state : JobStates, open : BOOLEAN, lines : 0..JobLines,
                awaiting : BOOLEAN, leftover : BOOLEAN]
    BY LimitFacts DEF Init, JobStates
  <2> QED
    BY <2>1, <2>2, <2>3 DEF Init, TypeOK, MachineStates
<1>3. JogsAuthorised /\ AnswersInOrder /\ StreamSilent
  BY <1>1 DEF Init, JogsAuthorised, AnswersInOrder, StreamSilent
<1>4. LinesCovered
  BY <1>1 DEF Init, LinesCovered, NoLine, OneLine
<1> QED
  BY <1>2, <1>3, <1>4 DEF Inv

LEMMA InvStep == Inv /\ [Next]_vars => Inv'
<1> SUFFICES ASSUME Inv, [Next]_vars PROVE Inv'
  OBVIOUS
<1>1. TypeOK'
  BY TypeStep DEF Inv
<1>2. CASE Next
  BY <1>1, <1>2, JogsStep, AnswersStep, SilentStep, CoveredStep DEF Inv
<1>3. CASE UNCHANGED vars
  <2>1. JogsAuthorised' /\ StreamSilent'
    BY <1>3 DEF vars, Inv, JogsAuthorised, StreamSilent, Inhibited
  <2>2. AnswersInOrder' /\ LinesCovered'
    BY <1>3 DEF vars, Inv, AnswersInOrder, LinesCovered, NoLine, OneLine, Settled
  <2> QED
    BY <1>1, <2>1, <2>2 DEF Inv
<1> QED
  BY <1>2, <1>3

LEMMA Invariance == Spec => []Inv
BY InitInv, InvStep, PTL DEF Spec

\* Every variable of the loop keeps its type and the queue its limit, for every
\* limit of the queue and every length of macros and jobs.
THEOREM CoreTypeCorrect == Spec => []TypeOK
BY Invariance, PTL DEF Inv

\* A jog waits to be sent only for the axis still selected, with the dead-man
\* held ever since it was turned and no E-stop.
THEOREM CoreQueuedJogAuthorised == Spec => []QueuedJogAuthorised
<1>1. Inv => QueuedJogAuthorised
  <2> SUFFICES ASSUME Inv, Waiting(queue, Axes) # {}
               PROVE  /\ in.deadman /\ ~Inhibited
                      /\ Waiting(queue, {in.axis}) = Waiting(queue, Axes)
    BY DEF QueuedJogAuthorised
  <2>1. \A i \in Waiting(queue, Axes) : in.deadman /\ ~Inhibited /\ queue[i] = in.axis
    BY DEF Inv, JogsAuthorised
  <2>2. in.axis \in Axes
    BY <2>1 DEF Waiting
  <2> QED
    BY <2>1, <2>2 DEF Waiting
<1> QED
  BY <1>1, Invariance, PTL

\* A command that awaits its answer is the last GRBL has to answer, whatever it
\* still owes for commands forgotten, and else the only one.
THEOREM CoreAnswersMatch == Spec => []AnswersMatch
<1>1. Inv => AnswersMatch
  BY DEF Inv, AnswersInOrder, AnswersMatch
<1> QED
  BY <1>1, Invariance, PTL

\* Over no older line, a job has one line under way at most and leaves one only
\* when an error or a time-out ended it; one that was cancelled, inhibited or
\* alarmed leaves none in the queue.
THEOREM CoreJobLineByLine == Spec => []JobLineByLine
<1>1. Inv => JobLineByLine
  <2> SUFFICES ASSUME Inv PROVE JobLineByLine
    OBVIOUS
  <2> DEFINE lines == Waiting(queue, {"stream"})
             sent == IF awaiting = "stream" THEN 1 ELSE 0
  <2>1. job.state \in {"cancelled", "inhibited", "alarm"} => lines = {}
    BY DEF Inv, StreamSilent
  <2>2. ASSUME ~job.leftover
        PROVE  Cardinality(lines) + sent <= IF Settled THEN 0 ELSE 1
    <3>1. IF Settled THEN NoLine ELSE OneLine
      BY <2>2 DEF Inv, LinesCovered
    <3>2. CASE lines = {}
      <4>1. Cardinality(lines) = 0
        BY <3>2, FS_EmptySet
      <4>2. Settled => awaiting # "stream"
        BY <3>1 DEF NoLine
      <4> QED
        BY <4>1, <4>2
    <3>3. CASE lines # {}
      <4>1. ~Settled /\ OneLine /\ awaiting # "stream"
        BY <3>1, <3>3 DEF NoLine, OneLine
      <4>2. PICK i : lines = {i}
        BY <3>3, <4>1 DEF OneLine
      <4>3. Cardinality(lines) = 1
        BY <4>2, FS_Singleton
      <4> QED
        BY <4>1, <4>3
    <3> QED
      BY <3>2, <3>3
  <2> QED
    BY <2>1, <2>2 DEF JobLineByLine, Settled
<1> QED
  BY <1>1, Invariance, PTL

\* While E-stop is observed or latched neither a jog nor a job line is written
\* to GRBL, whatever was queued or streaming before.
THEOREM CoreEstopSilences == Spec => EstopSilences
<1>1. Inv /\ [Next]_vars =>
        [Len(grbl') > Len(grbl) /\ Inhibited =>
             grbl'[Len(grbl')] \in {"action", "macro"}]_vars
  <2> SUFFICES ASSUME Inv, Next, Len(grbl') > Len(grbl), Inhibited
               PROVE  grbl'[Len(grbl')] \in {"action", "macro"}
    OBVIOUS
  <2>1. grbl \in Seq(Lines) /\ queue \in Seq(Lines)
    BY DEF Inv, TypeOK
  <2>2. SendNext /\ MaySend
    <3>1. grbl' # grbl /\ grbl' # <<>> /\ (grbl # <<>> => grbl' # Tail(grbl))
      BY <2>1
    <3>2. \/ grbl' = grbl \/ grbl' = <<>> \/ (grbl # <<>> /\ grbl' = Tail(grbl))
          \/ SendNext /\ MaySend
      <4>1. CASE SampleInputs
        BY <4>1 DEF SampleInputs
      <4>2. CASE UIEvent
        BY <4>2 DEF UIEvent, Jog, JogCancel, QueueAction, Unlock, RunMacro, SoftReset, StartJob,
                    HoldJob, ResumeJob, CancelJob, RecoverEstop, Refused, FileGone, Handling
      <4>3. CASE ControllerPoll
        BY <4>3 DEF ControllerPoll, BeginController, ParseOk, ParseError, ParseAlarm, ParseBanner,
                    ParseStatus, SendNext
      <4>4. CASE StreamerPoll \/ WatchdogPoll
        BY <4>4 DEF StreamerPoll, StreamIdle, StreamTimeout, StreamLine, StreamEnd, Streaming,
                    WatchdogPoll, WatchdogQuiet, CommunicationTimeout, JogTimeout, Watching
      <4> QED
        BY <4>1, <4>2, <4>3, <4>4 DEF Next
    <3> QED
      BY <3>1, <3>2
  <2>3. queue # <<>> /\ grbl' = Append(grbl, Head(queue))
    BY <2>2 DEF SendNext, MaySend
  <2>4. grbl'[Len(grbl')] = queue[1] /\ queue[1] \in Lines /\ 1 \in DOMAIN queue
    BY <2>1, <2>3
  <2>5. queue[1] \notin Axes /\ queue[1] # "stream"
    BY <2>4 DEF Inv, JogsAuthorised, StreamSilent, Waiting
  <2> QED
    BY <2>4, <2>5 DEF Lines
<1> QED
  BY <1>1, Invariance, PTL DEF Spec, EstopSilences
=============================================================================
