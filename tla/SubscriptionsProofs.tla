------------------------ MODULE SubscriptionsProofs -------------------------
(***************************************************************************)
(* Facts about sequences of commands that the proofs of both feed handlers *)
(* need: a command may be taken from the front and applied, or be put      *)
(* behind the others.                                                      *)
(***************************************************************************)
EXTENDS Subscriptions, SequenceTheorems, TLAPS

\* Applying the first command and then the others is applying all of them.
LEMMA OutcomeOfTail ==
  ASSUME NEW ids, NEW subs \in SUBSET ids, NEW q \in Seq(Commands(ids)), q # << >>
  PROVE  /\ Meant(subs, Head(q)) \in SUBSET ids
         /\ Outcome(ids, Meant(subs, Head(q)), Tail(q)) = Outcome(ids, subs, q)
<1> DEFINE r == Tail(q)
           s == Meant(subs, q[1])
<1>1. /\ Len(q) \in Nat \ {0} /\ r \in Seq(Commands(ids))
      /\ Len(r) = Len(q) - 1 /\ Head(q) = q[1]
      /\ \A i \in 1 .. Len(q) - 1 : r[i] = q[i + 1]
      /\ q[1] \in Commands(ids)
  BY HeadTailProperties
<1>2. Meant(subs, Head(q)) \in SUBSET ids
  BY <1>1 DEF Meant, Commands
<1> HIDE DEF r, s
<1>3. \A i \in 1 .. Len(q) : i # 1 => (i - 1 \in 1 .. Len(r) /\ q[i] = r[i - 1])
  <2>1. ASSUME NEW i \in 1 .. Len(q), i # 1
        PROVE  i - 1 \in 1 .. Len(r) /\ q[i] = r[i - 1]
    <3>1. i - 1 \in 1 .. Len(q) - 1 /\ (i - 1) + 1 = i
      BY <1>1, <2>1
    <3> QED
      BY <1>1, <3>1
  <2> QED
    BY <2>1
<1>4. \A i \in 1 .. Len(r) : i + 1 \in 1 .. Len(q) /\ r[i] = q[i + 1] /\ i \in Nat
  BY <1>1
<1>5. 1 \in 1 .. Len(q)
  BY <1>1
<1>6. ASSUME NEW id \in ids PROVE id \in Outcome(ids, s, r) <=> id \in Outcome(ids, subs, q)
  <2>1. ASSUME id \in Outcome(ids, s, r) PROVE id \in Outcome(ids, subs, q)
    <3>1. CASE \E i \in 1 .. Len(r) : /\ r[i].symbol_id = id /\ r[i].is_subscribe
                                      /\ \A j \in 1 .. Len(r) : r[j].symbol_id = id => j <= i
      <4>1. PICK i \in 1 .. Len(r) : /\ r[i].symbol_id = id /\ r[i].is_subscribe
                                     /\ \A j \in 1 .. Len(r) : r[j].symbol_id = id => j <= i
        BY <3>1
      <4>2. i + 1 \in 1 .. Len(q) /\ q[i + 1].symbol_id = id /\ q[i + 1].is_subscribe
        BY <1>4, <4>1
      <4>3. ASSUME NEW j \in 1 .. Len(q), q[j].symbol_id = id PROVE j <= i + 1
        <5>1. CASE j = 1
          BY <1>4, <5>1
        <5>2. CASE j - 1 \in 1 .. Len(r) /\ q[j] = r[j - 1]
          <6>1. j - 1 <= i
            BY <4>1, <4>3, <5>2
          <6> QED
            BY <1>4, <4>3, <6>1
        <5> QED
          BY <1>3, <5>1, <5>2
      <4> QED
        BY <4>2, <4>3 DEF Outcome
    <3>2. CASE id \in s /\ \A i \in 1 .. Len(r) : r[i].symbol_id # id
      <4>1. \A i \in 1 .. Len(q) : q[i].symbol_id = id => i = 1
        BY <1>3, <3>2
      <4>2. CASE q[1].symbol_id = id
        <5>1. q[1].is_subscribe
          BY <3>2, <4>2 DEF s, Meant
        <5> QED
          BY <1>5, <4>1, <4>2, <5>1 DEF Outcome
      <4>3. CASE q[1].symbol_id # id
        <5>1. id \in subs
          BY <3>2, <4>3 DEF s, Meant
        <5> QED
          BY <4>1, <4>3, <5>1 DEF Outcome
      <4> QED
        BY <4>2, <4>3
    <3> QED
      BY <2>1, <3>1, <3>2 DEF Outcome
  <2>2. ASSUME id \in Outcome(ids, subs, q) PROVE id \in Outcome(ids, s, r)
    <3>1. CASE /\ id \in subs
               /\ \A i \in 1 .. Len(q) : q[i].symbol_id # id
      <4>1. id \in s
        BY <1>5, <3>1 DEF s, Meant
      <4>2. \A i \in 1 .. Len(r) : r[i].symbol_id # id
        BY <1>4, <3>1
      <4> QED
        BY <4>1, <4>2 DEF Outcome
    <3>2. CASE \E i \in 1 .. Len(q) : /\ q[i].symbol_id = id /\ q[i].is_subscribe
                                      /\ \A j \in 1 .. Len(q) : q[j].symbol_id = id => j <= i
      <4>1. PICK i \in 1 .. Len(q) : /\ q[i].symbol_id = id /\ q[i].is_subscribe
                                     /\ \A j \in 1 .. Len(q) : q[j].symbol_id = id => j <= i
        BY <3>2
      <4>2. \A j \in 1 .. Len(r) : r[j].symbol_id = id => j + 1 <= i
        BY <1>4, <4>1
      <4>3. CASE i = 1
        <5>1. id \in s
          BY <4>1, <4>3 DEF s, Meant
        <5>2. \A j \in 1 .. Len(r) : r[j].symbol_id # id
          BY <4>2, <4>3
        <5> QED
          BY <5>1, <5>2 DEF Outcome
      <4>4. CASE i # 1
        <5>1. i - 1 \in 1 .. Len(r) /\ r[i - 1].symbol_id = id /\ r[i - 1].is_subscribe
          BY <1>3, <4>1, <4>4
        <5>2. \A j \in 1 .. Len(r) : r[j].symbol_id = id => j <= i - 1
          BY <4>2
        <5> QED
          BY <5>1, <5>2 DEF Outcome
      <4> QED
        BY <4>3, <4>4
    <3> QED
      BY <2>2, <3>1, <3>2 DEF Outcome
  <2> QED
    BY <2>1, <2>2
<1>7. Outcome(ids, s, r) = Outcome(ids, subs, q)
  BY <1>6 DEF Outcome
<1> QED
  BY <1>1, <1>2, <1>7 DEF r, s

\* A command behind the others has the last word.
LEMMA OutcomeOfAppend ==
  ASSUME NEW ids, NEW subs \in SUBSET ids, NEW q \in Seq(Commands(ids)), NEW c \in Commands(ids)
  PROVE  Outcome(ids, subs, Append(q, c)) = Meant(Outcome(ids, subs, q), c)
<1> DEFINE r == Append(q, c)
           n == Len(q)
<1>1. /\ n \in Nat /\ Len(r) = n + 1 /\ r[n + 1] = c
      /\ \A i \in 1 .. n : r[i] = q[i]
  BY AppendProperties
<1>2. c.symbol_id \in ids /\ c.is_subscribe \in BOOLEAN
  BY DEF Commands
<1> HIDE DEF r, n
<1>3. \A i \in 1 .. Len(r) : i = n + 1 \/ i \in 1 .. n
  BY <1>1
<1>4. \A i \in 1 .. n : i \in 1 .. Len(r) /\ i < n + 1
  BY <1>1
<1>5. n + 1 \in 1 .. Len(r) /\ \A j \in 1 .. Len(r) : j <= n + 1
  BY <1>1
<1>6. ASSUME NEW id \in ids, id = c.symbol_id
      PROVE  id \in Outcome(ids, subs, r) <=> c.is_subscribe
  <2>1. ASSUME c.is_subscribe PROVE id \in Outcome(ids, subs, r)
    BY <1>1, <1>5, <1>6, <2>1 DEF Outcome
  <2>2. ASSUME id \in Outcome(ids, subs, r) PROVE c.is_subscribe
    <3>1. r[n + 1].symbol_id = id
      BY <1>1, <1>6
    <3>2. PICK i \in 1 .. Len(r) : /\ r[i].symbol_id = id /\ r[i].is_subscribe
                                   /\ \A j \in 1 .. Len(r) : r[j].symbol_id = id => j <= i
      BY <1>5, <2>2, <3>1 DEF Outcome
    <3>3. n + 1 <= i
      BY <1>5, <3>1, <3>2
    <3>4. i = n + 1
      BY <1>1, <3>3
    <3> QED
      BY <1>1, <3>2, <3>4
  <2> QED
    BY <2>1, <2>2
<1>7. ASSUME NEW id \in ids, id # c.symbol_id
      PROVE  id \in Outcome(ids, subs, r) <=> id \in Outcome(ids, subs, q)
  <2>1. \A i \in 1 .. Len(r) : r[i].symbol_id = id => i \in 1 .. n
    BY <1>1, <1>3, <1>7
  <2>2. ASSUME id \in Outcome(ids, subs, r) PROVE id \in Outcome(ids, subs, q)
    <3>1. CASE \A i \in 1 .. Len(r) : r[i].symbol_id # id
      <4>1. id \in subs
        BY <2>2, <3>1 DEF Outcome
      <4>2. \A i \in 1 .. n : q[i].symbol_id # id
        BY <1>1, <1>4, <3>1
      <4> QED
        BY <4>1, <4>2 DEF Outcome, n
    <3>2. CASE ~ \A i \in 1 .. Len(r) : r[i].symbol_id # id
      <4>1. PICK i \in 1 .. Len(r) : /\ r[i].symbol_id = id /\ r[i].is_subscribe
                                     /\ \A j \in 1 .. Len(r) : r[j].symbol_id = id => j <= i
        BY <2>2, <3>2 DEF Outcome
      <4>2. i \in 1 .. n /\ q[i].symbol_id = id /\ q[i].is_subscribe
        BY <1>1, <2>1, <4>1
      <4>3. \A j \in 1 .. n : q[j].symbol_id = id => j <= i
        BY <1>1, <1>4, <4>1
      <4> QED
        BY <4>2, <4>3 DEF Outcome, n
    <3> QED
      BY <3>1, <3>2
  <2>3. ASSUME id \in Outcome(ids, subs, q) PROVE id \in Outcome(ids, subs, r)
    <3>1. CASE \A i \in 1 .. n : q[i].symbol_id # id
      <4>1. id \in subs
        BY <2>3, <3>1 DEF Outcome, n
      <4>2. \A i \in 1 .. Len(r) : r[i].symbol_id # id
        BY <1>1, <2>1, <3>1
      <4> QED
        BY <4>1, <4>2 DEF Outcome
    <3>2. CASE ~ \A i \in 1 .. n : q[i].symbol_id # id
      <4>1. PICK i \in 1 .. n : /\ q[i].symbol_id = id /\ q[i].is_subscribe
                                /\ \A j \in 1 .. n : q[j].symbol_id = id => j <= i
        BY <2>3, <3>2 DEF Outcome, n
      <4>2. i \in 1 .. Len(r) /\ r[i].symbol_id = id /\ r[i].is_subscribe
        BY <1>1, <1>4, <4>1
      <4>3. \A j \in 1 .. Len(r) : r[j].symbol_id = id => j <= i
        BY <1>1, <2>1, <4>1
      <4> QED
        BY <4>2, <4>3 DEF Outcome
    <3> QED
      BY <3>1, <3>2
  <2> QED
    BY <2>2, <2>3
<1>8. \A id \in ids : id \in Outcome(ids, subs, r) <=> id \in Meant(Outcome(ids, subs, q), c)
  BY <1>2, <1>6, <1>7 DEF Meant
<1>9. Outcome(ids, subs, r) \subseteq ids /\ Meant(Outcome(ids, subs, q), c) \subseteq ids
  BY <1>2 DEF Meant, Outcome
<1> QED
  BY <1>8, <1>9 DEF r

\* With nothing queued, the set stays as it is.
LEMMA OutcomeOfNothing ==
  ASSUME NEW ids, NEW subs \in SUBSET ids, NEW q \in Seq(Commands(ids)), Len(q) = 0
  PROVE  Outcome(ids, subs, q) = subs
<1>1. \A i \in 1 .. Len(q) : FALSE
  OBVIOUS
<1> QED
  BY <1>1 DEF Outcome
=============================================================================
