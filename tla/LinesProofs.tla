---------------------------- MODULE LinesProofs ----------------------------
(***************************************************************************)
(* What appending and taking the head do to a list, and what handing a     *)
(* position on, from the end of one line to the next, does to the order of *)
(* a line.                                                                 *)
(***************************************************************************)
EXTENDS Lines, TLAPS

(* A list with a member more.                                              *)
LEMMA AppendList ==
    ASSUME NEW S, NEW s \in Seq(S), NEW e \in S
    PROVE  /\ Append(s, e) \in Seq(S) /\ Len(Append(s, e)) = Len(s) + 1
           /\ DOMAIN Append(s, e) = 1..(Len(s) + 1)
           /\ DOMAIN s = 1..Len(s) /\ Len(s) \in Nat
           /\ Append(s, e)[Len(s) + 1] = e
           /\ \A i \in DOMAIN s : Append(s, e)[i] = s[i]
  OBVIOUS

(* Its members are those of the list and the new one.                      *)
LEMMA AppendMembers ==
    ASSUME NEW S, NEW s \in Seq(S), NEW e \in S, NEW i \in DOMAIN Append(s, e)
    PROVE  (i \in DOMAIN s /\ Append(s, e)[i] = s[i]) \/ Append(s, e)[i] = e
  OBVIOUS

(* A list with a member less.                                              *)
LEMMA TailList ==
    ASSUME NEW S, NEW s \in Seq(S), s # <<>>
    PROVE  /\ Head(s) \in S /\ Tail(s) \in Seq(S) /\ Len(Tail(s)) = Len(s) - 1
           /\ Head(s) = s[1] /\ 1 \in DOMAIN s
           /\ \A i \in DOMAIN Tail(s) : i + 1 \in DOMAIN s /\ Tail(s)[i] = s[i + 1]
  OBVIOUS

(* A list of two is a pair.                                                *)
LEMMA Pair ==
    ASSUME NEW S, NEW t \in Seq(S), Len(t) = 2
    PROVE  t = <<t[1], t[2]>>
  OBVIOUS

(* So is a list of one with a member more.                                 *)
LEMMA AppendToOne ==
    ASSUME NEW S, NEW s \in Seq(S), NEW e \in S
    PROVE  Len(s) = 1 => Append(s, e) = <<s[1], e>>
  <1>1. PICK t : t = Append(s, e)
    OBVIOUS
  <1>2. /\ t \in Seq(S) /\ Len(t) = Len(s) + 1
        /\ DOMAIN s = 1..Len(s) /\ Len(s) \in Nat
        /\ t[Len(s) + 1] = e
        /\ \A i \in DOMAIN s : t[i] = s[i]
    BY <1>1, AppendList
  <1>3. ASSUME Len(s) = 1 PROVE t[1] = s[1] /\ t[2] = e /\ Len(t) = 2
    BY <1>2, <1>3
  <1>4. ASSUME Len(s) = 1 PROVE t = <<t[1], t[2]>>
    BY <1>2, <1>3, <1>4, Pair
  <1>5. QED
    BY <1>1, <1>3, <1>4

(* Putting a number that is larger than all before it at the end of a line *)
(* keeps the line increasing.                                              *)
LEMMA AppendIncreasing ==
    ASSUME NEW s \in Seq(Nat), NEW k \in Nat, Increasing(s), Behind(s, k)
    PROVE  /\ Append(s, k) \in Seq(Nat)
           /\ DOMAIN Append(s, k) = 1..(Len(s) + 1)
           /\ DOMAIN s = 1..Len(s) /\ Len(s) \in Nat
           /\ Append(s, k)[Len(s) + 1] = k
           /\ \A i \in DOMAIN s : Append(s, k)[i] = s[i]
           /\ Increasing(Append(s, k))
  <1>1. /\ Append(s, k) \in Seq(Nat)
        /\ DOMAIN Append(s, k) = 1..(Len(s) + 1)
        /\ DOMAIN s = 1..Len(s) /\ Len(s) \in Nat
        /\ Append(s, k)[Len(s) + 1] = k
        /\ \A i \in DOMAIN s : Append(s, k)[i] = s[i]
    OBVIOUS
  <1>2. ASSUME NEW i \in DOMAIN Append(s, k), NEW j \in DOMAIN Append(s, k),
               i < j
        PROVE  Append(s, k)[i] < Append(s, k)[j]
    <2>1. i \in DOMAIN s
      BY <1>1, <1>2
    <2>2. CASE j \in DOMAIN s
      BY <2>1, <2>2, <1>1, <1>2 DEF Increasing
    <2>3. CASE j = Len(s) + 1
      BY <2>1, <2>3, <1>1 DEF Behind
    <2>4. QED
      BY <2>2, <2>3, <1>1
  <1>3. QED
    BY <1>1, <1>2 DEF Increasing

(* A line behind m stays behind m when a number less than m is appended.   *)
LEMMA AppendBehind ==
    ASSUME NEW s \in Seq(Nat), NEW k \in Nat, NEW m \in Nat, Behind(s, m), k < m
    PROVE  Behind(Append(s, k), m)
  <1>1. /\ DOMAIN Append(s, k) = 1..(Len(s) + 1)
        /\ DOMAIN s = 1..Len(s) /\ Len(s) \in Nat
        /\ Append(s, k)[Len(s) + 1] = k
        /\ \A i \in DOMAIN s : Append(s, k)[i] = s[i]
    OBVIOUS
  <1>2. QED
    BY <1>1 DEF Behind

(* Taking the head of an increasing line leaves an increasing line of      *)
(* larger numbers.                                                         *)
LEMMA TailIncreasing ==
    ASSUME NEW s \in Seq(Nat), s # <<>>, Increasing(s)
    PROVE  /\ Head(s) = s[1] /\ 1 \in DOMAIN s
           /\ Tail(s) \in Seq(Nat) /\ Len(Tail(s)) = Len(s) - 1
           /\ DOMAIN Tail(s) = 1..(Len(s) - 1)
           /\ DOMAIN s = 1..Len(s) /\ Len(s) \in Nat
           /\ \A i \in DOMAIN Tail(s) :
                  Tail(s)[i] = s[i + 1] /\ i + 1 \in DOMAIN s
           /\ \A i \in DOMAIN Tail(s) : Head(s) < Tail(s)[i]
           /\ Increasing(Tail(s))
  <1>1. /\ Head(s) = s[1] /\ 1 \in DOMAIN s
        /\ Tail(s) \in Seq(Nat) /\ Len(Tail(s)) = Len(s) - 1
        /\ DOMAIN Tail(s) = 1..(Len(s) - 1)
        /\ DOMAIN s = 1..Len(s) /\ Len(s) \in Nat
        /\ \A i \in DOMAIN Tail(s) :
               Tail(s)[i] = s[i + 1] /\ i + 1 \in DOMAIN s
    OBVIOUS
  <1>2. \A i \in DOMAIN Tail(s) : Head(s) < Tail(s)[i]
    BY <1>1 DEF Increasing
  <1>3. Increasing(Tail(s))
    BY <1>1 DEF Increasing
  <1>4. QED
    BY <1>1, <1>2, <1>3

(* What a line holds after an append, and before its head is taken.        *)
LEMMA HoldsAppend ==
    ASSUME NEW s \in Seq(Nat), NEW k \in Nat
    PROVE  \A j : Holds(Append(s, k), j) <=> Holds(s, j) \/ j = k
  <1>1. /\ DOMAIN Append(s, k) = 1..(Len(s) + 1)
        /\ DOMAIN s = 1..Len(s) /\ Len(s) \in Nat
        /\ Append(s, k)[Len(s) + 1] = k
        /\ \A i \in DOMAIN s : Append(s, k)[i] = s[i]
    OBVIOUS
  <1>2. \A i : i \in DOMAIN Append(s, k) <=> i \in DOMAIN s \/ i = Len(s) + 1
    BY <1>1
  <1>3. QED
    BY <1>1, <1>2 DEF Holds

(* The head of a line and what its tail holds are what it held.            *)
LEMMA HoldsTail ==
    ASSUME NEW s \in Seq(Nat), s # <<>>
    PROVE  \A j : Holds(s, j) <=> Holds(Tail(s), j) \/ j = Head(s)
  <1>1. /\ Head(s) = s[1] /\ 1 \in DOMAIN s
        /\ DOMAIN Tail(s) = 1..(Len(s) - 1)
        /\ DOMAIN s = 1..Len(s) /\ Len(s) \in Nat
        /\ \A i \in DOMAIN Tail(s) :
               Tail(s)[i] = s[i + 1] /\ i + 1 \in DOMAIN s
    OBVIOUS
  <1>2. ASSUME NEW j, Holds(s, j) PROVE Holds(Tail(s), j) \/ j = Head(s)
    <2>1. PICK i \in DOMAIN s : s[i] = j
      BY <1>2 DEF Holds
    <2>2. CASE i = 1
      BY <1>1, <2>1, <2>2
    <2>3. CASE i # 1
      <3>1. i - 1 \in DOMAIN Tail(s) /\ (i - 1) + 1 = i
        BY <1>1, <2>1, <2>3
      <3>2. Tail(s)[i - 1] = j
        BY <1>1, <2>1, <3>1
      <3>3. QED
        BY <3>1, <3>2 DEF Holds
    <2>4. QED
      BY <2>2, <2>3
  <1>3. ASSUME NEW j, Holds(Tail(s), j) \/ j = Head(s) PROVE Holds(s, j)
    BY <1>1, <1>3 DEF Holds
  <1>4. QED
    BY <1>2, <1>3
=============================================================================
