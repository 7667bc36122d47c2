--------------------------- MODULE DatagramProofs ---------------------------
(***************************************************************************)
(* What a receiver on a lossy path can rely on, for every size of a window  *)
(* and of a number space: the replay window of a Hyper session is exact, in *)
(* the words it is kept in too (Wire, WireShift), the stream of an RDP-UDP  *)
(* connection is exact (RdpUdp), sound is decoded in order and heard again  *)
(* after its sender restarts (AudioOrder), and a frame of video is reported *)
(* once, in order, and delivered exactly when enough of it came             *)
(* (Reassembler).                                                           *)
(***************************************************************************)
EXTENDS WireShift, RdpUdp, AudioOrder, Reassembler, FiniteSetTheorems, SequenceTheorems,
        WellFoundedInduction, TLAPS

-----------------------------------------------------------------------------
(* Numbers that wrap *)

LEMMA RemainderType ==
  ASSUME NEW n \in Nat \ {0}, NEW a \in Int
  PROVE  /\ a % n \in 0..(n - 1) /\ a \div n \in Int
         /\ a = n * (a \div n) + (a % n)
OBVIOUS

LEMMA Multiple ==
  ASSUME NEW n \in Nat \ {0}, NEW q \in Int, q >= 1
  PROVE  n * q >= n
OBVIOUS

LEMMA RemainderUnique ==
  ASSUME NEW n \in Nat \ {0}, NEW a \in Int, NEW q \in Int, NEW r \in 0..(n - 1), a = n * q + r
  PROVE  a % n = r /\ a \div n = q
<1>1. PICK p \in Int, s \in 0..(n - 1) : p = a \div n /\ s = a % n /\ a = n * p + s
  BY RemainderType
<1>2. CASE p > q
  <2>1. n * (p - q) >= n
    BY <1>2, Multiple
  <2>2. n * (p - q) = r - s
    BY <1>1
  <2> QED
    BY <2>1, <2>2
<1>3. CASE p < q
  <2>1. n * (q - p) >= n
    BY <1>3, Multiple
  <2>2. n * (q - p) = s - r
    BY <1>1
  <2> QED
    BY <2>1, <2>2
<1>4. CASE p = q
  BY <1>1, <1>4
<1> QED
  BY <1>2, <1>3, <1>4

LEMMA WrapOnce ==
  ASSUME NEW n \in Nat \ {0}, NEW a \in Int
  PROVE  /\ a \in 0..(n - 1) => a % n = a
         /\ a \in (-n)..(-1) => a % n = a + n
<1>1. ASSUME a \in 0..(n - 1) PROVE a % n = a
  <2>1. a = n * 0 + a
    OBVIOUS
  <2> QED
    BY <1>1, <2>1, RemainderUnique
<1>2. ASSUME a \in (-n)..(-1) PROVE a % n = a + n
  <2>1. PICK r \in 0..(n - 1) : r = a + n
    BY <1>2
  <2>2. a = n * (-1) + r
    BY <2>1
  <2> QED
    BY <2>1, <2>2, RemainderUnique
<1> QED
  BY <1>1, <1>2

LEMMA WrapPlus ==
  ASSUME NEW n \in Nat \ {0}, NEW a \in Int, NEW b \in Int
  PROVE  /\ ((a % n) + b) % n = (a + b) % n
         /\ (b - (a % n)) % n = (b - a) % n
<1>1. PICK p \in Int, s \in 0..(n - 1) : s = a % n /\ a = n * p + s
  BY RemainderType
<1>2. PICK u \in Int, v \in Int : u = a + b /\ v = b - a
  OBVIOUS
<1>3. PICK c \in Int, d \in 0..(n - 1) : d = u % n /\ u = n * c + d
  BY RemainderType
<1>4. PICK e \in Int, f \in 0..(n - 1) : f = v % n /\ v = n * e + f
  BY RemainderType
<1>5. PICK g \in Int : g = c - p
  OBVIOUS
<1>6. PICK h \in Int : h = e + p
  OBVIOUS
<1>7. PICK x \in Int, y \in Int : x = s + b /\ y = b - s
  OBVIOUS
<1>8. x = n * g + d
  BY <1>1, <1>2, <1>3, <1>5, <1>7
<1>9. y = n * h + f
  BY <1>1, <1>2, <1>4, <1>6, <1>7
<1>10. x % n = d /\ y % n = f
  BY <1>8, <1>9, RemainderUnique
<1> QED
  BY <1>1, <1>2, <1>3, <1>4, <1>7, <1>10

LEMMA WrapMinus ==
  ASSUME NEW n \in Nat \ {0}, NEW a \in Int, NEW b \in Int, NEW c \in Int
  PROVE  (((c + a) % n) - ((c + b) % n)) % n = (a - b) % n
<1>1. PICK x \in Int, y \in Int : x = c + a /\ y = c + b
  OBVIOUS
<1>2. PICK s \in Int : s = x % n
  BY RemainderType
<1>3. (s - (y % n)) % n = (s - y) % n
  BY WrapPlus
<1>4. PICK z \in Int : z = -y
  OBVIOUS
<1>5. (s + z) % n = (x + z) % n
  BY <1>2, WrapPlus
<1>6. s - y = s + z /\ x + z = a - b
  BY <1>1, <1>4
<1> QED
  BY <1>1, <1>2, <1>3, <1>5, <1>6

\* A non-empty set of naturals has a least element.
LEMMA LeastExists ==
  ASSUME NEW T \in SUBSET Nat, T # {}
  PROVE  \E x \in T : \A y \in T : x <= y
<1>1. IsWellFoundedOn(OpToRel(<, Nat), Nat)
  BY NatLessThanWellFounded
<1>2. \E x \in T : \A y \in T : ~ (<<y, x>> \in OpToRel(<, Nat))
  BY <1>1, WFMin
<1>3. ASSUME NEW x \in Nat, NEW y \in Nat, y < x PROVE <<y, x>> \in OpToRel(<, Nat)
  BY <1>3, Zenon DEF OpToRel
<1>4. PICK x \in T : \A y \in T : ~ (<<y, x>> \in OpToRel(<, Nat))
  BY <1>2
<1>5. \A y \in T : ~ (y < x)
  BY <1>3, <1>4, Zenon
<1> QED
  BY <1>5

\* A sequence of n numbers that follow f.
Counts(s, f, n) == s \in Seq(Nat) /\ Len(s) = n /\ \A i \in 1..n : s[i] = f + i

LEMMA CountOne ==
  ASSUME NEW s, NEW n \in Nat, NEW m \in Nat, m = n + 1, Counts(s, 0, n)
  PROVE  Counts(Append(s, m), 0, m)
<1>1. s \in Seq(Nat) /\ Len(s) = n /\ \A i \in 1..n : s[i] = 0 + i
  BY Zenon DEF Counts
<1>2. /\ Append(s, m) \in Seq(Nat) /\ Len(Append(s, m)) = Len(s) + 1
      /\ Append(s, m)[Len(s) + 1] = m /\ \A i \in 1..Len(s) : Append(s, m)[i] = s[i]
  BY <1>1, AppendProperties
<1>3. PICK a : a = Append(s, m)
  OBVIOUS
<1>4. /\ a \in Seq(Nat) /\ Len(a) = m /\ a[m] = m /\ \A i \in 1..n : a[i] = s[i]
  BY <1>1, <1>2, <1>3, Zenon
<1>5. \A i \in 1..m : a[i] = 0 + i
  BY <1>1, <1>4
<1> QED
  BY <1>3, <1>4, <1>5, Zenon DEF Counts

LEMMA CountOn ==
  ASSUME NEW a, NEW b, NEW n \in Nat, NEW k \in Nat, Counts(a, 0, n), Counts(b, n, k)
  PROVE  Counts(a \o b, 0, n + k)
<1>1. /\ a \in Seq(Nat) /\ Len(a) = n /\ \A i \in 1..n : a[i] = 0 + i
      /\ b \in Seq(Nat) /\ Len(b) = k /\ \A i \in 1..k : b[i] = n + i
  BY Zenon DEF Counts
<1>2. /\ a \o b \in Seq(Nat) /\ Len(a \o b) = Len(a) + Len(b)
      /\ \A i \in 1..(Len(a) + Len(b)) : (a \o b)[i] = IF i <= Len(a) THEN a[i] ELSE b[i - Len(a)]
  BY <1>1, ConcatProperties, Zenon
<1>3. PICK u : u = a \o b
  OBVIOUS
<1>4. /\ u \in Seq(Nat) /\ Len(u) = n + k
      /\ \A i \in 1..(n + k) : u[i] = IF i <= n THEN a[i] ELSE b[i - n]
  BY <1>1, <1>2, <1>3, Zenon
<1>5. ASSUME NEW i \in 1..(n + k) PROVE u[i] = 0 + i
  <2>1. CASE i <= n
    BY <1>1, <1>4, <2>1
  <2>2. CASE i > n
    <3>1. i - n \in 1..k
      BY <2>2
    <3>2. b[i - n] = n + (i - n)
      BY <1>1, <3>1
    <3>3. u[i] = b[i - n]
      BY <1>4, <2>2
    <3> QED
      BY <3>2, <3>3
  <2> QED
    BY <2>1, <2>2
<1> QED
  BY <1>3, <1>4, <1>5, Zenon DEF Counts

-----------------------------------------------------------------------------
(* The replay window *)

IInv == TypeOK /\ WindowExact /\ OpenedOnce /\ IsFiniteSet(opened)

LEMMA InitIInv == Init => IInv
<1> SUFFICES ASSUME Init PROVE IInv
  OBVIOUS
<1>1. IsFiniteSet(opened) /\ Cardinality(opened) = 0
  BY FS_EmptySet DEF Init
<1>2. recv_any \in BOOLEAN
  BY Zenon DEF Init
<1>3. TypeOK
  BY <1>2, WireAssumption DEF Init, TypeOK
<1>4. WindowExact
  BY Zenon DEF Init, WindowExact
<1> QED
  BY <1>1, <1>3, <1>4 DEF Init, IInv, OpenedOnce

\* Session::accept of a fresh number that has been authenticated keeps the
\* window exact, and such a number has not been opened before.
LEMMA AcceptExact ==
  ASSUME TypeOK, WindowExact, NEW s \in Nat, Fresh(s), Accept(s),
         opened' = opened \union {s}
  PROVE  /\ s \notin opened
         /\ recv_top' \in Nat /\ recv_window' \subseteq 0..(REPLAY_WINDOW - 1)
         /\ recv_any' = TRUE /\ WindowExact'
<1> USE WireAssumption DEF TypeOK
<1>1. recv_any' = TRUE /\ opened' # {}
  BY DEF Accept
<1>2. CASE ~recv_any
  <2>1. opened = {} /\ recv_top' = s /\ recv_window' = {0}
    <3>1. recv_window' = {} \union {s - s}
      BY <1>2 DEF Accept
    <3>2. opened = {}
      BY <1>2, Zenon DEF WindowExact
    <3> QED
      BY <1>2, <3>1, <3>2 DEF Accept
  <2>2. \A i \in 0..(REPLAY_WINDOW - 1) : i \in recv_window' <=> recv_top' - i \in opened'
    BY <2>1
  <2> QED
    BY <1>1, <2>1, <2>2 DEF WindowExact
<1>3. CASE recv_any /\ s > recv_top
  <2>1. /\ recv_top' = s
        /\ recv_window' = Shift(recv_window, s - recv_top) \union {0}
    BY <1>3 DEF Accept
  <2>2. /\ \A t \in opened : t <= recv_top /\ t \in Nat
        /\ \A i \in 0..(REPLAY_WINDOW - 1) : i \in recv_window <=> recv_top - i \in opened
    BY <1>3 DEF WindowExact
  <2>3. s \notin opened
    BY <1>3, <2>2
  <2>4. \A i \in 0..(REPLAY_WINDOW - 1) : i \in recv_window' <=> s - i \in opened'
    <3> SUFFICES ASSUME NEW i \in 0..(REPLAY_WINDOW - 1)
                 PROVE  i \in recv_window' <=> s - i \in opened'
      OBVIOUS
    <3> DEFINE j == i - (s - recv_top)
    <3>1. s - i = recv_top - j /\ j \in Int /\ j < REPLAY_WINDOW
      BY <1>3
    <3>2. i \in recv_window' <=> j \in recv_window \/ i = 0
      BY <2>1 DEF Shift
    <3>3. CASE j >= 0
      <4>1. j \in recv_window <=> recv_top - j \in opened
        BY <2>2, <3>1, <3>3
      <4>2. i # 0
        BY <1>3, <3>3
      <4>3. s - i # s
        BY <4>2
      <4> QED
        BY <3>1, <3>2, <4>1, <4>2, <4>3
    <3>4. CASE j < 0
      <4>1. j \notin recv_window
        BY <3>4
      <4>2. s - i \notin opened
        BY <1>3, <2>2, <3>4
      <4> QED
        BY <3>2, <4>1, <4>2
    <3> QED
      BY <3>1, <3>3, <3>4
  <2>5. recv_window' \subseteq 0..(REPLAY_WINDOW - 1)
    BY <2>1 DEF Shift
  <2>6. \A t \in opened' : t <= s
    BY <1>3, <2>2
  <2> QED
    BY <1>1, <2>1, <2>3, <2>4, <2>5, <2>6 DEF WindowExact
<1>4. CASE recv_any /\ ~(s > recv_top)
  <2>1. recv_top' = recv_top /\ recv_window' = recv_window \union {recv_top - s}
    BY <1>4 DEF Accept
  <2>2. recv_top - s < REPLAY_WINDOW /\ recv_top - s \notin recv_window
        /\ recv_top - s \in 0..(REPLAY_WINDOW - 1)
    BY <1>4 DEF Fresh
  <2>3. /\ recv_top \in opened /\ \A t \in opened : t <= recv_top /\ t \in Nat
        /\ \A i \in 0..(REPLAY_WINDOW - 1) : i \in recv_window <=> recv_top - i \in opened
    BY <1>4 DEF WindowExact
  <2>4. s \notin opened
    <3>1. recv_top - (recv_top - s) = s
      OBVIOUS
    <3> QED
      BY <2>2, <2>3, <3>1
  <2>5. \A i \in 0..(REPLAY_WINDOW - 1) : i \in recv_window' <=> recv_top' - i \in opened'
    BY <2>1, <2>3
  <2>6. \A t \in opened' : t <= recv_top'
    BY <1>4, <2>1, <2>3
  <2>7. recv_window' \subseteq 0..(REPLAY_WINDOW - 1) /\ recv_top' \in opened'
    BY <2>1, <2>2, <2>3
  <2> QED
    BY <1>1, <2>1, <2>4, <2>5, <2>6, <2>7 DEF WindowExact
<1> QED
  BY <1>2, <1>3, <1>4

LEMMA NextIInv == IInv /\ [Next]_vars => IInv'
<1> SUFFICES ASSUME IInv, [Next]_vars PROVE IInv'
  OBVIOUS
<1> USE WireAssumption DEF IInv
<1>1. ASSUME NEW k \in Kinds, Seal(k) PROVE IInv'
  <2>1. UNCHANGED <<recv_top, recv_window, recv_any, opened, handed>>
    BY <1>1 DEF Seal
  <2>2. send_seq' \in Nat /\ link' \subseteq Datagram
    <3>1. send_seq' \in Nat
      BY <1>1 DEF Seal, TypeOK
    <3>2. [seq |-> send_seq', ver |-> version, kind |-> k, intact |-> TRUE] \in Datagram
      BY <3>1 DEF Datagram
    <3> QED
      BY <1>1, <3>1, <3>2 DEF Seal, TypeOK
  <2> QED
    BY <2>1, <2>2 DEF TypeOK, WindowExact, OpenedOnce
<1>2. ASSUME NEW d \in link, Open(d) PROVE IInv'
  <2>1. send_seq' = send_seq /\ link' = link
    BY <1>2 DEF Open
  <2>2. CASE Check(d) /\ d.intact
    <3>1. Accept(d.seq) /\ opened' = opened \union {d.seq} /\ handed' = handed + 1
      BY <1>2, <2>2 DEF Open
    <3>2. d.seq \in Nat /\ Fresh(d.seq)
      BY <2>2 DEF TypeOK, Datagram, Check
    <3>3. /\ d.seq \notin opened
          /\ recv_top' \in Nat /\ recv_window' \subseteq 0..(REPLAY_WINDOW - 1)
          /\ recv_any' = TRUE /\ WindowExact'
      BY <3>1, <3>2, AcceptExact
    <3>4. IsFiniteSet(opened') /\ Cardinality(opened') = Cardinality(opened) + 1
      BY <3>1, <3>3, FS_AddElement
    <3>5. recv_any' \in BOOLEAN
      BY <3>3, Zenon
    <3>6. TypeOK'
      <4>3. handed \in Nat /\ opened \subseteq Nat
        BY Zenon DEF TypeOK
      <4>1. handed' \in Nat /\ opened' \subseteq Nat
        <5>1. handed' \in Nat
          BY <3>1, <4>3
        <5>2. opened' \subseteq Nat
          BY <3>1, <3>2, <4>3
        <5> QED
          BY <5>1, <5>2
      <4>2. send_seq' \in Nat /\ link' \subseteq Datagram
        BY <2>1 DEF TypeOK
      <4> QED
        BY <3>3, <3>5, <4>1, <4>2 DEF TypeOK
    <3> QED
      BY <3>1, <3>3, <3>4, <3>6 DEF OpenedOnce
  <2>3. CASE ~(Check(d) /\ d.intact)
    <3>1. UNCHANGED <<recv_top, recv_window, recv_any, opened, handed>>
      BY <1>2, <2>3 DEF Open
    <3> QED
      BY <2>1, <3>1 DEF TypeOK, WindowExact, OpenedOnce
  <2> QED
    BY <2>2, <2>3
<1>3. ASSUME NEW d \in link, Lose(d) \/ Damage(d) PROVE IInv'
  <2>1. UNCHANGED <<send_seq, recv_top, recv_window, recv_any, opened, handed>>
    BY <1>3 DEF Lose, Damage
  <2>2. link' \subseteq Datagram
    <3>1. d \in Datagram
      BY DEF TypeOK
    <3>2. \A s \in 0..MaxSeq, v \in Versions :
            [d EXCEPT !.seq = s, !.ver = v, !.intact = FALSE] \in Datagram
      <4> SUFFICES ASSUME NEW s \in 0..MaxSeq, NEW v \in Versions
                   PROVE  [d EXCEPT !.seq = s, !.ver = v, !.intact = FALSE] \in Datagram
        OBVIOUS
      <4>1. s \in Nat
        OBVIOUS
      <4> QED
        BY <3>1, <4>1 DEF Datagram
    <3> QED
      BY <1>3, <3>2 DEF Lose, Damage, TypeOK
  <2> QED
    BY <2>1, <2>2 DEF TypeOK, WindowExact, OpenedOnce
<1>4. CASE UNCHANGED vars
  BY <1>4 DEF vars, TypeOK, WindowExact, OpenedOnce
<1> QED
  BY <1>1, <1>2, <1>3, <1>4 DEF Next

THEOREM Inductive == Spec => []IInv
BY InitIInv, NextIInv, PTL DEF Spec

\* Session::open hands up every datagram at most once, for every window size
\* and any reordering, repetition, loss and damage on the path.
THEOREM NoReplay == Spec => []OpenedOnce
<1>1. IInv => OpenedOnce
  BY DEF IInv
<1> QED
  BY <1>1, Inductive, PTL

\* The replay window always says exactly which recent numbers were opened.
THEOREM ExactWindow == Spec => []WindowExact
<1>1. IInv => WindowExact
  BY DEF IInv
<1> QED
  BY <1>1, Inductive, PTL

-----------------------------------------------------------------------------
(* The array of words *)

LEMMA ShiftConstants ==
  /\ WORD \in Nat \ {0} /\ WINDOW_WORDS \in Nat \ {0} /\ REPLAY_WINDOW = WORD * WINDOW_WORDS
  /\ REPLAY_WINDOW \in Nat
BY ShiftAssumption, WireAssumption

\* What word i becomes: the bits of the words it takes them from, as they were.
Aged(words, i, skip, bits) ==
  (IF i >= skip THEN Left(words[i - skip], bits) ELSE {}) \union Carry(words, i, skip, bits)

AllWords(words) == words = [j \in 0..(WINDOW_WORDS - 1) |-> words[j]]
Parts(n, skip, bits) == skip = n \div WORD /\ bits = n % WORD
AgedInPlace(words, n, skip, bits) ==
  ShiftWords(words, n) = [j \in 0..(WINDOW_WORDS - 1) |-> Aged(words, j, skip, bits)]

\* A turn for word i reads no word the turns before it have changed.
LEMMA TurnsInPlace ==
  ASSUME NEW words, AllWords(words), NEW n \in Nat, n < REPLAY_WINDOW,
         NEW skip \in Nat, NEW bits \in Nat, Parts(n, skip, bits)
  PROVE  AgedInPlace(words, n, skip, bits)
<1>0. PICK C \in Nat \ {0} : C = WINDOW_WORDS
  BY ShiftConstants
<1>b. words = [j \in 0..(C - 1) |-> words[j]] /\ skip = n \div WORD /\ bits = n % WORD
  BY <1>0 DEF AllWords, Parts
<1> USE <1>b
<1> DEFINE R(f) == [i \in 0..C |-> IF i = C THEN words ELSE Turn(f[i + 1], i, skip, bits)]
           row(i) == [j \in 0..(C - 1) |-> IF j >= i THEN Aged(words, j, skip, bits) ELSE words[j]]
           g == [i \in 0..C |-> row(i)]
           h == CHOOSE f : f = R(f)
<1>1. row(C) = words
  <2>1. DOMAIN words = 0..(C - 1) /\ words = [j \in 0..(C - 1) |-> words[j]]
    BY <1>0
  <2>2. \A j \in 0..(C - 1) : ~(j >= C)
    BY <1>0
  <2>3. row(C) = [j \in 0..(C - 1) |-> words[j]]
    BY <2>2
  <2> QED
    BY <2>1, <2>3
<1>2. ASSUME NEW i \in 0..(C - 1) PROVE row(i) = Turn(row(i + 1), i, skip, bits)
  <2>1. PICK r : r = row(i + 1)
    OBVIOUS
  <2>2. DOMAIN r = 0..(C - 1) /\ \A j \in 0..i : r[j] = words[j]
    BY <1>0, <2>1
  <2>3. /\ i >= skip => i - skip \in 0..i
        /\ i > skip => i - skip - 1 \in 0..i
    BY <1>0
  <2>4. Carry(r, i, skip, bits) = Carry(words, i, skip, bits)
    BY <2>2, <2>3 DEF Carry
  <2>5. (IF i >= skip THEN Left(r[i - skip], bits) ELSE {}) \union Carry(r, i, skip, bits)
          = Aged(words, i, skip, bits)
    BY <2>2, <2>3, <2>4 DEF Aged
  <2>6. PICK a : a = Aged(words, i, skip, bits)
    OBVIOUS
  <2>7. Turn(r, i, skip, bits) = [r EXCEPT ![i] = a]
    BY <2>5, <2>6, Zenon DEF Turn
  <2>8. ASSUME NEW j \in 0..(C - 1) PROVE row(i)[j] = [r EXCEPT ![i] = a][j]
    <3>1. j >= i <=> (j = i \/ j >= i + 1)
      BY <1>0
    <3> HIDE DEF Aged
    <3>2. CASE j = i
      BY <1>0, <2>2, <2>6, <3>2
    <3>3. CASE j # i
      BY <1>0, <2>1, <2>2, <3>1, <3>3
    <3> QED
      BY <3>2, <3>3
  <2>9. row(i) = [r EXCEPT ![i] = a]
    <3>1. DOMAIN row(i) = 0..(C - 1) /\ DOMAIN [r EXCEPT ![i] = a] = 0..(C - 1)
      BY <2>2
    <3>2. PICK u, v : u = row(i) /\ v = [r EXCEPT ![i] = a]
      OBVIOUS
    <3>3. u = [j \in 0..(C - 1) |-> u[j]] /\ v = [j \in 0..(C - 1) |-> v[j]]
      BY <2>2, <3>2
    <3>4. \A j \in 0..(C - 1) : u[j] = v[j]
      BY <2>8, <3>2, Zenon
    <3> QED
      BY <3>2, <3>3, <3>4
  <2> QED
    BY <2>1, <2>7, <2>9
<1> HIDE DEF row
<1>3. \A i \in 0..(C - 1) : i \in 0..C /\ i + 1 \in 0..C /\ i # C
  BY <1>0
<1>4. g = R(g)
  <2>1. ASSUME NEW i \in 0..C PROVE g[i] = R(g)[i]
    <3>1. CASE i = C
      BY <1>1, <3>1
    <3>2. CASE i \in 0..(C - 1)
      <4>1. g[i] = row(i) /\ g[i + 1] = row(i + 1)
        BY <1>3, <3>2
      <4> QED
        BY <1>2, <1>3, <3>2, <4>1
    <3> QED
      BY <1>0, <3>1, <3>2
  <2> QED
    BY <2>1
<1>5. h = R(h)
  BY <1>4, Zenon
<1>6. ShiftWords(words, n) = h[0]
  <2>1. ~(n >= REPLAY_WINDOW)
    BY ShiftConstants
  <2> QED
    BY <1>0, <2>1 DEF ShiftWords
<1>7. g[0] = row(0)
  BY <1>0
<1>a. \A f : R(f)[C] = words /\ \A i \in 0..(C - 1) : R(f)[i] = Turn(f[i + 1], i, skip, bits)
  <2>1. C \in 0..C
    BY <1>0
  <2> QED
    BY <1>3, <2>1
<1> HIDE DEF R, g, h
<1>8. g[C] = words /\ \A i \in 0..(C - 1) : g[i] = Turn(g[i + 1], i, skip, bits)
  BY <1>4, <1>a, Zenon
<1>9. h[C] = words /\ \A i \in 0..(C - 1) : h[i] = Turn(h[i + 1], i, skip, bits)
  BY <1>5, <1>a, Zenon
<1>10. h[0] = g[0]
  <2> DEFINE T == {k \in 0..C : h[C - k] # g[C - k]}
  <2>1. ASSUME T # {} PROVE FALSE
    <3>1. T \in SUBSET Nat
      OBVIOUS
    <3>2. PICK m \in T : \A y \in T : m <= y
      BY <2>1, <3>1, LeastExists
    <3>3. PICK q \in Int : q = C - m
      BY <1>0, <3>2
    <3>4. m # 0
      BY <1>0, <1>8, <1>9, <3>2
    <3>5. q \in 0..(C - 1) /\ m - 1 \in 0..C /\ ~(m <= m - 1) /\ C - (m - 1) = q + 1
      BY <1>0, <3>2, <3>3, <3>4
    <3>6. h[q + 1] = g[q + 1]
      BY <3>2, <3>5
    <3>7. h[q] = g[q]
      BY <1>8, <1>9, <3>5, <3>6
    <3> QED
      BY <3>2, <3>3, <3>7
  <2>2. C \in 0..C /\ C - C = 0
    BY <1>0
  <2> QED
    BY <2>1, <2>2
<1>11. row(0) = [j \in 0..(WINDOW_WORDS - 1) |-> Aged(words, j, skip, bits)]
  <2>1. \A j \in 0..(C - 1) : j >= 0
    BY <1>0
  <2> QED
    BY <1>0, <2>1 DEF row
<1> QED
  BY <1>6, <1>7, <1>10, <1>11 DEF AgedInPlace

\* Where a bit of the window stands, and where its place is n bits on.
LEMMA BitAt ==
  ASSUME NEW j \in Int, NEW b \in 0..(WORD - 1), NEW q \in Int, NEW c \in Int
  PROVE  /\ (j * WORD + b) - (q * WORD + c) = (j - q) * WORD + (b - c)
         /\ j < 0 => j * WORD + b < 0
         /\ j >= 0 => j * WORD >= 0
<1>1. PICK w \in Nat \ {0} : w = WORD
  BY ShiftConstants
<1>2. (j - q) * w = j * w - q * w
  OBVIOUS
<1>3. PICK x \in Int, y \in Int : x = j * w /\ y = q * w
  OBVIOUS
<1>4. (x + b) - (y + c) = (x - y) + (b - c)
  BY <1>1
<1>5. ASSUME j < 0 PROVE j * w + b < 0
  <2>1. PICK k \in Int : k = -j /\ k >= 1
    BY <1>5
  <2>2. w * k >= w
    BY <2>1, Multiple
  <2>3. w * k = -(j * w)
    BY <2>1
  <2> QED
    BY <1>1, <1>3, <2>2, <2>3
<1>6. ASSUME j >= 0 PROVE j * w >= 0
  <2>1. CASE j = 0
    BY <2>1
  <2>2. CASE j >= 1
    <3>1. w * j >= w /\ w * j = j * w
      BY <2>2, Multiple
    <3> QED
      BY <1>3, <3>1
  <2> QED
    BY <1>6, <2>1, <2>2
<1> QED
  BY <1>1, <1>2, <1>3, <1>4, <1>5, <1>6

\* A bit of a word after the turns is the bit n before it.
LEMMA AgedBit ==
  ASSUME NEW win \in SUBSET (0..(REPLAY_WINDOW - 1)), NEW n \in Nat, n < REPLAY_WINDOW,
         NEW skip \in Nat, NEW bits \in 0..(WORD - 1), n = skip * WORD + bits,
         NEW j \in 0..(WINDOW_WORDS - 1), NEW b \in 0..(WORD - 1)
  PROVE  b \in Aged(Words(win), j, skip, bits) <=> (j * WORD + b) - n \in win
<1>1. PICK w \in Nat \ {0}, C \in Nat \ {0} : w = WORD /\ C = WINDOW_WORDS
  BY ShiftConstants
<1>2. PICK k \in Int, d \in Int : k = j - skip /\ d = b - bits
  BY <1>1
<1>3. (j * WORD + b) - n = k * w + d
  BY <1>1, <1>2, BitAt
<1>4. \A x \in win : x >= 0
  BY ShiftConstants
<1>5. ASSUME NEW i \in 0..(C - 1), NEW c \in Int
      PROVE  c \in Words(win)[i] <=> c \in 0..(w - 1) /\ i * w + c \in win
  BY <1>1, <1>5 DEF Words
<1>6. CASE b >= bits
  <2>1. d \in 0..(w - 1)
    BY <1>1, <1>2, <1>6
  <2>2. b \notin Carry(Words(win), j, skip, bits)
    <3> SUFFICES ASSUME bits > 0, j > skip, b \in Right(Words(win)[j - skip - 1], WORD - bits) PROVE FALSE
      BY DEF Carry
    <3>1. b + (w - bits) \in Words(win)[j - skip - 1]
      BY <1>1 DEF Right
    <3>2. j - skip - 1 \in 0..(C - 1) /\ b + (w - bits) \in Int
      BY <1>1
    <3>3. b + (w - bits) \in 0..(w - 1)
      BY <1>5, <3>1, <3>2
    <3> QED
      BY <1>1, <1>6, <3>3
  <2>3. CASE k >= 0
    <3>1. k \in 0..(C - 1) /\ j >= skip
      BY <1>1, <1>2, <2>3
    <3>2. b \in Left(Words(win)[k], bits) <=> d \in Words(win)[k]
      BY <1>2 DEF Left
    <3>3. d \in Words(win)[k] <=> k * w + d \in win
      BY <1>5, <2>1, <3>1
    <3> QED
      BY <1>2, <1>3, <2>2, <3>1, <3>2, <3>3 DEF Aged
  <2>4. CASE k < 0
    <3>1. ~(j >= skip)
      BY <1>1, <1>2, <2>4
    <3>2. k * w + d < 0
      BY <1>1, <2>1, <2>4, BitAt
    <3>3. k * w + d \notin win
      BY <1>4, <3>2
    <3> QED
      BY <1>3, <2>2, <3>1, <3>3 DEF Aged
  <2> QED
    BY <1>2, <2>3, <2>4
<1>7. CASE b < bits
  <2>1. d < 0 /\ d + w \in 0..(w - 1) /\ bits > 0
    BY <1>1, <1>2, <1>7
  <2>2. j >= skip => b \notin Left(Words(win)[j - skip], bits)
    <3> SUFFICES ASSUME j >= skip, b \in Left(Words(win)[j - skip], bits) PROVE FALSE
      OBVIOUS
    <3>1. d \in Words(win)[k] /\ k \in 0..(C - 1)
      BY <1>1, <1>2 DEF Left
    <3>2. d \in 0..(w - 1)
      BY <1>2, <1>5, <3>1
    <3> QED
      BY <2>1, <3>2
  <2>3. CASE k >= 1
    <3>1. PICK i \in 0..(C - 1) : i = k - 1 /\ i = j - skip - 1
      BY <1>1, <1>2, <2>3
    <3>2. j > skip
      BY <1>1, <1>2, <2>3
    <3>3. b \in Carry(Words(win), j, skip, bits) <=> b + (w - bits) \in Words(win)[i]
      BY <1>1, <2>1, <3>1, <3>2 DEF Carry, Right
    <3>4. b + (w - bits) = d + w
      BY <1>1, <1>2
    <3>5. d + w \in Words(win)[i] <=> i * w + (d + w) \in win
      BY <1>5, <2>1, <3>1
    <3>6. i * w + (d + w) = k * w + d
      <4>1. (k - 1) * w = k * w - w
        OBVIOUS
      <4>2. PICK x \in Int : x = k * w
        OBVIOUS
      <4> QED
        BY <1>1, <1>2, <3>1, <4>1, <4>2
    <3> QED
      BY <1>3, <2>2, <3>3, <3>4, <3>5, <3>6, Zenon DEF Aged
  <2>4. CASE k < 1
    <3>1. ~(j > skip)
      BY <1>1, <1>2, <2>4
    <3>2. k * w + d < 0
      <4>1. PICK i \in Int : i = k - 1 /\ i < 0
        BY <1>2, <2>4
      <4>2. i * w + (d + w) < 0
        BY <1>1, <2>1, <4>1, BitAt
      <4>3. (k - 1) * w = k * w - w
        OBVIOUS
      <4>4. PICK x \in Int : x = k * w
        OBVIOUS
      <4> QED
        BY <1>1, <1>2, <4>1, <4>2, <4>3, <4>4
    <3>3. k * w + d \notin win
      BY <1>4, <3>2
    <3>4. b \notin Carry(Words(win), j, skip, bits)
      BY <3>1 DEF Carry
    <3> QED
      BY <1>3, <2>2, <3>3, <3>4, Zenon DEF Aged
  <2> QED
    BY <1>2, <2>3, <2>4
<1> QED
  BY <1>1, <1>6, <1>7

LEMMA ShiftsBits ==
  ASSUME NEW win \in SUBSET (0..(REPLAY_WINDOW - 1)), NEW n \in Nat
  PROVE  Bits(ShiftWords(Words(win), n)) = Shift(win, n)
<1>1. PICK w \in Nat \ {0}, C \in Nat \ {0} : w = WORD /\ C = WINDOW_WORDS /\ REPLAY_WINDOW = w * C
  BY ShiftConstants
<1>2. PICK ws : ws = ShiftWords(Words(win), n)
  OBVIOUS
<1>3. ASSUME NEW i \in 0..(REPLAY_WINDOW - 1)
      PROVE  i % WORD \in ws[i \div WORD] <=> i - n \in win
  <2>1. PICK j \in Int, b \in 0..(w - 1) : j = i \div w /\ b = i % w /\ i = w * j + b
    <3>1. i \in Int
      BY ShiftConstants
    <3> QED
      <4>1. /\ i % w \in 0..(w - 1) /\ i \div w \in Int
            /\ i = w * (i \div w) + (i % w)
        BY <1>1, <3>1, RemainderType, Zenon
      <4> QED
        BY <4>1
  <2>2. j \in 0..(C - 1)
    <3>1. w * j = j * w
      BY <2>1
    <3>2. ASSUME j < 0 PROVE FALSE
      <4>1. j * w + b < 0
        BY <1>1, <2>1, <3>2, BitAt
      <4> QED
        BY <2>1, <3>1, <4>1, ShiftConstants
    <3>3. ASSUME j >= C PROVE FALSE
      <4>1. PICK k \in Int : k = j - C /\ k >= 0
        BY <1>1, <2>1, <3>3
      <4>2. k * w >= 0
        BY <1>1, <2>1, <4>1, BitAt
      <4>3. k * w = j * w - w * C
        BY <1>1, <2>1, <4>1
      <4>4. PICK x \in Int, y \in Int : x = j * w /\ y = w * C
        BY <1>1, <2>1
      <4>5. x >= y /\ i = x + b /\ i < y
        BY <1>1, <2>1, <3>1, <4>2, <4>3, <4>4, ShiftConstants
      <4> QED
        BY <2>1, <4>4, <4>5
    <3> QED
      BY <1>1, <2>1, <3>2, <3>3
  <2>3. CASE n >= REPLAY_WINDOW
    <3>1. ws = [q \in DOMAIN Words(win) |-> {}]
      BY <1>2, <2>3 DEF ShiftWords
    <3>2. DOMAIN Words(win) = 0..(C - 1)
      BY <1>1 DEF Words
    <3>3. ws[j] = {}
      BY <2>2, <3>1, <3>2
    <3>4. i - n < 0
      BY <2>3, ShiftConstants
    <3>5. i - n \notin win
      BY <3>4, ShiftConstants
    <3> QED
      BY <1>1, <2>1, <3>3, <3>5
  <2>4. CASE n < REPLAY_WINDOW
    <3>1. PICK skip \in Int, bits \in 0..(w - 1) : skip = n \div w /\ bits = n % w /\ n = w * skip + bits
      BY <1>1, RemainderType
    <3>2. skip \in Nat
      <4>1. ASSUME skip < 0 PROVE FALSE
        <5>1. skip * w + bits < 0 /\ skip * w = w * skip
          BY <1>1, <3>1, <4>1, BitAt
        <5> QED
          BY <3>1, <5>1
      <4> QED
        BY <3>1, <4>1
    <3>3. Words(win) = [q \in 0..(WINDOW_WORDS - 1) |-> Words(win)[q]]
      BY DEF Words
    <3>4. ws = [q \in 0..(WINDOW_WORDS - 1) |-> Aged(Words(win), q, skip, bits)]
      <4>1. bits \in Nat /\ skip = n \div WORD /\ bits = n % WORD
        BY <1>1, <3>1
      <4>2. PICK words : words = Words(win)
        OBVIOUS
      <4>3. AllWords(words) /\ Parts(n, skip, bits)
        BY <3>3, <4>1, <4>2 DEF AllWords, Parts
      <4>4. AgedInPlace(words, n, skip, bits)
        BY <2>4, <3>2, <4>1, <4>3, TurnsInPlace, Zenon
      <4> QED
        BY <1>2, <4>2, <4>4 DEF AgedInPlace
    <3>5. ws[j] = Aged(Words(win), j, skip, bits)
      BY <1>1, <2>2, <3>4
    <3>6. n = skip * WORD + bits /\ i = j * WORD + b
      BY <1>1, <2>1, <3>1, <3>2
    <3>7. b \in Aged(Words(win), j, skip, bits) <=> (j * WORD + b) - n \in win
      <4>1. bits \in 0..(WORD - 1) /\ b \in 0..(WORD - 1) /\ j \in 0..(WINDOW_WORDS - 1)
        BY <1>1, <2>1, <2>2, <3>1
      <4> QED
        BY <2>4, <3>2, <3>6, <4>1, AgedBit, Zenon
    <3> QED
      BY <1>1, <2>1, <3>5, <3>6, <3>7
  <2> QED
    BY <2>3, <2>4, ShiftConstants
<1> QED
  BY <1>2, <1>3 DEF Bits, Shift

\* Ageing the window in place, word by word, moves every bit by the distance
\* and drops what leaves the window, for every width of a word, number of
\* words and distance.
THEOREM WindowShiftsEveryBit == Spec => []ShiftsEveryBit
<1>1. ASSUME IInv PROVE ShiftsEveryBit
  <2>1. recv_window \in SUBSET (0..(REPLAY_WINDOW - 1))
    BY <1>1 DEF IInv, TypeOK
  <2>2. ASSUME NEW n \in 1..(REPLAY_WINDOW + 1)
        PROVE  Bits(ShiftWords(Words(recv_window), n)) = Shift(recv_window, n)
    <3>1. n \in Nat
      BY ShiftConstants
    <3> QED
      BY <2>1, <3>1, ShiftsBits
  <2> QED
    BY <2>2 DEF ShiftsEveryBit
<1> QED
  BY <1>1, Inductive, PTL
-----------------------------------------------------------------------------
(* The inductive invariant of RDP-UDP *)

UdpTypes ==
  /\ ustate \in {"SynSent", "Failed", "Established", "Closed"} /\ lossy \in BOOLEAN
  /\ inbox \in Seq(Nat) /\ Len(inbox) \in 0..MaxPeer
  /\ written \in Seq(Nat) /\ Len(written) \in 0..MaxWrites
  /\ peer_sent \in 0..MaxPeer /\ peer_acked \in 0..MaxPeer /\ peer_took \in 0..MaxWrites

\* What is on the way from the peer: its numbers are those of its datagrams,
\* and it acknowledges what it took.
FromPeer ==
  \A d \in to_client : \E n \in 0..MaxPeer, t \in 0..peer_took :
    /\ d.sn = Sn(PeerIsn, n) /\ d.body = n /\ d.ack = Sn(OurIsn, t)
    /\ d.kind = "synack" => n = 0
    /\ d.kind = "data" => n >= 1

\* What is on the way to it acknowledges no more than was delivered.
Delivered(a) == \E n \in 0..Len(inbox) : a = Sn(PeerIsn, n)
FromClient ==
  \A m \in to_peer : m.kind # "syn" =>
    Delivered(m.ack) /\ (m.kind = "data" => m.n \in 1..Len(written))

\* Before the handshake nothing has been received or sent; after it the next
\* number is the next datagram's, and what is held lies beyond a gap.
NextInLine ==
  IF Tunnel THEN recv_seq = Sn(PeerIsn, Len(inbox)) /\ recv_next = Sn(PeerIsn, Len(inbox) + 1)
  ELSE inbox = <<>> /\ written = <<>>
HeldBeyond(r, got) == \A s \in DOMAIN r : r[s] \in (got + 2)..MaxPeer /\ s = Sn(PeerIsn, r[s])
Beyond == HeldBeyond(reorder, Len(inbox))

\* What is kept was written, and with what was acknowledged by then.
SentOnly ==
  /\ \A n \in 1..Len(written) : Delivered(written[n])
  /\ \A s \in unacked : \E n \in 1..Len(written) : s = Sn(OurIsn, n)
  /\ peer_took <= Len(written)

UdpIInv ==
  /\ UdpTypes /\ FromPeer /\ FromClient /\ NextInLine /\ Beyond /\ SentOnly
  /\ StreamExact /\ AckedWasDelivered /\ KeptUntilTaken

LEMMA UdpInitIInv == UdpInit => UdpIInv
<1> SUFFICES ASSUME UdpInit PROVE UdpIInv
  OBVIOUS
<1> USE DEF UdpInit
<1>1. UdpTypes
  <2>1. <<>> \in Seq(Nat) /\ Len(<<>>) = 0
    OBVIOUS
  <2>2. 0 \in 0..MaxPeer /\ 0 \in 0..MaxWrites
    BY RdpUdpAssumption
  <2> QED
    BY <2>1, <2>2 DEF UdpTypes
<1>2. FromPeer /\ FromClient
  BY DEF FromPeer, FromClient, Syn
<1>3. NextInLine
  BY DEF NextInLine, Tunnel
<1>4. Beyond
  BY DEF Beyond, HeldBeyond
<1>5. SentOnly
  BY DEF SentOnly
<1>6. StreamExact
  BY DEF StreamExact
<1>7. AckedWasDelivered /\ KeptUntilTaken
  BY DEF AckedWasDelivered, KeptUntilTaken
<1> QED
  BY <1>1, <1>2, <1>3, <1>4, <1>5, <1>6, <1>7 DEF UdpIInv

\* How far a number lies past another tells their order.
LEMMA PastOrders ==
  ASSUME NEW isn \in 0..(SnMod - 1), NEW i \in Int, NEW j \in Int,
         i - j < Half, j - i < Half
  PROVE  /\ i >= j => Past(Sn(isn, i), Sn(isn, j)) = i - j
         /\ i < j => Past(Sn(isn, i), Sn(isn, j)) >= Half
         /\ Past(Sn(isn, i), Sn(isn, j)) \in Nat
         /\ Sn(isn, i) = Sn(isn, j) => i = j
<1>1. SnMod \in Nat \ {0} /\ SnMod = 2 * Half /\ Half \in Nat
  BY RdpUdpAssumption DEF Half
<1>2. Past(Sn(isn, i), Sn(isn, j)) = (i - j) % SnMod
  <2>1. isn \in Int
    OBVIOUS
  <2>2. (((isn + i) % SnMod) - ((isn + j) % SnMod)) % SnMod = (i - j) % SnMod
    BY <1>1, <2>1, WrapMinus, Zenon
  <2> QED
    BY <2>2 DEF Past, Sn
<1>3. PICK d \in Int : d = i - j
  OBVIOUS
<1>4. d >= 0 => d % SnMod = d
  BY <1>1, <1>3, WrapOnce
<1>5. d < 0 => d % SnMod = d + SnMod
  BY <1>1, <1>3, WrapOnce
<1>6. Sn(isn, i) = Sn(isn, j) => (i - j) % SnMod = 0
  <2>1. Sn(isn, i) \in Int
    BY <1>1, RemainderType DEF Sn
  <2>2. Sn(isn, i) = Sn(isn, j) => Past(Sn(isn, i), Sn(isn, j)) = 0 % SnMod
    BY <2>1 DEF Past
  <2>3. 0 % SnMod = 0
    BY <1>1, WrapOnce
  <2> QED
    BY <1>2, <2>2, <2>3
<1> QED
  BY <1>1, <1>2, <1>3, <1>4, <1>5, <1>6

LEMMA SnNext ==
  ASSUME NEW isn \in 0..(SnMod - 1), NEW i \in Int, NEW k \in Int
  PROVE  Sn(isn, i) \in 0..(SnMod - 1) /\ (Sn(isn, i) + k) % SnMod = Sn(isn, i + k)
<1>1. SnMod \in Nat \ {0}
  BY RdpUdpAssumption
<1>2. PICK u \in Int : u = isn + i
  OBVIOUS
<1>3. ((u % SnMod) + k) % SnMod = (u + k) % SnMod
  BY <1>1, WrapPlus
<1>4. u + k = isn + (i + k)
  BY <1>2
<1> QED
  BY <1>1, <1>2, <1>3, <1>4, RemainderType DEF Sn

\* A part of what is acknowledged is kept: what the peer had not taken when it
\* sent the acknowledgement.
LEMMA RetainKeeps ==
  ASSUME UdpTypes, SentOnly, KeptUntilTaken, NEW t \in 0..peer_took
  PROVE  /\ Retain(Sn(OurIsn, t)) \subseteq unacked
         /\ ~lossy /\ Len(written) <= MAX_UNACKED =>
              \A n \in (peer_took + 1)..Len(written) : Sn(OurIsn, n) \in Retain(Sn(OurIsn, t))
<1>1. OurIsn \in 0..(SnMod - 1) /\ MaxWrites \in 0..(Half - 1) /\ Half \in Nat
  BY RdpUdpAssumption DEF Half
<1>2. ASSUME NEW n \in (peer_took + 1)..Len(written)
      PROVE  Past(Sn(OurIsn, n), Sn(OurIsn, t)) # 0 /\ Past(Sn(OurIsn, n), Sn(OurIsn, t)) < Half
  <2>1. n \in Int /\ t \in Int /\ n - t > 0 /\ n - t < Half /\ t - n < Half
    BY <1>1 DEF UdpTypes
  <2>2. n >= t
    BY <2>1
  <2>3. Past(Sn(OurIsn, n), Sn(OurIsn, t)) = n - t
    BY <1>1, <2>1, <2>2, PastOrders, Zenon
  <2> QED
    BY <1>1, <2>1, <2>3
<1> QED
  BY <1>2 DEF Retain, KeptUntilTaken

\* Fewer numbers are kept than were written.
LEMMA FewKept ==
  ASSUME UdpTypes, SentOnly
  PROVE  IsFiniteSet(unacked) /\ Cardinality(unacked) <= Len(written)
<1>1. PICK L \in Nat : L = Len(written)
  BY DEF UdpTypes
<1> DEFINE f == [n \in 1..L |-> Sn(OurIsn, n)]
<1> DEFINE T == {Sn(OurIsn, n) : n \in 1..L}
<1>2. f \in Surjection(1..L, T)
  BY DEF Surjection
<1>3. IsFiniteSet(1..L) /\ Cardinality(1..L) = L
  <2>1. 1 \in Int /\ L \in Int /\ (IF 1 > L THEN 0 ELSE L - 1 + 1) = L
    OBVIOUS
  <2> QED
    BY <2>1, FS_Interval, Zenon
<1>4. IsFiniteSet(T) /\ Cardinality(T) <= L
  BY <1>2, <1>3, FS_Surjection
<1>5. unacked \in SUBSET T
  BY <1>1 DEF SentOnly
<1> HIDE DEF T
<1>6. IsFiniteSet(unacked) /\ Cardinality(unacked) <= Cardinality(T)
  BY <1>4, <1>5, FS_Subset
<1>7. PICK a \in Nat, b \in Nat : a = Cardinality(unacked) /\ b = Cardinality(T)
  BY <1>4, <1>6, FS_CardinalityType
<1> QED
  BY <1>1, <1>4, <1>6, <1>7

-----------------------------------------------------------------------------
(* A datagram of data *)

\* The held datagrams that follow without a gap are counted: there is an end
\* to them, and they are no more than are held.
LEMMA RunCounts ==
  ASSUME NEW D \in 0..MaxPeer, NEW n \in 1..MaxPeer, n = D + 1, NEW r,
         HeldBeyond(r, D), NEW next, next = Sn(PeerIsn, n + 1), NEW k, k = Run(DOMAIN r, next)
  PROVE  /\ k \in 0..(MaxPeer - n)
         /\ \A i \in 0..(k - 1) : /\ (next + i) % SnMod \in DOMAIN r
                                  /\ r[(next + i) % SnMod] = n + 1 + i
         /\ Sn(PeerIsn, n + 1 + k) \notin DOMAIN r
<1> DEFINE S == {i \in 0..(MaxPeer - n) : Sn(PeerIsn, n + 1 + i) \notin DOMAIN r}
<1>0. /\ MaxPeer \in 0..(Half - 1) /\ MaxPeer \in Nat /\ Half \in Nat /\ PeerIsn \in 0..(SnMod - 1)
  BY RdpUdpAssumption DEF Half
<1>h. \A s \in DOMAIN r : r[s] \in (D + 2)..MaxPeer /\ s = Sn(PeerIsn, r[s])
  BY Zenon DEF HeldBeyond
<1>1. \A i \in Int : (next + i) % SnMod = Sn(PeerIsn, n + 1 + i)
  <2>1. n + 1 \in Int
    OBVIOUS
  <2> QED
    BY <1>0, <2>1, SnNext, Zenon
<1>2. ASSUME NEW i \in 0..(MaxPeer - n), Sn(PeerIsn, n + 1 + i) \in DOMAIN r
      PROVE  r[Sn(PeerIsn, n + 1 + i)] = n + 1 + i /\ i # MaxPeer - n
  <2>1. PICK j \in (D + 2)..MaxPeer : j = r[Sn(PeerIsn, n + 1 + i)] /\ Sn(PeerIsn, n + 1 + i) = Sn(PeerIsn, j)
    BY <1>2, <1>h
  <2>2. PICK m \in Int : m = n + 1 + i
    OBVIOUS
  <2>3. m - j < Half /\ j - m < Half
    BY <1>0, <2>2
  <2>4. j \in Int /\ Sn(PeerIsn, m) = Sn(PeerIsn, j)
    BY <2>1, <2>2
  <2>5. m = j
    BY <1>0, <2>2, <2>3, <2>4, PastOrders, Zenon
  <2> QED
    BY <1>0, <2>1, <2>2, <2>5
<1>3. MaxPeer - n \in S
  <2>1. MaxPeer - n \in 0..(MaxPeer - n)
    BY <1>0
  <2> QED
    BY <1>2, <2>1, Zenon
<1>4. PICK e \in S : \A i \in S : e <= i
  <2>1. S \subseteq Nat /\ S # {}
    BY <1>3
  <2> HIDE DEF S
  <2> QED
    BY <2>1, LeastExists, Zenon
<1>5. e \in 0..(MaxPeer - n) /\ Sn(PeerIsn, n + 1 + e) \notin DOMAIN r
      /\ \A i \in 0..(e - 1) : Sn(PeerIsn, n + 1 + i) \in DOMAIN r
  <2>1. e \in 0..(MaxPeer - n) /\ Sn(PeerIsn, n + 1 + e) \notin DOMAIN r
    OBVIOUS
  <2>2. ASSUME NEW i \in 0..(e - 1) PROVE Sn(PeerIsn, n + 1 + i) \in DOMAIN r
    <3>1. i \in 0..(MaxPeer - n) /\ ~(e <= i)
      BY <1>0, <2>1
    <3> QED
      BY <1>4, <3>1
  <2> QED
    BY <2>1, <2>2
<1> HIDE DEF S
<1>6. IsFiniteSet(DOMAIN r)
  <2> DEFINE g == [s \in DOMAIN r |-> r[s]]
  <2>1. g \in Injection(DOMAIN r, 1..MaxPeer)
    <3>1. g \in [DOMAIN r -> 1..MaxPeer]
      BY <1>h
    <3>2. \A s, t \in DOMAIN r : g[s] = g[t] => s = t
      BY <1>h
    <3>3. DOMAIN g = DOMAIN r
      OBVIOUS
    <3> HIDE DEF g
    <3> QED
      BY <3>1, <3>2, <3>3 DEF Injection, IsInjective
  <2>2. IsFiniteSet(1..MaxPeer)
    BY <1>0, FS_Interval
  <2> QED
    BY <2>1, <2>2, FS_Injection
<1>7. e <= Cardinality(DOMAIN r) /\ Cardinality(DOMAIN r) \in Nat
  <2> DEFINE g == [i \in 0..(e - 1) |-> Sn(PeerIsn, n + 1 + i)]
  <2>1. \A i, j \in 0..(e - 1) : g[i] = g[j] => i = j
    <3> SUFFICES ASSUME NEW i \in 0..(e - 1), NEW j \in 0..(e - 1), g[i] = g[j] PROVE i = j
      OBVIOUS
    <3>1. i \in 0..(MaxPeer - n) /\ j \in 0..(MaxPeer - n)
      BY <1>0, <1>5
    <3>2. r[Sn(PeerIsn, n + 1 + i)] = n + 1 + i /\ r[Sn(PeerIsn, n + 1 + j)] = n + 1 + j
      BY <1>2, <1>5, <3>1, Zenon
    <3>3. Sn(PeerIsn, n + 1 + i) = Sn(PeerIsn, n + 1 + j)
      OBVIOUS
    <3> QED
      BY <3>1, <3>2, <3>3
  <2>2. g \in Injection(0..(e - 1), DOMAIN r)
    <3>1. g \in [0..(e - 1) -> DOMAIN r]
      BY <1>5
    <3>2. DOMAIN g = 0..(e - 1)
      OBVIOUS
    <3> HIDE DEF g
    <3> QED
      BY <2>1, <3>1, <3>2 DEF Injection, IsInjective
  <2>3. 0 \in Int /\ e - 1 \in Int /\ (IF 0 > e - 1 THEN 0 ELSE e - 1 - 0 + 1) = e
    BY <1>0, <1>5
  <2>4. IsFiniteSet(0..(e - 1)) /\ Cardinality(0..(e - 1)) = e
    BY <2>3, FS_Interval, Zenon
  <2> HIDE DEF g
  <2>5. Cardinality(0..(e - 1)) <= Cardinality(DOMAIN r)
    BY <1>6, <2>2, FS_Injection
  <2> QED
    BY <1>6, <2>4, <2>5, FS_CardinalityType
<1>8. \A i \in 0..(e - 1) : (next + i) % SnMod \in DOMAIN r
  <2>1. \A i \in 0..(e - 1) : i \in Int
    OBVIOUS
  <2> QED
    BY <1>1, <1>5, <2>1, Zenon
<1>9. (next + e) % SnMod \notin DOMAIN r
  BY <1>0, <1>1, <1>5
<1>10. /\ k \in 0..Cardinality(DOMAIN r)
       /\ \A i \in 0..(k - 1) : (next + i) % SnMod \in DOMAIN r
       /\ (next + k) % SnMod \notin DOMAIN r
  <2>1. \E j \in 0..Cardinality(DOMAIN r) :
          (\A i \in 0..(j - 1) : (next + i) % SnMod \in DOMAIN r) /\ (next + j) % SnMod \notin DOMAIN r
    <3>1. e \in 0..Cardinality(DOMAIN r)
      BY <1>0, <1>5, <1>7
    <3> QED
      BY <1>8, <1>9, <3>1, Zenon
  <2> QED
    BY <2>1, Zenon DEF Run
<1>11. k \in 0..(MaxPeer - n)
  <2>1. k \in Nat
    BY <1>7, <1>10
  <2>2. ~(e \in 0..(k - 1))
    BY <1>9, <1>10
  <2> QED
    BY <1>0, <1>5, <2>1, <2>2
<1>12. ASSUME NEW i \in 0..(k - 1) PROVE (next + i) % SnMod \in DOMAIN r /\ r[(next + i) % SnMod] = n + 1 + i
  <2>1. i \in 0..(MaxPeer - n) /\ i \in Int
    BY <1>0, <1>11
  <2>2. (next + i) % SnMod = Sn(PeerIsn, n + 1 + i) /\ (next + i) % SnMod \in DOMAIN r
    BY <1>1, <1>10, <2>1
  <2> QED
    BY <1>2, <2>1, <2>2
<1>13. Sn(PeerIsn, n + 1 + k) \notin DOMAIN r
  <2>1. k \in Int
    BY <1>0, <1>11
  <2> QED
    BY <1>1, <1>10, <2>1
<1> QED
  BY <1>11, <1>12, <1>13

\* Connection::on_receive of data: delivery carries on where it stopped, and
\* what stays held is beyond the next gap.
LEMMA DataInOrder ==
  ASSUME UdpTypes, FromPeer, NextInLine, Beyond, StreamExact, Tunnel,
         NEW d \in to_client, d.kind = "data", OnUdpData(d)
  PROVE  /\ inbox' \in Seq(Nat) /\ Len(inbox) <= Len(inbox') /\ Len(inbox') \in 0..MaxPeer
         /\ StreamExact' /\ Beyond'
         /\ recv_seq' = Sn(PeerIsn, Len(inbox')) /\ recv_next' = Sn(PeerIsn, Len(inbox') + 1)
<1>0. /\ MaxPeer \in 0..(Half - 1) /\ MaxPeer \in Nat /\ Half \in Nat
      /\ PeerIsn \in 0..(SnMod - 1)
  BY RdpUdpAssumption DEF Half
<1>1. PICK D \in 0..MaxPeer : D = Len(inbox)
  BY DEF UdpTypes
<1>2. PICK n \in 1..MaxPeer : d.sn = Sn(PeerIsn, n) /\ d.body = n
  BY DEF FromPeer
<1>3. recv_next = Sn(PeerIsn, D + 1) /\ recv_seq = Sn(PeerIsn, D)
  BY <1>1 DEF NextInLine
<1>4. PICK m \in Int : m = D + 1 /\ n - m < Half /\ m - n < Half
  BY <1>0
<1>5. /\ n >= m => Past(d.sn, recv_next) = n - m
      /\ n < m => Past(d.sn, recv_next) >= Half
  <2>1. n \in Int /\ recv_next = Sn(PeerIsn, m)
    BY <1>3, <1>4
  <2>2. /\ n >= m => Past(Sn(PeerIsn, n), Sn(PeerIsn, m)) = n - m
        /\ n < m => Past(Sn(PeerIsn, n), Sn(PeerIsn, m)) >= Half
    BY <1>0, <1>4, <2>1, PastOrders, Zenon
  <2> QED
    BY <1>2, <2>1, <2>2, Zenon
<1>6. CASE n < m
  <2>1. UNCHANGED recvVars
    <3>1. Past(d.sn, recv_next) >= Half
      BY <1>5, <1>6
    <3>2. ~Due(d)
      BY <1>0, <3>1 DEF Due
    <3> QED
      BY <3>1, <3>2 DEF OnUdpData
  <2>2. inbox' = inbox /\ recv_seq' = recv_seq /\ recv_next' = recv_next /\ reorder' = reorder
    BY <2>1 DEF recvVars
  <2>3. StreamExact' /\ Beyond'
    BY <2>2 DEF StreamExact, Beyond
  <2> QED
    BY <1>1, <1>3, <2>2, <2>3 DEF UdpTypes
<1>7. CASE n = m
  <2>1. Past(d.sn, recv_next) = 0 /\ ~(Past(d.sn, recv_next) >= Half) /\ n = D + 1
    BY <1>0, <1>4, <1>5, <1>7
  <2>a. PICK next : next = Sn(PeerIsn, n + 1)
    OBVIOUS
  <2>b. PICK k : k = Run(DOMAIN reorder, next)
    OBVIOUS
  <2>c. PICK t : t = [i \in 1..k |-> reorder[(next + i - 1) % SnMod]]
    OBVIOUS
  <2>d. PICK drained : drained = {(next + i) % SnMod : i \in 0..(k - 1)}
    OBVIOUS
  <2>2. (recv_next + 1) % SnMod = next
    <3>1. 1 \in Int /\ recv_next = Sn(PeerIsn, m)
      BY <1>3, <1>4
    <3>2. (Sn(PeerIsn, m) + 1) % SnMod = Sn(PeerIsn, m + 1)
      BY <1>0, <3>1, SnNext, Zenon
    <3> QED
      BY <1>7, <2>a, <3>1, <3>2, Zenon
  <2>3. /\ inbox' = Append(inbox, n) \o t
        /\ reorder' = [s \in DOMAIN reorder \ drained |-> reorder[s]]
        /\ recv_next' = (next + k) % SnMod
        /\ recv_seq' = (next + k - 1) % SnMod
    <3>1. Due(d)
      BY <2>1, Zenon DEF Due
    <3>2. LET nx == (recv_next + 1) % SnMod
              c == Run(DOMAIN reorder, nx)
              out == {(nx + i) % SnMod : i \in 0..(c - 1)}
          IN  /\ inbox' = Append(inbox, d.body) \o [i \in 1..c |-> reorder[(nx + i - 1) % SnMod]]
              /\ reorder' = [s \in DOMAIN reorder \ out |-> reorder[s]]
              /\ recv_next' = (nx + c) % SnMod
              /\ recv_seq' = (nx + c - 1) % SnMod
      BY <2>1, <3>1, Zenon DEF OnUdpData
    <3> QED
      BY <1>2, <2>2, <2>b, <2>c, <2>d, <3>2, Zenon
  <2>4. \A s \in DOMAIN reorder : reorder[s] \in (D + 2)..MaxPeer /\ s = Sn(PeerIsn, reorder[s])
    BY <1>1 DEF Beyond, HeldBeyond
  <2>e. HeldBeyond(reorder, D)
    BY <1>1, Zenon DEF Beyond
  <2>5. /\ k \in 0..(MaxPeer - n)
        /\ \A i \in 0..(k - 1) : (next + i) % SnMod \in DOMAIN reorder /\ reorder[(next + i) % SnMod] = n + 1 + i
        /\ Sn(PeerIsn, n + 1 + k) \notin DOMAIN reorder
    BY <1>1, <2>1, <2>e, <2>a, <2>b, RunCounts
  <2>6. next \in Int
    <3>1. n + 1 \in Int
      OBVIOUS
    <3>2. next \in 0..(SnMod - 1) /\ SnMod \in Nat
      BY <1>0, <2>a, <3>1, SnNext, RdpUdpAssumption
    <3> QED
      BY <3>2
  <2>7. t = [i \in 1..k |-> D + 1 + i]
    <3>1. ASSUME NEW i \in 1..k PROVE reorder[(next + i - 1) % SnMod] = D + 1 + i
      <4>1. PICK j \in 0..(k - 1) : j = i - 1
        BY <1>0, <2>5
      <4>2. next + i - 1 = next + j /\ n + 1 + j = D + 1 + i
        BY <2>1, <2>6, <4>1
      <4> QED
        BY <2>5, <4>1, <4>2
    <3> QED
      BY <2>c, <3>1
  <2>8. k \in Nat
    BY <1>0, <2>5
  <2>9. /\ inbox' \in Seq(Nat) /\ Len(inbox') = n + k
        /\ inbox' = [i \in 1..(n + k) |-> i]
    <3>1. D \in Nat /\ n \in Nat /\ n = D + 1
      BY <1>1, <2>1
    <3>2. Counts(inbox, 0, D)
      BY <1>1 DEF UdpTypes, StreamExact, Counts
    <3>3. Counts(t, n, k)
      BY <2>1, <2>7, <2>8 DEF Counts
    <3>4. Counts(Append(inbox, n), 0, n)
      BY <3>1, <3>2, CountOne, Zenon
    <3>5. Counts(Append(inbox, n) \o t, 0, n + k)
      BY <2>8, <3>1, <3>3, <3>4, CountOn, Zenon
    <3>6. PICK u : u = inbox'
      OBVIOUS
    <3>7. Counts(u, 0, n + k)
      BY <2>3, <3>5, <3>6, Zenon
    <3>8. u \in Seq(Nat) /\ Len(u) = n + k /\ u = [i \in 1..(n + k) |-> i]
      BY <3>7 DEF Counts
    <3> QED
      BY <3>6, <3>8, Zenon
  <2>10. PICK e \in 0..MaxPeer : e = Len(inbox') /\ e = n + k
    BY <1>0, <2>1, <2>5, <2>9
  <2>11. recv_next' = Sn(PeerIsn, e + 1)
    <3>1. n + 1 \in Int /\ k \in Int /\ n + 1 + k = e + 1
      BY <2>8, <2>10
    <3>2. (Sn(PeerIsn, n + 1) + k) % SnMod = Sn(PeerIsn, n + 1 + k)
      BY <1>0, <3>1, SnNext, Zenon
    <3> QED
      BY <2>3, <2>a, <3>1, <3>2
  <2>12. recv_seq' = Sn(PeerIsn, e)
    <3>1. PICK c \in Int : c = k - 1
      BY <2>8
    <3>2. n + 1 \in Int /\ n + 1 + c = e /\ next + k - 1 = next + c
      BY <2>6, <2>8, <2>10, <3>1
    <3>3. (Sn(PeerIsn, n + 1) + c) % SnMod = Sn(PeerIsn, n + 1 + c)
      BY <1>0, <3>2, SnNext, Zenon
    <3> QED
      BY <2>3, <2>a, <3>2, <3>3
  <2>13. Beyond'
    <3>1. ASSUME NEW s \in DOMAIN reorder, s \notin drained
          PROVE  reorder[s] \in (e + 2)..MaxPeer
      <4>1. PICK j \in (D + 2)..MaxPeer : j = reorder[s] /\ s = Sn(PeerIsn, j)
        BY <2>4, <3>1
      <4>2. CASE j <= n + k
        <5>1. PICK i \in 0..(k - 1) : i = j - n - 1
          BY <2>1, <2>8, <4>2
        <5>2. n + 1 \in Int /\ i \in Int /\ n + 1 + i = j
          BY <5>1
        <5>3. (Sn(PeerIsn, n + 1) + i) % SnMod = Sn(PeerIsn, n + 1 + i)
          BY <1>0, <5>2, SnNext, Zenon
        <5>4. (next + i) % SnMod = s
          BY <2>a, <4>1, <5>2, <5>3
        <5> QED
          BY <2>d, <3>1, <5>4
      <4>3. CASE j = n + 1 + k
        BY <2>5, <3>1, <4>1, <4>3
      <4> QED
        BY <2>8, <2>10, <4>1, <4>2, <4>3
    <3>2. \A s \in DOMAIN reorder' : s \in DOMAIN reorder /\ s \notin drained /\ reorder'[s] = reorder[s]
      BY <2>3
    <3> QED
      BY <2>4, <2>10, <3>1, <3>2 DEF Beyond, HeldBeyond
  <2> QED
    BY <1>1, <2>1, <2>8, <2>9, <2>10, <2>11, <2>12, <2>13 DEF StreamExact
<1>8. CASE n > m
  <2>1. Past(d.sn, recv_next) # 0 /\ ~(Past(d.sn, recv_next) >= Half)
    BY <1>0, <1>4, <1>5, <1>8
  <2>2. Hold(d) /\ UNCHANGED <<recv_seq, recv_next, inbox>>
    BY <2>1, Zenon DEF OnUdpData, Due
  <2>3. \A s \in DOMAIN reorder' : \/ s \in DOMAIN reorder /\ reorder'[s] = reorder[s]
                                   \/ s = d.sn /\ reorder'[s] = d.body
    BY <2>2 DEF Hold
  <2>4. Beyond'
    BY <1>0, <1>1, <1>2, <1>4, <1>8, <2>2, <2>3 DEF Beyond, HeldBeyond
  <2>5. StreamExact'
    BY <2>2 DEF StreamExact
  <2> QED
    BY <1>1, <1>3, <2>2, <2>4, <2>5 DEF UdpTypes
<1> QED
  BY <1>4, <1>6, <1>7, <1>8

-----------------------------------------------------------------------------
(* The steps *)

\* What arrives is what was on the way, or was sent.
LEMMA ArrivingOnly ==
  ASSUME NEW net, NEW ds, NEW max, NEW new, new \in Arriving(net, ds, max)
  PROVE  new \subseteq net \union ds
BY DEF Arriving

\* A step of the peer: what it sends is numbered as its datagrams are.
LEMMA PeerSends ==
  ASSUME UdpTypes, FromPeer, NEW kind, NEW n \in 0..MaxPeer, kind = "synack" => n = 0, kind = "data" => n >= 1,
         ToClient(UdpDatagram(kind, n)), peer_took' = peer_took
  PROVE  FromPeer'
<1> SUFFICES ASSUME NEW d \in to_client'
             PROVE  \E i \in 0..MaxPeer, t \in 0..peer_took :
                      /\ d.sn = Sn(PeerIsn, i) /\ d.body = i /\ d.ack = Sn(OurIsn, t)
                      /\ d.kind = "synack" => i = 0
                      /\ d.kind = "data" => i >= 1
  BY DEF FromPeer
<1>1. d \in to_client \/ d = UdpDatagram(kind, n)
  BY ArrivingOnly DEF ToClient
<1>2. CASE d = UdpDatagram(kind, n)
  <2>1. /\ d.sn = Sn(PeerIsn, n) /\ d.body = n /\ d.ack = Sn(OurIsn, peer_took)
        /\ d.kind = kind
    BY <1>2 DEF UdpDatagram
  <2>2. peer_took \in 0..peer_took
    BY DEF UdpTypes
  <2> QED
    BY <2>1, <2>2
<1>3. CASE d \in to_client
  BY <1>3 DEF FromPeer
<1> QED
  BY <1>1, <1>2, <1>3

\* A step that leaves the client alone and changes of the peer only what is on
\* the way and what it has sent.
LEMMA ClientStands ==
  ASSUME UdpIInv, UNCHANGED <<ustate, lossy, recvVars, sendVars, peer_acked, peer_took>>,
         peer_sent' \in 0..MaxPeer, FromPeer', FromClient'
  PROVE  UdpIInv'
<1>1. /\ ustate' = ustate /\ lossy' = lossy /\ recv_seq' = recv_seq /\ recv_next' = recv_next
      /\ reorder' = reorder /\ inbox' = inbox /\ written' = written /\ unacked' = unacked
      /\ peer_acked' = peer_acked /\ peer_took' = peer_took
  BY DEF recvVars, sendVars
<1> USE DEF UdpIInv
<1>2. UdpTypes'
  BY <1>1 DEF UdpTypes
<1>3. NextInLine' /\ Beyond'
  BY <1>1 DEF NextInLine, Beyond, HeldBeyond, Tunnel
<1>4. SentOnly'
  BY <1>1 DEF SentOnly, Delivered
<1>5. StreamExact' /\ AckedWasDelivered' /\ KeptUntilTaken'
  BY <1>1 DEF StreamExact, AckedWasDelivered, KeptUntilTaken
<1> QED
  BY <1>2, <1>3, <1>4, <1>5

LEMMA FromClientStays ==
  ASSUME FromClient, to_peer' \subseteq to_peer, UNCHANGED <<inbox, written>>
  PROVE  FromClient'
BY DEF FromClient, Delivered

LEMMA FromPeerStays ==
  ASSUME FromPeer, to_client' \subseteq to_client, peer_took' = peer_took
  PROVE  FromPeer'
BY DEF FromPeer

\* The client is handed an acknowledgement: what the peer took may go.
LEMMA RetainStep ==
  ASSUME UdpTypes, SentOnly, FromPeer, KeptUntilTaken, NEW d \in to_client, unacked' = Retain(d.ack)
  PROVE  /\ unacked' \subseteq unacked
         /\ UNCHANGED <<lossy, written, peer_took>> => KeptUntilTaken'
<1>1. PICK t \in 0..peer_took : d.ack = Sn(OurIsn, t)
  BY DEF FromPeer
<1>2. /\ unacked' \subseteq unacked
      /\ ~lossy /\ Len(written) <= MAX_UNACKED =>
           \A n \in (peer_took + 1)..Len(written) : Sn(OurIsn, n) \in unacked'
  BY <1>1, RetainKeeps
<1> QED
  BY <1>2 DEF KeptUntilTaken

LEMMA PeerOnSynHolds == ASSUME UdpIInv, PeerOnSyn PROVE UdpIInv'
<1>1. 0 \in 0..MaxPeer
  BY RdpUdpAssumption
<1>2. FromPeer'
  <2>1. UdpTypes /\ FromPeer /\ ToClient(UdpDatagram("synack", 0)) /\ peer_took' = peer_took
    BY DEF UdpIInv, PeerOnSyn
  <2> QED
    BY <1>1, <2>1, PeerSends
<1>3. FromClient'
  BY FromClientStays DEF UdpIInv, PeerOnSyn, recvVars, sendVars
<1> QED
  BY <1>2, <1>3, ClientStands DEF UdpIInv, UdpTypes, PeerOnSyn

LEMMA PeerFecHolds == ASSUME UdpIInv, PeerFec PROVE UdpIInv'
<1>1. 0 \in 0..MaxPeer
  BY RdpUdpAssumption
<1>2. FromPeer'
  <2>1. UdpTypes /\ FromPeer /\ ToClient(UdpDatagram("fec", 0)) /\ peer_took' = peer_took
    BY DEF UdpIInv, PeerFec, peerVars
  <2> QED
    BY <1>1, <2>1, PeerSends
<1>3. FromClient'
  BY FromClientStays DEF UdpIInv, PeerFec, recvVars, sendVars
<1> QED
  BY <1>2, <1>3, ClientStands DEF UdpIInv, UdpTypes, PeerFec, peerVars

LEMMA PeerFinHolds == ASSUME UdpIInv, PeerFin PROVE UdpIInv'
<1>1. 0 \in 0..MaxPeer
  BY RdpUdpAssumption
<1>2. FromPeer'
  <2>1. UdpTypes /\ FromPeer /\ ToClient(UdpDatagram("fin", 0)) /\ peer_took' = peer_took
    BY DEF UdpIInv, PeerFin, peerVars
  <2> QED
    BY <1>1, <2>1, PeerSends
<1>3. FromClient'
  BY FromClientStays DEF UdpIInv, PeerFin, recvVars, sendVars
<1> QED
  BY <1>2, <1>3, ClientStands DEF UdpIInv, UdpTypes, PeerFin, peerVars

LEMMA PeerSendHolds == ASSUME UdpIInv, NEW n \in 1..MaxPeer, PeerSend(n) PROVE UdpIInv'
<1>1. n \in 0..MaxPeer /\ n >= 1
  BY RdpUdpAssumption
<1>2. FromPeer'
  <2>1. UdpTypes /\ FromPeer /\ ToClient(UdpDatagram("data", n)) /\ peer_took' = peer_took
    BY DEF UdpIInv, PeerSend
  <2> QED
    BY <1>1, <2>1, PeerSends
<1>3. FromClient'
  BY FromClientStays DEF UdpIInv, PeerSend, recvVars, sendVars
<1>4. peer_sent' \in 0..MaxPeer
  BY <1>1 DEF UdpIInv, UdpTypes, PeerSend
<1> QED
  BY <1>2, <1>3, <1>4, ClientStands DEF PeerSend

LEMMA LossHolds ==
  ASSUME UdpIInv, \/ \E d \in to_client : LoseToClient(d)
                  \/ \E m \in to_peer : LoseToPeer(m)
  PROVE  UdpIInv'
<1>1. /\ to_client' \subseteq to_client /\ to_peer' \subseteq to_peer
      /\ UNCHANGED <<ustate, lossy, recvVars, sendVars, peerVars>>
  BY DEF LoseToClient, LoseToPeer
<1>2. FromPeer' /\ FromClient'
  BY <1>1, FromPeerStays, FromClientStays DEF UdpIInv, recvVars, sendVars, peerVars
<1>3. peer_sent' \in 0..MaxPeer
  BY <1>1 DEF UdpIInv, UdpTypes, peerVars
<1> QED
  BY <1>1, <1>2, <1>3, ClientStands DEF peerVars

\* The peer takes the client's datagrams in their order, and an acknowledgement
\* that says no more than was delivered.
LEMMA PeerReceiveHolds == ASSUME UdpIInv, NEW m \in to_peer, PeerReceive(m) PROVE UdpIInv'
<1> USE DEF UdpIInv
<1>1. /\ ustate' = ustate /\ lossy' = lossy /\ recv_seq' = recv_seq /\ recv_next' = recv_next
      /\ reorder' = reorder /\ inbox' = inbox /\ written' = written /\ unacked' = unacked
      /\ peer_sent' = peer_sent /\ to_client' = to_client /\ to_peer' = to_peer
  BY DEF PeerReceive, recvVars, sendVars
<1>2. PICK D \in 0..MaxPeer, W \in 0..MaxWrites : D = Len(inbox) /\ W = Len(written)
  BY DEF UdpTypes
<1>3. peer_acked \in 0..MaxPeer /\ peer_acked <= D /\ peer_took \in 0..MaxWrites /\ peer_took <= W
  BY <1>2 DEF UdpTypes, AckedWasDelivered, SentOnly
<1>4. PICK n \in 0..D : m.ack = Sn(PeerIsn, n) /\ m.kind # "syn"
  BY <1>2 DEF PeerReceive, FromClient, Delivered
<1>5. m.kind = "data" => m.n \in 1..W
  BY <1>2, <1>4 DEF FromClient
<1>6. peer_acked' \in 0..D
  <2>1. /\ MaxPeer \in 0..(Half - 1) /\ MaxPeer \in Nat /\ Half \in Nat /\ PeerIsn \in 0..(SnMod - 1)
    BY RdpUdpAssumption DEF Half
  <2>2. PICK q \in Int : q = peer_acked /\ n \in Int /\ n - q < Half /\ q - n < Half
    BY <1>2, <1>3, <2>1
  <2>3. /\ n >= q => Past(Sn(PeerIsn, n), Sn(PeerIsn, q)) = n - q
        /\ n < q => Past(Sn(PeerIsn, n), Sn(PeerIsn, q)) >= Half
        /\ Past(Sn(PeerIsn, n), Sn(PeerIsn, q)) \in Nat
    BY <2>1, <2>2, PastOrders, Zenon
  <2>4. /\ n >= q => Past(m.ack, Sn(PeerIsn, peer_acked)) = n - q
        /\ n < q => Past(m.ack, Sn(PeerIsn, peer_acked)) >= Half
        /\ Past(m.ack, Sn(PeerIsn, peer_acked)) \in Nat
    BY <1>4, <2>2, <2>3, Zenon
  <2>5. peer_acked' = IF Past(m.ack, Sn(PeerIsn, peer_acked)) < Half
                      THEN peer_acked + Past(m.ack, Sn(PeerIsn, peer_acked)) ELSE peer_acked
    BY DEF PeerReceive
  <2>6. CASE n >= q
    BY <1>2, <2>1, <2>2, <2>4, <2>5, <2>6
  <2>7. CASE n < q
    BY <1>3, <2>1, <2>2, <2>4, <2>5, <2>7
  <2> QED
    BY <2>2, <2>6, <2>7
<1>7. peer_took' \in peer_took..W
  BY <1>3, <1>5 DEF PeerReceive
<1>8. UdpTypes'
  <2>1. peer_acked' \in 0..MaxPeer /\ peer_took' \in 0..MaxWrites
    BY <1>2, <1>3, <1>6, <1>7, RdpUdpAssumption
  <2> QED
    BY <1>1, <2>1 DEF UdpTypes
<1>9. FromPeer'
  <2>1. 0..peer_took \subseteq 0..(peer_took')
    BY <1>3, <1>7
  <2> QED
    BY <1>1, <2>1 DEF FromPeer
<1>10. FromClient'
  BY <1>1, FromClientStays
<1>11. NextInLine' /\ Beyond'
  BY <1>1 DEF NextInLine, Beyond, HeldBeyond, Tunnel
<1>12. SentOnly'
  BY <1>1, <1>2, <1>3, <1>7 DEF SentOnly, Delivered
<1>13. StreamExact' /\ AckedWasDelivered'
  BY <1>1, <1>2, <1>6 DEF StreamExact, AckedWasDelivered
<1>14. KeptUntilTaken'
  <2>1. (peer_took' + 1)..Len(written) \subseteq (peer_took + 1)..Len(written)
    BY <1>2, <1>3, <1>7
  <2> QED
    BY <1>1, <2>1 DEF KeptUntilTaken
<1> QED
  BY <1>8, <1>9, <1>10, <1>11, <1>12, <1>13, <1>14

\* What the client sends acknowledges what was delivered by then.
LEMMA ClientSends ==
  ASSUME FromClient, NEW ds, ToPeer(ds) \/ to_peer' = to_peer,
         \A m \in ds : m.kind # "syn" => Delivered(m.ack)' /\ (m.kind = "data" => m.n \in 1..Len(written)'),
         \A a : Delivered(a) => Delivered(a)',
         1..Len(written) \subseteq 1..Len(written)'
  PROVE  FromClient'
<1>1. to_peer' \subseteq to_peer \union ds
  BY ArrivingOnly DEF ToPeer
<1> QED
  BY <1>1 DEF FromClient

LEMMA DeliveredStays ==
  ASSUME UdpTypes, Len(inbox') \in Nat, Len(inbox) <= Len(inbox')
  PROVE  \A a : Delivered(a) => Delivered(a)'
<1>1. 0..Len(inbox) \subseteq 0..Len(inbox')
  BY DEF UdpTypes
<1> QED
  BY <1>1 DEF Delivered

LEMMA HandshakeReceiveHolds == ASSUME UdpIInv, NEW d \in to_client, HandshakeReceive(d) PROVE UdpIInv'
<1> USE DEF UdpIInv
<1>1. /\ lossy' = lossy /\ reorder' = reorder /\ inbox' = inbox /\ written' = written
      /\ peer_sent' = peer_sent /\ peer_acked' = peer_acked /\ peer_took' = peer_took
      /\ to_client' = to_client /\ ustate = "SynSent"
  BY DEF HandshakeReceive, peerVars
<1>2. inbox = <<>> /\ written = <<>>
  BY <1>1 DEF NextInLine, Tunnel
<1>3. PICK n \in 0..MaxPeer : d.sn = Sn(PeerIsn, n) /\ (d.kind = "synack" => n = 0)
  BY DEF FromPeer
<1>4. unacked' \subseteq unacked /\ KeptUntilTaken'
  <2>1. unacked' = Retain(d.ack) /\ UdpTypes /\ SentOnly /\ FromPeer /\ KeptUntilTaken
    BY DEF HandshakeReceive
  <2> QED
    BY <1>1, <2>1, RetainStep
<1>5. \/ /\ d.kind = "synack" /\ ustate' = "Established"
         /\ recv_seq' = d.sn /\ recv_next' = (d.sn + 1) % SnMod /\ ToPeer({Ack(d.sn)})
      \/ ustate' \in {"SynSent", "Failed"} /\ to_peer' = to_peer
  <2>1. CASE d.kind = "synack"
    BY <2>1 DEF HandshakeReceive
  <2>2. CASE d.kind = "fin"
    BY <2>2 DEF HandshakeReceive
  <2>3. CASE d.kind # "synack" /\ d.kind # "fin"
    BY <1>1, <2>3 DEF HandshakeReceive
  <2> QED
    BY <2>1, <2>2, <2>3
<1>6. UdpTypes'
  BY <1>1, <1>5 DEF UdpTypes
<1>7. FromPeer'
  BY <1>1 DEF FromPeer
<1>8. d.sn = Sn(PeerIsn, n) /\ Delivered(Sn(PeerIsn, 0))' /\ Len(inbox) = 0
  <2>1. 0 \in 0..Len(inbox')
    BY <1>1, <1>2
  <2> QED
    BY <1>1, <1>2, <1>3, <2>1 DEF Delivered
<1>9. FromClient'
  <2>1. \A a : Delivered(a) => Delivered(a)'
    BY <1>1 DEF Delivered
  <2>2. 1..Len(written) \subseteq 1..Len(written)'
    BY <1>1
  <2>3. CASE to_peer' = to_peer
    BY <1>1, <2>3, FromClientStays
  <2>4. CASE d.kind = "synack" /\ ToPeer({Ack(d.sn)})
    <3>1. \A m \in {Ack(d.sn)} : m.kind = "ack" /\ Delivered(m.ack)'
      BY <1>3, <1>8, <2>4 DEF Ack
    <3> QED
      BY <2>1, <2>2, <2>4, <3>1, ClientSends
  <2> QED
    BY <1>5, <2>3, <2>4
<1>10. NextInLine'
  <2>1. CASE d.kind = "synack" /\ ustate' = "Established" /\ recv_seq' = d.sn /\ recv_next' = (d.sn + 1) % SnMod
    <3>1. PeerIsn \in 0..(SnMod - 1) /\ 0 \in Int /\ 1 \in Int /\ 0 + 1 = 1
      BY RdpUdpAssumption
    <3>2. (Sn(PeerIsn, 0) + 1) % SnMod = Sn(PeerIsn, 0 + 1)
      BY <3>1, SnNext, Zenon
    <3>3. recv_seq' = Sn(PeerIsn, 0) /\ recv_next' = Sn(PeerIsn, 0 + 1)
      BY <1>3, <2>1, <3>2
    <3>4. Len(inbox') = 0
      BY <1>1, <1>8
    <3> QED
      BY <2>1, <3>3, <3>4 DEF NextInLine, Tunnel
  <2>2. CASE ustate' \in {"SynSent", "Failed"}
    BY <1>1, <1>2, <2>2 DEF NextInLine, Tunnel
  <2> QED
    BY <1>5, <2>1, <2>2
<1>11. Beyond'
  BY <1>1 DEF Beyond, HeldBeyond
<1>12. SentOnly'
  BY <1>1, <1>4 DEF SentOnly, Delivered
<1>13. StreamExact' /\ AckedWasDelivered'
  BY <1>1 DEF StreamExact, AckedWasDelivered
<1> QED
  BY <1>4, <1>6, <1>7, <1>9, <1>10, <1>11, <1>12, <1>13

LEMMA HandshakeTimeoutHolds == ASSUME UdpIInv, HandshakeTimeout PROVE UdpIInv'
<1>1. UNCHANGED <<ustate, lossy, recvVars, sendVars, peerVars, to_client>> /\ ToPeer({Syn})
  BY DEF HandshakeTimeout
<1>2. inbox' = inbox /\ written' = written /\ peer_took' = peer_took /\ peer_acked' = peer_acked
      /\ peer_sent' = peer_sent /\ to_client' = to_client
  BY <1>1 DEF recvVars, sendVars, peerVars
<1>3. FromClient'
  <2>1. \A m \in {Syn} : m.kind = "syn"
    BY DEF Syn
  <2>2. (\A a : Delivered(a) => Delivered(a)') /\ 1..Len(written) \subseteq 1..Len(written)'
    BY <1>2 DEF Delivered
  <2> QED
    BY <1>1, <2>1, <2>2, ClientSends DEF UdpIInv
<1>4. FromPeer'
  BY <1>2, FromPeerStays DEF UdpIInv
<1>5. peer_sent' \in 0..MaxPeer
  BY <1>2 DEF UdpIInv, UdpTypes
<1> QED
  BY <1>1, <1>2, <1>3, <1>4, <1>5, ClientStands

\* UdpReliable::pump.
LEMMA PumpHolds == ASSUME UdpIInv, NEW d \in to_client, Pump(d) PROVE UdpIInv'
<1> USE DEF UdpIInv
<1>1. /\ lossy' = lossy /\ written' = written
      /\ peer_sent' = peer_sent /\ peer_acked' = peer_acked /\ peer_took' = peer_took
      /\ to_client' = to_client /\ Tunnel /\ unacked' = Retain(d.ack)
  BY DEF Pump, peerVars
<1>2. unacked' \subseteq unacked /\ KeptUntilTaken'
  <2>1. UdpTypes /\ SentOnly /\ FromPeer /\ KeptUntilTaken
    OBVIOUS
  <2> QED
    BY <1>1, <2>1, RetainStep
<1>3. \/ d.kind = "data" /\ OnUdpData(d) /\ ToPeer(AckNow) /\ ustate' = ustate
      \/ UNCHANGED recvVars /\ ustate' \in {ustate, "Closed"} /\ (ToPeer(AckNow) \/ to_peer' = to_peer)
  <2>1. CASE d.kind = "data" /\ ustate = "Established"
    BY <2>1 DEF Pump
  <2>2. CASE d.kind = "fec" /\ ustate = "Established"
    BY <2>2 DEF Pump
  <2>3. CASE d.kind = "fin"
    BY <2>3 DEF Pump
  <2>4. CASE d.kind # "fin" /\ ~(d.kind \in {"data", "fec"} /\ ustate = "Established")
    BY <2>4 DEF Pump
  <2> QED
    BY <2>1, <2>2, <2>3, <2>4
<1>4. /\ inbox' \in Seq(Nat) /\ Len(inbox) <= Len(inbox') /\ Len(inbox') \in 0..MaxPeer
      /\ StreamExact' /\ Beyond'
      /\ recv_seq' = Sn(PeerIsn, Len(inbox')) /\ recv_next' = Sn(PeerIsn, Len(inbox') + 1)
      /\ ustate' \in {"Established", "Closed"} /\ (ToPeer(AckNow) \/ to_peer' = to_peer)
  <2>1. CASE d.kind = "data" /\ OnUdpData(d) /\ ToPeer(AckNow) /\ ustate' = ustate
    <3>1. UdpTypes /\ FromPeer /\ NextInLine /\ Beyond /\ StreamExact /\ Tunnel
      BY <1>1
    <3>2. /\ inbox' \in Seq(Nat) /\ Len(inbox) <= Len(inbox') /\ Len(inbox') \in 0..MaxPeer
          /\ StreamExact' /\ Beyond'
          /\ recv_seq' = Sn(PeerIsn, Len(inbox')) /\ recv_next' = Sn(PeerIsn, Len(inbox') + 1)
      BY <2>1, <3>1, DataInOrder
    <3> QED
      BY <1>1, <2>1, <3>2 DEF Tunnel
  <2>2. CASE UNCHANGED recvVars /\ ustate' \in {ustate, "Closed"} /\ (ToPeer(AckNow) \/ to_peer' = to_peer)
    <3>1. inbox' = inbox /\ reorder' = reorder /\ recv_seq' = recv_seq /\ recv_next' = recv_next
      BY <2>2 DEF recvVars
    <3>2. ustate' \in {"Established", "Closed"}
      BY <1>1, <2>2 DEF Tunnel
    <3>3. StreamExact' /\ Beyond'
      BY <3>1 DEF StreamExact, Beyond, HeldBeyond
    <3>4. recv_seq = Sn(PeerIsn, Len(inbox)) /\ recv_next = Sn(PeerIsn, Len(inbox) + 1)
      BY <1>1 DEF NextInLine
    <3>5. inbox \in Seq(Nat) /\ Len(inbox) \in 0..MaxPeer
      BY DEF UdpTypes
    <3> QED
      BY <2>2, <3>1, <3>2, <3>3, <3>4, <3>5
  <2> QED
    BY <1>3, <2>1, <2>2
<1>5. UdpTypes'
  BY <1>1, <1>4 DEF UdpTypes
<1>6. FromPeer'
  BY <1>1 DEF FromPeer
<1>7. \A a : Delivered(a) => Delivered(a)'
  BY <1>4, DeliveredStays
<1>8. FromClient'
  <2>1. Len(inbox') \in 0..Len(inbox')
    BY <1>4
  <2>2. \A m \in AckNow : m.kind = "ack" /\ Delivered(m.ack)'
    BY <1>4, <2>1 DEF AckNow, Ack, Delivered
  <2>3. 1..Len(written) \subseteq 1..Len(written)'
    BY <1>1
  <2>4. \A m \in AckNow : m.kind # "syn" => Delivered(m.ack)' /\ (m.kind = "data" => m.n \in 1..Len(written)')
    BY <2>2
  <2>5. FromClient /\ (ToPeer(AckNow) \/ to_peer' = to_peer)
    BY <1>4
  <2> QED
    BY <1>7, <2>3, <2>4, <2>5, ClientSends
<1>9. NextInLine'
  BY <1>4 DEF NextInLine, Tunnel
<1>10. SentOnly'
  BY <1>1, <1>2, <1>7 DEF SentOnly
<1>11. AckedWasDelivered'
  BY <1>1, <1>4 DEF AckedWasDelivered, UdpTypes
<1> QED
  BY <1>2, <1>4, <1>5, <1>6, <1>8, <1>9, <1>10, <1>11

\* UdpReliable::maybe_retransmit.
LEMMA RetransmitHolds == ASSUME UdpIInv, Retransmit PROVE UdpIInv'
<1> DEFINE again == {n \in DOMAIN written : Sn(OurIsn, n) \in unacked}
<1>1. /\ UNCHANGED <<ustate, lossy, recvVars, sendVars, peerVars, to_client>>
      /\ ToPeer({Data(written[n], n) : n \in again})
  BY DEF Retransmit, recvVars, sendVars
<1>2. inbox' = inbox /\ written' = written /\ peer_took' = peer_took /\ peer_acked' = peer_acked
      /\ peer_sent' = peer_sent /\ to_client' = to_client
  BY <1>1 DEF recvVars, sendVars, peerVars
<1>3. FromClient'
  <2>1. DOMAIN written = 1..Len(written)
    BY DEF UdpIInv, UdpTypes
  <2>2. \A m \in {Data(written[n], n) : n \in again} :
          m.kind # "syn" => Delivered(m.ack)' /\ (m.kind = "data" => m.n \in 1..Len(written)')
    BY <1>2, <2>1 DEF Data, UdpIInv, SentOnly, Delivered
  <2>3. (\A a : Delivered(a) => Delivered(a)') /\ 1..Len(written) \subseteq 1..Len(written)'
    BY <1>2 DEF Delivered
  <2>4. FromClient
    BY DEF UdpIInv
  <2> HIDE DEF again
  <2> QED
    BY <1>1, <2>2, <2>3, <2>4, ClientSends
<1>4. FromPeer'
  BY <1>2, FromPeerStays DEF UdpIInv
<1>5. peer_sent' \in 0..MaxPeer
  BY <1>2 DEF UdpIInv, UdpTypes
<1> QED
  BY <1>1, <1>2, <1>3, <1>4, <1>5, ClientStands

\* UdpReliable::write: what is written is kept, unless too much is kept.
LEMMA WriteHolds == ASSUME UdpIInv, Write PROVE UdpIInv'
<1> USE DEF UdpIInv
<1>1. /\ ustate' = ustate /\ lossy' = lossy /\ recv_seq' = recv_seq /\ recv_next' = recv_next
      /\ reorder' = reorder /\ inbox' = inbox /\ to_client' = to_client
      /\ peer_sent' = peer_sent /\ peer_acked' = peer_acked /\ peer_took' = peer_took /\ Tunnel
  BY DEF Write, recvVars, peerVars
<1>2. PICK W \in 0..MaxWrites : W = Len(written)
  BY DEF UdpTypes
<1>3. PICK n \in 1..MaxWrites : n = W + 1
  BY <1>2, RdpUdpAssumption DEF Write
<1> DEFINE kept == IF Cardinality(unacked) >= MAX_UNACKED THEN unacked \ {Smallest(unacked)} ELSE unacked
<1>4. /\ written' = Append(written, recv_seq)
      /\ unacked' = IF lossy THEN {} ELSE kept \union {Sn(OurIsn, n)}
      /\ ToPeer({Data(recv_seq, n)})
  BY <1>2, <1>3 DEF Write
<1>5. kept \subseteq unacked /\ (Len(written) + 1 <= MAX_UNACKED => kept = unacked)
  <2>1. Cardinality(unacked) <= Len(written) /\ IsFiniteSet(unacked)
    BY FewKept
  <2>2. PICK c \in Nat : c = Cardinality(unacked)
    BY <2>1, FS_CardinalityType
  <2> QED
    BY <1>2, <2>1, <2>2, RdpUdpAssumption
<1> HIDE DEF kept
<1>6. recv_seq = Sn(PeerIsn, Len(inbox)) /\ recv_seq \in Nat
  <2>1. PICK g \in Int : g = Len(inbox)
    BY DEF UdpTypes
  <2>2. PeerIsn \in 0..(SnMod - 1) /\ SnMod \in Nat /\ 0 \in Int
    BY RdpUdpAssumption
  <2>3. Sn(PeerIsn, g) \in 0..(SnMod - 1)
    BY <2>2, SnNext
  <2> QED
    BY <1>1, <2>1, <2>2, <2>3 DEF NextInLine
<1>7. /\ written' \in Seq(Nat) /\ Len(written') = n
      /\ \A i \in 1..W : written'[i] = written[i]
      /\ written'[n] = recv_seq
  <2>1. written \in Seq(Nat)
    BY DEF UdpTypes
  <2>2. /\ Append(written, recv_seq) \in Seq(Nat) /\ Len(Append(written, recv_seq)) = Len(written) + 1
        /\ \A i \in 1..Len(written) : Append(written, recv_seq)[i] = written[i]
        /\ Append(written, recv_seq)[Len(written) + 1] = recv_seq
    BY <1>6, <2>1, AppendProperties
  <2> QED
    BY <1>2, <1>3, <1>4, <2>2
<1>8. UdpTypes'
  <2>1. n \in 0..MaxWrites
    BY <1>3, RdpUdpAssumption
  <2> QED
    BY <1>1, <1>7, <2>1 DEF UdpTypes
<1>9. FromPeer'
  BY <1>1 DEF FromPeer
<1>10. Delivered(recv_seq)
  <2>1. Len(inbox) \in 0..Len(inbox)
    BY DEF UdpTypes
  <2> QED
    BY <1>6, <2>1 DEF Delivered
<1>11. FromClient'
  <2>1. \A a : Delivered(a) => Delivered(a)'
    BY <1>1 DEF Delivered
  <2>2. 1..Len(written) \subseteq 1..Len(written)' /\ n \in 1..Len(written)'
    BY <1>2, <1>3, <1>7
  <2>3. \A m \in {Data(recv_seq, n)} : Delivered(m.ack)' /\ m.n \in 1..Len(written)'
    BY <1>10, <2>1, <2>2 DEF Data
  <2> QED
    BY <1>4, <2>1, <2>2, <2>3, ClientSends
<1>12. NextInLine' /\ Beyond'
  BY <1>1 DEF NextInLine, Beyond, HeldBeyond, Tunnel
<1>13. SentOnly'
  <2>1. \A i \in 1..n : i \in 1..W \/ i = n
    BY <1>2, <1>3
  <2>2. \A i \in 1..n : Delivered(written'[i])
    BY <1>1, <1>2, <1>7, <1>10, <2>1 DEF SentOnly, Delivered
  <2>3. 1..W \subseteq 1..n /\ n \in 1..n /\ peer_took <= n
    BY <1>2, <1>3 DEF SentOnly, UdpTypes
  <2>4. \A s \in unacked' : \E i \in 1..n : s = Sn(OurIsn, i)
    BY <1>2, <1>4, <1>5, <2>3 DEF SentOnly
  <2> QED
    BY <1>1, <1>7, <2>2, <2>3, <2>4 DEF SentOnly, Delivered
<1>14. StreamExact' /\ AckedWasDelivered'
  BY <1>1 DEF StreamExact, AckedWasDelivered
<1>15. KeptUntilTaken'
  <2> SUFFICES ASSUME ~lossy, n <= MAX_UNACKED, NEW i \in (peer_took + 1)..n PROVE Sn(OurIsn, i) \in unacked'
    BY <1>1, <1>7 DEF KeptUntilTaken
  <2>1. kept = unacked /\ Len(written) <= MAX_UNACKED
    BY <1>2, <1>3, <1>5, RdpUdpAssumption
  <2>2. i = n \/ i \in (peer_took + 1)..W
    BY <1>2, <1>3 DEF UdpTypes
  <2>3. i \in (peer_took + 1)..W => Sn(OurIsn, i) \in unacked
    BY <1>2, <2>1 DEF KeptUntilTaken
  <2> QED
    BY <1>4, <2>1, <2>2, <2>3
<1> QED
  BY <1>8, <1>9, <1>11, <1>12, <1>13, <1>14, <1>15

LEMMA UdpStutterHolds == ASSUME UdpIInv, UNCHANGED udpVars PROVE UdpIInv'
<1>1. /\ UNCHANGED <<ustate, lossy, recvVars, sendVars, peer_acked, peer_took, inbox, written>>
      /\ to_client' = to_client /\ to_peer' = to_peer /\ peer_sent' = peer_sent
  BY DEF udpVars, recvVars, sendVars, peerVars
<1>2. FromPeer' /\ FromClient'
  BY <1>1, FromPeerStays, FromClientStays DEF UdpIInv
<1> QED
  BY <1>1, <1>2, ClientStands DEF UdpIInv, UdpTypes

LEMMA UdpNextIInv == UdpIInv /\ [UdpNext]_udpVars => UdpIInv'
<1> SUFFICES ASSUME UdpIInv, [UdpNext]_udpVars PROVE UdpIInv'
  OBVIOUS
<1>1. ASSUME PeerOnSyn PROVE UdpIInv'
  BY <1>1, PeerOnSynHolds
<1>2. ASSUME PeerFec PROVE UdpIInv'
  BY <1>2, PeerFecHolds
<1>3. ASSUME PeerFin PROVE UdpIInv'
  BY <1>3, PeerFinHolds
<1>4. ASSUME NEW n \in 1..MaxPeer, PeerSend(n) PROVE UdpIInv'
  BY <1>4, PeerSendHolds
<1>5. ASSUME NEW m \in to_peer, PeerReceive(m) PROVE UdpIInv'
  BY <1>5, PeerReceiveHolds
<1>6. ASSUME NEW m \in to_peer, LoseToPeer(m) PROVE UdpIInv'
  BY <1>6, LossHolds
<1>7. ASSUME NEW d \in to_client, LoseToClient(d) PROVE UdpIInv'
  BY <1>7, LossHolds
<1>8. ASSUME NEW d \in to_client, HandshakeReceive(d) PROVE UdpIInv'
  BY <1>8, HandshakeReceiveHolds
<1>9. ASSUME NEW d \in to_client, Pump(d) PROVE UdpIInv'
  BY <1>9, PumpHolds
<1>10. ASSUME HandshakeTimeout PROVE UdpIInv'
  BY <1>10, HandshakeTimeoutHolds
<1>11. ASSUME Retransmit PROVE UdpIInv'
  BY <1>11, RetransmitHolds
<1>12. ASSUME Write PROVE UdpIInv'
  BY <1>12, WriteHolds
<1>13. ASSUME UNCHANGED udpVars PROVE UdpIInv'
  BY <1>13, UdpStutterHolds
<1> QED
  BY <1>1, <1>2, <1>3, <1>4, <1>5, <1>6, <1>7, <1>8, <1>9, <1>10, <1>11, <1>12, <1>13 DEF UdpNext

THEOREM UdpInductive == UdpSpec => []UdpIInv
<1>1. UdpInit => UdpIInv
  BY UdpInitIInv
<1>2. UdpIInv /\ [UdpNext]_udpVars => UdpIInv'
  BY UdpNextIInv
<1> QED
  BY <1>1, <1>2, PTL DEF UdpSpec

\* The stream that TLS reads is the peer's, in order, without a gap or a
\* repetition (Connection::on_receive), for every first number, size of the
\* reorder buffer and behaviour of the path.
THEOREM UdpStreamAlwaysExact == UdpSpec => []StreamExact
<1>1. UdpIInv => StreamExact
  BY DEF UdpIInv
<1> QED
  BY <1>1, UdpInductive, PTL

\* No acknowledgement of the client's, however late, makes the peer give up
\* what was not delivered.
THEOREM UdpAcksHonest == UdpSpec => []AckedWasDelivered
<1>1. UdpIInv => AckedWasDelivered
  BY DEF UdpIInv
<1> QED
  BY <1>1, UdpInductive, PTL

\* On the reliable channel the client keeps what the peer has not taken, for
\* sending again, until there are MAX_UNACKED (Connection::on_receive and
\* build_data).
THEOREM UdpKeptUntilTaken == UdpSpec => []KeptUntilTaken
<1>1. UdpIInv => KeptUntilTaken
  BY DEF UdpIInv
<1> QED
  BY <1>1, UdpInductive, PTL
-----------------------------------------------------------------------------
(* The inductive invariant of sound *)

\* The number of the frame captured at c, if the sender runs on since.
NumberOf(c) == (seq - (clock - c)) % SEQS

\* What the sender sent since it started at the moment b.
SentSince(b) ==
  /\ b \in 0..clock
  /\ prev => b < clock
  /\ \A p \in packets : /\ p.capture_us \in (b + 1)..clock /\ p.frames \in {1, 2}
                        /\ p.capture_us - (p.frames - 1) > b
                        /\ p.seq = NumberOf(p.capture_us)
  /\ \A p, q \in packets : p.capture_us = q.capture_us => p = q

\* What was decoded last is of this start, and the next number follows it, or it
\* is of an earlier one.
HeardOf(b) ==
  \/ next_audio = NoNext /\ heard = 0 /\ deaf = 0
  \/ /\ next_audio \in 0..(SEQS - 1) /\ heard \in 1..clock
     /\ (heard > b => next_audio = NumberOf(heard + 1) /\ deaf = 0)

\* The packets dropped had numbers just behind the next one.
DroppedOf(b, D) ==
  /\ D \subseteq (b + 1)..clock /\ IsFiniteSet(D) /\ Cardinality(D) = deaf
  /\ \A c \in D : Ahead(NumberOf(c), next_audio) \in (-RESTART_BEHIND)..(-1)
  /\ \A p \in packets : p.capture_us \notin D

AudioTypes ==
  /\ clock \in 0..MaxAudio /\ seq \in 0..(SEQS - 1) /\ prev \in BOOLEAN
  /\ newest_capture_us = heard /\ deaf \in Nat

AudioIInv ==
  /\ AudioTypes /\ DecodedInOrder
  /\ \E b \in Nat : SentSince(b) /\ HeardOf(b) /\ \E D \in SUBSET Nat : DroppedOf(b, D)

LEMMA HalfOfNumbers ==
  /\ SEQS \in Nat \ {0} /\ SEQS \div 2 \in Nat /\ SEQS = 2 * (SEQS \div 2)
  /\ MaxAudio \in 0..((SEQS \div 2) - 1) /\ RESTART_BEHIND \in 0..((SEQS \div 2) - 2)
<1>1. SEQS \in Nat \ {0} /\ SEQS % 2 = 0
  BY AudioAssumption
<1>2. SEQS \div 2 \in Int /\ SEQS = 2 * (SEQS \div 2) + (SEQS % 2)
  BY <1>1
<1> QED
  BY <1>1, <1>2, AudioAssumption

\* How far apart numbers lie that are less than half of them apart.
LEMMA AheadIs ==
  ASSUME NEW x \in Int, NEW y \in Int, NEW d \in Int,
         -(SEQS \div 2) <= d, d < SEQS \div 2, (x - y) % SEQS = d % SEQS
  PROVE  Ahead(x, y) = d
<1>1. CASE d >= 0
  <2>1. d % SEQS = d
    BY <1>1, WrapOnce, HalfOfNumbers
  <2> QED
    BY <1>1, <2>1, HalfOfNumbers DEF Ahead
<1>2. CASE d < 0
  <2>1. d % SEQS = d + SEQS
    BY <1>2, WrapOnce, HalfOfNumbers
  <2> QED
    BY <1>2, <2>1, HalfOfNumbers DEF Ahead
<1> QED
  BY <1>1, <1>2

\* Numbers of two moments differ as the moments do.
LEMMA NumbersDiffer ==
  ASSUME seq \in Int, clock \in Int, NEW c \in Int, NEW e \in Int
  PROVE  /\ NumberOf(c) \in 0..(SEQS - 1)
         /\ (NumberOf(c) - NumberOf(e)) % SEQS = (c - e) % SEQS
         /\ \A k \in Int : (NumberOf(c) + k) % SEQS = NumberOf(c + k)
<1>1. SEQS \in Nat \ {0}
  BY HalfOfNumbers
<1>2. PICK o \in Int : o = seq - clock
  OBVIOUS
<1>3. \A a \in Int : NumberOf(a) = (o + a) % SEQS
  <2> SUFFICES ASSUME NEW a \in Int PROVE NumberOf(a) = (o + a) % SEQS
    OBVIOUS
  <2>1. seq - (clock - a) = o + a
    BY <1>2
  <2> QED
    BY <2>1 DEF NumberOf
<1>4. NumberOf(c) \in 0..(SEQS - 1)
  BY <1>1, <1>3, RemainderType
<1>5. (((o + c) % SEQS) - ((o + e) % SEQS)) % SEQS = (c - e) % SEQS
  BY <1>1, WrapMinus, Zenon
<1>6. ASSUME NEW k \in Int PROVE (NumberOf(c) + k) % SEQS = NumberOf(c + k)
  <2>1. PICK u \in Int : u = o + c
    OBVIOUS
  <2>2. ((u % SEQS) + k) % SEQS = (u + k) % SEQS
    BY <1>1, WrapPlus
  <2>3. NumberOf(c) = u % SEQS /\ NumberOf(c + k) = (o + (c + k)) % SEQS
    BY <1>3, <2>1
  <2>4. o + (c + k) = u + k
    BY <2>1
  <2> QED
    BY <2>2, <2>3, <2>4
<1> QED
  BY <1>3, <1>4, <1>5, <1>6

LEMMA AudioInitIInv == AudioInit => AudioIInv
<1> SUFFICES ASSUME AudioInit PROVE AudioIInv
  OBVIOUS
<1> USE DEF AudioInit
<1>1. AudioTypes
  <2>1. 0 \in 0..MaxAudio /\ 0 \in 0..(SEQS - 1) /\ SEQS - 4 \in 0..(SEQS - 1)
    BY HalfOfNumbers
  <2>2. seq \in 0..(SEQS - 1) /\ clock \in 0..MaxAudio /\ newest_capture_us = heard /\ deaf \in Nat
    BY <2>1
  <2>3. prev \in BOOLEAN
    BY Zenon
  <2> QED
    BY <2>2, <2>3 DEF AudioTypes
<1>2. SentSince(0) /\ HeardOf(0)
  BY DEF SentSince, HeardOf
<1>3. DroppedOf(0, {})
  BY FS_EmptySet DEF DroppedOf
<1>4. {} \in SUBSET Nat /\ 0 \in Nat
  OBVIOUS
<1> QED
  BY <1>1, <1>2, <1>3, <1>4 DEF AudioIInv, DecodedInOrder

\* Steps after which the moments keep their numbers.
LEMMA NumbersStay ==
  ASSUME AudioTypes, \/ UNCHANGED <<seq, clock>>
                     \/ seq' = (seq + 1) % SEQS /\ clock' = clock + 1
  PROVE  \A c \in Int : NumberOf(c)' = NumberOf(c)
<1> SUFFICES ASSUME NEW c \in Int PROVE NumberOf(c)' = NumberOf(c)
  OBVIOUS
<1>1. CASE UNCHANGED <<seq, clock>>
  BY <1>1 DEF NumberOf
<1>2. CASE seq' = (seq + 1) % SEQS /\ clock' = clock + 1
  <2>a. seq \in Int /\ clock \in Int /\ SEQS \in Nat \ {0}
    BY HalfOfNumbers DEF AudioTypes
  <2>b. PICK u \in Int, k \in Int, m \in Int : u = seq + 1 /\ m = clock + 1 /\ k = -(m - c)
    BY <2>a
  <2>c. u % SEQS \in Int
    BY <2>a, RemainderType
  <2>1. PICK s \in Int : s = u % SEQS
    BY <2>c
  <2>2. (s + k) % SEQS = (u + k) % SEQS
    BY <2>1, WrapPlus, HalfOfNumbers
  <2>3. s + k = s - (m - c) /\ u + k = seq - (clock - c)
    BY <2>a, <2>b
  <2>4. seq' = s /\ clock' = m
    BY <1>2, <2>b, <2>1
  <2>5. NumberOf(c)' = (seq' - (clock' - c)) % SEQS
    BY DEF NumberOf
  <2>6. NumberOf(c)' = (s - (m - c)) % SEQS
    BY <2>4, <2>5, Zenon
  <2> QED
    BY <2>2, <2>3, <2>6 DEF NumberOf
<1> QED
  BY <1>1, <1>2

LEMMA SendFrameHolds == ASSUME AudioIInv, NEW redundant \in BOOLEAN, SendFrame(redundant) PROVE AudioIInv'
<1> DEFINE two == prev /\ redundant
<1> DEFINE p == [seq |-> (seq + 1) % SEQS, frames |-> IF two THEN 2 ELSE 1, capture_us |-> clock + 1]
<1>1. /\ clock < MaxAudio /\ clock' = clock + 1 /\ seq' = (seq + 1) % SEQS /\ prev' = TRUE
      /\ packets' = packets \union {p}
      /\ UNCHANGED <<run, next_audio, newest_capture_us, heard, ordered, deaf>>
  BY DEF SendFrame
<1>2. PICK b \in Nat, D \in SUBSET Nat : SentSince(b) /\ HeardOf(b) /\ DroppedOf(b, D)
  BY DEF AudioIInv
<1>3. clock \in Nat /\ MaxAudio \in Nat /\ SEQS \in Nat \ {0} /\ seq \in Int
  BY HalfOfNumbers DEF AudioIInv, AudioTypes
<1>4. (seq + 1) % SEQS \in 0..(SEQS - 1)
  BY <1>3, RemainderType
<1>5. AudioTypes'
  BY <1>1, <1>3, <1>4 DEF AudioIInv, AudioTypes
<1>6. \A c \in Int : NumberOf(c)' = NumberOf(c)
  BY <1>1, NumbersStay DEF AudioIInv
<1>7. NumberOf(clock + 1) = (seq + 1) % SEQS
  <2>1. seq - (clock - (clock + 1)) = seq + 1
    BY <1>3
  <2> QED
    BY <2>1 DEF NumberOf
<1>8. p.seq = (seq + 1) % SEQS /\ p.frames \in {1, 2} /\ p.capture_us = clock + 1 /\ (p.frames = 2 => prev)
  OBVIOUS
<1>9. \A q \in packets : q.capture_us \in (b + 1)..clock
  BY <1>2 DEF SentSince
<1> HIDE DEF p
<1>10. SentSince(b)'
  <2>0. b \in 0..clock /\ (prev => b < clock)
    BY <1>2, Zenon DEF SentSince
  <2>1. b \in 0..clock' /\ b < clock'
    BY <1>1, <1>3, <2>0
  <2>2. ASSUME NEW q \in packets'
        PROVE  /\ q.capture_us \in (b + 1)..clock' /\ q.frames \in {1, 2}
               /\ q.capture_us - (q.frames - 1) > b
               /\ q.seq = NumberOf(q.capture_us)'
    <3>1. CASE q \in packets
      BY <1>1, <1>2, <1>3, <1>6, <3>1 DEF SentSince
    <3>2. CASE q = p
      <4>1. clock + 1 \in (b + 1)..clock' /\ clock + 1 \in Int
        BY <1>1, <1>3, <2>0
      <4>2. q.capture_us - (q.frames - 1) > b
        <5>1. CASE q.frames = 1
          BY <1>3, <1>8, <2>0, <3>2, <5>1
        <5>2. CASE q.frames = 2
          BY <1>3, <1>8, <2>0, <3>2, <5>2
        <5> QED
          BY <1>8, <3>2, <5>1, <5>2
      <4>3. PICK e \in Int : e = clock + 1
        BY <4>1
      <4>4. q.seq = NumberOf(e)' /\ q.capture_us = e
        BY <1>6, <1>7, <1>8, <3>2, <4>3
      <4> QED
        BY <1>8, <3>2, <4>1, <4>2, <4>3, <4>4
    <3> QED
      BY <1>1, <3>1, <3>2
  <2>3. \A q, r \in packets' : q.capture_us = r.capture_us => q = r
    BY <1>1, <1>2, <1>3, <1>8, <1>9 DEF SentSince
  <2> QED
    BY <2>1, <2>2, <2>3 DEF SentSince
<1>11. HeardOf(b)'
  <2>1. heard \in 1..clock => heard \in 1..clock' /\ NumberOf(heard + 1)' = NumberOf(heard + 1)
    BY <1>1, <1>3, <1>6
  <2> QED
    BY <1>1, <1>2, <2>1 DEF HeardOf
<1>12. DroppedOf(b, D)'
  <2>1. D \subseteq (b + 1)..clock
    BY <1>2 DEF DroppedOf
  <2>2. D \subseteq (b + 1)..clock' /\ clock + 1 \notin D /\ \A c \in D : NumberOf(c)' = NumberOf(c)
    BY <1>1, <1>3, <1>6, <2>1
  <2>3. \A c \in D : Ahead(NumberOf(c)', next_audio') \in (-RESTART_BEHIND)..(-1)
    <3>1. \A c \in D : Ahead(NumberOf(c), next_audio) \in (-RESTART_BEHIND)..(-1)
      BY <1>2 DEF DroppedOf
    <3> QED
      BY <1>1, <2>2, <3>1
  <2>4. \A q \in packets' : q.capture_us \notin D
    BY <1>1, <1>2, <1>8, <2>2 DEF DroppedOf
  <2>5. IsFiniteSet(D) /\ Cardinality(D) = deaf'
    BY <1>1, <1>2 DEF DroppedOf
  <2> QED
    BY <2>2, <2>3, <2>4, <2>5 DEF DroppedOf, Ahead
<1>13. DecodedInOrder'
  BY <1>1 DEF AudioIInv, DecodedInOrder
<1> QED
  BY <1>5, <1>10, <1>11, <1>12, <1>13 DEF AudioIInv

\* Steps that leave sender and receiver alone: packets are lost, nothing is sent.
LEMMA PacketsFewer ==
  ASSUME AudioIInv, packets' \subseteq packets, prev' \in {FALSE, prev},
         UNCHANGED <<clock, seq, next_audio, newest_capture_us, heard, ordered, deaf>>
  PROVE  AudioIInv'
<1>1. PICK b \in Nat, D \in SUBSET Nat : SentSince(b) /\ HeardOf(b) /\ DroppedOf(b, D)
  BY DEF AudioIInv
<1>2. AudioTypes'
  BY DEF AudioIInv, AudioTypes
<1>3. SentSince(b)'
  <2>1. prev' => b < clock'
    <3>1. (prev => b < clock) /\ clock' = clock
      BY <1>1, Zenon DEF SentSince
    <3> QED
      BY <3>1, Zenon
  <2>2. b \in 0..clock'
    BY <1>1 DEF SentSince
  <2>3. /\ \A p \in packets' : /\ p.capture_us \in (b + 1)..clock' /\ p.frames \in {1, 2}
                             /\ p.capture_us - (p.frames - 1) > b
                             /\ p.seq = NumberOf(p.capture_us)'
        /\ \A p, q \in packets' : p.capture_us = q.capture_us => p = q
    BY <1>1 DEF SentSince, NumberOf
  <2> QED
    BY <2>1, <2>2, <2>3 DEF SentSince
<1>4. HeardOf(b)'
  BY <1>1 DEF HeardOf, NumberOf
<1>5. DroppedOf(b, D)'
  BY <1>1 DEF DroppedOf, NumberOf, Ahead
<1> QED
  BY <1>2, <1>3, <1>4, <1>5 DEF AudioIInv, DecodedInOrder

LEMMA RestartSenderHolds == ASSUME AudioIInv, RestartSender PROVE AudioIInv'
<1>1. /\ packets = {} /\ packets' = {} /\ seq' = 0 /\ prev' = FALSE /\ deaf' = 0 /\ clock' = clock
      /\ next_audio' = next_audio /\ newest_capture_us' = newest_capture_us /\ heard' = heard /\ ordered' = ordered
  BY DEF RestartSender
<1>2. PICK b \in Nat, D \in SUBSET Nat : SentSince(b) /\ HeardOf(b) /\ DroppedOf(b, D)
  BY DEF AudioIInv
<1>3. clock \in Nat /\ AudioTypes'
  <2>1. clock \in 0..MaxAudio /\ newest_capture_us = heard
    BY DEF AudioIInv, AudioTypes
  <2>2. 0 \in 0..(SEQS - 1) /\ clock \in Nat
    BY <2>1, HalfOfNumbers
  <2> QED
    BY <1>1, <2>1, <2>2 DEF AudioTypes
<1>4. SentSince(clock)'
  <2>1. clock' \in 0..clock'
    BY <1>1, <1>3
  <2> QED
    BY <1>1, <2>1 DEF SentSince
<1>5. HeardOf(clock)'
  <2>1. \/ next_audio = NoNext /\ heard = 0
        \/ next_audio \in 0..(SEQS - 1) /\ heard \in 1..clock
    BY <1>2 DEF HeardOf
  <2>2. heard \in 1..clock => ~(heard > clock)
    BY <1>3
  <2> QED
    BY <1>1, <2>1, <2>2 DEF HeardOf
<1>6. DroppedOf(clock, {})'
  BY <1>1, FS_EmptySet DEF DroppedOf
<1>7. clock' \in Nat /\ {} \in SUBSET Nat
  BY <1>1, <1>3
<1> QED
  BY <1>1, <1>3, <1>4, <1>5, <1>6, <1>7 DEF AudioIInv, DecodedInOrder

LEMMA ReopenHolds == ASSUME AudioIInv, Reopen PROVE AudioIInv'
<1>1. /\ packets' = packets /\ seq' = seq /\ prev' = prev /\ deaf' = 0 /\ clock' = clock
      /\ next_audio' = NoNext /\ newest_capture_us' = 0 /\ heard' = 0 /\ ordered' = ordered
  BY DEF Reopen
<1>2. PICK b \in Nat : SentSince(b)
  BY DEF AudioIInv
<1>3. AudioTypes'
  BY <1>1 DEF AudioIInv, AudioTypes
<1>4. SentSince(b)'
  BY <1>1, <1>2 DEF SentSince, NumberOf
<1>5. HeardOf(b)'
  BY <1>1 DEF HeardOf
<1>6. DroppedOf(b, {})'
  BY <1>1, FS_EmptySet DEF DroppedOf
<1>7. {} \in SUBSET Nat
  OBVIOUS
<1> QED
  BY <1>1, <1>3, <1>4, <1>5, <1>6, <1>7 DEF AudioIInv, DecodedInOrder

\* A packet's number is past the next one as its moment is past the last heard.
LEMMA AheadOfHeard ==
  ASSUME AudioTypes, NEW b \in Nat, HeardOf(b), heard > b, NEW c \in 0..clock,
         NEW x \in Int, (x - NumberOf(c)) % SEQS = 0
  PROVE  heard \in 1..clock /\ Ahead(x, next_audio) = c - heard - 1 /\ deaf = 0
<1>1. /\ heard \in 1..clock /\ next_audio = NumberOf(heard + 1) /\ deaf = 0
  BY DEF HeardOf
<1>2. clock \in Nat /\ clock < SEQS \div 2 /\ seq \in Int /\ clock \in Int
  BY HalfOfNumbers DEF AudioTypes
<1>3. PICK d \in Int, e \in Int : d = c - heard - 1 /\ e = heard + 1 /\ d = c - e
  BY <1>1
<1>4. NumberOf(c) \in 0..(SEQS - 1) /\ NumberOf(e) \in 0..(SEQS - 1)
      /\ (NumberOf(c) - NumberOf(e)) % SEQS = (c - e) % SEQS
  <2>1. c \in Int
    OBVIOUS
  <2> QED
    BY <1>2, <1>3, <2>1, NumbersDiffer, Zenon
<1>5. PICK n \in Int, y \in Int : n = NumberOf(c) /\ y = NumberOf(e)
  BY <1>4, HalfOfNumbers
<1>6. (x - y) % SEQS = d % SEQS
  <2>1. PICK u \in Int, v \in Int : u = x - n /\ v = n - y /\ u + v = x - y
    OBVIOUS
  <2>2. ((u % SEQS) + v) % SEQS = (u + v) % SEQS
    BY WrapPlus, HalfOfNumbers
  <2>3. u % SEQS = 0
    BY <1>5, <2>1
  <2>4. (0 + v) % SEQS = (c - e) % SEQS /\ 0 + v = v
    BY <1>4, <1>5, <2>1
  <2> QED
    BY <1>3, <2>1, <2>2, <2>3, <2>4
<1>7. -(SEQS \div 2) <= d /\ d < SEQS \div 2
  BY <1>1, <1>2, <1>3, HalfOfNumbers
<1>8. Ahead(x, y) = d
  BY <1>6, <1>7, AheadIs, Zenon
<1> QED
  BY <1>1, <1>3, <1>5, <1>8

\* What the receiver reckons with: the number of a packet's first frame, the
\* one it awaits, and whether the packet tells of a restart or is late.
FirstOf(p) == (p.seq - (p.frames - 1)) % SEQS
Awaited(p) == IF next_audio = NoNext THEN FirstOf(p) ELSE next_audio
Late(p) == ~Restarted(p, Awaited(p)) /\ Ahead(p.seq, Awaited(p)) < 0
From(p) == IF Restarted(p, Awaited(p)) THEN FirstOf(p) ELSE Awaited(p)
\* The moment of its i-th frame, from 0.
Moment(p, i) == p.capture_us - (p.frames - 1 - i)

LEMMA AheadInt ==
  ASSUME NEW x \in Int, NEW y \in Int
  PROVE  Ahead(x, y) \in Int
<1>1. PICK z \in Int : z = x - y
  OBVIOUS
<1>2. SEQS \in Nat \ {0} /\ z % SEQS \in 0..(SEQS - 1)
  BY RemainderType, HalfOfNumbers
<1> QED
  BY <1>1, <1>2 DEF Ahead

LEMMA PacketFacts ==
  ASSUME AudioTypes, NEW b \in Nat, SentSince(b), NEW p \in packets
  PROVE  /\ p.capture_us \in (b + 1)..clock /\ p.frames \in {1, 2} /\ p.seq \in 0..(SEQS - 1)
         /\ p.capture_us - (p.frames - 1) > b /\ p.seq = NumberOf(p.capture_us)
         /\ FirstOf(p) \in 0..(SEQS - 1)
         /\ \A i \in 0..(p.frames - 1) : /\ Moment(p, i) \in (b + 1)..clock
                                         /\ \E x \in Int : /\ x = FirstOf(p) + i
                                                          /\ (x - NumberOf(Moment(p, i))) % SEQS = 0
<1>1. /\ p.capture_us \in (b + 1)..clock /\ p.frames \in {1, 2}
      /\ p.capture_us - (p.frames - 1) > b /\ p.seq = NumberOf(p.capture_us)
  BY DEF SentSince
<1>2. seq \in Int /\ clock \in Int /\ SEQS \in Nat \ {0}
  BY HalfOfNumbers DEF AudioTypes
<1>3. PICK c \in Int, k \in 0..1 : c = p.capture_us /\ k = p.frames - 1
  BY <1>1
<1>4. PICK e \in Int, j \in Int : e = c - k /\ j = -k
  OBVIOUS
<1>5. FirstOf(p) = NumberOf(e)
  <2>1. (NumberOf(c) + j) % SEQS = NumberOf(c + j)
    BY <1>2, NumbersDiffer, Zenon
  <2>2. c + j = e
    BY <1>4
  <2>a. NumberOf(c) \in 0..(SEQS - 1)
    BY <1>2, NumbersDiffer, Zenon
  <2>3. PICK s \in Int : s = NumberOf(c)
    BY <1>2, <2>a
  <2>4. s - k = s + j
    BY <1>4
  <2>5. FirstOf(p) = (s - k) % SEQS
    BY <1>1, <1>3, <2>3 DEF FirstOf
  <2> QED
    BY <2>1, <2>2, <2>3, <2>4, <2>5
<1>6. NumberOf(c) \in 0..(SEQS - 1) /\ NumberOf(e) \in 0..(SEQS - 1)
  BY <1>2, NumbersDiffer, Zenon
<1>7. ASSUME NEW i \in 0..(p.frames - 1)
      PROVE  /\ Moment(p, i) \in (b + 1)..clock
             /\ \E x \in Int : x = FirstOf(p) + i /\ (x - NumberOf(Moment(p, i))) % SEQS = 0
  <2>1. PICK h \in Int : h = i
    BY <1>1
  <2>2. Moment(p, i) \in (b + 1)..clock /\ Moment(p, i) = e + h
    BY <1>1, <1>2, <1>3, <1>4, <2>1 DEF Moment
  <2>3. (NumberOf(e) + h) % SEQS = NumberOf(e + h)
    BY <1>2, NumbersDiffer, Zenon
  <2>4. PICK x \in Int : x = NumberOf(e) + h
    BY <1>6, HalfOfNumbers
  <2>5. (x - (x % SEQS)) % SEQS = (x - x) % SEQS
    BY <1>2, WrapPlus
  <2>6. x - x = 0 /\ 0 % SEQS = 0
    BY <1>2, WrapOnce
  <2>7. (x - NumberOf(e + h)) % SEQS = 0
    BY <2>3, <2>4, <2>5, <2>6
  <2>8. x = FirstOf(p) + i
    BY <1>5, <2>1, <2>4
  <2>9. (x - NumberOf(Moment(p, i))) % SEQS = 0
    BY <2>2, <2>7
  <2> QED
    BY <2>2, <2>8, <2>9, Zenon
<1> QED
  BY <1>1, <1>3, <1>5, <1>6, <1>7

\* Sequencer::push decodes only what is newer than all it decoded.
LEMMA DecodesNewer ==
  ASSUME AudioTypes, NEW b \in Nat, SentSince(b), HeardOf(b), NEW p \in packets, ~Late(p)
  PROVE  /\ p.capture_us > heard
         /\ \A i \in 0..(p.frames - 1) : Ahead(FirstOf(p) + i, From(p)) >= 0 => Moment(p, i) > heard
<1>1. /\ p.capture_us \in (b + 1)..clock /\ p.frames \in {1, 2} /\ p.seq \in 0..(SEQS - 1)
      /\ p.capture_us - (p.frames - 1) > b /\ p.seq = NumberOf(p.capture_us)
      /\ FirstOf(p) \in 0..(SEQS - 1)
      /\ \A i \in 0..(p.frames - 1) : /\ Moment(p, i) \in (b + 1)..clock
                                      /\ \E x \in Int : /\ x = FirstOf(p) + i
                                                       /\ (x - NumberOf(Moment(p, i))) % SEQS = 0
  BY PacketFacts, Zenon
<1>2. clock \in Nat /\ newest_capture_us = heard /\ SEQS \in Nat \ {0}
  BY HalfOfNumbers DEF AudioTypes
<1>3. heard \in 0..clock
  BY <1>2 DEF HeardOf
<1>4. CASE heard <= b
  BY <1>1, <1>2, <1>3, <1>4
<1>5. CASE heard > b
  <2>1. PICK c \in 0..clock : c = p.capture_us
    BY <1>1, <1>2
  <2>2. PICK x \in Int : x = p.seq
    BY <1>1, <1>2
  <2>3. (x - NumberOf(c)) % SEQS = 0
    <3>1. x - x = 0 /\ 0 % SEQS = 0
      BY <1>2, WrapOnce
    <3> QED
      BY <1>1, <2>1, <2>2, <3>1
  <2>4. Ahead(x, next_audio) = c - heard - 1 /\ next_audio # NoNext
    <3>1. heard \in 1..clock /\ Ahead(x, next_audio) = c - heard - 1
      BY <1>5, <2>3, AheadOfHeard
    <3>2. next_audio # NoNext
      BY <1>2, <1>5, <3>1 DEF HeardOf, NoNext
    <3> QED
      BY <3>1, <3>2
  <2>5. Awaited(p) = next_audio
    BY <2>4 DEF Awaited
  <2>6. ~Restarted(p, Awaited(p))
    <3>1. Restarted(p, Awaited(p)) => c - heard - 1 < -RESTART_BEHIND /\ c > heard
      BY <1>2, <2>1, <2>2, <2>4, <2>5 DEF Restarted
    <3> QED
      BY <1>3, <3>1, HalfOfNumbers
  <2>7. c - heard - 1 >= 0
    BY <1>3, <2>1, <2>2, <2>4, <2>5, <2>6 DEF Late
  <2>8. ASSUME NEW i \in 0..(p.frames - 1), Ahead(FirstOf(p) + i, From(p)) >= 0 PROVE Moment(p, i) > heard
    <3>a. PICK m \in 0..clock : m = Moment(p, i)
      BY <1>1, <1>2
    <3>1. PICK z \in Int : z = FirstOf(p) + i /\ (z - NumberOf(Moment(p, i))) % SEQS = 0
      BY <1>1, Zenon
    <3>2. (z - NumberOf(m)) % SEQS = 0
      BY <3>a, <3>1
    <3>3. Ahead(z, next_audio) = m - heard - 1
      BY <1>5, <3>2, AheadOfHeard
    <3>4. From(p) = next_audio
      BY <2>5, <2>6 DEF From
    <3> QED
      BY <1>3, <2>8, <3>a, <3>1, <3>3, <3>4
  <2> QED
    BY <1>3, <2>1, <2>7, <2>8
<1> QED
  BY <1>2, <1>3, <1>4, <1>5

\* A packet dropped as late, though it is newer than what was heard, is of a
\* later start and lies less than RESTART_BEHIND behind.
LEMMA DropsBehind ==
  ASSUME AudioTypes, NEW b \in Nat, SentSince(b), HeardOf(b), NEW p \in packets, Late(p), p.capture_us > heard
  PROVE  /\ heard <= b /\ next_audio # NoNext
         /\ Ahead(NumberOf(p.capture_us), next_audio) \in (-RESTART_BEHIND)..(-1)
<1>1. /\ p.capture_us \in (b + 1)..clock /\ p.frames \in {1, 2} /\ p.seq \in 0..(SEQS - 1)
      /\ p.seq = NumberOf(p.capture_us) /\ FirstOf(p) \in 0..(SEQS - 1)
  BY PacketFacts
<1>2. clock \in Nat /\ newest_capture_us = heard /\ SEQS \in Nat \ {0} /\ RESTART_BEHIND \in Nat
  BY HalfOfNumbers DEF AudioTypes
<1>3. heard \in 0..clock /\ (next_audio = NoNext \/ next_audio \in 0..(SEQS - 1))
  BY <1>2 DEF HeardOf
<1>4. next_audio # NoNext
  <2> SUFFICES ASSUME next_audio = NoNext PROVE FALSE
    OBVIOUS
  <2>1. PICK s \in Int, k \in 0..1 : s = p.seq /\ k = p.frames - 1
    BY <1>1, <1>2
  <2>2. PICK f \in Int, u \in Int : f = FirstOf(p) /\ u = s - k
    BY <1>1, <1>2
  <2>3. f = u % SEQS
    BY <2>1, <2>2 DEF FirstOf
  <2>4. (s - (u % SEQS)) % SEQS = (s - u) % SEQS
    BY <1>2, WrapPlus
  <2>5. (s - f) % SEQS = k % SEQS /\ -(SEQS \div 2) <= k /\ k < SEQS \div 2
    <3>1. s - u = k
      BY <2>2
    <3>2. -(SEQS \div 2) <= k /\ k < SEQS \div 2
      BY HalfOfNumbers
    <3> QED
      BY <2>3, <2>4, <3>1, <3>2
  <2>6. Ahead(s, f) = k
    <3>1. k \in Int
      OBVIOUS
    <3> QED
      BY <2>5, <3>1, AheadIs, Zenon
  <2>7. Awaited(p) = f
    BY <2>2 DEF Awaited
  <2> QED
    BY <2>1, <2>6, <2>7 DEF Late
<1>5. Awaited(p) = next_audio
  BY <1>4 DEF Awaited
<1>6. PICK s \in Int, y \in Int : s = p.seq /\ y = next_audio
  BY <1>1, <1>2, <1>3, <1>4
<1>7. PICK a \in Int : a = Ahead(s, y)
  BY AheadInt
<1>8. a < 0 /\ ~(a < -RESTART_BEHIND /\ p.capture_us > heard)
  BY <1>2, <1>5, <1>6, <1>7 DEF Late, Restarted
<1>9. a \in (-RESTART_BEHIND)..(-1)
  BY <1>2, <1>8
<1>10. ~(heard > b)
  <2> SUFFICES ASSUME heard > b PROVE FALSE
    OBVIOUS
  <2>1. PICK c \in 0..clock : c = p.capture_us
    BY <1>1, <1>2
  <2>2. (s - NumberOf(c)) % SEQS = 0
    <3>1. s - s = 0 /\ 0 % SEQS = 0
      BY <1>2, WrapOnce
    <3> QED
      BY <1>1, <1>6, <2>1, <3>1
  <2>3. Ahead(s, next_audio) = c - heard - 1
    BY <2>2, AheadOfHeard
  <2> QED
    BY <1>3, <1>6, <1>7, <1>8, <2>1, <2>3
<1> QED
  BY <1>1, <1>3, <1>4, <1>6, <1>7, <1>9, <1>10

LEMMA PushAudioHolds == ASSUME AudioIInv, NEW p \in packets, PushAudio(p) PROVE AudioIInv'
<1>1. PICK b \in Nat, D \in SUBSET Nat : SentSince(b) /\ HeardOf(b) /\ DroppedOf(b, D)
  BY DEF AudioIInv
<1>2. clock \in Nat /\ clock \in 0..MaxAudio /\ newest_capture_us = heard /\ seq \in Int /\ clock \in Int
      /\ deaf \in Nat /\ ordered = TRUE /\ AudioTypes
  BY HalfOfNumbers DEF AudioIInv, AudioTypes, DecodedInOrder
<1>3. /\ packets' = packets \ {p} /\ clock' = clock /\ seq' = seq /\ prev' = prev
  BY DEF PushAudio
<1>4. /\ p.capture_us \in (b + 1)..clock /\ p.frames \in {1, 2} /\ p.seq = NumberOf(p.capture_us)
  BY <1>1, <1>2, PacketFacts
<1>5. SentSince(b)'
  <2>1. prev' => b < clock'
    <3>1. prev => b < clock
      BY <1>1, Zenon DEF SentSince
    <3> QED
      BY <1>3, <3>1, Zenon
  <2>2. b \in 0..clock'
    BY <1>1, <1>3 DEF SentSince
  <2>3. /\ \A q \in packets' : /\ q.capture_us \in (b + 1)..clock' /\ q.frames \in {1, 2}
                             /\ q.capture_us - (q.frames - 1) > b
                             /\ q.seq = NumberOf(q.capture_us)'
        /\ \A q, r \in packets' : q.capture_us = r.capture_us => q = r
    BY <1>1, <1>3 DEF SentSince, NumberOf
  <2> QED
    BY <2>1, <2>2, <2>3 DEF SentSince
<1>6. \A c \in Int : NumberOf(c)' = NumberOf(c)
  BY <1>3 DEF NumberOf
<1>7. CASE Late(p)
  <2>1. /\ deaf' = IF p.capture_us > heard THEN deaf + 1 ELSE deaf
        /\ UNCHANGED <<next_audio, newest_capture_us, heard, ordered>>
    BY <1>7, Zenon DEF PushAudio, Late, Awaited, FirstOf
  <2>2. AudioTypes' /\ DecodedInOrder'
    BY <1>2, <1>3, <2>1 DEF AudioTypes, AudioIInv, DecodedInOrder
  <2>3. CASE p.capture_us > heard
    <3>1. /\ heard <= b /\ next_audio # NoNext
          /\ Ahead(NumberOf(p.capture_us), next_audio) \in (-RESTART_BEHIND)..(-1)
      BY <1>1, <1>2, <1>7, <2>3, DropsBehind
    <3>2. HeardOf(b)'
      <4>1. next_audio \in 0..(SEQS - 1) /\ heard \in 1..clock
        BY <1>1, <3>1 DEF HeardOf
      <4>2. ~(heard > b)
        BY <3>1, <4>1
      <4> QED
        BY <1>3, <2>1, <4>1, <4>2 DEF HeardOf
    <3>3. PICK c \in Nat : c = p.capture_us
      BY <1>4
    <3>4. DroppedOf(b, D \union {c})'
      <4>1. /\ D \subseteq (b + 1)..clock /\ IsFiniteSet(D) /\ Cardinality(D) = deaf
            /\ \A e \in D : Ahead(NumberOf(e), next_audio) \in (-RESTART_BEHIND)..(-1)
            /\ \A q \in packets : q.capture_us \notin D
        BY <1>1 DEF DroppedOf
      <4>2. c \notin D /\ c \in (b + 1)..clock
        BY <1>4, <3>3, <4>1
      <4>3. IsFiniteSet(D \union {c}) /\ Cardinality(D \union {c}) = deaf'
        BY <2>1, <2>3, <4>1, <4>2, FS_AddElement
      <4>4. \A e \in D \union {c} : Ahead(NumberOf(e)', next_audio') \in (-RESTART_BEHIND)..(-1)
        <5>1. \A e \in D \union {c} : NumberOf(e)' = NumberOf(e)
          BY <1>2, <1>6, <4>1
        <5> QED
          BY <2>1, <3>1, <3>3, <4>1, <5>1
      <4>5. \A q \in packets' : q.capture_us \notin D \union {c}
        BY <1>1, <1>3, <3>3, <4>1 DEF SentSince
      <4>6. D \union {c} \subseteq (b + 1)..clock'
        BY <1>3, <4>1, <4>2
      <4> QED
        BY <4>3, <4>4, <4>5, <4>6 DEF DroppedOf, Ahead
    <3>5. D \union {c} \in SUBSET Nat
      OBVIOUS
    <3> QED
      BY <1>5, <2>2, <3>2, <3>4, <3>5 DEF AudioIInv
  <2>4. CASE ~(p.capture_us > heard)
    <3>1. deaf' = deaf
      BY <2>1, <2>4
    <3>2. HeardOf(b)'
      BY <1>1, <1>3, <2>1, <3>1 DEF HeardOf, NumberOf
    <3>3. DroppedOf(b, D)'
      BY <1>1, <1>3, <2>1, <3>1 DEF DroppedOf, NumberOf, Ahead
    <3> QED
      BY <1>1, <1>5, <2>2, <3>2, <3>3 DEF AudioIInv
  <2> QED
    BY <2>3, <2>4
<1>8. CASE ~Late(p)
  <2>1. /\ next_audio' = (p.seq + 1) % SEQS
        /\ newest_capture_us' = IF p.capture_us > newest_capture_us THEN p.capture_us ELSE newest_capture_us
        /\ heard' = p.capture_us /\ deaf' = 0
    BY <1>8, Zenon DEF PushAudio, Late, Awaited, FirstOf
  <2>2. /\ p.capture_us > heard
        /\ \A i \in 0..(p.frames - 1) : Ahead(FirstOf(p) + i, From(p)) >= 0 => Moment(p, i) > heard
    BY <1>1, <1>2, <1>8, DecodesNewer
  <2>3. ordered'
    <3>1. ordered' = (ordered /\ \A c \in {p.capture_us - (p.frames - 1 - i) : i \in
             {i \in 0..(p.frames - 1) : Ahead(FirstOf(p) + i, From(p)) >= 0}} : c > heard)
      BY <1>8, Zenon DEF PushAudio, Late, Awaited, FirstOf, From
    <3> QED
      BY <1>2, <2>2, <3>1 DEF Moment
  <2>4. PICK c \in 1..clock : c = p.capture_us
    BY <1>2, <1>4
  <2>5. AudioTypes' /\ DecodedInOrder'
    BY <1>2, <1>3, <2>1, <2>2, <2>3 DEF AudioTypes, AudioIInv, DecodedInOrder
  <2>6. HeardOf(b)'
    <3>1. (NumberOf(c) + 1) % SEQS = NumberOf(c + 1) /\ NumberOf(c + 1) \in 0..(SEQS - 1)
      <4>1. c \in Int /\ 1 \in Int /\ c + 1 \in Int
        OBVIOUS
      <4> QED
        BY <1>2, <4>1, NumbersDiffer, Zenon
    <3>2. next_audio' = NumberOf(c + 1)
      BY <1>4, <2>1, <2>4, <3>1
    <3>3. next_audio' = NumberOf(heard + 1)'
      <4>1. PICK e \in Int : e = c + 1
        OBVIOUS
      <4>2. NumberOf(heard + 1)' = (seq' - (clock' - (heard' + 1))) % SEQS
        BY DEF NumberOf
      <4>3. NumberOf(heard + 1)' = (seq - (clock - (c + 1))) % SEQS
        BY <1>3, <2>1, <2>4, <4>2
      <4> QED
        BY <3>2, <4>3 DEF NumberOf
    <3> QED
      BY <1>3, <2>1, <2>4, <3>1, <3>2, <3>3 DEF HeardOf
  <2>7. DroppedOf(b, {})'
    BY <2>1, FS_EmptySet DEF DroppedOf
  <2>8. {} \in SUBSET Nat
    OBVIOUS
  <2> QED
    BY <1>5, <2>5, <2>6, <2>7, <2>8 DEF AudioIInv
<1> QED
  BY <1>7, <1>8

\* No two packets dropped since have the same number.
LEMMA FewDropped == AudioIInv => HeardAgain
<1> SUFFICES ASSUME AudioIInv PROVE HeardAgain
  OBVIOUS
<1>1. PICK b \in Nat, D \in SUBSET Nat : HeardOf(b) /\ DroppedOf(b, D)
  BY DEF AudioIInv
<1>2. /\ clock \in 0..MaxAudio /\ seq \in Int /\ clock \in Int /\ deaf \in Nat
      /\ SEQS \in Nat \ {0} /\ RESTART_BEHIND \in Nat
  BY HalfOfNumbers DEF AudioIInv, AudioTypes
<1>3. CASE deaf = 0
  BY <1>2, <1>3 DEF HeardAgain
<1>4. CASE deaf # 0
  <2>1. next_audio \in 0..(SEQS - 1)
    BY <1>1, <1>4 DEF HeardOf
  <2>2. PICK y \in Int : y = next_audio
    BY <1>2, <2>1
  <2> DEFINE f == [c \in D |-> Ahead(NumberOf(c), y)]
  <2>3. /\ D \subseteq (b + 1)..clock /\ Cardinality(D) = deaf
        /\ \A c \in D : Ahead(NumberOf(c), y) \in (-RESTART_BEHIND)..(-1)
    BY <1>1, <2>2 DEF DroppedOf
  <2>4. ASSUME NEW c \in D, NEW e \in D, f[c] = f[e] PROVE c = e
    <3>1. c \in Int /\ e \in Int /\ c - e < SEQS /\ e - c < SEQS
      BY <1>2, <2>3, HalfOfNumbers
    <3>2. PICK n \in 0..(SEQS - 1), m \in 0..(SEQS - 1) : n = NumberOf(c) /\ m = NumberOf(e)
      BY <1>2, <3>1, NumbersDiffer
    <3>3. Ahead(n, y) = Ahead(m, y) /\ Ahead(n, y) < 0
      BY <1>2, <2>3, <2>4, <3>2
    <3>4. PICK u \in Int, v \in Int : u = n - y /\ v = m - y
      OBVIOUS
    <3>5. PICK g \in 0..(SEQS - 1), h \in 0..(SEQS - 1) : g = u % SEQS /\ h = v % SEQS
      BY <1>2, RemainderType
    <3>6. g = h
      BY <1>2, <3>3, <3>4, <3>5 DEF Ahead
    <3>7. ((u % SEQS) + y) % SEQS = (u + y) % SEQS /\ ((v % SEQS) + y) % SEQS = (v + y) % SEQS
      BY <1>2, WrapPlus
    <3>8. u + y = n /\ v + y = m /\ n % SEQS = n /\ m % SEQS = m
      BY <1>2, <3>4, WrapOnce
    <3>9. n = m
      BY <3>5, <3>6, <3>7, <3>8
    <3>10. (n - m) % SEQS = (c - e) % SEQS
      BY <1>2, <3>1, <3>2, NumbersDiffer, Zenon
    <3>11. (n - m) = 0 /\ 0 % SEQS = 0
      BY <1>2, <3>9, WrapOnce
    <3>12. PICK d \in Int : d = c - e /\ d % SEQS = 0
      BY <3>1, <3>10, <3>11
    <3>13. d = 0
      <4>1. CASE d > 0
        BY <1>2, <3>1, <3>12, <4>1, WrapOnce
      <4>2. CASE d < 0
        BY <1>2, <3>1, <3>12, <4>2, WrapOnce
      <4> QED
        BY <4>1, <4>2
    <3> QED
      BY <3>1, <3>12, <3>13
  <2>5. f \in [D -> (-RESTART_BEHIND)..(-1)] /\ DOMAIN f = D
    BY <2>3
  <2>6. f \in Injection(D, (-RESTART_BEHIND)..(-1))
    <3>1. \A c, e \in D : f[c] = f[e] => c = e
      BY <2>4
    <3> HIDE DEF f
    <3> QED
      BY <2>5, <3>1 DEF Injection, IsInjective
  <2> HIDE DEF f
  <2>7. IsFiniteSet((-RESTART_BEHIND)..(-1)) /\ Cardinality((-RESTART_BEHIND)..(-1)) = RESTART_BEHIND
    <3>1. PICK x \in Int, z \in Int : x = -RESTART_BEHIND /\ z = -1
      BY <1>2
    <3>2. IsFiniteSet(x..z) /\ Cardinality(x..z) = IF x > z THEN 0 ELSE z - x + 1
      BY FS_Interval
    <3>3. (IF x > z THEN 0 ELSE z - x + 1) = RESTART_BEHIND
      BY <1>2, <3>1
    <3> QED
      BY <3>1, <3>2, <3>3
  <2>8. Cardinality(D) <= RESTART_BEHIND
    BY <2>6, <2>7, FS_Injection
  <2> QED
    BY <2>3, <2>8 DEF HeardAgain
<1> QED
  BY <1>3, <1>4

THEOREM AudioInductive == AudioSpec => []AudioIInv
<1>1. AudioInit => AudioIInv
  BY AudioInitIInv
<1>2. AudioIInv /\ [AudioNext]_audioVars => AudioIInv'
  <2> SUFFICES ASSUME AudioIInv, [AudioNext]_audioVars PROVE AudioIInv'
    OBVIOUS
  <2>0. prev \in BOOLEAN
    BY DEF AudioIInv, AudioTypes
  <2>1. ASSUME NEW redundant \in BOOLEAN, SendFrame(redundant) PROVE AudioIInv'
    BY <2>1, SendFrameHolds
  <2>2. ASSUME Silence PROVE AudioIInv'
    BY <2>2, PacketsFewer DEF Silence
  <2>3. ASSUME RestartSender PROVE AudioIInv'
    BY <2>3, RestartSenderHolds
  <2>4. ASSUME Reopen PROVE AudioIInv'
    BY <2>4, ReopenHolds
  <2>5. ASSUME NEW p \in packets, LoseAudio(p) PROVE AudioIInv'
    <3>1. packets' \subseteq packets /\ prev' \in {FALSE, prev}
      BY <2>5, Zenon DEF LoseAudio
    <3> QED
      BY <2>5, <3>1, PacketsFewer DEF LoseAudio
  <2>6. ASSUME NEW p \in packets, PushAudio(p) PROVE AudioIInv'
    BY <2>6, PushAudioHolds
  <2>7. ASSUME UNCHANGED audioVars PROVE AudioIInv'
    <3>1. packets' \subseteq packets /\ prev' \in {FALSE, prev}
      BY <2>7, Zenon DEF audioVars
    <3> QED
      BY <2>7, <3>1, PacketsFewer DEF audioVars
  <2> QED
    BY <2>1, <2>2, <2>3, <2>4, <2>5, <2>6, <2>7 DEF AudioNext
<1> QED
  BY <1>1, <1>2, PTL DEF AudioSpec

\* To one output no frame is decoded twice, or after a newer one
\* (Sequencer::push): for all the numbers there are, whatever is lost or late,
\* and however often the sender restarts.
THEOREM AudioAlwaysInOrder == AudioSpec => []DecodedInOrder
<1>1. AudioIInv => DecodedInOrder
  BY DEF AudioIInv
<1> QED
  BY <1>1, AudioInductive, PTL

\* A sender that restarts is heard after RESTART_BEHIND packets at most
\* (Sequencer::push), wherever the receiver had got to.
THEOREM AudioAlwaysHeardAgain == AudioSpec => []HeardAgain
<1>1. AudioIInv => HeardAgain
  BY FewDropped
<1> QED
  BY <1>1, AudioInductive, PTL

-----------------------------------------------------------------------------
(* The inductive invariant of video reassembly *)

\* A kept block: each shard that came counts once, and none is missed until
\* the block is whole.
CameOf(A, b) == {s \in Shards : <<b, s>> \in A}
KeptOf(blk, A, b) ==
  /\ blk.got \subseteq CameOf(A, b) /\ blk.have = Cardinality(blk.got)
  /\ blk.have < K => blk.got = CameOf(A, b)
EnoughOf(A) == \A b \in Blocks : Cardinality(CameOf(A, b)) >= K

\* B is the oldest frame in flight.  A slot is taken by a frame of the window
\* whose slot it is, and keeps what came of it; of the others nothing came.
InWindow(B, sl) ==
  /\ sl \in [0..(MAX_IN_FLIGHT - 1) ->
              [id : Int, blocks : [Blocks -> [got : SUBSET Shards, have : Nat]]]]
  /\ \A s \in 0..(MAX_IN_FLIGHT - 1) : sl[s].id = None
       \/ \E g \in Frames : g \in B..(B + MAX_IN_FLIGHT - 1) /\ sl[s].id = Id(g) /\ s = Slot(Id(g))
Assembling(B, sl, arr) ==
  \A g \in Frames : g >= B =>
    IF sl[Slot(Id(g))].id = Id(g) THEN \A b \in Blocks : KeptOf(sl[Slot(Id(g))].blocks[b], arr[g], b)
    ELSE arr[g] = {}
Unfinished(B, sl) == \A g \in Frames : g >= B /\ sl[Slot(Id(g))].id = Id(g) => ~Whole(sl[Slot(Id(g))])

\* The events cut the frames up to B at c[1] < c[2] < ... < B; what was
\* delivered had enough shards, and whatever had is delivered.
CutAt(c, B, ev) ==
  /\ c \in [1..(Len(ev) + 1) -> 0..MaxFrames] /\ c[Len(ev) + 1] = B
  /\ \A i, j \in 1..(Len(ev) + 1) : i < j => c[i] < c[j]
  /\ \A i \in 1..Len(ev) : /\ ev[i].first = Id(c[i]) /\ ev[i].last = Id(c[i + 1] - 1)
                           /\ ev[i].kind = "frame" => c[i + 1] = c[i] + 1
DeliveredAt(c, B, ev, arr) ==
  /\ \A i \in 1..Len(ev) : ev[i].kind = "frame" => EnoughOf(arr[c[i]])
  /\ \A f \in 0..(B - 1) : EnoughOf(arr[f]) => \E i \in 1..Len(ev) : ev[i].kind = "frame" /\ c[i] = f
Told(B, ev, arr) == \E c : CutAt(c, B, ev) /\ DeliveredAt(c, B, ev, arr)

EventType == [kind : {"lost", "frame"}, first : Int, last : Int]
\* Nothing has been reported while there is no next frame.
Started(nx, B, ev) == nx \in {None, Id(B)} /\ ev \in Seq(EventType) /\ (nx = None <=> ev = <<>>)

\* The state of a Reassembler with something in flight.
FlightAt(B, nx, sl, ev, arr) ==
  /\ B \in 0..MaxFrames /\ Started(nx, B, ev)
  /\ InWindow(B, sl) /\ Assembling(B, sl, arr) /\ Unfinished(B, sl) /\ Told(B, ev, arr)
VideoAt(B) ==
  /\ B \in 0..MaxFrames
  /\ \/ base = None /\ next_frame = None /\ events = <<>> /\ B = 0
        /\ (\A s \in 0..(MAX_IN_FLIGHT - 1) : slots[s].id = None) /\ \A f \in Frames : arrived[f] = {}
     \/ base = Id(B) /\ Started(next_frame, B, events)
  /\ InWindow(B, slots) /\ Assembling(B, slots, arrived) /\ Unfinished(B, slots)
  /\ Told(B, events, arrived)
VideoIInv ==
  /\ arrived \in [Frames -> SUBSET (Blocks \X Shards)]
  /\ \E B \in 0..MaxFrames : VideoAt(B)

-----------------------------------------------------------------------------
(* Frame ids and the slots of the ring *)

LEMMA VideoConstants ==
  /\ IDS \in Nat \ {0} /\ MAX_IN_FLIGHT \in Nat \ {0} /\ K \in Nat \ {0} /\ MaxFrames \in Nat \ {0}
  /\ FirstId \in Int /\ FirstId \in 0..(IDS - 1) /\ IDS % MAX_IN_FLIGHT = 0
  /\ \E h \in Int : h = IDS \div 2 /\ MAX_IN_FLIGHT + MaxFrames < h /\ 2 * h <= IDS
  /\ Frames \subseteq Int /\ Frames = 0..(MaxFrames - 1)
<1>1. IDS \in Nat \ {0} /\ MAX_IN_FLIGHT \in Nat \ {0} /\ K \in Nat \ {0} /\ MaxFrames \in Nat \ {0}
  BY ReassemblerAssumption
<1>2. PICK h \in Int : h = IDS \div 2 /\ 2 * h <= IDS
  BY <1>1
<1> QED
  BY <1>1, <1>2, ReassemblerAssumption DEF Frames

LEMMA RingConstants == IDS \in Nat \ {0} /\ MAX_IN_FLIGHT \in Nat \ {0}
BY VideoConstants

LEMMA IdType == ASSUME NEW f \in Int PROVE Id(f) \in 0..(IDS - 1) /\ Id(f) \in Int /\ Id(f) # None
<1>1. PICK x \in Int : x = FirstId + f
  BY VideoConstants
<1>2. x % IDS \in 0..(IDS - 1)
  BY RemainderType, RingConstants
<1> QED
  BY <1>1, <1>2, VideoConstants DEF Id, None

\* A number further on, or back.
LEMMA IdMinus == ASSUME NEW f \in Int, NEW k \in Int PROVE Minus(Id(f), k) = Id(f - k)
<1>1. PICK x \in Int, m \in Int : x = FirstId + f /\ m = -k
  BY VideoConstants
<1>2. ((x % IDS) + m) % IDS = (x + m) % IDS
  BY WrapPlus, RingConstants
<1>3. PICK y \in Int : y = x % IDS
  BY RemainderType, RingConstants
<1>4. y + m = y - k /\ x + m = FirstId + (f - k)
  BY <1>1, VideoConstants
<1> QED
  BY <1>1, <1>2, <1>3, <1>4 DEF Minus, Id

LEMMA IdPlus == ASSUME NEW f \in Int, NEW k \in Int PROVE (Id(f) + k) % IDS = Id(f + k)
<1>1. PICK x \in Int : x = FirstId + f
  BY VideoConstants
<1>2. ((x % IDS) + k) % IDS = (x + k) % IDS
  BY WrapPlus, RingConstants
<1>3. x + k = FirstId + (f + k)
  BY <1>1, VideoConstants
<1> QED
  BY <1>1, <1>2, <1>3 DEF Id

\* How far one frame is ahead of another.
LEMMA IdAhead ==
  ASSUME NEW f \in Int, NEW g \in Int
  PROVE  /\ f - g \in 0..(IDS - 1) => Minus(Id(f), Id(g)) = f - g
         /\ f - g \in (-IDS)..(-1) => Minus(Id(f), Id(g)) = (f - g) + IDS
<1>0. PICK c \in Int : c = FirstId
  BY VideoConstants
<1>1. (((c + f) % IDS) - ((c + g) % IDS)) % IDS = (f - g) % IDS
  BY WrapMinus, RingConstants
<1>2. PICK d \in Int : d = f - g
  OBVIOUS
<1>3. /\ d \in 0..(IDS - 1) => d % IDS = d
      /\ d \in (-IDS)..(-1) => d % IDS = d + IDS
  BY WrapOnce, VideoConstants
<1>4. Minus(Id(f), Id(g)) = d % IDS
  BY <1>0, <1>1, <1>2 DEF Minus, Id
<1> QED
  BY <1>2, <1>3, <1>4

LEMMA IdInjective ==
  ASSUME NEW f \in Int, NEW g \in Int, f - g \in (-IDS + 1)..(IDS - 1), Id(f) = Id(g)
  PROVE  f = g
<1>1. Minus(Id(f), Id(g)) = 0
  <2>1. PICK x \in Int : x = Id(f)
    BY IdType
  <2>2. x - x = 0 /\ 0 \in 0..(IDS - 1)
    BY VideoConstants
  <2>3. 0 % IDS = 0
    BY <2>2, WrapOnce, VideoConstants
  <2> QED
    BY <2>1, <2>2, <2>3 DEF Minus
<1>2. /\ f - g \in 0..(IDS - 1) => Minus(Id(f), Id(g)) = f - g
      /\ f - g \in (-IDS)..(-1) => Minus(Id(f), Id(g)) = (f - g) + IDS
  BY IdAhead
<1> QED
  BY <1>1, <1>2, VideoConstants

\* The slot of a frame is its place in the ring, across the wrap of the ids.
LEMMA SlotOf ==
  ASSUME NEW f \in Int
  PROVE  Slot(Id(f)) = (FirstId + f) % MAX_IN_FLIGHT /\ Slot(Id(f)) \in 0..(MAX_IN_FLIGHT - 1)
<1>1. PICK x \in Int : x = FirstId + f
  BY VideoConstants
<1>2. PICK p \in Int, r \in 0..(IDS - 1) : p = x \div IDS /\ r = x % IDS /\ x = IDS * p + r
  BY RemainderType, RingConstants
<1>3. PICK q \in Int, s \in 0..(MAX_IN_FLIGHT - 1) :
      q = r \div MAX_IN_FLIGHT /\ s = r % MAX_IN_FLIGHT /\ r = MAX_IN_FLIGHT * q + s
  BY RemainderType, RingConstants
<1>4. PICK k \in Int : IDS = MAX_IN_FLIGHT * k
  <2>1. PICK i \in Nat \ {0} : i = IDS
    BY VideoConstants
  <2>2. PICK j \in Int, t \in 0..(MAX_IN_FLIGHT - 1) :
        j = i \div MAX_IN_FLIGHT /\ t = i % MAX_IN_FLIGHT /\ i = MAX_IN_FLIGHT * j + t
    BY RemainderType, RingConstants
  <2>3. t = 0
    BY <2>1, <2>2, VideoConstants
  <2>4. i = MAX_IN_FLIGHT * j
    BY <2>2, <2>3, VideoConstants
  <2> QED
    BY <2>1, <2>4
<1>5. PICK m \in Int : m = k * p + q
  OBVIOUS
<1>6. x = MAX_IN_FLIGHT * m + s
  <2>1. PICK n \in Nat \ {0} : n = MAX_IN_FLIGHT
    BY VideoConstants
  <2>2. x = (n * k) * p + (n * q + s)
    BY <1>2, <1>3, <1>4, <2>1, VideoConstants
  <2>3. (n * k) * p = n * (k * p)
    OBVIOUS
  <2>4. PICK kp \in Int : kp = k * p
    OBVIOUS
  <2>5. n * (kp + q) = n * kp + n * q
    OBVIOUS
  <2> QED
    BY <1>5, <2>1, <2>2, <2>3, <2>4, <2>5
<1>7. x % MAX_IN_FLIGHT = s
  BY <1>6, RemainderUnique, RingConstants
<1>8. Slot(Id(f)) = s
  BY <1>1, <1>2, <1>3 DEF Slot, Id
<1> QED
  BY <1>1, <1>7, <1>8

\* Two frames of the window never meet in one slot.
LEMMA SlotInjective ==
  ASSUME NEW f \in Int, NEW g \in Int, f - g \in (-MAX_IN_FLIGHT + 1)..(MAX_IN_FLIGHT - 1),
         Slot(Id(f)) = Slot(Id(g))
  PROVE  f = g
<1>1. PICK x \in Int, y \in Int : x = FirstId + f /\ y = FirstId + g
  BY VideoConstants
<1>2. PICK p \in Int, r \in 0..(MAX_IN_FLIGHT - 1) :
      p = x \div MAX_IN_FLIGHT /\ r = x % MAX_IN_FLIGHT /\ x = MAX_IN_FLIGHT * p + r
  BY RemainderType, RingConstants
<1>3. PICK q \in Int, s \in 0..(MAX_IN_FLIGHT - 1) :
      q = y \div MAX_IN_FLIGHT /\ s = y % MAX_IN_FLIGHT /\ y = MAX_IN_FLIGHT * q + s
  BY RemainderType, RingConstants
<1>4. r = s
  BY <1>1, <1>2, <1>3, SlotOf
<1>5. PICK n \in Nat \ {0} : n = MAX_IN_FLIGHT
  BY VideoConstants
<1>6. n * p - n * q = f - g
  BY <1>1, <1>2, <1>3, <1>4, <1>5, VideoConstants
<1>7. CASE p > q
  <2>1. n * (p - q) >= n
    BY <1>7, Multiple
  <2>2. n * (p - q) = n * p - n * q
    OBVIOUS
  <2> QED
    BY <1>5, <1>6, <2>1, <2>2
<1>8. CASE p < q
  <2>1. n * (q - p) >= n
    BY <1>8, Multiple
  <2>2. n * (q - p) = n * q - n * p
    OBVIOUS
  <2>3. PICK u \in Int, v \in Int : u = n * p /\ v = n * q
    OBVIOUS
  <2>4. v - u >= n /\ u - v = f - g
    BY <1>6, <2>1, <2>2, <2>3
  <2> QED
    BY <1>5, <2>4
<1>9. CASE p = q
  BY <1>6, <1>9
<1> QED
  BY <1>7, <1>8, <1>9

\* Frame f of the stream is older than B exactly if it looks so.
LEMMA OlderOf ==
  ASSUME NEW f \in Int, NEW g \in Int, f - g \in -(MaxFrames + MAX_IN_FLIGHT)..(MaxFrames + MAX_IN_FLIGHT)
  PROVE  /\ Minus(Id(f), Id(g)) \in Int
         /\ Minus(Id(f), Id(g)) >= IDS \div 2 <=> f < g
         /\ f >= g => Minus(Id(f), Id(g)) = f - g
<1>1. PICK h \in Int : h = IDS \div 2 /\ MAX_IN_FLIGHT + MaxFrames < h /\ 2 * h <= IDS
  BY VideoConstants
<1>2. CASE f >= g
  <2>1. f - g \in 0..(IDS - 1) /\ f - g < h
    BY <1>1, <1>2, VideoConstants
  <2>2. Minus(Id(f), Id(g)) = f - g
    BY <2>1, IdAhead
  <2> QED
    BY <1>1, <1>2, <2>1, <2>2
<1>3. CASE f < g
  <2>1. f - g \in (-IDS)..(-1) /\ f - g + IDS >= h
    BY <1>1, <1>3, VideoConstants
  <2>2. Minus(Id(f), Id(g)) = (f - g) + IDS
    BY <2>1, IdAhead
  <2> QED
    BY <1>1, <1>3, <2>1, <2>2, VideoConstants
<1> QED
  BY <1>2, <1>3

-----------------------------------------------------------------------------
(* What the invariant says of deliveries *)

\* The frames an event covers.
LEMMA CoversOf ==
  ASSUME NEW c, NEW B, NEW ev, Len(ev) \in Nat, CutAt(c, B, ev), NEW i \in 1..Len(ev), NEW f \in Frames
  PROVE  Covers(ev[i], f) <=> f \in c[i]..(c[i + 1] - 1)
<1>1. i \in 1..(Len(ev) + 1) /\ i + 1 \in 1..(Len(ev) + 1) /\ i < i + 1
  OBVIOUS
<1>2. PICK x \in 0..MaxFrames, y \in 0..MaxFrames : x = c[i] /\ y = c[i + 1] /\ x < y
  BY <1>1 DEF CutAt
<1>3. ev[i].first = Id(x) /\ ev[i].last = Id(y - 1)
  BY <1>2 DEF CutAt
<1>4. PICK z \in Int : z = y - 1
  BY <1>2
<1>5. f \in Int /\ x \in Int /\ f \in 0..(MaxFrames - 1)
  BY <1>2, VideoConstants
<1>6. /\ Minus(Id(f), Id(x)) \in Int /\ (Minus(Id(f), Id(x)) >= IDS \div 2 <=> f < x)
      /\ f >= x => Minus(Id(f), Id(x)) = f - x
  <2>1. f - x \in -(MaxFrames + MAX_IN_FLIGHT)..(MaxFrames + MAX_IN_FLIGHT)
    BY <1>2, <1>5, VideoConstants
  <2> QED
    BY <1>5, <2>1, OlderOf
<1>7. Minus(Id(z), Id(x)) = z - x
  <2>1. PICK n \in Int, w \in Int : n = IDS /\ w = MaxFrames /\ w < n
    BY VideoConstants
  <2>2. z - x \in 0..(n - 1)
    <3>1. y <= w /\ x >= 0 /\ x < y /\ x \in Int /\ y \in Int
      BY <1>2, <2>1
    <3> QED
      BY <1>4, <2>1, <3>1
  <2> QED
    BY <1>4, <1>5, <2>1, <2>2, IdAhead
<1>8. PICK m \in Int : m = Minus(Id(f), Id(x))
  BY <1>6
<1>9. Covers(ev[i], f) <=> m <= z - x
  BY <1>3, <1>4, <1>7, <1>8 DEF Covers
<1>10. PICK h \in Int : h = IDS \div 2 /\ MaxFrames < h
  BY VideoConstants
<1>11. CASE f >= x
  BY <1>2, <1>4, <1>5, <1>6, <1>8, <1>9, <1>11
<1>12. CASE f < x
  <2>1. m >= h
    BY <1>6, <1>8, <1>10, <1>12
  <2>2. z - x < h
    BY <1>2, <1>4, <1>10, VideoConstants
  <2> QED
    BY <1>2, <1>4, <1>5, <1>8, <1>9, <1>10, <1>12, <2>1, <2>2
<1> QED
  BY <1>5, <1>11, <1>12

LEMMA CameType ==
  ASSUME NEW A, NEW b
  PROVE  /\ CameOf(A, b) \subseteq Shards /\ IsFiniteSet(CameOf(A, b)) /\ Cardinality(CameOf(A, b)) \in Nat
<1>1. CameOf(A, b) \subseteq Shards
  BY DEF CameOf
<1> QED
  BY <1>1, ReassemblerAssumption, FS_Subset, FS_CardinalityType

\* A frame in flight that is not whole has not had enough shards.
LEMMA NotEnough ==
  ASSUME NEW B \in Int, NEW sl, NEW arr, InWindow(B, sl), Assembling(B, sl, arr), NEW g \in Frames,
         g >= B, sl[Slot(Id(g))].id = Id(g) => ~Whole(sl[Slot(Id(g))])
  PROVE  ~EnoughOf(arr[g])
<1>1. PICK s \in 0..(MAX_IN_FLIGHT - 1) : s = Slot(Id(g))
  BY SlotOf, VideoConstants
<1>2. CASE sl[s].id = Id(g)
  <2>1. PICK b \in Blocks : ~(sl[s].blocks[b].have >= K)
    BY <1>1, <1>2, Zenon DEF Whole
  <2>2. sl[s].blocks[b].have \in Nat
    BY DEF InWindow
  <2>3. sl[s].blocks[b].have < K
    BY <2>1, <2>2, VideoConstants
  <2>4. KeptOf(sl[s].blocks[b], arr[g], b)
    BY <1>1, <1>2, Zenon DEF Assembling
  <2>5. sl[s].blocks[b].have = Cardinality(CameOf(arr[g], b))
    BY <2>3, <2>4, Zenon DEF KeptOf
  <2> QED
    BY <2>1, <2>5, Zenon DEF EnoughOf
<1>3. CASE sl[s].id # Id(g)
  <2>1. arr[g] = {}
    BY <1>1, <1>3, Zenon DEF Assembling
  <2>2. PICK b \in Blocks : TRUE
    BY ReassemblerAssumption
  <2>3. CameOf(arr[g], b) = {}
    BY <2>1 DEF CameOf
  <2>4. ~(Cardinality(CameOf(arr[g], b)) >= K)
    BY <2>3, FS_EmptySet, VideoConstants
  <2> QED
    BY <2>4 DEF EnoughOf
<1> QED
  BY <1>2, <1>3

LEMMA VideoInit == ReassemblerInit => VideoIInv
<1> SUFFICES ASSUME ReassemblerInit PROVE VideoIInv
  OBVIOUS
<1>1. base = None /\ next_frame = None /\ events = <<>> /\ Len(events) = 0
  BY DEF ReassemblerInit
<1>2. \A f \in Frames : arrived[f] = {}
  BY DEF ReassemblerInit
<1>3. \A s \in 0..(MAX_IN_FLIGHT - 1) : slots[s] = Free
  BY Zenon DEF ReassemblerInit
<1>4. \A s \in 0..(MAX_IN_FLIGHT - 1) : slots[s].id = None
  BY <1>3 DEF Free
<1>5. Free \in [id : Int, blocks : [Blocks -> [got : SUBSET Shards, have : Nat]]]
  BY DEF Free, Empty, None
<1>6. InWindow(0, slots)
  BY <1>3, <1>4, <1>5 DEF InWindow, ReassemblerInit
<1>7. \A g \in Frames : Slot(Id(g)) \in 0..(MAX_IN_FLIGHT - 1) /\ Id(g) # None
  BY SlotOf, IdType, VideoConstants
<1>8. Assembling(0, slots, arrived) /\ Unfinished(0, slots)
  BY <1>2, <1>4, <1>7, Zenon DEF Assembling, Unfinished
<1>9. Told(0, events, arrived)
  <2>1. PICK c : c = [i \in 1..1 |-> 0]
    OBVIOUS
  <2>2. 0 \in 0..MaxFrames
    BY VideoConstants
  <2>3. CutAt(c, 0, events)
    BY <1>1, <2>1, <2>2 DEF CutAt
  <2>4. DeliveredAt(c, 0, events, arrived)
    BY <1>1 DEF DeliveredAt
  <2> QED
    BY <2>3, <2>4 DEF Told
<1>10. VideoAt(0)
  BY <1>1, <1>2, <1>4, <1>6, <1>8, <1>9, VideoConstants DEF VideoAt
<1>11. arrived \in [Frames -> SUBSET (Blocks \X Shards)]
  BY DEF ReassemblerInit
<1> QED
  BY <1>10, <1>11, VideoConstants DEF VideoIInv

LEMMA VideoFrom ==
  ASSUME VideoIInv
  PROVE  InOrderOnce /\ DeliveredExactly
<1>1. PICK B \in 0..MaxFrames : VideoAt(B)
  BY DEF VideoIInv
<1>2. events \in Seq(EventType) /\ Len(events) \in Nat /\ DOMAIN events = 1..Len(events)
  <2>1. <<>> \in Seq(EventType)
    OBVIOUS
  <2>2. events \in Seq(EventType)
    BY <1>1, <2>1, Zenon DEF VideoAt, Started
  <2> QED
    BY <2>2
<1>3. PICK c : CutAt(c, B, events) /\ DeliveredAt(c, B, events, arrived)
  BY <1>1, Zenon DEF VideoAt, Told
<1>4. \A i \in 1..(Len(events) + 1) : c[i] \in 0..MaxFrames
  BY <1>3 DEF CutAt
<1>5. ASSUME NEW i \in 1..(Len(events) - 1) PROVE events[i + 1].first = Minus(events[i].last, -1)
  <2>1. i \in 1..Len(events) /\ i + 1 \in 1..Len(events) /\ i + 1 \in 1..(Len(events) + 1)
    BY <1>2
  <2>2. PICK x \in Int : x = c[i + 1]
    BY <1>4, <2>1, VideoConstants
  <2>3. events[i + 1].first = Id(x) /\ events[i].last = Id(x - 1)
    BY <1>3, <2>1, <2>2 DEF CutAt
  <2>4. PICK y \in Int, k \in Int : y = x - 1 /\ k = -1
    OBVIOUS
  <2>5. Minus(Id(y), k) = Id(y - k) /\ y - k = x
    BY <2>4, IdMinus
  <2> QED
    BY <2>3, <2>4, <2>5
<1>6. ASSUME NEW f \in Frames, NEW i \in DOMAIN events, NEW j \in DOMAIN events,
             Covers(events[i], f), Covers(events[j], f)
      PROVE  i = j
  <2>1. i \in 1..Len(events) /\ j \in 1..Len(events)
    BY <1>2
  <2>2. f \in c[i]..(c[i + 1] - 1) /\ f \in c[j]..(c[j + 1] - 1)
    BY <1>2, <1>3, <1>6, <2>1, CoversOf, Zenon
  <2>3. ASSUME NEW p \in 1..Len(events), NEW q \in 1..Len(events), p < q,
               f \in c[p]..(c[p + 1] - 1), f \in c[q]..(c[q + 1] - 1)
        PROVE  FALSE
    <3>1. p \in 1..(Len(events) + 1) /\ q \in 1..(Len(events) + 1) /\ p + 1 \in 1..(Len(events) + 1)
          /\ q + 1 \in 1..(Len(events) + 1)
      BY <1>2
    <3>2. c[p + 1] <= c[q]
      <4>1. CASE p + 1 = q
        BY <3>1, <4>1, <1>4
      <4>2. CASE p + 1 < q
        <5>1. c[p + 1] < c[q]
          BY <1>3, <3>1, <4>2 DEF CutAt
        <5> QED
          BY <1>4, <3>1, <5>1
      <4> QED
        BY <2>3, <4>1, <4>2, <1>2
    <3>3. c[p + 1] \in Int /\ c[q] \in Int /\ c[p] \in Int /\ c[q + 1] \in Int /\ f \in Int
      BY <1>4, <3>1, VideoConstants
    <3> QED
      BY <2>3, <3>2, <3>3
  <2> QED
    BY <1>2, <2>1, <2>2, <2>3
<1>7. \A f \in Frames : Enough(f) <=> EnoughOf(arrived[f])
  BY Zenon DEF Enough, EnoughOf, CameOf
<1>8. ASSUME NEW f \in Frames, f \in Reported("frame") PROVE Enough(f)
  <2>1. PICK i \in DOMAIN events : events[i].kind = "frame" /\ Covers(events[i], f)
    BY <1>8 DEF Reported
  <2>2. i \in 1..Len(events) /\ i \in 1..(Len(events) + 1)
    BY <1>2
  <2>3. f \in c[i]..(c[i + 1] - 1)
    BY <1>2, <1>3, <2>1, <2>2, CoversOf, Zenon
  <2>4. c[i + 1] = c[i] + 1 /\ EnoughOf(arrived[c[i]])
    BY <1>3, <2>1, <2>2 DEF CutAt, DeliveredAt
  <2>5. f = c[i]
    BY <1>4, <2>2, <2>3, <2>4, VideoConstants
  <2> QED
    BY <1>7, <2>4, <2>5
<1>9. ASSUME NEW f \in Frames, Enough(f) PROVE f \in Reported("frame")
  <2>1. InWindow(B, slots) /\ Assembling(B, slots, arrived) /\ Unfinished(B, slots)
    BY <1>1 DEF VideoAt
  <2>2. f \in 0..(B - 1)
    <3>1. f \in 0..(MaxFrames - 1)
      BY VideoConstants
    <3>2. ~(f >= B)
      BY <1>7, <1>9, <2>1, NotEnough DEF Unfinished
    <3> QED
      BY <3>1, <3>2
  <2>3. PICK i \in 1..Len(events) : events[i].kind = "frame" /\ c[i] = f
    BY <1>3, <1>7, <1>9, <2>2 DEF DeliveredAt
  <2>4. c[i + 1] = c[i] + 1
    BY <1>3, <2>3 DEF CutAt
  <2>5. f \in c[i]..(c[i + 1] - 1)
    <3>1. f \in Int
      BY VideoConstants
    <3>2. PICK y \in Int : y = c[i + 1] /\ y = f + 1
      BY <2>3, <2>4, <3>1
    <3> QED
      BY <2>3, <3>1, <3>2
  <2>6. Covers(events[i], f)
    BY <1>2, <1>3, <2>5, CoversOf, Zenon
  <2> QED
    BY <1>2, <2>3, <2>6 DEF Reported
<1> QED
  BY <1>5, <1>6, <1>8, <1>9, Zenon DEF InOrderOnce, DeliveredExactly

-----------------------------------------------------------------------------
(* One more event *)

LEMMA ToldMore ==
  ASSUME NEW B \in 0..MaxFrames, NEW C \in 0..MaxFrames, B < C, NEW ev \in Seq(EventType), NEW arr,
         Told(B, ev, arr), NEW e \in EventType, e.first = Id(B), e.last = Id(C - 1),
         e.kind = "frame" => C = B + 1 /\ EnoughOf(arr[B]),
         e.kind # "frame" => \A g \in B..(C - 1) : ~EnoughOf(arr[g])
  PROVE  Told(C, Append(ev, e), arr)
<1>1. PICK n \in Nat : n = Len(ev)
  OBVIOUS
<1>2. PICK ew : ew = Append(ev, e)
  OBVIOUS
<1>3. Len(ew) = n + 1 /\ ew[n + 1] = e /\ \A i \in 1..n : ew[i] = ev[i]
  BY <1>1, <1>2
<1>4. PICK c : CutAt(c, B, ev) /\ DeliveredAt(c, B, ev, arr)
  BY Zenon DEF Told
<1>5. c \in [1..(n + 1) -> 0..MaxFrames] /\ c[n + 1] = B
  BY <1>1, <1>4 DEF CutAt
<1>6. PICK d : d = [i \in 1..(n + 2) |-> IF i = n + 2 THEN C ELSE c[i]]
  OBVIOUS
<1>7. d[n + 2] = C /\ \A i \in 1..(n + 1) : d[i] = c[i]
  BY <1>1, <1>6
<1>8. d \in [1..(n + 2) -> 0..MaxFrames]
  BY <1>1, <1>5, <1>6
<1>9. \A i \in 1..(n + 1) : c[i] \in 0..MaxFrames /\ c[i] <= B
  <2> SUFFICES ASSUME NEW i \in 1..(n + 1) PROVE c[i] \in 0..MaxFrames /\ c[i] <= B
    OBVIOUS
  <2>1. c[i] \in 0..MaxFrames
    BY <1>5
  <2>2. i < n + 1 => c[i] < c[n + 1]
    BY <1>1, <1>4 DEF CutAt
  <2> QED
    BY <1>1, <1>5, <2>1, <2>2
<1>10. \A i, j \in 1..(n + 2) : i < j => d[i] < d[j]
  <2> SUFFICES ASSUME NEW i \in 1..(n + 2), NEW j \in 1..(n + 2), i < j PROVE d[i] < d[j]
    OBVIOUS
  <2>1. i \in 1..(n + 1)
    BY <1>1
  <2>2. CASE j = n + 2
    BY <1>7, <1>9, <2>1, <2>2
  <2>3. CASE j # n + 2
    <3>1. j \in 1..(n + 1)
      BY <1>1, <2>3
    <3>2. c[i] < c[j]
      BY <1>1, <1>4, <2>1, <3>1 DEF CutAt
    <3> QED
      BY <1>7, <2>1, <3>1, <3>2
  <2> QED
    BY <2>2, <2>3
<1>11. ASSUME NEW i \in 1..(n + 1)
       PROVE  /\ ew[i].first = Id(d[i]) /\ ew[i].last = Id(d[i + 1] - 1)
              /\ ew[i].kind = "frame" => d[i + 1] = d[i] + 1
  <2>1. CASE i = n + 1
    <3>1. d[i] = B /\ d[i + 1] = C /\ ew[i] = e
      BY <1>1, <1>3, <1>5, <1>7, <2>1
    <3> QED
      BY <3>1
  <2>2. CASE i # n + 1
    <3>1. i \in 1..n /\ i + 1 \in 1..(n + 1)
      BY <1>1, <2>2
    <3>2. ew[i] = ev[i] /\ d[i] = c[i] /\ d[i + 1] = c[i + 1]
      BY <1>3, <1>7, <3>1
    <3>3. /\ ev[i].first = Id(c[i]) /\ ev[i].last = Id(c[i + 1] - 1)
          /\ ev[i].kind = "frame" => c[i + 1] = c[i] + 1
      BY <1>1, <1>4, <3>1 DEF CutAt
    <3> QED
      BY <3>2, <3>3
  <2> QED
    BY <2>1, <2>2
<1>12. n + 1 + 1 = n + 2
  BY <1>1
<1>13. CutAt(d, C, ew)
  BY <1>3, <1>7, <1>8, <1>10, <1>11, <1>12, Zenon DEF CutAt
<1>14. ASSUME NEW i \in 1..(n + 1), ew[i].kind = "frame" PROVE EnoughOf(arr[d[i]])
  <2>1. CASE i = n + 1
    <3>1. d[i] = B /\ ew[i] = e
      BY <1>1, <1>3, <1>5, <1>7, <2>1
    <3> QED
      BY <1>14, <3>1, Zenon
  <2>2. CASE i # n + 1
    <3>1. i \in 1..n
      BY <1>1, <2>2
    <3>2. ew[i] = ev[i] /\ d[i] = c[i]
      BY <1>3, <1>7, <1>1, <3>1
    <3> QED
      BY <1>1, <1>4, <1>14, <3>1, <3>2, Zenon DEF DeliveredAt
  <2> QED
    BY <2>1, <2>2
<1>15. ASSUME NEW f \in 0..(C - 1), EnoughOf(arr[f])
       PROVE  \E i \in 1..(n + 1) : ew[i].kind = "frame" /\ d[i] = f
  <2>1. CASE f < B
    <3>1. f \in 0..(B - 1)
      BY <2>1
    <3>2. PICK i \in 1..n : ev[i].kind = "frame" /\ c[i] = f
      BY <1>1, <1>4, <1>15, <3>1, Zenon DEF DeliveredAt
    <3>3. i \in 1..(n + 1)
      BY <1>1
    <3> QED
      BY <1>3, <1>7, <3>2, <3>3
  <2>2. CASE ~(f < B)
    <3>1. f \in B..(C - 1)
      BY <2>2
    <3>2. e.kind = "frame"
      BY <1>15, <3>1, Zenon
    <3>3. f = B
      BY <3>1, <3>2
    <3>4. n + 1 \in 1..(n + 1)
      BY <1>1
    <3> QED
      BY <1>3, <1>5, <1>7, <3>2, <3>3, <3>4, Zenon
  <2> QED
    BY <2>1, <2>2
<1>16. DeliveredAt(d, C, ew, arr)
  BY <1>3, <1>14, <1>15, Zenon DEF DeliveredAt
<1> QED
  BY <1>2, <1>13, <1>16, Zenon DEF Told

\* Before anything is reported the oldest frame may move on.
LEMMA ToldNothing ==
  ASSUME NEW C \in 0..MaxFrames, NEW arr, \A g \in 0..(C - 1) : ~EnoughOf(arr[g])
  PROVE  Told(C, <<>>, arr)
<1>1. Len(<<>>) = 0
  OBVIOUS
<1>2. PICK c : c = [i \in 1..1 |-> C]
  OBVIOUS
<1>3. CutAt(c, C, <<>>)
  BY <1>1, <1>2 DEF CutAt
<1>4. DeliveredAt(c, C, <<>>, arr)
  BY <1>1 DEF DeliveredAt
<1> QED
  BY <1>3, <1>4, Zenon DEF Told

LEMMA NothingTold ==
  ASSUME NEW B, NEW arr, Told(B, <<>>, arr)
  PROVE  \A f \in 0..(B - 1) : ~EnoughOf(arr[f])
<1>1. Len(<<>>) = 0
  OBVIOUS
<1> QED
  BY <1>1 DEF Told, DeliveredAt

\* What comes of frames in flight changes nothing.
LEMMA ToldSame ==
  ASSUME NEW B \in 0..MaxFrames, NEW ev, Len(ev) \in Nat, NEW arr, NEW arw, Told(B, ev, arr),
         \A f \in 0..(B - 1) : arw[f] = arr[f]
  PROVE  Told(B, ev, arw)
<1>1. PICK n \in Nat : n = Len(ev)
  OBVIOUS
<1>2. PICK c : CutAt(c, B, ev) /\ DeliveredAt(c, B, ev, arr)
  BY Zenon DEF Told
<1>3. ASSUME NEW i \in 1..n PROVE c[i] \in 0..(B - 1)
  <2>1. i \in 1..(n + 1) /\ n + 1 \in 1..(n + 1) /\ i < n + 1
    BY <1>1
  <2>2. c[i] < B /\ c[i] \in 0..MaxFrames
    BY <1>1, <1>2, <2>1 DEF CutAt
  <2> QED
    BY <2>2
<1>4. DeliveredAt(c, B, ev, arw)
  <2>1. ASSUME NEW i \in 1..n, ev[i].kind = "frame" PROVE EnoughOf(arw[c[i]])
    BY <1>1, <1>2, <1>3, <2>1, Zenon DEF DeliveredAt
  <2>2. ASSUME NEW f \in 0..(B - 1), EnoughOf(arw[f])
        PROVE  \E i \in 1..n : ev[i].kind = "frame" /\ c[i] = f
    BY <1>1, <1>2, <2>2, Zenon DEF DeliveredAt
  <2> QED
    BY <1>1, <2>1, <2>2, Zenon DEF DeliveredAt
<1> QED
  BY <1>2, <1>4, Zenon DEF Told

-----------------------------------------------------------------------------
(* The ring moves on *)

\* sl with the frames before C dropped.
Dropped(sl, sw, B, C) ==
  /\ DOMAIN sw = 0..(MAX_IN_FLIGHT - 1) /\ sw = [s \in 0..(MAX_IN_FLIGHT - 1) |-> sw[s]]
  /\ \A s \in 0..(MAX_IN_FLIGHT - 1) :
       /\ sl[s].id = None => sw[s] \in {sl[s], Free}
       /\ \A g \in Frames : g \in B..(B + MAX_IN_FLIGHT - 1) /\ sl[s].id = Id(g) =>
            sw[s] = IF g < C THEN Free ELSE sl[s]

\* Frames of the stream have distinct ids.
LEMMA FrameIds ==
  ASSUME NEW f \in Frames, NEW g \in Frames, Id(f) = Id(g)
  PROVE  f = g
<1>1. PICK n \in Int, w \in Int : n = IDS /\ w = MaxFrames /\ w < n
  BY VideoConstants
<1>2. f \in 0..(w - 1) /\ g \in 0..(w - 1)
  BY <1>1, VideoConstants
<1>3. f - g \in (-n + 1)..(n - 1) /\ f \in Int /\ g \in Int
  BY <1>1, <1>2
<1> QED
  BY <1>1, <1>3, IdInjective

LEMMA DropOlder ==
  ASSUME NEW B \in Int, NEW C \in Int, B <= C, NEW sl, NEW sw, NEW arr,
         InWindow(B, sl), Assembling(B, sl, arr), Unfinished(C, sl), Dropped(sl, sw, B, C)
  PROVE  InWindow(C, sw) /\ Assembling(C, sw, arr) /\ Unfinished(C, sw)
<1>1. Free.id = None /\ Free \in [id : Int, blocks : [Blocks -> [got : SUBSET Shards, have : Nat]]]
  BY DEF Free, Empty, None
<1>2. ASSUME NEW s \in 0..(MAX_IN_FLIGHT - 1)
      PROVE  \/ sl[s].id = None /\ sw[s].id = None
                /\ sw[s] \in [id : Int, blocks : [Blocks -> [got : SUBSET Shards, have : Nat]]]
             \/ \E g \in Frames : /\ g \in B..(B + MAX_IN_FLIGHT - 1) /\ sl[s].id = Id(g) /\ s = Slot(Id(g))
                                  /\ sw[s] = IF g < C THEN Free ELSE sl[s]
  <2>1. sl[s] \in [id : Int, blocks : [Blocks -> [got : SUBSET Shards, have : Nat]]]
    BY DEF InWindow
  <2>2. CASE sl[s].id = None
    <3>1. sw[s] \in {sl[s], Free}
      BY <2>2, Zenon DEF Dropped
    <3> QED
      BY <1>1, <2>1, <2>2, <3>1
  <2>3. CASE sl[s].id # None
    <3>1. PICK g \in Frames : g \in B..(B + MAX_IN_FLIGHT - 1) /\ sl[s].id = Id(g) /\ s = Slot(Id(g))
      BY <2>3, Zenon DEF InWindow
    <3>2. sw[s] = IF g < C THEN Free ELSE sl[s]
      BY <3>1, Zenon DEF Dropped
    <3> QED
      BY <3>1, <3>2
  <2> QED
    BY <2>2, <2>3
<1>3. InWindow(C, sw)
  <2>1. ASSUME NEW s \in 0..(MAX_IN_FLIGHT - 1)
        PROVE  sw[s] \in [id : Int, blocks : [Blocks -> [got : SUBSET Shards, have : Nat]]]
    <3>1. sl[s] \in [id : Int, blocks : [Blocks -> [got : SUBSET Shards, have : Nat]]]
      BY DEF InWindow
    <3>2. sw[s] \in {sl[s], Free} \/ sw[s] \in [id : Int, blocks : [Blocks -> [got : SUBSET Shards, have : Nat]]]
      BY <1>2
    <3> QED
      BY <1>1, <3>1, <3>2
  <2>2. ASSUME NEW s \in 0..(MAX_IN_FLIGHT - 1), sw[s].id # None
        PROVE  \E g \in Frames : g \in C..(C + MAX_IN_FLIGHT - 1) /\ sw[s].id = Id(g) /\ s = Slot(Id(g))
    <3>1. PICK g \in Frames : /\ g \in B..(B + MAX_IN_FLIGHT - 1) /\ sl[s].id = Id(g) /\ s = Slot(Id(g))
                              /\ sw[s] = IF g < C THEN Free ELSE sl[s]
      BY <1>2, <2>2
    <3>2. ~(g < C)
      BY <1>1, <2>2, <3>1
    <3>3. g \in C..(C + MAX_IN_FLIGHT - 1)
      BY <3>1, <3>2, RingConstants
    <3> QED
      BY <3>1, <3>2, <3>3
  <2> QED
    BY <2>1, <2>2 DEF InWindow, Dropped
<1>4. ASSUME NEW g \in Frames, g >= C, sl[Slot(Id(g))].id = Id(g) PROVE sw[Slot(Id(g))] = sl[Slot(Id(g))]
  <2>1. PICK s \in 0..(MAX_IN_FLIGHT - 1) : s = Slot(Id(g))
    BY SlotOf, VideoConstants
  <2>2. sl[s].id # None
    BY <1>4, <2>1, IdType, VideoConstants
  <2>3. PICK h \in Frames : /\ h \in B..(B + MAX_IN_FLIGHT - 1) /\ sl[s].id = Id(h)
                            /\ sw[s] = IF h < C THEN Free ELSE sl[s]
    BY <1>2, <2>2
  <2>4. h = g
    BY <1>4, <2>1, <2>3, FrameIds
  <2> QED
    BY <1>4, <2>1, <2>3, <2>4, VideoConstants
<1>5. ASSUME NEW g \in Frames, g >= C, sw[Slot(Id(g))].id = Id(g) PROVE sw[Slot(Id(g))] = sl[Slot(Id(g))]
  <2>1. PICK s \in 0..(MAX_IN_FLIGHT - 1) : s = Slot(Id(g))
    BY SlotOf, VideoConstants
  <2>2. sw[s].id # None
    BY <1>5, <2>1, IdType, VideoConstants
  <2>3. sw[s] = sl[s] \/ sw[s] = Free
    BY <1>2, <2>2
  <2> QED
    BY <1>1, <2>1, <2>2, <2>3
<1>6. \A g \in Frames : g >= C => g >= B
  BY VideoConstants
<1>7. Assembling(C, sw, arr)
  BY <1>4, <1>5, <1>6, Zenon DEF Assembling
<1>8. Unfinished(C, sw)
  BY <1>5, Zenon DEF Unfinished
<1> QED
  BY <1>3, <1>7, <1>8

-----------------------------------------------------------------------------
(* A shard of frame f comes *)

Before == [base |-> base, next |-> next_frame, slots |-> slots, out |-> <<>>]
After(B, nx, sl, out) == [base |-> Id(B), next |-> nx, slots |-> sl, out |-> out]
Lost(B, C) == [kind |-> "lost", first |-> Id(B), last |-> Id(C - 1)]

LEMMA NothingEnough ==
  ASSUME NEW A, A = {}
  PROVE  ~EnoughOf(A)
<1>1. PICK b \in Blocks : TRUE
  BY ReassemblerAssumption
<1>2. CameOf(A, b) = {}
  BY DEF CameOf
<1>3. PICK n : n = Cardinality(CameOf(A, b)) /\ n = 0
  BY <1>2, FS_EmptySet, Zenon
<1>4. ~(n >= K)
  BY <1>3, VideoConstants
<1> QED
  BY <1>3, <1>4, Zenon DEF EnoughOf

\* Giving up what is a whole window older.
LEMMA GivesUp ==
  ASSUME VideoIInv, NEW B \in 0..MaxFrames, VideoAt(B), base = Id(B), NEW f \in Frames, f >= B + MAX_IN_FLIGHT,
         NEW C \in 0..MaxFrames, C = f - (MAX_IN_FLIGHT - 1)
  PROVE  \E sl : /\ GiveUp(Before, Id(f)) = After(C, Id(C), sl, <<Lost(B, C)>>)
                 /\ FlightAt(C, Id(C), sl, events \o <<Lost(B, C)>>, arrived)
                 /\ <<Lost(B, C)>> \in Seq(EventType)
                 /\ \A s \in 0..(MAX_IN_FLIGHT - 1) : sl[s] \in {slots[s], Free}
<1>1. /\ f \in Int /\ B \in Int /\ C \in Int /\ f \in 0..(MaxFrames - 1)
      /\ B < C /\ C <= f /\ MAX_IN_FLIGHT \in Nat \ {0} /\ MaxFrames \in Nat
  BY VideoConstants
<1>2. Minus(Id(f), Id(B)) = f - B
  <2>1. f - B \in -(MaxFrames + MAX_IN_FLIGHT)..(MaxFrames + MAX_IN_FLIGHT)
    BY <1>1
  <2>2. f >= B
    BY <1>1
  <2> QED
    BY <1>1, <2>1, <2>2, OlderOf
<1>3. ~(Minus(Id(f), Id(B)) < MAX_IN_FLIGHT)
  BY <1>1, <1>2
<1>4. NewBase(Id(f)) = Id(C)
  <2>1. PICK k \in Int : k = MAX_IN_FLIGHT - 1
    BY <1>1
  <2>2. Minus(Id(f), k) = Id(f - k)
    BY <1>1, IdMinus
  <2> QED
    BY <2>1, <2>2 DEF NewBase
<1>5. Id(B) # None /\ Minus(Id(C), 1) = Id(C - 1)
  BY <1>1, IdType, IdMinus
<1>6. base # None
  BY <1>5
<1>7. Started(next_frame, B, events) /\ InWindow(B, slots) /\ Assembling(B, slots, arrived)
      /\ Unfinished(B, slots) /\ Told(B, events, arrived)
  BY <1>6, Zenon DEF VideoAt
<1>8. OrElse(base, Id(f)) = Id(B) /\ OrElse(next_frame, Id(B)) = Id(B)
  BY <1>5, <1>7, Zenon DEF OrElse, Started
<1>9. PICK sl : sl = [s \in DOMAIN slots |->
            IF Taken(slots[s]) /\ Minus(slots[s].id, Id(C)) >= IDS \div 2 THEN Free ELSE slots[s]]
  OBVIOUS
<1>10. GiveUp(Before, Id(f)) = After(C, Id(C), sl, <<Lost(B, C)>>)
  <2>1. /\ Before.base = base /\ Before.next = next_frame /\ Before.slots = slots /\ Before.out = <<>>
    BY DEF Before
  <2>2. Append(<<>>, [kind |-> "lost", first |-> Id(B), last |-> Id(C - 1)]) = <<Lost(B, C)>>
    BY DEF Lost
  <2>3. GiveUp(Before, Id(f)) =
          [base |-> Id(C), next |-> Id(C), slots |-> sl,
           out |-> Append(<<>>, [kind |-> "lost", first |-> Id(B), last |-> Id(C - 1)])]
    BY <1>3, <1>4, <1>5, <1>8, <1>9, <2>1, Zenon DEF GiveUp
  <2> QED
    BY <2>2, <2>3, Zenon DEF After
<1>11. DOMAIN slots = 0..(MAX_IN_FLIGHT - 1)
  BY <1>7 DEF InWindow
<1>12. \A s \in 0..(MAX_IN_FLIGHT - 1) : sl[s] \in {slots[s], Free}
  BY <1>9, <1>11, Zenon
<1>13. Dropped(slots, sl, B, C)
  <2>1. DOMAIN sl = 0..(MAX_IN_FLIGHT - 1) /\ sl = [s \in 0..(MAX_IN_FLIGHT - 1) |-> sl[s]]
    BY <1>9, <1>11
  <2>2. ASSUME NEW s \in 0..(MAX_IN_FLIGHT - 1), NEW g \in Frames, g \in B..(B + MAX_IN_FLIGHT - 1),
               slots[s].id = Id(g)
        PROVE  sl[s] = IF g < C THEN Free ELSE slots[s]
    <3>1. g \in Int /\ g \in 0..(MaxFrames - 1)
      BY VideoConstants
    <3>2. g - C \in -(MaxFrames + MAX_IN_FLIGHT)..(MaxFrames + MAX_IN_FLIGHT)
      BY <1>1, <3>1
    <3>3. Minus(Id(g), Id(C)) >= IDS \div 2 <=> g < C
      BY <1>1, <3>1, <3>2, OlderOf
    <3>4. Taken(slots[s])
      BY <2>2, <3>1, IdType DEF Taken
    <3> QED
      BY <1>9, <1>11, <2>2, <3>3, <3>4, Zenon
  <2> QED
    BY <1>12, <2>1, <2>2, Zenon DEF Dropped
<1>14. Unfinished(C, slots)
  <2>1. \A g \in Frames : g >= C => g >= B
    BY <1>1, VideoConstants
  <2> QED
    BY <1>7, <2>1, Zenon DEF Unfinished
<1>15. InWindow(C, sl) /\ Assembling(C, sl, arrived) /\ Unfinished(C, sl)
  <2>1. B <= C
    BY <1>1
  <2> QED
    BY <1>1, <1>7, <1>13, <1>14, <2>1, DropOlder, Zenon
<1>16. Lost(B, C) \in EventType /\ Lost(B, C).first = Id(B) /\ Lost(B, C).last = Id(C - 1)
       /\ Lost(B, C).kind = "lost"
  <2>1. PICK z \in Int : z = C - 1
    BY <1>1
  <2>2. Id(B) \in Int /\ Id(z) \in Int
    BY <1>1, <2>1, IdType
  <2> QED
    BY <2>1, <2>2 DEF Lost, EventType
<1>17. \A g \in B..(C - 1) : ~EnoughOf(arrived[g])
  <2> SUFFICES ASSUME NEW g \in B..(C - 1) PROVE ~EnoughOf(arrived[g])
    OBVIOUS
  <2>1. g \in Frames /\ g >= B
    BY <1>1, VideoConstants
  <2> QED
    BY <1>1, <1>7, <2>1, NotEnough DEF Unfinished
<1>18. events \in Seq(EventType) /\ events \o <<Lost(B, C)>> = Append(events, Lost(B, C))
  BY <1>7, <1>16 DEF Started
<1>19. Told(C, Append(events, Lost(B, C)), arrived)
  BY <1>1, <1>7, <1>16, <1>17, <1>18, ToldMore
<1>20. Started(Id(C), C, Append(events, Lost(B, C)))
  <2>1. Append(events, Lost(B, C)) \in Seq(EventType) /\ Append(events, Lost(B, C)) # <<>>
    BY <1>16, <1>18
  <2>2. Id(C) # None
    BY <1>1, IdType
  <2> QED
    BY <2>1, <2>2 DEF Started
<1>21. <<Lost(B, C)>> \in Seq(EventType)
  BY <1>16
<1> QED
  BY <1>10, <1>12, <1>15, <1>21, <1>18, <1>19, <1>20, Zenon DEF FlightAt

\* The frame gets its slot, if it had none.
LEMMA TakesSlot ==
  ASSUME VideoIInv, NEW f \in Frames, ~Older(Id(f))
  PROVE  \E C \in 0..f : \E nx, sl, out :
           /\ (IF Holds(Before, Id(f)) THEN Before ELSE GiveUp(Before, Id(f))) = After(C, nx, sl, out)
           /\ f < C + MAX_IN_FLIGHT /\ out \in Seq(EventType) /\ FlightAt(C, nx, sl, events \o out, arrived)
           /\ sl[Slot(Id(f))].id = Id(f) <=> Holds(Before, Id(f))
<1>0. <<>> \in Seq(EventType)
  OBVIOUS
<1>1. PICK B \in 0..MaxFrames : VideoAt(B)
  BY DEF VideoIInv
<1>2. /\ f \in Int /\ B \in Int /\ f \in 0..(MaxFrames - 1) /\ f \in 0..MaxFrames
      /\ MAX_IN_FLIGHT \in Nat \ {0} /\ MaxFrames \in Nat
  BY VideoConstants
<1>3. PICK w \in 0..(MAX_IN_FLIGHT - 1) : w = Slot(Id(f))
  BY <1>2, SlotOf
<1>4. Holds(Before, Id(f)) <=> slots[w].id = Id(f)
  BY <1>3, Zenon DEF Holds, Before
<1>5. Id(f) # None /\ Id(B) # None
  BY <1>2, IdType
<1>6. /\ Before.base = base /\ Before.next = next_frame /\ Before.slots = slots /\ Before.out = <<>>
      /\ Before = [base |-> base, next |-> next_frame, slots |-> slots, out |-> <<>>]
  BY DEF Before
<1>7. InWindow(B, slots) /\ Assembling(B, slots, arrived) /\ Unfinished(B, slots) /\ Told(B, events, arrived)
  BY <1>1, Zenon DEF VideoAt
<1>8. CASE base = None
  <2>1. /\ next_frame = None /\ events = <<>> /\ B = 0
        /\ (\A s \in 0..(MAX_IN_FLIGHT - 1) : slots[s].id = None) /\ \A g \in Frames : arrived[g] = {}
    BY <1>1, <1>5, <1>8, Zenon DEF VideoAt
  <2>2. ~Holds(Before, Id(f))
    BY <1>4, <1>5, <2>1, Zenon
  <2>3. Minus(Id(f), Id(f)) = 0
    BY <1>2, OlderOf
  <2>4. OrElse(base, Id(f)) = Id(f)
    BY <1>8 DEF OrElse
  <2>5. GiveUp(Before, Id(f)) = After(f, None, slots, <<>>)
    <3>1. Minus(Id(f), Id(f)) < MAX_IN_FLIGHT
      BY <1>2, <2>3
    <3>2. GiveUp(Before, Id(f)) = [Before EXCEPT !.base = Id(f)]
      BY <1>6, <2>4, <3>1, Zenon DEF GiveUp
    <3> QED
      BY <1>6, <2>1, <3>2 DEF After
  <2>6. InWindow(f, slots)
    BY <1>7, <2>1, Zenon DEF InWindow
  <2>7. \A g \in Frames : Slot(Id(g)) \in 0..(MAX_IN_FLIGHT - 1) /\ Id(g) # None
    BY SlotOf, IdType, VideoConstants
  <2>8. Assembling(f, slots, arrived) /\ Unfinished(f, slots)
    BY <2>1, <2>7, Zenon DEF Assembling, Unfinished
  <2>9. Told(f, <<>>, arrived)
    <3>1. ASSUME NEW g \in 0..(f - 1) PROVE ~EnoughOf(arrived[g])
      <4>1. g \in Frames
        BY <1>2 DEF Frames
      <4> QED
        BY <2>1, <4>1, NothingEnough
    <3> QED
      BY <1>2, <3>1, ToldNothing, Zenon
  <2>10. Started(None, f, <<>>) /\ events \o <<>> = <<>>
    BY <2>1 DEF Started
  <2>11. FlightAt(f, None, slots, events \o <<>>, arrived)
    BY <1>2, <2>6, <2>8, <2>9, <2>10, Zenon DEF FlightAt
  <2>12. f \in 0..f /\ f < f + MAX_IN_FLIGHT
    BY <1>2
  <2>13. ~(slots[Slot(Id(f))].id = Id(f))
    BY <1>3, <1>4, <2>2
  <2> QED
    BY <1>0, <2>2, <2>5, <2>11, <2>12, <2>13, Zenon
<1>9. CASE base # None
  <2>1. base = Id(B) /\ Started(next_frame, B, events)
    BY <1>1, <1>9, Zenon DEF VideoAt
  <2>2. f >= B /\ Minus(Id(f), Id(B)) = f - B
    <3>1. ~(Minus(Id(f), Id(B)) >= IDS \div 2)
      BY <1>9, <2>1, Zenon DEF Older
    <3>2. f - B \in -(MaxFrames + MAX_IN_FLIGHT)..(MaxFrames + MAX_IN_FLIGHT)
      BY <1>2
    <3>3. ~(f < B)
      BY <1>2, <3>1, <3>2, OlderOf
    <3>4. f >= B
      BY <1>2, <3>3
    <3> QED
      BY <1>2, <3>2, <3>4, OlderOf
  <2>3. events \in Seq(EventType) /\ events \o <<>> = events
    BY <2>1 DEF Started
  <2>4. FlightAt(B, next_frame, slots, events \o <<>>, arrived)
    BY <1>7, <2>1, <2>3, Zenon DEF FlightAt
  <2>5. B \in 0..f
    BY <1>2, <2>2
  <2>6. CASE Holds(Before, Id(f))
    <3>1. PICK g \in Frames : g \in B..(B + MAX_IN_FLIGHT - 1) /\ slots[w].id = Id(g)
      BY <1>4, <1>5, <1>7, <2>6, Zenon DEF InWindow
    <3>2. g = f
      BY <1>4, <2>6, <3>1, FrameIds
    <3>3. f < B + MAX_IN_FLIGHT
      BY <1>2, <3>1, <3>2
    <3>4. Before = After(B, next_frame, slots, <<>>)
      BY <1>6, <2>1 DEF After
    <3>5. slots[Slot(Id(f))].id = Id(f)
      BY <1>3, <1>4, <2>6
    <3> QED
      BY <1>0, <2>4, <2>5, <2>6, <3>3, <3>4, <3>5, Zenon
  <2>7. CASE ~Holds(Before, Id(f)) /\ f < B + MAX_IN_FLIGHT
    <3>1. OrElse(base, Id(f)) = Id(B)
      BY <1>9, <2>1, Zenon DEF OrElse
    <3>2. Minus(Id(f), Id(B)) < MAX_IN_FLIGHT
      BY <1>2, <2>2, <2>7
    <3>3. GiveUp(Before, Id(f)) = [Before EXCEPT !.base = Id(B)]
      BY <1>6, <3>1, <3>2, Zenon DEF GiveUp
    <3>4. GiveUp(Before, Id(f)) = After(B, next_frame, slots, <<>>)
      BY <1>6, <3>3 DEF After
    <3>5. ~(slots[Slot(Id(f))].id = Id(f))
      BY <1>3, <1>4, <2>7
    <3> QED
      BY <1>0, <2>4, <2>5, <2>7, <3>4, <3>5, Zenon
  <2>8. CASE ~Holds(Before, Id(f)) /\ ~(f < B + MAX_IN_FLIGHT)
    <3>1. PICK C \in 0..MaxFrames : C = f - (MAX_IN_FLIGHT - 1)
      BY <1>2, <2>2, <2>8
    <3>2. f >= B + MAX_IN_FLIGHT
      BY <1>2, <2>8
    <3>3. PICK sl : /\ GiveUp(Before, Id(f)) = After(C, Id(C), sl, <<Lost(B, C)>>)
                    /\ FlightAt(C, Id(C), sl, events \o <<Lost(B, C)>>, arrived)
                    /\ <<Lost(B, C)>> \in Seq(EventType)
                    /\ \A s \in 0..(MAX_IN_FLIGHT - 1) : sl[s] \in {slots[s], Free}
      BY <1>1, <2>1, <3>1, <3>2, GivesUp, Zenon
    <3>4. C \in 0..f /\ f < C + MAX_IN_FLIGHT
      BY <1>2, <3>1
    <3>5. sl[w] = slots[w] \/ sl[w] = Free
      BY <3>3
    <3>6. Free.id = None
      BY DEF Free
    <3>7. ~(sl[Slot(Id(f))].id = Id(f))
      BY <1>3, <1>4, <1>5, <2>8, <3>5, <3>6, Zenon
    <3> QED
      BY <2>8, <3>3, <3>4, <3>7, Zenon
  <2> QED
    BY <2>6, <2>7, <2>8
<1> QED
  BY <1>8, <1>9

SlotType == [id : Int, blocks : [Blocks -> [got : SUBSET Shards, have : Nat]]]

\* The slot of frame f set to x, which keeps what came of it.
SetTo(sl, sw, f, x, A) ==
  /\ sw = [sl EXCEPT ![Slot(Id(f))] = x] /\ x \in SlotType /\ x.id = Id(f)
  /\ \A b \in Blocks : KeptOf(x.blocks[b], A, b)
OthersSame(arr, arw, f) == \A g \in Frames : g # f => arw[g] = arr[g]

SlotSet(C, f, x, sl, arr, sw, arw) ==
  /\ C \in Int /\ f \in C..(C + MAX_IN_FLIGHT - 1) /\ InWindow(C, sl) /\ Assembling(C, sl, arr)
  /\ SetTo(sl, sw, f, x, arw[f]) /\ OthersSame(arr, arw, f)
SlotAfter(C, f, x, sl, sw, arw) ==
  /\ InWindow(C, sw) /\ Assembling(C, sw, arw) /\ sw[Slot(Id(f))] = x
  /\ \A g \in Frames : g # f /\ g >= C /\ sw[Slot(Id(g))].id = Id(g) =>
       sw[Slot(Id(g))] = sl[Slot(Id(g))]

\* Setting a slot of the window concerns the frame it is of alone.
LEMMA SetSlot ==
  ASSUME NEW C, NEW f \in Frames, NEW x, NEW sl, NEW arr, NEW sw, NEW arw,
         SlotSet(C, f, x, sl, arr, sw, arw)
  PROVE  SlotAfter(C, f, x, sl, sw, arw)
<1>h. /\ C \in Int /\ f \in C..(C + MAX_IN_FLIGHT - 1) /\ InWindow(C, sl) /\ Assembling(C, sl, arr)
      /\ SetTo(sl, sw, f, x, arw[f]) /\ OthersSame(arr, arw, f)
  BY Zenon DEF SlotSet
<1>w. PICK w : w = Slot(Id(f))
  OBVIOUS
<1>0. /\ x \in SlotType /\ x.id = Id(f) /\ (\A g \in Frames : g # f => arw[g] = arr[g])
      /\ (\A b \in Blocks : KeptOf(x.blocks[b], arw[f], b)) /\ sw = [sl EXCEPT ![w] = x]
  BY <1>h, <1>w, Zenon DEF SetTo, OthersSame
<1>1. w \in 0..(MAX_IN_FLIGHT - 1)
  BY <1>w, SlotOf, VideoConstants
<1>2. sl \in [0..(MAX_IN_FLIGHT - 1) -> SlotType]
  BY <1>h DEF InWindow, SlotType
<1>3. sw[w] = x /\ (\A s \in 0..(MAX_IN_FLIGHT - 1) : s # w => sw[s] = sl[s])
      /\ sw \in [0..(MAX_IN_FLIGHT - 1) -> SlotType]
  BY <1>0, <1>1, <1>2
<1>4. InWindow(C, sw)
  <2>1. ASSUME NEW s \in 0..(MAX_IN_FLIGHT - 1), sw[s].id # None
        PROVE  \E g \in Frames : g \in C..(C + MAX_IN_FLIGHT - 1) /\ sw[s].id = Id(g) /\ s = Slot(Id(g))
    <3>1. CASE s = w
      BY <1>0, <1>3, <1>h, <1>w, <3>1, Zenon
    <3>2. CASE s # w
      BY <1>3, <1>h, <2>1, <3>2, Zenon DEF InWindow
    <3> QED
      BY <3>1, <3>2
  <2> QED
    BY <1>3, <2>1 DEF InWindow, SlotType
<1>5. \A g \in Frames : Slot(Id(g)) \in 0..(MAX_IN_FLIGHT - 1) /\ Id(g) # None /\ g \in Int
  BY SlotOf, IdType, VideoConstants
<1>6. ASSUME NEW g \in Frames, g # f, g >= C, Slot(Id(g)) = w PROVE sl[w].id # Id(g)
  <2> SUFFICES ASSUME sl[w].id = Id(g) PROVE FALSE
    OBVIOUS
  <2>1. sl[w].id # None
    BY <1>5
  <2>2. PICK h \in Frames : h \in C..(C + MAX_IN_FLIGHT - 1) /\ sl[w].id = Id(h)
    BY <1>1, <1>h, <2>1, Zenon DEF InWindow
  <2>3. h = g
    BY <2>2, FrameIds
  <2>4. g - f \in (-MAX_IN_FLIGHT + 1)..(MAX_IN_FLIGHT - 1) /\ f \in Int /\ g \in Int
    BY <1>5, <1>h, <2>2, <2>3, RingConstants
  <2> QED
    BY <1>6, <1>w, <2>4, SlotInjective
<1>7. ASSUME NEW g \in Frames, g # f, g >= C, sw[Slot(Id(g))].id = Id(g)
      PROVE  sw[Slot(Id(g))] = sl[Slot(Id(g))]
  <2>1. Slot(Id(g)) # w
    BY <1>0, <1>3, <1>7, FrameIds
  <2> QED
    BY <1>3, <1>5, <2>1
<1>8. ASSUME NEW g \in Frames, g >= C
      PROVE  IF sw[Slot(Id(g))].id = Id(g)
             THEN \A b \in Blocks : KeptOf(sw[Slot(Id(g))].blocks[b], arw[g], b)
             ELSE arw[g] = {}
  <2>1. CASE g = f
    BY <1>0, <1>3, <1>w, <2>1, Zenon
  <2>2. CASE g # f /\ Slot(Id(g)) = w
    <3>1. sl[w].id # Id(g) /\ sw[w].id # Id(g)
      BY <1>0, <1>3, <1>6, <1>8, <2>2, FrameIds
    <3>2. arr[g] = {}
      BY <1>8, <1>h, <2>2, <3>1, Zenon DEF Assembling
    <3> QED
      BY <1>0, <2>2, <3>1, <3>2, Zenon
  <2>3. CASE g # f /\ Slot(Id(g)) # w
    <3>1. sw[Slot(Id(g))] = sl[Slot(Id(g))] /\ arw[g] = arr[g]
      BY <1>0, <1>3, <1>5, <2>3
    <3> QED
      BY <1>8, <1>h, <3>1, Zenon DEF Assembling
  <2> QED
    BY <2>1, <2>2, <2>3
<1>9. Assembling(C, sw, arw)
  BY <1>8, Zenon DEF Assembling
<1> QED
  BY <1>3, <1>4, <1>7, <1>9, <1>w, Zenon DEF SlotAfter

LEMMA BeginsAt ==
  ASSUME VideoIInv, NEW f \in Frames, ~Older(Id(f))
  PROVE  \E C \in 0..f : \E nx, sl, out :
           /\ Begin(Before, Id(f)) = After(C, nx, sl, out)
           /\ f < C + MAX_IN_FLIGHT /\ out \in Seq(EventType) /\ FlightAt(C, nx, sl, events \o out, arrived)
           /\ sl[Slot(Id(f))].id = Id(f)
<1>0. PICK C \in 0..f : \E nx, sl, out :
        /\ (IF Holds(Before, Id(f)) THEN Before ELSE GiveUp(Before, Id(f))) = After(C, nx, sl, out)
        /\ f < C + MAX_IN_FLIGHT /\ out \in Seq(EventType) /\ FlightAt(C, nx, sl, events \o out, arrived)
        /\ sl[Slot(Id(f))].id = Id(f) <=> Holds(Before, Id(f))
  BY TakesSlot, Zenon
<1>1. PICK nx, sl, out :
        /\ (IF Holds(Before, Id(f)) THEN Before ELSE GiveUp(Before, Id(f))) = After(C, nx, sl, out)
        /\ f < C + MAX_IN_FLIGHT /\ out \in Seq(EventType) /\ FlightAt(C, nx, sl, events \o out, arrived)
        /\ sl[Slot(Id(f))].id = Id(f) <=> Holds(Before, Id(f))
  BY <1>0, Zenon
<1>2. CASE Holds(Before, Id(f))
  <2>1. Begin(Before, Id(f)) = After(C, nx, sl, out)
    BY <1>1, <1>2, Zenon DEF Begin
  <2> QED
    BY <1>1, <1>2, <2>1, Zenon
<1>3. CASE ~Holds(Before, Id(f))
  <2>1. PICK w : w = Slot(Id(f))
    OBVIOUS
  <2>2. PICK x : x = [id |-> Id(f), blocks |-> Empty]
    OBVIOUS
  <2>3. PICK sw : sw = [sl EXCEPT ![w] = x]
    OBVIOUS
  <2>4. Begin(Before, Id(f)) = After(C, nx, sw, out)
    <3>1. Begin(Before, Id(f)) = [After(C, nx, sl, out) EXCEPT !.slots[w] = x]
      BY <1>1, <1>3, <2>1, <2>2, Zenon DEF Begin
    <3> QED
      BY <2>3, <3>1 DEF After
  <2>5. f \in Int /\ C \in Int /\ f \in C..(C + MAX_IN_FLIGHT - 1) /\ f >= C
    BY <1>1, VideoConstants
  <2>6. InWindow(C, sl) /\ Assembling(C, sl, arrived) /\ Unfinished(C, sl)
    BY <1>1, Zenon DEF FlightAt
  <2>7. arrived[f] = {}
    BY <1>1, <1>3, <2>5, <2>6, Zenon DEF Assembling
  <2>8. x \in SlotType /\ x.id = Id(f) /\ x.blocks = Empty
    <3>1. Id(f) \in Int
      BY <2>5, IdType
    <3> QED
      BY <2>2, <3>1 DEF SlotType, Empty
  <2>9. \A b \in Blocks : KeptOf(x.blocks[b], arrived[f], b)
    <3> SUFFICES ASSUME NEW b \in Blocks PROVE KeptOf(x.blocks[b], arrived[f], b)
      OBVIOUS
    <3>1. x.blocks[b].got = {} /\ x.blocks[b].have = 0
      BY <2>8 DEF Empty
    <3>2. CameOf(arrived[f], b) = {}
      BY <2>7 DEF CameOf
    <3>3. Cardinality({}) = 0
      BY FS_EmptySet
    <3> QED
      BY <3>1, <3>2, <3>3, Zenon DEF KeptOf
  <2>a. SetTo(sl, sw, f, x, arrived[f]) /\ OthersSame(arrived, arrived, f)
    BY <2>1, <2>3, <2>8, <2>9, Zenon DEF SetTo, OthersSame
  <2>10. /\ InWindow(C, sw) /\ Assembling(C, sw, arrived) /\ sw[Slot(Id(f))] = x
         /\ \A g \in Frames : g # f /\ g >= C /\ sw[Slot(Id(g))].id = Id(g) =>
              sw[Slot(Id(g))] = sl[Slot(Id(g))]
    <3>1. PICK ar : ar = arrived
      OBVIOUS
    <3>2. SlotSet(C, f, x, sl, ar, sw, ar)
      BY <2>5, <2>6, <2>a, <3>1, Zenon DEF SlotSet
    <3>3. SlotAfter(C, f, x, sl, sw, ar)
      BY <3>2, SetSlot, Zenon
    <3> QED
      BY <3>1, <3>3, Zenon DEF SlotAfter
  <2>11. ~Whole(x)
    <3>1. PICK b \in Blocks : TRUE
      BY ReassemblerAssumption
    <3>2. PICK n : n = x.blocks[b].have /\ n = 0
      BY <2>8 DEF Empty
    <3>3. ~(n >= K)
      BY <3>2, VideoConstants
    <3> QED
      BY <3>2, <3>3, Zenon DEF Whole
  <2>12. Unfinished(C, sw)
    BY <2>1, <2>6, <2>10, <2>11, Zenon DEF Unfinished
  <2>13. FlightAt(C, nx, sw, events \o out, arrived)
    BY <1>1, <2>10, <2>12, Zenon DEF FlightAt
  <2>14. sw[Slot(Id(f))].id = Id(f)
    BY <2>1, <2>8, <2>10
  <2> QED
    BY <1>1, <2>4, <2>13, <2>14, Zenon
<1> QED
  BY <1>2, <1>3

BlockType == [got : SUBSET Shards, have : Nat]
Stored(blk, s) == IF NotTaken(blk, s) THEN [got |-> blk.got \union {s}, have |-> blk.have + 1] ELSE blk

\* A shard is kept with its block, and counts once.
LEMMA KeepsShard ==
  ASSUME NEW blk \in BlockType, NEW A, NEW b, NEW s \in Shards, KeptOf(blk, A, b)
  PROVE  Stored(blk, s) \in BlockType /\ KeptOf(Stored(blk, s), A \union {<<b, s>>}, b)
<1>1. PICK G \in SUBSET Shards, n \in Nat : G = blk.got /\ n = blk.have /\ G \subseteq Shards
  BY DEF BlockType
<1>2. PICK P, Q : P = CameOf(A, b) /\ Q = CameOf(A \union {<<b, s>>}, b)
  OBVIOUS
<1>3. Q = P \union {s}
  BY <1>2 DEF CameOf
<1>4. G \subseteq P /\ n = Cardinality(G) /\ (n < K => G = P)
  BY <1>1, <1>2, Zenon DEF KeptOf
<1>5. IsFiniteSet(G) /\ K \in Int
  BY <1>1, ReassemblerAssumption, FS_Subset, VideoConstants
<1>6. CASE NotTaken(blk, s)
  <2>1. n < K /\ s \notin G
    BY <1>1, <1>6 DEF NotTaken
  <2>2. PICK y : y = [got |-> G \union {s}, have |-> n + 1]
    OBVIOUS
  <2>3. Stored(blk, s) = y
    BY <1>1, <1>6, <2>2, Zenon DEF Stored
  <2>4. y \in BlockType /\ y.got = G \union {s} /\ y.have = n + 1
    BY <1>1, <2>2 DEF BlockType
  <2>5. Cardinality(G \union {s}) = n + 1
    BY <1>4, <1>5, <2>1, FS_AddElement
  <2>6. y.got = Q
    BY <1>3, <1>4, <2>1, <2>4
  <2>7. KeptOf(y, A \union {<<b, s>>}, b)
    BY <1>2, <2>4, <2>5, <2>6 DEF KeptOf
  <2> QED
    BY <2>3, <2>4, <2>7
<1>7. CASE ~NotTaken(blk, s)
  <2>1. ~(n < K) \/ s \in G
    BY <1>1, <1>7 DEF NotTaken
  <2>2. Stored(blk, s) = blk
    BY <1>7 DEF Stored
  <2>3. G \subseteq Q /\ (n < K => G = Q)
    BY <1>3, <1>4, <2>1
  <2>4. KeptOf(blk, A \union {<<b, s>>}, b)
    BY <1>1, <1>2, <1>4, <2>3, Zenon DEF KeptOf
  <2> QED
    BY <2>2, <2>4
<1> QED
  BY <1>6, <1>7

LEMMA KeepsOther ==
  ASSUME NEW blk, NEW A, NEW b, NEW s, NEW a, a # b, KeptOf(blk, A, a)
  PROVE  KeptOf(blk, A \union {<<b, s>>}, a)
<1>1. CameOf(A \union {<<b, s>>}, a) = CameOf(A, a)
  BY DEF CameOf
<1> QED
  BY <1>1, Zenon DEF KeptOf

Came(f, b, s) == [arrived EXCEPT ![f] = @ \union {<<b, s>>}]

\* Frame f is in its slot, and of the frames in flight none is finished.
StoringAt(C, f, sl) ==
  /\ C \in Int /\ f \in C..(C + MAX_IN_FLIGHT - 1) /\ sl[Slot(Id(f))].id = Id(f)
  /\ InWindow(C, sl) /\ Assembling(C, sl, arrived) /\ Unfinished(C, sl)
\* The shard is kept, and no other frame is finished by it.
StoredAt(C, f, b, s, nx, sl, out) ==
  \E sw : /\ Store(After(C, nx, sl, out), Id(f), b, s) = After(C, nx, sw, out)
          /\ InWindow(C, sw) /\ Assembling(C, sw, Came(f, b, s)) /\ sw[Slot(Id(f))].id = Id(f)
          /\ \A g \in Frames : g # f /\ g >= C /\ sw[Slot(Id(g))].id = Id(g) => ~Whole(sw[Slot(Id(g))])

LEMMA StoresAt ==
  ASSUME VideoIInv, NEW f \in Frames, NEW b \in Blocks, NEW s \in Shards, NEW C, NEW nx, NEW sl, NEW out,
         StoringAt(C, f, sl)
  PROVE  StoredAt(C, f, b, s, nx, sl, out)
<1>0. /\ C \in Int /\ f \in C..(C + MAX_IN_FLIGHT - 1) /\ sl[Slot(Id(f))].id = Id(f)
      /\ InWindow(C, sl) /\ Assembling(C, sl, arrived) /\ Unfinished(C, sl)
  BY Zenon DEF StoringAt
<1> USE <1>0
<1>1. PICK w \in 0..(MAX_IN_FLIGHT - 1) : w = Slot(Id(f))
  BY SlotOf, VideoConstants
<1>2. PICK ar, aw : ar = arrived /\ aw = Came(f, b, s)
  OBVIOUS
<1>3. ar \in [Frames -> SUBSET (Blocks \X Shards)] /\ aw = [ar EXCEPT ![f] = @ \union {<<b, s>>}]
  BY <1>2, Zenon DEF VideoIInv, Came
<1>4. aw[f] = ar[f] \union {<<b, s>>} /\ OthersSame(ar, aw, f)
  BY <1>3 DEF OthersSame
<1>5. PICK t : t = sl[w] /\ t \in SlotType /\ t.id = Id(f)
  BY <1>1 DEF InWindow, SlotType
<1>6. f >= C
  BY VideoConstants
<1>7. \A a \in Blocks : KeptOf(t.blocks[a], ar[f], a)
  BY <1>1, <1>2, <1>5, <1>6, Zenon DEF Assembling
<1>8. \A a \in Blocks : t.blocks[a] \in BlockType
  BY <1>5 DEF SlotType, BlockType
<1>9. PICK x : x = [t EXCEPT !.blocks[b] = Stored(t.blocks[b], s)]
  OBVIOUS
<1>10. Stored(t.blocks[b], s) \in BlockType /\ KeptOf(Stored(t.blocks[b], s), aw[f], b)
  BY <1>4, <1>7, <1>8, KeepsShard
<1>11. PICK z : z = Stored(t.blocks[b], s)
  OBVIOUS
<1>12. x.id = Id(f) /\ x.blocks[b] = z /\ (\A a \in Blocks : a # b => x.blocks[a] = t.blocks[a]) /\ x \in SlotType
  BY <1>5, <1>9, <1>10, <1>11 DEF SlotType, BlockType
<1>13. \A a \in Blocks : KeptOf(x.blocks[a], aw[f], a)
  <2> SUFFICES ASSUME NEW a \in Blocks PROVE KeptOf(x.blocks[a], aw[f], a)
    OBVIOUS
  <2>1. CASE a = b
    BY <1>10, <1>11, <1>12, <2>1, Zenon
  <2>2. CASE a # b
    <3>1. KeptOf(t.blocks[a], aw[f], a)
      <4>1. KeptOf(t.blocks[a], ar[f], a)
        BY <1>7
      <4>2. KeptOf(t.blocks[a], ar[f] \union {<<b, s>>}, a)
        BY <2>2, <4>1, KeepsOther, Zenon
      <4> QED
        BY <1>4, <4>2, Zenon
    <3> QED
      BY <1>12, <2>2, <3>1, Zenon
  <2> QED
    BY <2>1, <2>2
<1>14. PICK sw : sw = [sl EXCEPT ![w] = x]
  OBVIOUS
<1>15. SetTo(sl, sw, f, x, aw[f])
  BY <1>1, <1>12, <1>13, <1>14, Zenon DEF SetTo
<1>16. SlotSet(C, f, x, sl, ar, sw, aw)
  BY <1>2, <1>4, <1>15, Zenon DEF SlotSet
<1>17. SlotAfter(C, f, x, sl, sw, aw)
  BY <1>16, SetSlot, Zenon
<1>18. Store(After(C, nx, sl, out), Id(f), b, s) = After(C, nx, sw, out)
  <2>1. After(C, nx, sl, out).slots = sl
    BY DEF After
  <2>2. CASE NotTaken(t.blocks[b], s)
    <3>1. z = [got |-> t.blocks[b].got \union {s}, have |-> t.blocks[b].have + 1]
      BY <1>11, <2>2 DEF Stored
    <3>2. Store(After(C, nx, sl, out), Id(f), b, s) = [After(C, nx, sl, out) EXCEPT !.slots[w].blocks[b] = z]
      BY <1>1, <1>5, <2>1, <2>2, <3>1, Zenon DEF Store
    <3>3. [After(C, nx, sl, out) EXCEPT !.slots[w].blocks[b] = z] = After(C, nx, [sl EXCEPT ![w].blocks[b] = z], out)
      BY DEF After
    <3>4. [sl EXCEPT ![w].blocks[b] = z] = sw
      BY <1>1, <1>5, <1>9, <1>11, <1>14
    <3> QED
      BY <3>2, <3>3, <3>4
  <2>3. CASE ~NotTaken(t.blocks[b], s)
    <3>1. z = t.blocks[b]
      BY <1>11, <2>3 DEF Stored
    <3>2. x = t
      BY <1>5, <1>9, <1>11, <3>1 DEF SlotType
    <3>3. sw = sl
      BY <1>1, <1>5, <1>14, <3>2 DEF InWindow
    <3>4. Store(After(C, nx, sl, out), Id(f), b, s) = After(C, nx, sl, out)
      BY <1>1, <1>5, <2>1, <2>3, Zenon DEF Store
    <3> QED
      BY <3>3, <3>4
  <2> QED
    BY <2>2, <2>3
<1>19. \A g \in Frames : g # f /\ g >= C /\ sw[Slot(Id(g))].id = Id(g) => ~Whole(sw[Slot(Id(g))])
  BY <1>17, Zenon DEF SlotAfter, Unfinished
<1>20. InWindow(C, sw) /\ Assembling(C, sw, Came(f, b, s)) /\ sw[Slot(Id(f))].id = Id(f)
  BY <1>2, <1>12, <1>17, Zenon DEF SlotAfter
<1> QED
  BY <1>18, <1>19, <1>20, Zenon DEF StoredAt

FrameEvent(f) == [kind |-> "frame", first |-> Id(f), last |-> Id(f)]

LEMMA WholeEnough ==
  ASSUME NEW C \in Int, NEW sl, NEW arr, InWindow(C, sl), Assembling(C, sl, arr), NEW f \in Frames, f >= C,
         sl[Slot(Id(f))].id = Id(f), Whole(sl[Slot(Id(f))])
  PROVE  EnoughOf(arr[f])
<1> SUFFICES ASSUME NEW b \in Blocks PROVE Cardinality(CameOf(arr[f], b)) >= K
  BY DEF EnoughOf
<1>1. PICK t : t = sl[Slot(Id(f))]
  OBVIOUS
<1>2. KeptOf(t.blocks[b], arr[f], b)
  BY <1>1, Zenon DEF Assembling
<1>3. t.blocks[b].have >= K
  BY <1>1, Zenon DEF Whole
<1>4. PICK G : G = t.blocks[b].got
  OBVIOUS
<1>5. G \subseteq CameOf(arr[f], b) /\ t.blocks[b].have = Cardinality(G)
  BY <1>2, <1>4, Zenon DEF KeptOf
<1>6. Cardinality(G) <= Cardinality(CameOf(arr[f], b)) /\ IsFiniteSet(G)
  BY <1>5, CameType, FS_Subset
<1>7. Cardinality(G) \in Nat /\ Cardinality(CameOf(arr[f], b)) \in Nat
  BY <1>6, CameType, FS_CardinalityType
<1> QED
  BY <1>3, <1>5, <1>6, <1>7, VideoConstants

\* A frame that is whole goes out, after what is lost before it.
LEMMA CompletesTold ==
  ASSUME NEW f \in Frames, NEW C \in 0..f, NEW nx, NEW sl, NEW ev, NEW arr, Started(nx, C, ev),
         InWindow(C, sl), Assembling(C, sl, arr), Told(C, ev, arr),
         sl[Slot(Id(f))].id = Id(f), Whole(sl[Slot(Id(f))]),
         \A g \in Frames : g # f /\ g >= C /\ sl[Slot(Id(g))].id = Id(g) => ~Whole(sl[Slot(Id(g))])
  PROVE  LET lost == IF OrElse(nx, Id(f)) = Id(f) THEN <<>> ELSE <<Lost(C, f)>>
         IN /\ lost \in Seq(EventType) /\ (lost = <<>> \/ OrElse(nx, Id(f)) = Id(C))
            /\ Told(f + 1, Append(ev \o lost, FrameEvent(f)), arr)
            /\ Started(Id(f + 1), f + 1, Append(ev \o lost, FrameEvent(f)))
<1>1. f \in Int /\ C \in Int /\ f \in 0..(MaxFrames - 1) /\ f \in 0..MaxFrames /\ C \in 0..MaxFrames /\ C <= f
      /\ f + 1 \in 0..MaxFrames /\ f < f + 1 /\ (f + 1) - 1 = f /\ f + 1 \in Int /\ f - 1 \in Int
  BY VideoConstants
<1>2. Id(f) \in Int /\ Id(C) \in Int /\ Id(f) # None /\ Id(C) # None /\ Id(f - 1) \in Int /\ Id(f + 1) # None
  BY <1>1, IdType
<1>3. EnoughOf(arr[f])
  BY <1>1, WholeEnough
<1>4. \A g \in C..(f - 1) : ~EnoughOf(arr[g])
  <2> SUFFICES ASSUME NEW g \in C..(f - 1) PROVE ~EnoughOf(arr[g])
    OBVIOUS
  <2>1. g \in Frames /\ g >= C /\ g # f
    BY <1>1, VideoConstants
  <2> QED
    BY <1>1, <2>1, NotEnough
<1>5. FrameEvent(f) \in EventType /\ FrameEvent(f).first = Id(f) /\ FrameEvent(f).last = Id((f + 1) - 1)
      /\ FrameEvent(f).kind = "frame"
  BY <1>1, <1>2 DEF FrameEvent, EventType
<1>6. Lost(C, f) \in EventType /\ Lost(C, f).first = Id(C) /\ Lost(C, f).last = Id(f - 1) /\ Lost(C, f).kind = "lost"
  BY <1>2 DEF Lost, EventType
<1>7. ev \in Seq(EventType)
  BY DEF Started
<1>8. \A e \in Seq(EventType) : Told(f, e, arr) =>
        /\ Told(f + 1, Append(e, FrameEvent(f)), arr)
        /\ Started(Id(f + 1), f + 1, Append(e, FrameEvent(f)))
  <2> SUFFICES ASSUME NEW e \in Seq(EventType), Told(f, e, arr)
               PROVE  /\ Told(f + 1, Append(e, FrameEvent(f)), arr)
                      /\ Started(Id(f + 1), f + 1, Append(e, FrameEvent(f)))
    OBVIOUS
  <2>1. Told(f + 1, Append(e, FrameEvent(f)), arr)
    BY <1>1, <1>3, <1>5, ToldMore
  <2>2. Append(e, FrameEvent(f)) \in Seq(EventType) /\ Append(e, FrameEvent(f)) # <<>>
    <3>1. PICK x \in EventType : x = FrameEvent(f)
      BY <1>5
    <3>2. Append(e, x) \in Seq(EventType) /\ Append(e, x) # <<>>
      <4>1. PICK S : S = EventType
        OBVIOUS
      <4> QED
        BY <4>1, AppendProperties
    <3> QED
      BY <3>1, <3>2
  <2> QED
    BY <1>2, <2>1, <2>2 DEF Started
<1>9. ev \o <<>> = ev /\ <<>> \in Seq(EventType)
  BY <1>7
<1>10. CASE nx = None
  <2>1. OrElse(nx, Id(f)) = Id(f)
    BY <1>10 DEF OrElse
  <2>2. ev = <<>>
    BY <1>10 DEF Started
  <2>3. ASSUME NEW g \in 0..(f - 1) PROVE ~EnoughOf(arr[g])
    <3>1. g \in 0..(C - 1) \/ g \in C..(f - 1)
      BY <1>1
    <3>2. Told(C, <<>>, arr)
      BY <2>2
    <3>3. \A h \in 0..(C - 1) : ~EnoughOf(arr[h])
      BY <3>2, NothingTold
    <3> QED
      BY <1>4, <3>1, <3>3
  <2>4. Told(f, ev, arr)
    BY <1>1, <2>2, <2>3, ToldNothing, Zenon
  <2> QED
    BY <1>7, <1>8, <1>9, <2>1, <2>4, Zenon
<1>11. CASE nx # None
  <2>1. nx = Id(C) /\ OrElse(nx, Id(f)) = Id(C)
    BY <1>11, Zenon DEF Started, OrElse
  <2>2. CASE C = f
    <3>1. OrElse(nx, Id(f)) = Id(f)
      BY <2>1, <2>2
    <3>2. Told(f, ev, arr)
      BY <2>2
    <3> QED
      BY <1>7, <1>8, <1>9, <3>1, <3>2, Zenon
  <2>3. CASE C # f
    <3>1. C \in Frames /\ C < f
      <4>1. PICK m \in Int : m = MaxFrames
        BY VideoConstants
      <4>2. C < f /\ C \in 0..(m - 1)
        BY <1>1, <2>3, <4>1
      <4> QED
        BY <4>1, <4>2 DEF Frames
    <3>2. OrElse(nx, Id(f)) # Id(f)
      BY <2>1, <2>3, <3>1, FrameIds
    <3>3. ev \o <<Lost(C, f)>> = Append(ev, Lost(C, f)) /\ Append(ev, Lost(C, f)) \in Seq(EventType)
          /\ <<Lost(C, f)>> \in Seq(EventType)
      BY <1>6, <1>7
    <3>4. Told(f, Append(ev, Lost(C, f)), arr)
      BY <1>1, <1>4, <1>6, <1>7, <3>1, ToldMore
    <3> QED
      BY <1>8, <2>1, <3>2, <3>3, <3>4, Zenon
  <2> QED
    BY <2>2, <2>3
<1> QED
  BY <1>10, <1>11

JoinsAlike(p, q, r, x) == p \o ((q \o r) \o <<x>>) = Append((p \o q) \o r, x)

LEMMA EventsConcat ==
  ASSUME NEW p \in Seq(EventType), NEW q \in Seq(EventType), NEW r \in Seq(EventType), NEW x \in EventType
  PROVE  JoinsAlike(p, q, r, x)
<1>1. PICK u : u = q \o r
  OBVIOUS
<1>2. PICK d : d = <<x>>
  OBVIOUS
<1>3. u \in Seq(EventType) /\ d \in Seq(EventType) /\ p \o q \in Seq(EventType)
  BY <1>1, <1>2
<1>4. p \o (u \o d) = (p \o u) \o d
  BY <1>3
<1>5. p \o u = (p \o q) \o r
  BY <1>1, ConcatAssociative
<1>6. PICK v : v = (p \o q) \o r
  OBVIOUS
<1>7. v \in Seq(EventType)
  BY <1>3, <1>6
<1>8. v \o d = Append(v, x)
  BY <1>2, <1>7
<1> QED
  BY <1>1, <1>2, <1>4, <1>5, <1>6, <1>8 DEF JoinsAlike

\* Frame f is whole, the first of those in flight.
CompletingAt(C, f, nx, sl, out, arr) ==
  /\ f < C + MAX_IN_FLIGHT /\ out \in Seq(EventType) /\ events \in Seq(EventType)
  /\ Started(nx, C, events \o out) /\ Told(C, events \o out, arr)
  /\ InWindow(C, sl) /\ Assembling(C, sl, arr)
  /\ sl[Slot(Id(f))].id = Id(f) /\ Whole(sl[Slot(Id(f))])
  /\ \A g \in Frames : g # f /\ g >= C /\ sl[Slot(Id(g))].id = Id(g) => ~Whole(sl[Slot(Id(g))])
CompletedAt(C, f, nx, sl, out, arr) ==
  \E sw, more : /\ Complete(After(C, nx, sl, out), Id(f)) = After(f + 1, Id(f + 1), sw, more)
                /\ FlightAt(f + 1, Id(f + 1), sw, events \o more, arr)

LEMMA CompletesAt ==
  ASSUME NEW f \in Frames, NEW C \in 0..f, NEW nx, NEW sl, NEW out, NEW arr,
         CompletingAt(C, f, nx, sl, out, arr)
  PROVE  CompletedAt(C, f, nx, sl, out, arr)
<1>0. /\ f < C + MAX_IN_FLIGHT /\ out \in Seq(EventType) /\ events \in Seq(EventType)
      /\ Started(nx, C, events \o out) /\ Told(C, events \o out, arr)
      /\ InWindow(C, sl) /\ Assembling(C, sl, arr)
      /\ sl[Slot(Id(f))].id = Id(f) /\ Whole(sl[Slot(Id(f))])
      /\ \A g \in Frames : g # f /\ g >= C /\ sl[Slot(Id(g))].id = Id(g) => ~Whole(sl[Slot(Id(g))])
  BY Zenon DEF CompletingAt
<1> USE <1>0
<1>1. /\ f \in Int /\ C \in Int /\ f \in 0..(MaxFrames - 1) /\ C <= f /\ f + 1 \in 0..MaxFrames /\ f + 1 \in Int
      /\ MAX_IN_FLIGHT \in Nat \ {0} /\ MaxFrames \in Nat /\ f - 1 \in Int
  BY VideoConstants
<1>2. PICK lost : lost = IF OrElse(nx, Id(f)) = Id(f) THEN <<>> ELSE <<Lost(C, f)>>
  OBVIOUS
<1>3. /\ lost \in Seq(EventType) /\ (lost = <<>> \/ OrElse(nx, Id(f)) = Id(C))
      /\ Told(f + 1, Append((events \o out) \o lost, FrameEvent(f)), arr)
      /\ Started(Id(f + 1), f + 1, Append((events \o out) \o lost, FrameEvent(f)))
  BY <1>2, CompletesTold
<1>4. Minus(Id(f), -1) = Id(f + 1) /\ Minus(Id(f), 1) = Id(f - 1) /\ Minus(Id(f), Id(C)) = f - C
  <2>1. PICK k \in Int : k = -1
    OBVIOUS
  <2>2. Minus(Id(f), k) = Id(f - k) /\ f - k = f + 1
    BY <1>1, <2>1, IdMinus
  <2>3. Minus(Id(f), 1) = Id(f - 1)
    BY <1>1, IdMinus
  <2>4. f - C \in -(MaxFrames + MAX_IN_FLIGHT)..(MaxFrames + MAX_IN_FLIGHT) /\ f >= C
    BY <1>1
  <2>5. Minus(Id(f), Id(C)) = f - C
    BY <1>1, <2>4, OlderOf
  <2> QED
    BY <2>1, <2>2, <2>3, <2>5
<1>5. OrElse(Id(C), Id(f)) = Id(C)
  BY <1>1, IdType, Zenon DEF OrElse
<1>6. PICK below : below = {(Id(C) + i) % IDS : i \in 0..MAX_IN_FLIGHT - 1}
                           \intersect {(Id(C) + i) % IDS : i \in 0..((f - C) - 1)}
  OBVIOUS
<1>7. PICK sw : sw = [s \in DOMAIN sl |-> IF sl[s].id \in below \union {Id(f)} THEN Free ELSE sl[s]]
  OBVIOUS
<1>8. PICK more : more = (out \o lost) \o <<FrameEvent(f)>>
  OBVIOUS
<1>9. Complete(After(C, nx, sl, out), Id(f)) = After(f + 1, Id(f + 1), sw, more)
  <2>1. /\ After(C, nx, sl, out).base = Id(C) /\ After(C, nx, sl, out).next = nx
        /\ After(C, nx, sl, out).slots = sl /\ After(C, nx, sl, out).out = out
    BY DEF After
  <2>2. lost = IF OrElse(nx, Id(f)) = Id(f) THEN <<>>
               ELSE <<[kind |-> "lost", first |-> OrElse(nx, Id(f)), last |-> Minus(Id(f), 1)]>>
    <3>1. CASE OrElse(nx, Id(f)) = Id(f)
      BY <1>2, <3>1
    <3>2. CASE OrElse(nx, Id(f)) # Id(f)
      <4>1. lost = <<Lost(C, f)>> /\ lost # <<>>
        BY <1>2, <3>2
      <4>2. OrElse(nx, Id(f)) = Id(C)
        BY <1>3, <4>1
      <4> QED
        BY <1>4, <3>2, <4>1, <4>2, Zenon DEF Lost
    <3> QED
      BY <3>1, <3>2
  <2>3. FrameEvent(f) = [kind |-> "frame", first |-> Id(f), last |-> Id(f)]
    BY DEF FrameEvent
  <2>4. Complete(After(C, nx, sl, out), Id(f)) =
          [base |-> Id(f + 1), next |-> Id(f + 1), slots |-> sw,
           out |-> out \o lost \o <<FrameEvent(f)>>]
    BY <1>4, <1>5, <1>6, <1>7, <2>1, <2>2, <2>3, ZenonT(60) DEF Complete
  <2> QED
    BY <1>8, <2>4 DEF After
<1>10. events \o more = Append((events \o out) \o lost, FrameEvent(f))
  <2>1. FrameEvent(f) \in EventType
    BY <1>1, IdType DEF FrameEvent, EventType
  <2>2. JoinsAlike(events, out, lost, FrameEvent(f))
    BY <1>3, <2>1, EventsConcat, Zenon
  <2> QED
    BY <1>8, <2>2, Zenon DEF JoinsAlike
<1>11. DOMAIN sl = 0..(MAX_IN_FLIGHT - 1)
  BY DEF InWindow
<1>12. Dropped(sl, sw, C, f + 1)
  <2>1. DOMAIN sw = 0..(MAX_IN_FLIGHT - 1) /\ sw = [s \in 0..(MAX_IN_FLIGHT - 1) |-> sw[s]]
        /\ \A s \in 0..(MAX_IN_FLIGHT - 1) : sw[s] \in {sl[s], Free}
    BY <1>7, <1>11
  <2>2. ASSUME NEW g \in Frames, g \in C..(C + MAX_IN_FLIGHT - 1)
        PROVE  Id(g) \in below \union {Id(f)} <=> g < f + 1
    <3>1. g \in Int /\ g \in 0..(MaxFrames - 1)
      BY VideoConstants
    <3>2. CASE g < f
      <4>1. PICK i \in Int : i = g - C
        BY <1>1, <3>1
      <4>2. i \in 0..MAX_IN_FLIGHT - 1 /\ i \in 0..((f - C) - 1) /\ C + i = g
        BY <1>1, <2>2, <3>1, <3>2, <4>1
      <4>3. (Id(C) + i) % IDS = Id(g)
        BY <1>1, <4>2, IdPlus
      <4>4. Id(g) \in below
        BY <1>6, <4>2, <4>3
      <4> QED
        BY <1>1, <3>1, <3>2, <4>4
    <3>3. CASE g = f
      BY <1>1, <3>3
    <3>4. CASE g > f
      <4>1. Id(g) # Id(f)
        BY <1>1, <3>1, <3>4, FrameIds
      <4>2. ASSUME NEW i \in 0..((f - C) - 1), Id(g) = (Id(C) + i) % IDS PROVE FALSE
        <5>1. PICK h \in Int : h = C + i /\ h < f /\ h >= C
          BY <1>1
        <5>2. Id(g) = Id(h)
          BY <1>1, <4>2, <5>1, IdPlus
        <5>3. h \in Frames
          <6>1. h \in 0..(MaxFrames - 1)
            BY <1>1, <5>1
          <6> QED
            BY <6>1 DEF Frames
        <5>4. g = h
          BY <5>2, <5>3, FrameIds
        <5> QED
          BY <1>1, <3>4, <5>1, <5>4
      <4>3. Id(g) \notin below
        BY <1>6, <4>2
      <4> QED
        BY <1>1, <3>1, <3>4, <4>1, <4>3
    <3> QED
      BY <1>1, <3>1, <3>2, <3>3, <3>4
  <2>3. ASSUME NEW s \in 0..(MAX_IN_FLIGHT - 1), NEW g \in Frames, g \in C..(C + MAX_IN_FLIGHT - 1),
               sl[s].id = Id(g)
        PROVE  sw[s] = IF g < f + 1 THEN Free ELSE sl[s]
    BY <1>7, <1>11, <2>2, <2>3, Zenon
  <2> QED
    BY <2>1, <2>3, Zenon DEF Dropped
<1>13. Unfinished(f + 1, sl)
  <2>1. \A g \in Frames : g >= f + 1 => g # f /\ g >= C
    BY <1>1, VideoConstants
  <2> QED
    BY <2>1, Zenon DEF Unfinished
<1>14. InWindow(f + 1, sw) /\ Assembling(f + 1, sw, arr) /\ Unfinished(f + 1, sw)
  <2>1. C <= f + 1
    BY <1>1
  <2> QED
    BY <1>1, <1>12, <1>13, <2>1, DropOlder, Zenon
<1> QED
  BY <1>1, <1>3, <1>9, <1>10, <1>14, Zenon DEF FlightAt, CompletedAt

LEMMA VideoStep == VideoIInv /\ [ReassemblerNext]_reassemblerVars => VideoIInv'
<1> SUFFICES ASSUME VideoIInv, [ReassemblerNext]_reassemblerVars PROVE VideoIInv'
  OBVIOUS
<1>1. ASSUME NEW f \in Frames, NEW b \in Blocks, NEW s \in Shards, PushShard(f, b, s) PROVE VideoIInv'
  <2>1. ~Older(Id(f))
    BY <1>1 DEF PushShard
  <2>2. PICK C \in 0..f : \E nx, sl, out :
           /\ Begin(Before, Id(f)) = After(C, nx, sl, out)
           /\ f < C + MAX_IN_FLIGHT /\ out \in Seq(EventType) /\ FlightAt(C, nx, sl, events \o out, arrived)
           /\ sl[Slot(Id(f))].id = Id(f)
    BY <2>1, BeginsAt, Zenon
  <2>3. PICK nx, sl, out :
           /\ Begin(Before, Id(f)) = After(C, nx, sl, out)
           /\ f < C + MAX_IN_FLIGHT /\ out \in Seq(EventType) /\ FlightAt(C, nx, sl, events \o out, arrived)
           /\ sl[Slot(Id(f))].id = Id(f)
    BY <2>2, Zenon
  <2>4. /\ f \in Int /\ C \in Int /\ C \in 0..MaxFrames /\ f \in C..(C + MAX_IN_FLIGHT - 1) /\ f >= C
        /\ f + 1 \in 0..MaxFrames /\ f + 1 \in Int
    BY <2>3, VideoConstants
  <2>5. /\ Started(nx, C, events \o out) /\ InWindow(C, sl) /\ Assembling(C, sl, arrived)
        /\ Unfinished(C, sl) /\ Told(C, events \o out, arrived)
    BY <2>3, Zenon DEF FlightAt
  <2>6. PICK sw : /\ Store(After(C, nx, sl, out), Id(f), b, s) = After(C, nx, sw, out)
                  /\ InWindow(C, sw) /\ Assembling(C, sw, Came(f, b, s)) /\ sw[Slot(Id(f))].id = Id(f)
                  /\ \A g \in Frames : g # f /\ g >= C /\ sw[Slot(Id(g))].id = Id(g) => ~Whole(sw[Slot(Id(g))])
    <3>1. StoringAt(C, f, sl)
      BY <2>3, <2>4, <2>5, Zenon DEF StoringAt
    <3>2. StoredAt(C, f, b, s, nx, sl, out)
      BY <3>1, StoresAt, Zenon
    <3> QED
      BY <3>2, Zenon DEF StoredAt
  <2>7. PICK st : st = After(C, nx, sw, out)
    OBVIOUS
  <2>8. st = Store(Begin([base |-> base, next |-> next_frame, slots |-> slots, out |-> <<>>], Id(f)), Id(f), b, s)
    BY <2>3, <2>6, <2>7, Zenon DEF Before
  <2>9. st.base = Id(C) /\ st.next = nx /\ st.slots = sw /\ st.out = out
    BY <2>7 DEF After
  <2>10. Holds(st, Id(f)) /\ (Holds(st, Id(f)) /\ Whole(st.slots[Slot(Id(f))]) <=> Whole(sw[Slot(Id(f))]))
    BY <2>6, <2>9, Zenon DEF Holds
  <2>11. PICK new : new = IF Whole(sw[Slot(Id(f))]) THEN Complete(st, Id(f)) ELSE st
    OBVIOUS
  <2>12. /\ base' = new.base /\ next_frame' = new.next /\ slots' = new.slots
         /\ events' = events \o new.out /\ arrived' = Came(f, b, s)
    BY <1>1, <2>8, <2>10, <2>11, Zenon DEF PushShard, Came
  <2>13. PICK ar, aw : ar = arrived /\ aw = Came(f, b, s)
    OBVIOUS
  <2>14. ar \in [Frames -> SUBSET (Blocks \X Shards)] /\ aw = [ar EXCEPT ![f] = @ \union {<<b, s>>}]
    BY <2>13, Zenon DEF VideoIInv, Came
  <2>15. aw \in [Frames -> SUBSET (Blocks \X Shards)]
    BY <2>14
  <2>16. \A g \in 0..(C - 1) : aw[g] = ar[g]
    <3>1. \A g \in 0..(C - 1) : g \in Frames /\ g # f
      BY <2>4, VideoConstants
    <3> QED
      BY <2>14, <3>1
  <2>17. events \in Seq(EventType) /\ Len(events \o out) \in Nat
    <3>1. PICK B \in 0..MaxFrames : VideoAt(B)
      BY DEF VideoIInv
    <3>2. <<>> \in Seq(EventType)
      OBVIOUS
    <3>3. events \in Seq(EventType)
      BY <3>1, <3>2, Zenon DEF VideoAt, Started
    <3> QED
      BY <2>3, <3>3
  <2>18. Told(C, events \o out, aw)
    BY <2>4, <2>5, <2>13, <2>16, <2>17, ToldSame, Zenon
  <2>19. ASSUME NEW D \in 0..MaxFrames, NEW ny, NEW sv, NEW more,
                new = After(D, ny, sv, more), FlightAt(D, ny, sv, events \o more, aw)
         PROVE  VideoIInv'
    <3>1. base' = Id(D) /\ next_frame' = ny /\ slots' = sv /\ events' = events \o more /\ arrived' = aw
      <4>1. new.base = Id(D) /\ new.next = ny /\ new.slots = sv /\ new.out = more
        BY <2>19 DEF After
      <4> QED
        BY <2>12, <2>13, <4>1, Zenon
    <3>2. VideoAt(D)'
      BY <2>19, <3>1, Zenon DEF FlightAt, VideoAt
    <3>3. arrived' \in [Frames -> SUBSET (Blocks \X Shards)]
      BY <2>15, <3>1
    <3> QED
      BY <3>2, <3>3, Zenon DEF VideoIInv
  <2>20. CASE Whole(sw[Slot(Id(f))])
    <3>1. PICK sv, more : /\ Complete(After(C, nx, sw, out), Id(f)) = After(f + 1, Id(f + 1), sv, more)
                          /\ FlightAt(f + 1, Id(f + 1), sv, events \o more, aw)
      <4>1. CompletingAt(C, f, nx, sw, out, aw)
        BY <2>3, <2>5, <2>6, <2>13, <2>17, <2>18, <2>20, Zenon DEF CompletingAt
      <4>2. CompletedAt(C, f, nx, sw, out, aw)
        BY <4>1, CompletesAt, Zenon
      <4> QED
        BY <4>2, Zenon DEF CompletedAt
    <3>2. new = After(f + 1, Id(f + 1), sv, more)
      BY <2>7, <2>11, <2>20, <3>1, Zenon
    <3> QED
      BY <2>4, <2>19, <3>1, <3>2, Zenon
  <2>21. CASE ~Whole(sw[Slot(Id(f))])
    <3>1. Unfinished(C, sw)
      BY <2>6, <2>21, Zenon DEF Unfinished
    <3>2. FlightAt(C, nx, sw, events \o out, aw)
      BY <2>4, <2>5, <2>6, <2>13, <2>18, <3>1, Zenon DEF FlightAt
    <3>3. new = After(C, nx, sw, out)
      BY <2>7, <2>11, <2>21, Zenon
    <3> QED
      BY <2>4, <2>19, <3>2, <3>3, Zenon
  <2> QED
    BY <2>20, <2>21
<1>2. ASSUME UNCHANGED reassemblerVars PROVE VideoIInv'
  BY <1>2, Zenon DEF reassemblerVars, VideoIInv, VideoAt
<1> QED
  BY <1>1, <1>2 DEF ReassemblerNext

THEOREM VideoInductive == ReassemblerSpec => []VideoIInv
BY VideoInit, VideoStep, PTL DEF ReassemblerSpec

\* From the first frame reported on, push reports every frame once, in order
\* and without a hole, for any size of the ring and of the id space.
THEOREM FramesInOrderOnce == ReassemblerSpec => []InOrderOnce
<1>1. VideoIInv => InOrderOnce
  BY VideoFrom
<1> QED
  BY <1>1, VideoInductive, PTL

\* A frame is delivered exactly when enough of its shards came in time, for
\* any blocks and shards and whatever the path loses, repeats and reorders.
THEOREM FramesDeliveredExactly == ReassemblerSpec => []DeliveredExactly
<1>1. VideoIInv => DeliveredExactly
  BY VideoFrom
<1> QED
  BY <1>1, VideoInductive, PTL
=============================================================================
