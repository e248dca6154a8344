-------------------------- MODULE CollectionProofs --------------------------
(***************************************************************************)
(* Theorems about Startup and Collection: what a client reads from its     *)
(* files, and the loop that takes a collection apart, for every length of  *)
(* a text, a file and a payload.                                           *)
(*                                                                         *)
(* The operators of the two modules are recursive functions on sequences.  *)
(* LeastNumber takes a set of numbers, where an induction theorem would    *)
(* take a formula; UpTo and Recursion follow from it: a property of every  *)
(* number up to n, and a function that is given by its values one after    *)
(* the other.  With them, Ends, Number and decode_base64 have the values   *)
(* their definitions ask for (EndsAre, NumberType, DecodeKeeps).           *)
(*                                                                         *)
(* Three lemmas carry the invariants.  ReadBack: from any beginning of a   *)
(* me.info a process reads nobody, or exactly whom it was written for.     *)
(* PortsAre: find, substr, stoi and the two tests accept exactly the ports *)
(* a server.info configures.  LoopIs: the loop stands where a message      *)
(* ends, and a payload that is not at its end has the whole next message.  *)
(***************************************************************************)
EXTENDS Collection, SequenceTheorems, WellFoundedInduction, TLAPS

-----------------------------------------------------------------------------
(* Induction, by the least number that has not a property.                  *)

LEMMA LeastNumber ==
  ASSUME NEW T \in SUBSET Nat, T # {}
  PROVE  \E n \in T : \A m \in T : n <= m
<1>1. \E n \in T : \A m \in T : ~ (<<m, n>> \in OpToRel(<, Nat))
  BY NatLessThanWellFounded, WFMin
<1>2. \E n \in T : \A m \in T : ~ (<<m, n>> \in {ss \in Nat \X Nat : ss[1] < ss[2]})
  BY <1>1 DEF OpToRel
<1>3. PICK n \in T : \A m \in T : ~ (<<m, n>> \in {ss \in Nat \X Nat : ss[1] < ss[2]})
  BY <1>2
<1>4. ASSUME NEW m \in T PROVE n <= m
  <2>1. <<m, n>> \in Nat \X Nat
    OBVIOUS
  <2>2. ~ (<<m, n>> \in {ss \in Nat \X Nat : ss[1] < ss[2]})
    BY <1>3
  <2>3. ~ (<<m, n>>[1] < <<m, n>>[2])
    BY <2>1, <2>2, Zenon
  <2> QED
    BY <2>3
<1> QED
  BY <1>4

\* A set that has 0, and with every number below n the next one, has them all.
LEMMA UpTo ==
  ASSUME NEW n \in Nat, NEW T, 0 \in T, \A i \in 1..n : i - 1 \in T => i \in T
  PROVE  0..n \subseteq T
<1> DEFINE Out == {i \in 0..n : i \notin T}
<1> SUFFICES ASSUME Out # {} PROVE FALSE
  OBVIOUS
<1>0. Out \in SUBSET Nat
  OBVIOUS
<1>1. PICK m \in Out : \A i \in Out : m <= i
  <2> HIDE DEF Out
  <2> QED
    BY <1>0, LeastNumber
<1>2. m # 0 /\ m - 1 \in 0..n /\ m - 1 \in T
  BY <1>1
<1> QED
  BY <1>1, <1>2

\* f has the first value base, and each of its values leads to the next.
Unrolls(f, n, base, step) == f[0] = base /\ \A i \in 1..n : f[i] = step[i][f[i - 1]]

\* Such a function exists.
LEMMA Recursion ==
  ASSUME NEW n \in Nat, NEW S, NEW base \in S, NEW step \in [1..n -> [S -> S]]
  PROVE  \E f \in [0..n -> S] : Unrolls(f, n, base, step)
<1> DEFINE T == {m \in 0..n : \E f \in [0..m -> S] : Unrolls(f, m, base, step)}
<1>1. 0 \in T
  <2> DEFINE g == [i \in 0..0 |-> base]
  <2>1. g \in [0..0 -> S] /\ Unrolls(g, 0, base, step)
    BY DEF Unrolls
  <2> HIDE DEF g
  <2> QED
    BY <2>1
<1>2. ASSUME NEW m \in 1..n, m - 1 \in T PROVE m \in T
  <2>1. PICK f \in [0..(m - 1) -> S] : Unrolls(f, m - 1, base, step)
    BY <1>2
  <2> DEFINE g == [i \in 0..m |-> IF i = m THEN step[m][f[m - 1]] ELSE f[i]]
  <2>2. step[m][f[m - 1]] \in S
    OBVIOUS
  <2>3. g \in [0..m -> S] /\ g[0] = base
    BY <2>1, <2>2 DEF Unrolls
  <2>4. ASSUME NEW i \in 1..m PROVE g[i] = step[i][g[i - 1]]
    <3>1. i - 1 \in 0..(m - 1) /\ i - 1 # m /\ g[i - 1] = f[i - 1]
      OBVIOUS
    <3>2. CASE i = m
      BY <3>1, <3>2
    <3>3. CASE i # m
      <4>1. i \in 1..(m - 1) /\ g[i] = f[i]
        BY <3>3
      <4> QED
        BY <2>1, <3>1, <4>1 DEF Unrolls
    <3> QED
      BY <3>2, <3>3
  <2>5. Unrolls(g, m, base, step)
    BY <2>3, <2>4 DEF Unrolls
  <2> HIDE DEF g
  <2> QED
    BY <2>3, <2>5
<1>3. n \in T
  <2> HIDE DEF T
  <2>1. 0..n \subseteq T
    BY <1>1, <1>2, UpTo
  <2> QED
    BY <2>1
<1> QED
  BY <1>3

-----------------------------------------------------------------------------
(* The operators the modules are built from.                                *)

LEMMA FirstIs ==
  ASSUME NEW S, NEW t \in Seq(S), NEW cs
  PROVE  /\ First(t, cs) \in 1..(Len(t) + 1)
         /\ First(t, cs) <= Len(t) => t[First(t, cs)] \in cs
         /\ \A j \in 1..(First(t, cs) - 1) : t[j] \notin cs
<1> DEFINE I == {i \in DOMAIN t : t[i] \in cs} \cup {Len(t) + 1}
<1>1. \E n \in I : \A m \in I : n <= m
  <2>1. I \in SUBSET Nat /\ I # {}
    OBVIOUS
  <2> QED
    BY <2>1, LeastNumber
<1>2. Min(I) \in I /\ \A m \in I : Min(I) <= m
  BY <1>1 DEF Min
<1>3. First(t, cs) \in I /\ \A m \in I : First(t, cs) <= m
  BY <1>2 DEF First
<1> QED
  BY <1>3

\* What a search finds is determined by what it finds.
LEMMA FirstAt ==
  ASSUME NEW S, NEW t \in Seq(S), NEW cs, NEW n \in 1..(Len(t) + 1),
         n <= Len(t) => t[n] \in cs,
         \A j \in 1..(n - 1) : t[j] \notin cs
  PROVE  First(t, cs) = n
BY FirstIs

LEMMA EndsAre ==
  ASSUME NEW s \in Seq(Message)
  PROVE  /\ Ends(s) \in [0..Len(s) -> Nat]
         /\ Ends(s)[0] = 0
         /\ \A i \in 1..Len(s) : Ends(s)[i] = Ends(s)[i - 1] + RecievedMessageHeader + s[i].size
<1> DEFINE step == [i \in 1..Len(s) |-> [n \in Nat |-> n + RecievedMessageHeader + s[i].size]]
           D(f) == [i \in 0..Len(s) |-> IF i = 0 THEN 0 ELSE f[i - 1] + RecievedMessageHeader + s[i].size]
<1>1. \A i \in 1..Len(s) : s[i].size \in Nat
  <2>1. \A i \in 1..Len(s) : s[i] \in Message
    OBVIOUS
  <2> QED
    BY <2>1, CollectionAssumption DEF Message
<1>2. step \in [1..Len(s) -> [Nat -> Nat]]
  BY <1>1, CollectionAssumption
<1>3. PICK f \in [0..Len(s) -> Nat] : Unrolls(f, Len(s), 0, step)
  <2>1. Len(s) \in Nat /\ 0 \in Nat
    OBVIOUS
  <2> HIDE DEF step
  <2> QED
    BY <1>2, <2>1, Recursion, Zenon
<1>4. f = D(f)
  <2>1. ASSUME NEW i \in 1..Len(s) PROVE f[i] = D(f)[i]
    <3>1. i - 1 \in 0..Len(s) /\ f[i - 1] \in Nat
      OBVIOUS
    <3>2. f[i] = step[i][f[i - 1]]
      BY <1>3 DEF Unrolls
    <3>3. step[i][f[i - 1]] = f[i - 1] + RecievedMessageHeader + s[i].size
      BY <3>1
    <3>4. D(f)[i] = f[i - 1] + RecievedMessageHeader + s[i].size
      OBVIOUS
    <3> HIDE DEF step, D
    <3> QED
      BY <3>2, <3>3, <3>4
  <2>2. f[0] = D(f)[0]
    BY <1>3 DEF Unrolls
  <2>3. D(f) \in [0..Len(s) -> Nat]
    <3>1. \A i \in 0..Len(s) : D(f)[i] \in Nat
      <4> HIDE DEF D
      <4> QED
        BY <2>1, <2>2
    <3>2. D(f) = [i \in 0..Len(s) |-> D(f)[i]]
      OBVIOUS
    <3> HIDE DEF D
    <3> QED
      BY <3>1, <3>2
  <2> HIDE DEF D, step
  <2> QED
    BY <2>1, <2>2, <2>3
<1>5. Ends(s) = CHOOSE g : g = D(g)
  BY DEF Ends
<1>6. Ends(s) = D(Ends(s))
  <2> HIDE DEF D
  <2> QED
    BY <1>4, <1>5
<1>7. Ends(s)[0] = 0 /\ \A i \in 1..Len(s) : Ends(s)[i] = Ends(s)[i - 1] + RecievedMessageHeader + s[i].size
  BY <1>6
<1>8. 0..Len(s) \subseteq {i \in 0..Len(s) : Ends(s)[i] \in Nat}
  <2> DEFINE T == {i \in 0..Len(s) : Ends(s)[i] \in Nat}
  <2>1. 0 \in T
    BY <1>7
  <2>2. ASSUME NEW i \in 1..Len(s), i - 1 \in T PROVE i \in T
    <3>1. Ends(s)[i] = Ends(s)[i - 1] + RecievedMessageHeader + s[i].size
      BY <1>7
    <3>2. Ends(s)[i - 1] \in Nat
      BY <2>2
    <3> QED
      BY <1>1, <3>1, <3>2, CollectionAssumption
  <2>3. Len(s) \in Nat
    OBVIOUS
  <2> HIDE DEF T
  <2>4. 0..Len(s) \subseteq T
    BY <2>1, <2>2, <2>3, UpTo
  <2> QED
    BY <2>4 DEF T
<1> QED
  BY <1>6, <1>7, <1>8

-----------------------------------------------------------------------------
(* me.info: what a process reads back from what one has written.            *)

NameCell == [kind : {"name", "hex", "base64"}, of : 0..MaxKeys]

AnyCell == NameCell \cup {Newline}

LEMMA CopiesAre ==
  ASSUME NEW n \in Nat, NEW S, NEW cell \in S
  PROVE  /\ Copies(n, cell) \in Seq(S) /\ Len(Copies(n, cell)) = n
         /\ \A i \in 1..n : Copies(n, cell)[i] = cell
BY DEF Copies

\* What the decoder has kept after each cell.
Keeps(t, u) ==
  /\ u \in [0..Len(t) -> Seq(AnyCell)]
  /\ u[0] = <<>>
  /\ \A i \in 1..Len(t) : u[i] = IF t[i] = Newline THEN u[i - 1] ELSE Append(u[i - 1], t[i])

LEMMA DecodeKeeps ==
  ASSUME NEW t \in Seq(AnyCell)
  PROVE  \E u : Keeps(t, u) /\ decode_base64(t) = u[Len(t)]
<1> DEFINE step == [i \in 1..Len(t) |-> [q \in Seq(AnyCell) |->
                      IF t[i] = Newline THEN q ELSE Append(q, t[i])]]
           D(f) == [i \in 0..Len(t) |->
                      IF i = 0 THEN <<>>
                      ELSE IF t[i] = Newline THEN f[i - 1] ELSE Append(f[i - 1], t[i])]
<1>1. step \in [1..Len(t) -> [Seq(AnyCell) -> Seq(AnyCell)]]
  OBVIOUS
<1>2. PICK f \in [0..Len(t) -> Seq(AnyCell)] : Unrolls(f, Len(t), <<>>, step)
  <2>1. Len(t) \in Nat /\ <<>> \in Seq(AnyCell)
    OBVIOUS
  <2> HIDE DEF step
  <2> QED
    BY <1>1, <2>1, Recursion, Zenon
<1>3. ASSUME NEW i \in 1..Len(t) PROVE f[i] = IF t[i] = Newline THEN f[i - 1] ELSE Append(f[i - 1], t[i])
  <2>1. i - 1 \in 0..Len(t) /\ f[i - 1] \in Seq(AnyCell)
    OBVIOUS
  <2>2. f[i] = step[i][f[i - 1]]
    BY <1>2 DEF Unrolls
  <2>3. step[i][f[i - 1]] = IF t[i] = Newline THEN f[i - 1] ELSE Append(f[i - 1], t[i])
    BY <2>1
  <2> HIDE DEF step
  <2> QED
    BY <2>2, <2>3
<1>4. f[0] = <<>>
  BY <1>2 DEF Unrolls
<1>5. f = D(f)
  <2>0. D(f)[0] = <<>> /\ \A i \in 1..Len(t) :
          D(f)[i] = IF t[i] = Newline THEN f[i - 1] ELSE Append(f[i - 1], t[i])
    OBVIOUS
  <2>1. \A i \in 0..Len(t) : f[i] = D(f)[i]
    <3> HIDE DEF D, step
    <3> QED
      BY <1>3, <1>4, <2>0
  <2>2. D(f) \in [0..Len(t) -> Seq(AnyCell)]
    <3>1. \A i \in 0..Len(t) : D(f)[i] \in Seq(AnyCell)
      <4> HIDE DEF D
      <4> QED
        BY <2>1
    <3>2. D(f) = [i \in 0..Len(t) |-> D(f)[i]]
      OBVIOUS
    <3> HIDE DEF D
    <3> QED
      BY <3>1, <3>2
  <2> HIDE DEF D, step
  <2> QED
    BY <2>1, <2>2
<1> DEFINE u == CHOOSE g : g = D(g)
<1>6. decode_base64(t) = u[Len(t)]
  BY DEF decode_base64
<1>7. u = D(u)
  <2> HIDE DEF D
  <2> QED
    BY <1>5
<1> HIDE DEF u
<1>8. u[0] = <<>> /\ \A i \in 1..Len(t) :
        u[i] = IF t[i] = Newline THEN u[i - 1] ELSE Append(u[i - 1], t[i])
  <2>1. D(u)[0] = <<>> /\ \A i \in 1..Len(t) :
          D(u)[i] = IF t[i] = Newline THEN u[i - 1] ELSE Append(u[i - 1], t[i])
    OBVIOUS
  <2> HIDE DEF D
  <2> QED
    BY <1>7, <2>1
<1>9. 0..Len(t) \subseteq {i \in 0..Len(t) : u[i] \in Seq(AnyCell)}
  <2> DEFINE T == {i \in 0..Len(t) : u[i] \in Seq(AnyCell)}
  <2>1. 0 \in T
    <3>1. <<>> \in Seq(AnyCell) /\ 0 \in 0..Len(t)
      OBVIOUS
    <3>2. u[0] = <<>>
      BY <1>8
    <3> QED
      BY <3>1, <3>2
  <2>2. ASSUME NEW i \in 1..Len(t), i - 1 \in T PROVE i \in T
    <3>1. t[i] \in AnyCell /\ u[i - 1] \in Seq(AnyCell)
      BY <2>2
    <3>2. u[i] = IF t[i] = Newline THEN u[i - 1] ELSE Append(u[i - 1], t[i])
      BY <1>8
    <3>3. u[i] \in Seq(AnyCell)
      BY <3>1, <3>2
    <3>4. i \in 0..Len(t)
      OBVIOUS
    <3> QED
      BY <3>3, <3>4
  <2>3. Len(t) \in Nat
    OBVIOUS
  <2> HIDE DEF T
  <2>4. 0..Len(t) \subseteq T
    BY <2>1, <2>2, <2>3, UpTo
  <2> QED
    BY <2>4 DEF T
<1>10. u \in [0..Len(t) -> Seq(AnyCell)]
  <2>1. u = [i \in 0..Len(t) |-> u[i]]
    BY <1>7
  <2> QED
    BY <1>9, <2>1
<1>11. Keeps(t, u)
  BY <1>8, <1>10 DEF Keeps
<1> QED
  BY <1>6, <1>11

\* A key of which a part is missing does not load, and one that is whole does.
LEMMA LoadShort ==
  ASSUME NEW t \in Seq(AnyCell), Len(t) < KeyLength
  PROVE  Load(decode_base64(t)) = {}
<1>1. PICK u : Keeps(t, u) /\ decode_base64(t) = u[Len(t)]
  BY DecodeKeeps
<1> DEFINE T == {i \in 0..Len(t) : Len(u[i]) <= i}
<1>2. 0 \in T
  BY <1>1 DEF Keeps
<1>3. ASSUME NEW i \in 1..Len(t), i - 1 \in T PROVE i \in T
  <2>1. t[i] \in AnyCell /\ u[i - 1] \in Seq(AnyCell) /\ Len(u[i - 1]) <= i - 1
    BY <1>1, <1>3 DEF Keeps
  <2>2. u[i] = u[i - 1] \/ u[i] = Append(u[i - 1], t[i])
    BY <1>1 DEF Keeps
  <2>3. Len(u[i]) <= i
    BY <2>1, <2>2
  <2> QED
    BY <2>3
<1>4. Len(t) \in Nat
  OBVIOUS
<1>5. Len(t) \in T
  <2> HIDE DEF T
  <2>1. 0..Len(t) \subseteq T
    BY <1>2, <1>3, <1>4, UpTo
  <2> QED
    BY <1>4, <2>1
<1> QED
  BY <1>1, <1>4, <1>5, StartupAssumption DEF Load

LEMMA LoadWhole ==
  ASSUME NEW t \in Seq(AnyCell), NEW key \in 1..MaxKeys, Len(t) \in {KeyLength, KeyLength + 1},
         \A i \in 1..KeyLength : t[i] = Cell("base64", key),
         Len(t) = KeyLength + 1 => t[KeyLength + 1] = Newline
  PROVE  Load(decode_base64(t)) = {key}
<1>0. KeyLength \in Nat \ {0} /\ MaxKeys \in Nat
  BY StartupAssumption
<1>1. PICK u : Keeps(t, u) /\ decode_base64(t) = u[Len(t)]
  BY DecodeKeeps
<1> DEFINE b64 == Cell("base64", key)
           T == {i \in 0..KeyLength : Len(u[i]) = i /\ \A j \in 1..i : u[i][j] = b64}
<1>2. b64 \in AnyCell /\ b64 # Newline
  BY <1>0 DEF AnyCell, NameCell, Cell, Newline
<1>3. 0 \in T
  BY <1>0, <1>1 DEF Keeps
<1>4. ASSUME NEW i \in 1..KeyLength, i - 1 \in T PROVE i \in T
  <2>0. i \in 1..Len(t) /\ i - 1 \in 0..Len(t) /\ t[i] = b64
    BY <1>0
  <2>1. u[i - 1] \in Seq(AnyCell) /\ Len(u[i - 1]) = i - 1 /\ \A j \in 1..(i - 1) : u[i - 1][j] = b64
    <3> HIDE DEF b64
    <3> QED
      BY <1>1, <1>4, <2>0 DEF Keeps
  <2> HIDE DEF b64
  <2>2. u[i] = Append(u[i - 1], b64)
    BY <1>1, <1>2, <2>0 DEF Keeps
  <2>3. Len(u[i]) = i /\ \A j \in 1..i : u[i][j] = b64
    BY <1>2, <2>1, <2>2
  <2> QED
    BY <2>3
<1>5. KeyLength \in T
  <2> HIDE DEF T
  <2>1. 0..KeyLength \subseteq T
    BY <1>0, <1>3, <1>4, UpTo
  <2> QED
    BY <1>0, <2>1
<1>6. u[Len(t)] = u[KeyLength] /\ u[KeyLength] \in Seq(AnyCell)
  BY <1>0, <1>1 DEF Keeps
<1> DEFINE q == decode_base64(t)
<1>7. q \in Seq(AnyCell) /\ Len(q) = KeyLength /\ \A i \in 1..KeyLength : q[i] = b64
  BY <1>1, <1>5, <1>6
<1>8. SubSeq(q, 1, KeyLength) = q
  <2> HIDE DEF q
  <2> QED
    BY <1>7, SubSeqFull
<1>9. \A k \in 1..MaxKeys : /\ getPrivateKey(k) \in Seq(AnyCell) /\ Len(getPrivateKey(k)) = KeyLength
                            /\ \A i \in 1..KeyLength : getPrivateKey(k)[i] = Cell("base64", k)
  <2>1. \A k \in 1..MaxKeys : Cell("base64", k) \in AnyCell
    BY <1>0 DEF AnyCell, NameCell, Cell
  <2> QED
    BY <1>0, <2>1, CopiesAre DEF getPrivateKey
<1>10. q = getPrivateKey(key)
  <2> HIDE DEF q
  <2> QED
    BY <1>0, <1>7, <1>9, SeqEqual
<1>11. ASSUME NEW k \in 1..MaxKeys, q = getPrivateKey(k) PROVE k = key
  <2>1. 1 \in 1..KeyLength
    BY <1>0
  <2>2. Cell("base64", k) = Cell("base64", key)
    BY <1>7, <1>9, <1>11, <2>1
  <2> QED
    BY <2>2 DEF Cell
<1>12. Load(q) = {key}
  <2> HIDE DEF q
  <2> QED
    BY <1>0, <1>7, <1>8, <1>10, <1>11 DEF Load
<1> QED
  BY <1>12

\* A line of n cells, and what is left behind it.
LEMMA LineIs ==
  ASSUME NEW t \in Seq(AnyCell), NEW n \in 0..Len(t), n < Len(t) => t[n + 1] = Newline,
         \A i \in 1..n : t[i] # Newline
  PROVE  /\ getline(t) \in Seq(NameCell) /\ Len(getline(t)) = n
         /\ \A i \in 1..n : getline(t)[i] = t[i]
         /\ Left(t) \in Seq(AnyCell)
         /\ Len(Left(t)) = IF n < Len(t) THEN Len(t) - n - 1 ELSE 0
         /\ \A i \in 1..(Len(t) - n - 1) : Left(t)[i] = t[n + 1 + i]
<1>0. Len(t) \in Nat /\ \A i \in 1..Len(t) : t[i] \in AnyCell
  OBVIOUS
<1>1. First(t, {Newline}) = n + 1
  <2> DEFINE m == n + 1
             cs == {Newline}
  <2>1. m \in 1..(Len(t) + 1) /\ (m <= Len(t) => t[m] \in cs) /\ \A j \in 1..(m - 1) : t[j] \notin cs
    BY <1>0
  <2> HIDE DEF m, cs
  <2>2. First(t, cs) = m
    BY <2>1, FirstAt
  <2> QED
    BY <2>2 DEF m, cs
<1>2. getline(t) = SubSeq(t, 1, n)
  <2> DEFINE f == First(t, {Newline})
  <2>1. getline(t) = SubSeq(t, 1, f - 1)
    BY DEF getline, Before
  <2>2. f - 1 = n
    BY <1>0, <1>1
  <2> HIDE DEF f
  <2> QED
    BY <2>1, <2>2
<1>3. \A i \in 1..n : t[i] \in NameCell
  BY <1>0 DEF AnyCell
<1>4. /\ getline(t) \in Seq(NameCell) /\ Len(getline(t)) = n
      /\ \A i \in 1..n : getline(t)[i] = t[i]
  BY <1>0, <1>2, <1>3, SubSeqProperties
<1>5. Left(t) = SubSeq(t, n + 2, Len(t))
  BY <1>4 DEF Left
<1>6. /\ Left(t) \in Seq(AnyCell)
      /\ Len(Left(t)) = IF n + 2 <= Len(t) THEN Len(t) - (n + 2) + 1 ELSE 0
      /\ \A i \in 1..(Len(t) - (n + 2) + 1) : Left(t)[i] = t[n + 2 + i - 1]
  BY <1>0, <1>5, SubSeqProperties
<1> QED
  BY <1>0, <1>4, <1>6

LEMMA LineType ==
  ASSUME NEW t \in Seq(AnyCell)
  PROVE  getline(t) \in Seq(NameCell) /\ Left(t) \in Seq(AnyCell)
<1> DEFINE n == First(t, {Newline}) - 1
<1>1. n \in 0..Len(t) /\ (n < Len(t) => t[n + 1] = Newline) /\ \A i \in 1..n : t[i] # Newline
  <2> DEFINE cs == {Newline}
             f == First(t, cs)
  <2>1. cs = {Newline} /\ Len(t) \in Nat /\ n = f - 1
    OBVIOUS
  <2> HIDE DEF cs, n
  <2>2. f \in 1..(Len(t) + 1) /\ (f <= Len(t) => t[f] \in cs) /\ \A j \in 1..(f - 1) : t[j] \notin cs
    BY FirstIs
  <2> HIDE DEF f
  <2> QED
    BY <2>1, <2>2
<1> HIDE DEF n
<1> QED
  BY <1>1, LineIs

\* What read_me_info may return.
Self == [name : {s \in Seq(NameCell) : Len(s) <= MaxName}, id : Id,
         key : 0..MaxKeys, registered : BOOLEAN]

LEMMA FreshType ==
  ASSUME NEW key \in 0..MaxKeys
  PROVE  Fresh(key) \in Self /\ Fresh(key).key = key /\ Fresh(key).registered = FALSE
<1>1. Copies(IdSize, <<0, 0>>) \in Id
  BY StartupAssumption DEF Copies, Id
<1>2. <<>> \in Seq(NameCell) /\ Len(<<>>) <= MaxName
  BY StartupAssumption
<1> QED
  BY <1>1, <1>2 DEF Fresh, Self

LEMMA IdType ==
  ASSUME NEW line \in Seq(NameCell), Len(line) = 2 * IdSize
  PROVE  hex_string_to_bytes(line) \in Id
<1>1. (2 * IdSize) \div 2 = IdSize /\ IdSize \in Nat
  BY StartupAssumption
<1>2. ASSUME NEW i \in 1..IdSize
      PROVE  <<line[2 * i - 1].of, line[2 * i].of>> \in (0..MaxKeys) \X (0..MaxKeys)
  <2>1. 2 * i - 1 \in 1..Len(line) /\ 2 * i \in 1..Len(line)
    BY <1>1
  <2>2. line[2 * i - 1] \in NameCell /\ line[2 * i] \in NameCell
    BY <2>1
  <2> QED
    BY <2>2 DEF NameCell
<1>3. hex_string_to_bytes(line) = [i \in 1..IdSize |-> <<line[2 * i - 1].of, line[2 * i].of>>]
  BY <1>1 DEF hex_string_to_bytes
<1> QED
  BY <1>2, <1>3 DEF Id

LEMMA ReadType ==
  ASSUME NEW t \in Seq(AnyCell), NEW key \in 0..MaxKeys
  PROVE  /\ read_me_info(t, key) \in Self
         /\ key # 0 => read_me_info(t, key).key # 0
<1> DEFINE name == getline(t)
           line == getline(Left(t))
           keys == Load(decode_base64(Left(Left(t))))
           named == [Fresh(key) EXCEPT !.name = name]
           identified == [named EXCEPT !.id = hex_string_to_bytes(line)]
           chosen == CHOOSE k \in keys : TRUE
           known == [identified EXCEPT !.key = chosen, !.registered = TRUE]
           r == read_me_info(t, key)
<1>1. name \in Seq(NameCell) /\ line \in Seq(NameCell)
  BY LineType
<1>2. Fresh(key) \in Self /\ Fresh(key).key = key
  BY FreshType
<1>3. keys \subseteq 1..MaxKeys
  BY DEF Load
<1>4. r = IF Len(name) > MaxName THEN Fresh(key)
          ELSE IF Len(line) # 2 * IdSize \/ ~ IsHex(line) THEN named
          ELSE IF keys = {} THEN identified ELSE known
  BY DEF read_me_info, caught
<1> HIDE DEF r
<1> HIDE DEF name, line, keys
<1>5. ASSUME Len(name) <= MaxName PROVE named \in Self /\ named.key = key
  BY <1>1, <1>2, <1>5 DEF Self
<1>6. ASSUME Len(name) <= MaxName, Len(line) = 2 * IdSize
      PROVE  identified \in Self /\ identified.key = key
  <2>1. hex_string_to_bytes(line) \in Id
    BY <1>1, <1>6, IdType
  <2> HIDE DEF named
  <2> QED
    BY <1>5, <1>6, <2>1 DEF Self
<1>7. ASSUME Len(name) <= MaxName, Len(line) = 2 * IdSize, keys # {}
      PROVE  known \in Self /\ known.key # 0
  <2>1. chosen \in 1..MaxKeys
    BY <1>3, <1>7
  <2> HIDE DEF identified, chosen
  <2>2. identified \in Self
    BY <1>6, <1>7
  <2>3. chosen \in 0..MaxKeys /\ chosen # 0
    BY <2>1, StartupAssumption
  <2>4. [identified EXCEPT !.key = chosen] \in Self
    BY <2>2, <2>3 DEF Self
  <2>5. known.key = chosen
    BY <2>2 DEF Self
  <2>6. known = [[identified EXCEPT !.key = chosen] EXCEPT !.registered = TRUE]
    BY <2>2 DEF Self
  <2> QED
    BY <2>3, <2>4, <2>5, <2>6 DEF Self
<1>8. Len(name) \in Nat /\ MaxName \in Nat
  BY <1>1, StartupAssumption
<1> HIDE DEF named, identified, known
<1>9. r \in Self /\ (key # 0 => r.key # 0)
  BY <1>2, <1>4, <1>5, <1>6, <1>7, <1>8
<1> QED
  BY <1>9 DEF r

\* What an installation may be enrolled as.
Enrollable ==
  {[name |-> Copies(n, Cell("name", key)), id |-> IdOf(key), key |-> key] :
     n \in 1..MaxName, key \in 1..MaxKeys}

LEMMA HexIs ==
  ASSUME NEW key \in 1..MaxKeys
  PROVE  bytes_to_hex_string(IdOf(key)) = Copies(2 * IdSize, Cell("hex", key))
<1>1. IdSize \in Nat
  BY StartupAssumption
<1>2. Len(IdOf(key)) = IdSize /\ \A i \in 1..IdSize : IdOf(key)[i] = <<key, key>>
  BY <1>1 DEF IdOf, Copies
<1>3. ASSUME NEW i \in 1..(2 * IdSize)
      PROVE  IdOf(key)[(i + 1) \div 2][2 - (i % 2)] = key
  <2>1. (i + 1) \div 2 \in 1..IdSize /\ 2 - (i % 2) \in {1, 2}
    BY <1>1
  <2>2. <<key, key>>[2 - (i % 2)] = key
    BY <2>1
  <2> QED
    BY <1>2, <2>1, <2>2
<1> QED
  BY <1>2, <1>3 DEF bytes_to_hex_string, Copies

\* The cells of me.info: the last digit of the identifier is at position h.
Cells(c, n, key, h) ==
  /\ c \in Seq(AnyCell) /\ Len(c) = h + KeyLength + 2
  /\ \A i \in 1..n : c[i] = Cell("name", key)
  /\ c[n + 1] = Newline
  /\ \A i \in (n + 2)..h : c[i] = Cell("hex", key)
  /\ c[h + 1] = Newline
  /\ \A i \in (h + 2)..(h + KeyLength + 1) : c[i] = Cell("base64", key)
  /\ c[h + KeyLength + 2] = Newline

LEMMA ContentIs ==
  ASSUME NEW n \in 1..MaxName, NEW key \in 1..MaxKeys, NEW e,
         e.name = Copies(n, Cell("name", key)), e.id = IdOf(key), e.key = key,
         NEW h, h = n + 1 + 2 * IdSize
  PROVE  Cells(content(e), n, key, h)
<1>0. /\ n \in Nat \ {0} /\ IdSize \in Nat \ {0} /\ KeyLength \in Nat \ {0} /\ MaxKeys \in Nat
      /\ 2 * IdSize \in Nat /\ h \in Nat
  BY StartupAssumption
<1>1. \A kind \in {"name", "hex", "base64"} : Cell(kind, key) \in AnyCell
  BY <1>0 DEF AnyCell, NameCell, Cell
<1>2. Newline \in AnyCell
  BY DEF AnyCell
<1> DEFINE name == Copies(n, Cell("name", key))
           hex == Copies(2 * IdSize, Cell("hex", key))
           b64 == Append(Copies(KeyLength, Cell("base64", key)), Newline)
           c1 == name \o <<Newline>>
           c2 == c1 \o hex
           c3 == c2 \o <<Newline>>
           c4 == c3 \o b64
<1>3. content(e) = c4
  BY HexIs DEF content, encode_base64, getPrivateKey
<1>4. /\ name \in Seq(AnyCell) /\ Len(name) = n
      /\ \A i \in 1..n : name[i] = Cell("name", key)
  BY <1>0, <1>1, CopiesAre
<1>5. /\ hex \in Seq(AnyCell) /\ Len(hex) = 2 * IdSize
      /\ \A i \in 1..(2 * IdSize) : hex[i] = Cell("hex", key)
  BY <1>0, <1>1, CopiesAre
<1>6. /\ b64 \in Seq(AnyCell) /\ Len(b64) = KeyLength + 1
      /\ \A i \in 1..KeyLength : b64[i] = Cell("base64", key)
      /\ b64[KeyLength + 1] = Newline
  <2> DEFINE k == Copies(KeyLength, Cell("base64", key))
  <2>1. k \in Seq(AnyCell) /\ Len(k) = KeyLength /\ \A i \in 1..KeyLength : k[i] = Cell("base64", key)
    BY <1>0, <1>1, CopiesAre
  <2> HIDE DEF k
  <2>2. /\ Append(k, Newline) \in Seq(AnyCell) /\ Len(Append(k, Newline)) = KeyLength + 1
        /\ \A i \in 1..KeyLength : Append(k, Newline)[i] = Cell("base64", key)
        /\ Append(k, Newline)[KeyLength + 1] = Newline
    BY <1>0, <1>2, <2>1
  <2> QED
    BY <2>2 DEF k
<1> HIDE DEF name, hex, b64
<1>7. /\ c1 \in Seq(AnyCell) /\ Len(c1) = n + 1
      /\ \A i \in 1..n : c1[i] = Cell("name", key)
      /\ c1[n + 1] = Newline
  BY <1>0, <1>2, <1>4
<1> HIDE DEF c1
<1>8. /\ c2 \in Seq(AnyCell) /\ Len(c2) = h
      /\ \A i \in 1..(n + 1) : c2[i] = c1[i]
      /\ \A i \in (n + 2)..h : c2[i] = Cell("hex", key)
  BY <1>0, <1>5, <1>7
<1> HIDE DEF c2
<1>9. /\ c3 \in Seq(AnyCell) /\ Len(c3) = h + 1
      /\ \A i \in 1..h : c3[i] = c2[i]
      /\ c3[h + 1] = Newline
  BY <1>0, <1>2, <1>8
<1> HIDE DEF c3
<1>10. /\ c4 \in Seq(AnyCell) /\ Len(c4) = h + KeyLength + 2
       /\ \A i \in 1..(h + 1) : c4[i] = c3[i]
       /\ \A i \in (h + 2)..(h + KeyLength + 1) : c4[i] = Cell("base64", key)
       /\ c4[h + KeyLength + 2] = Newline
  BY <1>0, <1>6, <1>9
<1> HIDE DEF c4
<1>11. Cells(c4, n, key, h)
  <2>1. ASSUME NEW i \in 1..h PROVE c4[i] = c2[i]
    <3>1. i \in 1..(h + 1)
      BY <1>0
    <3>2. c4[i] = c3[i]
      BY <1>10, <3>1
    <3>3. c3[i] = c2[i]
      BY <1>9
    <3> QED
      BY <3>2, <3>3
  <2>2. n + 1 <= h
    BY <1>0
  <2>3. \A i \in 1..(n + 1) : i \in 1..h /\ c4[i] = c1[i]
    BY <1>0, <1>8, <2>1, <2>2
  <2>4. (\A i \in 1..n : c4[i] = Cell("name", key)) /\ c4[n + 1] = Newline
    BY <1>0, <1>7, <2>3
  <2>5. \A i \in (n + 2)..h : c4[i] = Cell("hex", key)
    <3>1. \A i \in (n + 2)..h : i \in 1..h
      BY <1>0
    <3> QED
      BY <1>8, <2>1, <3>1
  <2>6. c4[h + 1] = Newline
    <3>1. h + 1 \in 1..(h + 1)
      BY <1>0
    <3>2. c4[h + 1] = c3[h + 1]
      BY <1>10, <3>1
    <3> QED
      BY <1>9, <3>2
  <2> QED
    BY <1>10, <2>4, <2>5, <2>6 DEF Cells
<1> QED
  BY <1>3, <1>11

\* A process that has read somebody has read all of that.
LEMMA ReadIs ==
  ASSUME NEW t \in Seq(AnyCell), NEW key \in 0..MaxKeys, read_me_info(t, key).registered
  PROVE  LET line == getline(Left(t))
             keys == Load(decode_base64(Left(Left(t))))
         IN  /\ Len(line) = 2 * IdSize /\ keys # {}
             /\ Identity(read_me_info(t, key)) =
                  [name |-> getline(t), id |-> hex_string_to_bytes(line),
                   key |-> CHOOSE x \in keys : TRUE]
<1> DEFINE name == getline(t)
           line == getline(Left(t))
           keys == Load(decode_base64(Left(Left(t))))
           chosen == CHOOSE x \in keys : TRUE
           id == hex_string_to_bytes(line)
           r == read_me_info(t, key)
<1>1. r = IF Len(name) > MaxName THEN Fresh(key)
          ELSE IF Len(line) # 2 * IdSize \/ ~ IsHex(line) THEN [Fresh(key) EXCEPT !.name = name]
          ELSE IF keys = {} THEN [Fresh(key) EXCEPT !.name = name, !.id = id]
          ELSE [Fresh(key) EXCEPT !.name = name, !.id = id, !.key = chosen, !.registered = TRUE]
  BY DEF read_me_info, caught, Fresh
<1> HIDE DEF r, name, line, keys, chosen, id
<1>2. r.registered /\ Fresh(key).registered = FALSE
  BY FreshType DEF r
<1>3. Len(line) = 2 * IdSize /\ keys # {} /\ Identity(r) = [name |-> name, id |-> id, key |-> chosen]
  BY <1>1, <1>2 DEF Fresh, Identity
<1> QED
  BY <1>3 DEF r, name, line, keys, chosen, id

\* From the first m cells of a me.info a process reads nobody, or exactly whom it was
\* written for.
LEMMA ReadBack ==
  ASSUME NEW e \in Enrollable, NEW m \in 0..Len(content(e)), NEW key \in 0..MaxKeys,
         read_me_info(SubSeq(content(e), 1, m), key).registered
  PROVE  Identity(read_me_info(SubSeq(content(e), 1, m), key)) = e
<1> DEFINE c == content(e)
           t == SubSeq(c, 1, m)
           r == read_me_info(t, key)
           name == getline(t)
           line == getline(Left(t))
           rest == Left(Left(t))
           keys == Load(decode_base64(rest))
           h == Len(e.name) + 1 + 2 * IdSize
<1>1. PICK n \in 1..MaxName, k \in 1..MaxKeys :
        e = [name |-> Copies(n, Cell("name", k)), id |-> IdOf(k), key |-> k]
  BY DEF Enrollable
<1>0. /\ n \in Nat \ {0} /\ IdSize \in Nat \ {0} /\ KeyLength \in Nat \ {0} /\ MaxKeys \in Nat
      /\ 2 * IdSize \in Nat /\ k \in Nat \ {0}
  BY StartupAssumption
<1>2. /\ Cell("name", k) \in NameCell /\ Cell("name", k) # Newline
      /\ Cell("hex", k) # Newline /\ Cell("hex", k).kind = "hex" /\ Cell("hex", k).of = k
      /\ \A kind : Cell(kind, k) # Newline
  BY <1>0 DEF NameCell, Cell, Newline
<1>3. /\ e.name \in Seq(NameCell) /\ Len(e.name) = n
      /\ \A i \in 1..n : e.name[i] = Cell("name", k)
  BY <1>0, <1>1, <1>2, CopiesAre
<1>4. h = n + 1 + 2 * IdSize /\ h \in Nat
  BY <1>0, <1>3
<1> HIDE DEF h
<1>5. /\ c \in Seq(AnyCell) /\ Len(c) = h + KeyLength + 2
      /\ \A i \in 1..n : c[i] = Cell("name", k)
      /\ c[n + 1] = Newline
      /\ \A i \in (n + 2)..h : c[i] = Cell("hex", k)
      /\ c[h + 1] = Newline
      /\ \A i \in (h + 2)..(h + KeyLength + 1) : c[i] = Cell("base64", k)
      /\ c[h + KeyLength + 2] = Newline
  <2>1. e.name = Copies(n, Cell("name", k)) /\ e.id = IdOf(k) /\ e.key = k
    BY <1>1
  <2>2. h = n + 1 + 2 * IdSize
    BY <1>4
  <2>3. Cells(content(e), n, k, h)
    BY <2>1, <2>2, ContentIs
  <2> HIDE DEF c
  <2> QED
    BY <2>3 DEF Cells, c
<1> HIDE DEF c
<1>6. t \in Seq(AnyCell) /\ Len(t) = m /\ m \in Nat /\ m <= Len(c) /\ \A i \in 1..m : t[i] = c[i]
  BY <1>5 DEF c
<1> HIDE DEF t
<1>7. Fresh(key).registered = FALSE
  BY FreshType
<1>8. /\ Len(line) = 2 * IdSize /\ keys # {}
      /\ Identity(r) = [name |-> name, id |-> hex_string_to_bytes(line), key |-> CHOOSE x \in keys : TRUE]
  BY <1>6, ReadIs DEF c, t
<1> DEFINE l == Left(t)
<1>9. m > n
  <2> SUFFICES ASSUME m <= n PROVE FALSE
    BY <1>0, <1>6
  <2>1. \A i \in 1..m : t[i] # Newline
    BY <1>0, <1>2, <1>5, <1>6
  <2>2. l \in Seq(AnyCell) /\ Len(l) = 0
    BY <1>6, <2>1, LineIs
  <2> HIDE DEF l
  <2> DEFINE z == 0
  <2>3. z \in 0..Len(l) /\ ~ (z < Len(l)) /\ \A i \in 1..z : l[i] # Newline
    BY <2>2
  <2> HIDE DEF z
  <2>4. Len(getline(l)) = z
    BY <2>2, <2>3, LineIs
  <2>5. Len(getline(l)) = 0
    BY <2>4 DEF z
  <2> QED
    BY <1>0, <1>8, <2>5 DEF l
<1>10. /\ name \in Seq(NameCell) /\ Len(name) = n /\ \A i \in 1..n : name[i] = Cell("name", k)
       /\ l \in Seq(AnyCell) /\ Len(l) = m - n - 1
       /\ \A i \in 1..(m - n - 1) : l[i] = c[n + 1 + i]
  <2>1. n \in 0..Len(t) /\ (n < Len(t) => t[n + 1] = Newline) /\ \A i \in 1..n : t[i] # Newline
    BY <1>0, <1>2, <1>5, <1>6, <1>9
  <2>2. /\ name \in Seq(NameCell) /\ Len(name) = n /\ \A i \in 1..n : name[i] = t[i]
        /\ l \in Seq(AnyCell)
        /\ Len(l) = IF n < Len(t) THEN Len(t) - n - 1 ELSE 0
        /\ \A i \in 1..(Len(t) - n - 1) : l[i] = t[n + 1 + i]
    BY <1>6, <2>1, LineIs
  <2> HIDE DEF name, l
  <2>3. Len(t) = m /\ n < Len(t)
    BY <1>6, <1>9
  <2>4. \A i \in 1..n : t[i] = Cell("name", k)
    BY <1>0, <1>5, <1>6, <1>9
  <2>5. \A i \in 1..(m - n - 1) : t[n + 1 + i] = c[n + 1 + i]
    BY <1>0, <1>6, <1>9
  <2> QED
    BY <2>2, <2>3, <2>4, <2>5
<1>11. name = e.name
  <2> HIDE DEF name
  <2>1. /\ name \in Seq(NameCell) /\ e.name \in Seq(NameCell) /\ Len(name) = Len(e.name)
        /\ \A i \in 1..Len(name) : name[i] = e.name[i]
    BY <1>3, <1>10
  <2> QED
    BY <2>1, SeqEqual, Zenon
<1> HIDE DEF name, l
<1>12. line = getline(l) /\ rest = Left(l)
  BY DEF l
<1> HIDE DEF line, rest
<1>13. m > h
  <2> SUFFICES ASSUME m <= h PROVE FALSE
    BY <1>4, <1>6
  <2>0. \A i \in 1..Len(l) : i \in 1..(m - n - 1) /\ n + 1 + i \in (n + 2)..h
    BY <1>0, <1>4, <1>6, <1>9, <1>10
  <2>1. Len(l) \in 0..Len(l) /\ \A i \in 1..Len(l) : l[i] # Newline
    <3>1. Len(l) \in Nat
      BY <1>10
    <3>2. ASSUME NEW i \in 1..Len(l) PROVE l[i] = Cell("hex", k)
      <4>1. l[i] = c[n + 1 + i] /\ n + 1 + i \in (n + 2)..h
        BY <1>10, <2>0
      <4> QED
        BY <1>5, <4>1
    <3> QED
      BY <1>2, <3>1, <3>2
  <2>2. rest \in Seq(AnyCell) /\ Len(rest) = 0
    BY <1>10, <1>12, <2>1, LineIs
  <2>3. Len(rest) < KeyLength
    BY <1>0, <2>2
  <2>4. keys = {}
    BY <2>2, <2>3, LoadShort
  <2> QED
    BY <1>8, <2>4
<1> DEFINE w == 2 * IdSize
<1>14. /\ line \in Seq(NameCell) /\ \A i \in 1..w : line[i] = Cell("hex", k)
       /\ rest \in Seq(AnyCell) /\ Len(rest) = m - h - 1
       /\ \A i \in 1..(m - h - 1) : rest[i] = c[h + 1 + i]
  <2>0. w \in Nat /\ h = n + 1 + w
    BY <1>0, <1>4
  <2> HIDE DEF w
  <2>1. /\ w \in 0..Len(l) /\ w < Len(l) /\ Len(l) - w - 1 = m - h - 1
        /\ w + 1 \in 1..(m - n - 1) /\ n + 1 + (w + 1) = h + 1
    BY <1>0, <1>4, <1>6, <1>10, <1>13, <2>0
  <2>2. l[w + 1] = Newline
    BY <1>5, <1>10, <2>1
  <2>3. ASSUME NEW i \in 1..w PROVE l[i] = Cell("hex", k) /\ l[i] # Newline
    <3>1. i \in 1..(m - n - 1) /\ n + 1 + i \in (n + 2)..h
      BY <1>0, <1>10, <2>0, <2>1
    <3> QED
      BY <1>2, <1>5, <1>10, <3>1
  <2>4. /\ line \in Seq(NameCell) /\ \A i \in 1..w : line[i] = l[i]
        /\ rest \in Seq(AnyCell)
        /\ Len(rest) = IF w < Len(l) THEN Len(l) - w - 1 ELSE 0
        /\ \A i \in 1..(Len(l) - w - 1) : rest[i] = l[w + 1 + i]
    <3>1. w \in 0..Len(l) /\ (w < Len(l) => l[w + 1] = Newline) /\ \A i \in 1..w : l[i] # Newline
      BY <2>1, <2>2, <2>3
    <3>2. l \in Seq(AnyCell)
      BY <1>10
    <3> QED
      BY <1>12, <3>1, <3>2, LineIs, Zenon
  <2>5. ASSUME NEW i \in 1..(m - h - 1) PROVE rest[i] = c[h + 1 + i]
    <3>1. w + 1 + i \in 1..(m - n - 1) /\ n + 1 + (w + 1 + i) = h + 1 + i
      BY <1>0, <1>4, <1>6, <1>13, <2>0
    <3>2. rest[i] = l[w + 1 + i]
      BY <2>4, <2>1
    <3> QED
      BY <1>10, <3>1, <3>2
  <2> QED
    BY <2>4, <2>1, <2>3, <2>5
<1>15. keys = {k}
  <2>1. Len(rest) \in {KeyLength, KeyLength + 1}
    <3>1. ~ (Len(rest) < KeyLength)
      BY <1>8, <1>14, LoadShort
    <3> QED
      BY <1>0, <1>4, <1>5, <1>6, <1>13, <1>14, <3>1
  <2>2. \A i \in 1..KeyLength : rest[i] = Cell("base64", k)
    BY <1>0, <1>4, <1>5, <1>6, <1>13, <1>14, <2>1
  <2>3. Len(rest) = KeyLength + 1 => rest[KeyLength + 1] = Newline
    BY <1>0, <1>4, <1>5, <1>6, <1>13, <1>14, <2>1
  <2> QED
    BY <1>14, <2>1, <2>2, <2>3, LoadWhole
<1>16. hex_string_to_bytes(line) = IdOf(k)
  <2>1. Len(line) \div 2 = IdSize
    BY <1>0, <1>8
  <2>2. ASSUME NEW i \in 1..IdSize PROVE line[2 * i - 1].of = k /\ line[2 * i].of = k
    <3>1. 2 * i - 1 \in 1..(2 * IdSize) /\ 2 * i \in 1..(2 * IdSize)
      BY <1>0
    <3> QED
      BY <1>2, <1>14, <3>1
  <2> QED
    BY <2>1, <2>2 DEF hex_string_to_bytes, IdOf, Copies
<1> HIDE DEF keys, r
<1>17. Identity(r) = e
  BY <1>1, <1>8, <1>11, <1>15, <1>16
<1> QED
  BY <1>17 DEF r, t, c

-----------------------------------------------------------------------------
(* server.info.                                                             *)

LEMMA TextType == Texts \subseteq Seq(Characters)
<1>1. \A n \in 0..MaxText : n \in Nat
  BY StartupAssumption
<1> QED
  BY <1>1, SeqDef DEF Texts

LEMMA NumberType ==
  ASSUME NEW t \in Seq(DOMAIN Digit)
  PROVE  Number(t) \in Nat
<1> DEFINE step == [i \in 1..Len(t) |-> [n \in Nat |-> 10 * n + Digit[t[i]]]]
           D(f) == [i \in 0..Len(t) |-> IF i = 0 THEN 0 ELSE 10 * f[i - 1] + Digit[t[i]]]
<1>1. \A i \in 1..Len(t) : Digit[t[i]] \in Nat
  <2>1. \A c \in DOMAIN Digit : Digit[c] \in Nat
    BY DEF Digit
  <2>2. \A i \in 1..Len(t) : t[i] \in DOMAIN Digit
    OBVIOUS
  <2> QED
    BY <2>1, <2>2
<1>2. step \in [1..Len(t) -> [Nat -> Nat]]
  BY <1>1
<1>3. PICK f \in [0..Len(t) -> Nat] : Unrolls(f, Len(t), 0, step)
  <2>1. Len(t) \in Nat /\ 0 \in Nat
    OBVIOUS
  <2> HIDE DEF step
  <2> QED
    BY <1>2, <2>1, Recursion, Zenon
<1>4. f[0] = 0
  BY <1>3 DEF Unrolls
<1>5. ASSUME NEW i \in 1..Len(t) PROVE f[i] = 10 * f[i - 1] + Digit[t[i]]
  <2>1. i - 1 \in 0..Len(t) /\ f[i - 1] \in Nat
    OBVIOUS
  <2>2. f[i] = step[i][f[i - 1]]
    BY <1>3 DEF Unrolls
  <2>3. step[i][f[i - 1]] = 10 * f[i - 1] + Digit[t[i]]
    BY <2>1
  <2> HIDE DEF step
  <2> QED
    BY <2>2, <2>3
<1>6. f = D(f)
  <2>0. D(f)[0] = 0 /\ \A i \in 1..Len(t) : D(f)[i] = 10 * f[i - 1] + Digit[t[i]]
    OBVIOUS
  <2>1. \A i \in 0..Len(t) : f[i] = D(f)[i]
    <3> HIDE DEF D, step
    <3> QED
      BY <1>4, <1>5, <2>0
  <2>2. D(f) \in [0..Len(t) -> Nat]
    <3>1. \A i \in 0..Len(t) : D(f)[i] \in Nat
      <4> HIDE DEF D
      <4> QED
        BY <2>1
    <3>2. D(f) = [i \in 0..Len(t) |-> D(f)[i]]
      OBVIOUS
    <3> HIDE DEF D
    <3> QED
      BY <3>1, <3>2
  <2> HIDE DEF D, step
  <2> QED
    BY <2>1, <2>2
<1> DEFINE u == CHOOSE g : g = D(g)
<1>7. Number(t) = u[Len(t)]
  BY DEF Number
<1>8. u = D(u)
  <2> HIDE DEF D
  <2> QED
    BY <1>6
<1> HIDE DEF u
<1> DEFINE T == {i \in 0..Len(t) : u[i] \in Nat}
<1>9. 0 \in T
  BY <1>8
<1>10. ASSUME NEW i \in 1..Len(t), i - 1 \in T PROVE i \in T
  <2>1. D(u)[i] = 10 * u[i - 1] + Digit[t[i]]
    OBVIOUS
  <2>2. u[i] = 10 * u[i - 1] + Digit[t[i]]
    <3> HIDE DEF D
    <3> QED
      BY <1>8, <2>1
  <2>3. u[i - 1] \in Nat /\ Digit[t[i]] \in Nat
    BY <1>1, <1>10
  <2> QED
    BY <2>2, <2>3
<1>11. Len(t) \in T
  <2>1. Len(t) \in Nat
    OBVIOUS
  <2> HIDE DEF T
  <2>2. 0..Len(t) \subseteq T
    BY <1>9, <1>10, <2>1, UpTo
  <2> QED
    BY <2>1, <2>2
<1> QED
  BY <1>7, <1>11

\* The digits that begin at position i.
LEMMA DigitsAre ==
  ASSUME NEW s \in Seq(Characters), NEW i \in 1..(Len(s) + 1)
  PROVE  \E k \in (i - 1)..Len(s) :
           /\ Before(SubSeq(s, i, Len(s)), Characters \ DOMAIN Digit) = SubSeq(s, i, k)
           /\ SubSeq(s, i, k) \in Seq(DOMAIN Digit) /\ Len(SubSeq(s, i, k)) = k - i + 1
           /\ \A l \in i..k : s[l] \in DOMAIN Digit
           /\ k = Len(s) \/ s[k + 1] \notin DOMAIN Digit
<1> DEFINE q == SubSeq(s, i, Len(s))
           stops == Characters \ DOMAIN Digit
           f == First(q, stops)
           k == i + f - 2
<1>0. Len(s) \in Nat /\ i \in Nat \ {0} /\ \A l \in 1..Len(s) : s[l] \in Characters
  OBVIOUS
<1>1. /\ q \in Seq(Characters) /\ Len(q) = Len(s) - i + 1
      /\ \A l \in 1..(Len(s) - i + 1) : q[l] = s[i + l - 1]
  BY <1>0, SubSeqProperties
<1> HIDE DEF q
<1>2. f \in 1..(Len(q) + 1) /\ (f <= Len(q) => q[f] \in stops) /\ \A j \in 1..(f - 1) : q[j] \notin stops
  <2> HIDE DEF stops
  <2> QED
    BY <1>1, FirstIs
<1>3. Before(q, stops) = SubSeq(q, 1, f - 1)
  BY DEF Before
<1> HIDE DEF f
<1>4. k \in (i - 1)..Len(s) /\ f - 1 = k - i + 1
  BY <1>0, <1>1, <1>2
<1>5. \A l \in i..k : s[l] \in DOMAIN Digit
  <2> SUFFICES ASSUME NEW l \in i..k PROVE s[l] \in DOMAIN Digit
    OBVIOUS
  <2>1. l - i + 1 \in 1..(f - 1) /\ l - i + 1 \in 1..Len(q) /\ i + (l - i + 1) - 1 = l
    BY <1>0, <1>1, <1>2
  <2>2. q[l - i + 1] \notin stops /\ q[l - i + 1] = s[l] /\ s[l] \in Characters
    BY <1>0, <1>1, <1>2, <2>1
  <2> QED
    BY <2>2
<1>6. k = Len(s) \/ s[k + 1] \notin DOMAIN Digit
  <2> SUFFICES ASSUME k # Len(s) PROVE s[k + 1] \notin DOMAIN Digit
    OBVIOUS
  <2>1. f <= Len(q) /\ f \in 1..(Len(s) - i + 1) /\ i + f - 1 = k + 1
    BY <1>0, <1>1, <1>2
  <2> QED
    BY <1>1, <1>2, <2>1
<1>7. SubSeq(s, i, k) \in Seq(DOMAIN Digit) /\ Len(SubSeq(s, i, k)) = k - i + 1
      /\ \A l \in 1..(k - i + 1) : SubSeq(s, i, k)[l] = s[i + l - 1]
  <2>1. k \in Int /\ i \in Int /\ (IF i <= k THEN k - i + 1 ELSE 0) = k - i + 1
    BY <1>0, <1>4
  <2> HIDE DEF k
  <2> QED
    BY <1>5, <2>1, SubSeqProperties
<1>8. SubSeq(q, 1, f - 1) = SubSeq(s, i, k)
  <2>1. f - 1 \in 0..Len(q)
    BY <1>1, <1>2
  <2>2. /\ SubSeq(q, 1, f - 1) \in Seq(Characters) /\ Len(SubSeq(q, 1, f - 1)) = f - 1
        /\ \A l \in 1..(f - 1) : SubSeq(q, 1, f - 1)[l] = q[l]
    BY <1>1, <2>1
  <2>3. SubSeq(s, i, k) \in Seq(Characters)
    <3>1. DOMAIN Digit \subseteq Characters
      BY DEF Characters
    <3> QED
      BY <1>7, <3>1, SeqMonotonic
  <2>4. \A l \in 1..(f - 1) : l \in 1..(k - i + 1) /\ l \in 1..(Len(s) - i + 1)
    BY <1>0, <1>1, <1>2
  <2>5. \A l \in 1..(f - 1) : SubSeq(q, 1, f - 1)[l] = SubSeq(s, i, k)[l]
    BY <1>1, <1>7, <2>2, <2>4
  <2>6. Len(SubSeq(q, 1, f - 1)) = Len(SubSeq(s, i, k))
    BY <1>4, <1>7, <2>2
  <2> HIDE DEF k
  <2> QED
    BY <2>2, <2>3, <2>5, <2>6, SeqEqual
<1>9. Before(q, stops) = SubSeq(s, i, k)
  BY <1>3, <1>8
<1> QED
  BY <1>4, <1>5, <1>6, <1>7, <1>9 DEF q

\* The characters that stoi skips or takes for a sign.
Space == " "

Minus == "-"

\* Spaces and digits at position 1 of s: they end where stoi looks for their end.
LEMMA SaysIs ==
  ASSUME NEW s \in Seq(Characters), NEW n, NEW a \in 1..(Len(s) + 1),
         \A l \in 1..(a - 1) : s[l] = Space,
         a <= Len(s) => s[a] # Space,
         NEW k \in (a - 1)..Len(s),
         \A l \in a..k : s[l] \in DOMAIN Digit,
         k = Len(s) \/ s[k + 1] \notin DOMAIN Digit
  PROVE  Says(s, 1, n) <=> a <= k /\ n = Number(SubSeq(s, a, k))
<1>0. Len(s) \in Nat /\ a \in Nat \ {0}
  OBVIOUS
<1>1. Space \notin DOMAIN Digit
  BY DEF Digit, Space
<1>2. Says(s, 1, n) <=>
        \E j, m \in 1..Len(s) :
          /\ j <= m
          /\ \A l \in 1..(j - 1) : s[l] = Space
          /\ \A l \in j..m : s[l] \in DOMAIN Digit
          /\ m = Len(s) \/ s[m + 1] \notin DOMAIN Digit
          /\ n = Number(SubSeq(s, j, m))
  BY DEF Says, Space
<1>3. ASSUME a <= k, n = Number(SubSeq(s, a, k)) PROVE Says(s, 1, n)
  <2>1. a \in 1..Len(s) /\ k \in 1..Len(s)
    BY <1>0, <1>3
  <2>2. \A l \in 1..(a - 1) : s[l] = Space
    OBVIOUS
  <2>3. \A l \in a..k : s[l] \in DOMAIN Digit
    OBVIOUS
  <2> QED
    BY <1>2, <1>3, <2>1, <2>2, <2>3
<1>4. ASSUME Says(s, 1, n) PROVE a <= k /\ n = Number(SubSeq(s, a, k))
  <2>1. PICK j \in 1..Len(s), m \in 1..Len(s) :
          /\ j <= m
          /\ \A l \in 1..(j - 1) : s[l] = Space
          /\ \A l \in j..m : s[l] \in DOMAIN Digit
          /\ m = Len(s) \/ s[m + 1] \notin DOMAIN Digit
          /\ n = Number(SubSeq(s, j, m))
    BY <1>4, <1>2
  <2>2. s[j] # Space
    BY <1>0, <1>1, <2>1
  <2>3. ~ (j < a)
    BY <1>0, <2>2
  <2>4. ~ (a < j)
    <3> SUFFICES ASSUME a < j PROVE FALSE
      OBVIOUS
    <3>1. a \in 1..(j - 1) /\ a <= Len(s)
      BY <1>0, <2>1
    <3> QED
      BY <2>1, <3>1
  <2>5. j = a
    BY <1>0, <2>3, <2>4
  <2>6. ~ (m < k)
    <3> SUFFICES ASSUME m < k PROVE FALSE
      OBVIOUS
    <3>1. m + 1 \in a..k /\ m # Len(s)
      BY <1>0, <2>1, <2>5
    <3> QED
      BY <2>1, <3>1
  <2>7. ~ (k < m)
    <3> SUFFICES ASSUME k < m PROVE FALSE
      OBVIOUS
    <3>1. k + 1 \in j..m /\ k # Len(s)
      BY <1>0, <2>1, <2>5
    <3> QED
      BY <2>1, <3>1
  <2>8. m = k
    BY <1>0, <2>6, <2>7
  <2> QED
    BY <2>1, <2>5, <2>8
<1> QED
  BY <1>3, <1>4

\* stoi finds the number that a text says, or one with a sign before it.
LEMMA StoiIs ==
  ASSUME NEW s \in Seq(Characters)
  PROVE  \E d \in Seq(DOMAIN Digit) :
              \/ stoi(s) = {} /\ \A n : ~ Says(s, 1, n)
              \/ stoi(s) = {Number(d)} \cap Ints /\ \A n : Says(s, 1, n) <=> n = Number(d)
              \/ stoi(s) = {- Number(d)} \cap Ints /\ \A n : ~ Says(s, 1, n)
<1> DEFINE cs == Characters \ {Space}
           stops == Characters \ DOMAIN Digit
           a == First(s, cs)
           signed == SubSeq(s, a, Len(s))
<1>0. Len(s) \in Nat /\ \A l \in 1..Len(s) : s[l] \in Characters
  OBVIOUS
<1>1. a \in 1..(Len(s) + 1) /\ (a <= Len(s) => s[a] \in cs) /\ \A l \in 1..(a - 1) : s[l] \notin cs
  <2> HIDE DEF cs
  <2> QED
    BY FirstIs
<1> HIDE DEF a
<1>2. (a <= Len(s) => s[a] # Space) /\ \A l \in 1..(a - 1) : s[l] = Space
  <2>1. \A l \in 1..(a - 1) : l \in 1..Len(s)
    BY <1>0, <1>1
  <2> QED
    BY <1>0, <1>1, <2>1
<1>3. /\ signed \in Seq(Characters) /\ Len(signed) = Len(s) - a + 1
      /\ \A l \in 1..(Len(s) - a + 1) : signed[l] = s[a + l - 1]
  BY <1>0, <1>1, SubSeqProperties
<1>4. PICK k \in (a - 1)..Len(s) :
        /\ Before(signed, stops) = SubSeq(s, a, k)
        /\ SubSeq(s, a, k) \in Seq(DOMAIN Digit) /\ Len(SubSeq(s, a, k)) = k - a + 1
        /\ \A l \in a..k : s[l] \in DOMAIN Digit
        /\ k = Len(s) \/ s[k + 1] \notin DOMAIN Digit
  BY <1>1, DigitsAre
<1>5. \A n : Says(s, 1, n) <=> a <= k /\ n = Number(SubSeq(s, a, k))
  BY <1>1, <1>2, <1>4, SaysIs
<1> DEFINE negative == signed # <<>> /\ signed[1] = Minus
           digits == Before(IF negative THEN Tail(signed) ELSE signed, stops)
<1>6. stoi(s) = IF digits = <<>> THEN {}
                ELSE {IF negative THEN - Number(digits) ELSE Number(digits)} \cap Ints
  BY DEF stoi, a, Space, Minus
<1>7. CASE ~ negative
  <2>1. digits = SubSeq(s, a, k)
    BY <1>4, <1>7
  <2>2. digits = <<>> <=> ~ (a <= k)
    <3> HIDE DEF digits
    <3>1. digits \in Seq(DOMAIN Digit) /\ Len(digits) = k - a + 1
      BY <1>4, <2>1
    <3>2. k - a + 1 = 0 <=> ~ (a <= k)
      BY <1>0, <1>1, <1>4
    <3>3. digits = <<>> <=> Len(digits) = 0
      BY <3>1
    <3> QED
      BY <3>1, <3>2, <3>3
  <2>3. digits \in Seq(DOMAIN Digit)
    BY <1>4, <2>1 DEF digits
  <2> HIDE DEF digits, negative
  <2> QED
    BY <1>5, <1>6, <1>7, <2>1, <2>2, <2>3
<1>8. CASE negative
  <2>1. a \in 1..Len(s) /\ s[a] = Minus
    <3>1. Len(signed) # 0
      BY <1>3, <1>8
    <3>2. a \in 1..Len(s) /\ 1 \in 1..(Len(s) - a + 1)
      BY <1>0, <1>1, <1>3, <3>1
    <3> QED
      BY <1>3, <1>8, <3>2
  <2>2. ~ (a <= k)
    <3>1. Minus \notin DOMAIN Digit
      BY DEF Digit, Minus
    <3> QED
      BY <1>0, <1>1, <1>4, <2>1, <3>1
  <2>3. Tail(signed) = SubSeq(s, a + 1, Len(s))
    BY <1>0, <2>1, HeadTailOfSubSeq
  <2>4. PICK j \in a..Len(s) :
          /\ Before(SubSeq(s, a + 1, Len(s)), stops) = SubSeq(s, a + 1, j)
          /\ SubSeq(s, a + 1, j) \in Seq(DOMAIN Digit) /\ Len(SubSeq(s, a + 1, j)) = j - a
    <3> DEFINE b == a + 1
    <3>1. b \in 1..(Len(s) + 1)
      BY <1>0, <2>1
    <3> HIDE DEF b
    <3>2. PICK j \in (b - 1)..Len(s) :
            /\ Before(SubSeq(s, b, Len(s)), stops) = SubSeq(s, b, j)
            /\ SubSeq(s, b, j) \in Seq(DOMAIN Digit) /\ Len(SubSeq(s, b, j)) = j - b + 1
      BY <3>1, DigitsAre
    <3>3. j \in a..Len(s) /\ j - b + 1 = j - a
      BY <1>0, <2>1 DEF b
    <3> QED
      BY <3>2, <3>3 DEF b
  <2>5. digits = SubSeq(s, a + 1, j)
    BY <1>8, <2>3, <2>4
  <2>6. digits \in Seq(DOMAIN Digit)
    <3> HIDE DEF digits
    <3> QED
      BY <1>0, <2>1, <2>4, <2>5
  <2> HIDE DEF digits, negative
  <2> QED
    BY <1>5, <1>6, <1>8, <2>2, <2>6
<1> QED
  BY <1>7, <1>8

\* What a text says from a position on, what is behind the position says.
LEMMA SaysShift ==
  ASSUME NEW t \in Seq(Characters), NEW i \in 1..(Len(t) + 1), NEW n
  PROVE  Says(SubSeq(t, i, Len(t)), 1, n) <=> Says(t, i, n)
<1> DEFINE s == SubSeq(t, i, Len(t))
           At(q, b, j, m) ==
             /\ j <= m
             /\ \A l \in b..(j - 1) : q[l] = Space
             /\ \A l \in j..m : q[l] \in DOMAIN Digit
             /\ m = Len(q) \/ q[m + 1] \notin DOMAIN Digit
             /\ n = Number(SubSeq(q, j, m))
<1>0. Len(t) \in Nat /\ i \in Nat \ {0} /\ \A l \in 1..Len(t) : t[l] \in Characters
  OBVIOUS
<1>1. /\ s \in Seq(Characters) /\ Len(s) = Len(t) - i + 1
      /\ \A l \in 1..(Len(t) - i + 1) : s[l] = t[i + l - 1]
  BY <1>0, SubSeqProperties
<1>2. /\ Says(t, i, n) <=> \E j, m \in i..Len(t) : At(t, i, j, m)
      /\ Says(s, 1, n) <=> \E j, m \in 1..Len(s) : At(s, 1, j, m)
  BY DEF Says, Space
<1>3. ASSUME NEW j \in 1..Len(s), NEW m \in 1..Len(s)
      PROVE  SubSeq(s, j, m) = SubSeq(t, i + j - 1, i + m - 1)
  <2> DEFINE e == Len(t)
  <2>1. i \in 1..Len(t) /\ e \in 1..Len(t) /\ j \in 1..(e - i + 1) /\ m \in 1..(e - i + 1)
    BY <1>0, <1>1
  <2> HIDE DEF e
  <2>2. SubSeq(SubSeq(t, i, e), j, m) = SubSeq(t, i + j - 1, i + m - 1)
    BY <1>1, <2>1, SubSeqOfSubSeq
  <2> QED
    BY <2>2 DEF e
<1> HIDE DEF s
<1>4. ASSUME NEW j \in 1..Len(s), NEW m \in 1..Len(s), NEW x, x = i + j - 1, NEW y, y = i + m - 1
      PROVE  At(s, 1, j, m) <=> At(t, i, x, y)
  <2>1. j \in Nat /\ 1 <= j /\ j <= Len(t) - i + 1 /\ m \in Nat /\ 1 <= m /\ m <= Len(t) - i + 1
    BY <1>0, <1>1
  <2>2. x \in i..Len(t) /\ y \in i..Len(t) /\ (j <= m <=> x <= y) /\ (m = Len(s) <=> y = Len(t))
    <3>1. m = Len(s) <=> m = Len(t) - i + 1
      BY <1>1
    <3> QED
      BY <1>0, <1>4, <2>1, <3>1
  <2>3. (\A l \in 1..(j - 1) : s[l] = Space) <=> \A l \in i..(x - 1) : t[l] = Space
    <3>1. ASSUME NEW l \in 1..(j - 1) PROVE i + l - 1 \in i..(x - 1) /\ s[l] = t[i + l - 1]
      <4>1. l \in 1..(Len(t) - i + 1) /\ i + l - 1 \in i..(x - 1)
        BY <1>0, <1>4, <2>1
      <4> QED
        BY <1>1, <4>1
    <3>2. ASSUME NEW l \in i..(x - 1) PROVE l - i + 1 \in 1..(j - 1) /\ s[l - i + 1] = t[l]
      <4>1. l - i + 1 \in 1..(Len(t) - i + 1) /\ l - i + 1 \in 1..(j - 1) /\ i + (l - i + 1) - 1 = l
        BY <1>0, <1>4, <2>1
      <4> QED
        BY <1>1, <4>1
    <3> QED
      BY <3>1, <3>2
  <2>4. (\A l \in j..m : s[l] \in DOMAIN Digit) <=> \A l \in x..y : t[l] \in DOMAIN Digit
    <3>1. ASSUME NEW l \in j..m PROVE i + l - 1 \in x..y /\ s[l] = t[i + l - 1]
      <4>1. l \in 1..(Len(t) - i + 1) /\ i + l - 1 \in x..y
        BY <1>0, <1>4, <2>1
      <4> QED
        BY <1>1, <4>1
    <3>2. ASSUME NEW l \in x..y PROVE l - i + 1 \in j..m /\ s[l - i + 1] = t[l]
      <4>1. l - i + 1 \in 1..(Len(t) - i + 1) /\ l - i + 1 \in j..m /\ i + (l - i + 1) - 1 = l
        BY <1>0, <1>4, <2>1
      <4> QED
        BY <1>1, <4>1
    <3> QED
      BY <3>1, <3>2
  <2>5. m # Len(s) => s[m + 1] = t[y + 1]
    <3> SUFFICES ASSUME m # Len(s) PROVE s[m + 1] = t[y + 1]
      OBVIOUS
    <3>1. m \in Nat /\ y = i + m - 1 /\ m < Len(t) - i + 1 /\ 0 < m
      <4>1. m \in 1..(Len(t) - i + 1) /\ m # Len(t) - i + 1
        BY <1>1
      <4> QED
        BY <1>0, <1>4, <4>1
    <3>2. m + 1 \in 1..(Len(t) - i + 1) /\ i + (m + 1) - 1 = y + 1
      BY <1>0, <3>1
    <3> QED
      BY <1>1, <3>2
  <2> QED
    BY <1>3, <1>4, <2>2, <2>3, <2>4, <2>5
<1>5. ASSUME NEW j \in 1..Len(s), NEW m \in 1..Len(s), At(s, 1, j, m) PROVE Says(t, i, n)
  <2> DEFINE x == i + j - 1
             y == i + m - 1
  <2>1. x \in i..Len(t) /\ y \in i..Len(t)
    BY <1>0, <1>1
  <2> HIDE DEF At
  <2>2. At(t, i, x, y)
    BY <1>4, <1>5
  <2> HIDE DEF x, y
  <2> QED
    BY <1>2, <2>1, <2>2
<1>6. ASSUME NEW x \in i..Len(t), NEW y \in i..Len(t), At(t, i, x, y) PROVE Says(s, 1, n)
  <2> DEFINE j == x - i + 1
             m == y - i + 1
  <2>1. j \in 1..Len(s) /\ m \in 1..Len(s) /\ x = i + j - 1 /\ y = i + m - 1
    BY <1>0, <1>1
  <2> HIDE DEF At, j, m
  <2>2. At(s, 1, j, m)
    BY <1>4, <1>6, <2>1
  <2> QED
    BY <1>2, <2>1, <2>2
<1> HIDE DEF At
<1>7. Says(s, 1, n) <=> Says(t, i, n)
  BY <1>2, <1>5, <1>6
<1> QED
  BY <1>7 DEF s

\* The ports that stoi finds, wraps to size_t and compares with the limits.
LEMMA ValuesAre ==
  ASSUME NEW s \in Seq(Characters), NEW n
  PROVE  n \in {m \in {v % SizeWidth : v \in stoi(s)} : port_allowed(m)} <=>
           n \in 1..MaxPort /\ Says(s, 1, n)
<1>0. /\ MaxPort \in Nat \ {0} /\ SizeWidth \in Nat \ {0} /\ MaxInt \in Nat
      /\ MaxPort <= MaxInt /\ MaxInt + 1 + MaxPort < SizeWidth
  BY StartupAssumption
<1>1. PICK d \in Seq(DOMAIN Digit) :
        \/ stoi(s) = {} /\ \A m : ~ Says(s, 1, m)
        \/ stoi(s) = {Number(d)} \cap Ints /\ \A m : Says(s, 1, m) <=> m = Number(d)
        \/ stoi(s) = {- Number(d)} \cap Ints /\ \A m : ~ Says(s, 1, m)
  BY StoiIs
<1> DEFINE v == Number(d)
<1>2. v \in Nat
  BY NumberType
<1> HIDE DEF v
<1>3. /\ v \in Ints <=> v <= MaxInt
      /\ - v \in Ints <=> v <= MaxInt + 1
  BY <1>0, <1>2 DEF Ints
<1>4. v <= MaxInt => v % SizeWidth = v
  BY <1>0, <1>2
<1>5. \A m \in Nat : port_allowed(m) <=> m \in 1..MaxPort
  BY <1>0 DEF port_allowed
<1>6. CASE stoi(s) = {} /\ \A m : ~ Says(s, 1, m)
  BY <1>6
<1>7. CASE stoi(s) = {v} \cap Ints /\ \A m : Says(s, 1, m) <=> m = v
  <2>1. CASE v <= MaxInt
    BY <1>2, <1>3, <1>4, <1>5, <1>7, <2>1
  <2>2. CASE ~ (v <= MaxInt)
    <3>1. stoi(s) = {}
      BY <1>3, <1>7, <2>2
    <3>2. v \notin 1..MaxPort
      BY <1>0, <1>2, <2>2
    <3> QED
      BY <1>7, <3>1, <3>2
  <2> QED
    BY <2>1, <2>2
<1>8. CASE stoi(s) = {- v} \cap Ints /\ \A m : ~ Says(s, 1, m)
  <2>1. v <= MaxInt + 1 => ~ port_allowed((- v) % SizeWidth)
    <3>1. CASE v = 0
      <4>1. (- v) % SizeWidth = 0
        BY <1>0, <3>1
      <4> QED
        BY <1>0, <1>5, <4>1
    <3>2. CASE v # 0 /\ v <= MaxInt + 1
      <4>1. (- v) % SizeWidth = SizeWidth - v
        BY <1>0, <1>2, <3>2
      <4> QED
        BY <1>0, <1>2, <1>5, <3>2, <4>1
    <3> QED
      BY <3>1, <3>2
  <2> QED
    BY <1>3, <1>8, <2>1
<1> QED
  BY <1>1, <1>6, <1>7, <1>8 DEF v

Colon == ":"

\* The process accepts exactly the ports its server.info configures.
LEMMA PortsAre ==
  ASSUME NEW t \in Texts, NEW n
  PROVE  n \in Ports(t) <=> n \in 1..MaxPort /\ Configures(t, n)
<1> DEFINE p == First(t, {Colon})
           Behind(i) == SubSeq(t, i, Len(t))
           Values(s) == {m \in {v % SizeWidth : v \in stoi(s)} : port_allowed(m)}
<1>0. MaxText \in Nat \ 0..3 /\ SizeWidth \in Nat \ {0} /\ MaxText < SizeWidth
  BY StartupAssumption
<1>1. t \in Seq(Characters) /\ Len(t) \in Nat /\ Len(t) <= MaxText
  <2>1. PICK l \in 0..MaxText : t \in [1..l -> Characters]
    BY DEF Texts
  <2>2. t \in Seq(Characters)
    BY TextType
  <2> QED
    BY <1>0, <2>1, <2>2, LenProperties
<1>2. p \in 1..(Len(t) + 1) /\ (p <= Len(t) => t[p] = Colon) /\ \A j \in 1..(p - 1) : t[j] # Colon
  <2> DEFINE cs == {Colon}
  <2>1. \A c : c \in cs <=> c = Colon
    OBVIOUS
  <2> HIDE DEF cs
  <2>2. First(t, cs) \in 1..(Len(t) + 1) /\ (First(t, cs) <= Len(t) => t[First(t, cs)] \in cs)
        /\ \A j \in 1..(First(t, cs) - 1) : t[j] \notin cs
    BY <1>1, FirstIs
  <2> QED
    BY <2>1, <2>2 DEF cs
<1>3. find(t, ":") = IF p \in DOMAIN t THEN p - 1 ELSE SizeWidth - 1
  BY DEF find, npos, Colon
<1>4. Ports(t) = IF find(t, ":") > 1 THEN Values(substr(t, find(t, ":") + 1)) ELSE {}
  BY DEF Ports, split_allowed
<1>5. \A i : substr(t, i) = Behind((i % SizeWidth) + 1)
  BY DEF substr
<1>6. \A m : Configures(t, m) <=>
        \/ \E i \in 3..Len(t) : /\ t[i] = Colon /\ \A j \in 1..(i - 1) : t[j] # Colon
                                /\ Says(t, i + 1, m)
        \/ (\A i \in DOMAIN t : t[i] # Colon) /\ Says(t, 1, m)
  BY DEF Configures, FirstColon, Colon
<1>7. ASSUME NEW i \in 1..(Len(t) + 1)
      PROVE  n \in Values(Behind(i)) <=> n \in 1..MaxPort /\ Says(t, i, n)
  <2>1. Behind(i) \in Seq(Characters)
    BY <1>1, SubSeqProperties
  <2>2. n \in Values(Behind(i)) <=> n \in 1..MaxPort /\ Says(Behind(i), 1, n)
    BY <2>1, ValuesAre
  <2>3. Says(Behind(i), 1, n) <=> Says(t, i, n)
    BY <1>1, SaysShift
  <2> QED
    BY <2>2, <2>3
<1> HIDE DEF p, Behind, Values
<1>8. CASE p <= Len(t)
  <2>1. p \in DOMAIN t /\ p % SizeWidth = p /\ (p - 1) + 1 = p /\ p \in Nat
    BY <1>0, <1>1, <1>2, <1>8
  <2>2. Ports(t) = IF p > 2 THEN Values(Behind(p + 1)) ELSE {}
    <3>1. find(t, ":") = p - 1
      BY <1>3, <2>1
    <3>2. find(t, ":") + 1 = p /\ (find(t, ":") > 1 <=> p > 2)
      BY <2>1, <3>1
    <3> QED
      BY <1>4, <1>5, <2>1, <3>2
  <2>3. Configures(t, n) <=> p > 2 /\ Says(t, p + 1, n)
    <3>1. \A i \in 3..Len(t) : t[i] = Colon /\ (\A j \in 1..(i - 1) : t[j] # Colon) <=> i = p
      <4> SUFFICES ASSUME NEW i \in 3..Len(t)
                   PROVE  t[i] = Colon /\ (\A j \in 1..(i - 1) : t[j] # Colon) <=> i = p
        OBVIOUS
      <4>1. i < p => t[i] # Colon
        BY <1>1, <1>2
      <4>2. p < i => ~ \A j \in 1..(i - 1) : t[j] # Colon
        BY <1>1, <1>2, <1>8
      <4> QED
        BY <1>1, <1>2, <4>1, <4>2
    <3>2. ~ \A i \in DOMAIN t : t[i] # Colon
      BY <1>2, <1>8, <2>1
    <3>3. p > 2 <=> p \in 3..Len(t)
      BY <1>1, <1>8, <2>1
    <3> QED
      BY <1>6, <3>1, <3>2, <3>3
  <2>4. p + 1 \in 1..(Len(t) + 1)
    BY <1>1, <1>8, <2>1
  <2> QED
    BY <1>7, <2>2, <2>3, <2>4
<1>9. CASE ~ (p <= Len(t))
  <2>1. p \notin DOMAIN t /\ (SizeWidth - 1) + 1 = SizeWidth /\ SizeWidth % SizeWidth = 0
        /\ SizeWidth - 1 > 1 /\ 1 \in 1..(Len(t) + 1) /\ 0 + 1 = 1
    BY <1>0, <1>1, <1>2, <1>9
  <2>2. Ports(t) = Values(Behind(1))
    <3>1. find(t, ":") = SizeWidth - 1
      BY <1>3, <2>1
    <3> QED
      BY <1>4, <1>5, <2>1, <3>1
  <2>3. Configures(t, n) <=> Says(t, 1, n)
    <3>1. \A i \in 1..Len(t) : t[i] # Colon
      BY <1>1, <1>2, <1>9
    <3>2. \A i \in 3..Len(t) : i \in 1..Len(t)
      BY <1>1
    <3>3. DOMAIN t = 1..Len(t)
      BY <1>1
    <3> QED
      BY <1>6, <3>1, <3>2, <3>3
  <2> QED
    BY <1>7, <2>1, <2>2, <2>3
<1> QED
  BY <1>8, <1>9

-----------------------------------------------------------------------------
(* A process and its files.                                                 *)

\* A file is the beginning of what was once to be written, for somebody enrolled.
Begun(f) == \E e \in enrolled : \E m \in 0..Len(content(e)) : f = SubSeq(content(e), 1, m)

StartInv ==
  /\ StartupTypeOK
  /\ me \in Self
  /\ enrolled \subseteq Enrollable
  /\ phase \in {"prompt", "saving", "writing"} => me.key # 0
  /\ phase \in {"saving", "writing"} => me.registered
  /\ IdentityOfOneRegistration
  /\ file # NoThing => Begun(file)
  /\ IF phase = "writing" THEN file = SubSeq(content(me), 1, written) ELSE written = 0
  /\ phase \notin {"configured", "refused"} => text = <<>>
  /\ ServerInfoRead

LEMMA HexType ==
  ASSUME NEW id \in Id
  PROVE  bytes_to_hex_string(id) \in Seq(AnyCell)
<1>0. IdSize \in Nat
  BY StartupAssumption
<1>1. Len(id) = IdSize /\ \A i \in 1..IdSize : id[i] \in (0..MaxKeys) \X (0..MaxKeys)
  BY <1>0 DEF Id
<1>2. ASSUME NEW i \in 1..(2 * IdSize)
      PROVE  Cell("hex", id[(i + 1) \div 2][2 - (i % 2)]) \in AnyCell
  <2>1. (i + 1) \div 2 \in 1..IdSize /\ 2 - (i % 2) \in {1, 2}
    BY <1>0
  <2>2. id[(i + 1) \div 2] \in (0..MaxKeys) \X (0..MaxKeys)
    BY <1>1, <2>1
  <2>3. id[(i + 1) \div 2][2 - (i % 2)] \in 0..MaxKeys
    BY <2>1, <2>2
  <2> QED
    BY <2>3 DEF Cell, AnyCell, NameCell
<1>3. bytes_to_hex_string(id) \in [1..(2 * IdSize) -> AnyCell]
  BY <1>1, <1>2 DEF bytes_to_hex_string
<1> QED
  BY <1>0, <1>3, SeqDef

LEMMA SelfType ==
  ASSUME NEW self \in Self
  PROVE  /\ self.id \in Id /\ self.key \in 0..MaxKeys /\ self.registered \in BOOLEAN
         /\ self.name \in Seq([kind : {"name", "hex", "base64"}, of : 0..MaxKeys])
         /\ Len(self.name) <= MaxName
         /\ content(self) \in Seq(AnyCell)
<1>1. /\ self.id \in Id /\ self.key \in 0..MaxKeys /\ self.registered \in BOOLEAN
      /\ self.name \in Seq(NameCell) /\ Len(self.name) <= MaxName
  BY DEF Self
<1>2. self.name \in Seq(AnyCell)
  BY <1>1 DEF AnyCell
<1>3. Newline \in AnyCell
  BY DEF AnyCell
<1>4. getPrivateKey(self.key) \in Seq(AnyCell)
  <2>1. KeyLength \in Nat /\ Cell("base64", self.key) \in AnyCell
    BY <1>1, StartupAssumption DEF Cell, AnyCell, NameCell
  <2> QED
    BY <2>1, CopiesAre DEF getPrivateKey
<1>5. encode_base64(getPrivateKey(self.key)) \in Seq(AnyCell)
  BY <1>3, <1>4 DEF encode_base64
<1>6. bytes_to_hex_string(self.id) \in Seq(AnyCell) /\ <<Newline>> \in Seq(AnyCell)
  BY <1>1, <1>3, HexType
<1>7. content(self) \in Seq(AnyCell)
  <2>1. self.name \o <<Newline>> \in Seq(AnyCell)
    BY <1>2, <1>6, ConcatProperties
  <2>2. self.name \o <<Newline>> \o bytes_to_hex_string(self.id) \in Seq(AnyCell)
    BY <1>6, <2>1, ConcatProperties
  <2>3. self.name \o <<Newline>> \o bytes_to_hex_string(self.id) \o <<Newline>> \in Seq(AnyCell)
    BY <1>6, <2>2, ConcatProperties
  <2> QED
    BY <1>5, <2>3, ConcatProperties DEF content
<1> QED
  BY <1>1, <1>7 DEF NameCell

LEMMA EnrollableType ==
  ASSUME NEW e \in Enrollable
  PROVE  e.key \in 1..MaxKeys /\ content(e) \in Seq(AnyCell)
<1>1. PICK n \in 1..MaxName, k \in 1..MaxKeys :
        e = [name |-> Copies(n, Cell("name", k)), id |-> IdOf(k), key |-> k]
  BY DEF Enrollable
<1>2. e.name = Copies(n, Cell("name", k)) /\ e.id = IdOf(k) /\ e.key = k
  BY <1>1
<1> DEFINE h == n + 1 + 2 * IdSize
<1> HIDE DEF h
<1>3. Cells(content(e), n, k, h)
  BY <1>2, ContentIs DEF h
<1>4. content(e) \in Seq(AnyCell)
  BY <1>3 DEF Cells
<1> QED
  BY <1>2, <1>4

LEMMA IdOfType ==
  ASSUME NEW key \in 0..MaxKeys
  PROVE  IdOf(key) \in Id
BY StartupAssumption DEF IdOf, Copies, Id

\* The beginning of a me.info.
LEMMA Prefix ==
  ASSUME NEW c \in Seq(AnyCell), NEW m \in 0..Len(c)
  PROVE  /\ SubSeq(c, 1, m) \in Seq(AnyCell) /\ Len(SubSeq(c, 1, m)) = m
         /\ m < Len(c) => Append(SubSeq(c, 1, m), c[m + 1]) = SubSeq(c, 1, m + 1)
<1>1. SubSeq(c, 1, m) \in Seq(AnyCell) /\ Len(SubSeq(c, 1, m)) = m
      /\ \A i \in 1..m : SubSeq(c, 1, m)[i] = c[i]
  OBVIOUS
<1>2. ASSUME m < Len(c) PROVE Append(SubSeq(c, 1, m), c[m + 1]) = SubSeq(c, 1, m + 1)
  <2> DEFINE s == SubSeq(c, 1, m)
             t == SubSeq(c, 1, m + 1)
             a == Append(s, c[m + 1])
  <2>1. m + 1 \in 1..Len(c) /\ c[m + 1] \in AnyCell
    BY <1>2
  <2>2. t \in Seq(AnyCell) /\ Len(t) = m + 1 /\ \A i \in 1..(m + 1) : t[i] = c[i]
    BY <2>1
  <2> HIDE DEF s, t
  <2>3. a \in Seq(AnyCell) /\ Len(a) = m + 1 /\ \A i \in 1..(m + 1) : a[i] = c[i]
    BY <1>1, <2>1 DEF s
  <2> HIDE DEF a
  <2>4. a = t
    BY <2>2, <2>3, SeqEqual
  <2> QED
    BY <2>4 DEF a, s, t
<1> QED
  BY <1>1, <1>2

\* Whom a process reads from a file, if anybody, is enrolled.
LEMMA ReadEnrolled ==
  ASSUME enrolled \subseteq Enrollable, NEW t, Begun(t), NEW key \in 0..MaxKeys
  PROVE  /\ t \in Seq(AnyCell)
         /\ read_me_info(t, key) \in Self
         /\ key # 0 => read_me_info(t, key).key # 0
         /\ read_me_info(t, key).registered => Identity(read_me_info(t, key)) \in enrolled
<1>1. PICK e \in enrolled : \E m \in 0..Len(content(e)) : t = SubSeq(content(e), 1, m)
  BY DEF Begun
<1>2. PICK m \in 0..Len(content(e)) : t = SubSeq(content(e), 1, m)
  BY <1>1
<1>3. e \in Enrollable /\ content(e) \in Seq(AnyCell)
  BY EnrollableType
<1>4. t \in Seq(AnyCell)
  BY <1>2, <1>3, Prefix
<1> QED
  BY <1>2, <1>3, <1>4, ReadType, ReadBack

\* Nothing is configured by a server.info that is empty or cannot be read.
LEMMA NoText == <<>> \in Texts /\ \A n : ~ Configures(<<>>, n)
<1>1. <<>> \in Texts
  <2>1. 0 \in 0..MaxText /\ <<>> \in [1..0 -> Characters]
    BY StartupAssumption
  <2> QED
    BY <2>1 DEF Texts
<1>2. Len(<<>>) = 0
  OBVIOUS
<1> QED
  BY <1>1, <1>2 DEF Configures, Says

LEMMA TriedType == Tried \subseteq Texts
<1>1. <<"h", "h", ":", "1">> \in [1..4 -> Characters]
  <2>1. "h" \in Characters /\ ":" \in Characters /\ "1" \in Characters
    BY DEF Characters, Digit
  <2>2. \A a, b, c \in Characters : <<a, a, b, c>> \in [1..4 -> Characters]
    OBVIOUS
  <2> QED
    BY <2>1, <2>2, Zenon
<1>2. 4 \in 0..MaxText
  BY StartupAssumption
<1> QED
  BY <1>1, <1>2 DEF Tried, Texts

LEMMA StartInit == StartupInit => StartInv
<1> SUFFICES ASSUME StartupInit PROVE StartInv
  OBVIOUS
<1>1. me \in Self /\ me.registered = FALSE
  <2>1. 0 \in 0..MaxKeys /\ me = Fresh(0)
    BY StartupAssumption DEF StartupInit
  <2> QED
    BY <2>1, FreshType
<1>2. /\ me.id \in Id /\ me.key \in 0..MaxKeys /\ me.registered \in BOOLEAN
      /\ me.name \in Seq([kind : {"name", "hex", "base64"}, of : 0..MaxKeys]) /\ Len(me.name) <= MaxName
      /\ Len(content(me)) \in Nat
  <2>1. content(me) \in Seq(AnyCell)
    BY <1>1, SelfType
  <2>2. Len(content(me)) \in Nat
    <3> DEFINE c == content(me)
    <3> HIDE DEF c
    <3>1. c \in Seq(AnyCell)
      BY <2>1 DEF c
    <3>2. Len(c) \in Nat
      BY <3>1
    <3> QED
      BY <3>2 DEF c
  <2> QED
    BY <1>1, <2>2, SelfType
<1> QED
  BY <1>1, <1>2, NoText, StartupAssumption
  DEF StartupInit, StartInv, StartupTypeOK, IdentityOfOneRegistration, ServerInfoRead

LEMMA ReadServerInfoStep ==
  ASSUME StartInv, read_server_info
  PROVE  StartInv'
<1> USE DEF read_server_info
<1>0. /\ phase = "off" /\ text = <<>> /\ written = 0 /\ me \in Self
      /\ port \in 0..MaxPort /\ MaxPort \in Nat
  BY StartupAssumption DEF StartInv, StartupTypeOK
<1>1. /\ text' \in Texts /\ phase' \in {"configured", "refused"} /\ port' \in 0..MaxPort
      /\ ServerInfoRead'
  <2>1. CASE \E t \in Tried :
               /\ text' = t
               /\ LET ports == Ports(t)
                  IN  IF ports = {} THEN phase' = "refused" /\ UNCHANGED port
                                    ELSE phase' = "configured" /\ port' \in ports
    <3>1. text' \in Texts
      BY <2>1, TriedType
    <3>2. CASE phase' = "refused" /\ Ports(text') = {} /\ port' = port
      <4>1. \A n \in 1..MaxPort : ~ Configures(text', n)
        BY <3>1, <3>2, PortsAre
      <4> QED
        BY <1>0, <3>1, <3>2, <4>1 DEF ServerInfoRead
    <3>3. CASE phase' = "configured" /\ port' \in Ports(text')
      <4>1. port' \in 1..MaxPort /\ Configures(text', port')
        BY <3>1, <3>3, PortsAre
      <4>2. port' \in 0..MaxPort
        BY <1>0, <4>1
      <4> QED
        BY <3>1, <3>3, <4>1, <4>2 DEF ServerInfoRead
    <3> QED
      BY <2>1, <3>2, <3>3
  <2>2. CASE phase' = "refused" /\ UNCHANGED <<text, port>>
    BY <1>0, <2>2, NoText DEF ServerInfoRead
  <2> QED
    BY <2>1, <2>2
<1>2. StartupTypeOK'
  BY <1>1 DEF StartInv, StartupTypeOK
<1> QED
  BY <1>0, <1>1, <1>2 DEF StartInv, IdentityOfOneRegistration, Begun

LEMMA ConstructStep ==
  ASSUME StartInv, construct
  PROVE  StartInv'
<1> USE DEF construct
<1>0. /\ phase = "configured" /\ written = 0 /\ enrolled \subseteq Enrollable
      /\ drawn \in 0..MaxKeys /\ drawn + 1 \in 0..MaxKeys /\ drawn + 1 # 0
      /\ MaxKeys \in Nat /\ MaxPort \in Nat
      /\ file # NoThing => Begun(file)
  BY StartupAssumption DEF StartInv, StartupTypeOK
<1>1. PICK self \in {read_me_info(t, drawn + 1) : t \in {file, NoThing} \ {NoThing}}
                    \cup {Fresh(drawn + 1)} :
        me' = self /\ drawn' = IF self.registered THEN drawn ELSE drawn + 1
  OBVIOUS
<1>2. self \in Self /\ self.key # 0 /\ (self.registered => Identity(self) \in enrolled)
  <2> DEFINE key == drawn + 1
  <2>1. key \in 0..MaxKeys /\ key # 0
    BY <1>0
  <2> HIDE DEF key
  <2>2. Fresh(key) \in Self /\ Fresh(key).key # 0 /\ ~ Fresh(key).registered
    BY <2>1, FreshType
  <2>3. ASSUME file # NoThing
        PROVE  /\ read_me_info(file, key) \in Self /\ read_me_info(file, key).key # 0
               /\ read_me_info(file, key).registered => Identity(read_me_info(file, key)) \in enrolled
    BY <1>0, <2>1, <2>3, ReadEnrolled
  <2>4. self = Fresh(key) \/ (file # NoThing /\ self = read_me_info(file, key))
    BY DEF key
  <2> QED
    BY <2>2, <2>3, <2>4
<1>3. drawn' \in 0..MaxKeys
  BY <1>0, <1>1
<1>4. written' \in 0..Len(content(me'))
  <2>1. content(me') \in Seq(AnyCell)
    BY <1>1, <1>2, SelfType
  <2> DEFINE c == content(me')
  <2> HIDE DEF c
  <2>2. Len(c) \in Nat
    BY <2>1 DEF c
  <2>3. written' = 0
    BY <1>0
  <2> QED
    BY <2>2, <2>3 DEF c
<1>5. text' \in Texts /\ port' \in 0..MaxPort
  BY <1>0, NoText
<1>6. StartupTypeOK'
  <2>1. /\ me'.id \in Id /\ me'.key \in 0..MaxKeys /\ me'.registered \in BOOLEAN
        /\ me'.name \in Seq([kind : {"name", "hex", "base64"}, of : 0..MaxKeys])
        /\ Len(me'.name) <= MaxName
    BY <1>1, <1>2, SelfType
  <2> QED
    BY <1>3, <1>4, <1>5, <2>1 DEF StartupTypeOK
<1> QED
  BY <1>0, <1>1, <1>2, <1>6 DEF StartInv, IdentityOfOneRegistration, Begun, ServerInfoRead, Identity

LEMMA RegisterClientStep ==
  ASSUME StartInv, registerClient
  PROVE  StartInv'
<1> USE DEF registerClient
<1>0. /\ phase = "prompt" /\ written = 0 /\ text = <<>> /\ port \in 0..MaxPort
      /\ me \in Self /\ me.key \in 0..MaxKeys /\ me.key \in 1..MaxKeys
      /\ enrolled \subseteq Enrollable /\ drawn \in 0..MaxKeys
      /\ MaxKeys \in Nat /\ MaxName \in Nat
  <2>1. /\ phase = "prompt" /\ written = 0 /\ text = <<>> /\ port \in 0..MaxPort
        /\ me \in Self /\ me.key # 0 /\ me.key \in 0..MaxKeys
        /\ enrolled \subseteq Enrollable /\ drawn \in 0..MaxKeys
    BY DEF StartInv, StartupTypeOK
  <2>2. MaxKeys \in Nat /\ MaxName \in Nat
    BY StartupAssumption
  <2>3. \A q : q \in 0..MaxKeys /\ q # 0 => q \in 1..MaxKeys
    BY <2>2
  <2> QED
    BY <2>1, <2>2, <2>3, Zenon
<1>1. PICK n \in 1..MaxName :
        /\ me' = [me EXCEPT !.id = IdOf(me.key), !.name = Copies(n, Cell("name", me.key)), !.registered = TRUE]
        /\ enrolled' = enrolled \cup
             {[name |-> Copies(n, Cell("name", me.key)), id |-> IdOf(me.key), key |-> me.key]}
  BY DEF setClientName
<1> DEFINE name == Copies(n, Cell("name", me.key))
           e == [name |-> name, id |-> IdOf(me.key), key |-> me.key]
<1>2. name \in Seq(NameCell) /\ Len(name) <= MaxName
  <2>1. Cell("name", me.key) \in NameCell /\ n \in Nat
    BY <1>0 DEF Cell, NameCell
  <2> QED
    BY <1>0, <2>1, CopiesAre
<1>3. IdOf(me.key) \in Id
  BY <1>0, IdOfType
<1> HIDE DEF name
<1>4. me' \in Self /\ me'.key = me.key /\ me'.registered = TRUE /\ Identity(me') = e
  BY <1>0, <1>1, <1>2, <1>3 DEF Self, Identity, name
<1>5. e \in Enrollable
  BY <1>0 DEF Enrollable, name
<1>6. enrolled' \subseteq Enrollable /\ Identity(me') \in enrolled' /\ enrolled \subseteq enrolled'
  BY <1>0, <1>1, <1>4, <1>5 DEF name
<1>7. written' \in 0..Len(content(me'))
  <2>1. content(me') \in Seq(AnyCell)
    BY <1>4, SelfType
  <2> DEFINE c == content(me')
  <2> HIDE DEF c
  <2>2. Len(c) \in Nat
    BY <2>1 DEF c
  <2>3. written' = 0
    BY <1>0
  <2> QED
    BY <2>2, <2>3 DEF c
<1>8. StartupTypeOK'
  <2>1. /\ me'.id \in Id /\ me'.key \in 0..MaxKeys /\ me'.registered \in BOOLEAN
        /\ me'.name \in Seq([kind : {"name", "hex", "base64"}, of : 0..MaxKeys])
        /\ Len(me'.name) <= MaxName
    BY <1>4, SelfType
  <2> QED
    BY <1>0, <1>7, <2>1, NoText DEF StartupTypeOK
<1>9. file' # NoThing => Begun(file)'
  BY <1>6 DEF StartInv, Begun
<1> QED
  BY <1>0, <1>4, <1>6, <1>8, <1>9 DEF StartInv, IdentityOfOneRegistration, ServerInfoRead, Identity

\* Who writes a file is enrolled, and the file begins as what it will say.
LEMMA Writer ==
  ASSUME StartInv, me.registered
  PROVE  /\ Identity(me) \in enrolled /\ Identity(me) \in Enrollable
         /\ content(Identity(me)) = content(me) /\ content(me) \in Seq(AnyCell)
         /\ \A m \in 0..Len(content(me)) : Begun(SubSeq(content(me), 1, m))
<1>1. Identity(me) \in enrolled /\ Identity(me) \in Enrollable
  BY DEF StartInv, IdentityOfOneRegistration
<1>2. content(Identity(me)) = content(me)
  BY DEF content, Identity
<1>3. content(me) \in Seq(AnyCell)
  BY <1>1, <1>2, EnrollableType
<1> QED
  BY <1>1, <1>2, <1>3 DEF Begun

LEMMA WriteFileStep ==
  ASSUME StartInv, write_file
  PROVE  StartInv'
<1> USE DEF write_file
<1>0. /\ phase = "saving" /\ me.registered /\ text = <<>> /\ me \in Self
  BY DEF StartInv
<1>1. content(me) \in Seq(AnyCell) /\ Begun(SubSeq(content(me), 1, 0))
      /\ SubSeq(content(me), 1, 0) = <<>> /\ 0 \in 0..Len(content(me))
  <2> DEFINE c == content(me)
  <2>1. c \in Seq(AnyCell) /\ \A m \in 0..Len(c) : Begun(SubSeq(c, 1, m))
    BY <1>0, Writer
  <2> HIDE DEF c
  <2>2. 0 \in 0..Len(c) /\ SubSeq(c, 1, 0) = <<>>
    BY <2>1
  <2> QED
    BY <2>1, <2>2 DEF c
<1>2. StartupTypeOK'
  BY <1>1 DEF StartInv, StartupTypeOK
<1>3. file' # NoThing => Begun(file)'
  BY <1>1 DEF StartInv, Begun, Truncated
<1>4. IF phase' = "writing" THEN file' = SubSeq(content(me'), 1, written') ELSE written' = 0
  BY <1>1 DEF Truncated
<1> QED
  BY <1>0, <1>2, <1>3, <1>4 DEF StartInv, IdentityOfOneRegistration, ServerInfoRead

LEMMA WriteStep ==
  ASSUME StartInv, write
  PROVE  StartInv'
<1> USE DEF write
<1> DEFINE c == content(me)
           cell == c[written + 1]
<1>0. /\ phase = "writing" /\ me.registered /\ text = <<>> /\ me \in Self
      /\ file = SubSeq(c, 1, written) /\ written \in 0..Len(c) /\ written < Len(c)
  BY DEF StartInv, StartupTypeOK
<1>1. c \in Seq(AnyCell) /\ \A m \in 0..Len(c) : Begun(SubSeq(c, 1, m))
  BY <1>0, Writer
<1>2. file' = IF written < Len(file) THEN [file EXCEPT ![written + 1] = cell] ELSE Append(file, cell)
  OBVIOUS
<1>3. UNCHANGED c
  OBVIOUS
<1> HIDE DEF c
<1>4. Len(file) = written /\ Append(file, cell) = SubSeq(c, 1, written + 1)
  BY <1>0, <1>1, Prefix
<1>5. written' \in 0..Len(c) /\ file' = SubSeq(c, 1, written')
  BY <1>0, <1>1, <1>2, <1>4
<1>6. Begun(file')
  BY <1>1, <1>5
<1>7. StartupTypeOK'
  BY <1>5 DEF StartInv, StartupTypeOK, c
<1>8. Begun(file)'
  BY <1>6 DEF Begun
<1>9. file' = SubSeq(content(me'), 1, written')
  BY <1>5 DEF c
<1> QED
  BY <1>0, <1>7, <1>8, <1>9 DEF StartInv, IdentityOfOneRegistration, ServerInfoRead

LEMMA CloseStep ==
  ASSUME StartInv, close
  PROVE  StartInv'
<1> USE DEF close
<1>0. phase = "writing" /\ me \in Self /\ text = <<>>
  BY DEF StartInv
<1>1. 0 \in 0..Len(content(me))
  <2> DEFINE c == content(me)
  <2>1. c \in Seq(AnyCell)
    BY <1>0, SelfType
  <2> HIDE DEF c
  <2>2. 0 \in 0..Len(c)
    BY <2>1
  <2> QED
    BY <2>2 DEF c
<1>2. StartupTypeOK'
  BY <1>1 DEF StartInv, StartupTypeOK
<1> QED
  BY <1>0, <1>2 DEF StartInv, IdentityOfOneRegistration, ServerInfoRead, Begun

LEMMA EndsStep ==
  ASSUME StartInv, ends
  PROVE  StartInv'
<1> USE DEF ends
<1>0. me' \in Self /\ ~ me'.registered
  <2>1. 0 \in 0..MaxKeys /\ me' = Fresh(0)
    BY StartupAssumption
  <2> QED
    BY <2>1, FreshType
<1>1. written' \in 0..Len(content(me'))
  <2> DEFINE c == content(me')
  <2>1. c \in Seq(AnyCell)
    BY <1>0, SelfType
  <2> HIDE DEF c
  <2>2. 0 \in 0..Len(c) /\ written' = 0
    BY <2>1
  <2> QED
    BY <2>2 DEF c
<1>2. StartupTypeOK'
  <2>1. /\ me'.id \in Id /\ me'.key \in 0..MaxKeys /\ me'.registered \in BOOLEAN
        /\ me'.name \in Seq([kind : {"name", "hex", "base64"}, of : 0..MaxKeys])
        /\ Len(me'.name) <= MaxName
    BY <1>0, SelfType
  <2>2. text' \in Texts /\ port' \in 0..MaxPort
    BY NoText, StartupAssumption
  <2> QED
    BY <1>1, <2>1, <2>2 DEF StartInv, StartupTypeOK
<1> QED
  BY <1>0, <1>2 DEF StartInv, IdentityOfOneRegistration, ServerInfoRead, Begun

\* Every step of the composition is one of the process, or none.
LEMMA StartSteps ==
  ASSUME Next
  PROVE  \/ read_server_info \/ construct \/ registerClient \/ write_file \/ write \/ close
         \/ ends \/ UNCHANGED startupVars
BY Zenon DEF Next, process_runs, process_ends, sendTextMessage, sendKeyMessage, sendMessage,
   requestPendingMessages, handleMessage, printMessages

LEMMA StartStep == StartInv /\ [Next]_vars => StartInv'
<1> SUFFICES ASSUME StartInv, [Next]_vars PROVE StartInv'
  OBVIOUS
<1>1. CASE UNCHANGED startupVars
  BY <1>1 DEF startupVars, StartInv, StartupTypeOK, IdentityOfOneRegistration, ServerInfoRead, Begun
<1>2. Next => StartInv'
  BY <1>1, StartSteps, ReadServerInfoStep, ConstructStep, RegisterClientStep, WriteFileStep,
     WriteStep, CloseStep, EndsStep
<1>3. UNCHANGED vars => UNCHANGED startupVars
  BY DEF vars
<1> QED
  BY <1>1, <1>2, <1>3

-----------------------------------------------------------------------------
(* A collection.                                                            *)

\* What was meant, if it was shorter than 2^32 bytes, has kept its length.
KeepsLength(m) == m.meant < Width => m.size = whole(m)

LengthsKept ==
  /\ \A k \in 1..MaxKeys : \A i \in DOMAIN mailbox[k] : KeepsLength(mailbox[k][i])
  /\ \A i \in DOMAIN payload : KeepsLength(payload[i])

CollectionInv ==
  /\ CollectionTypeOK
  /\ LengthsKept
  /\ Total(payload) < Width
  /\ Len(parsed) <= Len(payload)
  /\ offset = Ends(payload)[Len(parsed)]
  /\ \A i \in DOMAIN parsed : parsed[i] = payload[i].size

\* Where a message ends, the messages before it have ended.
LEMMA EndsRise ==
  ASSUME NEW s \in Seq(Message), NEW i \in 0..Len(s), NEW j \in 0..Len(s), i < j
  PROVE  Ends(s)[i] < Ends(s)[j]
<1> DEFINE end == Ends(s)
           T == {m \in 0..Len(s) : i < m => end[i] < end[m]}
<1>0. Len(s) \in Nat /\ RecievedMessageHeader \in Nat \ {0}
  BY CollectionAssumption
<1>1. /\ end \in [0..Len(s) -> Nat]
      /\ \A m \in 1..Len(s) : end[m] = end[m - 1] + RecievedMessageHeader + s[m].size
  BY EndsAre
<1> HIDE DEF end
<1>2. 0 \in T
  BY <1>0
<1>3. ASSUME NEW m \in 1..Len(s), m - 1 \in T PROVE m \in T
  <2>1. s[m].size \in Nat
    <3>1. s[m] \in Message
      OBVIOUS
    <3> QED
      BY <3>1, CollectionAssumption DEF Message
  <2>2. end[m - 1] \in Nat /\ end[m] \in Nat /\ end[i] \in Nat
    <3>1. m - 1 \in 0..Len(s) /\ m \in 0..Len(s)
      BY <1>0
    <3> QED
      BY <1>1, <3>1
  <2>3. end[m] = end[m - 1] + RecievedMessageHeader + s[m].size
    BY <1>1
  <2>4. end[m - 1] < end[m]
    BY <1>0, <2>1, <2>2, <2>3
  <2>5. i < m => i = m - 1 \/ i < m - 1
    OBVIOUS
  <2>6. i < m - 1 => end[i] < end[m - 1]
    BY <1>3
  <2>7. i < m => end[i] < end[m]
    BY <2>2, <2>4, <2>5, <2>6
  <2> QED
    BY <2>7
<1>4. j \in T
  <2> HIDE DEF T
  <2>1. 0..Len(s) \subseteq T
    BY <1>0, <1>2, <1>3, UpTo
  <2> QED
    BY <2>1
<1> QED
  BY <1>4 DEF end

\* Where the loop stands: behind the messages it has parsed, and a payload that is not
\* at its end has the whole of the next one.
LEMMA LoopIs ==
  ASSUME CollectionInv
  PROVE  /\ Len(payload) \in Nat /\ Len(parsed) \in 0..Len(payload) /\ payload \in Seq(Message)
         /\ Ends(payload) \in [0..Len(payload) -> Nat]
         /\ offset = Total(payload) <=> Len(parsed) = Len(payload)
         /\ offset \in 0..Total(payload)
         /\ offset < Total(payload) =>
              /\ Len(parsed) + 1 \in 1..Len(payload)
              /\ payload[Len(parsed) + 1].size \in Nat
              /\ payload[Len(parsed) + 1].size \in 0..(Width - 1)
              /\ NextMessage(offset, payload[Len(parsed) + 1].size) = Ends(payload)[Len(parsed) + 1]
              /\ Ends(payload)[Len(parsed) + 1] <= Total(payload)
              /\ HeaderAt(offset) = {payload[Len(parsed) + 1].size}
<1> DEFINE k == Len(parsed)
           size == payload[k + 1].size
<1>0. /\ payload \in Seq(Message) /\ Len(payload) \in Nat /\ k \in Nat /\ k <= Len(payload)
      /\ offset = Ends(payload)[k] /\ RecievedMessageHeader \in Nat \ {0}
      /\ MaxBlob \in Nat /\ Width \in Nat /\ MaxBlob < Width
  <2>1. payload \in Seq(Message) /\ parsed \in Seq(0..(Width - 1))
    BY DEF CollectionInv, CollectionTypeOK
  <2>2. Len(payload) \in Nat /\ Len(parsed) \in Nat
    BY <2>1
  <2> QED
    BY <2>1, <2>2, CollectionAssumption DEF CollectionInv
<1>1. /\ Ends(payload) \in [0..Len(payload) -> Nat]
      /\ \A i \in 1..Len(payload) :
           Ends(payload)[i] = Ends(payload)[i - 1] + RecievedMessageHeader + payload[i].size
  BY <1>0, EndsAre
<1>2. \A i, j \in 0..Len(payload) : i < j => Ends(payload)[i] < Ends(payload)[j]
  BY <1>0, EndsRise
<1>3. Total(payload) = Ends(payload)[Len(payload)] /\ Total(payload) \in Nat
  BY <1>0, <1>1 DEF Total
<1> HIDE DEF k
<1>4. k \in 0..Len(payload) /\ offset \in Nat
  BY <1>0, <1>1
<1>5. k < Len(payload) => offset < Total(payload)
  BY <1>0, <1>2, <1>3, <1>4
<1>6. k = Len(payload) => offset = Total(payload)
  BY <1>0, <1>3
<1>7. ASSUME offset < Total(payload)
      PROVE  /\ k + 1 \in 1..Len(payload)
             /\ size \in Nat
             /\ size \in 0..(Width - 1)
             /\ NextMessage(offset, size) = Ends(payload)[k + 1]
             /\ Ends(payload)[k + 1] <= Total(payload)
             /\ HeaderAt(offset) = {size}
  <2>1. k + 1 \in 1..Len(payload) /\ k + 1 \in 0..Len(payload) /\ (k + 1) - 1 = k
    BY <1>0, <1>3, <1>4, <1>6, <1>7
  <2>2. payload[k + 1] \in Message
    BY <1>0, <2>1
  <2>3. size \in Nat /\ size \in 0..(Width - 1)
    BY <1>0, <2>2 DEF Message
  <2>4. NextMessage(offset, size) = Ends(payload)[k + 1]
    BY <1>0, <1>1, <2>1 DEF NextMessage
  <2>5. Ends(payload)[k + 1] <= Total(payload)
    <3>1. k + 1 = Len(payload) \/ k + 1 < Len(payload)
      BY <1>0, <2>1
    <3>2. Len(payload) \in 0..Len(payload) /\ Ends(payload)[k + 1] \in Nat
      BY <1>0, <1>1, <2>1
    <3> QED
      BY <1>2, <1>3, <2>1, <3>1, <3>2
  <2>6. {i \in DOMAIN payload : Ends(payload)[i - 1] = offset} = {k + 1}
    <3>1. ASSUME NEW i \in 1..Len(payload), Ends(payload)[i - 1] = offset PROVE i = k + 1
      <4>1. i - 1 \in 0..Len(payload) /\ i \in Nat
        BY <1>0
      <4>2. ~ (i - 1 < k)
        BY <1>0, <1>2, <1>4, <3>1, <4>1
      <4>3. ~ (k < i - 1)
        BY <1>0, <1>2, <1>4, <3>1, <4>1
      <4> QED
        BY <1>0, <4>1, <4>2, <4>3
    <3>2. Ends(payload)[(k + 1) - 1] = offset
      BY <1>0, <2>1
    <3>3. DOMAIN payload = 1..Len(payload)
      BY <1>0
    <3> QED
      BY <2>1, <3>1, <3>2, <3>3
  <2>7. HeaderAt(offset) = {size}
    <3> DEFINE here == {i \in DOMAIN payload : Ends(payload)[i - 1] = offset}
    <3>1. HeaderAt(offset) = IF here = {} THEN 0..(Width - 1) ELSE {payload[i].size : i \in here}
      BY DEF HeaderAt, Announced
    <3>2. here = {k + 1}
      BY <2>6
    <3> HIDE DEF here
    <3> QED
      BY <3>1, <3>2
  <2> QED
    BY <2>1, <2>3, <2>4, <2>5, <2>7
<1> HIDE DEF size
<1> QED
  BY <1>0, <1>1, <1>3, <1>4, <1>5, <1>6, <1>7 DEF k, size

LEMMA CollectionInitial == Init => CollectionInv
<1> SUFFICES ASSUME Init PROVE CollectionInv
  OBVIOUS
<1> USE DEF Init, CollectionInit
<1>1. Total(payload) = 0 /\ Ends(payload)[Len(parsed)] = 0
  <2>1. <<>> \in Seq(Message) /\ Len(<<>>) = 0
    OBVIOUS
  <2> QED
    BY <2>1, EndsAre DEF Total
<1>2. Width \in Nat \ {0} /\ MaxPosts \in Nat
  BY CollectionAssumption
<1>3. CollectionTypeOK
  BY <1>2 DEF CollectionTypeOK
<1>4. LengthsKept
  BY DEF LengthsKept
<1> QED
  BY <1>1, <1>2, <1>3, <1>4 DEF CollectionInv

\* A text shorter than 2^32 bytes is encrypted whole.
LEMMA EncryptIs ==
  ASSUME NEW n \in Nat
  PROVE  encrypt(n) \in Nat /\ (n < Width => encrypt(n) = sealed(n))
<1>1. /\ Width \in Nat \ {0} /\ Block \in Nat \ {0}
      /\ n % Width \in Nat /\ (n < Width => n % Width = n)
  <2>1. Width \in Nat \ {0} /\ Block \in Nat \ {0}
    BY CollectionAssumption
  <2> QED
    BY <2>1
<1>2. ASSUME NEW r \in Nat PROVE sealed(r) \in Nat
  <2>1. (r \div Block) + 1 \in Nat
    BY <1>1
  <2> DEFINE q == (r \div Block) + 1
  <2>2. sealed(r) = Block * q
    BY DEF sealed
  <2> HIDE DEF q
  <2>3. Block * q \in Nat
    BY <1>1, <2>1 DEF q
  <2> QED
    BY <2>2, <2>3
<1> QED
  BY <1>1, <1>2 DEF encrypt

\* What is handed to Message is as long as what was meant.
LEMMA SendMessageStep ==
  ASSUME StartInv, CollectionInv,
         NEW t \in BOOLEAN, NEW n \in PlainLengths \cup KeyContents, NEW length \in Nat,
         n < Width => length = (IF t THEN sealed(n) ELSE n),
         sendMessage(t, n, length)
  PROVE  CollectionInv'
<1> USE DEF sendMessage
<1>1. PICK e \in enrolled, size \in content_size(length) :
        /\ size <= MaxBlob
        /\ mailbox' = [mailbox EXCEPT ![e.key] = Append(@, [text |-> t, meant |-> n, size |-> size])]
  OBVIOUS
<1> DEFINE message == [text |-> t, meant |-> n, size |-> size]
           box == mailbox[e.key]
<1>2. size = length /\ message \in Message /\ KeepsLength(message)
  <2>1. size = length /\ size \in 0..MaxBlob
    BY <1>1, CollectionAssumption DEF content_size
  <2>2. message \in Message
    BY <2>1 DEF Message
  <2>3. KeepsLength(message)
    BY <2>1 DEF KeepsLength, whole
  <2> QED
    BY <2>1, <2>2, <2>3
<1>3. e.key \in 1..MaxKeys
  BY EnrollableType DEF StartInv
<1>4. /\ mailbox \in [1..MaxKeys -> Seq(Message)] /\ box \in Seq(Message)
      /\ \A i \in DOMAIN box : KeepsLength(box[i])
  BY <1>3 DEF CollectionInv, CollectionTypeOK, LengthsKept
<1>5. /\ Append(box, message) \in Seq(Message)
      /\ \A i \in DOMAIN Append(box, message) : KeepsLength(Append(box, message)[i])
  <2> HIDE DEF message, box
  <2> QED
    BY <1>2, <1>4
<1>6. mailbox' = [mailbox EXCEPT ![e.key] = Append(box, message)]
  BY <1>1
<1> HIDE DEF box, message
<1>7. mailbox' \in [1..MaxKeys -> Seq(Message)]
  BY <1>4, <1>5, <1>6
<1>8. \A k \in 1..MaxKeys : \A i \in DOMAIN mailbox'[k] : KeepsLength(mailbox'[k][i])
  <2> SUFFICES ASSUME NEW k \in 1..MaxKeys
               PROVE  \A i \in DOMAIN mailbox'[k] : KeepsLength(mailbox'[k][i])
    OBVIOUS
  <2>1. CASE k = e.key
    <3>1. mailbox'[k] = Append(box, message)
      BY <1>3, <1>4, <1>6, <2>1
    <3> QED
      BY <1>5, <3>1
  <2>2. CASE k # e.key
    <3>1. mailbox'[k] = mailbox[k]
      BY <1>4, <1>6, <2>2
    <3>2. \A i \in DOMAIN mailbox[k] : KeepsLength(mailbox[k][i])
      BY DEF CollectionInv, LengthsKept
    <3> QED
      BY <3>1, <3>2
  <2> QED
    BY <2>1, <2>2
<1>9. posted' \in 0..MaxPosts
  BY CollectionAssumption DEF CollectionInv, CollectionTypeOK
<1>10. UNCHANGED <<payload, offset, parsed>>
  OBVIOUS
<1>11. CollectionTypeOK'
  <2>1. payload' # <<>> => phase' = "prompt" /\ me'.registered
    BY DEF CollectionInv, CollectionTypeOK, startupVars
  <2>2. /\ payload' \in Seq(Message)
        /\ offset' \in 0..(Width - 1) /\ parsed' \in Seq(0..(Width - 1))
    BY <1>10 DEF CollectionInv, CollectionTypeOK
  <2> QED
    BY <1>7, <1>9, <2>1, <2>2, Zenon DEF CollectionTypeOK
<1>12. LengthsKept'
  BY <1>8, <1>10 DEF CollectionInv, LengthsKept
<1> QED
  BY <1>10, <1>11, <1>12 DEF CollectionInv, Total, Ends

LEMMA RequestStep ==
  ASSUME StartInv, CollectionInv, requestPendingMessages
  PROVE  CollectionInv'
<1> USE DEF requestPendingMessages
<1>0. me.key \in 1..MaxKeys
  BY StartupAssumption DEF StartInv, StartupTypeOK
<1>1. /\ mailbox \in [1..MaxKeys -> Seq(Message)]
      /\ \A k \in 1..MaxKeys : \A i \in DOMAIN mailbox[k] : KeepsLength(mailbox[k][i])
      /\ posted \in 0..MaxPosts
      /\ parsed \in Seq(0..(Width - 1)) /\ payload = <<>> /\ payload \in Seq(Message)
  BY DEF CollectionInv, CollectionTypeOK, LengthsKept
<1>2. parsed = <<>>
  <2>1. Len(parsed) \in Nat /\ Len(parsed) <= 0
    BY <1>1 DEF CollectionInv
  <2> QED
    BY <1>1, <2>1, EmptySeq
<1>3. mailbox' = [mailbox EXCEPT ![me.key] = <<>>]
  BY DEF Mine
<1>4. mailbox' \in [1..MaxKeys -> Seq(Message)]
  BY <1>1, <1>3
<1>5. \A k \in 1..MaxKeys : \A i \in DOMAIN mailbox'[k] : KeepsLength(mailbox'[k][i])
  <2> SUFFICES ASSUME NEW k \in 1..MaxKeys, NEW i \in DOMAIN mailbox'[k]
               PROVE  KeepsLength(mailbox'[k][i])
    OBVIOUS
  <2>1. CASE k = me.key
    <3>1. mailbox'[k] = <<>>
      BY <1>1, <1>3, <2>1
    <3> QED
      BY <3>1
  <2>2. CASE k # me.key
    <3>1. mailbox'[k] = mailbox[k]
      BY <1>1, <1>3, <2>2
    <3> QED
      BY <1>1, <3>1
  <2> QED
    BY <2>1, <2>2
<1>6. /\ payload' \in Seq(Message) /\ Total(payload') < Width
      /\ \A i \in DOMAIN payload' : KeepsLength(payload'[i])
  <2>1. CASE Packs(Total(mailbox[Mine])) /\ payload' = mailbox[Mine]
    BY <1>0, <1>1, <2>1 DEF Packs, Mine
  <2>2. CASE payload' = payload
    BY <1>1, <2>2 DEF CollectionInv, LengthsKept
  <2> QED
    BY <2>1, <2>2
<1>7. offset = 0 /\ Ends(payload')[0] = 0 /\ Len(payload') \in Nat
  <2>1. Ends(payload)[0] = 0 /\ Ends(payload')[0] = 0
    BY <1>1, <1>6, EndsAre
  <2>2. Len(payload') \in Nat
    BY <1>6
  <2>3. Len(parsed) = 0 /\ offset = Ends(payload)[Len(parsed)]
    BY <1>2 DEF CollectionInv
  <2> QED
    BY <2>1, <2>2, <2>3
<1>8. parsed' = <<>> /\ offset' = 0 /\ Len(parsed') = 0 /\ Width \in Nat \ {0}
  BY <1>2, <1>7, CollectionAssumption
<1>9. CollectionTypeOK'
  <2>1. payload' # <<>> => phase' = "prompt" /\ me'.registered
    BY DEF startupVars
  <2>2. posted' \in 0..MaxPosts /\ offset' \in 0..(Width - 1) /\ parsed' \in Seq(0..(Width - 1))
    BY <1>1, <1>8
  <2> QED
    BY <1>4, <1>6, <2>1, <2>2, Zenon DEF CollectionTypeOK
<1>10. LengthsKept'
  BY <1>5, <1>6 DEF LengthsKept
<1> QED
  BY <1>6, <1>7, <1>8, <1>9, <1>10 DEF CollectionInv

LEMMA ThroughStep ==
  ASSUME CollectionInv, Through, UNCHANGED <<mailbox, posted>>
  PROVE  CollectionInv'
<1> USE DEF Through
<1>1. Total(payload') = 0 /\ Ends(payload')[Len(parsed')] = 0
  <2>1. <<>> \in Seq(Message) /\ Len(<<>>) = 0
    OBVIOUS
  <2> QED
    BY <2>1, EndsAre DEF Total
<1>2. Width \in Nat \ {0}
  BY CollectionAssumption
<1>3. CollectionTypeOK'
  <2>1. /\ mailbox' \in [1..MaxKeys -> Seq(Message)]
        /\ posted' \in 0..MaxPosts
    BY DEF CollectionInv, CollectionTypeOK
  <2>2. /\ payload' \in Seq(Message)
        /\ offset' \in 0..(Width - 1) /\ parsed' \in Seq(0..(Width - 1))
    BY <1>2
  <2>3. payload' # <<>> => phase' = "prompt" /\ me'.registered
    OBVIOUS
  <2> QED
    BY <2>1, <2>2, <2>3, Zenon DEF CollectionTypeOK
<1>4. LengthsKept'
  BY DEF CollectionInv, LengthsKept
<1> QED
  BY <1>1, <1>2, <1>3, <1>4 DEF CollectionInv

LEMMA HandleMessageStep ==
  ASSUME CollectionInv, handleMessage
  PROVE  CollectionInv'
<1> USE DEF handleMessage
<1> DEFINE k == Len(parsed)
           m == payload[k + 1].size
<1>0. PICK size \in HeaderAt(offset) :
        \/ /\ NextMessage(offset, size) <= Total(payload)
           /\ offset' = NextMessage(offset, size)
           /\ parsed' = Append(parsed, size)
           /\ UNCHANGED payload
        \/ Through
  OBVIOUS
<1>1. CASE Through
  BY <1>1, ThroughStep
<1>2. CASE /\ offset' = NextMessage(offset, size)
           /\ parsed' = Append(parsed, size)
           /\ UNCHANGED payload
  <2>1. /\ payload \in Seq(Message) /\ Len(payload) \in Nat /\ k \in Nat
        /\ k + 1 \in 1..Len(payload) /\ m \in 0..(Width - 1)
        /\ NextMessage(offset, m) = Ends(payload)[k + 1]
        /\ Ends(payload)[k + 1] <= Total(payload) /\ Ends(payload)[k + 1] \in Nat
        /\ HeaderAt(offset) = {m}
    <3>1. /\ payload \in Seq(Message) /\ Len(payload) \in Nat /\ k \in 0..Len(payload)
          /\ Ends(payload) \in [0..Len(payload) -> Nat]
          /\ k + 1 \in 1..Len(payload) /\ m \in 0..(Width - 1)
          /\ NextMessage(offset, m) = Ends(payload)[k + 1]
          /\ Ends(payload)[k + 1] <= Total(payload)
          /\ HeaderAt(offset) = {m}
      BY LoopIs
    <3> QED
      BY <3>1
  <2>2. size = m
    BY <2>1
  <2>3. /\ parsed \in Seq(0..(Width - 1))
        /\ \A i \in 1..k : parsed[i] = payload[i].size
    BY DEF CollectionInv, CollectionTypeOK
  <2> HIDE DEF m
  <2>4. /\ parsed' \in Seq(0..(Width - 1)) /\ Len(parsed') = k + 1
        /\ \A i \in 1..(k + 1) : parsed'[i] = payload[i].size
    <3>1. parsed' = Append(parsed, m)
      BY <1>2, <2>2
    <3> QED
      BY <2>1, <2>3, <3>1 DEF m
  <2>5. offset' = Ends(payload)[k + 1]
    BY <1>2, <2>1, <2>2
  <2>6. Total(payload) < Width /\ Width \in Nat /\ Total(payload) \in Nat
    <3>1. Total(payload) \in Nat
      <4>1. Len(payload) \in 0..Len(payload)
        BY <2>1
      <4> QED
        BY <2>1, <4>1, EndsAre DEF Total
    <3> QED
      BY <3>1, CollectionAssumption DEF CollectionInv
  <2>7. offset' \in 0..(Width - 1)
    BY <2>1, <2>5, <2>6
  <2>8. CollectionTypeOK'
    BY <1>2, <2>4, <2>7 DEF CollectionInv, CollectionTypeOK, startupVars
  <2>9. LengthsKept'
    BY <1>2 DEF CollectionInv, LengthsKept
  <2>10. Total(payload)' = Total(payload) /\ Ends(payload)' = Ends(payload) /\ Len(payload)' = Len(payload)
    BY <1>2
  <2>11. \A i \in DOMAIN parsed' : parsed'[i] = payload'[i].size
    BY <1>2, <2>4
  <2> QED
    BY <1>2, <2>1, <2>4, <2>5, <2>6, <2>8, <2>9, <2>10, <2>11 DEF CollectionInv
<1> QED
  BY <1>0, <1>1, <1>2

\* While a collection is in hand the process does nothing but take it apart.
LEMMA ProcessRunsStep ==
  ASSUME CollectionInv, process_runs
  PROVE  CollectionInv'
<1>1. UNCHANGED collectionVars
  BY DEF process_runs
<1>2. UNCHANGED <<mailbox, posted, payload, offset, parsed>>
  BY <1>1 DEF collectionVars
<1>3. payload = <<>>
  <2> SUFFICES ASSUME payload # <<>> PROVE FALSE
    OBVIOUS
  <2>1. phase = "prompt" /\ me.registered
    BY DEF CollectionInv, CollectionTypeOK
  <2> QED
    BY <2>1 DEF process_runs, read_server_info, construct, registerClient, write_file, write, close
<1>4. CollectionTypeOK'
  <2>1. /\ mailbox' \in [1..MaxKeys -> Seq(Message)]
        /\ posted' \in 0..MaxPosts
        /\ payload' \in Seq(Message)
        /\ offset' \in 0..(Width - 1) /\ parsed' \in Seq(0..(Width - 1))
    BY <1>2 DEF CollectionInv, CollectionTypeOK
  <2>2. payload' # <<>> => phase' = "prompt" /\ me'.registered
    BY <1>2, <1>3
  <2> QED
    BY <2>1, <2>2, Zenon DEF CollectionTypeOK
<1> QED
  BY <1>2, <1>4 DEF CollectionInv, LengthsKept, Total, Ends

LEMMA CollectionStep == StartInv /\ CollectionInv /\ [Next]_vars => CollectionInv'
<1> SUFFICES ASSUME StartInv, CollectionInv, [Next]_vars PROVE CollectionInv'
  OBVIOUS
<1>1. CASE process_runs
  BY <1>1, ProcessRunsStep
<1>2. CASE process_ends
  BY <1>2, ThroughStep DEF process_ends
<1>3. ASSUME NEW n \in PlainLengths, sendTextMessage(n) PROVE CollectionInv'
  <2>1. encrypt(n) \in Nat /\ (n < Width => encrypt(n) = sealed(n))
    BY CollectionAssumption, EncryptIs
  <2> QED
    BY <1>3, <2>1, SendMessageStep DEF sendTextMessage
<1>8. ASSUME NEW n \in KeyContents, sendKeyMessage(n) PROVE CollectionInv'
  BY <1>8, CollectionAssumption, SendMessageStep DEF sendKeyMessage
<1>4. CASE requestPendingMessages
  BY <1>4, RequestStep
<1>5. CASE handleMessage
  BY <1>5, HandleMessageStep
<1>6. CASE printMessages
  BY <1>6, ThroughStep DEF printMessages
<1>7. CASE UNCHANGED vars
  <2>1. UNCHANGED <<mailbox, posted, payload, offset, parsed, phase, me>>
    BY <1>7 DEF vars, startupVars, collectionVars
  <2> QED
    BY <2>1 DEF CollectionInv, CollectionTypeOK, LengthsKept, Total, Ends
<1> QED
  BY <1>1, <1>2, <1>3, <1>4, <1>5, <1>6, <1>7, <1>8 DEF Next

-----------------------------------------------------------------------------
(* The theorems.                                                            *)

\* Everything a client reads from its two files, keeps of them and knows of itself
\* has its type, whatever was written into server.info and wherever a save ended
\* (client.cpp, the constructor, read_server_info, read_me_info and save_me_info).
THEOREM StartupTypes == Spec => []StartupTypeOK
<1>1. Init => StartInv
  BY StartInit DEF Init
<1>2. StartInv => StartupTypeOK
  BY DEF StartInv
<1> QED
  BY <1>1, <1>2, StartStep, PTL DEF Spec

\* Whatever was left in its fields by a me.info it could not use, and of whatever
\* length an interrupted save left that file, a process that takes itself for
\* registered has a name, an identifier and a key that the server holds together
\* (client.cpp, read_me_info and registerClient).
THEOREM OneRegistration == Spec => []IdentityOfOneRegistration
<1>1. Init => StartInv
  BY StartInit DEF Init
<1>2. StartInv => IdentityOfOneRegistration
  BY DEF StartInv
<1> QED
  BY <1>1, <1>2, StartStep, PTL DEF Spec

\* For server.info of any length, a client starts exactly with one that configures
\* a port between 1 and the largest, and uses that port (client.cpp,
\* read_server_info).
THEOREM ServerInfoIsRead == Spec => []ServerInfoRead
<1>1. Init => StartInv
  BY StartInit DEF Init
<1>2. StartInv => ServerInfoRead
  BY DEF StartInv
<1> QED
  BY <1>1, <1>2, StartStep, PTL DEF Spec

\* Between two writes to it me.info says what it said, or nothing, or what the process
\* that saves says of itself: a save that ends anywhere leaves no mixture of two
\* identities (client.cpp, save_me_info).
THEOREM SavedIdentity == Spec => SavedIsOneIdentity
<1>1. Init => StartInv
  BY StartInit DEF Init
<1>2. ASSUME StartInv, StartInv', [Next]_vars
      PROVE  [file' # file =>
                \/ Saved' \subseteq Saved
                \/ me.registered /\ Saved' = {Identity(me)}]_startupVars
  <2> SUFFICES ASSUME file' # file
               PROVE  \/ Saved' \subseteq Saved
                      \/ me.registered /\ Saved' = {Identity(me)}
    OBVIOUS
  <2>1. phase' = "writing" /\ me' = me
    <3>1. file' # file => ~ UNCHANGED startupVars
      BY DEF startupVars
    <3>2. Next
      BY <1>2, <3>1 DEF vars
    <3>3. write_file \/ write
      BY <3>1, <3>2, StartSteps DEF read_server_info, construct, registerClient, close, ends
    <3> QED
      BY <3>3 DEF write_file, write
  <2>2. /\ me'.registered /\ written' \in 0..Len(content(me'))
        /\ file' = SubSeq(content(me'), 1, written')
    BY <1>2, <2>1 DEF StartInv, StartupTypeOK
  <2>3. Identity(me) \in Enrollable
    <3>1. me.registered
      BY <2>1, <2>2
    <3> QED
      BY <1>2, <3>1, Writer
  <2>4. content(Identity(me)) = content(me)
    BY DEF content, Identity
  <2>5. read_me_info(file', 0).registered => Identity(read_me_info(file', 0)) = Identity(me)
    <3>1. 0 \in 0..MaxKeys
      BY StartupAssumption
    <3>2. written' \in 0..Len(content(Identity(me))) /\ file' = SubSeq(content(Identity(me)), 1, written')
      BY <2>1, <2>2, <2>4
    <3> QED
      BY <2>3, <3>1, <3>2, ReadBack
  <2>6. Saved' \subseteq {Identity(me)}
    BY <2>5 DEF Saved
  <2>7. me.registered
    BY <2>1, <2>2
  <2> QED
    BY <2>6, <2>7
<1> QED
  BY <1>1, <1>2, StartStep, PTL DEF Spec, SavedIsOneIdentity

\* What the server keeps for a client, and where the client stands in a collection,
\* has its type: the offset of the loop fits in 32 bits, and a collection is taken
\* apart by a registered client at its prompt (client.cpp, requestPendingMessages).
THEOREM CollectionTypes == Spec => []CollectionTypeOK
<1>1. Init => StartInv /\ CollectionInv
  BY StartInit, CollectionInitial DEF Init
<1>2. CollectionInv => CollectionTypeOK
  BY DEF CollectionInv
<1> QED
  BY <1>1, <1>2, StartStep, CollectionStep, PTL DEF Spec

\* Every content the loop hands on has the length of all its sender meant, if that was
\* less than 2^32: for every block size, width of the length fields and limit of the
\* database, no conversion on the way shortens it (AESWrapper.cpp, encrypt; objects.cpp,
\* Message; objects.py, Message; client.cpp, requestPendingMessages).
THEOREM ShortContentsAreRead == Spec => []ReadAsMeant
<1>1. Init => StartInv /\ CollectionInv
  BY StartInit, CollectionInitial DEF Init
<1>2. CollectionInv => ReadAsMeant
  <2> SUFFICES ASSUME CollectionInv, NEW i \in DOMAIN parsed
               PROVE  KeepsLength(payload[i]) /\ parsed[i] = payload[i].size
    BY DEF ReadAsMeant, KeepsLength
  <2>1. i \in DOMAIN payload
    <3>1. parsed \in Seq(0..(Width - 1)) /\ payload \in Seq(Message) /\ Len(parsed) <= Len(payload)
      BY DEF CollectionInv, CollectionTypeOK
    <3> QED
      BY <3>1
  <2> QED
    BY <2>1 DEF CollectionInv, LengthsKept
<1> QED
  BY <1>1, <1>2, StartStep, CollectionStep, PTL DEF Spec

\* The header the loop reads before it tests any length lies within the payload, for
\* any number of messages of any lengths (client.cpp, requestPendingMessages).
THEOREM LoopReadsInside == Spec => []ReadsInside
<1>1. Init => StartInv /\ CollectionInv
  BY StartInit, CollectionInitial DEF Init
<1>2. CollectionInv => ReadsInside
  <2> SUFFICES ASSUME CollectionInv, offset < Total(payload)
               PROVE  offset + RecievedMessageHeader <= Total(payload)
    BY DEF ReadsInside
  <2> DEFINE m == payload[Len(parsed) + 1].size
             e == Ends(payload)[Len(parsed) + 1]
  <2>1. m \in Nat /\ NextMessage(offset, m) = e /\ e <= Total(payload) /\ offset \in 0..Total(payload)
    BY LoopIs
  <2>2. Total(payload) \in Nat
    <3>1. Len(payload) \in 0..Len(payload) /\ Ends(payload) \in [0..Len(payload) -> Nat]
      BY LoopIs
    <3> QED
      BY <3>1 DEF Total
  <2> HIDE DEF m, e
  <2> QED
    BY <2>1, <2>2, CollectionAssumption DEF NextMessage
<1> QED
  BY <1>1, <1>2, StartStep, CollectionStep, PTL DEF Spec

\* The loop, which knows no messages, only an offset in bytes, finds each message of a
\* collection once, in order and with its length, and all of them if it comes to the
\* end (client.cpp, requestPendingMessages).
THEOREM LoopFindsAll == Spec => []ParsedInOrder
<1>1. Init => StartInv /\ CollectionInv
  BY StartInit, CollectionInitial DEF Init
<1>2. CollectionInv => ParsedInOrder
  <2> SUFFICES ASSUME CollectionInv PROVE ParsedInOrder
    OBVIOUS
  <2>1. /\ Len(payload) \in Nat /\ Len(parsed) \in 0..Len(payload) /\ payload \in Seq(Message)
        /\ offset = Total(payload) <=> Len(parsed) = Len(payload)
    BY LoopIs
  <2>2. \A i \in DOMAIN parsed : parsed[i] = payload[i].size
    BY DEF CollectionInv
  <2>3. DOMAIN parsed \subseteq DOMAIN payload
    <3>1. parsed \in Seq(0..(Width - 1))
      BY DEF CollectionInv, CollectionTypeOK
    <3> QED
      BY <2>1, <3>1
  <2> QED
    BY <2>1, <2>2, <2>3 DEF ParsedInOrder
<1> QED
  BY <1>1, <1>2, StartStep, CollectionStep, PTL DEF Spec
=============================================================================
