------------------------- MODULE SingleInstanceProofs -------------------------
(***************************************************************************)
(* Theorems about SingleInstance.tla: its types with what flock() keeps    *)
(* apart, in all worlds, and that in the orderly ones the file records the *)
(* instance that runs.  First what sprintf() and atol() compute: Text and  *)
(* Number are recursive functions, so each has to be shown to exist before *)
(* anything follows from its rule.                                         *)
(***************************************************************************)
EXTENDS SingleInstance, FiniteSetTheorems, WellFoundedInduction, TLAPS

Digits == Seq(0..9)

(* A set that holds each number below which it holds all of them is all of *)
(* Nat: a least number outside of it would be in it.                       *)
LEMMA StrongInduction ==
  ASSUME NEW S, \A n \in Nat : (\A m \in 0..(n - 1) : m \in S) => n \in S
  PROVE  \A n \in Nat : n \in S
<1> DEFINE T == Nat \ S
<1> DEFINE R == {p \in Nat \X Nat : p[1] < p[2]}
<1>1. IsWellFoundedOn(R, Nat)
  <2>1. OpToRel(<, Nat) = R
    BY DEF OpToRel
  <2> QED
    BY <2>1, NatLessThanWellFounded
<1>2. ASSUME T # {} PROVE FALSE
  <2>1. PICK n \in T : \A m \in T : <<m, n>> \notin R
    <3> HIDE DEF R
    <3> QED
      BY <1>1, <1>2, WFMin
  <2>2. \A m \in 0..(n - 1) : m \in Nat /\ m < n
    OBVIOUS
  <2> QED
    BY <2>1, <2>2
<1> QED
  BY <1>2

(* A set that holds 0 and what follows each of its numbers is all of Nat.  *)
LEMMA Induction ==
  ASSUME NEW S, 0 \in S, \A n \in Nat : n \in S => n + 1 \in S
  PROVE  \A n \in Nat : n \in S
<1>1. ASSUME NEW n \in Nat, \A m \in 0..(n - 1) : m \in S PROVE n \in S
  <2>1. CASE n = 0
    BY <2>1
  <2>2. CASE n > 0
    <3>1. n - 1 \in 0..(n - 1) /\ n - 1 \in Nat /\ (n - 1) + 1 = n
      BY <2>2
    <3> QED
      BY <1>1, <3>1
  <2> QED
    BY <2>1, <2>2
<1> QED
  BY <1>1, StrongInduction

(* The last digit of a number and what is left of it.                     *)
LEMMA Tenth ==
  ASSUME NEW n \in Nat, n >= 10
  PROVE  n \div 10 \in 0..(n - 1) /\ n % 10 \in 0..9 /\ n = 10 * (n \div 10) + (n % 10)
<1> DEFINE q == n \div 10
<1> DEFINE r == n % 10
<1>1. q \in Int /\ r \in 0..9
  OBVIOUS
<1>2. r = n - 10 * q
  OBVIOUS
<1> HIDE DEF q, r
<1>3. q \in 0..(n - 1) /\ n = 10 * q + r
  BY <1>1, <1>2
<1> QED
  BY <1>1, <1>3 DEF q, r

(* The digits of a number are those of its tenth and one more.             *)
LEMMA Decimal ==
  ASSUME NEW pid \in Nat
  PROVE  \E d : /\ \A n \in 0..pid : d[n] = IF n < 10 THEN <<n>> ELSE Append(d[n \div 10], n % 10)
                /\ Text(pid) = d[pid]
<1> DEFINE Rule(d, k) == d = [n \in 0..k |-> IF n < 10 THEN <<n>> ELSE Append(d[n \div 10], n % 10)]
<1> DEFINE S == {k \in Nat : \E d : Rule(d, k)}
<1>1. 0 \in S
  <2> DEFINE d == [n \in 0..0 |-> <<0>>]
  <2>1. Rule(d, 0)
    OBVIOUS
  <2> HIDE DEF d
  <2> QED
    BY <2>1
<1>2. ASSUME NEW k \in Nat, k \in S PROVE k + 1 \in S
  <2>1. PICK d : Rule(d, k)
    BY <1>2
  <2> DEFINE new == IF k + 1 < 10 THEN <<k + 1>> ELSE Append(d[(k + 1) \div 10], (k + 1) % 10)
  <2> DEFINE e == [n \in 0..(k + 1) |-> IF n = k + 1 THEN new ELSE d[n]]
  <2>2. /\ e = [n \in 0..(k + 1) |-> e[n]]
        /\ e[k + 1] = new
        /\ \A n \in 0..k : e[n] = d[n] /\ n \in 0..(k + 1) /\ n # k + 1
    <3> HIDE DEF new
    <3> QED
      OBVIOUS
  <2>3. \A n \in 0..(k + 1) : e[n] = IF n < 10 THEN <<n>> ELSE Append(e[n \div 10], n % 10)
    <3> SUFFICES ASSUME NEW n \in 0..(k + 1)
                 PROVE  e[n] = IF n < 10 THEN <<n>> ELSE Append(e[n \div 10], n % 10)
      OBVIOUS
    <3> HIDE DEF e
    <3>1. n >= 10 => n \div 10 \in 0..k
      BY Tenth
    <3>2. n >= 10 => e[n \div 10] = d[n \div 10]
      BY <2>2, <3>1
    <3>3. CASE n = k + 1
      BY <2>2, <3>2, <3>3
    <3>4. CASE n # k + 1
      <4>1. n \in 0..k
        BY <3>4
      <4>2. d[n] = IF n < 10 THEN <<n>> ELSE Append(d[n \div 10], n % 10)
        BY <2>1, <4>1
      <4>3. CASE n < 10
        BY <2>2, <4>1, <4>2, <4>3
      <4>4. CASE n >= 10
        BY <2>2, <3>2, <4>1, <4>2, <4>4
      <4> QED
        BY <4>3, <4>4
    <3> QED
      BY <3>3, <3>4
  <2> HIDE DEF e
  <2>4. Rule(e, k + 1)
    BY <2>2, <2>3
  <2>5. k + 1 \in Nat
    OBVIOUS
  <2> HIDE DEF Rule
  <2> QED
    BY <2>4, <2>5
<1>3. pid \in S
  <2> HIDE DEF S
  <2> QED
    BY <1>1, <1>2, Induction
<1>4. PICK d : Rule(d, pid)
  BY <1>3
<1> DEFINE decimal == CHOOSE f : Rule(f, pid)
<1>5. Rule(decimal, pid)
  BY <1>4, Zenon
<1>6. Text(pid) = decimal[pid]
  BY DEF Text
<1> HIDE DEF decimal
<1>7. \A n \in 0..pid : decimal[n] = IF n < 10 THEN <<n>> ELSE Append(decimal[n \div 10], n % 10)
  BY <1>5
<1> QED
  BY <1>6, <1>7

(* The value of a sequence of digits is that of all but the last, shifted. *)
LEMMA Value ==
  ASSUME NEW digits \in Digits
  PROVE  \E v : /\ \A i \in 0..Len(digits) : v[i] = IF i = 0 THEN 0 ELSE 10 * v[i - 1] + digits[i]
                /\ Number(digits) = v[Len(digits)]
<1> DEFINE Rule(v, k) == v = [i \in 0..k |-> IF i = 0 THEN 0 ELSE 10 * v[i - 1] + digits[i]]
<1> DEFINE S == {k \in Nat : \E v : Rule(v, k)}
<1>1. 0 \in S
  <2> DEFINE v == [i \in 0..0 |-> 0]
  <2>1. Rule(v, 0)
    OBVIOUS
  <2> HIDE DEF v
  <2> QED
    BY <2>1
<1>2. ASSUME NEW k \in Nat, k \in S PROVE k + 1 \in S
  <2>1. PICK v : Rule(v, k)
    BY <1>2
  <2> DEFINE new == 10 * v[k] + digits[k + 1]
  <2> DEFINE w == [i \in 0..(k + 1) |-> IF i = k + 1 THEN new ELSE v[i]]
  <2>2. /\ w = [i \in 0..(k + 1) |-> w[i]]
        /\ w[k + 1] = new
        /\ \A i \in 0..k : w[i] = v[i] /\ i \in 0..(k + 1) /\ i # k + 1
    <3> HIDE DEF new
    <3> QED
      OBVIOUS
  <2>3. \A i \in 0..(k + 1) : w[i] = IF i = 0 THEN 0 ELSE 10 * w[i - 1] + digits[i]
    <3> SUFFICES ASSUME NEW i \in 0..(k + 1)
                 PROVE  w[i] = IF i = 0 THEN 0 ELSE 10 * w[i - 1] + digits[i]
      OBVIOUS
    <3> HIDE DEF w
    <3>1. CASE i = k + 1
      <4>1. i # 0 /\ i - 1 = k /\ k \in 0..k
        BY <3>1
      <4>2. w[i - 1] = v[k]
        BY <2>2, <4>1
      <4> QED
        BY <2>2, <3>1, <4>1, <4>2
    <3>2. CASE i # k + 1
      <4>1. i \in 0..k /\ (i # 0 => i - 1 \in 0..k)
        BY <3>2
      <4>2. v[i] = IF i = 0 THEN 0 ELSE 10 * v[i - 1] + digits[i]
        BY <2>1, <4>1
      <4> QED
        BY <2>2, <4>1, <4>2
    <3> QED
      BY <3>1, <3>2
  <2> HIDE DEF w
  <2>4. Rule(w, k + 1)
    BY <2>2, <2>3
  <2> QED
    BY <2>4
<1>3. Len(digits) \in S
  <2>1. Len(digits) \in Nat
    BY DEF Digits
  <2> HIDE DEF S
  <2> QED
    BY <1>1, <1>2, <2>1, Induction
<1>4. PICK v : Rule(v, Len(digits))
  BY <1>3
<1> DEFINE value == CHOOSE f : Rule(f, Len(digits))
<1>5. Rule(value, Len(digits))
  BY <1>4, Zenon
<1>6. Number(digits) = value[Len(digits)]
  BY DEF Number
<1> HIDE DEF value
<1>7. \A i \in 0..Len(digits) : value[i] = IF i = 0 THEN 0 ELSE 10 * value[i - 1] + digits[i]
  BY <1>5
<1> QED
  BY <1>6, <1>7

(* What one more digit does to the value.                                  *)
LEMMA NumberAppend ==
  ASSUME NEW s \in Digits, NEW x \in 0..9
  PROVE  /\ Number(s) \in Nat
         /\ Number(Append(s, x)) = 10 * Number(s) + x
         /\ Number(<<x>>) = x
<1> DEFINE t == Append(s, x)
<1>1. t \in Digits /\ <<x>> \in Digits /\ Len(<<x>>) = 1
  BY DEF Digits
<1>2. PICK v : /\ \A i \in 0..Len(s) : v[i] = IF i = 0 THEN 0 ELSE 10 * v[i - 1] + s[i]
               /\ Number(s) = v[Len(s)]
  BY Value
<1>3. PICK w : /\ \A i \in 0..Len(t) : w[i] = IF i = 0 THEN 0 ELSE 10 * w[i - 1] + t[i]
               /\ Number(t) = w[Len(t)]
  BY <1>1, Value
<1>4. Len(s) \in Nat /\ Len(t) = Len(s) + 1 /\ t[Len(t)] = x /\ \A i \in 1..Len(s) : t[i] = s[i] /\ s[i] \in 0..9
  BY DEF Digits
<1> HIDE DEF t
<1> DEFINE S == {k \in Nat : k <= Len(s) => v[k] \in Nat /\ w[k] = v[k]}
<1>5. 0 \in S
  <2>1. 0 \in 0..Len(s) /\ 0 \in 0..Len(t)
    BY <1>4
  <2> QED
    BY <1>2, <1>3, <2>1
<1>6. ASSUME NEW k \in Nat, k \in S PROVE k + 1 \in S
  <2> SUFFICES ASSUME k + 1 <= Len(s) PROVE v[k + 1] \in Nat /\ w[k + 1] = v[k + 1]
    OBVIOUS
  <2>1. k + 1 \in 0..Len(s) /\ k + 1 \in 0..Len(t) /\ k + 1 \in 1..Len(s) /\ k + 1 # 0 /\ (k + 1) - 1 = k
    BY <1>4
  <2>2. v[k] \in Nat /\ w[k] = v[k]
    BY <1>6, <1>4
  <2>3. v[k + 1] = 10 * v[k] + s[k + 1] /\ w[k + 1] = 10 * w[k] + t[k + 1]
    BY <1>2, <1>3, <2>1
  <2>4. s[k + 1] \in 0..9 /\ t[k + 1] = s[k + 1]
    BY <1>4, <2>1
  <2>5. v[k + 1] = w[k + 1]
    BY <2>2, <2>3, <2>4
  <2> QED
    BY <2>2, <2>3, <2>4, <2>5
<1>7. v[Len(s)] \in Nat /\ w[Len(s)] = v[Len(s)]
  <2>1. Len(s) \in S
    <3> HIDE DEF S
    <3> QED
      BY <1>4, <1>5, <1>6, Induction
  <2> QED
    BY <1>4, <2>1
<1>8. Number(t) = 10 * Number(s) + x
  <2>1. Len(t) \in 0..Len(t) /\ Len(t) # 0 /\ Len(t) - 1 = Len(s)
    BY <1>4
  <2>2. w[Len(t)] = 10 * w[Len(s)] + x
    BY <1>3, <1>4, <2>1
  <2> QED
    BY <1>2, <1>3, <1>7, <2>2
<1>9. Number(<<x>>) = x
  <2>1. PICK u : /\ \A i \in 0..1 : u[i] = IF i = 0 THEN 0 ELSE 10 * u[i - 1] + <<x>>[i]
                 /\ Number(<<x>>) = u[1]
    BY <1>1, Value
  <2>2. u[0] = 0
    BY <2>1
  <2>3. u[1] = 10 * u[0] + <<x>>[1]
    BY <2>1
  <2> QED
    BY <2>1, <2>2, <2>3
<1> QED
  BY <1>2, <1>7, <1>8, <1>9 DEF t

(* What WritePidIntoFd() writes, CheckPidFile() reads as the same pid.     *)
LEMMA NumberOfText ==
  ASSUME NEW pid \in Nat
  PROVE  Text(pid) \in Digits /\ Text(pid) # <<>> /\ Number(Text(pid)) = pid
<1>1. PICK d : /\ \A n \in 0..pid : d[n] = IF n < 10 THEN <<n>> ELSE Append(d[n \div 10], n % 10)
               /\ Text(pid) = d[pid]
  BY Decimal
<1> DEFINE Right(n) == d[n] \in Digits /\ d[n] # <<>> /\ Number(d[n]) = n
<1> DEFINE S == {n \in Nat : n <= pid => Right(n)}
<1>2. ASSUME NEW n \in Nat, \A m \in 0..(n - 1) : m \in S PROVE n \in S
  <2> SUFFICES ASSUME n <= pid PROVE Right(n)
    OBVIOUS
  <2>1. n \in 0..pid
    OBVIOUS
  <2>2. CASE n < 10
    <3>1. d[n] = <<n>> /\ n \in 0..9
      <4>1. d[n] = IF n < 10 THEN <<n>> ELSE Append(d[n \div 10], n % 10)
        BY <1>1, <2>1
      <4>2. d[n] = <<n>>
        BY <2>2, <4>1, Zenon
      <4> QED
        BY <2>2, <4>2
    <3>2. Number(<<n>>) = n
      <4>1. <<>> \in Digits
        BY DEF Digits
      <4> QED
        BY <3>1, <4>1, NumberAppend
    <3>3. <<n>> \in Digits /\ <<n>> # <<>>
      BY <3>1 DEF Digits
    <3> QED
      BY <3>1, <3>2, <3>3
  <2>3. CASE n >= 10
    <3>1. n \div 10 \in 0..(n - 1) /\ n % 10 \in 0..9 /\ n = 10 * (n \div 10) + (n % 10)
      BY <2>3, Tenth
    <3>2. d[n] = Append(d[n \div 10], n % 10)
      <4>1. d[n] = IF n < 10 THEN <<n>> ELSE Append(d[n \div 10], n % 10)
        BY <1>1, <2>1
      <4>2. ~(n < 10)
        BY <2>3
      <4> QED
        BY <4>1, <4>2, Zenon
    <3>3. n \div 10 \in S
      <4> HIDE DEF S
      <4> QED
        BY <1>2, <3>1
    <3>4. Right(n \div 10)
      <4>1. n \div 10 <= pid
        BY <2>1, <3>1
      <4> HIDE DEF Right
      <4> QED
        BY <3>3, <4>1
    <3>5. Number(d[n]) = 10 * Number(d[n \div 10]) + (n % 10)
      <4> HIDE DEF Digits
      <4> DEFINE x == n % 10
      <4>1. d[n \div 10] \in Digits /\ x \in 0..9
        BY <3>1, <3>4
      <4> HIDE DEF x
      <4>2. Number(Append(d[n \div 10], x)) = 10 * Number(d[n \div 10]) + x
        BY <4>1, NumberAppend
      <4> QED
        BY <3>2, <4>2 DEF x
    <3>6. d[n] \in Digits /\ d[n] # <<>>
      <4>1. d[n \div 10] \in Digits /\ n % 10 \in 0..9
        BY <3>1, <3>4
      <4>2. ASSUME NEW text \in Digits, NEW x \in 0..9
            PROVE  Append(text, x) \in Digits /\ Append(text, x) # <<>>
        BY <4>2 DEF Digits
      <4> HIDE DEF Right, S
      <4>3. Append(d[n \div 10], n % 10) \in Digits /\ Append(d[n \div 10], n % 10) # <<>>
        BY <4>1, <4>2, Zenon
      <4> QED
        BY <3>2, <4>3, Zenon
    <3> QED
      BY <3>1, <3>4, <3>5, <3>6
  <2> QED
    BY <2>2, <2>3
<1>3. pid \in S
  <2> HIDE DEF S
  <2> QED
    BY <1>2, StrongInduction
<1> QED
  BY <1>1, <1>3

-----------------------------------------------------------------------------
(* All worlds: what open() and flock() give a process.                     *)

WithFile  == {"lockNew", "lockOld", "read", "probe", "write", "unlock", "close"}
Exclusive == {"read", "probe", "write", "unlock"}
Unread    == {"new", "open", "create", "lockNew", "lockOld", "read"}

HasFile == \A p \in Procs : pc[p] \in WithFile => fd[p] # None

Locked == \A p \in Procs : pc[p] \in Exclusive => lock[fd[p]] = p

(* The text is written behind what was read, so the file gets no hole. *)
Behind ==
  \A p \in Procs :
    /\ pc[p] \in Unread => offset[p] = 0
    /\ pc[p] \in {"probe", "write"} => offset[p] <= Len(content[fd[p]])

FileInv == TypeOK /\ HasFile /\ Locked /\ Behind

(* There are more inodes than descriptors, so O_CREAT finds an unused one. *)
LEMMA SomeUnused ==
  ASSUME fd \in [Procs -> Inodes \cup {None}]
  PROVE  \E i \in Inodes : \A q \in Procs : fd[q] # i
<1> DEFINE n == Cardinality(Procs)
<1>1. IsFiniteSet(Procs) /\ n \in Nat
  BY SingleInstanceAssumption, FS_CardinalityType
<1>2. IsFiniteSet(Inodes) /\ Cardinality(Inodes) = n + 1
  <2> HIDE DEF n
  <2>1. n + 1 >= 1 /\ 1 \in Int /\ n + 1 \in Int
    BY <1>1
  <2>2. IsFiniteSet(1..(n + 1)) /\ Cardinality(1..(n + 1)) = (n + 1) - 1 + 1
    BY <2>1, FS_Interval
  <2>3. Inodes = 1..(n + 1)
    BY DEF Inodes, n
  <2> QED
    BY <1>1, <2>2, <2>3
<1>3. ASSUME \A i \in Inodes : \E q \in Procs : fd[q] = i PROVE FALSE
  <2> DEFINE f == [i \in Inodes |-> CHOOSE q \in Procs : fd[q] = i]
  <2>1. \A i \in Inodes : f[i] \in Procs /\ fd[f[i]] = i
    BY <1>3
  <2>2. f \in [Inodes -> Procs]
    BY <2>1
  <2> HIDE DEF f
  <2>3. PICK i, j \in Inodes : i # j /\ f[i] = f[j]
    <3>1. n < Cardinality(Inodes)
      BY <1>1, <1>2
    <3> QED
      BY <1>1, <1>2, <2>2, <3>1, FS_PigeonHole
  <2> QED
    BY <2>1, <2>3
<1> QED
  BY <1>3

(* What the text replaces is digits, and digits stay. *)
LEMMA Written ==
  ASSUME NEW old \in Digits, NEW at \in Nat, at <= Len(old), NEW text \in Digits
  PROVE  SubSeq(old, 1, at) \o text \o SubSeq(old, at + Len(text) + 1, Len(old)) \in Digits
<1>1. SubSeq(old, 1, at) \in Digits
  BY DEF Digits
<1>2. SubSeq(old, at + Len(text) + 1, Len(old)) \in Digits
  BY DEF Digits
<1> QED
  BY <1>1, <1>2 DEF Digits

LEMMA FileInit == Init => FileInv
<1> SUFFICES ASSUME Init PROVE FileInv
  OBVIOUS
<1>1. StalePid \in Nat /\ Text(StalePid) \in Digits /\ <<>> \in Digits
  BY SingleInstanceAssumption, NumberOfText DEF Digits
<1>2. 1 \in Inodes
  <2>1. Cardinality(Procs) \in Nat
    BY SingleInstanceAssumption, FS_CardinalityType
  <2> QED
    BY <2>1 DEF Inodes
<1>3. TypeOK
  <2>1. content \in [Inodes -> Digits]
    BY <1>1 DEF Init
  <2>2. path \in Inodes \cup {None}
    BY <1>2 DEF Init
  <2>3. pc \in [Procs -> Checking \cup Running \cup {"handler"} \cup Gone]
    BY DEF Init, Gone
  <2> QED
    BY <2>1, <2>2, <2>3 DEF Init, TypeOK, Digits
<1>4. HasFile /\ Locked /\ Behind
  BY DEF Init, HasFile, Locked, Behind, WithFile, Exclusive, Unread
<1> QED
  BY <1>3, <1>4 DEF FileInv

(* A process that ends leaves no lock and no descriptor behind. *)
LEMMA ExitKeepsFileInv ==
  ASSUME FileInv, NEW p \in Procs, Exit(p), UNCHANGED world
  PROVE  FileInv'
<1>1. TypeOK'
  BY DEF FileInv, TypeOK, Exit, Gone
<1>2. ASSUME NEW q \in Procs, q # p
      PROVE  pc'[q] = pc[q] /\ fd'[q] = fd[q] /\ \A i \in Inodes : lock[i] = q => lock'[i] = q
  BY <1>2 DEF FileInv, TypeOK, Exit
<1>3. pc'[p] \notin WithFile \cup Unread
  BY DEF FileInv, TypeOK, Exit, WithFile, Unread
<1>4. HasFile'
  BY <1>2, <1>3 DEF FileInv, HasFile
<1>5. Locked'
  <2> SUFFICES ASSUME NEW q \in Procs, pc'[q] \in Exclusive PROVE lock'[fd'[q]] = q
    BY DEF Locked
  <2>1. q # p
    BY <1>3 DEF Exclusive, WithFile
  <2>2. fd[q] \in Inodes /\ lock[fd[q]] = q
    BY <1>2, <2>1 DEF FileInv, TypeOK, HasFile, Locked, Exclusive, WithFile
  <2> QED
    BY <1>2, <2>1, <2>2
<1>6. Behind'
  BY <1>2, <1>3 DEF FileInv, Behind, Exit, WithFile
<1> QED
  BY <1>1, <1>4, <1>5, <1>6 DEF FileInv

(* What none of these properties is about may change freely. *)
LEMMA FileStep == FileInv /\ [Next]_vars => FileInv'
<1> SUFFICES ASSUME FileInv, [Next]_vars PROVE FileInv'
  OBVIOUS
<1> USE DEF FileInv
<1>1. CASE UNCHANGED vars
  BY <1>1 DEF vars, local, files, TypeOK, HasFile, Locked, Behind
<1>2. ASSUME UNCHANGED world, NEW p \in Procs,
             Launch(p) \/ Prologue(p) \/ SigHandler(p) \/ HandlerExits(p) \/ Die(p)
      PROVE  FileInv'
  <2> USE <1>2
  <2> USE DEF Goes, files
  <2>1. CASE Launch(p)
    <3>1. TypeOK'
      BY <2>1 DEF Launch, TypeOK, Checking, Running, Gone
    <3>2. HasFile'
      BY <2>1 DEF Launch, TypeOK, HasFile, WithFile
    <3>3. Locked'
      BY <2>1 DEF Launch, TypeOK, HasFile, Locked, WithFile, Exclusive
    <3>4. Behind'
      BY <2>1 DEF Launch, TypeOK, Behind, Unread
    <3> QED
      BY <3>1, <3>2, <3>3, <3>4
  <2>2. CASE Open(p)
    <3>1. TypeOK'
      BY <2>2 DEF Open, TypeOK, Checking, Running, Gone
    <3>2. HasFile'
      BY <2>2 DEF Open, TypeOK, HasFile, WithFile
    <3>3. Locked'
      BY <2>2 DEF Open, TypeOK, HasFile, Locked, WithFile, Exclusive
    <3>4. Behind'
      BY <2>2 DEF Open, TypeOK, Behind, Unread
    <3> QED
      BY <3>1, <3>2, <3>3, <3>4
  <2>3. CASE Create(p)
    <3> DEFINE unused == {i \in Inodes : \A q \in Procs : fd[q] # i}
    <3> DEFINE i == CHOOSE j \in unused : TRUE
    <3>1. i \in Inodes /\ \A q \in Procs : fd[q] # i
      <4>1. \E j \in unused : TRUE
        BY SomeUnused DEF TypeOK
      <4> QED
        BY <4>1
    <3>2. /\ fd' = [fd EXCEPT ![p] = i] /\ path' = i
          /\ content' = [content EXCEPT ![i] = <<>>]
      BY <2>3 DEF Create
    <3> HIDE DEF i
    <3>3. /\ pc[p] = "create" /\ pc' = [pc EXCEPT ![p] = "lockNew"]
          /\ UNCHANGED <<world, offset, seen, lock>>
      BY <2>3 DEF Create
    <3>4. TypeOK'
      <4>1. content' \in [Inodes -> Seq(0..9)]
        <5>1. <<>> \in Seq(0..9)
          OBVIOUS
        <5> QED
          BY <3>2, <5>1 DEF TypeOK
      <4> QED
        BY <3>1, <3>2, <3>3, <4>1 DEF TypeOK, Checking
    <3>5. i # None
      BY <3>1, SingleInstanceAssumption
    <3>6. HasFile'
      BY <3>2, <3>3, <3>5 DEF TypeOK, HasFile, WithFile
    <3>7. Locked'
      BY <3>2, <3>3 DEF TypeOK, Locked, Exclusive
    <3>8. Behind'
      <4> SUFFICES ASSUME NEW q \in Procs
                   PROVE  /\ pc'[q] \in Unread => offset'[q] = 0
                          /\ pc'[q] \in {"probe", "write"} => offset'[q] <= Len(content'[fd'[q]])
        BY DEF Behind
      <4>1. pc'[q] \in Unread => pc[q] \in Unread
        BY <3>3 DEF TypeOK, Unread
      <4>2. pc'[q] \in {"probe", "write"} => pc[q] = pc'[q] /\ fd'[q] = fd[q] /\ content'[fd[q]] = content[fd[q]]
        BY <3>1, <3>2, <3>3 DEF TypeOK
      <4> QED
        BY <3>3, <4>1, <4>2 DEF Behind
    <3> QED
      BY <3>4, <3>6, <3>7, <3>8
  <2>4. CASE LockNew(p)
    <3>1. TypeOK'
      BY <2>4 DEF LockNew, Flock, TypeOK, Checking, Running, Gone
    <3>2. HasFile'
      BY <2>4 DEF LockNew, TypeOK, HasFile, WithFile
    <3>3. Locked'
      <4> SUFFICES ASSUME NEW q \in Procs, pc'[q] \in Exclusive PROVE lock'[fd'[q]] = q
        BY DEF Locked
      <4>1. fd[p] \in Inodes /\ lock[fd[p]] = None /\ lock' = [lock EXCEPT ![fd[p]] = p] /\ fd' = fd
        BY <2>4 DEF LockNew, Flock, TypeOK, HasFile, WithFile
      <4>2. CASE q = p
        BY <4>1, <4>2 DEF TypeOK
      <4>3. CASE q # p
        <5>1. pc[q] \in Exclusive /\ fd[q] \in Inodes /\ lock[fd[q]] = q
          BY <2>4, <4>3 DEF LockNew, TypeOK, HasFile, Locked, Exclusive, WithFile
        <5>2. fd[q] # fd[p]
          BY <4>1, <5>1, SingleInstanceAssumption
        <5> QED
          BY <4>1, <5>1, <5>2 DEF TypeOK
      <4> QED
        BY <4>2, <4>3
    <3>4. Behind'
      BY <2>4 DEF LockNew, TypeOK, Behind, Unread
    <3> QED
      BY <3>1, <3>2, <3>3, <3>4
  <2>5. CASE LockOld(p)
    <3>1. TypeOK'
      BY <2>5 DEF LockOld, Flock, TypeOK, Checking, Running, Gone
    <3>2. HasFile'
      BY <2>5 DEF LockOld, TypeOK, HasFile, WithFile
    <3>3. Locked'
      <4> SUFFICES ASSUME NEW q \in Procs, pc'[q] \in Exclusive PROVE lock'[fd'[q]] = q
        BY DEF Locked
      <4>1. fd[p] \in Inodes /\ lock[fd[p]] = None /\ lock' = [lock EXCEPT ![fd[p]] = p] /\ fd' = fd
        BY <2>5 DEF LockOld, Flock, TypeOK, HasFile, WithFile
      <4>2. CASE q = p
        BY <4>1, <4>2 DEF TypeOK
      <4>3. CASE q # p
        <5>1. pc[q] \in Exclusive /\ fd[q] \in Inodes /\ lock[fd[q]] = q
          BY <2>5, <4>3 DEF LockOld, TypeOK, HasFile, Locked, Exclusive, WithFile
        <5>2. fd[q] # fd[p]
          BY <4>1, <5>1, SingleInstanceAssumption
        <5> QED
          BY <4>1, <5>1, <5>2 DEF TypeOK
      <4> QED
        BY <4>2, <4>3
    <3>4. Behind'
      BY <2>5 DEF LockOld, TypeOK, Behind, Unread
    <3> QED
      BY <3>1, <3>2, <3>3, <3>4
  <2>6. CASE Read(p)
    <3>1. TypeOK'
      <4>1. fd[p] \in Inodes
        BY <2>6 DEF Read, TypeOK, HasFile, WithFile
      <4>2. content[fd[p]] \in Digits
        BY <4>1 DEF TypeOK, Digits
      <4>3. Len(content[fd[p]]) \in Nat /\ Number(content[fd[p]]) \in Nat
        <5>1. 0 \in 0..9
          OBVIOUS
        <5>2. Number(content[fd[p]]) \in Nat
          BY <4>2, <5>1, NumberAppend
        <5> QED
          BY <4>2, <5>2 DEF Digits
      <4> QED
        BY <2>6, <4>3 DEF Read, TypeOK, Checking
    <3>2. HasFile'
      BY <2>6 DEF Read, TypeOK, HasFile, WithFile
    <3>3. Locked'
      BY <2>6 DEF Read, TypeOK, HasFile, Locked, WithFile, Exclusive
    <3>4. Behind'
      BY <2>6 DEF Read, TypeOK, Behind, Unread
    <3> QED
      BY <3>1, <3>2, <3>3, <3>4
  <2>7. CASE TakeOver(p)
    <3>1. TypeOK'
      BY <2>7 DEF TakeOver, TypeOK, Checking, Running, Gone
    <3>2. HasFile'
      BY <2>7 DEF TakeOver, TypeOK, HasFile, WithFile
    <3>3. Locked'
      BY <2>7 DEF TakeOver, TypeOK, HasFile, Locked, WithFile, Exclusive
    <3>4. Behind'
      BY <2>7 DEF TakeOver, TypeOK, Behind, Unread
    <3> QED
      BY <3>1, <3>2, <3>3, <3>4
  <2>8. CASE Write(p)
    <3> DEFINE old == content[fd[p]]
    <3> DEFINE end == offset[p] + Len(Text(p))
    <3> DEFINE new == SubSeq(old, 1, offset[p]) \o Text(p) \o SubSeq(old, end + 1, Len(old))
    <3>1. fd[p] \in Inodes /\ lock[fd[p]] = p /\ offset[p] <= Len(old) /\ offset[p] \in Nat
      BY <2>8 DEF Write, TypeOK, HasFile, Locked, Behind, WithFile, Exclusive
    <3>2. old \in Digits /\ Text(p) \in Digits
      BY <3>1, NumberOfText, SingleInstanceAssumption DEF TypeOK, Digits
    <3>3. new \in Digits /\ end \in Nat
      <4>1. Len(Text(p)) \in Nat
        BY <3>2 DEF Digits
      <4>2. new \in Digits
        BY <3>1, <3>2, Written
      <4> QED
        BY <3>1, <4>1, <4>2
    <3>4. content' = [content EXCEPT ![fd[p]] = new] /\ offset' = [offset EXCEPT ![p] = end]
      BY <2>8 DEF Write
    <3> HIDE DEF new, end
    <3>5. /\ pc[p] = "write" /\ pc' = [pc EXCEPT ![p] = "unlock"]
          /\ UNCHANGED <<world, fd, seen, path, lock>>
      BY <2>8 DEF Write
    <3>6. TypeOK'
      <4>1. content' \in [Inodes -> Seq(0..9)]
        BY <3>3, <3>4 DEF TypeOK, Digits
      <4> QED
        BY <3>3, <3>4, <3>5, <4>1 DEF TypeOK, Checking
    <3>7. HasFile' /\ Locked'
      BY <3>5 DEF TypeOK, HasFile, Locked, WithFile, Exclusive
    <3>8. Behind'
      <4> SUFFICES ASSUME NEW q \in Procs, q # p
                   PROVE  /\ pc'[q] \in Unread => offset'[q] = 0
                          /\ pc'[q] \in {"probe", "write"} => offset'[q] <= Len(content'[fd'[q]])
        BY <3>5 DEF Behind, TypeOK, Unread
      <4>1. pc'[q] = pc[q] /\ offset'[q] = offset[q] /\ fd'[q] = fd[q]
        BY <3>4, <3>5 DEF TypeOK
      <4>2. pc[q] \in {"probe", "write"} => fd[q] # fd[p]
        BY <3>1 DEF Locked, Exclusive
      <4>3. pc[q] \in {"probe", "write"} => content'[fd[q]] = content[fd[q]]
        BY <3>4, <4>2 DEF TypeOK
      <4> QED
        BY <4>1, <4>3 DEF Behind
    <3> QED
      BY <3>6, <3>7, <3>8
  <2>9. CASE Unlock(p)
    <3>1. TypeOK'
      BY <2>9 DEF Unlock, TypeOK, Checking, Running, Gone
    <3>2. HasFile'
      BY <2>9 DEF Unlock, TypeOK, HasFile, WithFile
    <3>3. Locked'
      BY <2>9 DEF Unlock, TypeOK, HasFile, Locked, WithFile, Exclusive
    <3>4. Behind'
      BY <2>9 DEF Unlock, TypeOK, Behind, Unread
    <3> QED
      BY <3>1, <3>2, <3>3, <3>4
  <2>10. CASE Close(p)
    <3>1. TypeOK'
      BY <2>10 DEF Close, TypeOK, Checking, Running, Gone
    <3>2. HasFile'
      BY <2>10 DEF Close, TypeOK, HasFile, WithFile
    <3>3. Locked'
      BY <2>10 DEF Close, TypeOK, HasFile, Locked, WithFile, Exclusive
    <3>4. Behind'
      BY <2>10 DEF Close, TypeOK, Behind, Unread
    <3> QED
      BY <3>1, <3>2, <3>3, <3>4
  <2>11. CASE InstallHandlers(p)
    <3>1. TypeOK'
      BY <2>11 DEF InstallHandlers, TypeOK, Checking, Running, Gone
    <3>2. HasFile'
      BY <2>11 DEF InstallHandlers, TypeOK, HasFile, WithFile
    <3>3. Locked'
      BY <2>11 DEF InstallHandlers, TypeOK, HasFile, Locked, WithFile, Exclusive
    <3>4. Behind'
      BY <2>11 DEF InstallHandlers, TypeOK, Behind, Unread
    <3> QED
      BY <3>1, <3>2, <3>3, <3>4
  <2>12. CASE SigHandler(p)
    <3>1. TypeOK'
      BY <2>12 DEF SigHandler, TypeOK, Checking, Running, Gone
    <3>2. HasFile'
      BY <2>12 DEF SigHandler, TypeOK, HasFile, WithFile
    <3>3. Locked'
      BY <2>12 DEF SigHandler, TypeOK, HasFile, Locked, WithFile, Exclusive
    <3>4. Behind'
      BY <2>12 DEF SigHandler, TypeOK, Behind, Unread
    <3> QED
      BY <3>1, <3>2, <3>3, <3>4
  <2>13. CASE CreateFails(p) \/ GiveUp(p) \/ HandlerExits(p) \/ Die(p)
    <3>1. Exit(p)
      BY <2>13 DEF CreateFails, GiveUp, HandlerExits, Die
    <3> QED
      BY <3>1, ExitKeepsFileInv
  <2> QED
    BY <2>1, <2>2, <2>3, <2>4, <2>5, <2>6, <2>7, <2>8, <2>9, <2>10, <2>11, <2>12, <2>13 DEF Prologue
<1> QED
  BY <1>1, <1>2 DEF Next

(* Whatever happens, the state has its type, a process past open() has a   *)
(* file, and the processes between flock(LOCK_EX) and LOCK_UN of one file  *)
(* are one: Locked.                                                        *)
THEOREM FileInvariant == Spec => []FileInv
<1>1. Init => FileInv
  BY FileInit
<1>2. FileInv /\ [Next]_vars => FileInv'
  BY FileStep
<1> QED
  BY <1>1, <1>2, PTL DEF Spec

-----------------------------------------------------------------------------
(* The orderly worlds: whom the file speaks of.                            *)

(* The text of these is in the file, and their pids are taken.             *)
Holding == {"unlock", "close"} \cup Running

Recorded == \A p \in Procs : pc[p] \in Holding => path # None /\ content[path] = Text(p)

Owned ==
  path # None =>
    content[path] = <<>> \/ \E q \in Procs : pc[q] \in Holding /\ content[path] = Text(q)

SameFile == \A p \in Procs : pc[p] \in WithFile => fd[p] = path

Fresh == \A p \in Procs : pc[p] \in {"lockNew", "write"} => content[path] = <<>> /\ offset[p] = 0

Probed ==
  \A p \in Procs : pc[p] = "probe" => content[path] # <<>> /\ seen[p] = Number(content[path])

(* An empty file that nothing removes ... *)
FileStays == path # None /\ \A p \in Procs : pc[p] \notin {"create", "lockNew", "handler"}

(* ... or at most one process that is neither running nor gone.            *)
OneByOne ==
  /\ \A p, q \in Procs :
       (pc[p] \notin Gone \cup {"running"} /\ pc[q] \notin Gone \cup {"running"}) => p = q
  /\ \A p \in Procs : pc[p] \in {"create", "handler"} => path = None

Order ==
  IF world.file = "empty" /\ world.deaths = "none" THEN FileStays
  ELSE world.file # "stale" /\ world.overlap = "nothing" /\ world.deaths # "any" /\ OneByOne

FileKept == Recorded /\ Owned /\ SameFile /\ Fresh /\ Probed /\ Order

OrderInv == Orderly => FileKept

(* Different pids have different texts, none of them empty. *)
LEMMA TextsDiffer ==
  ASSUME NEW p \in Procs
  PROVE  /\ Text(p) \in Digits /\ Text(p) # <<>> /\ Number(Text(p)) = p
         /\ \A q \in Procs : Text(p) = Text(q) => p = q
<1>1. \A q \in Procs : q \in Nat
  BY SingleInstanceAssumption
<1>2. \A q \in Procs : Text(q) \in Digits /\ Text(q) # <<>> /\ Number(Text(q)) = q
  BY <1>1, NumberOfText
<1> QED
  BY <1>2

(* The first text in an empty file is all of it. *)
LEMMA FirstText ==
  ASSUME NEW text \in Digits
  PROVE  SubSeq(<<>>, 1, 0) \o text \o SubSeq(<<>>, 0 + Len(text) + 1, Len(<<>>)) = text
<1>1. Len(text) \in Nat
  BY DEF Digits
<1>2. SubSeq(<<>>, 1, 0) = <<>> /\ SubSeq(<<>>, 0 + Len(text) + 1, Len(<<>>)) = <<>>
  BY <1>1
<1>3. <<>> \o text = text /\ text \o <<>> = text
  BY DEF Digits
<1> QED
  BY <1>2, <1>3

LEMMA OrderInit == Init => OrderInv
<1> SUFFICES ASSUME Init, Orderly PROVE FileKept
  BY DEF OrderInv
<1>1. \A p \in Procs : pc[p] = "new"
  BY DEF Init
<1>2. Recorded /\ SameFile /\ Fresh /\ Probed
  BY <1>1 DEF Recorded, SameFile, Fresh, Probed, Holding, Running, WithFile
<1>3. 1 \in Inodes
  <2>1. Cardinality(Procs) \in Nat
    BY SingleInstanceAssumption, FS_CardinalityType
  <2> QED
    BY <2>1 DEF Inodes
<1>4. path # None => content[path] = <<>>
  BY <1>3 DEF Init, Orderly
<1>5. world.file = "empty" => path # None
  BY <1>3, SingleInstanceAssumption DEF Init
<1>6. Order
  BY <1>1, <1>5 DEF Order, Orderly, FileStays, OneByOne, Gone
<1> QED
  BY <1>2, <1>4, <1>6 DEF FileKept, Owned

(* In an orderly world no two processes use the file at a time. *)
LEMMA OneUser ==
  ASSUME FileInv, FileKept, NEW p \in Procs, NEW q \in Procs,
         pc[p] \in Exclusive, pc[q] \in Exclusive
  PROVE  p = q
<1>1. CASE world.file = "empty" /\ world.deaths = "none"
  <2>1. fd[p] = path /\ fd[q] = path
    BY DEF FileKept, SameFile, Exclusive, WithFile
  <2>2. lock[fd[p]] = p /\ lock[fd[q]] = q
    BY DEF FileInv, Locked
  <2> QED
    BY <2>1, <2>2
<1>2. CASE ~(world.file = "empty" /\ world.deaths = "none")
  BY <1>2 DEF FileKept, Order, OneByOne, Exclusive, Gone
<1> QED
  BY <1>1, <1>2

(* A process that ends while its text is not in the file. *)
LEMMA ExitKeepsFile ==
  ASSUME FileInv, FileKept, NEW p \in Procs, pc[p] \notin Holding, Exit(p), UNCHANGED world
  PROVE  FileKept'
<1>1. /\ pc'[p] = "gone" /\ UNCHANGED <<offset, seen, path, content>>
      /\ \A q \in Procs : q # p => pc'[q] = pc[q] /\ fd'[q] = fd[q]
  BY DEF FileInv, TypeOK, Exit
<1>2. Recorded'
  BY <1>1 DEF FileKept, Recorded, Holding, Running
<1>3. Owned'
  BY <1>1 DEF FileKept, Owned
<1>4. SameFile' /\ Fresh' /\ Probed'
  BY <1>1 DEF FileKept, SameFile, Fresh, Probed, WithFile
<1>5. Order'
  BY <1>1 DEF FileKept, Order, FileStays, OneByOne, Gone
<1> QED
  BY <1>2, <1>3, <1>4, <1>5 DEF FileKept

LEMMA OrderStep == FileInv /\ OrderInv /\ [Next]_vars => OrderInv'
<1> SUFFICES ASSUME FileInv, OrderInv, [Next]_vars, Orderly' PROVE FileKept'
  BY DEF OrderInv
<1> UNCHANGED world
  BY DEF Next, vars
<1> FileKept
  BY DEF OrderInv, Orderly
<1> USE DEF FileKept
<1>1. CASE UNCHANGED vars
  BY <1>1 DEF vars, local, files, Recorded, Owned, SameFile, Fresh, Probed, Order, FileStays, OneByOne
<1>2. ASSUME NEW p \in Procs,
             Launch(p) \/ Prologue(p) \/ SigHandler(p) \/ HandlerExits(p) \/ Die(p)
      PROVE  FileKept'
  <2>1. TypeOK /\ HasFile
    BY DEF FileInv
  <2>2. \A q \in Procs : Text(q) \in Digits /\ Text(q) # <<>> /\ Number(Text(q)) = q
    BY TextsDiffer
  <2>3. CASE Launch(p)
    <3>1. Recorded'
      BY <2>1, <2>3 DEF Launch, Goes, files, TypeOK, Recorded, Holding, Running
    <3>2. Owned'
      BY <2>1, <2>3 DEF Launch, Goes, files, TypeOK, Owned, Holding, Running
    <3>3. SameFile'
      BY <2>1, <2>3 DEF Launch, Goes, files, TypeOK, SameFile, WithFile
    <3>4. Fresh'
      BY <2>1, <2>3 DEF Launch, Goes, files, TypeOK, Fresh
    <3>5. Probed'
      BY <2>1, <2>3 DEF Launch, Goes, files, TypeOK, Probed
    <3>6. Order'
      BY <2>1, <2>3 DEF Launch, Goes, files, TypeOK, Order, FileStays, OneByOne, NobodyChecks, Gone
    <3> QED
      BY <3>1, <3>2, <3>3, <3>4, <3>5, <3>6
  <2>4. CASE Open(p)
    <3>1. Recorded'
      BY <2>1, <2>4 DEF Open, Goes, files, TypeOK, Recorded, Holding, Running
    <3>2. Owned'
      BY <2>1, <2>4 DEF Open, Goes, files, TypeOK, Owned, Holding, Running
    <3>3. SameFile'
      BY <2>1, <2>4 DEF Open, Goes, files, TypeOK, SameFile, WithFile
    <3>4. Fresh'
      BY <2>1, <2>4 DEF Open, Goes, files, TypeOK, Fresh
    <3>5. Probed'
      BY <2>1, <2>4 DEF Open, Goes, files, TypeOK, Probed
    <3>6. Order'
      BY <2>1, <2>4 DEF Open, Goes, files, TypeOK, Order, FileStays, OneByOne, NobodyChecks, Gone
    <3> QED
      BY <3>1, <3>2, <3>3, <3>4, <3>5, <3>6
  <2>5. CASE Create(p)
    <3>1. PICK i \in Inodes : path' = i /\ fd' = [fd EXCEPT ![p] = i] /\ content'[i] = <<>>
      <4> DEFINE unused == {i \in Inodes : \A q \in Procs : fd[q] # i}
      <4> DEFINE i == CHOOSE j \in unused : TRUE
      <4>1. \E j \in unused : TRUE
        BY <2>1, SomeUnused DEF TypeOK
      <4>2. i \in Inodes
        BY <4>1
      <4>3. /\ fd' = [fd EXCEPT ![p] = i] /\ path' = i
            /\ content' = [content EXCEPT ![i] = <<>>]
        BY <2>5 DEF Create
      <4> HIDE DEF i
      <4> QED
        BY <2>1, <4>2, <4>3 DEF TypeOK
    <3>2. /\ pc[p] = "create" /\ pc' = [pc EXCEPT ![p] = "lockNew"]
          /\ path = None /\ UNCHANGED <<offset, seen, lock>>
      BY <2>5 DEF Create, Goes
    <3>3. offset[p] = 0
      BY <3>2 DEF FileInv, Behind, Unread
    <3>4. ~(world.file = "empty" /\ world.deaths = "none") /\ OneByOne
      BY <3>2 DEF Order, FileStays
    <3>5. \A q \in Procs : q # p => pc[q] \in Gone \cup {"running"}
      BY <3>2, <3>4 DEF OneByOne, Gone
    <3>6. \A q \in Procs : q # p => pc'[q] \in Gone
      <4>1. \A q \in Procs : pc[q] # "running"
        BY <3>2 DEF Recorded, Holding, Running
      <4> QED
        BY <2>1, <3>2, <3>5, <4>1 DEF TypeOK
    <3>7. pc'[p] = "lockNew" /\ fd'[p] = i /\ offset'[p] = 0
      BY <2>1, <3>1, <3>2, <3>3 DEF TypeOK
    <3>8. Recorded'
      BY <3>6, <3>7 DEF Recorded, Holding, Running, Gone
    <3>9. Owned'
      BY <3>1 DEF Owned
    <3>10. SameFile' /\ Fresh' /\ Probed'
      BY <3>1, <3>6, <3>7 DEF SameFile, Fresh, Probed, WithFile, Gone
    <3>11. Order'
      BY <3>4, <3>6, <3>7 DEF Order, OneByOne, Gone
    <3> QED
      BY <3>8, <3>9, <3>10, <3>11
  <2>6. CASE LockNew(p)
    <3>1. Recorded'
      BY <2>1, <2>6 DEF LockNew, Goes, files, TypeOK, Recorded, Holding, Running
    <3>2. Owned'
      BY <2>1, <2>6 DEF LockNew, Goes, files, TypeOK, Owned, Holding, Running
    <3>3. SameFile'
      BY <2>1, <2>6 DEF LockNew, Goes, files, TypeOK, SameFile, WithFile
    <3>4. Fresh'
      BY <2>1, <2>6 DEF LockNew, Goes, files, TypeOK, Fresh
    <3>5. Probed'
      BY <2>1, <2>6 DEF LockNew, Goes, files, TypeOK, Probed
    <3>6. Order'
      BY <2>1, <2>6 DEF LockNew, Goes, files, TypeOK, Order, FileStays, OneByOne, NobodyChecks, Gone
    <3> QED
      BY <3>1, <3>2, <3>3, <3>4, <3>5, <3>6
  <2>7. CASE LockOld(p)
    <3>1. Recorded'
      BY <2>1, <2>7 DEF LockOld, Goes, files, TypeOK, Recorded, Holding, Running
    <3>2. Owned'
      BY <2>1, <2>7 DEF LockOld, Goes, files, TypeOK, Owned, Holding, Running
    <3>3. SameFile'
      BY <2>1, <2>7 DEF LockOld, Goes, files, TypeOK, SameFile, WithFile
    <3>4. Fresh'
      BY <2>1, <2>7 DEF LockOld, Goes, files, TypeOK, Fresh
    <3>5. Probed'
      BY <2>1, <2>7 DEF LockOld, Goes, files, TypeOK, Probed
    <3>6. Order'
      BY <2>1, <2>7 DEF LockOld, Goes, files, TypeOK, Order, FileStays, OneByOne, NobodyChecks, Gone
    <3> QED
      BY <3>1, <3>2, <3>3, <3>4, <3>5, <3>6
  <2>8. CASE Read(p)
    <3>1. Recorded'
      BY <2>1, <2>8 DEF Read, Goes, files, TypeOK, Recorded, Holding, Running
    <3>2. Owned'
      BY <2>1, <2>8 DEF Read, Goes, files, TypeOK, Owned, Holding, Running
    <3>3. SameFile'
      BY <2>1, <2>8 DEF Read, Goes, files, TypeOK, SameFile, WithFile
    <3>4. /\ fd[p] = path /\ path \in Inodes
          /\ pc[p] = "read" /\ UNCHANGED <<path, content>>
          /\ pc' = [pc EXCEPT ![p] = IF content[path] = <<>> THEN "write" ELSE "probe"]
          /\ offset' = [offset EXCEPT ![p] = Len(content[path])]
          /\ seen' = [seen EXCEPT ![p] = Number(content[path])]
      <4>1. pc[p] = "read" /\ fd[p] = path /\ path \in Inodes
        BY <2>1, <2>8 DEF Read, Goes, TypeOK, HasFile, SameFile, WithFile
      <4> QED
        BY <2>8, <4>1 DEF Read, Goes, files
    <3>5. Fresh' /\ Probed'
      <4> SUFFICES ASSUME NEW q \in Procs
                   PROVE  /\ pc'[q] \in {"lockNew", "write"} => content[path] = <<>> /\ offset'[q] = 0
                          /\ pc'[q] = "probe" => content[path] # <<>> /\ seen'[q] = Number(content[path])
        BY <3>4 DEF Fresh, Probed
      <4>1. CASE q = p
        <5>1. Len(<<>>) = 0
          OBVIOUS
        <5>2. /\ pc'[p] = IF content[path] = <<>> THEN "write" ELSE "probe"
              /\ offset'[p] = Len(content[path]) /\ seen'[p] = Number(content[path])
          BY <2>1, <3>4 DEF TypeOK
        <5> QED
          BY <4>1, <5>1, <5>2
      <4>2. CASE q # p
        <5>1. pc'[q] = pc[q] /\ offset'[q] = offset[q] /\ seen'[q] = seen[q]
          BY <2>1, <3>4, <4>2 DEF TypeOK
        <5> QED
          BY <5>1 DEF Fresh, Probed
      <4> QED
        BY <4>1, <4>2
    <3>6. Order'
      BY <2>1, <2>8 DEF Read, Goes, files, TypeOK, Order, FileStays, OneByOne, NobodyChecks, Gone
    <3> QED
      BY <3>1, <3>2, <3>3, <3>5, <3>6
  <2>9. CASE TakeOver(p)
    <3>1. pc[p] = "probe" /\ seen[p] \notin LivePids
      BY <2>9 DEF TakeOver, Goes
    <3>2. path # None /\ content[path] # <<>> /\ seen[p] = Number(content[path])
      BY <2>1, <3>1 DEF HasFile, SameFile, Probed, WithFile
    <3>3. PICK q \in Procs : pc[q] \in Holding /\ content[path] = Text(q)
      BY <3>2 DEF Owned
    <3>4. seen[p] = q
      BY <2>2, <3>2, <3>3
    <3>5. q \in LivePids
      BY <3>3 DEF LivePids, Holding, Running, Gone
    <3> QED
      BY <3>1, <3>4, <3>5
  <2>10. CASE Write(p)
    <3>1. pc[p] = "write" /\ fd[p] = path /\ path \in Inodes /\ content[path] = <<>> /\ offset[p] = 0
      BY <2>1, <2>10 DEF Write, Goes, TypeOK, HasFile, SameFile, Fresh, WithFile
    <3>2. /\ pc' = [pc EXCEPT ![p] = "unlock"] /\ UNCHANGED <<fd, seen, path, lock>>
          /\ \A q \in Procs : q # p => offset'[q] = offset[q]
      BY <2>1, <2>10 DEF Write, Goes, TypeOK
    <3>3. content'[path] = Text(p)
      <4> DEFINE text == Text(p)
      <4> DEFINE new == SubSeq(<<>>, 1, 0) \o text \o SubSeq(<<>>, 0 + Len(text) + 1, Len(<<>>))
      <4>1. content' = [content EXCEPT ![path] = new]
        BY <2>10, <3>1 DEF Write
      <4>2. new = Text(p)
        BY <2>2, FirstText
      <4> HIDE DEF new
      <4> QED
        BY <2>1, <3>1, <4>1, <4>2 DEF TypeOK
    <3>4. \A q \in Procs : pc[q] \notin Holding
      <4> SUFFICES ASSUME NEW q \in Procs, pc[q] \in Holding PROVE FALSE
        OBVIOUS
      <4>1. content[path] = Text(q)
        BY DEF Recorded
      <4> QED
        BY <2>2, <3>1, <4>1
    <3>5. \A q \in Procs : q # p => pc[q] \notin {"lockNew", "probe", "write"}
      <4> SUFFICES ASSUME NEW q \in Procs, q # p, pc[q] \in {"lockNew", "probe", "write"} PROVE FALSE
        OBVIOUS
      <4>1. CASE pc[q] = "lockNew"
        BY <3>1, <4>1 DEF Order, FileStays, OneByOne, Gone
      <4>2. CASE pc[q] # "lockNew"
        BY <3>1, <4>2, OneUser DEF Exclusive
      <4> QED
        BY <4>1, <4>2
    <3>6. /\ pc'[p] = "unlock"
          /\ \A q \in Procs : q # p => pc'[q] \notin Holding \cup {"lockNew", "probe", "write"}
      BY <2>1, <3>2, <3>4, <3>5 DEF TypeOK
    <3>7. Recorded' /\ Owned'
      <4>1. path # None
        BY <3>1, SingleInstanceAssumption
      <4>2. pc'[p] \in Holding
        BY <3>6 DEF Holding
      <4> QED
        BY <3>2, <3>3, <3>6, <4>1, <4>2 DEF Recorded, Owned
    <3>8. SameFile'
      BY <2>1, <3>1, <3>2 DEF TypeOK, SameFile, WithFile
    <3>9. Fresh' /\ Probed'
      BY <3>6 DEF Fresh, Probed
    <3>10. Order'
      BY <2>1, <3>1, <3>2 DEF TypeOK, Order, FileStays, OneByOne, Gone
    <3> QED
      BY <3>7, <3>8, <3>9, <3>10
  <2>11. CASE Unlock(p)
    <3>1. Recorded'
      BY <2>1, <2>11 DEF Unlock, Goes, files, TypeOK, Recorded, Holding, Running
    <3>2. Owned'
      BY <2>1, <2>11 DEF Unlock, Goes, files, TypeOK, Owned, Holding, Running
    <3>3. SameFile'
      BY <2>1, <2>11 DEF Unlock, Goes, files, TypeOK, SameFile, WithFile
    <3>4. Fresh'
      BY <2>1, <2>11 DEF Unlock, Goes, files, TypeOK, Fresh
    <3>5. Probed'
      BY <2>1, <2>11 DEF Unlock, Goes, files, TypeOK, Probed
    <3>6. Order'
      BY <2>1, <2>11 DEF Unlock, Goes, files, TypeOK, Order, FileStays, OneByOne, NobodyChecks, Gone
    <3> QED
      BY <3>1, <3>2, <3>3, <3>4, <3>5, <3>6
  <2>12. CASE Close(p)
    <3>1. Recorded'
      BY <2>1, <2>12 DEF Close, Goes, files, TypeOK, Recorded, Holding, Running
    <3>2. Owned'
      BY <2>1, <2>12 DEF Close, Goes, files, TypeOK, Owned, Holding, Running
    <3>3. SameFile'
      BY <2>1, <2>12 DEF Close, Goes, files, TypeOK, SameFile, WithFile
    <3>4. Fresh'
      BY <2>1, <2>12 DEF Close, Goes, files, TypeOK, Fresh
    <3>5. Probed'
      BY <2>1, <2>12 DEF Close, Goes, files, TypeOK, Probed
    <3>6. Order'
      BY <2>1, <2>12 DEF Close, Goes, files, TypeOK, Order, FileStays, OneByOne, NobodyChecks, Gone
    <3> QED
      BY <3>1, <3>2, <3>3, <3>4, <3>5, <3>6
  <2>13. CASE InstallHandlers(p)
    <3>1. Recorded'
      BY <2>1, <2>13 DEF InstallHandlers, Goes, files, TypeOK, Recorded, Holding, Running
    <3>2. Owned'
      BY <2>1, <2>13 DEF InstallHandlers, Goes, files, TypeOK, Owned, Holding, Running
    <3>3. SameFile'
      BY <2>1, <2>13 DEF InstallHandlers, Goes, files, TypeOK, SameFile, WithFile
    <3>4. Fresh'
      BY <2>1, <2>13 DEF InstallHandlers, Goes, files, TypeOK, Fresh
    <3>5. Probed'
      BY <2>1, <2>13 DEF InstallHandlers, Goes, files, TypeOK, Probed
    <3>6. Order'
      BY <2>1, <2>13 DEF InstallHandlers, Goes, files, TypeOK, Order, FileStays, OneByOne, NobodyChecks, Gone
    <3> QED
      BY <3>1, <3>2, <3>3, <3>4, <3>5, <3>6
  <2>14. CASE SigHandler(p)
    <3>1. /\ world.deaths # "none" /\ (world.overlap = "nothing" => NobodyChecks)
          /\ pc[p] = "running" /\ pc' = [pc EXCEPT ![p] = "handler"] /\ path' = None
      BY <2>14 DEF SigHandler, Goes
    <3>2. NobodyChecks /\ ~(world.file = "empty" /\ world.deaths = "none")
      BY <3>1 DEF Order
    <3>3. \A q \in Procs : q # p => pc[q] \in Gone
      <4> SUFFICES ASSUME NEW q \in Procs, pc[q] = "running" PROVE q = p
        BY <3>2 DEF NobodyChecks
      <4>1. content[path] = Text(q) /\ content[path] = Text(p)
        BY <3>1 DEF Recorded, Holding, Running
      <4> QED
        BY <2>2, <4>1
    <3>4. pc'[p] = "handler" /\ \A q \in Procs : q # p => pc'[q] \in Gone
      BY <2>1, <3>1, <3>3 DEF TypeOK
    <3>5. Recorded' /\ Owned' /\ SameFile' /\ Fresh' /\ Probed'
      BY <3>1, <3>4 DEF Recorded, Owned, SameFile, Fresh, Probed, Holding, Running, WithFile, Gone
    <3>6. Order'
      BY <3>1, <3>2, <3>4 DEF Order, OneByOne, Gone
    <3> QED
      BY <3>5, <3>6
  <2>15. CASE CreateFails(p) \/ GiveUp(p) \/ HandlerExits(p) \/ Die(p)
    <3>1. ~CreateFails(p) /\ ~Die(p)
      BY DEF CreateFails, Die, Order, FileStays, OneByOne
    <3>2. Exit(p) /\ pc[p] \notin Holding
      BY <2>15, <3>1 DEF GiveUp, HandlerExits, Holding, Running
    <3> QED
      BY <3>2, ExitKeepsFile
  <2> QED
    BY <1>2, <2>3, <2>4, <2>5, <2>6, <2>7, <2>8, <2>9, <2>10, <2>11, <2>12, <2>13, <2>14, <2>15 DEF Prologue
<1> QED
  BY <1>1, <1>2 DEF Next

(* In the orderly worlds the file records the instance that runs. *)
THEOREM RunnerIsRecorded == Spec => []RunnerRecorded
<1>1. Init => FileInv /\ OrderInv
  BY FileInit, OrderInit
<1>2. FileInv /\ OrderInv /\ [Next]_vars => FileInv' /\ OrderInv'
  BY FileStep, OrderStep
<1>3. OrderInv => RunnerRecorded
  BY DEF OrderInv, FileKept, Recorded, RunnerRecorded, Holding
<1> QED
  BY <1>1, <1>2, <1>3, PTL DEF Spec

(* So the instance that runs is one: what the two runs that end in a       *)
(* violation find needs a stale file, or launches that overlap while there *)
(* is no file.                                                             *)
THEOREM OrderlyRunsOne == Spec => [](Orderly => AtMostOneRuns)
<1>1. RunnerRecorded => (Orderly => AtMostOneRuns)
  <2> SUFFICES ASSUME RunnerRecorded, Orderly, NEW p \in Procs, NEW q \in Procs,
                      pc[p] \in Running, pc[q] \in Running
               PROVE  p = q
    BY DEF AtMostOneRuns
  <2>1. content[path] = Text(p) /\ content[path] = Text(q)
    BY DEF RunnerRecorded
  <2> QED
    BY <2>1, TextsDiffer
<1> QED
  BY <1>1, RunnerIsRecorded, PTL

-----------------------------------------------------------------------------
(* What CheckEnds and SomeoneRuns rest on, as far as it is not fairness.   *)

(* Who waits in flock() waits for a process that is between it and LOCK_UN *)
(* with this very file.                                                    *)
LocksAreHeld ==
  \A i \in Inodes : lock[i] # None => pc[lock[i]] \in Exclusive /\ fd[lock[i]] = i

LEMMA LocksStep == FileInv /\ LocksAreHeld /\ [Next]_vars => LocksAreHeld'
<1> SUFFICES ASSUME FileInv, LocksAreHeld, [Next]_vars, NEW i \in Inodes, lock'[i] # None
             PROVE  pc'[lock'[i]] \in Exclusive /\ fd'[lock'[i]] = i
  BY DEF LocksAreHeld
<1> TypeOK /\ HasFile
  BY DEF FileInv
<1> USE SingleInstanceAssumption DEF LocksAreHeld, Exclusive
<1>1. CASE UNCHANGED vars
  BY <1>1 DEF vars, local, files
<1>2. ASSUME NEW p \in Procs,
             Launch(p) \/ Prologue(p) \/ SigHandler(p) \/ HandlerExits(p) \/ Die(p)
      PROVE  pc'[lock'[i]] \in Exclusive /\ fd'[lock'[i]] = i
  <2> DEFINE q == lock'[i]
  <2>0. q \in Procs /\ \A r \in Procs : lock[i] = r => pc[r] \in Exclusive /\ fd[r] = i
    <3>1. \A r \in Procs : r # None
      OBVIOUS
    <3>2. lock' \in [Inodes -> Procs \cup {None}]
      BY FileStep DEF FileInv, TypeOK
    <3> QED
      BY <3>1, <3>2
  <2> HIDE DEF q
  <2>1. ASSUME lock' = lock, pc' = [pc EXCEPT ![p] = pc'[p]], fd' = [fd EXCEPT ![p] = fd'[p]],
               pc[p] \in Exclusive => pc'[p] \in Exclusive /\ fd'[p] = fd[p]
        PROVE  pc'[q] \in Exclusive /\ fd'[q] = i
    <3>1. pc[q] \in Exclusive /\ fd[q] = i
      BY <2>0, <2>1 DEF q
    <3> QED
      BY <2>0, <2>1, <3>1 DEF TypeOK
  <2>2. CASE LockNew(p) \/ LockOld(p)
    <3>1. fd[p] \in Inodes
      BY <2>2 DEF TypeOK, HasFile, WithFile, Goes, LockNew, LockOld
    <3>2. lock' = [lock EXCEPT ![fd[p]] = p] /\ fd' = fd
      BY <2>2 DEF Flock, LockNew, LockOld
    <3>3. /\ pc'[p] \in Exclusive
          /\ \A r \in Procs : pc[r] \in Exclusive => pc'[r] \in Exclusive
      BY <2>2 DEF TypeOK, Goes, LockNew, LockOld
    <3>4. CASE i = fd[p]
      <4>1. q = p
        BY <3>1, <3>2, <3>4 DEF TypeOK, q
      <4> QED
        BY <3>2, <3>3, <3>4, <4>1 DEF q
    <3>5. CASE i # fd[p]
      <4>1. q = lock[i]
        BY <3>1, <3>2, <3>5 DEF TypeOK, q
      <4> QED
        BY <2>0, <3>2, <3>3, <4>1 DEF q
    <3> QED
      BY <3>4, <3>5
  <2>3. CASE Launch(p) \/ Open(p) \/ Create(p) \/ Close(p) \/ InstallHandlers(p) \/ SigHandler(p)
    BY <2>1, <2>3 DEF TypeOK, Goes, files, q, Launch, Open, Create, Close, InstallHandlers, SigHandler
  <2>6. CASE Read(p) \/ TakeOver(p) \/ Write(p)
    BY <2>1, <2>6 DEF TypeOK, Goes, files, q, Read, TakeOver, Write
  <2>4. CASE Unlock(p)
    BY <2>4 DEF TypeOK, HasFile, WithFile, Goes, Unlock, q
  <2>5. CASE CreateFails(p) \/ GiveUp(p) \/ HandlerExits(p) \/ Die(p)
    <3>1. Exit(p)
      BY <2>5 DEF CreateFails, GiveUp, HandlerExits, Die
    <3>2. q = lock[i] /\ q # p
      BY <2>0, <3>1 DEF Exit, q
    <3> QED
      BY <2>0, <3>1, <3>2 DEF Exit, TypeOK
  <2> QED
    BY <1>2, <2>2, <2>3, <2>4, <2>5, <2>6 DEF Prologue, q
<1> QED
  BY <1>1, <1>2 DEF Next

(* In no world does a process that is gone, or that is past LOCK_UN, keep  *)
(* another one from examining the file.                                    *)
THEOREM NoLockLeftBehind == Spec => []LocksAreHeld
<1>1. Init => LocksAreHeld
  BY DEF Init, LocksAreHeld
<1> QED
  BY <1>1, FileInit, FileStep, LocksStep, PTL DEF Spec

(* As long as none is ended in an orderly world, a process is gone only    *)
(* because another one's text is in the file, which then runs.             *)
GaveWayToOne ==
  Orderly /\ world.deaths = "none" =>
    /\ \A p \in Procs : pc[p] # "handler"
    /\ (\E p \in Procs : pc[p] = "gone") => \E q \in Procs : pc[q] \in Holding

LEMMA GaveWayStep == FileInv /\ OrderInv /\ GaveWayToOne /\ [Next]_vars => GaveWayToOne'
<1> SUFFICES ASSUME FileInv, OrderInv, GaveWayToOne, [Next]_vars, Orderly', world'.deaths = "none"
             PROVE  /\ \A p \in Procs : pc'[p] # "handler"
                    /\ (\E p \in Procs : pc'[p] = "gone") => \E q \in Procs : pc'[q] \in Holding
  BY DEF GaveWayToOne
<1> UNCHANGED world
  BY DEF Next, vars
<1> FileKept /\ world.deaths = "none"
  BY DEF OrderInv, Orderly
<1> /\ \A p \in Procs : pc[p] # "handler"
    /\ (\E p \in Procs : pc[p] = "gone") => \E q \in Procs : pc[q] \in Holding
  BY DEF GaveWayToOne, Orderly
<1> TypeOK /\ HasFile
  BY DEF FileInv
<1>1. CASE UNCHANGED vars
  BY <1>1 DEF vars, local
<1>2. ASSUME NEW p \in Procs,
             Launch(p) \/ Prologue(p) \/ SigHandler(p) \/ HandlerExits(p) \/ Die(p)
      PROVE  /\ \A q \in Procs : pc'[q] # "handler"
             /\ (\E q \in Procs : pc'[q] = "gone") => \E q \in Procs : pc'[q] \in Holding
  <2>1. ASSUME pc' = [pc EXCEPT ![p] = pc'[p]], pc'[p] \notin {"handler", "gone"},
               pc[p] \in Holding => pc'[p] \in Holding
        PROVE  /\ \A q \in Procs : pc'[q] # "handler"
               /\ (\E q \in Procs : pc'[q] = "gone") => \E q \in Procs : pc'[q] \in Holding
    BY <2>1 DEF TypeOK
  <2>2. CASE Launch(p) \/ Open(p) \/ Create(p) \/ LockNew(p) \/ LockOld(p)
    BY <2>1, <2>2 DEF Launch, Open, Create, LockNew, LockOld, Goes, Holding, Running, TypeOK
  <2>3. CASE Read(p) \/ TakeOver(p) \/ Write(p) \/ Unlock(p) \/ Close(p) \/ InstallHandlers(p)
    BY <2>1, <2>3
    DEF Read, TakeOver, Write, Unlock, Close, InstallHandlers, Goes, Holding, Running, TypeOK
  <2>4. CASE GiveUp(p)
    <3>1. pc[p] = "probe" /\ pc' = [pc EXCEPT ![p] = "gone"]
      BY <2>4 DEF GiveUp, Exit
    <3>2. path # None /\ content[path] # <<>>
      BY <3>1 DEF FileKept, HasFile, SameFile, Probed, WithFile
    <3>3. PICK q \in Procs : pc[q] \in Holding
      BY <3>2 DEF FileKept, Owned
    <3>4. q # p
      BY <3>1, <3>3 DEF Holding, Running
    <3> QED
      BY <3>1, <3>3, <3>4 DEF TypeOK
  <2>5. ~CreateFails(p) /\ ~SigHandler(p) /\ ~HandlerExits(p) /\ ~Die(p)
    BY DEF CreateFails, SigHandler, HandlerExits, Die, FileKept, Order, FileStays, OneByOne
  <2> QED
    BY <1>2, <2>2, <2>3, <2>4, <2>5 DEF Prologue
<1> QED
  BY <1>1, <1>2 DEF Next

(* Processes never all give way to one another, however they overlap.      *)
THEOREM NotAllGiveWay == Spec => []GaveWayToOne
<1>1. Init => GaveWayToOne
  BY DEF Init, GaveWayToOne
<1>2. FileInv /\ OrderInv /\ GaveWayToOne /\ [Next]_vars => (FileInv /\ OrderInv /\ GaveWayToOne)'
  BY FileStep, OrderStep, GaveWayStep
<1> QED
  BY <1>1, <1>2, FileInit, OrderInit, PTL DEF Spec
=============================================================================
