------------------------------- MODULE Climbs -------------------------------
(***************************************************************************)
(* Lemmas about the functions the rows of a table define by climbing from  *)
(* a row to its parent, an older row, or by descending to its children.    *)
(* TLA+ defines such a function as some f with f = [x \in S |-> ... f ...]; *)
(* what is proved here is that there is one, whatever the table holds.     *)
(* Induction is by a least counterexample.                                 *)
(***************************************************************************)
EXTENDS Naturals, WellFoundedInduction, TLAPS

LEMMA LeastIn ==
    ASSUME NEW R, IsWellFoundedOn(R, Nat), \A x, y \in Nat : y < x => <<y, x>> \in R,
           NEW T, T \subseteq Nat, T # {}
    PROVE  \E x \in T : \A y \in T : x <= y
<1>1. PICK x \in T : \A y \in T : ~(<<y, x>> \in R)
  BY WFMin
<1>2. \A y \in T : x \in Nat /\ y \in Nat /\ ~(y < x)
  BY <1>1
<1> QED
  BY <1>2

\* A set of numbers that is not empty has a least member.
LEMMA LeastNat ==
    ASSUME NEW T, T \subseteq Nat, T # {}
    PROVE  \E x \in T : \A y \in T : x <= y
<1>1. \A x, y \in Nat : y < x => <<y, x>> \in OpToRel(<, Nat)
  BY Zenon DEF OpToRel
<1> QED
  BY <1>1, NatLessThanWellFounded, LeastIn, Zenon

\* A bounded one has a greatest.
LEMMA GreatestNat ==
    ASSUME NEW n \in Nat, NEW T, T \subseteq 0 .. n, T # {}
    PROVE  \E x \in T : \A y \in T : y <= x
<1> DEFINE Bounds == {m \in Nat : \A y \in T : y <= m}
<1>1. n \in Bounds
  OBVIOUS
<1>2. PICK m \in Bounds : \A b \in Bounds : m <= b
  <2>1. Bounds \subseteq Nat /\ Bounds # {}
    BY <1>1
  <2> HIDE DEF Bounds
  <2> QED
    BY <2>1, LeastNat
<1> SUFFICES ASSUME m \notin T PROVE FALSE
  BY <1>2
<1>3. \A y \in T : y \in Nat /\ y < m
  BY <1>2
<1>4. PICK x \in T : x \in Nat /\ x < m
  BY <1>3
<1>5. m \in Nat /\ m - 1 \in Nat
  BY <1>2, <1>4
<1>6. \A y \in T : y <= m - 1
  BY <1>3, <1>5
<1> QED
  BY <1>2, <1>5, <1>6

\* What holds for 0 and for the successor of each number it holds for, holds
\* up to n.
LEMMA CountUp ==
    ASSUME NEW n \in Nat, NEW S, 0 \in S, \A m \in 0 .. n : m \in S => m + 1 \in S
    PROVE  n \in S
<1> SUFFICES ASSUME n \notin S PROVE FALSE
  OBVIOUS
<1> DEFINE T == {m \in 0 .. n : m \notin S}
<1>1. T \subseteq Nat /\ n \in T
  OBVIOUS
<1> HIDE DEF T
<1>2. PICK x \in T : \A y \in T : x <= y
  BY <1>1, LeastNat
<1>3. x \in 0 .. n /\ x \notin S /\ x # 0
  BY DEF T
<1>4. x - 1 \in 0 .. n /\ (x - 1) + 1 = x /\ ~(x <= x - 1)
  BY <1>3
<1>5. x - 1 \in S
  BY <1>2, <1>4 DEF T
<1> QED
  BY <1>3, <1>4, <1>5

(***************************************************************************)
(* The climb from s: it stops with val[s] or goes on at up[s].             *)
(***************************************************************************)
IsClimb(f, n, stops, val, up) ==
    f = [s \in 1 .. n |-> IF s \in stops THEN val[s] ELSE f[up[s]]]

LEMMA ClimbExists ==
    ASSUME NEW n \in Nat, NEW stops, NEW val, NEW up,
           \A s \in 1 .. n : s \notin stops => up[s] \in 1 .. s - 1
    PROVE  \E f : IsClimb(f, n, stops, val, up)
<1> DEFINE Good == {m \in Nat : m <= n => \E f : f = [s \in 1 .. m |-> IF s \in stops THEN val[s] ELSE f[up[s]]]}
<1>1. 0 \in Good
  <2> DEFINE f == [s \in 1 .. 0 |-> val[s]]
  <2>1. f = [s \in 1 .. 0 |-> IF s \in stops THEN val[s] ELSE f[up[s]]]
    OBVIOUS
  <2> QED
    BY <2>1
<1>2. ASSUME NEW m \in 0 .. n, m \in Good PROVE m + 1 \in Good
  <2> SUFFICES ASSUME m + 1 <= n
               PROVE  \E f : f = [s \in 1 .. m + 1 |-> IF s \in stops THEN val[s] ELSE f[up[s]]]
    OBVIOUS
  <2>1. PICK f : f = [s \in 1 .. m |-> IF s \in stops THEN val[s] ELSE f[up[s]]]
    BY <1>2
  <2> DEFINE g == [s \in 1 .. m + 1 |-> IF s \in stops THEN val[s] ELSE f[up[s]]]
  <2>2. \A s \in 1 .. m : g[s] = f[s]
    BY <2>1
  <2>3. \A s \in 1 .. m + 1 : s \notin stops => up[s] \in 1 .. m
    <3> TAKE s \in 1 .. m + 1
    <3> HAVE s \notin stops
    <3>1. s \in 1 .. n /\ s - 1 <= m
      OBVIOUS
    <3>2. up[s] \in 1 .. s - 1
      BY <3>1
    <3> QED
      BY <3>1, <3>2
  <2>4. \A s \in 1 .. m + 1 : s \notin stops => g[up[s]] = f[up[s]]
    BY <2>2, <2>3
  <2>5. g = [s \in 1 .. m + 1 |-> IF s \in stops THEN val[s] ELSE g[up[s]]]
    BY <2>4
  <2> QED
    BY <2>5
<1> HIDE DEF Good
<1>3. n \in Good
  BY <1>1, <1>2, CountUp
<1>4. \E f : f = [s \in 1 .. n |-> IF s \in stops THEN val[s] ELSE f[up[s]]]
  BY <1>3 DEF Good
<1> QED
  BY <1>4, Zenon DEF IsClimb

(***************************************************************************)
(* The descent from s: s itself and what the descents from its kids find.  *)
(***************************************************************************)
IsDescent(f, n, kids) == f = [s \in 1 .. n |-> {s} \union UNION {f[c] : c \in kids[s]}]

LEMMA DescentExists ==
    ASSUME NEW n \in Nat, NEW kids,
           \A s \in 1 .. n : \A c \in kids[s] : c \in s + 1 .. n
    PROVE  \E f : IsDescent(f, n, kids)
<1> DEFINE Old(m) == {s \in 1 .. n : s + m > n}
           Good == {m \in Nat : \E f : f = [s \in Old(m) |-> {s} \union UNION {f[c] : c \in kids[s]}]}
<1>1. 0 \in Good
  <2> DEFINE f == [s \in Old(0) |-> {s}]
  <2>1. Old(0) = {}
    OBVIOUS
  <2>2. f = [s \in Old(0) |-> {s} \union UNION {f[c] : c \in kids[s]}]
    BY <2>1
  <2> QED
    BY <2>2
<1>2. ASSUME NEW m \in 0 .. n, m \in Good PROVE m + 1 \in Good
  <2>1. PICK f : f = [s \in Old(m) |-> {s} \union UNION {f[c] : c \in kids[s]}]
    BY <1>2
  <2> DEFINE g == [s \in Old(m + 1) |-> {s} \union UNION {f[c] : c \in kids[s]}]
  <2>2. Old(m) \subseteq Old(m + 1)
    OBVIOUS
  <2>3. \A s \in Old(m + 1) : \A c \in kids[s] : c \in Old(m)
    <3> TAKE s \in Old(m + 1)
    <3> TAKE c \in kids[s]
    <3>1. c \in s + 1 .. n /\ s \in 1 .. n /\ s + (m + 1) > n
      OBVIOUS
    <3> QED
      BY <3>1
  <2> HIDE DEF Old
  <2>4. \A s \in Old(m) : g[s] = f[s]
    BY <2>1, <2>2
  <2>5. \A s \in Old(m + 1) : \A c \in kids[s] : g[c] = f[c]
    BY <2>3, <2>4
  <2>6. \A s \in Old(m + 1) : {g[c] : c \in kids[s]} = {f[c] : c \in kids[s]}
    BY <2>5
  <2>7. g = [s \in Old(m + 1) |-> {s} \union UNION {g[c] : c \in kids[s]}]
    BY <2>6
  <2> HIDE DEF g
  <2>8. m + 1 \in Nat
    OBVIOUS
  <2>9. \E h : h = [s \in Old(m + 1) |-> {s} \union UNION {h[c] : c \in kids[s]}]
    BY <2>7, Zenon
  <2> QED
    BY <2>8, <2>9
<1>3. Old(n) = 1 .. n
  OBVIOUS
<1> HIDE DEF Good
<1>4. n \in Good
  BY <1>1, <1>2, CountUp
<1>5. \E f : f = [s \in 1 .. n |-> {s} \union UNION {f[c] : c \in kids[s]}]
  BY <1>3, <1>4 DEF Good
<1> QED
  BY <1>5, Zenon DEF IsDescent
=============================================================================
