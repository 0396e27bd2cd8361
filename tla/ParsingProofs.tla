---------------------------- MODULE ParsingProofs ----------------------------
(***************************************************************************)
(* Proofs about what the parsers compute, for every input: the search for   *)
(* the RNDIS function in a device's descriptors (Matcher) and the walk over *)
(* the options of a DHCP message (Frames).  Each is compared with a         *)
(* definition that says what is meant and not how it is found.              *)
(***************************************************************************)
EXTENDS Matcher, Frames, SequenceTheorems, WellFoundedInduction, TLAPS

-----------------------------------------------------------------------------
(* Walks                                                                   *)

\* A set of natural numbers has a least one: the form of induction used here.
LEMMA LeastOf ==
  ASSUME NEW T, T \subseteq Nat, T # {}
  PROVE  \E x \in T : \A y \in T : x <= y
<1> DEFINE R == OpToRel(<, Nat)
<1>1. IsWellFoundedOn(R, Nat)
  BY NatLessThanWellFounded, Zenon
<1>2. \A x, y \in Nat : y < x => <<y, x>> \in R
  BY Zenon DEF OpToRel
<1> HIDE DEF R
<1>3. \E x \in T : \A y \in T : ~(<<y, x>> \in R)
  BY <1>1, WFMin, Zenon
<1>4. PICK x \in T : \A y \in T : ~(<<y, x>> \in R)
  BY <1>3
<1>5. ASSUME NEW y \in T PROVE x <= y
  <2>1. x \in Nat /\ y \in Nat /\ ~(y < x)
    BY <1>2, <1>4, Zenon
  <2> QED
    BY <2>1
<1> QED
  BY <1>5

\* Min and, of a bounded set, Max are what their names say.
LEMMA MinOf ==
  ASSUME NEW T, T \subseteq Nat, T # {}
  PROVE  Min(T) \in T /\ \A y \in T : Min(T) <= y
BY LeastOf, Zenon DEF Min

LEMMA MaxOf ==
  ASSUME NEW n \in Nat, NEW s, s \subseteq 1..n, s # {}
  PROVE  Max(s) \in s /\ \A y \in s : y <= Max(s)
<1> DEFINE T == {k \in Nat : \A y \in s : y <= k}
<1>1. n \in T
  OBVIOUS
<1>2. PICK k \in T : \A m \in T : k <= m
  <2> T \subseteq Nat /\ T # {}
    BY <1>1
  <2> HIDE DEF T
  <2> QED BY LeastOf, Zenon
<1>3. k \in s
  <2> SUFFICES ASSUME k \notin s PROVE FALSE
    OBVIOUS
  <2>1. \A y \in s : y <= k - 1 /\ y >= 1
    OBVIOUS
  <2>2. k - 1 \in T
    <3>1. PICK y \in s : TRUE
      BY Zenon
    <3>2. k - 1 \in Nat
      BY <2>1, <3>1
    <3> QED
      BY <2>1, <3>2
  <2> QED BY <1>2, <2>2
<1>4. \E x \in s : \A y \in s : x >= y
  BY <1>3
<1> QED
  BY <1>4, Zenon DEF Max

\* A walk over the positions 1..n that stops at some and from any other goes on
\* further to the right, making of what it finds there what comb says.
IsWalk(w, n, stops, out, next, comb) ==
  \A i \in 1..n : w[i] = IF i \in stops THEN out[i] ELSE comb[i][w[next[i]]]

\* There is a function with that recursive definition.
LEMMA WalkExists ==
  ASSUME NEW n \in Nat, NEW V, NEW stops, NEW out \in [1..n -> V],
         NEW next, NEW comb \in [1..n -> [V -> V]],
         \A i \in (1..n) \ stops : next[i] \in (i + 1)..n
  PROVE  \E w \in [1..n -> V] : IsWalk(w, n, stops, out, next, comb)
<1> DEFINE From(k) == (n + 1 - k)..n
           Rule(w, i) == IF i \in stops THEN out[i] ELSE comb[i][w[next[i]]]
           Good(k) == \E w \in [From(k) -> V] : \A i \in From(k) : w[i] = Rule(w, i)
           Bad == {k \in 0..n : ~Good(k)}
<1>1. Good(0)
  <2>1. From(0) = {} /\ [i \in {} |-> out[i]] \in [{} -> V]
    OBVIOUS
  <2> QED
    BY <2>1, Zenon
<1>2. ASSUME NEW k \in 1..n, Good(k - 1) PROVE Good(k)
  <2> DEFINE j == n + 1 - k
  <2>1. PICK w \in [From(k - 1) -> V] : \A i \in From(k - 1) : w[i] = Rule(w, i)
    BY <1>2
  <2>2. j \in 1..n /\ From(k - 1) = (j + 1)..n /\ From(k) = j..n /\ j..n = {j} \cup ((j + 1)..n)
    OBVIOUS
  <2> HIDE DEF j, From
  <2> DEFINE u == [i \in j..n |-> IF i = j THEN Rule(w, j) ELSE w[i]]
  <2>3. Rule(w, j) \in V
    <3>1. j \notin stops => w[next[j]] \in V
      BY <2>1, <2>2
    <3> QED
      BY <2>2, <3>1
  <2>4. \A i \in (j + 1)..n : i # j
    BY <2>2
  <2>5. u \in [j..n -> V]
    BY <2>1, <2>2, <2>3, <2>4
  <2>6. \A i \in j..n : i \notin stops => next[i] \in (j + 1)..n
    BY <2>2
  <2>7. \A i \in (j + 1)..n : u[i] = w[i]
    BY <2>2, <2>4
  <2>8. \A i \in j..n : u[i] = Rule(w, i)
    BY <2>1, <2>2, <2>4, Zenon
  <2> HIDE DEF u
  <2>9. \A i \in j..n : u[i] = Rule(u, i)
    BY <2>6, <2>7, <2>8, Zenon
  <2> QED
    BY <2>2, <2>5, <2>9
<1>3. Bad = {}
  <2> SUFFICES ASSUME Bad # {} PROVE FALSE
    OBVIOUS
  <2>1. PICK k \in Bad : \A m \in Bad : k <= m
    <3> Bad \subseteq Nat
      OBVIOUS
    <3> HIDE DEF Bad
    <3> QED
      BY LeastOf, Zenon
  <2> HIDE DEF Good
  <2>2. k \in 0..n /\ k # 0 /\ ~Good(k)
    BY <1>1, Zenon
  <2>3. k - 1 \in 0..n /\ ~(k <= k - 1) /\ k \in 1..n
    BY <2>2
  <2>4. Good(k - 1)
    BY <2>1, <2>3, Zenon
  <2> QED
    BY <1>2, <2>2, <2>3, <2>4, Zenon
<1>4. Good(n) /\ From(n) = 1..n
  <2>1. n \in 0..n /\ From(n) = 1..n
    OBVIOUS
  <2> HIDE DEF Good, From
  <2> QED
    BY <1>3, <2>1, Zenon
<1> QED
  BY <1>4 DEF IsWalk

-----------------------------------------------------------------------------
(* The class descriptors behind a control interface                        *)

Byte == 0..255

\* A descriptor that begins at i and ends within the list.
Whole(extra, i) == i \in 1..Len(extra) /\ extra[i] >= 2 /\ i + extra[i] <= Len(extra) + 1

\* Where descriptors begin: at the first byte, and behind each whole descriptor.
Follows(extra, S) == 1 \in S /\ \A i \in S : Whole(extra, i) => i + extra[i] \in S

Starts(extra) ==
  {i \in 1..(Len(extra) + 1) : \A S \in SUBSET (1..(Len(extra) + 1)) : Follows(extra, S) => i \in S}

\* The Union descriptors among them that are long enough to name an interface.
Unions(extra) ==
  {i \in Starts(extra) : /\ Whole(extra, i) /\ extra[i] >= 5
                         /\ extra[i + 1] = CS_INTERFACE /\ extra[i + 2] = CDC_UNION}

\* The conditions of union_subordinate in other words.
LEMMA WholeIs ==
  ASSUME NEW extra \in Seq(Byte), NEW i \in 1..(Len(extra) + 1)
  PROVE  /\ Whole(extra, i) <=> ~(i > Len(extra) \/ extra[i] < 2 \/ i + extra[i] > Len(extra) + 1)
         /\ Whole(extra, i) => i + extra[i] \in (i + 1)..(Len(extra) + 1)
         /\ Whole(extra, i) => i + extra[i] \in 1..(Len(extra) + 1)
<1> DEFINE n == Len(extra)
           x == extra[i]
<1>0. n \in Nat /\ i \in 1..(n + 1) /\ (i \in 1..n => x \in Byte)
  OBVIOUS
<1>1. n \in Nat /\ i \in 1..(n + 1) /\ (i \in 1..n => x \in 0..255)
  BY <1>0, Zenon DEF Byte
<1>2. Whole(extra, i) <=> i \in 1..n /\ x >= 2 /\ i + x <= n + 1
  BY Zenon DEF Whole
<1> HIDE DEF n, x
<1>3. ASSUME i \in 1..n
      PROVE  /\ (x >= 2 /\ i + x <= n + 1) <=> ~(i > n \/ x < 2 \/ i + x > n + 1)
             /\ x >= 2 /\ i + x <= n + 1 => i + x \in (i + 1)..(n + 1) /\ i + x \in 1..(n + 1)
  <2>1. x \in 0..255 /\ i \in Nat /\ n \in Nat /\ i >= 1 /\ i <= n
    BY <1>1, <1>3
  <2> QED
    BY <2>1
<1>4. i \notin 1..n => i > n
  BY <1>1
<1>5. /\ Whole(extra, i) <=> ~(i > n \/ x < 2 \/ i + x > n + 1)
      /\ Whole(extra, i) => i + x \in (i + 1)..(n + 1)
      /\ Whole(extra, i) => i + x \in 1..(n + 1)
  BY <1>2, <1>3, <1>4, Zenon
<1> QED
  BY <1>5, Zenon DEF n, x

\* Starts is the least set of its kind.
LEMMA StartsFollow ==
  ASSUME NEW extra \in Seq(Byte)
  PROVE  /\ Follows(extra, Starts(extra)) /\ Starts(extra) \subseteq 1..(Len(extra) + 1)
         /\ \A S : S \subseteq Starts(extra) /\ Follows(extra, S) => S = Starts(extra)
<1>1. Len(extra) \in Nat /\ \A i \in 1..Len(extra) : extra[i] \in Byte
  OBVIOUS
<1>2. 1 \in Starts(extra)
  BY <1>1 DEF Starts, Follows
<1>4. Starts(extra) \subseteq 1..(Len(extra) + 1)
  BY DEF Starts
<1>3. ASSUME NEW i \in Starts(extra), Whole(extra, i) PROVE i + extra[i] \in Starts(extra)
  <2>1. i + extra[i] \in 1..(Len(extra) + 1)
    BY <1>3, <1>4, WholeIs, Zenon
  <2>2. ASSUME NEW S \in SUBSET (1..(Len(extra) + 1)), Follows(extra, S) PROVE i + extra[i] \in S
    BY <1>3, <2>2, Zenon DEF Starts, Follows
  <2> QED
    BY <2>1, <2>2 DEF Starts
<1>5. ASSUME NEW S, S \subseteq Starts(extra), Follows(extra, S) PROVE S = Starts(extra)
  <2>1. S \in SUBSET (1..(Len(extra) + 1))
    BY <1>4, <1>5, Zenon
  <2> QED
    BY <1>5, <2>1, Zenon DEF Starts
<1> QED
  BY <1>2, <1>3, <1>4, <1>5 DEF Follows

\* The steps of union_subordinate: it stops at a complete Union descriptor and where
\* no whole descriptor is left.
UnionStops(extra) ==
  {i \in 1..(Len(extra) + 1) :
     ~Whole(extra, i) \/ (extra[i + 1] = CS_INTERFACE /\ extra[i] >= 5 /\ extra[i + 2] = CDC_UNION)}

UnionSaid(extra, i) == IF Whole(extra, i) THEN <<extra[i + 4]>> ELSE <<>>

\* UnionSubordinate is that walk.
LEMMA UnionWalk ==
  ASSUME NEW extra \in Seq(Byte)
  PROVE  \E w : /\ UnionSubordinate(extra) = w[1]
                /\ \A i \in 1..(Len(extra) + 1) :
                     w[i] = IF i \in UnionStops(extra) THEN UnionSaid(extra, i) ELSE w[i + extra[i]]
<1> DEFINE n == Len(extra) + 1
           Step(g, i) ==
             IF i > Len(extra) \/ extra[i] < 2 \/ i + extra[i] > Len(extra) + 1 THEN <<>>
             ELSE IF extra[i + 1] = CS_INTERFACE /\ extra[i] >= 5 /\ extra[i + 2] = CDC_UNION
                  THEN <<extra[i + 4]>>
             ELSE g[i + extra[i]]
           Rule(g, i) == IF i \in UnionStops(extra) THEN UnionSaid(extra, i) ELSE g[i + extra[i]]
           It == CHOOSE g : g = [i \in 1..(Len(extra) + 1) |-> Step(g, i)]
<1>1. UnionSubordinate(extra) = It[1]
  BY DEF UnionSubordinate
<1>2. Len(extra) \in Nat /\ n \in Nat /\ \A i \in 1..Len(extra) : extra[i] \in Byte
  OBVIOUS
<1>3. ASSUME NEW g, NEW i \in 1..n PROVE Step(g, i) = Rule(g, i)
  <2>1. CASE Whole(extra, i)
    <3>1. ~(i > Len(extra) \/ extra[i] < 2 \/ i + extra[i] > Len(extra) + 1)
      BY <2>1, WholeIs, Zenon
    <3>2. i \in UnionStops(extra)
            <=> extra[i + 1] = CS_INTERFACE /\ extra[i] >= 5 /\ extra[i + 2] = CDC_UNION
      BY <2>1, Zenon DEF UnionStops
    <3> QED
      BY <2>1, <3>1, <3>2, Zenon DEF UnionSaid
  <2>2. CASE ~Whole(extra, i)
    <3>1. i > Len(extra) \/ extra[i] < 2 \/ i + extra[i] > Len(extra) + 1
      BY <2>2, WholeIs, Zenon
    <3>2. i \in UnionStops(extra)
      BY <2>2, Zenon DEF UnionStops
    <3> QED
      BY <2>2, <3>1, <3>2, Zenon DEF UnionSaid
  <2> QED
    BY <2>1, <2>2
<1>4. \E w : w = [i \in 1..n |-> Step(w, i)]
  <2> DEFINE V == {<<>>} \cup {<<extra[i]>> : i \in Int}
             out == [i \in 1..n |-> UnionSaid(extra, i)]
             next == [i \in 1..n |-> i + extra[i]]
             comb == [i \in 1..n |-> [v \in V |-> v]]
  <2>1. out \in [1..n -> V] /\ comb \in [1..n -> [V -> V]]
    BY <1>2 DEF UnionSaid
  <2>2. \A i \in (1..n) \ UnionStops(extra) : next[i] \in (i + 1)..n
    BY WholeIs, Zenon DEF UnionStops
  <2>3. \A i \in (1..n) \ UnionStops(extra) : next[i] \in 1..n
    BY <1>2, <2>2
  <2> HIDE DEF V
  <2>4. PICK w \in [1..n -> V] : IsWalk(w, n, UnionStops(extra), out, next, comb)
    <3> HIDE DEF out, next, comb, n
    <3> QED
      BY <1>2, <2>1, <2>2, WalkExists, Zenon
  <2>5. ASSUME NEW i \in 1..n PROVE w[i] = Rule(w, i)
    BY <2>3, <2>4 DEF IsWalk
  <2>6. w = [i \in 1..n |-> w[i]]
    BY Zenon
  <2>7. \A i \in 1..n : w[i] = Step(w, i)
    BY <1>3, <2>5, Zenon
  <2> HIDE DEF Step
  <2> QED
    BY <2>6, <2>7, Zenon
<1>5. It = [i \in 1..n |-> Step(It, i)]
  BY <1>4, Zenon
<1> HIDE DEF It
<1>6. \A i \in 1..n : It[i] = Step(It, i)
  BY <1>5, Zenon
<1>7. \A i \in 1..n : It[i] = Rule(It, i)
  BY <1>3, <1>6, Zenon
<1> QED
  BY <1>1, <1>7, Zenon

\* What a list of class descriptors names: what its first complete Union descriptor
\* does, wherever in the list that is and whatever descriptors, Union descriptors too
\* short for the field among them, are in front of it; without one, nothing, also when
\* the list is cut short or a length in it is zero (union_subordinate).
THEOREM FirstUnionNames ==
  ASSUME NEW extra \in Seq(Byte)
  PROVE  UnionSubordinate(extra) =
           IF Unions(extra) = {} THEN <<>> ELSE <<extra[Min(Unions(extra)) + 4]>>
<1>1. PICK w : /\ UnionSubordinate(extra) = w[1]
               /\ \A i \in 1..(Len(extra) + 1) :
                    w[i] = IF i \in UnionStops(extra) THEN UnionSaid(extra, i) ELSE w[i + extra[i]]
  BY UnionWalk
<1>2. /\ Follows(extra, Starts(extra)) /\ Starts(extra) \subseteq 1..(Len(extra) + 1)
      /\ \A S : S \subseteq Starts(extra) /\ Follows(extra, S) => S = Starts(extra)
      /\ Len(extra) \in Nat
  BY StartsFollow
<1> DEFINE Passed(i) == \A u \in Unions(extra) : ~(u < i)
           S == {i \in Starts(extra) : Passed(i) => w[1] = w[i]}
<1>3. \A i \in Starts(extra) : i \in Nat /\ (Whole(extra, i) => i < i + extra[i])
  <2> SUFFICES ASSUME NEW i \in Starts(extra)
               PROVE  i \in Nat /\ (Whole(extra, i) => i < i + extra[i])
    OBVIOUS
  <2>1. i \in 1..(Len(extra) + 1) /\ i \in Nat
    BY <1>2
  <2>2. Whole(extra, i) => i + extra[i] \in (i + 1)..(Len(extra) + 1)
    BY <2>1, WholeIs
  <2> QED
    BY <1>2, <2>1, <2>2
<1>4. Follows(extra, S)
  <2>1. 1 \in S
    BY <1>2 DEF Follows
  <2>2. ASSUME NEW i \in S, Whole(extra, i), Passed(i + extra[i]) PROVE w[1] = w[i + extra[i]]
    <3> DEFINE j == i + extra[i]
    <3>1. i \in Starts(extra) /\ j \in Starts(extra)
      BY <1>2, <2>2, Zenon DEF Follows
    <3>2. i \in Nat /\ j \in Nat /\ i < j
      BY <1>3, <2>2, <3>1
    <3>3. i \notin Unions(extra)
      BY <2>2, <3>2, Zenon
    <3>4. Passed(i)
      <4> SUFFICES ASSUME NEW u \in Unions(extra), u < i PROVE FALSE
        OBVIOUS
      <4>1. u \in Nat /\ ~(u < j)
        BY <1>3, <2>2, Zenon DEF Unions
      <4> HIDE DEF j
      <4> QED
        BY <3>2, <4>1
    <3>5. i \notin UnionStops(extra)
      BY <2>2, <3>1, <3>3, Zenon DEF UnionStops, Unions
    <3>6. w[i] = w[j]
      BY <1>1, <1>2, <3>1, <3>5, Zenon
    <3> QED
      BY <3>4, <3>6, Zenon
  <2> QED
    BY <1>2, <2>1, <2>2, Zenon DEF Follows
<1>5. \A i \in Starts(extra) : Passed(i) => w[1] = w[i]
  <2>1. S \subseteq Starts(extra)
    OBVIOUS
  <2>2. S = Starts(extra)
    <3> HIDE DEF S
    <3> QED
      BY <1>2, <1>4, <2>1, Zenon
  <2> QED
    BY <2>2, Zenon
<1>6. CASE Unions(extra) = {}
  <2>1. Starts(extra) # {} /\ Len(extra) + 1 \in Nat
    BY <1>2 DEF Follows
  <2> DEFINE m == Max(Starts(extra))
  <2>2. m \in Starts(extra) /\ \A i \in Starts(extra) : i <= m
    BY <1>2, <2>1, MaxOf, Zenon
  <2> HIDE DEF m
  <2>3. ~Whole(extra, m)
    <3> SUFFICES ASSUME Whole(extra, m) PROVE FALSE
      OBVIOUS
    <3>1. m + extra[m] \in Starts(extra) /\ m < m + extra[m]
      BY <1>2, <1>3, <2>2, Zenon DEF Follows
    <3> DEFINE j == m + extra[m]
    <3>2. j \in Nat /\ m \in Nat /\ j <= m /\ m < j
      BY <1>3, <2>2, <3>1, Zenon
    <3> HIDE DEF j
    <3> QED
      BY <3>2
  <2>4. w[m] = UnionSaid(extra, m)
    BY <1>1, <1>2, <2>2, <2>3, Zenon DEF UnionStops
  <2> QED
    BY <1>1, <1>5, <1>6, <2>2, <2>3, <2>4, Zenon DEF UnionSaid
<1>7. CASE Unions(extra) # {}
  <2> DEFINE m == Min(Unions(extra))
  <2>1. Unions(extra) \subseteq Nat
    BY <1>3, Zenon DEF Unions
  <2>2. m \in Unions(extra) /\ \A u \in Unions(extra) : m <= u
    BY <1>7, <2>1, MinOf, Zenon
  <2>3. \A u \in Unions(extra) : u \in Nat
    BY <2>1
  <2> HIDE DEF m
  <2>4. Passed(m)
    BY <2>2, <2>3
  <2>5. m \in Starts(extra) /\ Whole(extra, m) /\ m \in UnionStops(extra)
    BY <1>2, <2>2, Zenon DEF Unions, UnionStops
  <2>6. w[m] = <<extra[m + 4]>>
    BY <1>1, <1>2, <2>5, Zenon DEF UnionSaid
  <2> QED
    BY <1>1, <1>5, <1>7, <2>4, <2>5, <2>6, Zenon DEF m
<1> QED
  BY <1>6, <1>7

-----------------------------------------------------------------------------
(* The function in a device's descriptors                                  *)

EndpointDescriptor ==
  [address : Byte, type : {"Control", "Isochronous", "Bulk", "Interrupt"}]

InterfaceDescriptor ==
  [number : Byte, alt : Byte, sig : Byte \X Byte \X Byte,
   endpoints : Seq(EndpointDescriptor), extra : Seq(Byte)]

ConfigDescriptor == [value : Byte, interfaces : Seq(InterfaceDescriptor)]

\* The data interface a control interface belongs with: the one its descriptors name,
\* else the next.
PartnerOf(control) ==
  IF Unions(control.extra) = {} THEN (control.number + 1) % 256
  ELSE control.extra[Min(Unions(control.extra)) + 4]

\* The endpoints of an interface that have the type and the direction.
Such(i, type, dir) ==
  {n \in DOMAIN i.endpoints : i.endpoints[n].type = type /\ Direction(i.endpoints[n]) = dir}

\* The c-th configuration has a control interface in the k-th place, and in the d-th
\* the data interface that belongs with it, with a bulk endpoint for each direction.
IsFunction(configs, c, k, d) ==
  LET control == configs[c].interfaces[k]
      data == configs[c].interfaces[d]
  IN  /\ control.alt = 0 /\ control.sig \in CONTROL_SIGNATURES
      /\ data.number = PartnerOf(control) /\ data.sig[1] = CLASS_CDC_DATA
      /\ Such(data, "Bulk", "In") # {} /\ Such(data, "Bulk", "Out") # {}

RndisFunctions(configs) ==
  {t \in (DOMAIN configs) \X Nat \X Nat :
     /\ t[2] \in DOMAIN configs[t[1]].interfaces /\ t[3] \in DOMAIN configs[t[1]].interfaces
     /\ IsFunction(configs, t[1], t[2], t[3])}

\* The one listed first: of the first configuration, in it of the first control
\* interface, and of that the first alternate setting.
NotAfter(t, u) ==
  \/ t[1] < u[1]
  \/ t[1] = u[1] /\ t[2] < u[2]
  \/ t[1] = u[1] /\ t[2] = u[2] /\ t[3] <= u[3]

FirstFunction(configs) ==
  CHOOSE t \in RndisFunctions(configs) : \A u \in RndisFunctions(configs) : NotAfter(t, u)

\* What is to be known of it.
Described(configs, t) ==
  LET control == configs[t[1]].interfaces[t[2]]
      data == configs[t[1]].interfaces[t[3]]
      first(dir) == data.endpoints[Min(Such(data, "Bulk", dir))].address
  IN  [config |-> configs[t[1]].value, control |-> control.number,
       data |-> data.number, alt |-> data.alt,
       notify |-> Such(control, "Interrupt", "In") # {},
       bulkIn |-> first("In"), bulkOut |-> first("Out")]

Meaning(configs) ==
  IF RndisFunctions(configs) = {} THEN <<>> ELSE <<Described(configs, FirstFunction(configs))>>

\* EndpointOf gives the first such endpoint.
LEMMA FirstEndpoint ==
  ASSUME NEW i \in InterfaceDescriptor, NEW type, NEW dir
  PROVE  EndpointOf(i, type, dir) =
           IF Such(i, type, dir) = {} THEN <<>> ELSE <<i.endpoints[Min(Such(i, type, dir))]>>
<1> DEFINE hit(e) == IF e.type = type /\ Direction(e) = dir THEN <<e>> ELSE <<>>
           hits == {n \in DOMAIN i.endpoints : hit(i.endpoints[n]) # <<>>}
<1>1. EndpointOf(i, type, dir) = IF hits = {} THEN <<>> ELSE hit(i.endpoints[Min(hits)])
  BY Zenon DEF EndpointOf, FindMap
<1>2. \A e : <<e>> # <<>>
  OBVIOUS
<1>3. hits = Such(i, type, dir)
  BY <1>2, Zenon DEF Such
<1>4. DOMAIN i.endpoints \subseteq Nat
  BY DEF InterfaceDescriptor
<1>5. ASSUME hits # {} PROVE hit(i.endpoints[Min(hits)]) = <<i.endpoints[Min(hits)]>>
  <2>1. hits \subseteq Nat
    BY <1>4
  <2>2. Min(hits) \in hits
    <3> HIDE DEF hits
    <3> QED
      BY <1>5, <2>1, MinOf, Zenon
  <2> QED
    BY <2>2, Zenon
<1> QED
  BY <1>1, <1>3, <1>5, Zenon

\* The data interfaces of the k-th interface, and the control interfaces that have one.
DataOf(configs, c, k) == {d \in DOMAIN configs[c].interfaces : IsFunction(configs, c, k, d)}

ControlOf(configs, c) == {k \in DOMAIN configs[c].interfaces : DataOf(configs, c, k) # {}}

\* build takes the first data interface.
LEMMA BuildIs ==
  ASSUME NEW configs \in Seq(ConfigDescriptor), NEW c \in DOMAIN configs,
         NEW k \in DOMAIN configs[c].interfaces,
         configs[c].interfaces[k].alt = 0, configs[c].interfaces[k].sig \in CONTROL_SIGNATURES
  PROVE  Build(configs[c], configs[c].interfaces[k]) =
           IF DataOf(configs, c, k) = {} THEN <<>>
           ELSE <<Described(configs, <<c, k, Min(DataOf(configs, c, k))>>)>>
<1> DEFINE config == configs[c]
           control == config.interfaces[k]
           bulk(i, dir) == EndpointOf(i, "Bulk", dir)
           made(i) == [config |-> config.value, control |-> control.number,
                       data |-> i.number, alt |-> i.alt,
                       notify |-> EndpointOf(control, "Interrupt", "In") # <<>>,
                       bulkIn |-> bulk(i, "In")[1].address, bulkOut |-> bulk(i, "Out")[1].address]
           pair(i) == IF /\ i.number = DataNumber(control) /\ i.sig[1] = CLASS_CDC_DATA
                         /\ bulk(i, "In") # <<>> /\ bulk(i, "Out") # <<>>
                      THEN <<made(i)>> ELSE <<>>
           hits == {d \in DOMAIN config.interfaces : pair(config.interfaces[d]) # <<>>}
<1>1. Build(config, control) = IF hits = {} THEN <<>> ELSE pair(config.interfaces[Min(hits)])
  BY Zenon DEF Build, FindMap
<1>2. /\ \A d \in DOMAIN config.interfaces : config.interfaces[d] \in InterfaceDescriptor
      /\ DOMAIN config.interfaces \subseteq Nat
      /\ control \in InterfaceDescriptor /\ control.extra \in Seq(Byte)
  <2>1. config \in ConfigDescriptor
    OBVIOUS
  <2>2. config.interfaces \in Seq(InterfaceDescriptor)
    BY <2>1 DEF ConfigDescriptor
  <2>3. /\ \A d \in DOMAIN config.interfaces : config.interfaces[d] \in InterfaceDescriptor
        /\ DOMAIN config.interfaces \subseteq Nat
    BY <2>2
  <2> QED
    BY <2>3 DEF InterfaceDescriptor
<1>3. DataNumber(control) = PartnerOf(control)
  <2>1. \A e : <<e>> # <<>> /\ <<e>>[1] = e
    OBVIOUS
  <2>2. UnionSubordinate(control.extra) =
          IF Unions(control.extra) = {} THEN <<>>
          ELSE <<control.extra[Min(Unions(control.extra)) + 4]>>
    BY <1>2, FirstUnionNames, Zenon
  <2>3. CASE Unions(control.extra) = {}
    BY <2>2, <2>3, Zenon DEF DataNumber, PartnerOf
  <2>4. CASE Unions(control.extra) # {}
    BY <2>1, <2>2, <2>4, Zenon DEF DataNumber, PartnerOf
  <2> QED
    BY <2>3, <2>4
<1>4. ASSUME NEW i \in InterfaceDescriptor, NEW type, NEW dir
      PROVE  /\ EndpointOf(i, type, dir) # <<>> <=> Such(i, type, dir) # {}
             /\ Such(i, type, dir) # {} =>
                  EndpointOf(i, type, dir)[1] = i.endpoints[Min(Such(i, type, dir))]
  <2>1. \A e : <<e>> # <<>> /\ <<e>>[1] = e
    OBVIOUS
  <2>2. EndpointOf(i, type, dir) =
          IF Such(i, type, dir) = {} THEN <<>> ELSE <<i.endpoints[Min(Such(i, type, dir))]>>
    BY FirstEndpoint, Zenon
  <2>3. CASE Such(i, type, dir) = {}
    BY <2>2, <2>3, Zenon
  <2>4. CASE Such(i, type, dir) # {}
    BY <2>1, <2>2, <2>4, Zenon
  <2> QED
    BY <2>3, <2>4, Zenon
<1>5. ASSUME NEW d \in DOMAIN config.interfaces
      PROVE  /\ pair(config.interfaces[d]) # <<>> <=> IsFunction(configs, c, k, d)
             /\ IsFunction(configs, c, k, d) =>
                  pair(config.interfaces[d]) = <<Described(configs, <<c, k, d>>)>>
  <2> DEFINE i == config.interfaces[d]
             good == /\ i.number = DataNumber(control) /\ i.sig[1] = CLASS_CDC_DATA
                     /\ bulk(i, "In") # <<>> /\ bulk(i, "Out") # <<>>
  <2>1. i \in InterfaceDescriptor
    BY <1>2
  <2>2. good <=> IsFunction(configs, c, k, d)
    <3>1. /\ bulk(i, "In") # <<>> <=> Such(i, "Bulk", "In") # {}
          /\ bulk(i, "Out") # <<>> <=> Such(i, "Bulk", "Out") # {}
      BY <1>4, <2>1, Zenon
    <3>2. IsFunction(configs, c, k, d) <=>
            /\ i.number = PartnerOf(control) /\ i.sig[1] = CLASS_CDC_DATA
            /\ Such(i, "Bulk", "In") # {} /\ Such(i, "Bulk", "Out") # {}
      BY Zenon DEF IsFunction
    <3> QED
      BY <1>3, <3>1, <3>2, Zenon
  <2>3. ASSUME good PROVE made(i) = Described(configs, <<c, k, d>>)
    <3>1. <<c, k, d>>[1] = c /\ <<c, k, d>>[2] = k /\ <<c, k, d>>[3] = d
      OBVIOUS
    <3>2. /\ bulk(i, "In")[1] = i.endpoints[Min(Such(i, "Bulk", "In"))]
          /\ bulk(i, "Out")[1] = i.endpoints[Min(Such(i, "Bulk", "Out"))]
      BY <1>4, <2>1, <2>3, Zenon
    <3>3. (EndpointOf(control, "Interrupt", "In") # <<>>) = (Such(control, "Interrupt", "In") # {})
      BY <1>2, <1>4, Zenon
    <3> QED
      BY <3>1, <3>2, <3>3, Zenon DEF Described
  <2>4. \A e : <<e>> # <<>>
    OBVIOUS
  <2> QED
    BY <2>2, <2>3, <2>4, Zenon
<1>6. hits = DataOf(configs, c, k)
  BY <1>5, Zenon DEF DataOf
<1>7. ASSUME hits # {}
      PROVE  pair(config.interfaces[Min(hits)]) = <<Described(configs, <<c, k, Min(hits)>>)>>
  <2>1. hits \subseteq Nat
    BY <1>2
  <2>2. Min(hits) \in hits
    <3> HIDE DEF hits
    <3> QED
      BY <1>7, <2>1, MinOf, Zenon
  <2> HIDE DEF pair
  <2> QED
    BY <1>5, <1>6, <2>2, Zenon DEF DataOf
<1> QED
  BY <1>1, <1>6, <1>7, Zenon

\* find_rndis_in_config takes the first control interface that has one.
LEMMA InConfigIs ==
  ASSUME NEW configs \in Seq(ConfigDescriptor), NEW c \in DOMAIN configs
  PROVE  FindRndisInConfig(configs[c]) =
           LET k == Min(ControlOf(configs, c))
           IN  IF ControlOf(configs, c) = {} THEN <<>>
               ELSE <<Described(configs, <<c, k, Min(DataOf(configs, c, k))>>)>>
<1> DEFINE config == configs[c]
           try(i) == IF i.alt = 0 /\ i.sig \in CONTROL_SIGNATURES THEN Build(config, i) ELSE <<>>
           hits == {k \in DOMAIN config.interfaces : try(config.interfaces[k]) # <<>>}
<1>1. FindRndisInConfig(config) = IF hits = {} THEN <<>> ELSE try(config.interfaces[Min(hits)])
  BY Zenon DEF FindRndisInConfig, FindMap
<1>2. DOMAIN config.interfaces \subseteq Nat
  <2>1. config \in ConfigDescriptor
    OBVIOUS
  <2> QED
    BY <2>1 DEF ConfigDescriptor
<1>3. ASSUME NEW k \in DOMAIN config.interfaces
      PROVE  try(config.interfaces[k]) =
               IF DataOf(configs, c, k) = {} THEN <<>>
               ELSE <<Described(configs, <<c, k, Min(DataOf(configs, c, k))>>)>>
  <2>1. CASE config.interfaces[k].alt = 0 /\ config.interfaces[k].sig \in CONTROL_SIGNATURES
    BY <2>1, BuildIs, Zenon
  <2>2. CASE ~(config.interfaces[k].alt = 0 /\ config.interfaces[k].sig \in CONTROL_SIGNATURES)
    <3>1. DataOf(configs, c, k) = {}
      BY <2>2, Zenon DEF DataOf, IsFunction
    <3> QED
      BY <2>2, <3>1, Zenon
  <2> QED
    BY <2>1, <2>2, Zenon
<1>4. hits = ControlOf(configs, c)
  <2>1. \A e : <<e>> # <<>>
    OBVIOUS
  <2> HIDE DEF try
  <2> QED
    BY <1>3, <2>1, Zenon DEF ControlOf
<1>5. ASSUME hits # {} PROVE Min(hits) \in hits
  <2>1. hits \subseteq Nat
    BY <1>2
  <2> HIDE DEF hits
  <2> QED
    BY <1>5, <2>1, MinOf, Zenon
<1> HIDE DEF try
<1>6. ASSUME hits # {}
      PROVE  try(config.interfaces[Min(hits)]) =
               <<Described(configs, <<c, Min(hits), Min(DataOf(configs, c, Min(hits)))>>)>>
  BY <1>3, <1>4, <1>5, <1>6, Zenon DEF ControlOf
<1> QED
  BY <1>1, <1>4, <1>6, Zenon

\* The search gives what is meant, for every device's descriptors: nothing if no
\* configuration has a complete function, and else the first one, with the data
\* interface that its Union descriptor names or that comes next, the alternate setting
\* that has the bulk pair, and the first endpoint of each kind.  Control interfaces
\* without a data interface in front of it are passed over, also in an earlier
\* configuration (find_rndis).
THEOREM FindsFirstFunction ==
  ASSUME NEW configs \in Seq(ConfigDescriptor)
  PROVE  FindRndis(configs) = Meaning(configs)
<1> DEFINE hits == {c \in DOMAIN configs : FindRndisInConfig(configs[c]) # <<>>}
           Found == {c \in DOMAIN configs : ControlOf(configs, c) # {}}
<1>1. FindRndis(configs) = IF hits = {} THEN <<>> ELSE FindRndisInConfig(configs[Min(hits)])
  BY Zenon DEF FindRndis, FindMap
<1>2. hits = Found
  <2>1. \A e : <<e>> # <<>>
    OBVIOUS
  <2> QED
    BY <2>1, InConfigIs, Zenon
<1>3. /\ DOMAIN configs \subseteq Nat
      /\ \A c \in DOMAIN configs : DOMAIN configs[c].interfaces \subseteq Nat
  <2>1. DOMAIN configs \subseteq Nat /\ \A c \in DOMAIN configs : configs[c] \in ConfigDescriptor
    OBVIOUS
  <2>2. ASSUME NEW g \in ConfigDescriptor PROVE DOMAIN g.interfaces \subseteq Nat
    BY DEF ConfigDescriptor
  <2> QED
    BY <2>1, <2>2, Zenon
<1>4. ASSUME NEW t \in RndisFunctions(configs)
      PROVE  /\ t[1] \in Found /\ t[2] \in ControlOf(configs, t[1])
             /\ t[3] \in DataOf(configs, t[1], t[2]) /\ t = <<t[1], t[2], t[3]>>
  <2>1. t \in (DOMAIN configs) \X Nat \X Nat
    BY Zenon DEF RndisFunctions
  <2>2. t = <<t[1], t[2], t[3]>> /\ t[1] \in DOMAIN configs
    BY <2>1
  <2> QED
    BY <2>2, Zenon DEF RndisFunctions, DataOf, ControlOf
<1>5. CASE Found = {}
  BY <1>1, <1>2, <1>4, <1>5, Zenon DEF Meaning
<1>6. CASE Found # {}
  <2> DEFINE c == Min(Found)
             k == Min(ControlOf(configs, c))
             d == Min(DataOf(configs, c, k))
  <2>1. Found \subseteq Nat
    BY <1>3
  <2>2. c \in Found /\ \A x \in Found : c <= x
    <3> HIDE DEF Found
    <3> QED
      BY <1>6, <2>1, MinOf, Zenon
  <2> HIDE DEF c
  <2>3. ControlOf(configs, c) \subseteq Nat /\ ControlOf(configs, c) # {}
    BY <1>3, <2>2, Zenon DEF ControlOf
  <2>4. k \in ControlOf(configs, c) /\ \A x \in ControlOf(configs, c) : k <= x
    BY <2>3, MinOf, Zenon
  <2> HIDE DEF k
  <2>5. DataOf(configs, c, k) \subseteq Nat /\ DataOf(configs, c, k) # {}
    BY <1>3, <2>2, <2>4, Zenon DEF ControlOf, DataOf
  <2>6. d \in DataOf(configs, c, k) /\ \A x \in DataOf(configs, c, k) : d <= x
    BY <2>5, MinOf, Zenon
  <2> HIDE DEF d
  <2> DEFINE f == <<c, k, d>>
  <2>7. f[1] = c /\ f[2] = k /\ f[3] = d
    OBVIOUS
  <2>8. f \in RndisFunctions(configs)
    <3>1. c \in DOMAIN configs /\ k \in Nat /\ d \in Nat
      BY <2>2, <2>3, <2>4, <2>5, <2>6, Zenon
    <3>2. f \in (DOMAIN configs) \X Nat \X Nat
      BY <3>1
    <3>3. /\ k \in DOMAIN configs[c].interfaces /\ d \in DOMAIN configs[c].interfaces
          /\ IsFunction(configs, c, k, d)
      BY <2>4, <2>6, Zenon DEF ControlOf, DataOf
    <3> HIDE DEF f
    <3> QED
      BY <2>7, <3>2, <3>3, Zenon DEF RndisFunctions
  <2>9. ASSUME NEW u \in RndisFunctions(configs)
        PROVE  NotAfter(f, u) /\ (NotAfter(u, f) => u = f)
    <3> DEFINE x == u[1]
               y == u[2]
               z == u[3]
    <3>1. x \in Found /\ y \in ControlOf(configs, x) /\ z \in DataOf(configs, x, y) /\ u = <<x, y, z>>
      BY <1>4
    <3>2. /\ c <= x /\ (x = c => k <= y) /\ (x = c /\ y = k => d <= z)
      BY <2>2, <2>4, <2>6, <3>1, Zenon
    <3>3. x \in Nat /\ y \in Nat /\ z \in Nat /\ c \in Nat /\ k \in Nat /\ d \in Nat
      BY <1>3, <2>1, <2>2, <2>3, <2>4, <2>5, <2>6, <3>1, Zenon DEF ControlOf, DataOf
    <3>4. /\ NotAfter(f, u) <=> c < x \/ (c = x /\ k < y) \/ (c = x /\ k = y /\ d <= z)
          /\ NotAfter(u, f) <=> x < c \/ (x = c /\ y < k) \/ (x = c /\ y = k /\ z <= d)
      <4> HIDE DEF f
      <4> QED
        BY <2>7, Zenon DEF NotAfter
    <3> HIDE DEF x, y, z
    <3>5. NotAfter(f, u)
      BY <3>2, <3>3, <3>4
    <3>6. NotAfter(u, f) => x = c /\ y = k /\ z = d
      BY <3>2, <3>3, <3>4
    <3> QED
      BY <3>1, <3>5, <3>6, Zenon
  <2> HIDE DEF f
  <2>10. FirstFunction(configs) = f
    BY <2>8, <2>9, Zenon DEF FirstFunction
  <2>11. FindRndis(configs) = <<Described(configs, <<c, k, d>>)>>
    BY <1>1, <1>2, <1>6, <2>2, <2>3, InConfigIs, Zenon DEF c, k, d
  <2> QED
    BY <2>8, <2>10, <2>11, Zenon DEF Meaning, f
<1> QED
  BY <1>5, <1>6, Zenon

-----------------------------------------------------------------------------
(* The options of a DHCP message                                           *)

\* An option begins at i...
IsOption(b, i) == i \in 1..Len(b) /\ b[i] \notin {OPT_PAD, OPT_END}

\* ... with its length and all of its data...
WholeOption(b, i) == IsOption(b, i) /\ i < Len(b) /\ i + 1 + b[i + 1] <= Len(b)

\* ... or without.
CutOption(b, i) == IsOption(b, i) /\ ~WholeOption(b, i)

DataAt(b, i) == SubSeq(b, i + 2, i + 1 + b[i + 1])

\* Where the pieces of the options begin: at the first byte, behind each byte of
\* padding and behind each whole option.
IsPad(b, i) == i \in 1..Len(b) /\ b[i] = OPT_PAD

Behind(b, i) == IF IsPad(b, i) THEN i + 1 ELSE i + 2 + b[i + 1]

GoesOn(b, i) == IsPad(b, i) \/ WholeOption(b, i)

PiecesFollow(b, S) == 1 \in S /\ \A i \in S : GoesOn(b, i) => Behind(b, i) \in S

Pieces(b) ==
  {i \in 1..(Len(b) + 1) : \A S \in SUBSET (1..(Len(b) + 1)) : PiecesFollow(b, S) => i \in S}

\* The options among them that set a field, and what the last of some sets it to.
Givers(b, f) ==
  {i \in Pieces(b) : WholeOption(b, i) /\ b[i] = Wanted[f][1] /\ b[i + 1] >= Wanted[f][2]}

Given(b, f, some) == IF some = {} THEN <<>> ELSE <<Kept(f, DataAt(b, Max(some)))>>

\* The next piece is further on and not beyond the end.
LEMMA BehindIs ==
  ASSUME NEW b \in Seq(Byte), NEW i \in 1..(Len(b) + 1)
  PROVE  /\ GoesOn(b, i) => Behind(b, i) \in (i + 1)..(Len(b) + 1)
         /\ WholeOption(b, i) => /\ Behind(b, i) = i + 2 + b[i + 1]
                                 /\ DataAt(b, i) = SubSeq(b, i + 2, Behind(b, i) - 1)
                                 /\ Len(DataAt(b, i)) = b[i + 1]
<1> DEFINE n == Len(b)
           x == b[i + 1]
<1>0. n \in Nat /\ i \in 1..(n + 1) /\ i \in Nat /\ i >= 1 /\ (i < n => i + 1 \in 1..n) /\ (i + 1 \in 1..n => x \in Byte)
  OBVIOUS
<1>1. n \in Nat /\ i \in 1..(n + 1) /\ i \in Nat /\ i >= 1 /\ (i < n => x \in 0..255)
  BY <1>0, Zenon DEF Byte
<1>2. IsPad(b, i) => ~WholeOption(b, i) /\ i \in 1..n
  BY Zenon DEF IsPad, WholeOption, IsOption
<1>3. WholeOption(b, i) => i < n /\ i + 1 + x <= n
  BY Zenon DEF WholeOption
<1>4. Behind(b, i) = IF IsPad(b, i) THEN i + 1 ELSE i + 2 + x
  BY Zenon DEF Behind
<1>5. CASE IsPad(b, i)
  <2>1. Behind(b, i) = i + 1 /\ i \in 1..n
    BY <1>2, <1>4, <1>5, Zenon
  <2> HIDE DEF n, x
  <2>2. i + 1 \in (i + 1)..(n + 1)
    BY <1>1, <2>1
  <2> QED
    BY <1>2, <1>5, <2>1, <2>2, Zenon DEF n
<1>6. CASE WholeOption(b, i)
  <2>1. Behind(b, i) = i + 2 + x /\ i < n /\ i + 1 + x <= n
    BY <1>2, <1>3, <1>4, <1>6, Zenon
  <2>2. x \in 0..255 /\ i \in Nat /\ n \in Nat /\ i >= 1
    BY <1>1, <2>1, Zenon
  <2> DEFINE l == i + 2
             h == i + 1 + x
             e == i + 2 + x
  <2>3. /\ e \in (i + 1)..(n + 1) /\ e - 1 = h
        /\ l \in 1..(n + 1) /\ h \in (l - 1)..n /\ h - l + 1 = x
    <3>1. i + 1 + x <= n
      BY <2>1, Zenon
    <3> HIDE DEF n, x
    <3> QED
      BY <2>2, <3>1
  <2>4. DataAt(b, i) = SubSeq(b, l, h) /\ Behind(b, i) = e
    BY <2>1, Zenon DEF DataAt
  <2>5. l \in 1..(Len(b) + 1) /\ h \in (l - 1)..Len(b) /\ h - l + 1 = x
    BY <2>3, Zenon
  <2>6. Len(SubSeq(b, l, h)) = x
    <3> HIDE DEF l, h, x
    <3>1. Len(SubSeq(b, l, h)) = h - l + 1
      BY <2>5, SubSeqProperties
    <3> QED
      BY <2>5, <3>1, Zenon
  <2>7. Behind(b, i) - 1 = h
    <3> HIDE DEF e, h
    <3> QED
      BY <2>3, <2>4, Zenon
  <2> QED
    BY <1>6, <2>1, <2>3, <2>4, <2>6, <2>7, Zenon
<1>7. CASE ~GoesOn(b, i)
  BY <1>7, Zenon DEF GoesOn
<1> QED
  BY <1>5, <1>6, <1>7, Zenon DEF GoesOn

\* Pieces is the least set of its kind.
LEMMA PiecesAre ==
  ASSUME NEW b \in Seq(Byte)
  PROVE  /\ PiecesFollow(b, Pieces(b)) /\ Pieces(b) \subseteq 1..(Len(b) + 1)
         /\ \A S : S \subseteq Pieces(b) /\ PiecesFollow(b, S) => S = Pieces(b)
<1>1. Len(b) \in Nat
  OBVIOUS
<1>2. 1 \in Pieces(b)
  BY <1>1 DEF Pieces, PiecesFollow
<1>3. Pieces(b) \subseteq 1..(Len(b) + 1)
  BY DEF Pieces
<1>4. ASSUME NEW i \in Pieces(b), GoesOn(b, i) PROVE Behind(b, i) \in Pieces(b)
  <2>1. i \in 1..(Len(b) + 1) /\ Behind(b, i) \in (i + 1)..(Len(b) + 1)
    BY <1>3, <1>4, BehindIs, Zenon
  <2>2. Behind(b, i) \in 1..(Len(b) + 1)
    BY <1>1, <2>1
  <2>3. ASSUME NEW S \in SUBSET (1..(Len(b) + 1)), PiecesFollow(b, S) PROVE Behind(b, i) \in S
    BY <1>4, <2>3, Zenon DEF Pieces, PiecesFollow
  <2> QED
    BY <2>2, <2>3, Zenon DEF Pieces
<1>5. ASSUME NEW S, S \subseteq Pieces(b), PiecesFollow(b, S) PROVE S = Pieces(b)
  <2>1. S \in SUBSET (1..(Len(b) + 1))
    BY <1>3, <1>5, Zenon
  <2> QED
    BY <1>5, <2>1, Zenon DEF Pieces
<1> QED
  BY <1>2, <1>3, <1>4, <1>5, Zenon DEF PiecesFollow

\* Nothing begins between a piece and the one behind it, or behind the last.
LEMMA PiecesInOrder ==
  ASSUME NEW b \in Seq(Byte), NEW i \in Pieces(b), NEW j \in Pieces(b), i < j
  PROVE  GoesOn(b, i) /\ Behind(b, i) <= j
<1> DEFINE Then(p, q) == GoesOn(b, p) /\ Behind(b, p) <= q
           Bad == {p \in Pieces(b) : \E q \in Pieces(b) : p < q /\ ~Then(p, q)}
<1>1. /\ PiecesFollow(b, Pieces(b)) /\ Pieces(b) \subseteq 1..(Len(b) + 1)
      /\ \A S : S \subseteq Pieces(b) /\ PiecesFollow(b, S) => S = Pieces(b)
      /\ Len(b) \in Nat
  BY PiecesAre
<1>2. \A p \in Pieces(b) : p \in Nat /\ p >= 1
  BY <1>1
<1>3. \A p \in Pieces(b) : GoesOn(b, p) => Behind(b, p) \in Pieces(b) /\ p < Behind(b, p)
  <2> SUFFICES ASSUME NEW p \in Pieces(b), GoesOn(b, p)
               PROVE  Behind(b, p) \in Pieces(b) /\ p < Behind(b, p)
    OBVIOUS
  <2>1. Behind(b, p) \in Pieces(b) /\ Behind(b, p) \in (p + 1)..(Len(b) + 1) /\ p \in Nat
    BY <1>1, <1>2, BehindIs, Zenon DEF PiecesFollow
  <2> QED
    BY <1>1, <2>1
<1>4. Bad = {}
  <2> SUFFICES ASSUME Bad # {} PROVE FALSE
    OBVIOUS
  <2>1. PICK p \in Bad : \A q \in Bad : p <= q
    <3>1. Bad \subseteq Nat
      BY <1>2
    <3> HIDE DEF Bad
    <3> QED
      BY <3>1, LeastOf, Zenon
  <2>p. p \in Pieces(b)
    OBVIOUS
  <2> DEFINE S == {q \in Pieces(b) : q <= p \/ Then(p, q)}
  <2>2. 1 \in S
    BY <1>1, <1>2, <2>p DEF PiecesFollow
  <2>3. ASSUME NEW q \in S, GoesOn(b, q) PROVE Behind(b, q) \in S
    <3> DEFINE r == Behind(b, q)
    <3>1. q \in Pieces(b) /\ r \in Pieces(b) /\ q < r
      BY <1>3, <2>3, Zenon
    <3>2. q \in Nat /\ r \in Nat /\ p \in Nat
      BY <1>2, <2>p, <3>1, Zenon
    <3>3. CASE q < p
      <4>1. q \notin Bad
        <5>1. ~(p <= q)
          BY <3>2, <3>3
        <5> QED
          BY <2>1, <5>1, Zenon
      <4>2. r <= p
        BY <2>p, <3>1, <3>3, <4>1, Zenon
      <4> QED
        BY <3>1, <4>2, Zenon
    <3>4. CASE q = p
      <4>1. r <= r
        <5> HIDE DEF r
        <5> QED
          BY <3>2
      <4> QED
        BY <2>3, <3>1, <3>4, <4>1, Zenon
    <3>5. CASE ~(q < p) /\ q # p
      <4>1. ~(q <= p)
        BY <3>2, <3>5
      <4>2. Then(p, q)
        BY <2>3, <4>1, Zenon
      <4>3. Behind(b, p) \in Nat
        BY <1>2, <1>3, <2>p, <4>2, Zenon
      <4>4. Behind(b, p) <= r
        <5> HIDE DEF r
        <5> QED
          BY <3>1, <3>2, <4>2, <4>3
      <4> QED
        BY <3>1, <4>2, <4>4, Zenon
    <3> QED
      BY <3>3, <3>4, <3>5, Zenon
  <2>4. S = Pieces(b)
    <3>1. S \subseteq Pieces(b) /\ PiecesFollow(b, S)
      BY <2>2, <2>3, Zenon DEF PiecesFollow
    <3> HIDE DEF S
    <3> QED
      BY <1>1, <3>1, Zenon
  <2>5. PICK q \in Pieces(b) : p < q /\ ~Then(p, q)
    OBVIOUS
  <2>6. p \in Nat /\ q \in Nat /\ q <= p
    BY <1>2, <2>p, <2>4, <2>5, Zenon
  <2> QED
    BY <2>5, <2>6
<1> QED
  BY <1>4, Zenon

\* The walk of parse() over the options: where it stops, and with what.
OptionStops(b) == {i \in 1..(Len(b) + 1) : ~GoesOn(b, i)}

OptionsEnd(b, i) == [ok |-> ~CutOption(b, i), fields |-> NoFields]

OptionsTake(b, i, read) ==
  IF IsPad(b, i) THEN read
  ELSE [read EXCEPT !.fields = InFrontOf(b[i], DataAt(b, i), @)]

\* Options is that walk.
LEMMA OptionsWalk ==
  ASSUME NEW b \in Seq(Byte)
  PROVE  \E w : /\ Options(b) = w[1]
                /\ \A i \in 1..(Len(b) + 1) :
                     w[i] = IF i \in OptionStops(b) THEN OptionsEnd(b, i)
                            ELSE OptionsTake(b, i, w[Behind(b, i)])
<1> DEFINE n == Len(b) + 1
           Step(g, i) ==
             IF i > Len(b) \/ b[i] = OPT_END THEN [ok |-> TRUE, fields |-> NoFields]
             ELSE IF b[i] = OPT_PAD THEN g[i + 1]
             ELSE IF i = Len(b) \/ i + 1 + b[i + 1] > Len(b) THEN [ok |-> FALSE, fields |-> NoFields]
             ELSE [g[i + 2 + b[i + 1]] EXCEPT
                     !.fields = InFrontOf(b[i], SubSeq(b, i + 2, (i + 2 + b[i + 1]) - 1), @)]
           Rule(g, i) == IF i \in OptionStops(b) THEN OptionsEnd(b, i)
                         ELSE OptionsTake(b, i, g[Behind(b, i)])
           It == CHOOSE g : g = [i \in 1..(Len(b) + 1) |-> Step(g, i)]
           Field == {<<>>} \cup {<<Kept(f, DataAt(b, i))>> : f \in DOMAIN Wanted, i \in 1..n}
           V == [ok : BOOLEAN, fields : [DOMAIN Wanted -> Field]]
<1>1. Options(b) = It[1]
  BY Zenon DEF Options
<1>2. Len(b) \in Nat /\ n \in Nat /\ OPT_PAD # OPT_END
  BY DEF OPT_PAD, OPT_END
<1>3. ASSUME NEW g, NEW i \in 1..n PROVE Step(g, i) = Rule(g, i)
  <2>1. i \in 1..Len(b) <=> ~(i > Len(b))
    BY <1>2
  <2>2. CASE i > Len(b) \/ b[i] = OPT_END
    <3>1. ~IsOption(b, i) /\ ~IsPad(b, i)
      BY <1>2, <2>1, <2>2, Zenon DEF IsOption, IsPad
    <3>2. i \in OptionStops(b) /\ (~CutOption(b, i)) = TRUE
      BY <3>1, Zenon DEF OptionStops, GoesOn, WholeOption, CutOption
    <3> QED
      BY <2>2, <3>2, Zenon DEF OptionsEnd
  <2>3. CASE ~(i > Len(b) \/ b[i] = OPT_END) /\ b[i] = OPT_PAD
    <3>1. IsPad(b, i) /\ Behind(b, i) = i + 1
      BY <2>1, <2>3, Zenon DEF IsPad, Behind
    <3>2. i \notin OptionStops(b)
      BY <3>1, Zenon DEF OptionStops, GoesOn
    <3> QED
      BY <2>3, <3>1, <3>2, Zenon DEF OptionsTake
  <2>4. CASE ~(i > Len(b) \/ b[i] = OPT_END) /\ b[i] # OPT_PAD
    <3>1. IsOption(b, i) /\ ~IsPad(b, i)
      BY <2>1, <2>4, Zenon DEF IsOption, IsPad
    <3>2. WholeOption(b, i) <=> ~(i = Len(b) \/ i + 1 + b[i + 1] > Len(b))
      <4> DEFINE m == Len(b)
                 x == b[i + 1]
      <4>0. i <= m /\ m \in Nat /\ i \in Nat /\ (i < m => i + 1 \in 1..m) /\ (i + 1 \in 1..m => x \in Byte)
        BY <2>1, <2>4
      <4>1. i <= m /\ m \in Nat /\ i \in Nat /\ (i < m => x \in 0..255)
        BY <4>0, Zenon DEF Byte
      <4>2. WholeOption(b, i) <=> i < m /\ i + 1 + x <= m
        BY <3>1, Zenon DEF WholeOption
      <4> HIDE DEF m, x
      <4>3. (i < m /\ i + 1 + x <= m) <=> ~(i = m \/ i + 1 + x > m)
        <5>1. CASE i < m
          <6>1. x \in 0..255
            BY <4>1, <5>1
          <6> QED
            BY <4>1, <5>1, <6>1
        <5>2. CASE ~(i < m)
          BY <4>1, <5>2
        <5> QED
          BY <5>1, <5>2
      <4> QED
        BY <4>2, <4>3, Zenon DEF m, x
    <3>3. CASE WholeOption(b, i)
      <4>1. i \notin OptionStops(b)
        BY <3>3, Zenon DEF OptionStops, GoesOn
      <4>2. Behind(b, i) = i + 2 + b[i + 1] /\ DataAt(b, i) = SubSeq(b, i + 2, Behind(b, i) - 1)
        BY <3>3, BehindIs, Zenon
      <4>3. Step(g, i) = [g[i + 2 + b[i + 1]] EXCEPT
                     !.fields = InFrontOf(b[i], SubSeq(b, i + 2, (i + 2 + b[i + 1]) - 1), @)]
        BY <2>4, <3>2, <3>3, Zenon
      <4>4. Rule(g, i) = [g[Behind(b, i)] EXCEPT !.fields = InFrontOf(b[i], DataAt(b, i), @)]
        BY <3>1, <4>1, Zenon DEF OptionsTake
      <4> QED
        BY <4>2, <4>3, <4>4, Zenon
    <3>4. CASE ~WholeOption(b, i)
      <4>1. i \in OptionStops(b) /\ (~CutOption(b, i)) = FALSE
        BY <3>1, <3>4, Zenon DEF OptionStops, GoesOn, CutOption
      <4> QED
        BY <2>4, <3>2, <3>4, <4>1, Zenon DEF OptionsEnd
    <3> QED
      BY <3>3, <3>4, Zenon
  <2> QED
    BY <2>2, <2>3, <2>4, Zenon
<1>t. ASSUME NEW i \in 1..n
      PROVE  OptionsEnd(b, i) \in V /\ \A v \in V : OptionsTake(b, i, v) \in V
  <2>1. NoFields \in [DOMAIN Wanted -> Field]
    BY DEF NoFields
  <2>2. (~CutOption(b, i)) \in BOOLEAN
    BY Zenon
  <2>3. ASSUME NEW v \in V PROVE InFrontOf(b[i], DataAt(b, i), v.fields) \in [DOMAIN Wanted -> Field]
    <3>1. \A f \in DOMAIN Wanted : v.fields[f] \in Field
      <4> HIDE DEF Field
      <4> QED
        OBVIOUS
    <3>2. \A f \in DOMAIN Wanted : <<Kept(f, DataAt(b, i))>> \in Field
      OBVIOUS
    <3> HIDE DEF Field
    <3> QED
      BY <3>1, <3>2, Zenon DEF InFrontOf
  <2> HIDE DEF Field
  <2>4. OptionsEnd(b, i) \in V
    BY <2>1, <2>2 DEF OptionsEnd
  <2>5. ASSUME NEW v \in V PROVE OptionsTake(b, i, v) \in V
    <3> DEFINE g == InFrontOf(b[i], DataAt(b, i), v.fields)
    <3>1. g \in [DOMAIN Wanted -> Field]
      BY <2>3
    <3>2. OptionsTake(b, i, v) = IF IsPad(b, i) THEN v ELSE [v EXCEPT !.fields = g]
      BY DEF OptionsTake
    <3> HIDE DEF g
    <3> QED
      BY <3>1, <3>2
  <2> QED
    BY <2>4, <2>5
<1>4. \E w : w = [i \in 1..n |-> Step(w, i)]
  <2> DEFINE out == [i \in 1..n |-> OptionsEnd(b, i)]
             next == [i \in 1..n |-> Behind(b, i)]
             comb == [i \in 1..n |-> [v \in V |-> OptionsTake(b, i, v)]]
  <2> HIDE DEF V
  <2>1. out \in [1..n -> V] /\ comb \in [1..n -> [V -> V]]
    BY <1>t, Zenon
  <2>2. \A i \in (1..n) \ OptionStops(b) : next[i] \in (i + 1)..n
    BY BehindIs, Zenon DEF OptionStops
  <2>3. \A i \in (1..n) \ OptionStops(b) : next[i] \in 1..n
    BY <1>2, <2>2
  <2>4. PICK w \in [1..n -> V] : IsWalk(w, n, OptionStops(b), out, next, comb)
    <3> HIDE DEF out, next, comb, n
    <3> QED
      BY <1>2, <2>1, <2>2, WalkExists, Zenon
  <2>5. ASSUME NEW i \in 1..n PROVE w[i] = Rule(w, i)
    <3>1. w[i] = IF i \in OptionStops(b) THEN out[i] ELSE comb[i][w[next[i]]]
      BY <2>4, Zenon DEF IsWalk
    <3>2. CASE i \in OptionStops(b)
      BY <3>1, <3>2, Zenon
    <3>3. CASE i \notin OptionStops(b)
      <4>1. next[i] \in 1..n /\ next[i] = Behind(b, i)
        BY <2>3, <3>3, Zenon
      <4>2. w[Behind(b, i)] \in V
        BY <4>1, Zenon
      <4> QED
        BY <3>1, <3>3, <4>1, <4>2, Zenon
    <3> QED
      BY <3>2, <3>3, Zenon
  <2>6. w = [i \in 1..n |-> w[i]]
    BY Zenon
  <2>7. \A i \in 1..n : w[i] = Step(w, i)
    BY <1>3, <2>5, Zenon
  <2> HIDE DEF Step
  <2> QED
    BY <2>6, <2>7, Zenon
<1>5. It = [i \in 1..n |-> Step(It, i)]
  BY <1>4, Zenon
<1> HIDE DEF It
<1>6. \A i \in 1..n : It[i] = Step(It, i)
  BY <1>5, Zenon
<1>7. \A i \in 1..n : It[i] = Rule(It, i)
  BY <1>3, <1>6, Zenon
<1> QED
  BY <1>1, <1>7, Zenon

\* What the pieces from i on give.
ReadFrom(b, i) ==
  [ok |-> \A j \in Pieces(b) : j >= i => ~CutOption(b, j),
   fields |-> [f \in DOMAIN Wanted |-> Given(b, f, {j \in Givers(b, f) : j >= i})]]

\* The last of the options that set a field, with one more in front.
LEMMA GivenInFront ==
  ASSUME NEW b \in Seq(Byte), NEW f, NEW i \in Pieces(b), GoesOn(b, i),
         NEW later, later = {j \in Givers(b, f) : j >= Behind(b, i)}
  PROVE  Given(b, f, {j \in Givers(b, f) : j >= i}) =
           IF later = {} /\ i \in Givers(b, f) THEN <<Kept(f, DataAt(b, i))>>
           ELSE Given(b, f, later)
<1> DEFINE all == {j \in Givers(b, f) : j >= i}
<1>1. PiecesFollow(b, Pieces(b)) /\ Pieces(b) \subseteq 1..(Len(b) + 1) /\ Len(b) + 1 \in Nat
  BY PiecesAre
<1>2. Behind(b, i) \in Nat /\ i \in Nat /\ i < Behind(b, i)
  <2>1. i \in 1..(Len(b) + 1) /\ Behind(b, i) \in (i + 1)..(Len(b) + 1)
    BY <1>1, BehindIs, Zenon
  <2> QED
    BY <1>1, <2>1
<1>3. ASSUME NEW j \in Givers(b, f)
      PROVE  j \in Nat /\ (j >= i <=> j = i \/ j >= Behind(b, i))
  <2>1. j \in Pieces(b) /\ j \in Nat
    BY <1>1 DEF Givers
  <2>2. i < j => Behind(b, i) <= j
    BY <2>1, PiecesInOrder, Zenon
  <2> QED
    BY <1>2, <2>1, <2>2
<1>4. all = later \cup ({i} \cap Givers(b, f))
  BY <1>3, Zenon
<1>5. CASE later # {}
  <2>1. later \subseteq 1..(Len(b) + 1) /\ all \subseteq 1..(Len(b) + 1) /\ all # {}
    BY <1>1, <1>4, <1>5, Zenon DEF Givers
  <2> HIDE DEF all
  <2> DEFINE m == Max(later)
             l == Max(all)
  <2>2. m \in later /\ \A y \in later : y <= m
    BY <1>1, <1>5, <2>1, MaxOf, Zenon
  <2>3. l \in all /\ \A y \in all : y <= l
    BY <1>1, <2>1, MaxOf, Zenon
  <2> HIDE DEF m, l
  <2>4. m \in Nat /\ m >= Behind(b, i) /\ m <= l
    BY <1>3, <1>4, <2>2, <2>3, Zenon
  <2>5. l \in Nat /\ (l = i \/ l \in later)
    BY <1>2, <1>3, <1>4, <2>3, Zenon
  <2>6. l # i
    BY <1>2, <2>4, <2>5
  <2>7. l <= m
    BY <2>2, <2>5, <2>6, Zenon
  <2>8. l = m
    BY <2>4, <2>5, <2>7
  <2> QED
    BY <1>5, <2>1, <2>8, Zenon DEF Given, all, m, l
<1>6. CASE later = {} /\ i \in Givers(b, f)
  <2>1. all = {i}
    BY <1>4, <1>6, Zenon
  <2>2. i \in 1..(Len(b) + 1) /\ {i} \subseteq 1..(Len(b) + 1) /\ {i} # {}
    BY <1>1, Zenon
  <2>3. Max({i}) \in {i}
    BY <1>1, <2>2, MaxOf, Zenon
  <2>4. Max({i}) = i
    BY <2>3, Zenon
  <2> QED
    BY <1>6, <2>1, <2>2, <2>4, Zenon DEF Given
<1>7. CASE later = {} /\ i \notin Givers(b, f)
  <2>1. all = {}
    BY <1>4, <1>7, Zenon
  <2> QED
    BY <1>7, <2>1, Zenon
<1> QED
  BY <1>5, <1>6, <1>7, Zenon

\* What the options of a message say, for every sequence of bytes: each field is what
\* the last option with its code and enough bytes gives it, wherever the options are
\* and whatever padding, unknown or short options lie between them; without one it
\* is absent.  Bytes behind OPT_END are not looked at.  The options are refused if
\* one of them reaches beyond the bytes there are, and then only (parse).
THEOREM LastOptionWins ==
  ASSUME NEW b \in Seq(Byte)
  PROVE  Options(b) = [ok |-> \A i \in Pieces(b) : ~CutOption(b, i),
                       fields |-> [f \in DOMAIN Wanted |-> Given(b, f, Givers(b, f))]]
<1>1. PICK w : /\ Options(b) = w[1]
               /\ \A i \in 1..(Len(b) + 1) :
                    w[i] = IF i \in OptionStops(b) THEN OptionsEnd(b, i)
                           ELSE OptionsTake(b, i, w[Behind(b, i)])
  BY OptionsWalk
<1>2. PiecesFollow(b, Pieces(b)) /\ Pieces(b) \subseteq 1..(Len(b) + 1) /\ Len(b) + 1 \in Nat
  BY PiecesAre
<1>3. \A i \in Pieces(b) : i \in Nat /\ i >= 1
  BY <1>2
<1>4. ASSUME NEW i \in Pieces(b), ~GoesOn(b, i) PROVE w[i] = ReadFrom(b, i)
  <2>1. w[i] = OptionsEnd(b, i)
    BY <1>1, <1>2, <1>4, Zenon DEF OptionStops
  <2>2. \A j \in Pieces(b) : j >= i <=> j = i
    <3> SUFFICES ASSUME NEW j \in Pieces(b) PROVE j >= i <=> j = i
      OBVIOUS
    <3>1. ~(i < j)
      BY <1>4, PiecesInOrder, Zenon
    <3>2. i \in Nat /\ j \in Nat
      BY <1>3
    <3> QED
      BY <3>1, <3>2
  <2>3. (~CutOption(b, i)) = (\A j \in Pieces(b) : j >= i => ~CutOption(b, j))
    BY <2>2, Zenon
  <2>4. ASSUME NEW f PROVE Given(b, f, {j \in Givers(b, f) : j >= i}) = <<>>
    <3>1. {j \in Givers(b, f) : j >= i} = {}
      BY <1>4, <2>2, Zenon DEF Givers, GoesOn
    <3> QED
      BY <3>1, Zenon DEF Given
  <2>5. NoFields = [f \in DOMAIN Wanted |-> Given(b, f, {j \in Givers(b, f) : j >= i})]
    BY <2>4, Zenon DEF NoFields
  <2> QED
    BY <2>1, <2>3, <2>5, Zenon DEF OptionsEnd, ReadFrom
<1>5. ASSUME NEW i \in Pieces(b), GoesOn(b, i), w[Behind(b, i)] = ReadFrom(b, Behind(b, i))
      PROVE  w[i] = ReadFrom(b, i)
  <2> DEFINE n == Behind(b, i)
  <2>1. w[i] = OptionsTake(b, i, ReadFrom(b, n))
    BY <1>1, <1>2, <1>5, Zenon DEF OptionStops
  <2>2. n \in Pieces(b) /\ n \in Nat /\ i \in Nat /\ i < n
    <3>1. n \in Pieces(b) /\ n \in (i + 1)..(Len(b) + 1) /\ i \in Nat
      BY <1>2, <1>3, <1>5, BehindIs, Zenon DEF PiecesFollow
    <3> HIDE DEF n
    <3> QED
      BY <1>2, <3>1
  <2>3. ~CutOption(b, i)
    BY <1>5, Zenon DEF GoesOn, CutOption, IsPad, IsOption
  <2>4. \A j \in Pieces(b) : j >= i <=> j = i \/ j >= n
    <3> SUFFICES ASSUME NEW j \in Pieces(b) PROVE j >= i <=> j = i \/ j >= n
      OBVIOUS
    <3>1. i < j => n <= j
      BY <1>5, PiecesInOrder, Zenon
    <3>2. j \in Nat
      BY <1>3
    <3> HIDE DEF n
    <3> QED
      BY <2>2, <3>1, <3>2
  <2>5. (\A j \in Pieces(b) : j >= i => ~CutOption(b, j)) = (\A j \in Pieces(b) : j >= n => ~CutOption(b, j))
    BY <2>3, <2>4, Zenon
  <2> DEFINE old == [f \in DOMAIN Wanted |-> Given(b, f, {j \in Givers(b, f) : j >= n})]
             new == [f \in DOMAIN Wanted |-> Given(b, f, {j \in Givers(b, f) : j >= i})]
  <2>6. ASSUME NEW f \in DOMAIN Wanted
        PROVE  Given(b, f, {j \in Givers(b, f) : j >= i}) =
                 IF {j \in Givers(b, f) : j >= n} = {} /\ i \in Givers(b, f)
                 THEN <<Kept(f, DataAt(b, i))>> ELSE Given(b, f, {j \in Givers(b, f) : j >= n})
    BY <1>5, GivenInFront, Zenon
  <2>7. CASE IsPad(b, i)
    <3>1. \A f : i \notin Givers(b, f)
      BY <2>7, Zenon DEF Givers, WholeOption, IsOption, IsPad
    <3>2. new = old
      BY <2>6, <3>1, Zenon
    <3> HIDE DEF new, old, n
    <3> QED
      BY <2>1, <2>5, <2>7, <3>2, Zenon DEF OptionsTake, ReadFrom, new, old
  <2>8. CASE ~IsPad(b, i)
    <3>1. WholeOption(b, i) /\ Len(DataAt(b, i)) = b[i + 1]
      BY <1>2, <1>5, <2>8, BehindIs, Zenon DEF GoesOn
    <3>2. \A f : i \in Givers(b, f) <=> Wanted[f][1] = b[i] /\ Len(DataAt(b, i)) >= Wanted[f][2]
      BY <3>1, Zenon DEF Givers
    <3>3. \A e : <<e>> # <<>>
      OBVIOUS
    <3>4. \A f : Given(b, f, {j \in Givers(b, f) : j >= n}) = <<>> <=> {j \in Givers(b, f) : j >= n} = {}
      BY <3>3, Zenon DEF Given
    <3>5. \A f \in DOMAIN Wanted :
            new[f] = IF old[f] = <<>> /\ Wanted[f][1] = b[i] /\ Len(DataAt(b, i)) >= Wanted[f][2]
                     THEN <<Kept(f, DataAt(b, i))>> ELSE old[f]
      BY <2>6, <3>2, <3>4, Zenon
    <3>6. new = [f \in DOMAIN Wanted |-> new[f]]
      BY Zenon
    <3> HIDE DEF new, old
    <3>7. InFrontOf(b[i], DataAt(b, i), old) = new
      BY <3>5, <3>6, Zenon DEF InFrontOf
    <3>8. ReadFrom(b, n) = [ok |-> \A j \in Pieces(b) : j >= n => ~CutOption(b, j), fields |-> old]
      BY Zenon DEF ReadFrom, old
    <3>9. ReadFrom(b, i) = [ok |-> \A j \in Pieces(b) : j >= i => ~CutOption(b, j), fields |-> new]
      BY Zenon DEF ReadFrom, new
    <3>10. \A x, y, z : [[ok |-> x, fields |-> y] EXCEPT !.fields = z] = [ok |-> x, fields |-> z]
                        /\ [ok |-> x, fields |-> y].fields = y
      OBVIOUS
    <3> HIDE DEF n
    <3>11. OptionsTake(b, i, ReadFrom(b, n)) =
             [ReadFrom(b, n) EXCEPT !.fields = InFrontOf(b[i], DataAt(b, i), ReadFrom(b, n).fields)]
      BY <2>8, Zenon DEF OptionsTake
    <3> DEFINE more == \A j \in Pieces(b) : j >= n => ~CutOption(b, j)
    <3>12. ReadFrom(b, n) = [ok |-> more, fields |-> old] /\ ReadFrom(b, i) = [ok |-> more, fields |-> new]
      BY <2>5, <3>8, <3>9, Zenon
    <3> HIDE DEF more
    <3>13. ReadFrom(b, n).fields = old
      BY <3>10, <3>12, Zenon
    <3>14. w[i] = [[ok |-> more, fields |-> old] EXCEPT !.fields = new]
      BY <2>1, <3>7, <3>11, <3>12, <3>13, Zenon
    <3> QED
      BY <3>10, <3>12, <3>14, Zenon
  <2> QED
    BY <2>7, <2>8, Zenon
<1>6. \A i \in Pieces(b) : w[i] = ReadFrom(b, i)
  <2> DEFINE Bad == {i \in Pieces(b) : w[i] # ReadFrom(b, i)}
  <2> SUFFICES ASSUME Bad # {} PROVE FALSE
    OBVIOUS
  <2> DEFINE m == Max(Bad)
  <2>1. Bad \subseteq 1..(Len(b) + 1)
    BY <1>2
  <2>2. m \in Bad /\ \A i \in Bad : i <= m
    <3> HIDE DEF Bad
    <3> QED
      BY <1>2, <2>1, MaxOf, Zenon
  <2> HIDE DEF m
  <2>3. m \in Pieces(b) /\ GoesOn(b, m)
    BY <1>4, <2>2, Zenon
  <2>4. Behind(b, m) \in Pieces(b) /\ ~(Behind(b, m) <= m)
    <3>1. Behind(b, m) \in Pieces(b) /\ Behind(b, m) \in (m + 1)..(Len(b) + 1) /\ m \in Nat
      BY <1>2, <1>3, <2>3, BehindIs, Zenon DEF PiecesFollow
    <3> QED
      BY <1>2, <3>1
  <2>5. w[Behind(b, m)] = ReadFrom(b, Behind(b, m))
    BY <2>2, <2>4, Zenon
  <2> QED
    BY <1>5, <2>2, <2>3, <2>5, Zenon
<1>7. /\ \A f : {j \in Givers(b, f) : j >= 1} = Givers(b, f)
      /\ (\A j \in Pieces(b) : j >= 1 => ~CutOption(b, j)) = (\A i \in Pieces(b) : ~CutOption(b, i))
  BY <1>3, Zenon DEF Givers
<1>8. w[1] = ReadFrom(b, 1)
  BY <1>2, <1>6, Zenon DEF PiecesFollow
<1> QED
  BY <1>1, <1>7, <1>8, Zenon DEF ReadFrom

\* The options written so far fill the bytes: the next piece begins behind the last.
Closed(b) == Len(b) + 1 \in Pieces(b)

\* Closed options in front of others are read as before.
LEMMA FrontKept ==
  ASSUME NEW b \in Seq(Byte), NEW p \in Seq(Byte), Len(b) <= Len(p),
         \A j \in 1..Len(b) : p[j] = b[j],
         NEW i \in 1..(Len(b) + 1), GoesOn(b, i)
  PROVE  /\ GoesOn(p, i) /\ Behind(p, i) = Behind(b, i)
         /\ p[i] = b[i]
         /\ WholeOption(b, i) => WholeOption(p, i) /\ p[i + 1] = b[i + 1] /\ DataAt(p, i) = DataAt(b, i)
<1>1. Len(b) \in Nat /\ Len(p) \in Nat /\ i \in Nat
  OBVIOUS
<1>2. CASE IsPad(b, i)
  <2>1. i \in 1..Len(b) /\ i \in 1..Len(p) /\ p[i] = b[i]
    BY <1>1, <1>2 DEF IsPad
  <2>2. IsPad(p, i)
    BY <1>2, <2>1, Zenon DEF IsPad
  <2>3. ~WholeOption(b, i)
    BY <1>2, Zenon DEF IsPad, WholeOption, IsOption
  <2> QED
    BY <1>2, <2>1, <2>2, <2>3, Zenon DEF GoesOn, Behind
<1>3. CASE WholeOption(b, i)
  <2>1. i \in 1..Len(b) /\ i < Len(b) /\ i + 1 + b[i + 1] <= Len(b) /\ b[i] \notin {OPT_PAD, OPT_END}
    BY <1>3, Zenon DEF WholeOption, IsOption
  <2>2. i \in 1..Len(p) /\ i + 1 \in 1..Len(b) /\ i + 1 \in 1..Len(p) /\ i < Len(p)
    BY <1>1, <2>1
  <2>3. p[i] = b[i] /\ p[i + 1] = b[i + 1] /\ b[i + 1] \in Byte
    BY <2>1, <2>2
  <2> DEFINE x == b[i + 1]
             l == i + 2
             h == i + 1 + x
             nb == Len(b)
             np == Len(p)
  <2>4. x \in 0..255 /\ nb \in Nat /\ np \in Nat /\ nb <= np /\ i + 1 + x <= nb /\ i \in Nat /\ i >= 1
    <3>1. i >= 1
      BY <2>1
    <3> QED
      BY <1>1, <2>1, <2>3, <3>1, Zenon DEF Byte
  <2>5. /\ h <= np /\ l \in 1..(nb + 1) /\ h \in (l - 1)..nb /\ l \in 1..(np + 1) /\ h \in (l - 1)..np
        /\ \A j \in 1..(h - l + 1) : l + j - 1 \in 1..nb
    <3> HIDE DEF x, nb, np
    <3> QED
      BY <2>4
  <2>6. WholeOption(p, i) /\ ~IsPad(p, i) /\ ~IsPad(b, i)
    BY <2>1, <2>2, <2>3, <2>5, Zenon DEF WholeOption, IsOption, IsPad
  <2>7. SubSeq(p, l, h) = SubSeq(b, l, h)
    <3>1. /\ l \in 1..(Len(b) + 1) /\ h \in (l - 1)..Len(b)
          /\ l \in 1..(Len(p) + 1) /\ h \in (l - 1)..Len(p)
          /\ \A j \in 1..(h - l + 1) : l + j - 1 \in 1..Len(b)
      BY <2>5, Zenon
    <3> HIDE DEF l, h
    <3> DEFINE q == SubSeq(p, l, h)
               r == SubSeq(b, l, h)
    <3>2. /\ q \in Seq(Byte) /\ Len(q) = h - l + 1
          /\ \A j \in 1..(h - l + 1) : q[j] = p[l + j - 1]
      BY <3>1, SubSeqProperties
    <3>3. /\ r \in Seq(Byte) /\ Len(r) = h - l + 1
          /\ \A j \in 1..(h - l + 1) : r[j] = b[l + j - 1]
      BY <3>1, SubSeqProperties
    <3> HIDE DEF q, r
    <3>4. \A j \in 1..(h - l + 1) : q[j] = r[j]
      BY <3>1, <3>2, <3>3, Zenon
    <3>5. q = r
      BY <3>2, <3>3, <3>4, SeqEqual
    <3> QED
      BY <3>5 DEF q, r
  <2> QED
    BY <2>3, <2>6, <2>7, Zenon DEF GoesOn, Behind, DataAt
<1> QED
  BY <1>2, <1>3, Zenon DEF GoesOn

\* The pieces of closed options with one more piece behind them.
LEMMA FrontPieces ==
  ASSUME NEW b \in Seq(Byte), NEW p \in Seq(Byte), Len(b) <= Len(p), Closed(b),
         \A j \in 1..Len(b) : p[j] = b[j],
         NEW T, T = (IF GoesOn(p, Len(b) + 1) THEN {Behind(p, Len(b) + 1)} ELSE {}),
         \A t \in T : ~GoesOn(p, t)
  PROVE  /\ Pieces(p) = Pieces(b) \cup T
         /\ \A i \in Pieces(b) : i # Len(b) + 1 => GoesOn(b, i)
<1> DEFINE L == Len(b) + 1
           M == Len(p) + 1
<1>1. Len(b) \in Nat /\ Len(p) \in Nat /\ L \in Nat /\ M \in Nat /\ L <= M
  OBVIOUS
<1>2. /\ PiecesFollow(b, Pieces(b)) /\ Pieces(b) \subseteq 1..L /\ L \in Pieces(b)
  BY PiecesAre, Zenon DEF Closed
<1>3. PiecesFollow(p, Pieces(p)) /\ Pieces(p) \subseteq 1..M
  BY PiecesAre, Zenon
<1>4. \A i \in Pieces(b) : i \in 1..L /\ i \in 1..M /\ (i # L => i < L)
  BY <1>1, <1>2
<1>5. ASSUME NEW i \in Pieces(b), i # L PROVE GoesOn(b, i)
  BY <1>2, <1>4, <1>5, PiecesInOrder, Zenon
<1>6. ASSUME NEW S \in SUBSET (1..M), PiecesFollow(p, S) PROVE Pieces(b) \subseteq S
  <2> DEFINE R == S \cap (1..L)
  <2>1. 1 \in R
    BY <1>1, <1>6 DEF PiecesFollow
  <2>2. ASSUME NEW i \in R, GoesOn(b, i) PROVE Behind(b, i) \in R
    <3>1. GoesOn(p, i) /\ Behind(p, i) = Behind(b, i)
      BY <2>2, FrontKept, Zenon
    <3>2. Behind(b, i) \in S
      BY <1>6, <2>2, <3>1, Zenon DEF PiecesFollow
    <3>3. i \in 1..L /\ Behind(b, i) \in (i + 1)..L
      BY <2>2, BehindIs, Zenon
    <3>4. Behind(b, i) \in 1..L
      BY <1>1, <3>3
    <3> QED
      BY <3>2, <3>4, Zenon
  <2>3. R \in SUBSET (1..L) /\ PiecesFollow(b, R)
    BY <2>1, <2>2, Zenon DEF PiecesFollow
  <2> HIDE DEF R
  <2>4. Pieces(b) \subseteq R
    BY <2>3, Zenon DEF Pieces
  <2> QED
    BY <2>4, Zenon DEF R
<1>7. Pieces(b) \subseteq Pieces(p)
  BY <1>3, <1>6, Zenon
<1>8. T \subseteq Pieces(p)
  BY <1>2, <1>3, <1>7, Zenon DEF PiecesFollow
<1>9. PiecesFollow(p, Pieces(b) \cup T)
  <2>1. 1 \in Pieces(b)
    BY <1>2, Zenon DEF PiecesFollow
  <2>2. ASSUME NEW i \in Pieces(b) \cup T, GoesOn(p, i) PROVE Behind(p, i) \in Pieces(b) \cup T
    <3>1. i \in Pieces(b)
      BY <2>2, Zenon
    <3>2. CASE i = L
      BY <2>2, <3>2, Zenon
    <3>3. CASE i # L
      <4>1. GoesOn(b, i)
        BY <1>5, <3>1, <3>3, Zenon
      <4>2. Behind(p, i) = Behind(b, i)
        BY <1>4, <3>1, <4>1, FrontKept, Zenon
      <4> QED
        BY <1>2, <3>1, <4>1, <4>2, Zenon DEF PiecesFollow
    <3> QED
      BY <3>2, <3>3, Zenon
  <2> QED
    BY <2>1, <2>2, Zenon DEF PiecesFollow
<1>10. Pieces(p) = Pieces(b) \cup T
  <2>1. Pieces(b) \cup T \subseteq Pieces(p)
    BY <1>7, <1>8, Zenon
  <2> QED
    BY <1>9, <2>1, PiecesAre, Zenon
<1> QED
  BY <1>5, <1>10, Zenon

\* What one of them sets is set as before.
LEMMA FrontGivers ==
  ASSUME NEW b \in Seq(Byte), NEW p \in Seq(Byte), Len(b) <= Len(p),
         \A j \in 1..Len(b) : p[j] = b[j],
         NEW i \in 1..(Len(b) + 1), GoesOn(b, i), NEW f
  PROVE  /\ ~CutOption(b, i) /\ ~CutOption(p, i)
         /\ (WholeOption(p, i) /\ p[i] = Wanted[f][1] /\ p[i + 1] >= Wanted[f][2])
              <=> (WholeOption(b, i) /\ b[i] = Wanted[f][1] /\ b[i + 1] >= Wanted[f][2])
<1>1. /\ GoesOn(p, i) /\ p[i] = b[i]
      /\ WholeOption(b, i) => WholeOption(p, i) /\ p[i + 1] = b[i + 1]
  BY FrontKept, Zenon
<1>2. WholeOption(p, i) => WholeOption(b, i)
  BY <1>1, Zenon DEF GoesOn, IsPad, WholeOption, IsOption
<1>3. ~CutOption(b, i) /\ ~CutOption(p, i)
  BY <1>1, Zenon DEF GoesOn, IsPad, CutOption, IsOption
<1> QED
  BY <1>1, <1>2, <1>3, Zenon

\* Behind OPT_END nothing counts: with it, and any bytes after it, options written
\* one behind the other say what they say alone, and are accepted (parse).
THEOREM NothingBehindEnd ==
  ASSUME NEW b \in Seq(Byte), NEW rest \in Seq(Byte), Closed(b)
  PROVE  Options(b \o <<OPT_END>> \o rest) = Options(b) /\ Options(b).ok
<1> DEFINE p == b \o <<OPT_END>> \o rest
           L == Len(b) + 1
<1>1. /\ p \in Seq(Byte) /\ Len(b) <= Len(p) /\ \A j \in 1..Len(b) : p[j] = b[j]
      /\ p[L] = OPT_END /\ L \in 1..Len(p)
  <2>1. OPT_END \in Byte
    BY DEF OPT_END, Byte
  <2>2. b \o <<OPT_END>> \in Seq(Byte) /\ Len(b \o <<OPT_END>>) = L
        /\ \A j \in 1..Len(b) : (b \o <<OPT_END>>)[j] = b[j]
        /\ (b \o <<OPT_END>>)[L] = OPT_END
    BY <2>1
  <2> DEFINE q == b \o <<OPT_END>>
  <2> HIDE DEF q
  <2>3. q \in Seq(Byte) /\ Len(q) = Len(b) + 1 /\ Len(b) \in Nat
        /\ (\A j \in 1..Len(b) : q[j] = b[j]) /\ q[Len(b) + 1] = OPT_END
    BY <2>2 DEF q
  <2>4. p = q \o rest
    BY DEF q
  <2>5. q \o rest \in Seq(Byte) /\ Len(q \o rest) = Len(q) + Len(rest) /\ Len(rest) \in Nat
        /\ \A j \in 1..Len(q) : (q \o rest)[j] = q[j]
    BY <2>3
  <2> HIDE DEF p
  <2>6. /\ p \in Seq(Byte) /\ Len(b) <= Len(p) /\ L \in 1..Len(p) /\ L \in 1..Len(q)
        /\ \A j \in 1..Len(b) : j \in 1..Len(q)
    BY <2>3, <2>4, <2>5
  <2>7. \A j \in 1..Len(q) : p[j] = q[j]
    BY <2>4, <2>5, Zenon
  <2> QED
    BY <2>3, <2>6, <2>7, Zenon
<1> HIDE DEF p
<1>2. ~GoesOn(p, L) /\ ~CutOption(p, L)
  <2>1. OPT_END # OPT_PAD
    BY DEF OPT_END, OPT_PAD
  <2> QED
    BY <1>1, <2>1, Zenon DEF GoesOn, IsPad, WholeOption, CutOption, IsOption
<1>3. /\ Pieces(p) = Pieces(b)
      /\ \A i \in Pieces(b) : i # L => GoesOn(b, i)
  <2>1. {} = (IF GoesOn(p, Len(b) + 1) THEN {Behind(p, Len(b) + 1)} ELSE {})
    BY <1>2, Zenon
  <2>2. Pieces(p) = Pieces(b) \cup {} /\ \A i \in Pieces(b) : i # L => GoesOn(b, i)
    BY <1>1, <2>1, FrontPieces, Zenon
  <2> QED
    BY <2>2
<1>4. ~GoesOn(b, L) /\ ~CutOption(b, L)
  <2>1. L \notin 1..Len(b)
    OBVIOUS
  <2> QED
    BY <2>1, Zenon DEF GoesOn, IsPad, WholeOption, CutOption, IsOption
<1>5. Pieces(b) \subseteq 1..(Len(b) + 1)
  BY PiecesAre, Zenon
<1>6. ASSUME NEW i \in Pieces(b)
      PROVE  ~CutOption(b, i) /\ ~CutOption(p, i)
  <2>1. CASE i = L
    BY <1>2, <1>4, <2>1, Zenon
  <2>2. CASE i # L
    BY <1>1, <1>3, <1>5, <2>2, FrontGivers, Zenon
  <2> QED
    BY <2>1, <2>2, Zenon
<1>7. ASSUME NEW f PROVE Givers(p, f) = Givers(b, f)
  <2>1. ASSUME NEW i \in Pieces(b)
        PROVE  (WholeOption(p, i) /\ p[i] = Wanted[f][1] /\ p[i + 1] >= Wanted[f][2])
                 <=> (WholeOption(b, i) /\ b[i] = Wanted[f][1] /\ b[i + 1] >= Wanted[f][2])
    <3>1. CASE i = L
      BY <1>2, <1>4, <3>1, Zenon DEF GoesOn
    <3>2. CASE i # L
      <4>1. GoesOn(b, i) /\ i \in 1..(Len(b) + 1)
        BY <1>3, <1>5, <3>2, Zenon
      <4> QED
        BY <1>1, <4>1, FrontGivers, Zenon
    <3> QED
      BY <3>1, <3>2, Zenon
  <2> QED
    BY <1>3, <2>1, Zenon DEF Givers
<1>8. ASSUME NEW f PROVE Given(p, f, Givers(p, f)) = Given(b, f, Givers(b, f))
  <2>1. CASE Givers(b, f) = {}
    BY <1>7, <2>1, Zenon DEF Given
  <2>2. CASE Givers(b, f) # {}
    <3> DEFINE m == Max(Givers(b, f))
    <3>1. Givers(b, f) \subseteq 1..(Len(b) + 1) /\ Len(b) + 1 \in Nat
      BY <1>5 DEF Givers
    <3>2. m \in Givers(b, f)
      BY <2>2, <3>1, MaxOf, Zenon
    <3> HIDE DEF m
    <3>3. m \in 1..(Len(b) + 1) /\ WholeOption(b, m) /\ GoesOn(b, m)
      BY <3>1, <3>2, Zenon DEF Givers, GoesOn
    <3>4. DataAt(p, m) = DataAt(b, m)
      BY <1>1, <3>3, FrontKept, Zenon
    <3> QED
      BY <1>7, <2>2, <3>4, Zenon DEF Given, m
  <2> QED
    BY <2>1, <2>2, Zenon
<1>9. (\A i \in Pieces(p) : ~CutOption(p, i)) = TRUE /\ (\A i \in Pieces(b) : ~CutOption(b, i)) = TRUE
  BY <1>3, <1>6, Zenon
<1>10. Options(p) = [ok |-> TRUE, fields |-> [f \in DOMAIN Wanted |-> Given(b, f, Givers(b, f))]]
  BY <1>1, <1>8, <1>9, LastOptionWins, Zenon
<1>11. Options(b) = [ok |-> TRUE, fields |-> [f \in DOMAIN Wanted |-> Given(b, f, Givers(b, f))]]
  BY <1>9, LastOptionWins, Zenon
<1> QED
  BY <1>10, <1>11 DEF p

\* What push_option writes parse reads: behind options written one behind the other, an
\* option with any code and up to 255 bytes of data is accepted, sets the field of its
\* code if it has the bytes that needs, leaves the others as they were, and can be
\* followed by more (push_option, parse).
THEOREM PushedIsRead ==
  ASSUME NEW b \in Seq(Byte), Closed(b), NEW code \in Byte \ {OPT_PAD, OPT_END},
         NEW data \in Seq(Byte), Len(data) \in Byte
  PROVE  LET p == PushOption(b, code, data) IN
         /\ p \in Seq(Byte) /\ Closed(p) /\ Options(p).ok
         /\ \A f \in DOMAIN Wanted :
              Options(p).fields[f] =
                IF Wanted[f][1] = code /\ Len(data) >= Wanted[f][2]
                THEN <<Kept(f, data)>> ELSE Options(b).fields[f]
<1> DEFINE p == PushOption(b, code, data)
           L == Len(b) + 1
           M == Len(p) + 1
           head == <<code, Len(data)>>
<1>0. Len(b) \in Nat /\ Len(data) \in Nat /\ L \in Nat
  OBVIOUS
<1>1. /\ p \in Seq(Byte) /\ Len(p) = Len(b) + 2 + Len(data)
      /\ \A j \in 1..Len(b) : p[j] = b[j]
      /\ p[L] = code /\ p[L + 1] = Len(data)
      /\ \A j \in 1..Len(data) : p[L + 1 + j] = data[j]
  <2> DEFINE q == b \o head
  <2>1. /\ q \in Seq(Byte) /\ Len(q) = Len(b) + 2
        /\ \A j \in 1..Len(b) : q[j] = b[j]
        /\ q[Len(b) + 1] = code /\ q[Len(b) + 2] = Len(data)
    <3>1. head \in Seq(Byte) /\ Len(head) = 2 /\ head[1] = code /\ head[2] = Len(data)
      OBVIOUS
    <3> HIDE DEF head
    <3>2. /\ b \o head \in Seq(Byte) /\ Len(b \o head) = Len(b) + Len(head)
          /\ \A j \in 1..Len(b) : (b \o head)[j] = b[j]
          /\ \A j \in 1..Len(head) : (b \o head)[Len(b) + j] = head[j]
      <4>1. head \in Seq(Byte)
        BY <3>1
      <4> QED
        BY <4>1
    <3>3. 1 \in 1..Len(head) /\ 2 \in 1..Len(head)
      BY <3>1
    <3> QED
      BY <3>1, <3>2, <3>3, Zenon
  <2>2. p = q \o data
    BY DEF PushOption
  <2> HIDE DEF q, p, head
  <2>3. /\ q \o data \in Seq(Byte) /\ Len(q \o data) = Len(q) + Len(data)
        /\ \A j \in 1..Len(q) : (q \o data)[j] = q[j]
        /\ \A j \in 1..Len(data) : (q \o data)[Len(q) + j] = data[j]
    <3>1. q \in Seq(Byte)
      BY <2>1
    <3> QED
      BY <3>1
  <2>4. /\ p \in Seq(Byte) /\ Len(p) = Len(b) + 2 + Len(data)
        /\ \A j \in 1..Len(q) : p[j] = q[j]
        /\ \A j \in 1..Len(data) : p[Len(q) + j] = data[j]
    BY <2>1, <2>2, <2>3, Zenon
  <2>5. /\ \A j \in 1..Len(b) : j \in 1..Len(q)
        /\ Len(b) + 1 \in 1..Len(q) /\ Len(b) + 2 \in 1..Len(q) /\ L + 1 = Len(b) + 2 /\ Len(q) = L + 1
    BY <1>0, <2>1
  <2> QED
    BY <2>1, <2>4, <2>5, Zenon
<1> HIDE DEF p
<1>2. Len(p) \in Nat /\ Len(b) <= Len(p) /\ L \in 1..(Len(p) + 1) /\ M \in Nat
      /\ L \in 1..Len(p) /\ L < Len(p) /\ L + 1 + Len(data) <= Len(p)
      /\ L + 2 + Len(data) = M /\ M \in 1..(Len(p) + 1) /\ L < M
  BY <1>0, <1>1
<1>3. /\ WholeOption(p, L) /\ ~CutOption(p, L) /\ GoesOn(p, L) /\ Behind(p, L) = M
  BY <1>1, <1>2, Zenon DEF WholeOption, IsOption, CutOption, GoesOn, Behind, IsPad
<1>4. DataAt(p, L) = data
  <2> DEFINE l == L + 2
             h == L + 1 + Len(data)
             q == SubSeq(p, l, h)
  <2>1. DataAt(p, L) = q
    BY <1>1, Zenon DEF DataAt
  <2>2. l \in Int /\ h \in Int /\ l >= 1 /\ h <= Len(p) /\ h - l + 1 = Len(data) /\ (~(l <= h) => Len(data) = 0)
    BY <1>0, <1>1
  <2>3. \A j \in 1..Len(data) : l + j - 1 = L + 1 + j
    BY <1>0
  <2> HIDE DEF l, h
  <2>4. \A j \in l..h : p[j] \in Byte
    BY <1>1, <2>2
  <2>5. /\ q \in Seq(Byte) /\ Len(q) = (IF l <= h THEN h - l + 1 ELSE 0)
        /\ \A j \in 1..(h - l + 1) : q[j] = p[l + j - 1]
    BY <2>2, <2>4, SubSeqProperties
  <2> HIDE DEF q
  <2>6. Len(q) = Len(data)
    BY <2>2, <2>5
  <2>7. \A j \in 1..Len(data) : q[j] = data[j]
    BY <1>1, <2>2, <2>3, <2>5, Zenon
  <2>8. q = data
    BY <2>5, <2>6, <2>7, SeqEqual
  <2> QED
    BY <2>1, <2>8
<1>5. ~GoesOn(p, M) /\ ~CutOption(p, M) /\ ~GoesOn(b, L) /\ ~CutOption(b, L)
  <2>1. M \notin 1..Len(p) /\ L \notin 1..Len(b)
    BY <1>0, <1>2
  <2> QED
    BY <2>1, Zenon DEF GoesOn, IsPad, WholeOption, CutOption, IsOption
<1>6. /\ Pieces(p) = Pieces(b) \cup {M}
      /\ \A i \in Pieces(b) : i # L => GoesOn(b, i)
  <2>1. {M} = (IF GoesOn(p, Len(b) + 1) THEN {Behind(p, Len(b) + 1)} ELSE {})
    BY <1>3, Zenon
  <2>2. \A t \in {M} : ~GoesOn(p, t)
    BY <1>5, Zenon
  <2> HIDE DEF M
  <2> QED
    BY <1>1, <1>2, <2>1, <2>2, FrontPieces, Zenon
<1>7. Pieces(b) \subseteq 1..(Len(b) + 1) /\ L \in Pieces(b)
  BY PiecesAre, Zenon DEF Closed
<1>8. (\A i \in Pieces(p) : ~CutOption(p, i)) = TRUE /\ (\A i \in Pieces(b) : ~CutOption(b, i)) = TRUE
  <2>1. ASSUME NEW i \in Pieces(b), i # L PROVE ~CutOption(b, i) /\ ~CutOption(p, i)
    BY <1>1, <1>2, <1>6, <1>7, <2>1, FrontGivers, Zenon
  <2> QED
    BY <1>3, <1>5, <1>6, <2>1, Zenon
<1>9. ASSUME NEW f
      PROVE  Given(p, f, Givers(p, f)) =
               IF Wanted[f][1] = code /\ Len(data) >= Wanted[f][2]
               THEN <<Kept(f, data)>> ELSE Given(b, f, Givers(b, f))
  <2> DEFINE Sets(c, i) == WholeOption(c, i) /\ c[i] = Wanted[f][1] /\ c[i + 1] >= Wanted[f][2]
  <2>1. ASSUME NEW i \in Pieces(b), i # L PROVE Sets(p, i) <=> Sets(b, i)
    BY <1>1, <1>2, <1>6, <1>7, <2>1, FrontGivers, Zenon
  <2>2. ~Sets(p, M) /\ ~Sets(b, L)
    BY <1>5, Zenon DEF GoesOn
  <2>3. Sets(p, L) <=> Wanted[f][1] = code /\ Len(data) >= Wanted[f][2]
    BY <1>1, <1>3, Zenon
  <2>4. Givers(p, f) = {i \in Pieces(b) : Sets(p, i)} /\ Givers(b, f) = {i \in Pieces(b) : Sets(b, i)}
    <3> HIDE DEF M
    <3> QED
      BY <1>6, <2>2, Zenon DEF Givers
  <2>5. CASE Sets(p, L)
    <3>1. L \in Givers(p, f) /\ Givers(p, f) \subseteq 1..L /\ Givers(p, f) # {}
      BY <1>7, <2>4, <2>5, Zenon
    <3> DEFINE m == Max(Givers(p, f))
    <3>2. m \in Givers(p, f) /\ \A y \in Givers(p, f) : y <= m
      BY <1>0, <3>1, MaxOf, Zenon
    <3> HIDE DEF m
    <3>3. m \in 1..L /\ L <= m
      BY <3>1, <3>2, Zenon
    <3>4. m = L
      BY <1>0, <3>3
    <3> QED
      BY <1>4, <2>3, <2>5, <3>1, <3>4, Zenon DEF Given, m
  <2>6. CASE ~Sets(p, L)
    <3>1. Givers(p, f) = Givers(b, f)
      <4> HIDE DEF Sets
      <4> QED
        BY <2>1, <2>2, <2>4, <2>6, Zenon
    <3>2. ASSUME Givers(b, f) # {}
          PROVE  DataAt(p, Max(Givers(b, f))) = DataAt(b, Max(Givers(b, f)))
      <4> DEFINE m == Max(Givers(b, f))
      <4>1. Givers(b, f) \subseteq 1..L
        BY <1>7, <2>4, Zenon
      <4>2. m \in Givers(b, f)
        BY <1>0, <3>2, <4>1, MaxOf, Zenon
      <4> HIDE DEF m
      <4>3. m \in 1..L /\ WholeOption(b, m) /\ GoesOn(b, m)
        BY <4>1, <4>2, Zenon DEF Givers, GoesOn
      <4>4. DataAt(p, m) = DataAt(b, m)
        BY <1>1, <1>2, <4>3, FrontKept, Zenon
      <4> QED
        BY <4>4 DEF m
    <3> QED
      BY <2>3, <2>6, <3>1, <3>2, Zenon DEF Given
  <2> QED
    BY <2>5, <2>6, Zenon
<1>10. Options(p) = [ok |-> TRUE, fields |-> [f \in DOMAIN Wanted |-> Given(p, f, Givers(p, f))]]
  BY <1>1, <1>8, LastOptionWins, Zenon
<1>11. Options(b) = [ok |-> TRUE, fields |-> [f \in DOMAIN Wanted |-> Given(b, f, Givers(b, f))]]
  BY <1>8, LastOptionWins, Zenon
<1>12. Options(p).ok /\ \A f \in DOMAIN Wanted : /\ Options(p).fields[f] = Given(p, f, Givers(p, f))
                                                 /\ Options(b).fields[f] = Given(b, f, Givers(b, f))
  BY <1>10, <1>11
<1>13. Closed(p)
  BY <1>6, Zenon DEF Closed
<1>14. ASSUME NEW f \in DOMAIN Wanted
       PROVE  Options(p).fields[f] = IF Wanted[f][1] = code /\ Len(data) >= Wanted[f][2]
                                     THEN <<Kept(f, data)>> ELSE Options(b).fields[f]
  BY <1>9, <1>12, Zenon
<1> QED
  BY <1>1, <1>12, <1>13, <1>14, Zenon DEF p
===============================================================================
