-------------------------- MODULE FormEngine_proofs --------------------------
(***************************************************************************)
(* Proofs about the package formengine.  FormEngine: for any controls,     *)
(* types, groups, order of keys and any number of builder calls.           *)
(* FormRuntime: for any inputs, any number of events and of calls of their *)
(* handlers.  upsertGeneratedFormAction, bindFormActionRoutes and the      *)
(* client are loops over slices; what they leave is proved by induction on *)
(* the turns of the loop.                                                  *)
(***************************************************************************)
EXTENDS FormEngine, FormRuntime, FiniteSetTheorems, SequenceTheorems, TLAPS

-----------------------------------------------------------------------------
(* Induction on the natural numbers, for a set of them.                    *)

\* Of the intervals 1..n with n in S, one has no proper part among them.
LEMMA Least ==
  ASSUME NEW S, S \subseteq Nat, S # {}
  PROVE  \E m \in S : \A n \in S : m <= n
<1> DEFINE Below(n) == 1..n
           B == {Below(n) : n \in S}
           F == FiniteSubsetsOf(Nat)
           R == StrictSubsetOrdering(Nat)
<1>1. IsWellFoundedOn(R, F)
  BY FS_StrictSubsetOrderingWellFounded
<1>2. B \subseteq F
  BY FS_Interval DEF FiniteSubsetsOf
<1>3. B # {}
  OBVIOUS
<1>4. \E x \in B : \A y \in B : ~(<<y, x>> \in R)
  <2> HIDE DEF B, F, R
  <2> QED BY <1>1, <1>2, <1>3, WFMin
<1>5. PICK m \in S : \A n \in S : <<Below(n), Below(m)>> \notin R
  BY <1>4
<1>6. ASSUME NEW n \in S PROVE m <= n
  <2> SUFFICES ASSUME n < m PROVE FALSE
    OBVIOUS
  <2>1. Below(n) \subseteq Below(m) /\ m \in Below(m) /\ m \notin Below(n)
    OBVIOUS
  <2>2. Below(n) \subseteq Nat /\ Below(m) \subseteq Nat
    OBVIOUS
  <2>3. <<Below(n), Below(m)>> \in R
    BY <2>1, <2>2 DEF StrictSubsetOrdering
  <2> QED BY <1>5, <2>3
<1> QED BY <1>6

LEMMA Induction ==
  ASSUME NEW n \in Nat, NEW T, 0 \in T, \A i \in 0..n-1 : i \in T => i + 1 \in T
  PROVE  0..n \subseteq T
<1> SUFFICES ASSUME NEW k \in 0..n, k \notin T PROVE FALSE
  OBVIOUS
<1> DEFINE S == (0..n) \ T
<1>1. PICK m \in S : \A j \in S : m <= j
  <2>1. S \subseteq Nat /\ S # {}
    OBVIOUS
  <2> HIDE DEF S
  <2> QED BY <2>1, Least
<1>2. m # 0 /\ m - 1 \in 0..n-1
  OBVIOUS
<1>3. m - 1 \in T
  BY <1>1, <1>2
<1> QED BY <1>2, <1>3

LEMMA FirstIs ==
  ASSUME NEW S, S \subseteq Nat, S # {}
  PROVE  First(S) \in S /\ \A j \in S : First(S) <= j
<1>1. \E m \in S : \A j \in S : m <= j
  BY Least
<1> QED BY <1>1 DEF First

LEMMA FirstIsThat ==
  ASSUME NEW S, S \subseteq Nat, NEW m \in S, \A j \in S : m <= j
  PROVE  First(S) = m
<1>1. First(S) \in S /\ \A j \in S : First(S) <= j
  BY FirstIs
<1>2. First(S) <= m /\ m <= First(S) /\ m \in Nat /\ First(S) \in Nat
  BY <1>1
<1> QED BY <1>2

\* f[k] is what a loop has made of start after k of its turns.
IsRun(f, n, S, start, turn) ==
  /\ f \in [0..n -> S]
  /\ f[0] = start
  /\ \A i \in 1..n : f[i] = turn[i][f[i - 1]]

LEMMA RunExists ==
  ASSUME NEW n \in Nat, NEW S, NEW start \in S, NEW turn \in [1..n -> [S -> S]]
  PROVE  \E f : IsRun(f, n, S, start, turn)
<1> DEFINE T == {k \in 0..n : \E f : IsRun(f, k, S, start, turn)}
<1>1. 0 \in T
  <2>1. IsRun([i \in 0..0 |-> start], 0, S, start, turn)
    BY DEF IsRun
  <2> QED BY <2>1
<1>2. ASSUME NEW k \in 0..n-1, k \in T PROVE k + 1 \in T
  <2>1. PICK f : IsRun(f, k, S, start, turn)
    BY <1>2
  <2> DEFINE g == [i \in 0..k+1 |-> IF i = k + 1 THEN turn[k + 1][f[k]] ELSE f[i]]
  <2>2. f[k] \in S /\ k + 1 \in 1..n
    BY <2>1 DEF IsRun
  <2>3. turn[k + 1][f[k]] \in S
    BY <2>2
  <2>4. g \in [0..k+1 -> S] /\ g[0] = start
    BY <2>1, <2>3 DEF IsRun
  <2>5. ASSUME NEW i \in 1..k+1 PROVE g[i] = turn[i][g[i - 1]]
    <3>1. CASE i = k + 1
      <4>1. i - 1 = k /\ k \in 0..k+1 /\ k # k + 1 /\ i \in 0..k+1
        BY <3>1
      <4>2. g[k] = f[k] /\ g[i] = turn[k + 1][f[k]]
        BY <3>1, <4>1
      <4> HIDE DEF g
      <4> QED BY <3>1, <4>1, <4>2
    <3>2. CASE i # k + 1
      BY <2>1, <3>2 DEF IsRun
    <3> QED BY <3>1, <3>2
  <2>6. IsRun(g, k + 1, S, start, turn)
    <3> HIDE DEF g
    <3> QED BY <2>4, <2>5 DEF IsRun
  <2> HIDE DEF g
  <2> QED BY <2>6
<1>3. n \in T
  <2> HIDE DEF T
  <2>1. 0..n \subseteq T
    BY <1>1, <1>2, Induction
  <2> QED BY <2>1
<1> QED BY <1>3

-----------------------------------------------------------------------------
(* upsertGeneratedFormAction.                                              *)

\* What its loop has made of the actions of as at some places: no action but the new one
\* and the others, all of these, the new one at most once, and no other one twice.
Comes(a, as, new, places) ==
  a = new \/ \E j \in places : a = as[j] /\ ~SameAction(as[j], new)
FromThere(out, as, new, places) == \A p \in DOMAIN out : Comes(out[p], as, new, places)
OthersKept(out, as, new, places) ==
  \A j \in places : ~SameAction(as[j], new) => \E p \in DOMAIN out : out[p] = as[j]
NewOnce(out, new) ==
  \A p, q \in DOMAIN out : SameAction(out[p], new) /\ SameAction(out[q], new) => p = q
TwoOf(as, places, a, b) == \E j, k \in places : j # k /\ a = as[j] /\ b = as[k]
OthersApart(out, as, new, places) ==
  \A p, q \in DOMAIN out :
    p # q /\ ~SameAction(out[p], new) /\ ~SameAction(out[q], new) =>
      TwoOf(as, places, out[p], out[q])

Merged(out, as, new, places) ==
  /\ FromThere(out, as, new, places)
  /\ OthersKept(out, as, new, places)
  /\ NewOnce(out, new)
  /\ OthersApart(out, as, new, places)

\* A sequence o is out with x at the new place n.
Grown(o, out, n, x) ==
  /\ DOMAIN o = DOMAIN out \cup {n} /\ n \notin DOMAIN out
  /\ \A p \in DOMAIN out : o[p] = out[p]
  /\ o[n] = x

LEMMA Appended ==
  ASSUME NEW S, NEW s \in Seq(S), NEW x \in S
  PROVE  Append(s, x) \in Seq(S) /\ Grown(Append(s, x), s, Len(s) + 1, x)
<1>1. /\ Append(s, x) \in Seq(S)
      /\ Len(Append(s, x)) = Len(s) + 1
      /\ \A i \in 1..Len(s) : Append(s, x)[i] = s[i]
      /\ Append(s, x)[Len(s) + 1] = x
  BY AppendProperties
<1>2. DOMAIN s = 1..Len(s) /\ Len(s) \in Nat /\ DOMAIN Append(s, x) = 1..(Len(s) + 1)
  BY <1>1, LenProperties
<1> QED BY <1>1, <1>2 DEF Grown

LEMMA SameAsItself == \A a : SameAction(a, a)
  BY DEF SameAction

LEMMA NewMerged ==
  ASSUME NEW as, NEW new, NEW places, NEW out, NEW o, NEW n,
         Merged(out, as, new, places), Grown(o, out, n, new),
         \A p \in DOMAIN out : out[p] # new
  PROVE  Merged(o, as, new, places)
<1> USE DEF Grown
<1>1. FromThere(o, as, new, places)
  <2>1. \A p \in DOMAIN out : Comes(out[p], as, new, places)
    BY DEF Merged, FromThere
  <2>2. Comes(new, as, new, places)
    BY DEF Comes
  <2> QED BY <2>1, <2>2 DEF FromThere
<1>2. OthersKept(o, as, new, places)
  <2>1. \A p \in DOMAIN out : p \in DOMAIN o /\ o[p] = out[p]
    OBVIOUS
  <2>2. OthersKept(out, as, new, places)
    BY DEF Merged
  <2> QED BY ONLY <2>1, <2>2 DEF OthersKept
<1>3. \A p \in DOMAIN out : ~SameAction(out[p], new)
  BY DEF Merged, FromThere, Comes
<1>4. NewOnce(o, new)
  BY <1>3 DEF NewOnce
<1>5. OthersApart(o, as, new, places)
  <2>1. \A p \in DOMAIN o : ~SameAction(o[p], new) => p \in DOMAIN out /\ o[p] = out[p]
    BY SameAsItself
  <2> QED BY <2>1 DEF Merged, OthersApart
<1> QED BY <1>1, <1>2, <1>4, <1>5 DEF Merged

LEMMA OtherMerged ==
  ASSUME NEW as, NEW new, NEW places, NEW j, j \notin places, NEW out, NEW o, NEW n,
         Merged(out, as, new, places), ~SameAction(as[j], new), Grown(o, out, n, as[j])
  PROVE  Merged(o, as, new, places \cup {j})
<1> USE DEF Grown
<1>1. FromThere(o, as, new, places \cup {j})
  <2>1. FromThere(out, as, new, places)
    BY DEF Merged
  <2>2. \A p \in DOMAIN out : Comes(out[p], as, new, places \cup {j})
    BY <2>1 DEF FromThere, Comes
  <2>3. Comes(as[j], as, new, places \cup {j})
    BY DEF Comes
  <2> QED BY <2>2, <2>3 DEF FromThere
<1>2. OthersKept(o, as, new, places \cup {j})
  BY DEF Merged, OthersKept
<1>3. NewOnce(o, new)
  BY DEF Merged, NewOnce
<1>4. ASSUME NEW p \in DOMAIN out, ~SameAction(out[p], new)
      PROVE  \E k \in places : out[p] = as[k]
  BY <1>4, SameAsItself DEF Merged, FromThere, Comes
<1>5. OthersApart(o, as, new, places \cup {j})
  <2> SUFFICES ASSUME NEW p \in DOMAIN o, NEW q \in DOMAIN o, p # q,
                      ~SameAction(o[p], new), ~SameAction(o[q], new)
               PROVE  TwoOf(as, places \cup {j}, o[p], o[q])
    BY DEF OthersApart
  <2>1. CASE p \in DOMAIN out /\ q \in DOMAIN out
    <3>1. TwoOf(as, places, o[p], o[q])
      BY <2>1 DEF Merged, OthersApart
    <3> QED BY <3>1 DEF TwoOf
  <2>2. CASE p = n
    <3>1. PICK l \in places : out[q] = as[l]
      BY <1>4, <2>2
    <3>2. l # j /\ o[p] = as[j] /\ o[q] = as[l]
      BY <2>2, <3>1
    <3> QED BY <3>1, <3>2 DEF TwoOf
  <2>3. CASE q = n
    <3>1. PICK k \in places : out[p] = as[k]
      BY <1>4, <2>3
    <3>2. k # j /\ o[p] = as[k] /\ o[q] = as[j]
      BY <2>3, <3>1
    <3> QED BY <3>1, <3>2 DEF TwoOf
  <2> QED BY <2>1, <2>2, <2>3
<1> QED BY <1>1, <1>2, <1>3, <1>5 DEF Merged

LEMMA SameMerged ==
  ASSUME NEW as, NEW new, NEW places, NEW j, NEW out,
         Merged(out, as, new, places), SameAction(as[j], new)
  PROVE  Merged(out, as, new, places \cup {j})
<1>1. FromThere(out, as, new, places \cup {j})
  BY DEF Merged, FromThere, Comes
<1>2. OthersKept(out, as, new, places \cup {j})
  BY DEF Merged, OthersKept
<1>3. OthersApart(out, as, new, places \cup {j})
  <2>1. \A a, b : TwoOf(as, places, a, b) => TwoOf(as, places \cup {j}, a, b)
    BY DEF TwoOf
  <2> QED BY <2>1 DEF Merged, OthersApart
<1> QED BY <1>1, <1>2, <1>3 DEF Merged

LEMMA PutMerged ==
  ASSUME NEW as, NEW new \in Action, NEW places, NEW out \in Seq(Action),
         Merged(out, as, new, places)
  PROVE  /\ Put(out, new) \in Seq(Action)
         /\ Merged(Put(out, new), as, new, places)
         /\ new \in Range(Put(out, new))
<1>1. CASE new \in Range(out)
  BY <1>1 DEF Put, Range
<1>2. CASE new \notin Range(out)
  <2>1. Put(out, new) = Append(out, new)
    BY <1>2 DEF Put
  <2>2. Append(out, new) \in Seq(Action) /\ Grown(Append(out, new), out, Len(out) + 1, new)
    BY Appended
  <2>3. \A p \in DOMAIN out : out[p] # new
    BY <1>2 DEF Range
  <2>4. Merged(Append(out, new), as, new, places)
    BY <2>2, <2>3, NewMerged
  <2>5. new \in Range(Append(out, new))
    BY <2>2, Zenon DEF Grown, Range
  <2> QED BY <2>1, <2>2, <2>4, <2>5
<1> QED BY <1>1, <1>2

\* One turn of the loop.
Turn(out, a, new) == IF SameAction(a, new) THEN Put(out, new) ELSE Append(out, a)

LEMMA TurnMerged ==
  ASSUME NEW as \in Seq(Action), NEW new \in Action, NEW places, NEW out \in Seq(Action),
         Merged(out, as, new, places), NEW j \in DOMAIN as, j \notin places
  PROVE  /\ Turn(out, as[j], new) \in Seq(Action)
         /\ Merged(Turn(out, as[j], new), as, new, places \cup {j})
<1>1. as[j] \in Action
  BY ElementOfSeq, LenProperties
<1>2. CASE SameAction(as[j], new)
  BY <1>2, PutMerged, SameMerged DEF Turn
<1>3. CASE ~SameAction(as[j], new)
  BY <1>1, <1>3, Appended, OtherMerged DEF Turn
<1> QED BY <1>2, <1>3

\* What the loop leaves of as, and that the new action is there.
LEMMA UpsertMerges ==
  ASSUME NEW as \in Seq(Action), NEW new \in Action
  PROVE  /\ Upsert(as, new) \in Seq(Action)
         /\ Merged(Upsert(as, new), as, new, DOMAIN as)
         /\ new \in Range(Upsert(as, new))
<1> DEFINE n == Len(as)
           S == Seq(Action)
           turn == [i \in 1..n |-> [out \in S |-> Turn(out, as[i], new)]]
           Loop(f) == [i \in 0..n |->
                         IF i = 0 THEN <<>>
                         ELSE IF SameAction(as[i], new) THEN Put(f[i - 1], new)
                         ELSE Append(f[i - 1], as[i])]
           m == CHOOSE f : f = Loop(f)
<1>1. n \in Nat /\ <<>> \in S /\ DOMAIN as = 1..n
  BY LenProperties, EmptySeq
<1>2. turn \in [1..n -> [S -> S]]
  <2> SUFFICES ASSUME NEW i \in 1..n, NEW out \in S
               PROVE  Turn(out, as[i], new) \in S
    OBVIOUS
  <2>1. as[i] \in Action
    BY ElementOfSeq
  <2> QED BY <2>1, Appended DEF Turn, Put
<1>3. PICK f : IsRun(f, n, S, <<>>, turn)
  <2> HIDE DEF turn, n, S
  <2> QED BY <1>1, <1>2, RunExists
<1>4. f = Loop(f)
  <2>1. ASSUME NEW i \in 0..n, i # 0
        PROVE  f[i] = IF SameAction(as[i], new) THEN Put(f[i - 1], new)
                      ELSE Append(f[i - 1], as[i])
    <3> HIDE DEF n, S
    <3>1. i \in 1..n /\ i - 1 \in 0..n
      BY <1>1, <2>1
    <3>2. f[i - 1] \in S /\ f[i] = turn[i][f[i - 1]]
      BY <1>3, <3>1 DEF IsRun
    <3>3. turn[i][f[i - 1]] = Turn(f[i - 1], as[i], new)
      BY <3>1, <3>2
    <3> QED BY <3>2, <3>3 DEF Turn
  <2> HIDE DEF turn, n, S
  <2> QED BY <1>3, <2>1 DEF IsRun
<1> HIDE DEF turn
<1>5. m = Loop(m)
  <2> HIDE DEF Loop
  <2> QED BY <1>4
<1>6. Upsert(as, new) = Put(m[n], new)
  BY Zenon DEF Upsert
<1> HIDE DEF m
<1>7. \A i \in 0..n : m[i] = IF i = 0 THEN <<>> ELSE Turn(m[i - 1], as[i], new)
  <2>1. \A i \in 0..n : Loop(m)[i] = IF i = 0 THEN <<>> ELSE Turn(m[i - 1], as[i], new)
    BY DEF Turn
  <2> HIDE DEF Loop, n
  <2> QED BY <1>5, <2>1
<1> HIDE DEF Loop
<1> DEFINE T == {i \in 0..n : m[i] \in Seq(Action) /\ Merged(m[i], as, new, 1..i)}
<1>8. 0 \in T
  <2>1. 0 \in 0..n /\ m[0] = <<>> /\ 1..0 = {}
    <3> HIDE DEF n
    <3>1. 0 \in 0..n /\ 1..0 = {}
      BY <1>1
    <3>2. m[0] = <<>>
      BY <1>7, <3>1, Zenon
    <3> QED BY <3>1, <3>2
  <2>2. Merged(<<>>, as, new, {})
    BY DEF Merged, FromThere, Comes, OthersKept, NewOnce, OthersApart
  <2> QED BY <1>1, <2>1, <2>2
<1>9. ASSUME NEW i \in 0..n-1, i \in T PROVE i + 1 \in T
  <2> DEFINE j == i + 1
  <2>1. j \in 0..n /\ j # 0 /\ j - 1 = i /\ j \in 1..n /\ j \notin 1..i /\ 1..j = (1..i) \cup {j}
    <3> HIDE DEF n
    <3> QED BY <1>1
  <2> HIDE DEF j
  <2>2. m[j] = Turn(m[i], as[j], new)
    <3> HIDE DEF n
    <3> QED BY <1>7, <2>1
  <2>3. m[j] \in Seq(Action) /\ Merged(m[j], as, new, (1..i) \cup {j})
    <3> DEFINE out == m[i]
               places == 1..i
    <3>1. out \in Seq(Action) /\ Merged(out, as, new, places)
      BY <1>9
    <3>2. j \in DOMAIN as /\ j \notin places
      BY <1>1, <2>1
    <3> HIDE DEF n, T, out, places
    <3>3. Turn(out, as[j], new) \in Seq(Action) /\ Merged(Turn(out, as[j], new), as, new, places \cup {j})
      BY <3>1, <3>2, TurnMerged
    <3> QED BY <2>2, <3>3 DEF out, places
  <2> QED BY <2>1, <2>3 DEF j
<1>10. n \in T
  <2> HIDE DEF T, n
  <2>1. 0..n \subseteq T
    BY <1>1, <1>8, <1>9, Induction
  <2> QED BY <1>1, <2>1
<1>11. m[n] \in Seq(Action) /\ Merged(m[n], as, new, DOMAIN as)
  BY <1>1, <1>10
<1> DEFINE out == m[n]
           places == DOMAIN as
<1>12. out \in Seq(Action) /\ Merged(out, as, new, places)
  BY <1>11
<1>13. Upsert(as, new) = Put(out, new)
  BY <1>6
<1> HIDE DEF n, T, out, places
<1>14. Put(out, new) \in Seq(Action) /\ Merged(Put(out, new), as, new, places)
  BY <1>12, PutMerged
<1>15. new \in Range(Put(out, new))
  BY <1>12, PutMerged
<1> QED BY <1>13, <1>14, <1>15 DEF places

\* The same by actions: as without the rivals of the new one, and the new one.
LEMMA UpsertRange ==
  ASSUME NEW as \in Seq(Action), NEW new \in Action
  PROVE  Range(Upsert(as, new)) = {a \in Range(as) : ~SameAction(a, new)} \cup {new}
<1> DEFINE U == Upsert(as, new)
<1>1. Merged(U, as, new, DOMAIN as) /\ new \in Range(U)
  BY UpsertMerges
<1> HIDE DEF U
<1>2. ASSUME NEW p \in DOMAIN U
      PROVE  U[p] \in {a \in Range(as) : ~SameAction(a, new)} \cup {new}
  BY <1>1 DEF Merged, FromThere, Comes, Range
<1>3. ASSUME NEW j \in DOMAIN as, ~SameAction(as[j], new) PROVE as[j] \in Range(U)
  BY <1>1, <1>3 DEF Merged, OthersKept, Range
<1>4. Range(U) = {a \in Range(as) : ~SameAction(a, new)} \cup {new}
  BY <1>1, <1>2, <1>3 DEF Range
<1> QED BY <1>4 DEF U
-----------------------------------------------------------------------------
(* bindFormActionRoutes.                                                   *)

LEMMA FormActionType ==
  ASSUME NEW key \in Keys, NEW trigger \in Triggers, NEW bound \in BOOLEAN
  PROVE  FormAction(key, trigger, bound) \in Action
  BY DEF FormAction, Action, Keys

Of(a, key) == a.id = key[2] /\ a.component = key[1]

\* A turn of its loop: nothing, or an action of the key is bound.
LEMMA BindKeyIs ==
  ASSUME NEW out \in Seq(Action), NEW key \in Keys
  PROVE  \/ /\ BindKey(out, key) = out
            /\ key \in EventKeys => \A a \in Range(out) : Of(a, key) => a.bound
         \/ /\ key \in EventKeys
            /\ \E a \in Range(out) :
                 /\ Of(a, key) /\ ~a.bound
                 /\ FormAction(key, a.trigger, TRUE) \in Action
                 /\ BindKey(out, key) = Upsert(out, FormAction(key, a.trigger, TRUE))
<1>1. CASE key \in EventKeys /\ OfKey(out, key) # {}
  <2> DEFINE i == First(OfKey(out, key))
  <2>1. OfKey(out, key) \subseteq DOMAIN out /\ DOMAIN out \subseteq Nat
    BY LenProperties DEF OfKey
  <2>2. i \in OfKey(out, key)
    BY <1>1, <2>1, FirstIs
  <2> HIDE DEF i
  <2>3. i \in DOMAIN out /\ Of(out[i], key) /\ ~out[i].bound
    BY <2>2 DEF OfKey, Of
  <2>4. out[i] \in Range(out) /\ out[i] \in Action
    BY <2>3, ElementOfSeq, LenProperties DEF Range
  <2>5. FormAction(key, out[i].trigger, TRUE) \in Action
    BY <2>4, FormActionType DEF Action
  <2>6. BindKey(out, key) = Upsert(out, FormAction(key, out[i].trigger, TRUE))
    BY <1>1 DEF BindKey, i
  <2> QED BY <1>1, <2>3, <2>4, <2>5, <2>6
<1>2. CASE key \notin EventKeys
  BY <1>2 DEF BindKey
<1>3. CASE OfKey(out, key) = {}
  <2>1. BindKey(out, key) = out
    BY <1>3 DEF BindKey
  <2>2. ASSUME NEW i \in DOMAIN out, Of(out[i], key) PROVE out[i].bound
    BY <1>3, <2>2 DEF OfKey, Of
  <2> QED BY <2>1, <2>2 DEF Range
<1> QED BY <1>1, <1>2, <1>3

LEMMA BoundRuns ==
  ASSUME NEW as \in Seq(Action)
  PROVE  \E out : /\ out[0] = as
                  /\ \A i \in 1..Len(KeyOrder) :
                       out[i - 1] \in Seq(Action) => out[i] = BindKey(out[i - 1], KeyOrder[i])
                  /\ Bound(as) = out[Len(KeyOrder)]
<1> DEFINE n == Len(KeyOrder)
           S == Seq(Action)
           turn == [i \in 1..n |-> [out \in S |-> BindKey(out, KeyOrder[i])]]
           Loop(f) == [i \in 0..n |-> IF i = 0 THEN as ELSE BindKey(f[i - 1], KeyOrder[i])]
           m == CHOOSE f : f = Loop(f)
<1>1. n \in Nat /\ \A i \in 1..n : KeyOrder[i] \in Keys
  BY KeysAssumption, LenProperties, ElementOfSeq DEF Keys
<1>2. turn \in [1..n -> [S -> S]]
  <2> SUFFICES ASSUME NEW i \in 1..n, NEW out \in S PROVE BindKey(out, KeyOrder[i]) \in S
    OBVIOUS
  <2>1. KeyOrder[i] \in Keys
    BY <1>1
  <2> QED BY <2>1, BindKeyIs, UpsertMerges
<1>3. PICK f : IsRun(f, n, S, as, turn)
  <2> HIDE DEF turn, n
  <2> QED BY <1>1, <1>2, RunExists
<1>4. f = Loop(f)
  <2>1. ASSUME NEW i \in 0..n, i # 0
        PROVE  f[i] = BindKey(f[i - 1], KeyOrder[i])
    <3> HIDE DEF n, S
    <3>1. i \in 1..n /\ i - 1 \in 0..n
      BY <1>1, <2>1
    <3>2. f[i - 1] \in S /\ f[i] = turn[i][f[i - 1]]
      BY <1>3, <3>1 DEF IsRun
    <3>3. turn[i][f[i - 1]] = BindKey(f[i - 1], KeyOrder[i])
      BY <3>1, <3>2
    <3> QED BY <3>2, <3>3
  <2> HIDE DEF turn, n, S
  <2> QED BY <1>3, <2>1 DEF IsRun
<1> HIDE DEF turn
<1>5. m = Loop(m)
  <2> HIDE DEF Loop
  <2> QED BY <1>4
<1>6. Bound(as) = m[n]
  BY Zenon DEF Bound
<1> HIDE DEF m
<1>7. \A i \in 0..n : m[i] = IF i = 0 THEN as ELSE BindKey(m[i - 1], KeyOrder[i])
  <2>1. \A i \in 0..n : Loop(m)[i] = IF i = 0 THEN as ELSE BindKey(m[i - 1], KeyOrder[i])
    OBVIOUS
  <2> HIDE DEF Loop, n
  <2> QED BY <1>5, <2>1
<1>8. 0 \in 0..n /\ \A i \in 1..n : i \in 0..n /\ i # 0
  <2> HIDE DEF n
  <2> QED BY <1>1
<1>9. m[0] = as
  BY <1>7, <1>8, Zenon
<1>10. \A i \in 1..n : m[i] = BindKey(m[i - 1], KeyOrder[i])
  BY <1>7, <1>8, Zenon
<1> QED BY <1>6, <1>9, <1>10
\* What the loop keeps: no action comes from nowhere, ...
Descends(a, as) ==
  \E b \in Range(as) :
    ~b.bound /\ b.id = a.id /\ b.component = a.component /\ b.trigger = a.trigger
BoundFrom(out, as) ==
  \A a \in Range(out) :
    IF a.bound THEN <<a.component, a.id>> \in EventKeys /\ Descends(a, as) ELSE a \in Range(as)

\* ... a bound action has no rival, ...
Unrivalled(out) ==
  \A p, q \in DOMAIN out : out[p].bound /\ SameAction(out[p], out[q]) => p = q

\* ... and a key with an action and a handler keeps its action, and has a bound one after
\* its turn, unless a control of its id has actions of another type.
Sole(as, key) ==
  /\ \E a \in Range(as) : Of(a, key)
  /\ \A a \in Range(as) : a.id = key[2] => a.component \in {key[1], None}
KeyReached(out, key, done) ==
  /\ \E a \in Range(out) : Of(a, key)
  /\ key \in done => \E a \in Range(out) : Of(a, key) /\ a.bound
Reaches(out, as, done) ==
  \A key \in EventKeys : Sole(as, key) => KeyReached(out, key, done)

BindInv(out, as, done) ==
  /\ out \in Seq(Action)
  /\ BoundFrom(out, as)
  /\ Unrivalled(out)
  /\ Reaches(out, as, done)

LEMMA BoundOneIs ==
  ASSUME NEW key, NEW trigger
  PROVE  /\ Of(FormAction(key, trigger, TRUE), key)
         /\ FormAction(key, trigger, TRUE).bound
         /\ FormAction(key, trigger, TRUE).trigger = trigger
  BY DEF FormAction, Of

LEMMA UpsertBoundFrom ==
  ASSUME NEW out \in Seq(Action), NEW as, NEW new \in Action, BoundFrom(out, as),
         new.bound, <<new.component, new.id>> \in EventKeys, Descends(new, as)
  PROVE  BoundFrom(Upsert(out, new), as)
<1>1. \A a \in Range(Upsert(out, new)) : a \in Range(out) \/ a = new
  BY UpsertRange
<1> QED BY <1>1 DEF BoundFrom

LEMMA UpsertUnrivalled ==
  ASSUME NEW out \in Seq(Action), NEW new \in Action, Unrivalled(out)
  PROVE  Unrivalled(Upsert(out, new))
<1> DEFINE U == Upsert(out, new)
           places == DOMAIN out
<1>1. Merged(U, out, new, places)
  BY UpsertMerges
<1>2. \A j, k \in places : out[j].bound /\ SameAction(out[j], out[k]) => j = k
  BY DEF Unrivalled
<1> HIDE DEF U, places
<1> SUFFICES ASSUME NEW p \in DOMAIN U, NEW q \in DOMAIN U, p # q,
                    U[p].bound, SameAction(U[p], U[q])
             PROVE  FALSE
  BY DEF Unrivalled, U
<1>3. CASE SameAction(U[p], new)
  <2>1. SameAction(U[q], new)
    BY <1>3 DEF SameAction
  <2> QED BY <1>1, <1>3, <2>1 DEF Merged, NewOnce
<1>4. CASE ~SameAction(U[p], new)
  <2>1. ~SameAction(U[q], new)
    BY <1>4 DEF SameAction
  <2>2. TwoOf(out, places, U[p], U[q])
    BY <1>1, <1>4, <2>1 DEF Merged, OthersApart
  <2> QED BY <1>2, <2>2 DEF TwoOf
<1> QED BY <1>3, <1>4

LEMMA UpsertReaches ==
  ASSUME NEW out \in Seq(Action), NEW as, NEW new \in Action, NEW done, NEW turn \in Keys,
         Reaches(out, as, done), Of(new, turn), new.bound, Descends(new, as)
  PROVE  Reaches(Upsert(out, new), as, done \cup {turn})
<1> DEFINE U == Upsert(out, new)
<1>1. Range(U) = {a \in Range(out) : ~SameAction(a, new)} \cup {new}
  BY UpsertRange
<1> HIDE DEF U
<1> SUFFICES ASSUME NEW key \in EventKeys, Sole(as, key)
             PROVE  KeyReached(U, key, done \cup {turn})
  BY DEF Reaches, U
<1>2. key \in Types \X Controls /\ turn \in Types \X Controls
  BY DEF EventKeys, Keys
<1>3. CASE key = turn
  BY <1>1, <1>3 DEF KeyReached
<1>4. CASE key # turn
  <2>1. turn[2] # key[2]
    <3> SUFFICES ASSUME turn[2] = key[2] PROVE FALSE
      OBVIOUS
    <3>1. turn[1] \in {key[1], None}
      BY DEF Sole, Of, Descends
    <3> QED BY <1>2, <1>4, <3>1, NoneAssumption
  <2>2. ASSUME NEW a \in Range(out), Of(a, key) PROVE a \in Range(U)
    BY <1>1, <2>1, <2>2 DEF Of, SameAction
  <2>3. KeyReached(out, key, done)
    BY DEF Reaches
  <2> QED BY <1>4, <2>2, <2>3 DEF KeyReached
<1> QED BY <1>3, <1>4

LEMMA BindTurn ==
  ASSUME NEW out, NEW as, NEW done, BindInv(out, as, done), NEW key \in Keys
  PROVE  BindInv(BindKey(out, key), as, done \cup {key})
<1>1. out \in Seq(Action) /\ BoundFrom(out, as) /\ Unrivalled(out) /\ Reaches(out, as, done)
  BY DEF BindInv
<1>2. CASE /\ BindKey(out, key) = out
           /\ key \in EventKeys => \A a \in Range(out) : Of(a, key) => a.bound
  <2>1. Reaches(out, as, done \cup {key})
    BY <1>1, <1>2 DEF Reaches, KeyReached
  <2> QED BY <1>1, <1>2, <2>1 DEF BindInv
<1>3. CASE /\ key \in EventKeys
           /\ \E a \in Range(out) :
                /\ Of(a, key) /\ ~a.bound
                /\ FormAction(key, a.trigger, TRUE) \in Action
                /\ BindKey(out, key) = Upsert(out, FormAction(key, a.trigger, TRUE))
  <2>1. PICK a \in Range(out) : /\ Of(a, key) /\ ~a.bound
                                /\ FormAction(key, a.trigger, TRUE) \in Action
                                /\ BindKey(out, key) = Upsert(out, FormAction(key, a.trigger, TRUE))
    BY <1>3
  <2> DEFINE new == FormAction(key, a.trigger, TRUE)
  <2>2. new \in Action /\ Of(new, key) /\ new.bound /\ new.trigger = a.trigger
    BY <2>1, BoundOneIs
  <2> HIDE DEF new
  <2>3. a \in Range(as)
    BY <1>1, <2>1 DEF BoundFrom
  <2>4. Descends(new, as)
    BY <2>1, <2>2, <2>3 DEF Descends, Of
  <2>5. <<new.component, new.id>> \in EventKeys
    <3>1. key = <<key[1], key[2]>>
      BY DEF Keys
    <3> QED BY <1>3, <2>2, <3>1 DEF Of
  <2>6. Upsert(out, new) \in Seq(Action)
    BY <1>1, <2>2, UpsertMerges
  <2>7. BoundFrom(Upsert(out, new), as)
    BY <1>1, <2>2, <2>4, <2>5, UpsertBoundFrom
  <2>8. Unrivalled(Upsert(out, new))
    BY <1>1, <2>2, UpsertUnrivalled
  <2>9. Reaches(Upsert(out, new), as, done \cup {key})
    BY <1>1, <2>2, <2>4, UpsertReaches
  <2>10. BindKey(out, key) = Upsert(out, new)
    BY <2>1 DEF new
  <2> QED BY <2>6, <2>7, <2>8, <2>9, <2>10 DEF BindInv
<1> QED BY <1>1, <1>2, <1>3, BindKeyIs

\* What is handed to the client, from actions none of which is bound yet.
LEMMA BoundKeeps ==
  ASSUME NEW as \in Seq(Action), \A a \in Range(as) : ~a.bound
  PROVE  BindInv(Bound(as), as, Keys)
<1> DEFINE n == Len(KeyOrder)
           Done(i) == {KeyOrder[j] : j \in 1..i}
<1>1. n \in Nat /\ DOMAIN KeyOrder = 1..n /\ \A i \in 1..n : KeyOrder[i] \in Keys
  BY KeysAssumption, LenProperties, ElementOfSeq DEF Keys
<1>2. PICK out : /\ out[0] = as
                 /\ \A i \in 1..n :
                      out[i - 1] \in Seq(Action) => out[i] = BindKey(out[i - 1], KeyOrder[i])
                 /\ Bound(as) = out[n]
  BY BoundRuns
<1> DEFINE T == {i \in 0..n : BindInv(out[i], as, Done(i))}
<1>3. 0 \in T
  <2>1. BoundFrom(as, as)
    BY DEF BoundFrom
  <2>2. Unrivalled(as)
    BY DEF Unrivalled, Range
  <2>3. Reaches(as, as, {})
    BY DEF Reaches, Sole, KeyReached
  <2>4. BindInv(as, as, {})
    BY <2>1, <2>2, <2>3 DEF BindInv
  <2>5. 0 \in 0..n /\ Done(0) = {}
    <3> HIDE DEF n
    <3> QED BY <1>1
  <2> QED BY <1>2, <2>4, <2>5
<1>4. ASSUME NEW i \in 0..n-1, i \in T PROVE i + 1 \in T
  <2> DEFINE j == i + 1
  <2>1. j \in 0..n /\ j \in 1..n /\ j - 1 = i /\ 1..j = (1..i) \cup {j}
    <3> HIDE DEF n
    <3> QED BY <1>1
  <2>2. BindInv(out[i], as, Done(i))
    BY <1>4
  <2> HIDE DEF n, j
  <2>3. Done(j) = Done(i) \cup {KeyOrder[j]}
    BY <2>1
  <2>4. out[j] = BindKey(out[i], KeyOrder[j])
    BY <1>2, <2>1, <2>2 DEF BindInv
  <2> DEFINE key == KeyOrder[j]
             before == out[i]
             done == Done(i)
  <2>5. BindInv(out[j], as, Done(j))
    <3>1. key \in Keys /\ BindInv(before, as, done)
      BY <1>1, <2>1, <2>2
    <3>2. out[j] = BindKey(before, key) /\ Done(j) = done \cup {key}
      BY <2>3, <2>4
    <3> HIDE DEF key, before, done
    <3>3. BindInv(BindKey(before, key), as, done \cup {key})
      BY <3>1, BindTurn
    <3> QED BY <3>2, <3>3
  <2> QED BY <2>1, <2>5 DEF j
<1>5. BindInv(out[n], as, Done(n))
  <2> HIDE DEF T, n
  <2>1. 0..n \subseteq T
    BY <1>1, <1>3, <1>4, Induction
  <2>2. n \in T
    BY <1>1, <2>1
  <2> QED BY <2>2 DEF T
<1>6. Done(n) = Keys
  <2> HIDE DEF n
  <2> QED BY <1>1, KeysAssumption DEF Range, Keys
<1> QED BY <1>2, <1>5, <1>6
-----------------------------------------------------------------------------
(* The inputs of the form.                                                 *)

\* An input at place p is the one findInputById finds for the id, unless others of the
\* default container are found first.
Fits(fs, id, p) ==
  /\ p \in Indices(fs, id)
  /\ fs[p].main \/ Main(fs, id) = {} => p = Place(fs, id)

LEMMA PlacesAre ==
  ASSUME NEW fs \in Seq(Field), NEW id
  PROVE  /\ Len(fs) \in Nat /\ DOMAIN fs = 1..Len(fs)
         /\ Indices(fs, id) \subseteq 1..Len(fs) /\ Indices(fs, id) \subseteq Nat
         /\ Main(fs, id) \subseteq Indices(fs, id)
<1>1. Len(fs) \in Nat /\ DOMAIN fs = 1..Len(fs)
  BY LenProperties
<1> QED BY <1>1 DEF Indices, Main

LEMMA PlaceIs ==
  ASSUME NEW fs \in Seq(Field), NEW id, Indices(fs, id) # {}
  PROVE  /\ Place(fs, id) \in Indices(fs, id)
         /\ Place(fs, id) \in 1..Len(fs)
         /\ Fits(fs, id, Place(fs, id))
<1> DEFINE found == IF Main(fs, id) # {} THEN Main(fs, id) ELSE Indices(fs, id)
<1>1. found \subseteq Indices(fs, id) /\ found \subseteq Nat /\ found # {}
  BY PlacesAre
<1>2. Place(fs, id) = First(found)
  BY DEF Place
<1> HIDE DEF found
<1>3. Place(fs, id) \in Indices(fs, id)
  BY <1>1, <1>2, FirstIs
<1> QED BY <1>3, PlacesAre DEF Fits

\* An append takes no input its place.
LEMMA AppendFits ==
  ASSUME NEW fs \in Seq(Field), NEW f \in Field, NEW id, NEW p, Fits(fs, id, p)
  PROVE  Fits(Append(fs, f), id, p)
<1> DEFINE o == Append(fs, f)
           n == Len(fs) + 1
<1>1. Grown(o, fs, n, f) /\ o \in Seq(Field)
  BY Appended
<1>2. /\ Len(fs) \in Nat /\ DOMAIN fs = 1..Len(fs) /\ Indices(fs, id) \subseteq 1..Len(fs)
      /\ Main(fs, id) \subseteq Indices(fs, id)
  BY PlacesAre
<1>3. Indices(o, id) \subseteq Nat /\ Main(o, id) \subseteq Indices(o, id)
  BY <1>1, PlacesAre
<1> HIDE DEF o
<1>4. p \in Indices(fs, id)
  BY DEF Fits
<1>5. o[p] = fs[p] /\ p \in Indices(o, id) /\ p < n
  BY <1>1, <1>2, <1>4 DEF Indices, Grown
<1>6. /\ Indices(fs, id) \subseteq Indices(o, id) /\ Indices(o, id) \subseteq Indices(fs, id) \cup {n}
      /\ Main(fs, id) \subseteq Main(o, id) /\ Main(o, id) \subseteq Main(fs, id) \cup {n}
  BY <1>1, <1>2 DEF Indices, Main, Grown
<1>7. CASE fs[p].main
  <2>1. p \in Main(fs, id) /\ p \in Main(o, id)
    BY <1>4, <1>5, <1>7 DEF Main
  <2>2. p = First(Main(fs, id))
    BY <1>7, <2>1 DEF Fits, Place
  <2>3. \A j \in Main(fs, id) : p <= j
    BY <1>2, <2>1, <2>2, FirstIs
  <2>4. \A j \in Main(o, id) : p <= j
    BY <1>2, <1>5, <1>6, <2>1, <2>3
  <2>5. First(Main(o, id)) = p
    BY <1>3, <2>1, <2>4, FirstIsThat
  <2> QED BY <1>5, <2>1, <2>5 DEF Fits, Place, o
<1>8. CASE ~fs[p].main /\ Main(o, id) = {}
  <2>1. Main(fs, id) = {}
    BY <1>6, <1>8
  <2>2. p = First(Indices(fs, id))
    BY <2>1 DEF Fits, Place
  <2>3. \A j \in Indices(fs, id) : p <= j
    BY <1>2, <1>4, <2>2, FirstIs
  <2>4. \A j \in Indices(o, id) : p <= j
    BY <1>2, <1>4, <1>5, <1>6, <2>3
  <2>5. First(Indices(o, id)) = p
    BY <1>3, <1>5, <2>4, FirstIsThat
  <2> QED BY <1>5, <1>8, <2>5 DEF Fits, Place, o
<1>9. CASE ~fs[p].main /\ Main(o, id) # {}
  BY <1>5, <1>9 DEF Fits, o
<1> QED BY <1>7, <1>8, <1>9

LEMMA AppendRange ==
  ASSUME NEW S, NEW s \in Seq(S), NEW x \in S
  PROVE  Range(Append(s, x)) = Range(s) \cup {x}
<1> DEFINE o == Append(s, x)
           n == Len(s) + 1
<1>1. Grown(o, s, n, x)
  BY Appended
<1> HIDE DEF o, n
<1>2. Range(o) = Range(s) \cup {x}
  BY <1>1 DEF Grown, Range
<1> QED BY <1>2 DEF o

Regrouped(fs, p, group) == [fs EXCEPT ![p].group = group]

\* Setting a group leaves the inputs their places.
LEMMA GroupSet ==
  ASSUME NEW fs \in Seq(Field), NEW group \in Groups, NEW p \in DOMAIN fs,
         NEW o, o = Regrouped(fs, p, group)
  PROVE  /\ o \in Seq(Field) /\ Len(o) = Len(fs)
         /\ \A id, q : Fits(fs, id, q) => Fits(o, id, q)
         /\ o[p].group = group
         /\ \A i \in DOMAIN fs : i # p => o[i] = fs[i]
<1>1. /\ Len(fs) \in Nat /\ DOMAIN fs = 1..Len(fs) /\ fs \in [1..Len(fs) -> Field]
      /\ o = [fs EXCEPT ![p].group = group]
  BY LenProperties DEF Regrouped
<1>2. o[p] = [fs[p] EXCEPT !.group = group] /\ fs[p] \in Field
  BY <1>1
<1>3. o[p] \in Field /\ o[p].main = fs[p].main /\ o[p].id = fs[p].id /\ o[p].group = group
  BY <1>2 DEF Field
<1>4. \A i \in DOMAIN fs : i # p => o[i] = fs[i]
  BY <1>1
<1>5. o \in [1..Len(fs) -> Field]
  <2>1. DOMAIN o = 1..Len(fs) /\ o = [i \in 1..Len(fs) |-> o[i]]
    BY <1>1
  <2>2. \A i \in 1..Len(fs) : o[i] \in Field
    BY <1>1, <1>3, <1>4
  <2> QED BY <2>1, <2>2
<1>6. o \in Seq(Field)
  BY <1>1, <1>5
<1>7. Len(o) = Len(fs) /\ DOMAIN o = DOMAIN fs
  BY <1>1, <1>5, <1>6, LenProperties
<1>8. \A i \in DOMAIN fs : o[i].main = fs[i].main /\ o[i].id = fs[i].id
  BY <1>3, <1>4
<1>9. \A id : Indices(o, id) = Indices(fs, id)
  BY <1>7, <1>8 DEF Indices
<1>10. \A id : Main(o, id) = Main(fs, id)
  BY <1>7, <1>8, <1>9 DEF Main, Indices
<1>11. \A id : Place(o, id) = Place(fs, id)
  BY <1>9, <1>10 DEF Place
<1>12. \A id, q : Fits(fs, id, q) => Fits(o, id, q)
  BY <1>8, <1>9, <1>10, <1>11 DEF Fits, Indices
<1> QED BY <1>3, <1>4, <1>6, <1>7, <1>12

\* A getter gives a handle of the input it finds.
LEMMA GetIs ==
  ASSUME NEW id \in Controls, NEW type \in Types, fields' \in Seq(Field), Len(fields') <= MaxFields,
         NEW h \in Get(id, type)
  PROVE  h \in Handle /\ Fits(fields', h.id, h.place)
<1> DEFINE fs == fields'
           p == Place(fs, id)
<1>1. Indices(fs, id) # {}
  BY Zenon DEF Get
<1>2. h = [id |-> id, type |-> type, place |-> p, attached |-> TRUE]
  BY Zenon DEF Get
<1>3. fs \in Seq(Field) /\ Len(fs) <= MaxFields /\ Len(fs) \in Nat
  BY LenProperties
<1> HIDE DEF fs
<1>4. p \in 1..Len(fs) /\ Fits(fs, id, p)
  BY <1>1, <1>3, PlaceIs
<1>5. p \in Places
  BY <1>3, <1>4, FieldsAssumption DEF Places
<1> HIDE DEF p
<1>6. h \in Handle /\ h.id = id /\ h.place = p
  BY <1>2, <1>5 DEF Handle
<1> QED BY <1>4, <1>6 DEF fs

-----------------------------------------------------------------------------
(* The inductive invariant.                                                *)

\* The page's handles and listeners are of inputs that can be found.
HandlesFit == \A h \in handles : h.place # 0 => Fits(fields, h.id, h.place)
ListenersFit ==
  \A key \in Keys :
    handlers[key] # None /\ handlers[key].place # 0 => Fits(fields, key[2], handlers[key].place)

\* The group last asked for an input is the input's, unless it was asked for in vain.
AskedKept == \A i \in DOMAIN fields : i \notin missed => fields[i].group = asked[i]

\* A key that was given a listener has one, of a trigger it was given a listener for.
HeardKept ==
  \A key \in Keys, t \in Triggers :
    <<key, t>> \in heard =>
      /\ <<key, t>> \in given
      /\ handlers[key] # None /\ <<key, handlers[key].trigger>> \in heard

\* While Init runs no action is bound, one with a component was given, ...
Unbound(as) ==
  \A a \in Range(as) :
    ~a.bound /\ (a.component # None => <<<<a.component, a.id>>, a.trigger>> \in given)
ActionsGiven == stage = "building" => Unbound(actions)

\* ... and the action of a key is there, unless the form was given one of another type with
\* its id.
Alone(key) == \A g \in given : g[1][2] = key[2] => g[1] = key
HasAction(as, key) == \E a \in Range(as) : Of(a, key)
GivenActions ==
  stage = "building" =>
    \A key \in Keys, t \in Triggers :
      <<key, t>> \in given /\ Alone(key) => HasAction(actions, key)

Delivered == BoundActionsHandled /\ BoundOnce /\ ListenersReachable /\ TriggerRunsItsListener

IInv ==
  /\ TypeOK
  /\ HandlesFit
  /\ ListenersFit
  /\ AskedKept
  /\ HeardKept
  /\ ActionsGiven
  /\ GivenActions
  /\ Delivered

LEMMA KeysAre ==
  /\ \A key \in Keys : key[1] \in Types /\ key[2] \in Controls /\ key = <<key[1], key[2]>>
  /\ \A type \in Types, id \in Controls : <<type, id>> \in Keys
  BY DEF Keys

LEMMA NotYetDelivered ==
  ASSUME stage' = "building"
  PROVE  Delivered'
  BY DEF Delivered, Rendered, BoundActionsHandled, BoundOnce, ListenersReachable,
         TriggerRunsItsListener

LEMMA GivenIs ==
  ASSUME NEW key \in Keys, NEW t \in Triggers
  PROVE  /\ FormAction(key, t, FALSE) \in Action
         /\ FormAction(key, t, FALSE).id = key[2]
         /\ FormAction(key, t, FALSE).component = key[1]
         /\ FormAction(key, t, FALSE).trigger = t
         /\ ~FormAction(key, t, FALSE).bound
<1>1. FormAction(key, t, FALSE) \in Action
  BY FormActionType
<1> QED BY <1>1 DEF FormAction

\* What the builder calls that leave the handlers alone have to keep of them, and what the
\* calls that leave the form alone.
LEMMA HandlersAlone ==
  ASSUME IInv, handlers' = handlers, heard' = heard, given \subseteq given',
         \A id, p : Fits(fields, id, p) => Fits(fields', id, p)
  PROVE  /\ handlers' \in [Keys -> Listener \cup {None}] /\ heard' \subseteq Keys \X Triggers
         /\ ListenersFit' /\ HeardKept'
<1>1. TypeOK /\ ListenersFit /\ HeardKept
  BY DEF IInv
<1>2. ListenersFit'
  BY <1>1 DEF ListenersFit
<1>3. HeardKept'
  BY <1>1 DEF HeardKept
<1> QED BY <1>1, <1>2, <1>3 DEF TypeOK

LEMMA FieldsAlone ==
  ASSUME IInv, UNCHANGED <<fields, length, cap, asked, missed>>
  PROVE  /\ fields' \in Seq(Field) /\ Len(fields') <= MaxFields
         /\ length' \in Nat /\ cap' \in Nat /\ length' <= cap'
         /\ asked' \in Seq(Groups \cup {None}) /\ Len(asked') = Len(fields')
         /\ missed' \subseteq Places
         /\ AskedKept' /\ \A id, p : Fits(fields, id, p) => Fits(fields', id, p)
  BY DEF IInv, TypeOK, AskedKept

LEMMA ActionsAlone ==
  ASSUME IInv, stage = "building", UNCHANGED <<stage, actions, given>>
  PROVE  /\ stage' = "building" /\ actions' \in Seq(Action) /\ given' \subseteq Keys \X Triggers
         /\ ActionsGiven' /\ GivenActions'
<1>1. ActionsGiven'
  BY DEF IInv, ActionsGiven, Unbound
<1>2. GivenActions'
  BY DEF IInv, GivenActions, Alone
<1> QED BY <1>1, <1>2 DEF IInv, TypeOK

\* An append to the list of inputs, to the default container or after the others.
LEMMA FieldAppended ==
  ASSUME IInv, NEW f \in Field, Len(fields) < MaxFields,
         fields' = Append(fields, f), asked' = Append(asked, f.group), missed' = missed
  PROVE  /\ fields' \in Seq(Field) /\ Len(fields') <= MaxFields
         /\ asked' \in Seq(Groups \cup {None}) /\ Len(asked') = Len(fields')
         /\ missed' \subseteq Places
         /\ AskedKept' /\ \A id, p : Fits(fields, id, p) => Fits(fields', id, p)
<1>1. /\ fields \in Seq(Field) /\ asked \in Seq(Groups \cup {None}) /\ Len(asked) = Len(fields)
      /\ missed \subseteq Places /\ AskedKept
  BY DEF IInv, TypeOK
<1>2. f.group \in Groups \cup {None}
  BY DEF Field
<1> DEFINE n == Len(fields) + 1
<1>3. Grown(fields', fields, n, f) /\ fields' \in Seq(Field)
  BY <1>1, Appended
<1>4. Grown(asked', asked, n, f.group) /\ asked' \in Seq(Groups \cup {None})
  <2> DEFINE S == Groups \cup {None}
             g == f.group
  <2>1. asked \in Seq(S) /\ g \in S /\ asked' = Append(asked, g)
    BY <1>1, <1>2
  <2> HIDE DEF S, g
  <2>2. Append(asked, g) \in Seq(S) /\ Grown(Append(asked, g), asked, Len(asked) + 1, g)
    BY <2>1, Appended
  <2> QED BY <1>1, <2>1, <2>2 DEF S, g
<1>5. Len(fields') = n /\ Len(asked') = n /\ Len(fields) \in Nat /\ DOMAIN fields = 1..Len(fields)
      /\ DOMAIN asked = 1..Len(fields)
  BY <1>1, <1>2, AppendProperties, LenProperties
<1>6. n <= MaxFields
  BY <1>5, FieldsAssumption
<1>7. AskedKept'
  <2> SUFFICES ASSUME NEW i \in DOMAIN fields', i \notin missed
               PROVE  fields'[i].group = asked'[i]
    BY DEF AskedKept
  <2>1. CASE i = n
    BY <1>3, <1>4, <2>1 DEF Grown
  <2>2. CASE i # n
    <3>1. i \in DOMAIN fields /\ i \in DOMAIN asked
      BY <1>3, <1>5, <2>2 DEF Grown
    <3> QED BY <1>1, <1>3, <1>4, <3>1 DEF Grown, AskedKept
  <2> QED BY <2>1, <2>2
<1>8. \A id, p : Fits(fields, id, p) => Fits(fields', id, p)
  BY <1>1, AppendFits
<1> QED BY <1>1, <1>3, <1>4, <1>5, <1>6, <1>7, <1>8

LEMMA SliceGrown ==
  ASSUME IInv, NEW f \in Field, AppendField(f)
  PROVE  /\ Len(fields) < MaxFields
         /\ fields' = Append(fields, f) /\ asked' = Append(asked, f.group)
         /\ length' \in Nat /\ cap' \in Nat /\ length' <= cap'
<1>1. length \in Nat /\ cap \in Nat /\ length <= cap
  BY DEF IInv, TypeOK
<1>2. /\ length' = length + 1
      /\ cap' = IF length < cap THEN cap ELSE IF cap = 0 THEN 1 ELSE 2 * cap
  BY DEF AppendField
<1>3. length' \in Nat /\ cap' \in Nat /\ length' <= cap'
  BY <1>1, <1>2
<1> QED BY <1>3 DEF AppendField

\* The handles the page keeps are those it had, detached or not.
LEMMA KeptAre ==
  ASSUME IInv, \A id, p : Fits(fields, id, p) => Fits(fields', id, p)
  PROVE  \A h \in Kept : h \in Handle /\ (h.place # 0 => Fits(fields', h.id, h.place))
<1> SUFFICES ASSUME NEW h \in Kept
             PROVE  h \in Handle /\ (h.place # 0 => Fits(fields', h.id, h.place))
  OBVIOUS
<1>1. handles \subseteq Handle /\ HandlesFit
  BY DEF IInv, TypeOK
<1>2. h \in handles \/ \E g \in handles : h = [g EXCEPT !.attached = FALSE]
  BY DEF Kept, Detached
<1>3. \E g \in handles : h.id = g.id /\ h.place = g.place /\ h \in Handle
  <2>1. CASE h \in handles
    BY <1>1, <2>1
  <2>2. ASSUME NEW g \in handles, h = [g EXCEPT !.attached = FALSE]
        PROVE  h.id = g.id /\ h.place = g.place /\ h \in Handle
    <3>1. g \in Handle
      BY <1>1
    <3> QED BY <2>2, <3>1 DEF Handle
  <2> QED BY <1>2, <2>1, <2>2
<1> QED BY <1>1, <1>3 DEF HandlesFit

LEMMA ObtainedFit ==
  ASSUME fields' \in Seq(Field), Len(fields') <= MaxFields, NEW key \in Keys, NEW hs, Obtain(hs, key),
         \A h \in hs : h \in Handle /\ (h.place # 0 => Fits(fields', h.id, h.place))
  PROVE  handles' \subseteq Handle /\ HandlesFit'
<1> DEFINE id == key[2]
           type == key[1]
<1>1. id \in Controls /\ type \in Types
  BY KeysAre
<1>2. handles' \subseteq hs \cup Get(id, type)
  BY DEF Obtain
<1> HIDE DEF id, type
<1>3. \A h \in Get(id, type) : h \in Handle /\ Fits(fields', h.id, h.place)
  BY <1>1, GetIs
<1>4. \A h \in handles' : h \in Handle /\ (h.place # 0 => Fits(fields', h.id, h.place))
  BY <1>2, <1>3
<1> QED BY <1>4 DEF HandlesFit

-----------------------------------------------------------------------------
(* The builder calls.                                                      *)

LEMMA CreateFormInv ==
  ASSUME IInv, CreateForm
  PROVE  IInv'
<1>1. PICK form \in Literals : fields' = form.fields /\ actions' = form.actions
  BY DEF CreateForm
<1> DEFINE mains == {i \in DOMAIN fields' : fields'[i].main}
<1>2. /\ stage = "building" /\ stage' = "building"
      /\ length' = Cardinality(mains) /\ cap' = length'
      /\ asked' = [i \in DOMAIN fields' |-> fields'[i].group]
      /\ missed' = {} /\ heard' = {}
      /\ given' = {<<<<a.component, a.id>>, a.trigger>> : a \in Range(actions')} \cap (Keys \X Triggers)
      /\ handles' = {[h EXCEPT !.place = 0, !.attached = FALSE] : h \in handles}
      /\ handlers' = LeftListeners
  BY DEF CreateForm, Building
<1>3. /\ fields' \in Seq(Field) /\ Len(fields') <= MaxFields
      /\ actions' \in Seq(Action) /\ \A a \in Range(actions') : ~a.bound
  BY <1>1, LiteralsAssumption
<1>4. Len(fields') \in Nat /\ DOMAIN fields' = 1..Len(fields') /\ fields' \in [1..Len(fields') -> Field]
  BY <1>3, LenProperties
<1>5. length' \in Nat /\ cap' \in Nat /\ length' <= cap'
  <2>1. IsFiniteSet(1..Len(fields')) /\ mains \subseteq 1..Len(fields')
    BY <1>4, FS_Interval
  <2> HIDE DEF mains
  <2>2. IsFiniteSet(mains)
    BY <2>1, FS_Subset
  <2> DEFINE n == Cardinality(mains)
  <2>3. n \in Nat /\ length' = n /\ cap' = n
    BY <1>2, <2>2, FS_CardinalityType
  <2> HIDE DEF n
  <2> QED BY <2>3
<1> HIDE DEF mains
<1>6. asked' \in Seq(Groups \cup {None}) /\ Len(asked') = Len(fields')
  <2>1. \A i \in 1..Len(fields') : fields'[i].group \in Groups \cup {None}
    BY <1>4 DEF Field
  <2>2. asked' \in [1..Len(fields') -> Groups \cup {None}]
    BY <1>2, <1>4, <2>1
  <2>3. asked' \in Seq(Groups \cup {None})
    BY <1>4, <2>2
  <2> QED BY <1>4, <2>2, <2>3, LenProperties
<1>7. handles' \subseteq Handle /\ HandlesFit'
  <2> SUFFICES ASSUME NEW g \in handles' PROVE g \in Handle /\ g.place = 0
    BY DEF HandlesFit
  <2>1. PICK h \in handles : g = [h EXCEPT !.place = 0, !.attached = FALSE]
    BY <1>2
  <2>2. h \in Handle /\ 0 \in Places
    BY FieldsAssumption DEF IInv, TypeOK, Places
  <2> QED BY <2>1, <2>2 DEF Handle
<1>8. handlers' \in [Keys -> Listener \cup {None}] /\ ListenersFit'
  <2>1. \A key \in Keys :
          LET h == LeftListeners[key] IN h \in Listener \cup {None} /\ (h # None => h.place = 0)
    <3> SUFFICES ASSUME NEW key \in Keys
                 PROVE  /\ LeftListeners[key] \in Listener \cup {None}
                        /\ LeftListeners[key] # None => LeftListeners[key].place = 0
      OBVIOUS
    <3> DEFINE l == handlers[key]
    <3>1. LeftListeners[key] = IF l = None \/ l.place = 0 THEN l
                               ELSE [l EXCEPT !.place = 0, !.left = asked[l.place]]
      BY DEF LeftListeners
    <3>2. l \in Listener \cup {None}
      BY DEF IInv, TypeOK
    <3>3. l # None /\ l.place # 0 => asked[l.place] \in Groups \cup {None}
      <4> SUFFICES ASSUME l # None, l.place # 0 PROVE asked[l.place] \in Groups \cup {None}
        OBVIOUS
      <4>1. fields \in Seq(Field) /\ asked \in Seq(Groups \cup {None}) /\ Len(asked) = Len(fields)
        BY DEF IInv, TypeOK
      <4>2. Fits(fields, key[2], l.place)
        BY DEF IInv, ListenersFit
      <4>3. l.place \in 1..Len(asked)
        BY <4>1, <4>2, PlacesAre DEF Fits
      <4> HIDE DEF l
      <4> QED BY <4>1, <4>3, ElementOfSeq
    <3> HIDE DEF l
    <3>4. CASE l = None \/ l.place = 0
      BY <3>1, <3>2, <3>4
    <3>5. CASE l # None /\ l.place # 0
      <4> DEFINE g == asked[l.place]
                 new == [l EXCEPT !.place = 0, !.left = g]
      <4>1. l \in Listener /\ g \in Groups \cup {None} /\ 0 \in Places
        BY <3>2, <3>3, <3>5, FieldsAssumption DEF Places
      <4> HIDE DEF g
      <4>2. new \in Listener /\ new.place = 0
        BY <4>1 DEF Listener
      <4>3. LeftListeners[key] = new
        BY <3>1, <3>5 DEF g
      <4> QED BY <4>2, <4>3
    <3> QED BY <3>4, <3>5
  <2>2. LeftListeners = [key \in Keys |-> LeftListeners[key]]
    BY DEF LeftListeners
  <2>3. LeftListeners \in [Keys -> Listener \cup {None}]
    BY <2>1, <2>2
  <2> QED BY <1>2, <2>1, <2>3 DEF ListenersFit
<1>9. AskedKept'
  BY <1>2 DEF AskedKept
<1>10. HeardKept'
  BY <1>2 DEF HeardKept
<1>11. ASSUME NEW a \in Range(actions'), a.component # None
       PROVE  <<<<a.component, a.id>>, a.trigger>> \in given'
  <2>1. a \in Action
    BY <1>3, ElementOfSeq, LenProperties DEF Range
  <2>2. <<<<a.component, a.id>>, a.trigger>> \in Keys \X Triggers
    BY <1>11, <2>1 DEF Action, Keys
  <2> QED BY <1>2, <2>2
<1>12. ActionsGiven'
  BY <1>3, <1>11 DEF ActionsGiven, Unbound
<1>13. GivenActions'
  <2> SUFFICES ASSUME NEW key \in Keys, NEW t \in Triggers, <<key, t>> \in given'
               PROVE  HasAction(actions', key)
    BY DEF GivenActions
  <2>1. PICK a \in Range(actions') : <<<<a.component, a.id>>, a.trigger>> = <<key, t>>
    BY <1>2
  <2>2. key = <<a.component, a.id>>
    BY <2>1
  <2> QED BY <2>2 DEF HasAction, Of
<1>14. given' \subseteq Keys \X Triggers /\ missed' \subseteq Places
  BY <1>2
<1>15. TypeOK'
  BY <1>2, <1>3, <1>5, <1>6, <1>7, <1>8, <1>14 DEF TypeOK
<1> QED BY <1>2, <1>7, <1>8, <1>9, <1>10, <1>12, <1>13, <1>15, NotYetDelivered DEF IInv

LEMMA AddContainerInv ==
  ASSUME IInv, AddContainer
  PROVE  IInv'
<1>1. PICK field \in OwnInputs :
        /\ fields' = Append(fields, field) /\ asked' = Append(asked, field.group)
        /\ IF field.main THEN length' = 1 /\ cap' = 1 ELSE UNCHANGED <<length, cap>>
  BY DEF AddContainer
<1>2. field \in Field
  BY LiteralsAssumption
<1>3. /\ stage = "building" /\ Len(fields) < MaxFields
      /\ UNCHANGED <<stage, handles, actions, handlers, given, heard, missed>>
  BY DEF AddContainer, Building
<1>4. /\ fields' \in Seq(Field) /\ Len(fields') <= MaxFields
      /\ asked' \in Seq(Groups \cup {None}) /\ Len(asked') = Len(fields')
      /\ missed' \subseteq Places
      /\ AskedKept' /\ \A id, p : Fits(fields, id, p) => Fits(fields', id, p)
  BY <1>1, <1>2, <1>3, FieldAppended
<1>5. length' \in Nat /\ cap' \in Nat /\ length' <= cap'
  BY <1>1 DEF IInv, TypeOK
<1>6. /\ handlers' \in [Keys -> Listener \cup {None}] /\ heard' \subseteq Keys \X Triggers
      /\ ListenersFit' /\ HeardKept'
  BY <1>3, <1>4, HandlersAlone
<1>7. /\ stage' = "building" /\ actions' \in Seq(Action) /\ given' \subseteq Keys \X Triggers
      /\ ActionsGiven' /\ GivenActions'
  BY <1>3, ActionsAlone
<1>8. handles' \subseteq Handle /\ HandlesFit'
  BY <1>3, <1>4 DEF IInv, TypeOK, HandlesFit
<1>9. TypeOK'
  BY <1>4, <1>5, <1>6, <1>7, <1>8 DEF TypeOK
<1> QED BY <1>4, <1>6, <1>7, <1>8, <1>9, NotYetDelivered DEF IInv

LEMMA AddInputInv ==
  ASSUME IInv, AddInput
  PROVE  IInv'
<1>1. PICK field \in OwnInputs : AppendField(field)
  BY DEF AddInput
<1>2. field \in Field
  BY LiteralsAssumption
<1>3. /\ stage = "building" /\ handles' = Kept
      /\ UNCHANGED <<stage, actions, handlers, given, heard, missed>>
  BY DEF AddInput, Building
<1>4. /\ Len(fields) < MaxFields
      /\ fields' = Append(fields, field) /\ asked' = Append(asked, field.group)
      /\ length' \in Nat /\ cap' \in Nat /\ length' <= cap'
  BY <1>1, <1>2, SliceGrown
<1>5. /\ fields' \in Seq(Field) /\ Len(fields') <= MaxFields
      /\ asked' \in Seq(Groups \cup {None}) /\ Len(asked') = Len(fields')
      /\ missed' \subseteq Places
      /\ AskedKept' /\ \A id, p : Fits(fields, id, p) => Fits(fields', id, p)
  BY <1>2, <1>3, <1>4, FieldAppended
<1>6. /\ handlers' \in [Keys -> Listener \cup {None}] /\ heard' \subseteq Keys \X Triggers
      /\ ListenersFit' /\ HeardKept'
  BY <1>3, <1>5, HandlersAlone
<1>7. /\ stage' = "building" /\ actions' \in Seq(Action) /\ given' \subseteq Keys \X Triggers
      /\ ActionsGiven' /\ GivenActions'
  BY <1>3, ActionsAlone
<1>8. handles' \subseteq Handle /\ HandlesFit'
  BY <1>3, <1>5, KeptAre DEF HandlesFit
<1>9. TypeOK'
  BY <1>4, <1>5, <1>6, <1>7, <1>8 DEF TypeOK
<1> QED BY <1>5, <1>6, <1>7, <1>8, <1>9, NotYetDelivered DEF IInv

LEMMA NewFieldIs ==
  ASSUME NEW key \in Keys
  PROVE  NewField(key[1], key[2]) \in Field
  BY KeysAre DEF NewField, Field

LEMMA AddFieldInv ==
  ASSUME IInv, AddField
  PROVE  IInv'
<1>1. PICK key \in Keys : AppendField(NewField(key[1], key[2])) /\ Obtain(Kept, key)
  BY DEF AddField
<1> DEFINE field == NewField(key[1], key[2])
<1>2. field \in Field /\ AppendField(field)
  BY <1>1, NewFieldIs
<1> HIDE DEF field
<1>3. stage = "building" /\ UNCHANGED <<stage, actions, handlers, given, heard, missed>>
  BY DEF AddField, Building
<1>4. /\ Len(fields) < MaxFields
      /\ fields' = Append(fields, field) /\ asked' = Append(asked, field.group)
      /\ length' \in Nat /\ cap' \in Nat /\ length' <= cap'
  BY <1>2, SliceGrown
<1>5. /\ fields' \in Seq(Field) /\ Len(fields') <= MaxFields
      /\ asked' \in Seq(Groups \cup {None}) /\ Len(asked') = Len(fields')
      /\ missed' \subseteq Places
      /\ AskedKept' /\ \A id, p : Fits(fields, id, p) => Fits(fields', id, p)
  BY <1>2, <1>3, <1>4, FieldAppended
<1>6. /\ handlers' \in [Keys -> Listener \cup {None}] /\ heard' \subseteq Keys \X Triggers
      /\ ListenersFit' /\ HeardKept'
  BY <1>3, <1>5, HandlersAlone
<1>7. /\ stage' = "building" /\ actions' \in Seq(Action) /\ given' \subseteq Keys \X Triggers
      /\ ActionsGiven' /\ GivenActions'
  BY <1>3, ActionsAlone
<1>8. handles' \subseteq Handle /\ HandlesFit'
  <2>1. \A h \in Kept : h \in Handle /\ (h.place # 0 => Fits(fields', h.id, h.place))
    BY <1>5, KeptAre
  <2> QED BY <1>1, <1>5, <2>1, ObtainedFit
<1>9. TypeOK'
  BY <1>4, <1>5, <1>6, <1>7, <1>8 DEF TypeOK
<1> QED BY <1>5, <1>6, <1>7, <1>8, <1>9, NotYetDelivered DEF IInv

\* An action of a key, or of none, is appended.
LEMMA ActionAppended ==
  ASSUME IInv, stage = "building", stage' = "building",
         NEW new \in Action, ~new.bound, actions' = Append(actions, new),
         given' = given \cup ({<<<<new.component, new.id>>, new.trigger>>} \cap (Keys \X Triggers))
  PROVE  /\ actions' \in Seq(Action) /\ given' \subseteq Keys \X Triggers
         /\ ActionsGiven' /\ GivenActions'
<1>1. TypeOK /\ ActionsGiven /\ GivenActions
  BY DEF IInv
<1>2. actions \in Seq(Action) /\ given \subseteq Keys \X Triggers
  BY <1>1 DEF TypeOK
<1>3. actions' \in Seq(Action) /\ Range(actions') = Range(actions) \cup {new}
  BY <1>2, Appended, AppendRange
<1>4. new.component # None => <<<<new.component, new.id>>, new.trigger>> \in given'
  BY DEF Action, Keys
<1>5. ActionsGiven'
  BY <1>1, <1>3, <1>4 DEF ActionsGiven, Unbound
<1>6. GivenActions'
  <2> SUFFICES ASSUME NEW key \in Keys, NEW t \in Triggers, <<key, t>> \in given', Alone(key)'
               PROVE  HasAction(actions', key)
    BY DEF GivenActions
  <2>1. CASE <<key, t>> \in given
    <3>1. Alone(key)
      BY DEF Alone
    <3>2. HasAction(actions, key)
      BY <1>1, <2>1, <3>1 DEF GivenActions
    <3> QED BY <1>3, <3>2 DEF HasAction
  <2>2. CASE <<key, t>> = <<<<new.component, new.id>>, new.trigger>>
    <3>1. key = <<new.component, new.id>>
      BY <2>2
    <3> QED BY <1>3, <3>1 DEF HasAction, Of
  <2> QED BY <2>1, <2>2
<1> QED BY <1>2, <1>3, <1>5, <1>6

LEMMA ButtonInv ==
  ASSUME IInv, Button
  PROVE  IInv'
<1>1. PICK id \in Controls :
        /\ AppendField(NewField("button", id))
        /\ actions' = Append(actions, FormAction(<<"button", id>>, "click", FALSE))
        /\ given' = given \cup {<<<<"button", id>>, "click">>}
        /\ Obtain(Kept, <<"button", id>>)
  BY DEF Button
<1> DEFINE key == <<"button", id>>
           new == FormAction(key, "click", FALSE)
           field == NewField(key[1], key[2])
<1>2. key \in Keys /\ key[1] = "button" /\ key[2] = id /\ key = <<key[1], key[2]>>
  BY ButtonAssumption DEF Keys
<1>3. /\ stage = "building" /\ UNCHANGED <<stage, handlers, heard, missed>>
      /\ AppendField(field) /\ actions' = Append(actions, new)
      /\ given' = given \cup {<<key, "click">>} /\ Obtain(Kept, key)
  BY <1>1, <1>2 DEF Button, Building
<1>4. /\ new \in Action
      /\ new.id = key[2] /\ new.component = key[1] /\ new.trigger = "click" /\ ~new.bound
  BY <1>2, GivenIs DEF Triggers
<1>5. field \in Field
  BY <1>2, NewFieldIs
<1> HIDE DEF key, new, field
<1>6. given' = given \cup ({<<<<new.component, new.id>>, new.trigger>>} \cap (Keys \X Triggers))
  BY <1>2, <1>3, <1>4 DEF Triggers
<1>7. /\ Len(fields) < MaxFields
      /\ fields' = Append(fields, field) /\ asked' = Append(asked, field.group)
      /\ length' \in Nat /\ cap' \in Nat /\ length' <= cap'
  BY <1>3, <1>5, SliceGrown
<1>8. /\ fields' \in Seq(Field) /\ Len(fields') <= MaxFields
      /\ asked' \in Seq(Groups \cup {None}) /\ Len(asked') = Len(fields')
      /\ missed' \subseteq Places
      /\ AskedKept' /\ \A i, p : Fits(fields, i, p) => Fits(fields', i, p)
  BY <1>3, <1>5, <1>7, FieldAppended
<1>9. /\ handlers' \in [Keys -> Listener \cup {None}] /\ heard' \subseteq Keys \X Triggers
      /\ ListenersFit' /\ HeardKept'
  BY <1>3, <1>8, HandlersAlone
<1>10. /\ actions' \in Seq(Action) /\ given' \subseteq Keys \X Triggers
       /\ ActionsGiven' /\ GivenActions'
  BY <1>3, <1>4, <1>6, ActionAppended
<1>11. handles' \subseteq Handle /\ HandlesFit'
  <2>1. \A h \in Kept : h \in Handle /\ (h.place # 0 => Fits(fields', h.id, h.place))
    BY <1>8, KeptAre
  <2> QED BY <1>2, <1>3, <1>8, <2>1, ObtainedFit
<1>12. TypeOK'
  BY <1>3, <1>7, <1>8, <1>9, <1>10, <1>11 DEF TypeOK
<1> QED BY <1>3, <1>8, <1>9, <1>10, <1>11, <1>12, NotYetDelivered DEF IInv

LEMMA AddActionInv ==
  ASSUME IInv, AddAction
  PROVE  IInv'
<1>1. PICK id \in Controls, component \in Types \cup {None}, t \in Triggers :
        /\ actions' = Append(actions, FormAction(<<component, id>>, t, FALSE))
        /\ given' = given \cup ({<<<<component, id>>, t>>} \cap (Keys \X Triggers))
  BY DEF AddAction
<1> DEFINE new == FormAction(<<component, id>>, t, FALSE)
<1>2. /\ new \in Action /\ ~new.bound
      /\ new.component = component /\ new.id = id /\ new.trigger = t
  BY DEF FormAction, Action
<1>3. actions' = Append(actions, new)
  BY <1>1
<1> HIDE DEF new
<1>4. /\ stage = "building"
      /\ UNCHANGED <<stage, fields, length, cap, handles, handlers, heard, asked, missed>>
  BY DEF AddAction, Building
<1>5. /\ actions' \in Seq(Action) /\ given' \subseteq Keys \X Triggers
      /\ ActionsGiven' /\ GivenActions'
  <2>1. given' = given \cup ({<<<<new.component, new.id>>, new.trigger>>} \cap (Keys \X Triggers))
    BY <1>1, <1>2
  <2> QED BY <1>2, <1>3, <1>4, <2>1, ActionAppended
<1>6. /\ fields' \in Seq(Field) /\ Len(fields') <= MaxFields
      /\ length' \in Nat /\ cap' \in Nat /\ length' <= cap'
      /\ asked' \in Seq(Groups \cup {None}) /\ Len(asked') = Len(fields')
      /\ missed' \subseteq Places
      /\ AskedKept' /\ \A i, p : Fits(fields, i, p) => Fits(fields', i, p)
  BY <1>4, FieldsAlone
<1>7. /\ handlers' \in [Keys -> Listener \cup {None}] /\ heard' \subseteq Keys \X Triggers
      /\ ListenersFit' /\ HeardKept'
  BY <1>1, <1>4, <1>6, HandlersAlone
<1>8. handles' \subseteq Handle /\ HandlesFit'
  BY <1>4, <1>6 DEF IInv, TypeOK, HandlesFit
<1>9. TypeOK'
  BY <1>4, <1>5, <1>6, <1>7, <1>8 DEF TypeOK
<1> QED BY <1>4, <1>5, <1>6, <1>7, <1>8, <1>9, NotYetDelivered DEF IInv

LEMMA GetByIdInv ==
  ASSUME IInv, GetById
  PROVE  IInv'
<1>1. PICK field \in Range(fields) : Obtain(handles, <<field.type, field.id>>)
  BY DEF GetById
<1>2. /\ stage = "building"
      /\ UNCHANGED <<stage, fields, length, cap, actions, handlers, given, heard, asked, missed>>
  BY DEF GetById, Building
<1> DEFINE key == <<field.type, field.id>>
<1>3. key \in Keys
  <2>1. fields \in Seq(Field)
    BY DEF IInv, TypeOK
  <2>2. field \in Field
    BY <2>1, ElementOfSeq, LenProperties DEF Range
  <2> QED BY <2>2 DEF Field, Keys
<1>4. Obtain(handles, key)
  BY <1>1
<1> HIDE DEF key
<1>5. /\ fields' \in Seq(Field) /\ Len(fields') <= MaxFields
      /\ length' \in Nat /\ cap' \in Nat /\ length' <= cap'
      /\ asked' \in Seq(Groups \cup {None}) /\ Len(asked') = Len(fields')
      /\ missed' \subseteq Places
      /\ AskedKept' /\ \A i, p : Fits(fields, i, p) => Fits(fields', i, p)
  BY <1>2, FieldsAlone
<1>6. /\ handlers' \in [Keys -> Listener \cup {None}] /\ heard' \subseteq Keys \X Triggers
      /\ ListenersFit' /\ HeardKept'
  BY <1>2, <1>5, HandlersAlone
<1>7. /\ stage' = "building" /\ actions' \in Seq(Action) /\ given' \subseteq Keys \X Triggers
      /\ ActionsGiven' /\ GivenActions'
  BY <1>2, ActionsAlone
<1>8. handles' \subseteq Handle /\ HandlesFit'
  <2>1. \A h \in handles : h \in Handle /\ (h.place # 0 => Fits(fields', h.id, h.place))
    BY <1>5 DEF IInv, TypeOK, HandlesFit
  <2> QED BY <1>3, <1>4, <1>5, <2>1, ObtainedFit
<1>9. TypeOK'
  BY <1>5, <1>6, <1>7, <1>8 DEF TypeOK
<1> QED BY <1>5, <1>6, <1>7, <1>8, <1>9, NotYetDelivered DEF IInv

LEMMA AccessInv ==
  ASSUME IInv, Access
  PROVE  IInv'
<1>1. PICK handle \in handles, group \in Groups :
        /\ handle.place # 0
        /\ asked' = [asked EXCEPT ![handle.place] = group]
        /\ IF handle.attached
           THEN /\ fields' = [fields EXCEPT ![handle.place].group = group]
                /\ missed' = missed \ {handle.place}
           ELSE /\ missed' = missed \cup {handle.place}
                /\ UNCHANGED fields
  BY DEF Access
<1>2. /\ stage = "building"
      /\ UNCHANGED <<stage, length, cap, handles, actions, handlers, given, heard>>
  BY DEF Access, Building
<1>3. /\ fields \in Seq(Field) /\ asked \in Seq(Groups \cup {None}) /\ Len(asked) = Len(fields)
      /\ Len(fields) <= MaxFields /\ missed \subseteq Places /\ handle \in Handle
      /\ AskedKept /\ HandlesFit
  BY DEF IInv, TypeOK
<1> DEFINE p == handle.place
<1>4. p \in DOMAIN fields /\ p \in Places
  <2>1. Fits(fields, handle.id, p)
    BY <1>1, <1>3 DEF HandlesFit
  <2>2. p \in Places
    BY <1>3 DEF Handle
  <2> QED BY <1>3, <2>1, <2>2, PlacesAre DEF Fits
<1>5. /\ asked' = [asked EXCEPT ![p] = group]
      /\ \/ fields' = [fields EXCEPT ![p].group = group] /\ missed' = missed \ {p}
         \/ fields' = fields /\ missed' = missed \cup {p}
  BY <1>1
<1> HIDE DEF p
<1>6. DOMAIN asked = DOMAIN fields
  BY <1>3, LenProperties
<1>7. asked' \in Seq(Groups \cup {None}) /\ Len(asked') = Len(fields)
  <2>1. asked \in [1..Len(asked) -> Groups \cup {None}] /\ Len(asked) \in Nat
    BY <1>3, LenProperties
  <2>2. asked' \in [1..Len(asked) -> Groups \cup {None}]
    BY <1>5, <2>1
  <2>3. asked' \in Seq(Groups \cup {None})
    BY <2>1, <2>2
  <2> QED BY <1>3, <2>1, <2>2, <2>3, LenProperties
<1>8. asked'[p] = group /\ \A i \in DOMAIN fields : i # p => asked'[i] = asked[i]
  BY <1>4, <1>5, <1>6
<1>9. /\ fields' \in Seq(Field) /\ Len(fields') = Len(fields)
      /\ \A id, q : Fits(fields, id, q) => Fits(fields', id, q)
      /\ p \notin missed' => fields'[p].group = group
      /\ \A i \in DOMAIN fields : i # p => fields'[i] = fields[i] /\ (i \in missed' <=> i \in missed)
  <2>1. CASE fields' = [fields EXCEPT ![p].group = group] /\ missed' = missed \ {p}
    <3> DEFINE o == fields'
    <3>1. o = Regrouped(fields, p, group)
      BY <2>1 DEF Regrouped
    <3> HIDE DEF o
    <3>2. /\ o \in Seq(Field) /\ Len(o) = Len(fields)
          /\ \A id, q : Fits(fields, id, q) => Fits(o, id, q)
          /\ o[p].group = group
          /\ \A i \in DOMAIN fields : i # p => o[i] = fields[i]
      BY <1>3, <1>4, <3>1, GroupSet
    <3> QED BY <2>1, <3>2 DEF o
  <2>2. CASE fields' = fields /\ missed' = missed \cup {p}
    BY <1>3, <2>2
  <2> QED BY <1>5, <2>1, <2>2
<1>10. AskedKept'
  <2>1. DOMAIN fields' = DOMAIN fields
    BY <1>3, <1>9, LenProperties
  <2> SUFFICES ASSUME NEW i \in DOMAIN fields, i \notin missed' PROVE fields'[i].group = asked'[i]
    BY <2>1 DEF AskedKept
  <2>2. CASE i = p
    BY <1>8, <1>9, <2>2
  <2>3. CASE i # p
    BY <1>3, <1>8, <1>9, <2>3 DEF AskedKept
  <2> QED BY <2>2, <2>3
<1>11. missed' \subseteq Places
  BY <1>3, <1>4, <1>5
<1>12. /\ handlers' \in [Keys -> Listener \cup {None}] /\ heard' \subseteq Keys \X Triggers
       /\ ListenersFit' /\ HeardKept'
  BY <1>2, <1>9, HandlersAlone
<1>13. /\ stage' = "building" /\ actions' \in Seq(Action) /\ given' \subseteq Keys \X Triggers
       /\ ActionsGiven' /\ GivenActions'
  BY <1>2, ActionsAlone
<1>14. handles' \subseteq Handle /\ HandlesFit'
  BY <1>2, <1>3, <1>9 DEF IInv, TypeOK, HandlesFit
<1>15. TypeOK'
  BY <1>2, <1>3, <1>7, <1>9, <1>11, <1>12, <1>13, <1>14 DEF IInv, TypeOK
<1> QED BY <1>10, <1>12, <1>13, <1>14, <1>15, NotYetDelivered DEF IInv

LEMMA OnEventInv ==
  ASSUME IInv, OnEvent
  PROVE  IInv'
<1>1. PICK handle \in handles, t \in Triggers :
        /\ Listen(<<handle.type, handle.id>>, [trigger |-> t, place |-> handle.place, left |-> None])
        /\ given' = given \cup {<<<<handle.type, handle.id>>, t>>}
        /\ heard' = heard \cup {<<<<handle.type, handle.id>>, t>>}
  BY DEF OnEvent
<1>2. /\ stage = "building"
      /\ UNCHANGED <<stage, fields, length, cap, handles, asked, missed>>
  BY DEF OnEvent, Building
<1>3. TypeOK /\ HandlesFit /\ ListenersFit /\ HeardKept /\ ActionsGiven /\ GivenActions
  BY DEF IInv
<1> DEFINE key == <<handle.type, handle.id>>
           new == FormAction(key, t, FALSE)
           listener == [trigger |-> t, place |-> handle.place, left |-> None]
<1>4. key \in Keys /\ key = <<key[1], key[2]>> /\ key[2] = handle.id
  BY <1>3 DEF TypeOK, Handle, Keys
<1>5. listener \in Listener /\ listener.trigger = t /\ listener.place = handle.place
  BY <1>3 DEF TypeOK, Handle, Listener
<1>6. listener # None
  BY <1>5, NoListenerAssumption
<1>7. /\ handlers' = [handlers EXCEPT ![key] = listener]
      /\ actions' = Upsert(actions, new)
      /\ given' = given \cup {<<key, t>>} /\ heard' = heard \cup {<<key, t>>}
  BY <1>1 DEF Listen
<1>8. /\ new \in Action
      /\ new.id = key[2] /\ new.component = key[1] /\ new.trigger = t /\ ~new.bound
  BY <1>4, GivenIs
<1>9. listener.place # 0 => Fits(fields, key[2], listener.place)
  BY <1>3, <1>4, <1>5 DEF HandlesFit
<1> HIDE DEF key, new, listener
<1>10. /\ actions \in Seq(Action) /\ handlers \in [Keys -> Listener \cup {None}]
       /\ given \subseteq Keys \X Triggers /\ heard \subseteq Keys \X Triggers
  BY <1>3 DEF TypeOK
<1>11. actions' \in Seq(Action)
  BY <1>7, <1>8, <1>10, UpsertMerges
<1>12. Range(actions') = {a \in Range(actions) : ~SameAction(a, new)} \cup {new}
  BY <1>7, <1>8, <1>10, UpsertRange
<1>13. /\ handlers' \in [Keys -> Listener \cup {None}]
       /\ handlers'[key] = listener /\ \A k \in Keys : k # key => handlers'[k] = handlers[k]
  BY <1>4, <1>5, <1>7, <1>10
<1>14. given' \subseteq Keys \X Triggers /\ heard' \subseteq Keys \X Triggers
  BY <1>4, <1>7, <1>10
<1>15. /\ fields' \in Seq(Field) /\ Len(fields') <= MaxFields
       /\ length' \in Nat /\ cap' \in Nat /\ length' <= cap'
       /\ asked' \in Seq(Groups \cup {None}) /\ Len(asked') = Len(fields')
       /\ missed' \subseteq Places
       /\ AskedKept' /\ \A i, p : Fits(fields, i, p) => Fits(fields', i, p)
  BY <1>2, FieldsAlone
<1>16. handles' \subseteq Handle /\ HandlesFit'
  BY <1>2, <1>3, <1>15 DEF TypeOK, HandlesFit
<1>17. TypeOK'
  BY <1>2, <1>3, <1>11, <1>13, <1>14, <1>15, <1>16 DEF TypeOK
<1>18. ListenersFit'
  <2> SUFFICES ASSUME NEW k \in Keys, handlers'[k] # None, handlers'[k].place # 0
               PROVE  Fits(fields', k[2], handlers'[k].place)
    BY DEF ListenersFit
  <2>1. CASE k = key
    BY <1>2, <1>9, <1>13, <2>1
  <2>2. CASE k # key
    BY <1>2, <1>3, <1>13, <2>2 DEF ListenersFit
  <2> QED BY <2>1, <2>2
<1>19. HeardKept'
  <2> SUFFICES ASSUME NEW k \in Keys, NEW u \in Triggers, <<k, u>> \in heard'
               PROVE  /\ <<k, u>> \in given'
                      /\ handlers'[k] # None /\ <<k, handlers'[k].trigger>> \in heard'
    BY DEF HeardKept
  <2>1. <<k, u>> \in given'
    BY <1>3, <1>7 DEF HeardKept
  <2>2. CASE k = key
    BY <1>5, <1>6, <1>7, <1>13, <2>1, <2>2 DEF listener
  <2>3. CASE k # key
    <3>1. <<k, u>> \in heard
      BY <1>7, <2>3
    <3> QED BY <1>3, <1>7, <1>13, <2>1, <2>3, <3>1 DEF HeardKept
  <2> QED BY <2>2, <2>3
<1>20. ActionsGiven'
  BY <1>2, <1>3, <1>4, <1>7, <1>8, <1>12 DEF ActionsGiven, Unbound
<1>21. ASSUME NEW k \in Keys, NEW u \in Triggers, <<k, u>> \in given', Alone(k)'
       PROVE  HasAction(actions', k)
  <2>1. CASE k = key
    BY <1>8, <1>12, <2>1 DEF HasAction, Of
  <2>2. CASE k # key
    <3> DEFINE g == <<key, t>>
    <3>1. k[2] # key[2]
      <4>1. g \in given' /\ g[1] = key
        BY <1>7
      <4> HIDE DEF g
      <4> QED BY <1>21, <2>2, <4>1 DEF Alone
    <3>2. <<k, u>> \in given /\ Alone(k)
      BY <1>7, <1>21, <2>2 DEF Alone
    <3>3. HasAction(actions, k)
      BY <1>2, <1>3, <3>2 DEF GivenActions
    <3> QED BY <1>8, <1>12, <3>1, <3>3 DEF HasAction, Of, SameAction
  <2> QED BY <2>1, <2>2
<1>22. GivenActions'
  BY <1>2, <1>21 DEF GivenActions
<1> QED BY <1>2, <1>15, <1>16, <1>17, <1>18, <1>19, <1>20, <1>22, NotYetDelivered DEF IInv

LEMMA RenderDelivers ==
  ASSUME IInv, Render
  PROVE  /\ actions' \in Seq(Action)
         /\ BoundActionsHandled' /\ BoundOnce' /\ ListenersReachable' /\ TriggerRunsItsListener'
<1>1. /\ stage = "building" /\ stage' = "rendered" /\ actions' = Bound(actions)
      /\ fields' = fields /\ handlers' = handlers /\ given' = given /\ heard' = heard
  BY DEF Render
<1>2. TypeOK /\ HeardKept /\ ActionsGiven /\ GivenActions
  BY DEF IInv
<1>3. /\ actions \in Seq(Action) /\ handlers \in [Keys -> Listener \cup {None}]
      /\ given \subseteq Keys \X Triggers
  BY <1>2 DEF TypeOK
<1>4. Unbound(actions)
  BY <1>1, <1>2 DEF ActionsGiven
<1>5. \A a \in Range(actions) : ~a.bound
  BY <1>4 DEF Unbound
<1>6. BindInv(actions', actions, Keys)
  BY <1>1, <1>3, <1>5, BoundKeeps
<1>7. /\ actions' \in Seq(Action)
      /\ BoundFrom(actions', actions)
      /\ Unrivalled(actions')
      /\ Reaches(actions', actions, Keys)
  BY <1>6 DEF BindInv
<1>8. ASSUME NEW a \in Range(actions'), a.bound
      PROVE  /\ <<a.component, a.id>> \in EventKeys
             /\ <<<<a.component, a.id>>, a.trigger>> \in given
  <2>1. <<a.component, a.id>> \in EventKeys /\ Descends(a, actions)
    BY <1>7, <1>8 DEF BoundFrom
  <2>2. PICK b \in Range(actions) :
          b.id = a.id /\ b.component = a.component /\ b.trigger = a.trigger
    BY <2>1 DEF Descends
  <2>3. a.component # None
    BY <2>1, NoneAssumption DEF EventKeys, Keys
  <2> QED BY <1>4, <2>1, <2>2, <2>3 DEF Unbound
<1>9. BoundActionsHandled'
  BY <1>1, <1>8 DEF BoundActionsHandled, EventKeys
<1>10. BoundOnce'
  BY <1>7 DEF BoundOnce, Unrivalled
<1>11. ASSUME NEW key \in Keys, handlers[key] # None, NEW t \in Triggers,
              <<key, t>> \in given, Alone(key)
       PROVE  \E a \in Range(actions') : a.bound /\ <<a.component, a.id>> = key
  <2>1. key \in EventKeys
    BY <1>11 DEF EventKeys
  <2>2. HasAction(actions, key)
    BY <1>1, <1>2, <1>11 DEF GivenActions
  <2>3. ASSUME NEW a \in Range(actions), a.id = key[2] PROVE a.component \in {key[1], None}
    <3> SUFFICES ASSUME a.component # None PROVE a.component = key[1]
      OBVIOUS
    <3> DEFINE k == <<a.component, a.id>>
               g == <<k, a.trigger>>
    <3>1. g \in given
      BY <1>4 DEF Unbound
    <3>2. g[1] = k /\ k[1] = a.component /\ k[2] = a.id
      OBVIOUS
    <3> HIDE DEF k, g
    <3>3. k = key
      BY <1>11, <2>3, <3>1, <3>2 DEF Alone
    <3> QED BY <3>2, <3>3
  <2>4. Sole(actions, key)
    BY <2>2, <2>3 DEF Sole, HasAction
  <2>5. KeyReached(actions', key, Keys)
    BY <1>7, <2>1, <2>4 DEF Reaches
  <2>6. PICK a \in Range(actions') : Of(a, key) /\ a.bound
    BY <2>5 DEF KeyReached
  <2>7. <<a.component, a.id>> = key
    BY <2>6, KeysAre DEF Of
  <2> QED BY <2>6, <2>7
<1>12. ListenersReachable'
  <2> DEFINE Led(key) == \E a \in Range(actions') : a.bound /\ <<a.component, a.id>> = key
  <2>1. \A key \in Keys :
          /\ handlers[key] # None
          /\ \E t \in Triggers : <<key, t>> \in given
          /\ Alone(key)
          => Led(key)
    BY <1>11
  <2> HIDE DEF Led
  <2>2. \A key \in Keys :
          /\ handlers'[key] # None
          /\ \E t \in Triggers : <<key, t>> \in given'
          /\ \A g \in given' : g[1][2] = key[2] => g[1] = key
          => Led(key)
    BY <1>1, <2>1 DEF Alone
  <2> QED BY <2>2 DEF ListenersReachable, Led
<1>13. ASSUME NEW key \in Keys, NEW t \in Triggers, <<key, t>> \in heard,
              {u \in Triggers : <<key, u>> \in given} = {t}
       PROVE  /\ handlers[key].trigger = t
              /\ \A a \in Range(actions') : a.bound /\ <<a.component, a.id>> = key => a.trigger = t
  <2>1. handlers[key] # None /\ <<key, handlers[key].trigger>> \in heard
    BY <1>2, <1>13 DEF HeardKept
  <2>2. handlers[key].trigger \in Triggers
    BY <1>3, <2>1 DEF Listener
  <2>3. <<key, handlers[key].trigger>> \in given
    BY <1>2, <2>1, <2>2 DEF HeardKept
  <2>4. ASSUME NEW a \in Range(actions'), a.bound, <<a.component, a.id>> = key
        PROVE  a.trigger = t
    <3>1. <<key, a.trigger>> \in given
      BY <1>8, <2>4
    <3>2. a.trigger \in Triggers
      BY <1>3, <3>1
    <3> QED BY <1>13, <3>1, <3>2
  <2> QED BY <1>13, <2>2, <2>3, <2>4
<1>14. TriggerRunsItsListener'
  BY <1>1, <1>13 DEF TriggerRunsItsListener
<1> QED BY <1>7, <1>9, <1>10, <1>12, <1>14

LEMMA RenderInv ==
  ASSUME IInv, Render
  PROVE  IInv'
<1>1. /\ stage' = "rendered"
      /\ UNCHANGED <<fields, length, cap, handles, handlers, given, heard, asked, missed>>
  BY DEF Render
<1>2. TypeOK
  BY DEF IInv
<1>3. actions' \in Seq(Action) /\ Delivered'
  BY RenderDelivers DEF Delivered
<1>4. TypeOK'
  BY <1>1, <1>2, <1>3 DEF TypeOK
<1>5. HandlesFit' /\ ListenersFit' /\ AskedKept' /\ HeardKept'
  BY <1>1 DEF IInv, HandlesFit, ListenersFit, AskedKept, HeardKept
<1>6. ActionsGiven' /\ GivenActions'
  BY <1>1 DEF ActionsGiven, GivenActions
<1> QED BY <1>3, <1>4, <1>5, <1>6 DEF IInv

LEMMA InitInv ==
  ASSUME Init
  PROVE  IInv
<1>1. TypeOK
  <2>1. <<>> \in Seq(Field) /\ <<>> \in Seq(Action) /\ <<>> \in Seq(Groups \cup {None}) /\ Len(<<>>) = 0
    OBVIOUS
  <2> QED BY <2>1, FieldsAssumption DEF Init, TypeOK
<1>2. HandlesFit /\ ListenersFit /\ AskedKept /\ HeardKept /\ GivenActions
  BY DEF Init, HandlesFit, ListenersFit, AskedKept, HeardKept, GivenActions
<1>3. ActionsGiven
  BY DEF Init, ActionsGiven, Unbound, Range
<1>4. Delivered
  BY DEF Init, Delivered, Rendered, BoundActionsHandled, BoundOnce, ListenersReachable,
         TriggerRunsItsListener
<1> QED BY <1>1, <1>2, <1>3, <1>4 DEF IInv

LEMMA StutterInv ==
  ASSUME IInv, UNCHANGED vars
  PROVE  IInv'
<1>1. UNCHANGED <<stage, fields, length, cap, handles, actions, handlers, given, heard, asked, missed>>
  BY DEF vars
<1>2. TypeOK' /\ HandlesFit' /\ ListenersFit' /\ AskedKept' /\ HeardKept'
  BY <1>1 DEF IInv, TypeOK, HandlesFit, ListenersFit, AskedKept, HeardKept
<1>3. ActionsGiven' /\ GivenActions'
  BY <1>1 DEF IInv, ActionsGiven, Unbound, GivenActions, Alone
<1>4. BoundActionsHandled' /\ BoundOnce'
  BY <1>1 DEF IInv, Delivered, Rendered, BoundActionsHandled, BoundOnce
<1>5. ListenersReachable' /\ TriggerRunsItsListener'
  BY <1>1 DEF IInv, Delivered, Rendered, ListenersReachable, TriggerRunsItsListener
<1> QED BY <1>2, <1>3, <1>4, <1>5 DEF IInv, Delivered

LEMMA NextInv ==
  ASSUME IInv, [Next]_vars
  PROVE  IInv'
<1>1. CASE CreateForm
  BY <1>1, CreateFormInv
<1>2. CASE AddContainer
  BY <1>2, AddContainerInv
<1>3. CASE AddInput
  BY <1>3, AddInputInv
<1>4. CASE AddField
  BY <1>4, AddFieldInv
<1>5. CASE Button
  BY <1>5, ButtonInv
<1>6. CASE AddAction
  BY <1>6, AddActionInv
<1>7. CASE GetById
  BY <1>7, GetByIdInv
<1>8. CASE Access
  BY <1>8, AccessInv
<1>9. CASE OnEvent
  BY <1>9, OnEventInv
<1>10. CASE Render
  BY <1>10, RenderInv
<1>11. CASE UNCHANGED vars
  BY <1>11, StutterInv
<1> QED BY <1>1, <1>2, <1>3, <1>4, <1>5, <1>6, <1>7, <1>8, <1>9, <1>10, <1>11 DEF Next

-----------------------------------------------------------------------------
(* The theorems.                                                           *)

LEMMA Inductive == Spec => []IInv
<1>1. Init => IInv
  BY InitInv
<1>2. IInv /\ [Next]_vars => IInv'
  BY NextInv
<1> QED BY <1>1, <1>2, PTL DEF Spec

\* Whatever the builder is called with, the inputs, the slice of the default container, the
\* page's handles, the actions and the handlers stay what they are declared to be,
\* upsertGeneratedFormAction and bindFormActionRoutes included.
THEOREM FormTypeCorrect == Spec => []TypeOK
<1>1. IInv => TypeOK
  BY DEF IInv
<1> QED BY <1>1, Inductive, PTL

\* form_engine.go:609: a URL is bound to the instance for a control with a listener only.
THEOREM BoundIsHandled == Spec => []BoundActionsHandled
<1>1. IInv => BoundActionsHandled
  BY DEF IInv, Delivered
<1> QED BY <1>1, Inductive, PTL

\* form_engine.go:630: upsertGeneratedFormAction leaves a bound action no rival for its id
\* and trigger.
THEOREM BoundIsAlone == Spec => []BoundOnce
<1>1. IInv => BoundOnce
  BY DEF IInv, Delivered
<1> QED BY <1>1, Inductive, PTL

\* A listener whose control has an action is reached by a bound URL, unless the form was
\* given an action of another type with its id.
THEOREM ListenersAreReached == Spec => []ListenersReachable
<1>1. IInv => ListenersReachable
  BY DEF IInv, Delivered
<1> QED BY <1>1, Inductive, PTL

\* A control given one trigger only, and a listener for it, is bound for that trigger, and to
\* that listener: registerFormEvent has replaced any that was left.
THEOREM TriggersMatch == Spec => []TriggerRunsItsListener
<1>1. IInv => TriggerRunsItsListener
  BY DEF IInv, Delivered
<1> QED BY <1>1, Inductive, PTL

\* form_engine.go:433: the route of a listener's event asks for the group the page last gave
\* the input of the listener, however many inputs have its id, unless it did so in vain.
THEOREM AccessStays == Spec => []AccessInForce
<1>1. ASSUME TypeOK, ListenersFit, AskedKept PROVE AccessInForce
  <2> SUFFICES ASSUME NEW key \in Keys, handlers[key] # None, handlers[key].place # 0,
                      handlers[key].place \notin missed,
                      fields[handlers[key].place].main \/ Main(fields, key[2]) = {}
               PROVE  EventGroup(key) = asked[handlers[key].place]
    BY DEF AccessInForce
  <2> DEFINE p == handlers[key].place
  <2>1. Fits(fields, key[2], p)
    BY <1>1 DEF ListenersFit
  <2>2. p \in Indices(fields, key[2]) /\ p = Place(fields, key[2])
    BY <2>1 DEF Fits
  <2>3. EventGroup(key) = fields[p].group
    BY <2>2 DEF EventGroup
  <2>4. p \in DOMAIN fields
    BY <2>2 DEF Indices
  <2> HIDE DEF p
  <2>5. fields[p].group = asked[p]
    BY <1>1, <2>4 DEF AskedKept, p
  <2> QED BY <2>3, <2>5 DEF p
<1>2. IInv => AccessInForce
  BY <1>1 DEF IInv
<1> QED BY <1>2, Inductive, PTL
-----------------------------------------------------------------------------
(* FormRuntime: the first input with an id.                                *)

LeadsIn(list, id, i) ==
  i \in DOMAIN list /\ list[i].id = id /\ \A j \in DOMAIN list : list[j].id = id => i <= j
Lacks(list, id) == \A j \in DOMAIN list : list[j].id # id

LEMMA LeadsIs ==
  ASSUME NEW list \in Seq(Input), NEW id, NEW i, LeadsIn(list, id, i)
  PROVE  IndexOf(list, id) = i /\ i # 0 /\ Labelled(list, id) = {list[i].label}
<1>1. DOMAIN list = 1..Len(list) /\ Len(list) \in Nat
  BY LenProperties
<1>2. Indices(list, id) \subseteq Nat /\ i \in Indices(list, id) /\ i # 0
  BY <1>1 DEF Indices, LeadsIn
<1>3. \A j \in Indices(list, id) : i <= j
  BY DEF Indices, LeadsIn
<1>4. First(Indices(list, id)) = i
  BY <1>2, <1>3, FirstIsThat
<1>5. IndexOf(list, id) = i
  BY <1>2, <1>4 DEF IndexOf
<1> QED BY <1>2, <1>5 DEF Labelled

LEMMA LacksIs ==
  ASSUME NEW list, NEW id, Lacks(list, id)
  PROVE  IndexOf(list, id) = 0 /\ Labelled(list, id) = {}
<1>1. Indices(list, id) = {}
  BY DEF Indices, Lacks
<1> QED BY <1>1 DEF IndexOf, Labelled

LEMMA LeadsOrLacks ==
  ASSUME NEW list \in Seq(Input), NEW id
  PROVE  Lacks(list, id) \/ LeadsIn(list, id, IndexOf(list, id))
<1>1. CASE Indices(list, id) = {}
  BY <1>1 DEF Indices, Lacks
<1>2. CASE Indices(list, id) # {}
  <2>1. Indices(list, id) \subseteq Nat
    BY LenProperties DEF Indices
  <2>2. /\ First(Indices(list, id)) \in Indices(list, id)
        /\ \A j \in Indices(list, id) : First(Indices(list, id)) <= j
    BY <1>2, <2>1, FirstIs
  <2>3. IndexOf(list, id) = First(Indices(list, id))
    BY <1>2 DEF IndexOf
  <2> HIDE DEF IndexOf
  <2> QED BY <2>2, <2>3 DEF LeadsIn, Indices
<1> QED BY <1>1, <1>2

LEMMA IndexIs ==
  ASSUME NEW list \in Seq(Input), NEW id
  PROVE  \/ IndexOf(list, id) = 0 /\ Labelled(list, id) = {} /\ Lacks(list, id)
         \/ /\ IndexOf(list, id) # 0 /\ IndexOf(list, id) \in DOMAIN list
            /\ list[IndexOf(list, id)] \in Input /\ list[IndexOf(list, id)].id = id
            /\ LeadsIn(list, id, IndexOf(list, id))
            /\ Labelled(list, id) = {list[IndexOf(list, id)].label}
<1> DEFINE i == IndexOf(list, id)
<1>1. CASE Lacks(list, id)
  BY <1>1, LacksIs
<1>2. CASE LeadsIn(list, id, i)
  <2>1. i # 0 /\ Labelled(list, id) = {list[i].label}
    BY <1>2, LeadsIs
  <2> HIDE DEF i
  <2>2. i \in DOMAIN list /\ list[i].id = id
    BY <1>2 DEF LeadsIn
  <2>3. list[i] \in Input
    BY <2>2, ElementOfSeq, LenProperties
  <2> QED BY <1>2, <2>1, <2>2, <2>3 DEF i
<1> QED BY <1>1, <1>2, LeadsOrLacks

\* An append leaves what is found before it.
FoundAfter(o, list, x, id) ==
  /\ IndexOf(list, id) # 0 \/ x.id # id =>
       IndexOf(o, id) = IndexOf(list, id) /\ Labelled(o, id) = Labelled(list, id)
  /\ IndexOf(list, id) = 0 /\ x.id = id =>
       IndexOf(o, id) # 0 /\ Labelled(o, id) = {x.label}

LEMMA AppendFinds ==
  ASSUME NEW list \in Seq(Input), NEW x \in Input, NEW id, NEW o, o = Append(list, x)
  PROVE  o \in Seq(Input) /\ FoundAfter(o, list, x, id)
<1> DEFINE n == Len(list) + 1
           i == IndexOf(list, id)
<1>1. o \in Seq(Input) /\ Grown(o, list, n, x) /\ DOMAIN list = 1..Len(list) /\ Len(list) \in Nat
  BY Appended, LenProperties
<1>2. \/ i = 0 /\ Labelled(list, id) = {} /\ Lacks(list, id)
      \/ i # 0 /\ LeadsIn(list, id, i) /\ Labelled(list, id) = {list[i].label}
  BY IndexIs
<1> HIDE DEF i
<1>3. CASE i # 0
  <2>1. i \in DOMAIN list /\ i <= n
    BY <1>1, <1>2, <1>3 DEF LeadsIn
  <2>2. LeadsIn(o, id, i) /\ o[i] = list[i]
    BY <1>1, <1>2, <1>3, <2>1 DEF LeadsIn, Grown
  <2>3. IndexOf(o, id) = i /\ Labelled(o, id) = {list[i].label}
    BY <1>1, <2>2, LeadsIs
  <2> QED BY <1>1, <1>2, <1>3, <2>3 DEF i, FoundAfter
<1>4. CASE i = 0 /\ x.id # id
  <2>1. Lacks(o, id)
    BY <1>1, <1>2, <1>4 DEF Lacks, Grown
  <2>2. IndexOf(o, id) = 0 /\ Labelled(o, id) = {}
    BY <2>1, LacksIs
  <2> QED BY <1>1, <1>2, <1>4, <2>2 DEF i, FoundAfter
<1>5. CASE i = 0 /\ x.id = id
  <2>1. LeadsIn(o, id, n) /\ o[n] = x
    BY <1>1, <1>2, <1>5 DEF LeadsIn, Lacks, Grown
  <2>2. IndexOf(o, id) = n /\ n # 0 /\ Labelled(o, id) = {x.label}
    BY <1>1, <2>1, LeadsIs
  <2> QED BY <1>1, <1>5, <2>2 DEF i, FoundAfter
<1> QED BY <1>3, <1>4, <1>5

Relabelled(list, at, label) == [list EXCEPT ![at].label = label]

\* A write through a control moves nothing and is seen where it points to the first input.
LEMMA RelabelFinds ==
  ASSUME NEW list \in Seq(Input), NEW at \in DOMAIN list, NEW label \in Labels,
         NEW o, o = Relabelled(list, at, label), NEW id
  PROVE  /\ o \in Seq(Input)
         /\ IndexOf(o, id) = IndexOf(list, id)
         /\ list[at].id # id => Labelled(o, id) = Labelled(list, id)
         /\ IndexOf(list, id) = at => Labelled(o, id) = {label}
<1>1. Len(list) \in Nat /\ DOMAIN list = 1..Len(list) /\ list \in [1..Len(list) -> Input]
  BY LenProperties
<1>2. o = [list EXCEPT ![at].label = label]
  BY DEF Relabelled
<1>3. list[at] \in Input
  BY <1>1
<1>4. o[at] = [list[at] EXCEPT !.label = label]
  BY <1>1, <1>2
<1>5. o[at] \in Input /\ o[at].id = list[at].id /\ o[at].label = label
  BY <1>3, <1>4 DEF Input
<1>6. \A i \in DOMAIN list : i # at => o[i] = list[i]
  BY <1>1, <1>2
<1>7. o \in [1..Len(list) -> Input]
  <2>1. DOMAIN o = 1..Len(list) /\ o = [i \in 1..Len(list) |-> o[i]]
    BY <1>1, <1>2
  <2>2. \A i \in 1..Len(list) : o[i] \in Input
    BY <1>1, <1>5, <1>6
  <2> QED BY <2>1, <2>2
<1>8. o \in Seq(Input)
  BY <1>1, <1>7
<1>9. DOMAIN o = DOMAIN list /\ \A i \in DOMAIN list : o[i].id = list[i].id
  BY <1>1, <1>5, <1>6, <1>7
<1>10. Indices(o, id) = Indices(list, id)
  BY <1>9 DEF Indices
<1>11. IndexOf(o, id) = IndexOf(list, id)
  BY <1>10 DEF IndexOf
<1> DEFINE i == IndexOf(list, id)
<1>12. \/ i = 0 /\ Labelled(list, id) = {}
       \/ i # 0 /\ i \in DOMAIN list /\ list[i].id = id /\ Labelled(list, id) = {list[i].label}
  BY IndexIs
<1>13. Labelled(o, id) = IF i = 0 THEN {} ELSE {o[i].label}
  BY <1>11 DEF Labelled
<1> HIDE DEF i
<1>14. list[at].id # id => Labelled(o, id) = Labelled(list, id)
  BY <1>6, <1>12, <1>13
<1>15. i = at => Labelled(o, id) = {label}
  BY <1>1, <1>5, <1>13
<1> QED BY <1>8, <1>11, <1>14, <1>15 DEF i

LEMMA Sliced ==
  ASSUME NEW S, NEW s, NEW a \in Int, NEW b \in Int, \A i \in a..b : s[i] \in S,
         NEW r, r = SubSeq(s, a, b)
  PROVE  /\ r \in Seq(S) /\ Len(r) = IF a <= b THEN b - a + 1 ELSE 0
         /\ \A i \in 1 .. b - a + 1 : r[i] = s[a + i - 1]
BY SubSeqProperties

\* What is removed is not found; the others are as before.
LEMMA RemoveFinds ==
  ASSUME NEW list \in Seq(Input), NEW at \in DOMAIN list, NEW id
  PROVE  /\ RemoveAt(list, at) \in Seq(Input)
         /\ list[at].id # id => Labelled(RemoveAt(list, at), id) = Labelled(list, id)
<1> DEFINE o == RemoveAt(list, at)
           n == Len(list)
           l == SubSeq(list, 1, at - 1)
           r == SubSeq(list, at + 1, n)
<1>1. n \in Nat /\ DOMAIN list = 1..n /\ \A i \in 1..n : list[i] \in Input
  BY LenProperties, ElementOfSeq
<1> HIDE DEF n
<1>2. at \in 1..n /\ at - 1 \in Int /\ at + 1 \in Int
  BY <1>1
<1>3. /\ l \in Seq(Input) /\ Len(l) = at - 1
      /\ \A i \in 1..at-1 : l[i] = list[i]
  <2>1. \A i \in 1..at-1 : list[i] \in Input
    BY <1>1, <1>2
  <2>2. PICK e : e = at - 1
    OBVIOUS
  <2>3. e \in Int /\ 1 \in Int /\ \A i \in 1..e : list[i] \in Input
    BY <1>1, <1>2, <2>1, <2>2
  <2>4. l = SubSeq(list, 1, e)
    BY <2>2
  <2> HIDE DEF l
  <2>5. /\ l \in Seq(Input) /\ Len(l) = IF 1 <= e THEN e - 1 + 1 ELSE 0
        /\ \A i \in 1 .. e - 1 + 1 : l[i] = list[1 + i - 1]
    BY <2>3, <2>4, Sliced
  <2> QED BY <1>1, <1>2, <2>2, <2>5
<1>4. /\ r \in Seq(Input) /\ Len(r) = n - at
      /\ \A i \in 1..n-at : r[i] = list[at + i]
  <2>1. \A i \in at+1..n : list[i] \in Input
    BY <1>1, <1>2
  <2>2. PICK b : b = at + 1
    OBVIOUS
  <2>3. b \in Int /\ n \in Int /\ \A i \in b..n : list[i] \in Input
    BY <1>1, <1>2, <2>1, <2>2
  <2>4. r = SubSeq(list, b, n)
    BY <2>2
  <2> HIDE DEF r
  <2>5. /\ r \in Seq(Input) /\ Len(r) = IF b <= n THEN n - b + 1 ELSE 0
        /\ \A i \in 1 .. n - b + 1 : r[i] = list[b + i - 1]
    BY <2>3, <2>4, Sliced
  <2>6. \A i \in 1 .. n - at : b + i - 1 = at + i /\ i \in 1 .. n - b + 1
    BY <1>1, <1>2, <2>2
  <2> QED BY <1>1, <1>2, <2>2, <2>5, <2>6
<1>5. o = l \o r
  BY DEF RemoveAt, n
<1> HIDE DEF l, r, o
<1>6. /\ o \in Seq(Input) /\ Len(o) = n - 1
      /\ \A i \in 1..n-1 : o[i] = IF i <= at - 1 THEN l[i] ELSE r[i - (at - 1)]
  <2>1. /\ l \o r \in Seq(Input) /\ Len(l \o r) = Len(l) + Len(r)
        /\ \A i \in 1..Len(l) + Len(r) :
             (l \o r)[i] = IF i <= Len(l) THEN l[i] ELSE r[i - Len(l)]
    BY <1>3, <1>4, ConcatProperties
  <2>2. Len(l) + Len(r) = n - 1
    BY <1>1, <1>2, <1>3, <1>4
  <2> QED BY <1>3, <1>5, <2>1, <2>2
<1>7. \A i \in 1..n-1 : o[i] = IF i < at THEN list[i] ELSE list[i + 1]
  <2> SUFFICES ASSUME NEW i \in 1..n-1
               PROVE  o[i] = IF i < at THEN list[i] ELSE list[i + 1]
    OBVIOUS
  <2>1. CASE i < at
    <3>1. i <= at - 1 /\ i \in 1..at-1
      BY <1>1, <1>2, <2>1
    <3> QED BY <1>3, <1>6, <2>1, <3>1
  <2>2. CASE ~(i < at)
    <3>1. ~(i <= at - 1) /\ i - (at - 1) \in 1..n-at /\ at + (i - (at - 1)) = i + 1
      BY <1>1, <1>2, <2>2
    <3> QED BY <1>4, <1>6, <2>2, <3>1
  <2> QED BY <2>1, <2>2
<1>8. DOMAIN o = 1..n-1
  BY <1>6, LenProperties
<1> SUFFICES ASSUME list[at].id # id PROVE Labelled(o, id) = Labelled(list, id)
  BY <1>6 DEF o
<1> DEFINE i == IndexOf(list, id)
<1>9. \/ Labelled(list, id) = {} /\ Lacks(list, id)
      \/ i # 0 /\ LeadsIn(list, id, i) /\ Labelled(list, id) = {list[i].label}
  BY IndexIs
<1> HIDE DEF i
<1>10. CASE Labelled(list, id) = {} /\ Lacks(list, id)
  <2>1. \A j \in 1..n-1 : j \in 1..n /\ j + 1 \in 1..n
    BY <1>1
  <2>2. Lacks(o, id)
    BY <1>1, <1>7, <1>8, <1>10, <2>1 DEF Lacks
  <2> QED BY <1>6, <1>10, <2>2, LacksIs DEF o
<1>11. CASE LeadsIn(list, id, i) /\ Labelled(list, id) = {list[i].label}
  <2>1. i \in 1..n /\ list[i].id = id /\ \A j \in 1..n : list[j].id = id => i <= j
    BY <1>1, <1>11 DEF LeadsIn
  <2>2. i # at
    BY <2>1
  <2> DEFINE k == IF i < at THEN i ELSE i - 1
  <2>3. k \in 1..n-1 /\ o[k] = list[i]
    <3>1. CASE i < at
      BY <1>1, <1>2, <1>7, <2>1, <3>1
    <3>2. CASE i > at
      <4>1. k = i - 1 /\ i - 1 \in 1..n-1 /\ ~(i - 1 < at) /\ (i - 1) + 1 = i
        BY <1>1, <1>2, <2>1, <3>2
      <4> QED BY <1>7, <4>1
    <3> QED BY <1>2, <2>1, <2>2, <3>1, <3>2
  <2>4. ASSUME NEW j \in 1..n-1, o[j].id = id PROVE k <= j
    <3>1. CASE j < at
      <4>1. j \in 1..n /\ list[j].id = id
        BY <1>1, <1>2, <1>7, <2>4, <3>1
      <4> QED BY <1>2, <2>1, <3>1, <4>1
    <3>2. CASE ~(j < at)
      <4>1. j + 1 \in 1..n /\ list[j + 1].id = id
        BY <1>1, <1>2, <1>7, <2>4, <3>2
      <4>2. i <= j + 1
        BY <2>1, <4>1
      <4> QED BY <1>2, <2>1, <2>2, <3>2, <4>2
    <3> QED BY <3>1, <3>2
  <2> HIDE DEF k
  <2>5. LeadsIn(o, id, k)
    BY <1>8, <2>1, <2>3, <2>4 DEF LeadsIn
  <2>6. Labelled(o, id) = {o[k].label}
    BY <1>6, <2>5, LeadsIs
  <2> QED BY <1>6, <1>11, <2>3, <2>6 DEF o
<1> QED BY <1>9, <1>10, <1>11

DslLabel(id) == IF IndexOf(added, id) # 0 THEN Labelled(added, id) ELSE Labelled(built, id)

LEMMA DslLabelIs ==
  ASSUME added \in Seq(Input), built \in Seq(Input), NEW id
  PROVE  Labelled(added \o built, id) = DslLabel(id)
<1> DEFINE o == added \o built
           m == Len(added)
           n == Len(built)
<1>1. /\ o \in Seq(Input) /\ Len(o) = m + n /\ m \in Nat /\ n \in Nat
      /\ \A i \in 1..m+n : o[i] = IF i <= m THEN added[i] ELSE built[i - m]
  BY ConcatProperties, LenProperties
<1>2. DOMAIN o = 1..m+n /\ DOMAIN added = 1..m /\ DOMAIN built = 1..n
  BY <1>1, LenProperties
<1> HIDE DEF o, m, n
<1>3. CASE IndexOf(added, id) # 0
  <2> DEFINE i == IndexOf(added, id)
  <2>1. LeadsIn(added, id, i) /\ Labelled(added, id) = {added[i].label}
    BY <1>3, IndexIs
  <2> HIDE DEF i
  <2>2. i \in 1..m /\ added[i].id = id /\ \A j \in 1..m : added[j].id = id => i <= j
    BY <1>2, <2>1 DEF LeadsIn
  <2>3. i \in 1..m+n /\ o[i] = added[i]
    BY <1>1, <2>2
  <2>4. ASSUME NEW j \in 1..m+n, o[j].id = id PROVE i <= j
    <3>1. CASE j <= m
      BY <1>1, <2>2, <2>4, <3>1
    <3>2. CASE ~(j <= m)
      BY <1>1, <2>2, <3>2
    <3> QED BY <3>1, <3>2
  <2>5. LeadsIn(o, id, i)
    BY <1>2, <2>2, <2>3, <2>4 DEF LeadsIn
  <2>6. Labelled(o, id) = {added[i].label}
    BY <1>1, <2>3, <2>5, LeadsIs
  <2> QED BY <1>3, <2>1, <2>6 DEF o, DslLabel
<1>4. CASE IndexOf(added, id) = 0
  <2>1. Lacks(added, id)
    BY <1>4, IndexIs
  <2> DEFINE i == IndexOf(built, id)
  <2>2. \/ Labelled(built, id) = {} /\ Lacks(built, id)
        \/ LeadsIn(built, id, i) /\ Labelled(built, id) = {built[i].label}
    BY IndexIs
  <2> HIDE DEF i
  <2>3. ASSUME NEW j \in 1..m+n, o[j].id = id
        PROVE  j - m \in 1..n /\ built[j - m].id = id
    <3>1. ~(j <= m)
      <4> SUFFICES ASSUME j <= m PROVE FALSE
        OBVIOUS
      <4>1. j \in 1..m /\ o[j] = added[j]
        BY <1>1
      <4> QED BY <1>2, <2>1, <2>3, <4>1 DEF Lacks
    <3>2. j - m \in 1..n
      BY <1>1, <3>1
    <3> QED BY <1>1, <2>3, <3>1, <3>2
  <2>4. CASE Labelled(built, id) = {} /\ Lacks(built, id)
    <3>1. Lacks(o, id)
      BY <1>2, <2>3, <2>4 DEF Lacks
    <3> QED BY <1>4, <2>4, <3>1, LacksIs DEF o, DslLabel
  <2>5. CASE LeadsIn(built, id, i) /\ Labelled(built, id) = {built[i].label}
    <3>1. i \in 1..n /\ built[i].id = id /\ \A j \in 1..n : built[j].id = id => i <= j
      BY <1>2, <2>5 DEF LeadsIn
    <3> DEFINE k == m + i
    <3>2. k \in 1..m+n /\ ~(k <= m) /\ k - m = i
      BY <1>1, <3>1
    <3>3. o[k] = built[i]
      BY <1>1, <3>2
    <3>4. ASSUME NEW j \in 1..m+n, o[j].id = id PROVE k <= j
      <4>1. i <= j - m
        BY <2>3, <3>1, <3>4
      <4> QED BY <1>1, <3>1, <4>1
    <3> HIDE DEF k
    <3>5. LeadsIn(o, id, k)
      BY <1>2, <3>1, <3>2, <3>3, <3>4 DEF LeadsIn
    <3>6. Labelled(o, id) = {built[i].label}
      BY <1>1, <3>3, <3>5, LeadsIs
    <3> QED BY <1>4, <2>5, <3>6 DEF o, DslLabel
  <2> QED BY <2>2, <2>4, <2>5
<1> QED BY <1>3, <1>4

-----------------------------------------------------------------------------
(* What an answer does to what the client shows.                           *)

Mutation == [op : {"add", "update", "remove"}, id : Ids, input : Input]
Fitting(m) == m.input.id = m.id
Recorded == {m \in Mutation : Fitting(m)}

\* A mutation changes its own id only, to its label if it fits what was there.
TellsOne(o, list, m, id) ==
  /\ m.id # id => Labelled(o, id) = Labelled(list, id)
  /\ m.id = id /\ m.op = "add" /\ Labelled(list, id) = {} => Labelled(o, id) = {m.input.label}
  /\ m.id = id /\ m.op = "update" /\ Labelled(list, id) # {} => Labelled(o, id) = {m.input.label}

LEMMA ApplyFinds ==
  ASSUME NEW list \in Seq(Input), NEW m \in Recorded, NEW id
  PROVE  Apply(list, m) \in Seq(Input) /\ TellsOne(Apply(list, m), list, m, id)
<1> DEFINE at == IndexOf(list, m.id)
<1>0. PICK x : x = m.input
  OBVIOUS
<1>1. x \in Input /\ x.id = m.id /\ m.op \in {"add", "update", "remove"} /\ x.label \in Labels
  BY <1>0 DEF Recorded, Mutation, Fitting, Input
<1>2. CASE m.op = "add"
  <2>1. PICK o : o = Append(list, x)
    OBVIOUS
  <2>2. Apply(list, m) = o
    BY <1>0, <1>2, <2>1 DEF Apply
  <2>3. IndexOf(list, id) = 0 <=> Labelled(list, id) = {}
    BY DEF Labelled
  <2>4. o \in Seq(Input) /\ FoundAfter(o, list, x, id)
    BY <1>1, <2>1, AppendFinds
  <2>5. m.op # "update"
    BY <1>2
  <2> QED BY <1>0, <1>1, <2>2, <2>3, <2>4, <2>5 DEF FoundAfter, TellsOne
<1>3. CASE m.op # "add" /\ at = 0
  <2>1. Apply(list, m) = list
    BY <1>3 DEF Apply
  <2>2. Labelled(list, m.id) = {}
    BY <1>3 DEF Labelled
  <2> QED BY <1>3, <2>1, <2>2 DEF TellsOne
<1>4. CASE m.op = "update" /\ at # 0
  <2>1. Apply(list, m) = Relabelled(list, at, x.label)
    BY <1>0, <1>4 DEF Apply, Relabelled
  <2>2. at \in DOMAIN list /\ list[at].id = m.id
    BY <1>4, IndexIs
  <2>3. m.id = id => IndexOf(list, id) = at
    OBVIOUS
  <2> DEFINE label == x.label
             o == Apply(list, m)
  <2>4. label \in Labels /\ o = Relabelled(list, at, label)
    BY <1>1, <2>1
  <2> HIDE DEF at, o, label
  <2>5. /\ o \in Seq(Input)
        /\ list[at].id # id => Labelled(o, id) = Labelled(list, id)
        /\ IndexOf(list, id) = at => Labelled(o, id) = {label}
    BY <2>2, <2>4, RelabelFinds
  <2> QED BY <1>0, <1>4, <2>2, <2>3, <2>5 DEF o, label, TellsOne
<1>5. CASE m.op = "remove" /\ at # 0
  <2>1. Apply(list, m) = RemoveAt(list, at)
    BY <1>5 DEF Apply
  <2>2. at \in DOMAIN list /\ list[at].id = m.id
    BY <1>5, IndexIs
  <2> HIDE DEF at
  <2>3. /\ RemoveAt(list, at) \in Seq(Input)
        /\ m.id # id => Labelled(RemoveAt(list, at), id) = Labelled(list, id)
    BY <2>2, RemoveFinds
  <2> QED BY <1>5, <2>1, <2>3 DEF TellsOne
<1> QED BY <1>1, <1>2, <1>3, <1>4, <1>5

LEMMA ApplyType ==
  ASSUME NEW list \in Seq(Input), NEW m \in Recorded
  PROVE  Apply(list, m) \in Seq(Input)
BY ApplyFinds

LEMMA AppliedRuns ==
  ASSUME NEW list \in Seq(Input), NEW ms \in Seq(Recorded)
  PROVE  \E f : /\ f \in [0..Len(ms) -> Seq(Input)]
                /\ f[0] = list
                /\ \A i \in 1..Len(ms) : f[i] = Apply(f[i - 1], ms[i])
                /\ Applied(list, ms) = f[Len(ms)]
<1> DEFINE n == Len(ms)
           S == Seq(Input)
           turn == [i \in 1..n |-> [l \in S |-> Apply(l, ms[i])]]
           Loop(f) == [i \in 0..n |-> IF i = 0 THEN list ELSE Apply(f[i - 1], ms[i])]
           m == CHOOSE f : f = Loop(f)
<1>1. n \in Nat /\ \A i \in 1..n : ms[i] \in Recorded
  BY LenProperties, ElementOfSeq
<1>2. turn \in [1..n -> [S -> S]]
  BY <1>1, ApplyType
<1>3. PICK f : IsRun(f, n, S, list, turn)
  <2> HIDE DEF turn, n, S
  <2>1. list \in S
    BY DEF S
  <2> QED BY <1>1, <1>2, <2>1, RunExists
<1>4. f = Loop(f)
  <2>1. ASSUME NEW i \in 0..n, i # 0
        PROVE  f[i] = Apply(f[i - 1], ms[i])
    <3> HIDE DEF n, S
    <3>1. i \in 1..n /\ i - 1 \in 0..n
      BY <1>1, <2>1
    <3>2. f[i - 1] \in S /\ f[i] = turn[i][f[i - 1]]
      BY <1>3, <3>1 DEF IsRun
    <3>3. turn[i][f[i - 1]] = Apply(f[i - 1], ms[i])
      BY <3>1, <3>2
    <3> QED BY <3>2, <3>3
  <2> HIDE DEF turn, n, S
  <2> QED BY <1>3, <2>1 DEF IsRun
<1>5. m = Loop(m)
  <2> HIDE DEF Loop
  <2> QED BY <1>4
<1>6. Applied(list, ms) = m[n]
  BY Zenon DEF Applied
<1> HIDE DEF m
<1>7. \A i \in 0..n : m[i] = IF i = 0 THEN list ELSE Apply(m[i - 1], ms[i])
  <2>1. \A i \in 0..n : Loop(m)[i] = IF i = 0 THEN list ELSE Apply(m[i - 1], ms[i])
    OBVIOUS
  <2> HIDE DEF Loop, n
  <2> QED BY <1>5, <2>1
<1>8. 0 \in 0..n /\ \A i \in 1..n : i \in 0..n /\ i # 0
  <2> HIDE DEF n
  <2> QED BY <1>1
<1>9. m[0] = list
  BY <1>7, <1>8, Zenon
<1>10. \A i \in 1..n : m[i] = Apply(m[i - 1], ms[i])
  BY <1>7, <1>8, Zenon
<1> DEFINE T == {i \in 0..n : m[i] \in S}
<1>11. 0..n \subseteq T
  <2>1. 0 \in T
    BY <1>8, <1>9
  <2>2. ASSUME NEW i \in 0..n-1, i \in T PROVE i + 1 \in T
    <3> DEFINE j == i + 1
    <3>1. j \in 0..n /\ j \in 1..n /\ j - 1 = i
      <4> HIDE DEF n
      <4> QED BY <1>1
    <3> HIDE DEF j, n
    <3>2. m[j] = Apply(m[i], ms[j])
      BY <1>10, <3>1
    <3>3. m[i] \in Seq(Input)
      BY <2>2
    <3>4. ms[j] \in Recorded
      BY <1>1, <3>1
    <3>5. Apply(m[i], ms[j]) \in Seq(Input)
      BY <3>3, <3>4, ApplyType
    <3>6. m[j] \in S
      BY <3>2, <3>5
    <3> QED BY <3>1, <3>6 DEF j
  <2> HIDE DEF T, n
  <2> QED BY <1>1, <2>1, <2>2, Induction
<1>12. m \in [0..n -> S]
  <2>1. m = [i \in 0..n |-> m[i]]
    <3>1. Loop(m) = [i \in 0..n |-> Loop(m)[i]]
      OBVIOUS
    <3> HIDE DEF Loop
    <3> QED BY <1>5, <3>1
  <2>2. \A i \in 0..n : m[i] \in S
    BY <1>11
  <2> HIDE DEF n, S, T
  <2> QED BY <2>1, <2>2
<1> HIDE DEF n
<1> QED BY <1>6, <1>9, <1>10, <1>12 DEF n

\* The mutations about an id can be followed: none removes it, an input is added only where
\* it is missing and once, and updated only where it is.
Followed(list, ms, id) ==
  /\ \A i \in Indices(ms, id) : ms[i].op \in {"add", "update"}
  /\ \A i \in Indices(ms, id) : ms[i].op = "add" => Labelled(list, id) = {}
  /\ \A i \in Indices(ms, id) :
       ms[i].op = "update" =>
         Labelled(list, id) # {} \/ \E j \in Indices(ms, id) : j < i /\ ms[j].op = "add"
  /\ \A i, j \in Indices(ms, id) : ms[i].op = "add" /\ ms[j].op = "add" => i = j

\* After k of them the id has the label of the last one about it, or is as before.
Unheard(ms, id, k) == \A j \in Indices(ms, id) : k < j
LastHeard(ms, id, k, i) ==
  i \in Indices(ms, id) /\ i <= k /\ \A j \in Indices(ms, id) : j <= k => j <= i
ToldBy(l, list, ms, id, k) ==
  \/ Unheard(ms, id, k) /\ Labelled(l, id) = Labelled(list, id)
  \/ \E i : LastHeard(ms, id, k, i) /\ Labelled(l, id) = {ms[i].input.label}

LEMMA ToldNext ==
  ASSUME NEW list \in Seq(Input), NEW ms \in Seq(Recorded), NEW id, Followed(list, ms, id),
         NEW k \in Nat, NEW j \in DOMAIN ms, j = k + 1,
         NEW l \in Seq(Input), ToldBy(l, list, ms, id, k)
  PROVE  ToldBy(Apply(l, ms[j]), list, ms, id, j)
<1>1. ms[j] \in Recorded /\ Indices(ms, id) \subseteq Nat
  BY ElementOfSeq, LenProperties DEF Indices
<1> DEFINE m == ms[j]
           o == Apply(l, m)
<1>2. /\ m.id # id => Labelled(o, id) = Labelled(l, id)
      /\ m.id = id /\ m.op = "add" /\ Labelled(l, id) = {} => Labelled(o, id) = {m.input.label}
      /\ m.id = id /\ m.op = "update" /\ Labelled(l, id) # {} => Labelled(o, id) = {m.input.label}
  <2>1. m \in Recorded
    BY <1>1
  <2> HIDE DEF m
  <2>2. TellsOne(Apply(l, m), l, m, id)
    BY <2>1, ApplyFinds
  <2> QED BY <2>2 DEF TellsOne
<1> HIDE DEF o
<1>3. CASE m.id # id
  <2>1. j \notin Indices(ms, id)
    BY <1>3 DEF Indices
  <2>2. \A i \in Indices(ms, id) : (i <= j <=> i <= k) /\ (j < i <=> k < i)
    BY <1>1, <2>1
  <2>3. Unheard(ms, id, k) => Unheard(ms, id, j)
    BY <2>2 DEF Unheard
  <2>4. \A i : LastHeard(ms, id, k, i) => LastHeard(ms, id, j, i)
    BY <2>2 DEF LastHeard
  <2>5. Labelled(o, id) = Labelled(l, id)
    BY <1>2, <1>3
  <2>6. ToldBy(o, list, ms, id, j)
    BY <2>3, <2>4, <2>5 DEF ToldBy
  <2> QED BY <2>6 DEF o
<1>4. CASE m.id = id
  <2>1. j \in Indices(ms, id)
    BY <1>4 DEF Indices
  <2>2. LastHeard(ms, id, j, j)
    BY <1>1, <2>1 DEF LastHeard
  <2>3. Unheard(ms, id, k) \/ Labelled(l, id) # {}
    BY DEF ToldBy
  <2>4. Unheard(ms, id, k) => Labelled(l, id) = Labelled(list, id)
    BY <1>1 DEF ToldBy, Unheard, LastHeard
  <2>5. CASE m.op = "add"
    <3>1. Labelled(list, id) = {}
      BY <2>1, <2>5 DEF Followed
    <3>2. Unheard(ms, id, k)
      <4> SUFFICES ASSUME NEW i \in Indices(ms, id), i <= k PROVE FALSE
        BY <1>1 DEF Unheard
      <4>1. CASE ms[i].op = "add"
        BY <2>1, <2>5, <4>1 DEF Followed
      <4>2. CASE ms[i].op = "update"
        <5>1. PICK h \in Indices(ms, id) : h < i /\ ms[h].op = "add"
          BY <3>1, <4>2 DEF Followed
        <5>2. h = j
          BY <2>1, <2>5, <5>1 DEF Followed
        <5> QED BY <1>1, <5>1, <5>2
      <4> QED BY <4>1, <4>2 DEF Followed
    <3>3. Labelled(o, id) = {m.input.label}
      BY <1>2, <1>4, <2>4, <2>5, <3>1, <3>2
    <3>4. ToldBy(o, list, ms, id, j)
      BY <2>2, <3>3 DEF ToldBy
    <3> QED BY <3>4 DEF o
  <2>6. CASE m.op = "update"
    <3>1. Labelled(l, id) # {}
      <4> SUFFICES ASSUME Unheard(ms, id, k), Labelled(list, id) = {} PROVE FALSE
        BY <2>3, <2>4
      <4>1. PICK h \in Indices(ms, id) : h < j /\ ms[h].op = "add"
        BY <2>1, <2>6 DEF Followed
      <4>2. k < h
        BY <4>1 DEF Unheard
      <4> QED BY <1>1, <4>1, <4>2
    <3>2. Labelled(o, id) = {m.input.label}
      BY <1>2, <1>4, <2>6, <3>1
    <3>3. ToldBy(o, list, ms, id, j)
      BY <2>2, <3>2 DEF ToldBy
    <3> QED BY <3>3 DEF o
  <2> QED BY <2>1, <2>5, <2>6 DEF Followed
<1> QED BY <1>3, <1>4

LEMMA AppliedTells ==
  ASSUME NEW list \in Seq(Input), NEW ms \in Seq(Recorded), NEW id, Followed(list, ms, id)
  PROVE  ToldBy(Applied(list, ms), list, ms, id, Len(ms))
<1> DEFINE n == Len(ms)
<1>1. n \in Nat /\ DOMAIN ms = 1..n
  BY LenProperties
<1>2. PICK f : /\ f \in [0..n -> Seq(Input)]
               /\ f[0] = list
               /\ \A i \in 1..n : f[i] = Apply(f[i - 1], ms[i])
               /\ Applied(list, ms) = f[n]
  BY AppliedRuns
<1> HIDE DEF n
<1> DEFINE T == {i \in 0..n : ToldBy(f[i], list, ms, id, i)}
<1>3. 0 \in T
  <2>1. Unheard(ms, id, 0)
    BY <1>1 DEF Unheard, Indices
  <2> QED BY <1>1, <1>2, <2>1 DEF ToldBy
<1>4. ASSUME NEW i \in 0..n-1, i \in T PROVE i + 1 \in T
  <2> DEFINE j == i + 1
  <2>1. j \in 1..n /\ j \in 0..n /\ j - 1 = i /\ i \in Nat /\ i \in 0..n /\ j \in DOMAIN ms
    BY <1>1
  <2>2. j = i + 1
    OBVIOUS
  <2> HIDE DEF j
  <2>3. f[j] = Apply(f[i], ms[j])
    BY <1>2, <2>1
  <2>4. f[i] \in Seq(Input) /\ ToldBy(f[i], list, ms, id, i)
    BY <1>2, <1>4, <2>1
  <2> DEFINE l == f[i]
  <2>5. l \in Seq(Input) /\ ToldBy(l, list, ms, id, i)
    BY <2>4
  <2> HIDE DEF l, T
  <2>6. ToldBy(Apply(l, ms[j]), list, ms, id, j)
    BY <2>1, <2>2, <2>5, ToldNext
  <2>7. ToldBy(f[j], list, ms, id, j)
    BY <2>3, <2>6 DEF l
  <2> QED BY <2>1, <2>2, <2>7 DEF T
<1>5. n \in T
  <2> HIDE DEF T
  <2>1. 0..n \subseteq T
    BY <1>1, <1>3, <1>4, Induction
  <2> QED BY <1>1, <2>1
<1> QED BY <1>2, <1>5 DEF n

LEMMA AppliedType ==
  ASSUME NEW list \in Seq(Input), NEW ms \in Seq(Recorded)
  PROVE  Applied(list, ms) \in Seq(Input)
<1>1. Len(ms) \in 0..Len(ms)
  BY LenProperties
<1> QED BY <1>1, AppliedRuns

-----------------------------------------------------------------------------
(* What the client is still to hear about an id.                           *)

News == [number : Nat, at : Nat, op : {"add", "update", "remove"}, label : Labels]
NewsOf(number, ms, id) ==
  {[number |-> number, at |-> i, op |-> ms[i].op, label |-> ms[i].input.label] : i \in Indices(ms, id)}
Answered(id) == UNION {NewsOf(a.number, a.mutations, id) : a \in answers}
Pending(id) == Answered(id) \cup (IF running THEN NewsOf(events, mutations, id) ELSE {})

Before(m, n) == m.number < n.number \/ (m.number = n.number /\ m.at < n.at)

\* The news N lead from the client's label of the id, or none, to the DSL's.
Leads(N, shows, has) ==
  /\ \A n \in N : n.op \in {"add", "update"}
  /\ \A n \in N : n.op = "add" => shows = {}
  /\ \A n \in N : n.op = "update" => shows # {} \/ \E m \in N : m.op = "add" /\ Before(m, n)
  /\ \A m, n \in N : m.op = "add" /\ n.op = "add" => m = n
  /\ \A n \in N : (\A m \in N : ~Before(n, m)) => has = {n.label}
  /\ N = {} => has = shows
  /\ N # {} => has # {}

LEMMA UpdateLeads ==
  ASSUME NEW N \in SUBSET News, NEW shows, NEW has, Leads(N, shows, has), has # {},
         NEW new \in News, new.op = "update", \A n \in N : Before(n, new)
  PROVE  Leads(N \cup {new}, shows, {new.label})
<1> DEFINE M == N \cup {new}
<1>1. \A n \in N : n # new /\ ~Before(new, n) /\ ~Before(new, new)
  BY DEF Before, News
<1>2. ~Before(new, new)
  BY DEF Before, News
<1>3. \A n \in M : n.op \in {"add", "update"}
  BY DEF Leads
<1>4. \A n \in M : n.op = "add" => shows = {}
  BY DEF Leads
<1>5. \A n \in M : n.op = "update" => shows # {} \/ \E m \in M : m.op = "add" /\ Before(m, n)
  <2>1. ASSUME NEW n \in N, n.op = "update"
        PROVE  shows # {} \/ \E m \in M : m.op = "add" /\ Before(m, n)
    BY <2>1 DEF Leads
  <2>2. shows # {} \/ \E m \in M : m.op = "add" /\ Before(m, new)
    <3>1. CASE N = {}
      BY <3>1 DEF Leads
    <3>2. CASE N # {}
      <4>1. PICK n \in N : TRUE
        BY <3>2
      <4>2. shows # {} \/ \E m \in N : m.op = "add"
        BY <4>1 DEF Leads
      <4> QED BY <4>2
    <3> QED BY <3>1, <3>2
  <2> QED BY <2>1, <2>2
<1>6. \A m, n \in M : m.op = "add" /\ n.op = "add" => m = n
  BY DEF Leads
<1>7. \A n \in M : (\A m \in M : ~Before(n, m)) => {new.label} = {n.label}
  OBVIOUS
<1>8. M # {}
  OBVIOUS
<1> HIDE DEF M
<1>9. Leads(M, shows, {new.label})
  BY <1>3, <1>4, <1>5, <1>6, <1>7, <1>8 DEF Leads
<1> QED BY <1>9 DEF M

LEMMA AddLeads ==
  ASSUME NEW N, NEW shows, NEW has, Leads(N, shows, has), has = {},
         NEW new \in News, new.op = "add"
  PROVE  N = {} /\ Leads({new}, shows, {new.label})
<1>1. N = {} /\ shows = {}
  BY DEF Leads
<1> QED BY <1>1 DEF Leads

LEMMA ReceiveLeads ==
  ASSUME NEW N \in SUBSET News, NEW shows, NEW has, Leads(N, shows, has),
         NEW M \in SUBSET N, NEW k \in Nat,
         \A n \in M : n.number = k, \A n \in N \ M : k < n.number,
         NEW last \in M, \A n \in M : ~Before(last, n)
  PROVE  Leads(N \ M, {last.label}, has)
<1> DEFINE R == N \ M
<1>1. ASSUME NEW n \in R, NEW m \in M PROVE Before(m, n) /\ ~Before(n, m)
  <2>1. m.number = k /\ k < n.number
    OBVIOUS
  <2>2. n \in News
    OBVIOUS
  <2>3. n.number \in Nat
    BY <2>2 DEF News
  <2>4. m.number < n.number /\ ~(n.number < m.number) /\ m.number # n.number
    BY <2>1, <2>3
  <2> QED BY <2>4 DEF Before
<1>2. \A n \in R : n.op \in {"add", "update"}
  BY DEF Leads
<1>3. ASSUME NEW n \in R, n.op = "add" PROVE FALSE
  <2>1. shows = {}
    BY <1>3 DEF Leads
  <2>2. CASE last.op = "add"
    BY <1>3, <2>2 DEF Leads
  <2>3. CASE last.op = "update"
    <3>1. PICK m \in N : m.op = "add" /\ Before(m, last)
      BY <2>1, <2>3 DEF Leads
    <3>2. m = n
      BY <1>3, <3>1 DEF Leads
    <3> QED BY <1>1, <3>1, <3>2
  <2> QED BY <2>2, <2>3 DEF Leads
<1>4. \A m, n \in R : m.op = "add" /\ n.op = "add" => m = n
  BY DEF Leads
<1>5. ASSUME NEW n \in R, \A m \in R : ~Before(n, m) PROVE has = {n.label}
  <2>1. \A m \in N : ~Before(n, m)
    BY <1>1, <1>5
  <2> QED BY <2>1 DEF Leads
<1>6. R = {} => has = {last.label}
  BY DEF Leads
<1>7. R # {} => has # {}
  BY DEF Leads
<1> HIDE DEF R
<1>8. Leads(R, {last.label}, has)
  BY <1>2, <1>3, <1>4, <1>5, <1>6, <1>7 DEF Leads
<1> QED BY <1>8 DEF R

LEMMA NewsAre ==
  ASSUME NEW number \in Nat, NEW ms \in Seq(Recorded), NEW id
  PROVE  /\ NewsOf(number, ms, id) \subseteq News
         /\ \A n \in NewsOf(number, ms, id) : n.number = number /\ n.at <= Len(ms)
<1> SUFFICES ASSUME NEW i \in Indices(ms, id)
             PROVE  /\ i \in Nat /\ i <= Len(ms)
                    /\ ms[i].op \in {"add", "update", "remove"} /\ ms[i].input.label \in Labels
  BY DEF NewsOf, News
<1>1. i \in 1..Len(ms) /\ Len(ms) \in Nat
  BY LenProperties DEF Indices
<1>2. ms[i] \in Recorded
  BY <1>1, ElementOfSeq
<1> QED BY <1>1, <1>2 DEF Recorded, Mutation, Input

\* What a mutation more adds to the news of its answer.
LEMMA NewsAppend ==
  ASSUME NEW number, NEW ms \in Seq(Recorded), NEW m \in Recorded, NEW id
  PROVE  NewsOf(number, Append(ms, m), id) =
           NewsOf(number, ms, id) \cup
             (IF m.id = id
              THEN {[number |-> number, at |-> Len(ms) + 1, op |-> m.op, label |-> m.input.label]}
              ELSE {})
<1> DEFINE o == Append(ms, m)
           n == Len(ms) + 1
           Item(s, i) == [number |-> number, at |-> i, op |-> s[i].op, label |-> s[i].input.label]
<1>1. Grown(o, ms, n, m)
  BY Appended
<1> HIDE DEF o, n
<1>2. Indices(o, id) = Indices(ms, id) \cup (IF m.id = id THEN {n} ELSE {})
  BY <1>1 DEF Grown, Indices
<1>3. \A i \in Indices(ms, id) : o[i] = ms[i]
  BY <1>1 DEF Grown, Indices
<1>4. \A i \in Indices(ms, id) : Item(o, i) = Item(ms, i)
  BY <1>3
<1>5. Item(o, n) = [number |-> number, at |-> n, op |-> m.op, label |-> m.input.label]
  BY <1>1 DEF Grown
<1> HIDE DEF Item
<1>6. {Item(o, i) : i \in Indices(o, id)} =
        {Item(ms, i) : i \in Indices(ms, id)} \cup (IF m.id = id THEN {Item(o, n)} ELSE {})
  <2>1. \A i \in Indices(ms, id) : i \in Indices(o, id)
    BY <1>2
  <2> QED BY <1>2, <1>4, <2>1
<1> QED BY <1>5, <1>6 DEF NewsOf, Item, o, n

-----------------------------------------------------------------------------
(* The inductive invariant of the events.                                  *)

\* The ids of which the client may show something else.
Excused == {e[1] : e \in excused}

RuntimeTypeOK ==
  /\ built \in Seq(Input) /\ added \in Seq(Input) /\ shown \in Seq(Input)
  /\ mutations \in Seq(Recorded)
  /\ events \in Nat /\ running \in BOOLEAN

\* A control points to the first input with its id, and is the one updates are made from,
\* unless an Add came in between.
Control == [id : Ids, list : {"added", "built", "none"}, at : Nat, fresh : BOOLEAN]
Placed(c) ==
  \/ c.list = "none"
  \/ c.list = "added" /\ c.at # 0 /\ c.at = IndexOf(added, c.id)
  \/ /\ c.list = "built" /\ c.at # 0 /\ c.at = IndexOf(built, c.id)
     /\ c.id \notin Excused => IndexOf(added, c.id) = 0
ControlsPlaced == \A c \in controls : c \in Control /\ Placed(c)

\* Answers are numbered like their events.
Numbered(a) ==
  /\ a.number \in Nat /\ a.number <= events /\ (running => a.number < events)
  /\ a.mutations \in Seq(Recorded)
AnswersNumbered ==
  /\ \A a \in answers : Numbered(a)
  /\ \A a, b \in answers : a.number = b.number => a = b

\* What a failing handler did is excused when it returns.
TouchedRecorded == \A i \in DOMAIN mutations : mutations[i].id \in touched \cup Excused

\* What is on its way makes the client show what the DSL has.
Tracked(id) == Leads(Pending(id), Labelled(shown, id), DslLabel(id))
Tracks == \A id \in Ids \ Excused : Tracked(id)

RuntimeInv ==
  /\ RuntimeTypeOK
  /\ ControlsPlaced
  /\ AnswersNumbered
  /\ TouchedRecorded
  /\ Tracks

LEMMA Excuses ==
  ASSUME NEW reason, NEW ids, Because(reason, ids)
  PROVE  Excused' = Excused \cup ids
<1>1. excused' = excused \cup {<<id, reason>> : id \in ids}
  BY DEF Because
<1>2. Excused' = {e[1] : e \in excused'}
  BY DEF Excused
<1>3. \A id : <<id, reason>>[1] = id
  OBVIOUS
<1>4. ASSUME NEW id \in Excused' PROVE id \in Excused \cup ids
  <2>1. PICK e \in excused' : id = e[1]
    BY <1>2
  <2>2. CASE e \in excused
    BY <2>1, <2>2 DEF Excused
  <2>3. CASE e \notin excused
    <3>1. PICK i \in ids : e = <<i, reason>>
      BY <1>1, <2>1, <2>3
    <3> QED BY <1>3, <2>1, <3>1
  <2> QED BY <2>2, <2>3
<1>5. ASSUME NEW id \in ids PROVE id \in Excused'
  <2>1. <<id, reason>> \in excused'
    BY <1>1
  <2> QED BY <1>2, <1>3, <2>1
<1>6. ASSUME NEW id \in Excused PROVE id \in Excused'
  BY <1>1, <1>2 DEF Excused
<1> QED BY <1>4, <1>5, <1>6

LEMMA ExcusedKept ==
  ASSUME UNCHANGED excused
  PROVE  Excused' = Excused
BY DEF Excused

LEMMA HasLabel ==
  ASSUME NEW id
  PROVE  Has(id) <=> DslLabel(id) # {}
<1>1. IndexOf(added, id) = 0 <=> Labelled(added, id) = {}
  BY DEF Labelled
<1>2. IndexOf(built, id) = 0 <=> Labelled(built, id) = {}
  BY DEF Labelled
<1> QED BY <1>1, <1>2 DEF Has, DslLabel

\* The input a control of a known id is updated or removed with.
LEMMA FoundIs ==
  ASSUME RuntimeTypeOK, NEW id, Has(id)
  PROVE  InputOf(Find(id)) \in Input /\ InputOf(Find(id)).id = id
<1>1. added \in Seq(Input) /\ built \in Seq(Input)
  BY DEF RuntimeTypeOK
<1>2. CASE IndexOf(added, id) # 0
  <2>1. InputOf(Find(id)) = added[IndexOf(added, id)]
    BY <1>2 DEF InputOf, Find
  <2> QED BY <1>1, <1>2, <2>1, IndexIs
<1>3. CASE IndexOf(added, id) = 0
  <2>1. InputOf(Find(id)) = built[IndexOf(built, id)] /\ IndexOf(built, id) # 0
    BY <1>3 DEF InputOf, Find, Has
  <2> QED BY <1>1, <2>1, IndexIs
<1> QED BY <1>2, <1>3

LEMMA PendingAre ==
  ASSUME RuntimeTypeOK, AnswersNumbered, NEW id
  PROVE  /\ Pending(id) \subseteq News
         /\ running => \A n \in Answered(id) : n.number < events
<1>1. ASSUME NEW a \in answers
      PROVE  /\ NewsOf(a.number, a.mutations, id) \subseteq News
             /\ \A n \in NewsOf(a.number, a.mutations, id) : n.number = a.number
             /\ running => a.number < events
  BY NewsAre DEF AnswersNumbered, Numbered
<1>2. Answered(id) \subseteq News /\ (running => \A n \in Answered(id) : n.number < events)
  BY <1>1 DEF Answered
<1>3. NewsOf(events, mutations, id) \subseteq News
  BY NewsAre DEF RuntimeTypeOK
<1> QED BY <1>2, <1>3 DEF Pending

NewsItem(m) ==
  [number |-> events, at |-> Len(mutations) + 1, op |-> m.op, label |-> m.input.label]

\* A mutation more of the handler is what the client hears last.
LEMMA PendingRecords ==
  ASSUME RuntimeTypeOK, AnswersNumbered, running, running' = running, events' = events,
         answers' = answers, NEW m \in Recorded, mutations' = Append(mutations, m), NEW id
  PROVE  /\ Pending(id)' = Pending(id) \cup (IF m.id = id THEN {NewsItem(m)} ELSE {})
         /\ NewsItem(m) \in News
         /\ \A n \in Pending(id) : Before(n, NewsItem(m))
<1>1. mutations \in Seq(Recorded) /\ events \in Nat /\ Len(mutations) \in Nat
  BY LenProperties DEF RuntimeTypeOK
<1>2. NewsOf(events, mutations', id) =
        NewsOf(events, mutations, id) \cup (IF m.id = id THEN {NewsItem(m)} ELSE {})
  BY <1>1, NewsAppend DEF NewsItem
<1>3. Pending(id)' = Answered(id) \cup NewsOf(events, mutations', id)
  BY DEF Pending, Answered
<1>4. Pending(id) = Answered(id) \cup NewsOf(events, mutations, id)
  BY DEF Pending
<1>5. NewsItem(m) \in News
  BY <1>1 DEF NewsItem, News, Recorded, Mutation, Input
<1>6. \A n \in Answered(id) : n.number < events
  BY PendingAre
<1>7. \A n \in NewsOf(events, mutations, id) : n \in News /\ n.number = events /\ n.at <= Len(mutations)
  BY <1>1, NewsAre
<1>8. NewsItem(m).number = events /\ NewsItem(m).at = Len(mutations) + 1
  BY DEF NewsItem
<1>9. ASSUME NEW n \in Pending(id) PROVE Before(n, NewsItem(m))
  <2>1. CASE n \in Answered(id)
    BY <1>6, <1>8, <2>1 DEF Before
  <2>2. CASE n \in NewsOf(events, mutations, id)
    <3>1. n.number = events /\ n.at <= Len(mutations) /\ n.at \in Nat
      BY <1>7, <2>2 DEF News
    <3>2. n.at < Len(mutations) + 1
      BY <1>1, <3>1
    <3> QED BY <1>8, <3>1, <3>2 DEF Before
  <2> QED BY <1>4, <2>1, <2>2
<1> QED BY <1>2, <1>3, <1>4, <1>5, <1>9

\* The write through a control changes what the DSL has for its id only.
LEMMA StoreFinds ==
  ASSUME RuntimeTypeOK, NEW c \in Control, Placed(c), NEW label \in Labels, Store(c, label)
  PROVE  /\ added' \in Seq(Input) /\ built' \in Seq(Input)
         /\ \A id : /\ IndexOf(added', id) = IndexOf(added, id)
                    /\ IndexOf(built', id) = IndexOf(built, id)
                    /\ id # c.id => DslLabel(id)' = DslLabel(id)
         /\ c.list # "none" /\ c.id \notin Excused => DslLabel(c.id)' = {label}
<1>1. added \in Seq(Input) /\ built \in Seq(Input)
  BY DEF RuntimeTypeOK
<1>2. CASE c.list = "none"
  <2>1. added' = added /\ built' = built
    BY <1>2 DEF Store
  <2> QED BY <1>1, <1>2, <2>1 DEF DslLabel
<1>3. CASE c.list = "added"
  <2> DEFINE at == c.at
             o == added'
  <2>1. built' = built /\ o = Relabelled(added, at, label)
    BY <1>3 DEF Store, Relabelled
  <2>2. at # 0 /\ at = IndexOf(added, c.id)
    BY <1>3 DEF Placed
  <2>3. at \in DOMAIN added /\ added[at].id = c.id
    BY <1>1, <2>2, IndexIs
  <2> HIDE DEF at, o
  <2>4. ASSUME NEW id
        PROVE  /\ o \in Seq(Input)
               /\ IndexOf(o, id) = IndexOf(added, id)
               /\ id # c.id => Labelled(o, id) = Labelled(added, id)
               /\ IndexOf(added, id) = at => Labelled(o, id) = {label}
    BY <1>1, <2>1, <2>3, RelabelFinds
  <2>5. \A id : DslLabel(id)' = IF IndexOf(o, id) # 0 THEN Labelled(o, id) ELSE Labelled(built, id)
    BY <2>1 DEF DslLabel, o
  <2>6. \A id : id # c.id => DslLabel(id)' = DslLabel(id)
    BY <2>4, <2>5 DEF DslLabel
  <2>7. DslLabel(c.id)' = {label}
    BY <2>2, <2>4, <2>5
  <2> QED BY <1>1, <2>1, <2>4, <2>6, <2>7 DEF o
<1>4. CASE c.list = "built"
  <2> DEFINE at == c.at
             o == built'
  <2>1. added' = added /\ o = Relabelled(built, at, label)
    BY <1>4 DEF Store, Relabelled
  <2>2. at # 0 /\ at = IndexOf(built, c.id) /\ (c.id \notin Excused => IndexOf(added, c.id) = 0)
    BY <1>4 DEF Placed
  <2>3. at \in DOMAIN built /\ built[at].id = c.id
    BY <1>1, <2>2, IndexIs
  <2> HIDE DEF at, o
  <2>4. ASSUME NEW id
        PROVE  /\ o \in Seq(Input)
               /\ IndexOf(o, id) = IndexOf(built, id)
               /\ id # c.id => Labelled(o, id) = Labelled(built, id)
               /\ IndexOf(built, id) = at => Labelled(o, id) = {label}
    BY <1>1, <2>1, <2>3, RelabelFinds
  <2>5. \A id : DslLabel(id)' = IF IndexOf(added, id) # 0 THEN Labelled(added, id) ELSE Labelled(o, id)
    BY <2>1 DEF DslLabel, o
  <2>6. \A id : id # c.id => DslLabel(id)' = DslLabel(id)
    BY <2>4, <2>5 DEF DslLabel
  <2>7. c.id \notin Excused => DslLabel(c.id)' = {label}
    BY <2>2, <2>4, <2>5
  <2> QED BY <1>1, <2>1, <2>4, <2>6, <2>7 DEF o
<1> QED BY <1>2, <1>3, <1>4 DEF Control

LEMMA RuntimeInitInv == RuntimeInit => RuntimeInv
<1> SUFFICES ASSUME RuntimeInit PROVE RuntimeInv
  OBVIOUS
<1>1. built \in Seq(Input) /\ shown = built
  BY FormsAssumption DEF RuntimeInit
<1>2. <<>> \in Seq(Input) /\ <<>> \in Seq(Recorded) /\ DOMAIN <<>> = {}
  BY EmptySeq
<1>3. RuntimeTypeOK /\ ControlsPlaced /\ AnswersNumbered /\ TouchedRecorded
  BY <1>1, <1>2
  DEF RuntimeInit, RuntimeTypeOK, ControlsPlaced, AnswersNumbered, TouchedRecorded
<1>4. ASSUME NEW id PROVE Tracked(id)
  <2>1. Pending(id) = {}
    BY DEF RuntimeInit, Pending, Answered
  <2>2. Lacks(added, id)
    BY <1>2 DEF RuntimeInit, Lacks
  <2>3. DslLabel(id) = Labelled(shown, id)
    BY <1>1, <2>2, LacksIs DEF DslLabel
  <2> QED BY <2>1, <2>3 DEF Tracked, Leads
<1> QED BY <1>3, <1>4 DEF RuntimeInv, Tracks

\* What the client is to hear depends on these alone.
LEMMA TrackedKept ==
  ASSUME NEW id, Tracked(id), Pending(id)' = Pending(id),
         shown' = shown, DslLabel(id)' = DslLabel(id)
  PROVE  Tracked(id)'
<1>1. Labelled(shown, id)' = Labelled(shown, id)
  BY DEF Labelled, IndexOf, Indices
<1> QED BY <1>1 DEF Tracked, Leads

LEMMA TracksKept ==
  ASSUME Tracks, Excused \subseteq Excused',
         UNCHANGED <<built, added, shown, answers, running, events, mutations>>
  PROVE  Tracks'
<1> SUFFICES ASSUME NEW id \in Ids, id \notin Excused' PROVE Tracked(id)'
  BY DEF Tracks
<1>1. Tracked(id)
  BY DEF Tracks
<1>2. Pending(id)' = Pending(id)
  BY DEF Pending, Answered, NewsOf, Indices
<1>3. DslLabel(id)' = DslLabel(id)
  BY DEF DslLabel, Labelled, IndexOf, Indices
<1> QED BY <1>1, <1>2, <1>3, TrackedKept

LEMMA PlacedKept ==
  ASSUME NEW c, Placed(c), Excused \subseteq Excused',
         IndexOf(added', c.id) = IndexOf(added, c.id),
         IndexOf(built', c.id) = IndexOf(built, c.id)
  PROVE  Placed(c)'
BY DEF Placed, IndexOf, Indices

LEMMA IndexNat ==
  ASSUME NEW list \in Seq(Input), NEW id
  PROVE  IndexOf(list, id) \in Nat
<1>1. IndexOf(list, id) = 0 \/ IndexOf(list, id) \in DOMAIN list
  BY IndexIs
<1> QED BY <1>1, LenProperties

LEMMA FindPlaced ==
  ASSUME RuntimeTypeOK, NEW id \in Ids, Has(id)
  PROVE  Find(id) \in Control /\ Placed(Find(id))
<1>1. IndexOf(added, id) \in Nat /\ IndexOf(built, id) \in Nat
  BY IndexNat DEF RuntimeTypeOK
<1>2. CASE IndexOf(added, id) # 0
  <2>1. PICK c : c = Find(id)
    OBVIOUS
  <2>2. c = [id |-> id, list |-> "added", at |-> IndexOf(added, id), fresh |-> TRUE]
    BY <1>2, <2>1 DEF Find
  <2> QED BY <1>1, <1>2, <2>1, <2>2 DEF Control, Placed
<1>3. CASE IndexOf(added, id) = 0
  <2>1. PICK c : c = Find(id)
    OBVIOUS
  <2>2. c = [id |-> id, list |-> "built", at |-> IndexOf(built, id), fresh |-> TRUE]
    BY <1>3, <2>1 DEF Find
  <2>3. IndexOf(built, id) # 0
    BY <1>3 DEF Has
  <2> QED BY <1>1, <1>3, <2>1, <2>2, <2>3 DEF Control, Placed
<1> QED BY <1>2, <1>3

LEMMA GetControlInv ==
  ASSUME RuntimeInv, GetControl
  PROVE  RuntimeInv'
<1>1. /\ UNCHANGED <<built, added, room, events, running, shown, answers>>
      /\ UNCHANGED <<mutations, touched, Excused>>
  BY ExcusedKept DEF GetControl, Calling, client
<1>2. PICK id \in Ids : \/ Has(id) /\ controls' = controls \cup {Find(id)}
                        \/ controls' = controls \cup {[id |-> id, list |-> "none", at |-> 0, fresh |-> TRUE]}
  BY DEF GetControl
<1>3. ASSUME NEW c \in controls' PROVE c \in Control /\ Placed(c)
  <2>1. CASE c \in controls
    BY <2>1 DEF RuntimeInv, ControlsPlaced
  <2>2. CASE Has(id) /\ c = Find(id)
    BY <2>2, FindPlaced DEF RuntimeInv
  <2>3. CASE c = [id |-> id, list |-> "none", at |-> 0, fresh |-> TRUE]
    BY <2>3 DEF Control, Placed
  <2> QED BY <1>2, <2>1, <2>2, <2>3
<1>4. ControlsPlaced'
  <2> SUFFICES ASSUME NEW c \in controls' PROVE c \in Control /\ Placed(c)'
    BY DEF ControlsPlaced, Control
  <2> QED BY <1>1, <1>3, PlacedKept
<1>5. Tracks'
  BY <1>1, TracksKept DEF RuntimeInv
<1> QED BY <1>1, <1>4, <1>5
  DEF RuntimeInv, RuntimeTypeOK, AnswersNumbered, Numbered, TouchedRecorded

LEMMA SetErrorInv ==
  ASSUME RuntimeInv, SetError
  PROVE  RuntimeInv'
<1>1. /\ UNCHANGED <<built, added, room, events, running, shown, answers>>
      /\ UNCHANGED <<controls, mutations, touched, Excused>>
  BY ExcusedKept DEF SetError, Calling, client
<1>2. ControlsPlaced'
  <2> SUFFICES ASSUME NEW c \in controls PROVE c \in Control /\ Placed(c)'
    BY <1>1 DEF ControlsPlaced, Control
  <2> QED BY <1>1, PlacedKept DEF RuntimeInv, ControlsPlaced
<1>3. Tracks'
  BY <1>1, TracksKept DEF RuntimeInv
<1> QED BY <1>1, <1>2, <1>3
  DEF RuntimeInv, RuntimeTypeOK, AnswersNumbered, Numbered, TouchedRecorded

LEMMA BeginInv ==
  ASSUME RuntimeInv, Begin
  PROVE  RuntimeInv'
<1>1. /\ ~running /\ running' = TRUE /\ events' = events + 1
      /\ controls' = {[c EXCEPT !.fresh = FALSE] : c \in controls} /\ mutations' = <<>>
      /\ UNCHANGED <<built, added, room, shown, answers, Excused>>
  BY ExcusedKept DEF Begin, tree, client
<1>2. RuntimeTypeOK' /\ ControlsPlaced' /\ TouchedRecorded'
  <2>1. RuntimeTypeOK' /\ TouchedRecorded'
    BY <1>1, EmptySeq DEF RuntimeInv, RuntimeTypeOK, TouchedRecorded
  <2>2. ASSUME NEW c \in controls' PROVE c \in Control /\ Placed(c)'
    <3>1. PICK d \in controls : c = [d EXCEPT !.fresh = FALSE]
      BY <1>1
    <3>2. d \in Control /\ Placed(d)
      BY DEF RuntimeInv, ControlsPlaced
    <3>3. c \in Control /\ c.id = d.id /\ c.list = d.list /\ c.at = d.at
      BY <3>1, <3>2 DEF Control
    <3>4. Placed(c)
      BY <3>2, <3>3 DEF Placed
    <3> QED BY <1>1, <3>3, <3>4, PlacedKept
  <2>3. ControlsPlaced'
    BY <2>2 DEF ControlsPlaced, Control
  <2> QED BY <2>1, <2>3
<1>3. AnswersNumbered'
  <2>1. events \in Nat
    BY DEF RuntimeInv, RuntimeTypeOK
  <2>2. ASSUME NEW a, Numbered(a) PROVE Numbered(a)'
    BY <1>1, <2>1, <2>2 DEF Numbered, Recorded, Mutation, Fitting
  <2> QED BY <1>1, <2>2 DEF RuntimeInv, AnswersNumbered
<1>4. ASSUME NEW id \in Ids, id \notin Excused PROVE Tracked(id)'
  <2>1. Tracked(id)
    BY <1>4 DEF RuntimeInv, Tracks
  <2>2. Pending(id)' = Pending(id)
    <3>1. NewsOf(events', mutations', id) = {}
      BY <1>1, EmptySeq DEF NewsOf, Indices
    <3> QED BY <1>1, <3>1 DEF Pending, Answered
  <2>3. DslLabel(id)' = DslLabel(id)
    BY <1>1 DEF DslLabel, Labelled, IndexOf, Indices
  <2> QED BY <1>1, <2>1, <2>2, <2>3, TrackedKept
<1>5. Tracks'
  BY <1>1, <1>4 DEF Tracks
<1> QED BY <1>2, <1>3, <1>5 DEF RuntimeInv

Noted(op, input) == [op |-> op, id |-> input.id, input |-> input]

\* What a call of the handler records.
LEMMA RecordNotes ==
  ASSUME RuntimeTypeOK, TouchedRecorded, NEW op \in {"add", "update", "remove"},
         NEW input \in Input, Record(op, input),
         touched \subseteq touched', Excused \subseteq Excused',
         input.id \in touched' \cup Excused'
  PROVE  /\ Noted(op, input) \in Recorded /\ Noted(op, input).id = input.id
         /\ Noted(op, input).op = op /\ Noted(op, input).input = input
         /\ mutations' = Append(mutations, Noted(op, input))
         /\ mutations' \in Seq(Recorded)
         /\ TouchedRecorded'
<1> DEFINE m == Noted(op, input)
<1>1. m \in Recorded /\ m.id = input.id /\ m.op = op /\ m.input = input
  BY DEF Noted, Recorded, Mutation, Fitting, Input
<1>2. mutations' = Append(mutations, m)
  BY DEF Record, Noted
<1> HIDE DEF m
<1>3. mutations \in Seq(Recorded)
  BY DEF RuntimeTypeOK
<1>4. mutations' \in Seq(Recorded) /\ Grown(mutations', mutations, Len(mutations) + 1, m)
  BY <1>1, <1>2, <1>3, Appended
<1>5. TouchedRecorded'
  BY <1>1, <1>4 DEF TouchedRecorded, Grown
<1> QED BY <1>1, <1>2, <1>4, <1>5 DEF m

\* The ids it is not about are heard of as before.
LEMMA OthersTracked ==
  ASSUME RuntimeInv, running, running' = running, events' = events,
         answers' = answers, shown' = shown,
         NEW m \in Recorded, mutations' = Append(mutations, m),
         NEW id \in Ids, id \notin Excused, id # m.id, DslLabel(id)' = DslLabel(id)
  PROVE  Tracked(id)'
<1>1. Tracked(id)
  BY DEF RuntimeInv, Tracks
<1>2. Pending(id)' = Pending(id)
  BY PendingRecords DEF RuntimeInv
<1> QED BY <1>1, <1>2, TrackedKept

LEMMA NumberedKept ==
  ASSUME AnswersNumbered, UNCHANGED <<answers, events, running>>
  PROVE  AnswersNumbered'
BY DEF AnswersNumbered, Numbered, Recorded, Mutation, Fitting

LEMMA RemoveControlInv ==
  ASSUME RuntimeInv, RemoveControl
  PROVE  RuntimeInv'
<1>1. /\ running /\ UNCHANGED <<built, added, room, events, running, shown, answers>>
      /\ UNCHANGED <<controls, touched>>
  BY DEF RemoveControl, Calling, client
<1>2. PICK id \in Ids :
        \/ /\ Has(id) /\ Record("remove", InputOf(Find(id)))
           /\ Excused' = Excused \cup {id}
        \/ UNCHANGED <<mutations, Excused>>
  BY Excuses, ExcusedKept DEF RemoveControl
<1>3. ControlsPlaced'
  <2> SUFFICES ASSUME NEW c \in controls PROVE c \in Control /\ Placed(c)'
    BY <1>1 DEF ControlsPlaced, Control
  <2>1. Excused \subseteq Excused'
    BY <1>2
  <2> QED BY <1>1, <2>1, PlacedKept DEF RuntimeInv, ControlsPlaced
<1>4. AnswersNumbered'
  BY <1>1, NumberedKept DEF RuntimeInv
<1>5. CASE Has(id) /\ Record("remove", InputOf(Find(id))) /\ Excused' = Excused \cup {id}
  <2>1. PICK input : input = InputOf(Find(id))
    OBVIOUS
  <2>2. input \in Input /\ input.id = id /\ Record("remove", input)
    BY <1>5, <2>1, FoundIs DEF RuntimeInv
  <2>3. PICK m : m = Noted("remove", input)
    OBVIOUS
  <2>4. /\ m \in Recorded /\ m.id = id /\ mutations' = Append(mutations, m)
        /\ mutations' \in Seq(Recorded) /\ TouchedRecorded'
    <3>1. input.id \in touched' \cup Excused' /\ touched \subseteq touched' /\ Excused \subseteq Excused'
      BY <1>1, <1>5, <2>2
    <3>2. RuntimeTypeOK /\ TouchedRecorded
      BY DEF RuntimeInv
    <3> QED BY <2>2, <2>3, <3>1, <3>2, RecordNotes
  <2>5. ASSUME NEW other \in Ids, other \notin Excused' PROVE Tracked(other)'
    <3>1. other \notin Excused /\ other # m.id
      BY <1>5, <2>4, <2>5
    <3>2. DslLabel(other)' = DslLabel(other)
      BY <1>1 DEF DslLabel, Labelled, IndexOf, Indices
    <3> QED BY <1>1, <2>4, <3>1, <3>2, OthersTracked
  <2>6. Tracks'
    BY <2>5 DEF Tracks
  <2> QED BY <1>1, <1>3, <1>4, <2>4, <2>6 DEF RuntimeInv, RuntimeTypeOK
<1>6. CASE UNCHANGED <<mutations, Excused>>
  <2>1. Tracks'
    BY <1>1, <1>6, TracksKept DEF RuntimeInv
  <2> QED BY <1>1, <1>3, <1>4, <1>6, <2>1 DEF RuntimeInv, RuntimeTypeOK, TouchedRecorded
<1> QED BY <1>2, <1>5, <1>6

\* The DSL does not get what the client is told to add, and its id is excused.
LEMMA AddNodeInv ==
  ASSUME RuntimeInv, AddNode
  PROVE  RuntimeInv'
<1>1. /\ running /\ UNCHANGED <<built, added, room, events, running, shown, answers>>
      /\ UNCHANGED <<controls, touched>>
  BY DEF AddNode, Calling, client
<1>2. PICK input \in Addable : Record("add", input) /\ Excused' = Excused \cup {input.id}
  BY Excuses DEF AddNode
<1>3. input \in Input
  BY FormsAssumption
<1>4. ControlsPlaced'
  <2> SUFFICES ASSUME NEW c \in controls PROVE c \in Control /\ Placed(c)'
    BY <1>1 DEF ControlsPlaced, Control
  <2> QED BY <1>1, <1>2, PlacedKept DEF RuntimeInv, ControlsPlaced
<1>5. AnswersNumbered'
  BY <1>1, NumberedKept DEF RuntimeInv
<1>6. PICK m : m = Noted("add", input)
  OBVIOUS
<1>7. /\ m \in Recorded /\ m.id = input.id /\ mutations' = Append(mutations, m)
      /\ mutations' \in Seq(Recorded) /\ TouchedRecorded'
  <2>1. input.id \in touched' \cup Excused' /\ touched \subseteq touched' /\ Excused \subseteq Excused'
    BY <1>1, <1>2
  <2>2. RuntimeTypeOK /\ TouchedRecorded
    BY DEF RuntimeInv
  <2> QED BY <1>2, <1>3, <1>6, <2>1, <2>2, RecordNotes
<1>8. ASSUME NEW id \in Ids, id \notin Excused' PROVE Tracked(id)'
  <2>1. id \notin Excused /\ id # m.id
    BY <1>2, <1>7, <1>8
  <2>2. DslLabel(id)' = DslLabel(id)
    BY <1>1 DEF DslLabel, Labelled, IndexOf, Indices
  <2> QED BY <1>1, <1>7, <2>1, <2>2, OthersTracked
<1>9. Tracks'
  BY <1>8 DEF Tracks
<1> QED BY <1>1, <1>4, <1>5, <1>7, <1>9 DEF RuntimeInv, RuntimeTypeOK

LEMMA SetLabelInv ==
  ASSUME RuntimeInv, SetLabel
  PROVE  RuntimeInv'
<1>1. running /\ UNCHANGED <<room, events, running, controls, shown, answers>>
  BY DEF SetLabel, client
<1>2. PICK control \in controls, label \in Labels :
        \/ /\ Has(control.id) /\ Store(control, label)
           /\ Record("update", [InputOf(Find(control.id)) EXCEPT !.label = label])
           /\ touched' = touched \cup {control.id}
           /\ Excused' = IF control.list = "none" THEN Excused \cup {control.id} ELSE Excused
        \/ /\ Store(control, label) /\ UNCHANGED mutations
           /\ touched' = touched \cup {control.id}
           /\ Excused' = Excused \cup {control.id}
        \/ UNCHANGED <<built, added, mutations, touched, Excused>>
  BY Excuses, ExcusedKept DEF SetLabel
<1>3. AnswersNumbered'
  BY <1>1, NumberedKept DEF RuntimeInv
<1>4. CASE UNCHANGED <<built, added, mutations, touched, Excused>>
  <2>1. ControlsPlaced'
    <3> SUFFICES ASSUME NEW c \in controls PROVE c \in Control /\ Placed(c)'
      BY <1>1 DEF ControlsPlaced, Control
    <3> QED BY <1>4, PlacedKept DEF RuntimeInv, ControlsPlaced
  <2>2. Tracks'
    BY <1>1, <1>4, TracksKept DEF RuntimeInv
  <2> QED BY <1>1, <1>3, <1>4, <2>1, <2>2 DEF RuntimeInv, RuntimeTypeOK, TouchedRecorded
<1>5. CASE /\ Has(control.id) /\ Store(control, label)
           /\ Record("update", [InputOf(Find(control.id)) EXCEPT !.label = label])
           /\ touched' = touched \cup {control.id}
           /\ Excused' = IF control.list = "none" THEN Excused \cup {control.id} ELSE Excused
  <2>1. PICK id : id = control.id
    OBVIOUS
  <2>2. control \in Control /\ Placed(control) /\ id \in Ids
    BY <2>1 DEF RuntimeInv, ControlsPlaced, Control
  <2>3. PICK found : found = InputOf(Find(id))
    OBVIOUS
  <2>4. found \in Input /\ found.id = id
    BY <1>5, <2>1, <2>3, FoundIs DEF RuntimeInv
  <2>5. PICK input : input = [found EXCEPT !.label = label]
    OBVIOUS
  <2>6. input \in Input /\ input.id = id /\ input.label = label
    BY <2>4, <2>5 DEF Input
  <2>7. Record("update", input)
    BY <1>5, <2>1, <2>3, <2>5
  <2>8. Excused \subseteq Excused' /\ touched \subseteq touched' /\ input.id \in touched' \cup Excused'
    BY <1>5, <2>1, <2>6
  <2>9. PICK m : m = Noted("update", input)
    OBVIOUS
  <2>10. /\ m \in Recorded /\ m.id = id /\ m.op = "update" /\ m.input = input
         /\ mutations' = Append(mutations, m)
         /\ mutations' \in Seq(Recorded) /\ TouchedRecorded'
    <3>1. RuntimeTypeOK /\ TouchedRecorded
      BY DEF RuntimeInv
    <3> QED BY <2>6, <2>7, <2>8, <2>9, <3>1, RecordNotes
  <2>11. /\ added' \in Seq(Input) /\ built' \in Seq(Input)
         /\ \A other : /\ IndexOf(added', other) = IndexOf(added, other)
                       /\ IndexOf(built', other) = IndexOf(built, other)
                       /\ other # control.id => DslLabel(other)' = DslLabel(other)
         /\ control.list # "none" /\ control.id \notin Excused => DslLabel(control.id)' = {label}
    <3>1. RuntimeTypeOK /\ Store(control, label)
      BY <1>5 DEF RuntimeInv
    <3> QED BY <2>2, <3>1, StoreFinds
  <2>12. ControlsPlaced'
    <3> SUFFICES ASSUME NEW c \in controls PROVE c \in Control /\ Placed(c)'
      BY <1>1 DEF ControlsPlaced, Control
    <3>1. c \in Control /\ Placed(c)
      BY DEF RuntimeInv, ControlsPlaced
    <3> QED BY <2>8, <2>11, <3>1, PlacedKept
  <2>13. ASSUME NEW other \in Ids, other \notin Excused' PROVE Tracked(other)'
    <3>1. other \notin Excused
      BY <2>8, <2>13
    <3>2. CASE other # id
      <4>1. DslLabel(other)' = DslLabel(other) /\ other # m.id
        BY <2>1, <2>10, <2>11, <3>2
      <4> QED BY <1>1, <2>10, <3>1, <4>1, OthersTracked
    <3>3. CASE other = id
      <4>1. control.list # "none" /\ DslLabel(id)' = {label}
        BY <1>5, <2>1, <2>11, <2>13, <3>1, <3>3
      <4>2. Leads(Pending(id), Labelled(shown, id), DslLabel(id))
        BY <2>2, <3>1, <3>3 DEF RuntimeInv, Tracks, Tracked
      <4>3. DslLabel(id) # {}
        BY <1>5, <2>1, HasLabel DEF RuntimeInv
      <4>4. PICK new : new = NewsItem(m)
        OBVIOUS
      <4>5. /\ Pending(id)' = Pending(id) \cup {new} /\ new \in News
            /\ \A n \in Pending(id) : Before(n, new)
        <5>1. RuntimeTypeOK /\ AnswersNumbered
          BY DEF RuntimeInv
        <5>2. running /\ running' = running /\ events' = events /\ answers' = answers
          BY <1>1
        <5>3. /\ Pending(id)' = Pending(id) \cup (IF m.id = id THEN {NewsItem(m)} ELSE {})
              /\ NewsItem(m) \in News
              /\ \A n \in Pending(id) : Before(n, NewsItem(m))
          BY <2>10, <5>1, <5>2, PendingRecords
        <5> QED BY <2>10, <4>4, <5>3
      <4>6. new.op = "update" /\ new.label = label
        BY <2>6, <2>10, <4>4 DEF NewsItem
      <4>7. Pending(id) \in SUBSET News
        BY PendingAre DEF RuntimeInv
      <4>8. Leads(Pending(id) \cup {new}, Labelled(shown, id), {new.label})
        BY <4>2, <4>3, <4>5, <4>6, <4>7, UpdateLeads
      <4>9. Labelled(shown, id)' = Labelled(shown, id)
        BY <1>1 DEF Labelled, IndexOf, Indices
      <4>10. Leads(Pending(id)', Labelled(shown, id)', DslLabel(id)')
        BY <4>1, <4>5, <4>6, <4>8, <4>9
      <4> QED BY <3>3, <4>10 DEF Tracked, Leads
    <3> QED BY <3>2, <3>3
  <2>14. Tracks'
    BY <2>13 DEF Tracks
  <2> QED BY <1>1, <1>3, <2>10, <2>11, <2>12, <2>14 DEF RuntimeInv, RuntimeTypeOK
<1>6. CASE /\ Store(control, label) /\ UNCHANGED mutations
           /\ touched' = touched \cup {control.id}
           /\ Excused' = Excused \cup {control.id}
  <2>1. control \in Control /\ Placed(control)
    BY DEF RuntimeInv, ControlsPlaced
  <2>2. RuntimeTypeOK /\ TouchedRecorded
    BY DEF RuntimeInv
  <2>3. /\ added' \in Seq(Input) /\ built' \in Seq(Input)
        /\ \A other : /\ IndexOf(added', other) = IndexOf(added, other)
                      /\ IndexOf(built', other) = IndexOf(built, other)
                      /\ other # control.id => DslLabel(other)' = DslLabel(other)
    BY <1>6, <2>1, <2>2, StoreFinds
  <2>4. ControlsPlaced'
    <3> SUFFICES ASSUME NEW c \in controls PROVE c \in Control /\ Placed(c)'
      BY <1>1 DEF ControlsPlaced, Control
    <3>1. c \in Control /\ Placed(c)
      BY DEF RuntimeInv, ControlsPlaced
    <3> QED BY <1>6, <2>3, <3>1, PlacedKept
  <2>5. ASSUME NEW other \in Ids, other \notin Excused' PROVE Tracked(other)'
    <3>1. Tracked(other) /\ DslLabel(other)' = DslLabel(other)
      BY <1>6, <2>3, <2>5 DEF RuntimeInv, Tracks
    <3>2. Pending(other)' = Pending(other)
      BY <1>1, <1>6 DEF Pending, Answered, NewsOf, Indices
    <3> QED BY <1>1, <3>1, <3>2, TrackedKept
  <2>6. Tracks'
    BY <2>5 DEF Tracks
  <2>7. TouchedRecorded'
    BY <1>6, <2>2 DEF TouchedRecorded
  <2> QED BY <1>1, <1>3, <1>6, <2>2, <2>3, <2>4, <2>6, <2>7 DEF RuntimeInv, RuntimeTypeOK
<1> QED BY <1>2, <1>4, <1>5, <1>6

LEMMA AddInv ==
  ASSUME RuntimeInv, Add
  PROVE  RuntimeInv'
<1>1. running /\ UNCHANGED <<built, events, running, shown, answers>>
  BY DEF Add, client
<1>2. PICK input \in Addable :
        /\ added' = Append(added, input)
        /\ \/ controls' = controls
           \/ controls' = {IF c.list = "added" THEN [c EXCEPT !.list = "none"] ELSE c : c \in controls}
        /\ Record("add", input)
        /\ touched' = touched \cup {input.id}
        /\ Excused' = IF Has(input.id) THEN Excused \cup {input.id} ELSE Excused
  BY Excuses, ExcusedKept DEF Add
<1>3. input \in Input /\ input.id \in Ids
  BY FormsAssumption DEF Input
<1>4. RuntimeTypeOK /\ TouchedRecorded /\ AnswersNumbered /\ ControlsPlaced
  BY DEF RuntimeInv
<1>5. AnswersNumbered'
  BY <1>1, <1>4, NumberedKept
<1>6. Excused \subseteq Excused' /\ touched \subseteq touched' /\ input.id \in touched' \cup Excused'
  BY <1>2
<1>7. PICK m : m = Noted("add", input)
  OBVIOUS
<1>8. /\ m \in Recorded /\ m.id = input.id /\ m.op = "add" /\ m.input = input
      /\ mutations' = Append(mutations, m)
      /\ mutations' \in Seq(Recorded) /\ TouchedRecorded'
  BY <1>2, <1>3, <1>4, <1>6, <1>7, RecordNotes
<1>9. \A id : /\ added' \in Seq(Input)
              /\ IndexOf(added, id) # 0 \/ input.id # id =>
                   /\ IndexOf(added', id) = IndexOf(added, id)
                   /\ Labelled(added', id) = Labelled(added, id)
              /\ IndexOf(added, id) = 0 /\ input.id = id =>
                   /\ IndexOf(added', id) # 0
                   /\ Labelled(added', id) = {input.label}
  <2>1. PICK o : o = added'
    OBVIOUS
  <2>2. added \in Seq(Input) /\ o = Append(added, input)
    BY <1>2, <1>4, <2>1 DEF RuntimeTypeOK
  <2>3. \A id : o \in Seq(Input) /\ FoundAfter(o, added, input, id)
    BY <1>3, <2>2, AppendFinds
  <2> QED BY <2>1, <2>3 DEF FoundAfter
<1>10. ASSUME NEW c \in Control, Placed(c), c.list # "added" \/ controls' = controls
       PROVE  Placed(c)'
  <2>1. CASE c.list = "none"
    BY <2>1 DEF Placed
  <2>2. CASE c.list = "added" /\ c.at # 0 /\ c.at = IndexOf(added, c.id)
    <3>1. IndexOf(added', c.id) = IndexOf(added, c.id)
      BY <1>9, <2>2
    <3> QED BY <2>2, <3>1 DEF Placed, IndexOf, Indices
  <2>3. CASE /\ c.list = "built" /\ c.at # 0 /\ c.at = IndexOf(built, c.id)
             /\ c.id \notin Excused => IndexOf(added, c.id) = 0
    <3>1. c.id \notin Excused' => c.id # input.id
      BY <1>2, <2>3 DEF Has
    <3>2. c.id \notin Excused' => IndexOf(added', c.id) = 0
      BY <1>6, <1>9, <2>3, <3>1
    <3>3. c.at = IndexOf(built', c.id)
      BY <1>1, <2>3
    <3> QED BY <2>3, <3>2, <3>3 DEF Placed, IndexOf, Indices
  <2> QED BY <1>10, <2>1, <2>2, <2>3 DEF Placed
<1>11. ControlsPlaced'
  <2> SUFFICES ASSUME NEW c \in controls' PROVE c \in Control /\ Placed(c)'
    BY DEF ControlsPlaced, Control
  <2>1. CASE controls' = controls
    BY <1>4, <1>10, <2>1 DEF ControlsPlaced
  <2>2. CASE controls' = {IF d.list = "added" THEN [d EXCEPT !.list = "none"] ELSE d : d \in controls}
    <3>1. PICK d \in controls : c = IF d.list = "added" THEN [d EXCEPT !.list = "none"] ELSE d
      BY <2>2
    <3>2. d \in Control /\ Placed(d)
      BY <1>4 DEF ControlsPlaced
    <3>3. CASE d.list = "added"
      <4>1. c \in Control /\ c.list = "none"
        BY <3>1, <3>2, <3>3 DEF Control
      <4> QED BY <4>1 DEF Placed
    <3>4. CASE d.list # "added"
      BY <1>10, <3>1, <3>2, <3>4
    <3> QED BY <3>3, <3>4
  <2> QED BY <1>2, <2>1, <2>2
<1>12. ASSUME NEW id \in Ids, id \notin Excused' PROVE Tracked(id)'
  <2>1. id \notin Excused
    BY <1>6, <1>12
  <2>2. Labelled(built, id)' = Labelled(built, id)
    BY <1>1 DEF Labelled, IndexOf, Indices
  <2>3. DslLabel(id)' = IF IndexOf(added', id) # 0 THEN Labelled(added', id) ELSE Labelled(built, id)
    BY <2>2 DEF DslLabel, Labelled, IndexOf, Indices
  <2>4. CASE id # input.id
    <3>1. DslLabel(id)' = DslLabel(id)
      BY <1>9, <2>3, <2>4 DEF DslLabel
    <3>2. id # m.id
      BY <1>8, <2>4
    <3> QED BY <1>1, <1>8, <2>1, <3>1, <3>2, OthersTracked
  <2>5. CASE id = input.id
    <3>1. ~Has(id)
      BY <1>2, <1>12, <2>5
    <3>2. DslLabel(id) = {} /\ IndexOf(added, id) = 0
      BY <1>4, <3>1, HasLabel DEF Has
    <3>3. DslLabel(id)' = {input.label}
      BY <1>9, <2>3, <2>5, <3>2
    <3>4. Leads(Pending(id), Labelled(shown, id), DslLabel(id))
      BY <2>1 DEF RuntimeInv, Tracks, Tracked
    <3>5. PICK new : new = NewsItem(m)
      OBVIOUS
    <3>6. Pending(id)' = Pending(id) \cup {new} /\ new \in News
      <4>1. running /\ running' = running /\ events' = events /\ answers' = answers
        BY <1>1
      <4>2. /\ Pending(id)' = Pending(id) \cup (IF m.id = id THEN {NewsItem(m)} ELSE {})
            /\ NewsItem(m) \in News
        BY <1>4, <1>8, <4>1, PendingRecords
      <4> QED BY <1>8, <2>5, <3>5, <4>2
    <3>7. new.op = "add" /\ new.label = input.label
      BY <1>8, <3>5 DEF NewsItem
    <3>8. Pending(id) = {} /\ Leads({new}, Labelled(shown, id), {new.label})
      BY <3>2, <3>4, <3>6, <3>7, AddLeads
    <3>9. Labelled(shown, id)' = Labelled(shown, id)
      BY <1>1 DEF Labelled, IndexOf, Indices
    <3>10. Pending(id)' = {new}
      BY <3>6, <3>8
    <3>11. Leads(Pending(id)', Labelled(shown, id)', DslLabel(id)')
      BY <3>3, <3>7, <3>8, <3>9, <3>10
    <3> QED BY <3>11 DEF Tracked, Leads
  <2> QED BY <2>4, <2>5
<1>13. Tracks'
  BY <1>12 DEF Tracks
<1>14. RuntimeTypeOK'
  BY <1>1, <1>4, <1>8, <1>9 DEF RuntimeTypeOK
<1> QED BY <1>5, <1>8, <1>11, <1>13, <1>14 DEF RuntimeInv

\* A handler that is not answered leaves nothing about the ids that are not excused.
LEMMA EndInv ==
  ASSUME RuntimeInv, running, running' = FALSE,
         UNCHANGED <<built, added, room, shown, events, controls, mutations, touched>>,
         \/ Excused' = Excused \cup touched /\ answers' = answers
         \/ /\ answers' = answers \cup {[number |-> events, mutations |-> mutations]}
            /\ Excused' = Excused
  PROVE  RuntimeInv'
<1>1. /\ running /\ running' = FALSE
      /\ UNCHANGED <<built, added, room, shown, events, controls, mutations, touched>>
  OBVIOUS
<1>2. \/ Excused' = Excused \cup touched /\ answers' = answers
      \/ /\ answers' = answers \cup {[number |-> events, mutations |-> mutations]}
         /\ Excused' = Excused
  OBVIOUS
<1>3. RuntimeTypeOK /\ AnswersNumbered /\ ControlsPlaced /\ TouchedRecorded
  BY DEF RuntimeInv
<1>4. RuntimeTypeOK'
  BY <1>1, <1>3 DEF RuntimeTypeOK
<1>5. Excused \subseteq Excused'
  BY <1>2
<1>6. ControlsPlaced'
  <2> SUFFICES ASSUME NEW c \in controls PROVE c \in Control /\ Placed(c)'
    BY <1>1 DEF ControlsPlaced, Control
  <2> QED BY <1>1, <1>3, <1>5, PlacedKept DEF ControlsPlaced
<1>7. TouchedRecorded'
  BY <1>1, <1>3, <1>5 DEF TouchedRecorded
<1>8. \A a : Numbered(a) => Numbered(a)'
  BY <1>1 DEF Numbered, Recorded, Mutation, Fitting
<1>9. \A id : DslLabel(id)' = DslLabel(id)
  BY <1>1 DEF DslLabel, Labelled, IndexOf, Indices
<1>10. CASE Excused' = Excused \cup touched /\ answers' = answers
  <2>1. AnswersNumbered'
    BY <1>3, <1>8, <1>10 DEF AnswersNumbered
  <2>2. ASSUME NEW id \in Ids, id \notin Excused' PROVE Tracked(id)'
    <3>1. Tracked(id)
      BY <1>10, <2>2 DEF RuntimeInv, Tracks
    <3>2. NewsOf(events, mutations, id) = {}
      <4>1. \A i \in DOMAIN mutations : mutations[i].id # id
        BY <1>3, <1>10, <2>2 DEF TouchedRecorded
      <4> QED BY <4>1 DEF NewsOf, Indices
    <3>3. Pending(id)' = Pending(id)
      BY <1>1, <1>10, <3>2 DEF Pending, Answered
    <3> QED BY <1>1, <1>9, <3>1, <3>3, TrackedKept
  <2>3. Tracks'
    BY <2>2 DEF Tracks
  <2> QED BY <1>4, <1>6, <1>7, <2>1, <2>3 DEF RuntimeInv
<1>11. CASE /\ answers' = answers \cup {[number |-> events, mutations |-> mutations]}
            /\ Excused' = Excused
  <2>1. PICK new : new = [number |-> events, mutations |-> mutations]
    OBVIOUS
  <2>2. answers' = answers \cup {new} /\ new.number = events /\ new.mutations = mutations
    BY <1>11, <2>1
  <2>3. Numbered(new)'
    BY <1>1, <1>3, <2>2 DEF Numbered, RuntimeTypeOK, Recorded, Mutation, Fitting
  <2>4. \A a \in answers : a.number # new.number
    BY <1>1, <1>3, <2>2 DEF AnswersNumbered, Numbered, RuntimeTypeOK
  <2>5. AnswersNumbered'
    BY <1>3, <1>8, <2>2, <2>3, <2>4 DEF AnswersNumbered
  <2>6. ASSUME NEW id \in Ids, id \notin Excused' PROVE Tracked(id)'
    <3>1. Tracked(id)
      BY <1>11, <2>6 DEF RuntimeInv, Tracks
    <3>2. Pending(id)' = Pending(id)
      BY <1>1, <2>2 DEF Pending, Answered
    <3> QED BY <1>1, <1>9, <3>1, <3>2, TrackedKept
  <2>7. Tracks'
    BY <2>6 DEF Tracks
  <2> QED BY <1>4, <1>6, <1>7, <2>5, <2>7 DEF RuntimeInv
<1> QED BY <1>2, <1>10, <1>11

LEMMA ReturnInv ==
  ASSUME RuntimeInv, Return
  PROVE  RuntimeInv'
<1>1. /\ running /\ running' = FALSE
      /\ UNCHANGED <<built, added, room, shown, events, controls, mutations, touched>>
  BY DEF Return, tree
<1>2. \/ Excused' = Excused \cup touched /\ answers' = answers
      \/ /\ answers' = answers \cup {[number |-> events, mutations |-> mutations]}
         /\ Excused' = Excused
  <2>1. CASE failed \/ ~reporting
    <3>1. /\ Because(IF reporting THEN "failed" ELSE "unheard", touched)
          /\ answers' = answers
      BY <2>1 DEF Return
    <3> QED BY <3>1, Excuses
  <2>2. CASE ~(failed \/ ~reporting)
    BY <2>2, ExcusedKept DEF Return
  <2> QED BY <2>1, <2>2
<1> QED BY <1>1, <1>2, EndInv

LEMMA PanicInv ==
  ASSUME RuntimeInv, Panic
  PROVE  RuntimeInv'
<1>1. /\ running /\ running' = FALSE
      /\ UNCHANGED <<built, added, room, shown, events, controls, mutations, touched, answers>>
  BY DEF Panic, tree, client
<1>2. Excused' = Excused \cup touched
  BY Excuses DEF Panic
<1> QED BY <1>1, <1>2, EndInv

\* An answer whose news come before all others takes its part of the way.
LEMMA AnswerLeads ==
  ASSUME NEW list \in Seq(Input), NEW number \in Nat, NEW ms \in Seq(Recorded), NEW id,
         NEW N \in SUBSET News, NEW has, Leads(N, Labelled(list, id), has),
         NEW M \in SUBSET N, M = NewsOf(number, ms, id), \A n \in N \ M : number < n.number
  PROVE  Leads(N \ M, Labelled(Applied(list, ms), id), has)
<1> DEFINE Item(i) == [number |-> number, at |-> i, op |-> ms[i].op, label |-> ms[i].input.label]
           shows == Labelled(list, id)
<1>1. M = {Item(i) : i \in Indices(ms, id)}
  BY DEF NewsOf
<1>2. \A i : /\ Item(i).number = number /\ Item(i).at = i
             /\ Item(i).op = ms[i].op /\ Item(i).label = ms[i].input.label
  OBVIOUS
<1> HIDE DEF Item, shows
<1>3. /\ \A i \in Indices(ms, id) : i \in Nat /\ i <= Len(ms)
      /\ Len(ms) \in Nat
  BY LenProperties DEF Indices
<1>4. Leads(N, shows, has)
  BY DEF shows
<1>5. \A i \in Indices(ms, id) : Item(i) \in M /\ Item(i) \in N
  BY <1>1
<1>6. Followed(list, ms, id)
  <2>1. \A i \in Indices(ms, id) : ms[i].op \in {"add", "update"}
    BY <1>2, <1>4, <1>5 DEF Leads
  <2>2. \A i \in Indices(ms, id) : ms[i].op = "add" => shows = {}
    BY <1>2, <1>4, <1>5 DEF Leads
  <2>3. ASSUME NEW i \in Indices(ms, id), ms[i].op = "update", shows # {} => FALSE
        PROVE  \E j \in Indices(ms, id) : j < i /\ ms[j].op = "add"
    <3>1. PICK n \in N : n.op = "add" /\ Before(n, Item(i))
      BY <1>2, <1>4, <1>5, <2>3 DEF Leads
    <3>2. n \in M
      <4> SUFFICES ASSUME n \notin M PROVE FALSE
        OBVIOUS
      <4>1. number < n.number /\ n \in News
        OBVIOUS
      <4>2. n.number \in Nat
        BY <4>1 DEF News
      <4> QED BY <1>2, <3>1, <4>1, <4>2 DEF Before
    <3>3. PICK j \in Indices(ms, id) : n = Item(j)
      BY <1>1, <3>2
    <3>4. n.number = number /\ n.at = j /\ ms[j].op = "add"
      BY <1>2, <3>1, <3>3
    <3>5. j < i
      BY <1>2, <3>1, <3>4 DEF Before
    <3> QED BY <3>4, <3>5
  <2>4. ASSUME NEW i \in Indices(ms, id), NEW j \in Indices(ms, id),
               ms[i].op = "add", ms[j].op = "add"
        PROVE  i = j
    <3>1. Item(i) = Item(j)
      BY <1>2, <1>4, <1>5, <2>4 DEF Leads
    <3> QED BY <1>2, <3>1
  <2> QED BY <2>1, <2>2, <2>3, <2>4 DEF Followed, shows
<1>7. PICK l : l = Applied(list, ms)
  OBVIOUS
<1>8. ToldBy(l, list, ms, id, Len(ms))
  BY <1>6, <1>7, AppliedTells
<1>9. CASE /\ Unheard(ms, id, Len(ms)) /\ Labelled(l, id) = shows
  <2>1. M = {}
    BY <1>1, <1>3, <1>9 DEF Unheard
  <2>2. N \ M = N
    BY <2>1
  <2> QED BY <1>4, <1>7, <1>9, <2>2
<1>10. ASSUME NEW i, LastHeard(ms, id, Len(ms), i), Labelled(l, id) = {ms[i].input.label}
       PROVE  Leads(N \ M, Labelled(l, id), has)
  <2>1. i \in Indices(ms, id) /\ \A j \in Indices(ms, id) : j <= i
    BY <1>3, <1>10 DEF LastHeard
  <2>2. PICK last : last = Item(i)
    OBVIOUS
  <2>3. last \in M /\ Labelled(l, id) = {last.label}
    BY <1>2, <1>5, <1>10, <2>1, <2>2
  <2>4. ASSUME NEW n \in M PROVE n.number = number /\ ~Before(last, n)
    <3>1. PICK j \in Indices(ms, id) : n = Item(j)
      BY <1>1
    <3>2. j <= i /\ j \in Nat /\ i \in Nat
      BY <1>3, <2>1
    <3>3. ~(i < j) /\ ~(number < number)
      BY <3>2
    <3>4. n.number = number /\ n.at = j /\ last.number = number /\ last.at = i
      BY <1>2, <2>2, <3>1
    <3> QED BY <3>3, <3>4 DEF Before
  <2>5. Leads(N \ M, {last.label}, has)
    BY <1>4, <2>3, <2>4, ReceiveLeads
  <2> QED BY <2>3, <2>5
<1>11. \/ Unheard(ms, id, Len(ms)) /\ Labelled(l, id) = shows
       \/ \E i : LastHeard(ms, id, Len(ms), i) /\ Labelled(l, id) = {ms[i].input.label}
  BY <1>8 DEF ToldBy, shows
<1> QED BY <1>7, <1>9, <1>10, <1>11

LEMMA ReceiveInv ==
  ASSUME RuntimeInv, Receive
  PROVE  RuntimeInv'
<1>1. UNCHANGED <<built, added, room, events, running, controls, mutations, touched>>
  BY DEF Receive, tree, handling
<1>2. PICK answer \in answers :
        /\ answers' = answers \ {answer}
        /\ shown' = Applied(shown, answer.mutations)
        /\ Excused' = Excused \cup UNION {Told(a) : a \in Overtaken(answer)}
  BY Excuses DEF Receive
<1>3. RuntimeTypeOK /\ AnswersNumbered /\ ControlsPlaced /\ TouchedRecorded
  BY DEF RuntimeInv
<1>4. PICK number, ms : number = answer.number /\ ms = answer.mutations
  OBVIOUS
<1>5. /\ number \in Nat /\ ms \in Seq(Recorded) /\ (running => number < events)
      /\ \A a \in answers : a.number = number => a = answer
  BY <1>3, <1>4 DEF AnswersNumbered, Numbered
<1>6. shown \in Seq(Input) /\ shown' = Applied(shown, ms)
  BY <1>2, <1>3, <1>4 DEF RuntimeTypeOK
<1>7. shown' \in Seq(Input)
  BY <1>5, <1>6, AppliedType
<1>8. RuntimeTypeOK'
  BY <1>1, <1>3, <1>7 DEF RuntimeTypeOK
<1>9. Excused \subseteq Excused'
  BY <1>2
<1>10. ControlsPlaced'
  <2> SUFFICES ASSUME NEW c \in controls PROVE c \in Control /\ Placed(c)'
    BY <1>1 DEF ControlsPlaced, Control
  <2> QED BY <1>1, <1>3, <1>9, PlacedKept DEF ControlsPlaced
<1>11. TouchedRecorded'
  BY <1>1, <1>3, <1>9 DEF TouchedRecorded
<1>12. AnswersNumbered'
  BY <1>1, <1>2, <1>3 DEF AnswersNumbered, Numbered, Recorded, Mutation, Fitting
<1>13. ASSUME NEW id \in Ids, id \notin Excused' PROVE Tracked(id)'
  <2> DEFINE M == NewsOf(number, ms, id)
             N == Pending(id)
             R == Pending(id)'
             NewsIn(a) == NewsOf(a.number, a.mutations, id)
             Own == IF running THEN NewsOf(events, mutations, id) ELSE {}
  <2>1. N = (UNION {NewsIn(a) : a \in answers}) \cup Own
    BY DEF Pending, Answered
  <2>2. R = (UNION {NewsIn(a) : a \in answers'}) \cup Own
    BY <1>1 DEF Pending, Answered
  <2>3. NewsIn(answer) = M
    BY <1>4
  <2>4. ASSUME NEW a \in answers, a # answer, NEW n \in NewsIn(a) PROVE number < n.number
    <3>1. a.number \in Nat /\ a.mutations \in Seq(Recorded) /\ a.number # number
      BY <1>3, <1>5, <2>4 DEF AnswersNumbered, Numbered
    <3>2. n.number = a.number
      BY <2>4, <3>1, NewsAre
    <3>3. ~(a.number < number)
      <4> SUFFICES ASSUME a.number < number PROVE FALSE
        OBVIOUS
      <4>1. a \in Overtaken(answer)
        BY <1>4 DEF Overtaken
      <4>2. PICK i \in DOMAIN a.mutations : a.mutations[i].id = id
        BY <2>4 DEF NewsOf, Indices
      <4>3. a.mutations[i] \in Range(a.mutations)
        BY <4>2 DEF Range
      <4>4. id \in Told(a)
        BY <4>2, <4>3 DEF Told
      <4>5. id \in Excused'
        BY <1>2, <4>1, <4>4
      <4> QED BY <1>13, <4>5
    <3> QED BY <1>5, <3>1, <3>2, <3>3
  <2>5. \A n \in Own : number < n.number
    <3>1. mutations \in Seq(Recorded) /\ events \in Nat
      BY <1>3 DEF RuntimeTypeOK
    <3>2. \A n \in NewsOf(events, mutations, id) : n.number = events
      BY <3>1, NewsAre
    <3> QED BY <1>5, <3>2
  <2>6. \A n \in M : n.number = number
    BY <1>5, NewsAre
  <2> HIDE DEF M, N, R, NewsIn, Own
  <2>7. \A n \in R : number < n.number
    <3>1. \A a \in answers' : a \in answers /\ a # answer
      BY <1>2
    <3> QED BY <2>2, <2>4, <2>5, <3>1
  <2>8. N = M \cup R
    <3>1. answers = answers' \cup {answer}
      BY <1>2
    <3> QED BY <2>1, <2>2, <2>3, <3>1
  <2>9. \A n \in R : n \notin M
    <3> SUFFICES ASSUME NEW n \in R, n \in M PROVE FALSE
      OBVIOUS
    <3>1. number < number
      BY <2>6, <2>7
    <3> QED BY <1>5, <3>1
  <2>10. R = N \ M /\ M \in SUBSET N
    BY <2>8, <2>9
  <2>11. N \in SUBSET News
    BY <1>3, PendingAre DEF N
  <2>12. Leads(N, Labelled(shown, id), DslLabel(id))
    BY <1>9, <1>13 DEF RuntimeInv, Tracks, Tracked, N
  <2>13. \A n \in N \ M : number < n.number
    BY <2>7, <2>10
  <2>14. Leads(N \ M, Labelled(Applied(shown, ms), id), DslLabel(id))
    <3>1. M = NewsOf(number, ms, id)
      BY DEF M
    <3> QED BY <1>5, <1>6, <2>10, <2>11, <2>12, <2>13, <3>1, AnswerLeads
  <2>15. DslLabel(id)' = DslLabel(id)
    BY <1>1 DEF DslLabel, Labelled, IndexOf, Indices
  <2>16. Labelled(shown, id)' = Labelled(Applied(shown, ms), id)
    BY <1>6 DEF Labelled, IndexOf, Indices
  <2>17. Leads(Pending(id)', Labelled(shown, id)', DslLabel(id)')
    BY <2>10, <2>14, <2>15, <2>16 DEF R
  <2> QED BY <2>17 DEF Tracked, Leads
<1>14. Tracks'
  BY <1>13 DEF Tracks
<1> QED BY <1>8, <1>10, <1>11, <1>12, <1>14 DEF RuntimeInv

\* A lost answer has nothing about the ids that are not excused.
LEMMA LoseInv ==
  ASSUME RuntimeInv, Lose
  PROVE  RuntimeInv'
<1>1. /\ UNCHANGED <<built, added, room, events, running, controls, mutations, touched>>
      /\ UNCHANGED shown
  BY DEF Lose, tree, handling
<1>2. PICK answer \in answers :
        answers' = answers \ {answer} /\ Excused' = Excused \cup Told(answer)
  BY Excuses DEF Lose
<1>3. RuntimeTypeOK /\ AnswersNumbered /\ ControlsPlaced /\ TouchedRecorded
  BY DEF RuntimeInv
<1>4. ControlsPlaced'
  <2> SUFFICES ASSUME NEW c \in controls PROVE c \in Control /\ Placed(c)'
    BY <1>1 DEF ControlsPlaced, Control
  <2> QED BY <1>1, <1>2, <1>3, PlacedKept DEF ControlsPlaced
<1>5. TouchedRecorded' /\ RuntimeTypeOK'
  BY <1>1, <1>2, <1>3 DEF TouchedRecorded, RuntimeTypeOK
<1>6. AnswersNumbered'
  BY <1>1, <1>2, <1>3 DEF AnswersNumbered, Numbered, Recorded, Mutation, Fitting
<1>7. ASSUME NEW id \in Ids, id \notin Excused' PROVE Tracked(id)'
  <2> DEFINE NewsIn(a) == NewsOf(a.number, a.mutations, id)
  <2>1. NewsIn(answer) = {}
    <3> SUFFICES ASSUME NEW i \in Indices(answer.mutations, id) PROVE FALSE
      BY DEF NewsOf
    <3>1. i \in DOMAIN answer.mutations /\ answer.mutations[i].id = id
      BY DEF Indices
    <3>2. answer.mutations[i] \in Range(answer.mutations)
      BY <3>1 DEF Range
    <3>3. id \in Told(answer)
      BY <3>1, <3>2 DEF Told
    <3> QED BY <1>2, <1>7, <3>3
  <2>2. Answered(id) = UNION {NewsIn(a) : a \in answers}
    BY DEF Answered
  <2>3. Answered(id)' = UNION {NewsIn(a) : a \in answers'}
    BY DEF Answered
  <2> HIDE DEF NewsIn
  <2>4. Answered(id)' = Answered(id)
    BY <1>2, <2>1, <2>2, <2>3
  <2>5. Pending(id)' = Pending(id)
    BY <1>1, <2>4 DEF Pending, NewsOf, Indices
  <2>6. DslLabel(id)' = DslLabel(id)
    BY <1>1 DEF DslLabel, Labelled, IndexOf, Indices
  <2>7. Tracked(id)
    BY <1>2, <1>7 DEF RuntimeInv, Tracks
  <2> QED BY <1>1, <2>5, <2>6, <2>7, TrackedKept
<1>8. Tracks'
  BY <1>7 DEF Tracks
<1> QED BY <1>4, <1>5, <1>6, <1>8 DEF RuntimeInv

LEMMA RuntimeStutterInv ==
  ASSUME RuntimeInv, UNCHANGED runtimeVars
  PROVE  RuntimeInv'
<1>1. /\ UNCHANGED <<built, added, room, events, running, shown, answers>>
      /\ UNCHANGED <<controls, mutations, touched, Excused>>
  BY ExcusedKept DEF runtimeVars
<1>2. ControlsPlaced'
  <2> SUFFICES ASSUME NEW c \in controls PROVE c \in Control /\ Placed(c)'
    BY <1>1 DEF ControlsPlaced, Control
  <2> QED BY <1>1, PlacedKept DEF RuntimeInv, ControlsPlaced
<1>3. Tracks'
  BY <1>1, TracksKept DEF RuntimeInv
<1> QED BY <1>1, <1>2, <1>3
  DEF RuntimeInv, RuntimeTypeOK, AnswersNumbered, Numbered, TouchedRecorded

LEMMA RuntimeInductive == RuntimeSpec => []RuntimeInv
<1>1. RuntimeInit => RuntimeInv
  BY RuntimeInitInv
<1>2. RuntimeInv /\ [RuntimeNext]_runtimeVars => RuntimeInv'
  BY GetControlInv, SetErrorInv, BeginInv, RemoveControlInv, SetLabelInv, AddInv, AddNodeInv,
     ReturnInv, PanicInv, ReceiveInv, LoseInv, RuntimeStutterInv DEF RuntimeNext
<1> QED BY <1>1, <1>2, PTL DEF RuntimeSpec

\* When no handler runs and no answer is on its way, the client shows a control as the DSL
\* has it, unless there is a reason why not: what SetLabel and Form().Add did to the DSL of
\* the instance is what the mutations of Handle's answers do to the form of the client,
\* however many events there were and whatever their handlers did to other controls.
THEOREM ClientIsShownTheDsl == RuntimeSpec => []ClientShowsTheDsl
<1>1. RuntimeInv => ClientShowsTheDsl
  <2> SUFFICES ASSUME RuntimeInv, ~running, answers = {}, NEW id \in Ids, Why(id) \subseteq {}
               PROVE  Labelled(shown, id) = Labelled(added \o built, id)
    BY DEF ClientShowsTheDsl
  <2>1. id \notin Excused
    <3> SUFFICES ASSUME NEW e \in excused, e[1] = id PROVE FALSE
      BY DEF Excused
    <3>1. e[2] \in Why(id)
      BY DEF Why
    <3> QED BY <3>1
  <2>2. Pending(id) = {}
    BY DEF Pending, Answered
  <2>3. Leads({}, Labelled(shown, id), DslLabel(id))
    BY <2>1, <2>2 DEF RuntimeInv, Tracks, Tracked
  <2>4. DslLabel(id) = Labelled(shown, id)
    BY <2>3 DEF Leads
  <2> QED BY <2>4, DslLabelIs DEF RuntimeInv, RuntimeTypeOK
<1> QED BY <1>1, RuntimeInductive, PTL
=============================================================================
