------------------------- MODULE LiveCaptureProofs -------------------------
(***************************************************************************)
(* Proofs about LiveCapture: what the recursive definitions of a sweep     *)
(* compute, for sequences of every length; that a tag stands for what is   *)
(* kept; and that a write cut short costs one event.                       *)
(***************************************************************************)
EXTENDS LiveCapture, SequenceTheorems, FiniteSetTheorems, WellFoundedInduction, TLAPS

(***************************************************************************)
(* Induction by least counterexample, and recursion up to a number.        *)
(***************************************************************************)

\* A set of natural numbers that is not empty has a least element.
LEMMA LeastNatural ==
    ASSUME NEW T \in SUBSET Nat, T # {}
    PROVE  \E m \in T : \A n \in T : m <= n
<1> DEFINE R == OpToRel(<, Nat)
<1>1. IsWellFoundedOn(R, Nat)
  BY NatLessThanWellFounded, Zenon
<1>2. \A m, n \in Nat : m < n => <<m, n>> \in R
  BY Zenon DEF OpToRel
<1>3. PICK m \in T : \A n \in T : ~(<<n, m>> \in R)
  <2> HIDE DEF R
  <2> QED
    BY <1>1, WFMin, Zenon
<1>4. \A n \in T : ~(n < m)
  BY <1>2, <1>3, Zenon
<1> QED
  BY <1>4, SMT

\* The least number a property fails at, if it fails at all up to n, is not 0 when
\* it holds there, and the property holds at the one before.
LEMMA LeastFailure ==
    ASSUME NEW n \in Nat, NEW T \in SUBSET (0..n), T # {}, 0 \notin T
    PROVE  \E m \in T : m \in 1..n /\ m - 1 \in 0..n /\ m - 1 \notin T
<1>1. PICK m \in T : \A k \in T : m <= k
  <2>1. T \in SUBSET Nat
    BY SMT
  <2> QED
    BY <2>1, LeastNatural
<1>2. m \in 1..n /\ m - 1 \in 0..n /\ ~(m <= m - 1)
  BY SMT
<1> QED
  BY <1>1, <1>2

\* f takes its values in S, starts at start and goes on by step up to n.
Solves(f, n, S, start, step) ==
    /\ f \in [0..n -> S]
    /\ f[0] = start
    /\ \A i \in 1..n : f[i] = step[i][f[i - 1]]

\* A value for 0 and a step determine a function up to every n.
LEMMA Iterated ==
    ASSUME NEW n \in Nat, NEW S, NEW start \in S, NEW step \in [1..n -> [S -> S]]
    PROVE  \E f : Solves(f, n, S, start, step)
<1> DEFINE Upto(k) == \E f : Solves(f, k, S, start, step)
           T == { k \in 0..n : ~Upto(k) }
<1>1. Upto(0)
  <2> DEFINE f == [i \in 0..0 |-> start]
  <2>1. f \in [0..0 -> S] /\ f[0] = start /\ 1..0 = {}
    BY SMT
  <2> QED
    BY <2>1 DEF Solves
<1>2. ASSUME NEW k \in 1..n, Upto(k - 1) PROVE Upto(k)
  <2>1. PICK f : Solves(f, k - 1, S, start, step)
    BY <1>2
  <2> DEFINE g == [i \in 0..k |-> IF i = k THEN step[k][f[k - 1]] ELSE f[i]]
  <2>2. k \in Nat /\ k # 0 /\ k - 1 \in 0..(k - 1) /\ \A i \in 0..k : i # k => i \in 0..(k - 1)
    BY SMT
  <2>3. f[k - 1] \in S /\ step[k][f[k - 1]] \in S
    BY <2>1, <2>2 DEF Solves
  <2>4. g \in [0..k -> S]
    BY <2>1, <2>2, <2>3 DEF Solves
  <2>5. g[0] = start /\ g[k] = step[k][f[k - 1]] /\ \A i \in 0..(k - 1) : g[i] = f[i]
    BY <2>1, <2>2, SMT DEF Solves
  <2>6. ASSUME NEW i \in 1..k PROVE g[i] = step[i][g[i - 1]]
    <3>1. i - 1 \in 0..(k - 1) /\ (i = k \/ i \in 1..(k - 1))
      BY SMT
    <3> QED
      BY <2>1, <2>5, <3>1, SMT DEF Solves
  <2> HIDE DEF g
  <2>7. Solves(g, k, S, start, step)
    BY <2>4, <2>5, <2>6 DEF Solves
  <2> QED
    BY <2>7
<1> HIDE DEF Upto
<1>3. T = {}
  <2> SUFFICES ASSUME T # {} PROVE FALSE
    OBVIOUS
  <2>1. T \in SUBSET (0..n) /\ 0 \notin T
    BY <1>1
  <2>2. PICK m \in T : m \in 1..n /\ m - 1 \in 0..n /\ m - 1 \notin T
    <3> HIDE DEF T
    <3> QED
      BY <2>1, LeastFailure
  <2> QED
    BY <1>2, <2>2
<1>4. n \in 0..n
  BY SMT
<1>5. Upto(n)
  BY <1>3, <1>4
<1> QED
  BY <1>5 DEF Upto

(***************************************************************************)
(* Sequences and the sets of their elements.                               *)
(***************************************************************************)

LEMMA SetOfSeq ==
    ASSUME NEW S, NEW s \in Seq(S)
    PROVE  ToSet(s) = { s[i] : i \in 1..Len(s) } /\ ToSet(s) \subseteq S
BY LenProperties DEF ToSet

LEMMA SetOfEmpty == ToSet(<< >>) = {}
BY EmptySeq, SMT DEF ToSet

LEMMA SetOfAppend ==
    ASSUME NEW S, NEW s \in Seq(S), NEW e \in S
    PROVE  ToSet(Append(s, e)) = ToSet(s) \cup {e}
<1>1. Append(s, e) \in Seq(S) /\ Len(Append(s, e)) = Len(s) + 1 /\ Len(s) \in Nat
  BY AppendProperties, LenProperties
<1>2. /\ \A i \in 1..Len(s) : Append(s, e)[i] = s[i]
      /\ Append(s, e)[Len(s) + 1] = e
  BY AppendProperties
<1>3. \A i : i \in 1..(Len(s) + 1) <=> i \in 1..Len(s) \/ i = Len(s) + 1
  BY <1>1, SMT
<1>4. /\ ToSet(s) = { s[i] : i \in 1..Len(s) }
      /\ ToSet(Append(s, e)) = { Append(s, e)[i] : i \in 1..(Len(s) + 1) }
  BY <1>1, SetOfSeq
<1>5. ASSUME NEW x \in ToSet(Append(s, e)) PROVE x \in ToSet(s) \cup {e}
  BY <1>2, <1>3, <1>4
<1>6. ASSUME NEW x \in ToSet(s) \cup {e} PROVE x \in ToSet(Append(s, e))
  BY <1>2, <1>3, <1>4
<1> QED
  BY <1>5, <1>6

LEMMA SetOfConcat ==
    ASSUME NEW S, NEW s \in Seq(S), NEW t \in Seq(S)
    PROVE  s \o t \in Seq(S) /\ ToSet(s \o t) = ToSet(s) \cup ToSet(t)
<1>1. s \o t \in Seq(S)
  BY ConcatProperties
<1>2. \A x : ToSet(x) = Range(x)
  BY DEF ToSet, Range
<1> QED
  BY <1>1, <1>2, RangeConcatenation

\* A new element keeps the elements of a sequence distinct.
LEMMA InjectiveAppend ==
    ASSUME NEW S, NEW s \in Seq(S), NEW e \in S, IsInjective(s), e \notin ToSet(s)
    PROVE  IsInjective(Append(s, e))
<1>1. /\ DOMAIN s = 1..Len(s) /\ Len(s) \in Nat
      /\ DOMAIN Append(s, e) = 1..(Len(s) + 1)
  BY AppendProperties, LenProperties
<1>2. /\ \A i \in 1..Len(s) : Append(s, e)[i] = s[i]
      /\ Append(s, e)[Len(s) + 1] = e
  BY AppendProperties
<1>3. \A i \in 1..(Len(s) + 1) : i \in 1..Len(s) \/ i = Len(s) + 1
  BY <1>1, SMT
<1>4. \A i \in 1..Len(s) : s[i] \in ToSet(s)
  BY SetOfSeq
<1> QED
  BY <1>1, <1>2, <1>3, <1>4 DEF IsInjective

\* At, step by step: its recursion has a solution.
LEMMA AtUnfolds ==
    ASSUME NEW S, NEW s \in Seq(S), NEW ps
    PROVE  \E f :
              /\ f[0] = << >>
              /\ \A i \in 1..Len(s) :
                    f[i] = IF i \in ps THEN Append(f[i - 1], s[i]) ELSE f[i - 1]
              /\ At(s, ps) = f[Len(s)]
<1> DEFINE D == 0..Len(s)
           Rec(f) == f = [i \in D |->
                            IF i = 0 THEN << >>
                            ELSE IF i \in ps THEN Append(f[i - 1], s[i]) ELSE f[i - 1]]
           step == [i \in 1..Len(s) |->
                      [x \in Seq(S) |-> IF i \in ps THEN Append(x, s[i]) ELSE x]]
<1>0. Len(s) \in Nat /\ << >> \in Seq(S) /\ \A i \in 1..Len(s) : s[i] \in S
  BY LenProperties, EmptySeq, ElementOfSeq
<1>1. step \in [1..Len(s) -> [Seq(S) -> Seq(S)]]
  BY <1>0, AppendProperties
<1>2. PICK f : Solves(f, Len(s), Seq(S), << >>, step)
  <2> HIDE DEF step
  <2> QED
    BY <1>0, <1>1, Iterated
<1>3. \A i \in D : i = 0 \/ (i # 0 /\ i \in 1..Len(s) /\ i - 1 \in D)
  BY <1>0, SMT
<1>4. ASSUME NEW g, Rec(g)
      PROVE  /\ g[0] = << >>
             /\ \A i \in 1..Len(s) : g[i] = IF i \in ps THEN Append(g[i - 1], s[i]) ELSE g[i - 1]
  <2>1. 0 \in D /\ \A i \in 1..Len(s) : i \in D /\ i # 0
    BY <1>0, SMT
  <2> QED
    BY <1>4, <2>1
<1>5. Rec(f)
  <2>1. \A i \in 1..Len(s) : f[i] = IF i \in ps THEN Append(f[i - 1], s[i]) ELSE f[i - 1]
    <3> SUFFICES ASSUME NEW i \in 1..Len(s)
                 PROVE  f[i] = IF i \in ps THEN Append(f[i - 1], s[i]) ELSE f[i - 1]
      OBVIOUS
    <3>1. i - 1 \in D
      BY <1>0, SMT
    <3>2. f[i - 1] \in Seq(S)
      BY <1>2, <3>1 DEF Solves
    <3> QED
      BY <1>2, <3>2 DEF Solves
  <2> QED
    BY <1>2, <1>3, <2>1 DEF Solves
<1> DEFINE upto == CHOOSE g : Rec(g)
<1>6. At(s, ps) = upto[Len(s)]
  BY DEF At
<1>7. Rec(upto)
  BY <1>5
<1> HIDE DEF upto
<1> QED
  BY <1>4, <1>6, <1>7

\* What At returns: the elements at those positions, distinct where they are.
LEMMA AtKeeps ==
    ASSUME NEW S, NEW s \in Seq(S), NEW ps
    PROVE  /\ At(s, ps) \in Seq(S)
           /\ ToSet(At(s, ps)) = { s[i] : i \in ps \cap 1..Len(s) }
           /\ (\A i, j \in ps \cap 1..Len(s) : s[i] = s[j] => i = j) => IsInjective(At(s, ps))
<1> DEFINE Distinct == \A i, j \in ps \cap 1..Len(s) : s[i] = s[j] => i = j
<1>0. Len(s) \in Nat /\ << >> \in Seq(S) /\ \A i \in 1..Len(s) : s[i] \in S
  BY LenProperties, EmptySeq, ElementOfSeq
<1>1. PICK f : /\ f[0] = << >>
               /\ \A i \in 1..Len(s) :
                     f[i] = IF i \in ps THEN Append(f[i - 1], s[i]) ELSE f[i - 1]
               /\ At(s, ps) = f[Len(s)]
  BY AtUnfolds
<1> DEFINE Good(k) == /\ f[k] \in Seq(S)
                      /\ ToSet(f[k]) = { s[i] : i \in ps \cap 1..k }
                      /\ Distinct => IsInjective(f[k])
<1>2. Good(0)
  <2>1. 1..0 = {}
    BY SMT
  <2>2. IsInjective(<< >>)
    BY EmptySeq, LenProperties, SMT DEF IsInjective
  <2> QED
    BY <1>0, <1>1, <2>1, <2>2, SetOfEmpty
<1>3. ASSUME NEW k \in 1..Len(s), Good(k - 1) PROVE Good(k)
  <2>1. /\ k \in Nat /\ \A i : i \in 1..k <=> i \in 1..(k - 1) \/ i = k
        /\ \A i \in 1..(k - 1) : i \in 1..Len(s) /\ i # k
    BY <1>0, SMT
  <2>2. CASE k \in ps
    <3>1. f[k] = Append(f[k - 1], s[k]) /\ s[k] \in S
      BY <1>0, <1>1, <2>2
    <3>2. f[k] \in Seq(S) /\ ToSet(f[k]) = ToSet(f[k - 1]) \cup {s[k]}
      BY <1>3, <3>1, AppendProperties, SetOfAppend
    <3>3. { s[i] : i \in ps \cap 1..k } = { s[i] : i \in ps \cap 1..(k - 1) } \cup {s[k]}
      BY <2>1, <2>2
    <3>4. ASSUME Distinct PROVE IsInjective(f[k])
      <4>1. s[k] \notin ToSet(f[k - 1])
        BY <1>3, <2>1, <2>2, <3>4
      <4> QED
        BY <1>3, <3>1, <3>4, <4>1, InjectiveAppend
    <3> QED
      BY <1>3, <3>2, <3>3, <3>4
  <2>3. CASE k \notin ps
    <3>1. f[k] = f[k - 1]
      BY <1>1, <2>3
    <3>2. ps \cap 1..k = ps \cap 1..(k - 1)
      BY <2>1, <2>3
    <3> QED
      BY <1>3, <3>1, <3>2
  <2> QED
    BY <2>2, <2>3
<1> HIDE DEF Good
<1>4. Good(Len(s))
  <2> DEFINE T == { k \in 0..Len(s) : ~Good(k) }
  <2>1. T = {}
    <3> SUFFICES ASSUME T # {} PROVE FALSE
      OBVIOUS
    <3>1. T \in SUBSET (0..Len(s)) /\ 0 \notin T
      BY <1>2
    <3>2. PICK m \in T : m \in 1..Len(s) /\ m - 1 \in 0..Len(s) /\ m - 1 \notin T
      <4> HIDE DEF T
      <4> QED
        BY <1>0, <3>1, LeastFailure
    <3> QED
      BY <1>3, <3>2
  <2>2. Len(s) \in 0..Len(s)
    BY <1>0, SMT
  <2> QED
    BY <2>1, <2>2
<1> QED
  BY <1>1, <1>4 DEF Good

(***************************************************************************)
(* The window.                                                             *)
(***************************************************************************)

LEMMA HoldsIsIn ==
    ASSUME NEW S, NEW window \in Seq(S), NEW id
    PROVE  Holds(window, id) <=> id \in ToSet(window)
BY SetOfSeq DEF Holds

\* RecentIds.add keeps the window within its size, and nothing is in it but what
\* was and the new id.
LEMMA RememberKeeps ==
    ASSUME NEW S, NEW window \in Seq(S), NEW id \in S, NEW maxlen \in Nat \ {0},
           Len(window) <= maxlen
    PROVE  /\ Remember(window, id, maxlen) \in Seq(S)
           /\ Len(Remember(window, id, maxlen)) <= maxlen
           /\ ToSet(Remember(window, id, maxlen)) \subseteq ToSet(window) \cup {id}
<1> DEFINE longer == Append(window, id)
<1>1. CASE Holds(window, id)
  BY <1>1 DEF Remember
<1>2. CASE ~Holds(window, id)
  <2>1. /\ longer \in Seq(S) /\ longer # << >> /\ Len(longer) = Len(window) + 1
        /\ ToSet(longer) = ToSet(window) \cup {id} /\ Len(window) \in Nat
    BY AppendProperties, SetOfAppend, LenProperties
  <2> HIDE DEF longer
  <2>2. Remember(window, id, maxlen) = IF Len(longer) > maxlen THEN Tail(longer) ELSE longer
    BY <1>2 DEF Remember, longer
  <2>3. /\ Tail(longer) \in Seq(S) /\ Len(Tail(longer)) = Len(longer) - 1
        /\ \A i \in 1..Len(Tail(longer)) : Tail(longer)[i] = longer[i + 1]
    BY <2>1, HeadTailProperties
  <2>4. ToSet(Tail(longer)) \subseteq ToSet(longer)
    <3>1. \A i \in 1..Len(Tail(longer)) : i + 1 \in 1..Len(longer)
      BY <2>1, <2>3, SMT
    <3>2. ToSet(longer) = { longer[i] : i \in 1..Len(longer) }
      BY <2>1, SetOfSeq
    <3>3. ToSet(Tail(longer)) = { Tail(longer)[i] : i \in 1..Len(Tail(longer)) }
      BY <2>3, SetOfSeq
    <3> QED
      BY <2>3, <3>1, <3>2, <3>3
  <2>5. CASE Len(longer) > maxlen
    <3>1. Len(Tail(longer)) <= maxlen
      BY <2>1, <2>3, SMT
    <3> QED
      BY <2>1, <2>2, <2>3, <2>4, <2>5, <3>1
  <2>6. CASE ~(Len(longer) > maxlen)
    <3>1. Len(longer) <= maxlen
      BY <2>1, <2>6, SMT
    <3> QED
      BY <2>1, <2>2, <2>6, <3>1
  <2> QED
    BY <2>5, <2>6
<1> QED
  BY <1>1, <1>2

(***************************************************************************)
(* The sweep.                                                              *)
(***************************************************************************)

Good == Items \ Redacted

\* The loop's filter, step by step: its recursion has a solution.
LEMMA AdmittedUnfolds ==
    ASSUME NEW events \in Seq(Good), seen \in Seq(Good), Len(seen) <= SeenWindow
    PROVE  \E f :
              /\ f[0] = [seen |-> seen, fresh |-> << >>]
              /\ \A i \in 1..Len(events) :
                    f[i] = IF Holds(f[i - 1].seen, events[i]) THEN f[i - 1]
                           ELSE [seen  |-> Remember(f[i - 1].seen, events[i], SeenWindow),
                                 fresh |-> Append(f[i - 1].fresh, events[i])]
              /\ Admitted(events) = f[Len(events)]
<1> DEFINE D == 0..Len(events)
           First == [seen |-> seen, fresh |-> << >>]
           After(x, e) == IF Holds(x.seen, e) THEN x
                          ELSE [seen  |-> Remember(x.seen, e, SeenWindow),
                                fresh |-> Append(x.fresh, e)]
           Rec(f) == f = [i \in D |-> IF i = 0 THEN First ELSE After(f[i - 1], events[i])]
           S == [seen : { w \in Seq(Good) : Len(w) <= SeenWindow }, fresh : Seq(Good)]
           step == [i \in 1..Len(events) |-> [x \in S |-> After(x, events[i])]]
<1>0. Len(events) \in Nat /\ \A i \in 1..Len(events) : events[i] \in Good
  BY LenProperties, ElementOfSeq
<1>1. First \in S
  BY EmptySeq
<1>2. step \in [1..Len(events) -> [S -> S]]
  <2>1. ASSUME NEW x \in S, NEW e \in Good PROVE After(x, e) \in S
    <3>1. x.seen \in Seq(Good) /\ Len(x.seen) <= SeenWindow /\ x.fresh \in Seq(Good)
      OBVIOUS
    <3>2. /\ Remember(x.seen, e, SeenWindow) \in Seq(Good)
          /\ Len(Remember(x.seen, e, SeenWindow)) <= SeenWindow
      BY <3>1, RememberKeeps, CaptureAssumption
    <3>3. Append(x.fresh, e) \in Seq(Good)
      BY <3>1, AppendProperties
    <3> QED
      BY <3>2, <3>3
  <2> HIDE DEF S, After
  <2> QED
    BY <1>0, <2>1
<1>3. PICK f : Solves(f, Len(events), S, First, step)
  <2> HIDE DEF S, First, step
  <2> QED
    BY <1>0, <1>1, <1>2, Iterated
<1>4. \A i \in D : i = 0 \/ (i # 0 /\ i \in 1..Len(events) /\ i - 1 \in D)
  BY <1>0, SMT
<1> HIDE DEF S, After, First
<1>5. ASSUME NEW g, Rec(g)
      PROVE  /\ g[0] = First
             /\ \A i \in 1..Len(events) : g[i] = After(g[i - 1], events[i])
  <2>1. 0 \in D /\ \A i \in 1..Len(events) : i \in D /\ i # 0
    BY <1>0, SMT
  <2> QED
    BY <1>5, <2>1
<1>6. Rec(f)
  <2>1. ASSUME NEW i \in 1..Len(events) PROVE f[i] = After(f[i - 1], events[i])
    <3>1. i - 1 \in D
      BY <1>0, SMT
    <3>2. f[i - 1] \in S
      BY <1>3, <3>1 DEF Solves
    <3> QED
      BY <1>3, <3>2 DEF Solves
  <2> QED
    BY <1>3, <1>4, <2>1 DEF Solves
<1> DEFINE after == CHOOSE g : Rec(g)
<1>7. Admitted(events) = after[Len(events)]
  BY DEF Admitted, After, First
<1>8. Rec(after)
  BY <1>6
<1> HIDE DEF after
<1> QED
  BY <1>5, <1>7, <1>8 DEF After, First

\* The filter keeps the window sound, loses no event that is not in it, and lets
\* no event through twice.
LEMMA AdmittedKeeps ==
    ASSUME NEW events \in Seq(Good), IsInjective(events),
           seen \in Seq(Good), Len(seen) <= SeenWindow
    PROVE  /\ Admitted(events).seen \in Seq(Good)
           /\ Len(Admitted(events).seen) <= SeenWindow
           /\ Admitted(events).fresh \in Seq(Good)
           /\ IsInjective(Admitted(events).fresh)
           /\ ToSet(events) \subseteq ToSet(seen) \cup ToSet(Admitted(events).fresh)
           /\ ToSet(Admitted(events).seen) \subseteq
                 ToSet(seen) \cup ToSet(Admitted(events).fresh)
<1>0. /\ Len(events) \in Nat /\ << >> \in Seq(Good)
      /\ \A i \in 1..Len(events) : events[i] \in Good
  BY LenProperties, EmptySeq, ElementOfSeq
<1>1. PICK f :
         /\ f[0] = [seen |-> seen, fresh |-> << >>]
         /\ \A i \in 1..Len(events) :
               f[i] = IF Holds(f[i - 1].seen, events[i]) THEN f[i - 1]
                      ELSE [seen  |-> Remember(f[i - 1].seen, events[i], SeenWindow),
                            fresh |-> Append(f[i - 1].fresh, events[i])]
         /\ Admitted(events) = f[Len(events)]
  BY AdmittedUnfolds
<1> DEFINE Firsts(k) == { events[i] : i \in 1..k }
           Sound(k) == /\ f[k].seen \in Seq(Good) /\ Len(f[k].seen) <= SeenWindow
                       /\ f[k].fresh \in Seq(Good) /\ IsInjective(f[k].fresh)
                       /\ ToSet(f[k].fresh) \subseteq Firsts(k)
                       /\ Firsts(k) \subseteq ToSet(seen) \cup ToSet(f[k].fresh)
                       /\ ToSet(f[k].seen) \subseteq ToSet(seen) \cup ToSet(f[k].fresh)
<1>2. Sound(0)
  <2>1. Firsts(0) = {}
    BY SMT
  <2>2. IsInjective(<< >>)
    BY EmptySeq, LenProperties, SMT DEF IsInjective
  <2>3. f[0].seen = seen /\ f[0].fresh = << >>
    BY <1>1
  <2> HIDE DEF Firsts
  <2> QED
    BY <1>0, <2>1, <2>2, <2>3, SetOfEmpty
<1>3. ASSUME NEW k \in 1..Len(events), Sound(k - 1) PROVE Sound(k)
  <2> DEFINE e == events[k]
             x == f[k - 1]
  <2>1. /\ k \in Nat /\ k \in 1..k /\ \A i : i \in 1..k <=> i \in 1..(k - 1) \/ i = k
        /\ \A i \in 1..(k - 1) : i \in 1..Len(events) /\ i # k
    BY <1>0, SMT
  <2>2. Firsts(k) = Firsts(k - 1) \cup {e} /\ e \in Good
    BY <1>0, <2>1
  <2>3. e \notin Firsts(k - 1)
    <3>1. DOMAIN events = 1..Len(events)
      BY LenProperties
    <3> QED
      BY <2>1, <3>1 DEF IsInjective
  <2>4. /\ x.seen \in Seq(Good) /\ Len(x.seen) <= SeenWindow
        /\ x.fresh \in Seq(Good) /\ IsInjective(x.fresh)
        /\ ToSet(x.fresh) \subseteq Firsts(k - 1)
        /\ Firsts(k - 1) \subseteq ToSet(seen) \cup ToSet(x.fresh)
        /\ ToSet(x.seen) \subseteq ToSet(seen) \cup ToSet(x.fresh)
    BY <1>3
  <2>5. CASE Holds(x.seen, e)
    <3>1. f[k] = x
      BY <1>1, <2>5
    <3>2. e \in ToSet(x.seen)
      BY <2>4, <2>5, HoldsIsIn
    <3> HIDE DEF e, x, Firsts
    <3> QED
      BY <2>2, <2>4, <3>1, <3>2
  <2>6. CASE ~Holds(x.seen, e)
    <3>0. f[k] = [seen  |-> Remember(x.seen, e, SeenWindow),
                  fresh |-> Append(x.fresh, e)]
      BY <1>1, <2>6
    <3>1. /\ f[k].seen = Remember(x.seen, e, SeenWindow)
          /\ f[k].fresh = Append(x.fresh, e)
      BY <3>0
    <3> HIDE DEF e, x, Firsts
    <3>2. /\ f[k].seen \in Seq(Good) /\ Len(f[k].seen) <= SeenWindow
          /\ ToSet(f[k].seen) \subseteq ToSet(x.seen) \cup {e}
      BY <2>2, <2>4, <3>1, RememberKeeps, CaptureAssumption
    <3>3. f[k].fresh \in Seq(Good) /\ ToSet(f[k].fresh) = ToSet(x.fresh) \cup {e}
      BY <2>2, <2>4, <3>1, SetOfAppend, AppendProperties
    <3>4. IsInjective(f[k].fresh)
      BY <2>2, <2>3, <2>4, <3>1, InjectiveAppend
    <3> QED
      BY <2>2, <2>4, <3>2, <3>3, <3>4
  <2> QED
    BY <2>5, <2>6
<1> HIDE DEF Sound
<1>4. Sound(Len(events))
  <2> DEFINE T == { k \in 0..Len(events) : ~Sound(k) }
  <2>1. T = {}
    <3> SUFFICES ASSUME T # {} PROVE FALSE
      OBVIOUS
    <3>1. T \in SUBSET (0..Len(events)) /\ 0 \notin T
      BY <1>2
    <3>2. PICK m \in T : m \in 1..Len(events) /\ m - 1 \in 0..Len(events) /\ m - 1 \notin T
      <4> HIDE DEF T
      <4> QED
        BY <1>0, <3>1, LeastFailure
    <3> QED
      BY <1>3, <3>2
  <2>2. Len(events) \in 0..Len(events)
    BY <1>0, SMT
  <2> QED
    BY <2>1, <2>2
<1>5. ToSet(events) = Firsts(Len(events))
  BY SetOfSeq
<1> HIDE DEF Firsts
<1> QED
  BY <1>1, <1>4, <1>5 DEF Sound

\* dedupe keeps every event, once.
LEMMA DedupedKeeps ==
    ASSUME NEW S, NEW events \in Seq(S)
    PROVE  /\ Deduped(events) \in Seq(S)
           /\ ToSet(Deduped(events)) = ToSet(events)
           /\ IsInjective(Deduped(events))
<1> DEFINE ps == { i \in 1..Len(events) : \A j \in 1..(i - 1) : events[j] # events[i] }
<1>0. Len(events) \in Nat /\ ToSet(events) = { events[i] : i \in 1..Len(events) }
  BY LenProperties, SetOfSeq
<1>1. Deduped(events) = At(events, ps)
  BY DEF Deduped
<1>2. \A i, j \in ps : events[i] = events[j] => i = j
  <2> SUFFICES ASSUME NEW i \in ps, NEW j \in ps, events[i] = events[j], i # j PROVE FALSE
    OBVIOUS
  <2>1. i \in 1..(j - 1) \/ j \in 1..(i - 1)
    BY <1>0, SMT
  <2> QED
    BY <2>1
<1>3. ASSUME NEW i \in 1..Len(events) PROVE \E m \in ps : events[m] = events[i]
  <2> DEFINE T == { k \in 1..Len(events) : events[k] = events[i] }
  <2>1. T \in SUBSET Nat /\ T # {}
    BY <1>0, SMT
  <2>2. PICK m \in T : \A n \in T : m <= n
    <3> HIDE DEF T
    <3> QED
      BY <2>1, LeastNatural
  <2>3. \A j \in 1..(m - 1) : j \in 1..Len(events) /\ ~(m <= j)
    BY <1>0, SMT
  <2>4. m \in ps
    BY <2>2, <2>3
  <2> QED
    BY <2>4
<1>4. ps \cap 1..Len(events) = ps
  OBVIOUS
<1>5. /\ At(events, ps) \in Seq(S)
      /\ ToSet(At(events, ps)) = { events[i] : i \in ps }
      /\ IsInjective(At(events, ps))
  <2> HIDE DEF ps
  <2> QED
    BY <1>2, <1>4, AtKeeps
<1>6. { events[i] : i \in ps } = { events[i] : i \in 1..Len(events) }
  BY <1>3
<1> QED
  BY <1>0, <1>1, <1>5, <1>6

\* parse_page keeps what validates, and the rest is what does not.
LEMMA ValidKeeps ==
    ASSUME NEW items \in Seq(Items)
    PROVE  /\ Valid(items) \in Seq(Good)
           /\ ToSet(Valid(items)) = ToSet(items) \ Redacted
           /\ ToSet(items) \subseteq Items
<1> DEFINE ps == { i \in 1..Len(items) : items[i] \notin Redacted }
<1>0. ToSet(items) = { items[i] : i \in 1..Len(items) } /\ ToSet(items) \subseteq Items
  BY SetOfSeq
<1>1. At(items, ps) \in Seq(Items) /\ ToSet(At(items, ps)) = { items[i] : i \in ps \cap 1..Len(items) }
  BY AtKeeps
<1>2. { items[i] : i \in ps \cap 1..Len(items) } = ToSet(items) \ Redacted
  BY <1>0
<1>3. At(items, ps) = Valid(items)
  BY DEF Valid
<1> HIDE DEF ps
<1>4. \A i \in 1..Len(Valid(items)) : Valid(items)[i] \in ToSet(Valid(items))
  BY <1>1, <1>3, SetOfSeq
<1>5. Valid(items) \in Seq(Good)
  <2>1. \A i \in 1..Len(Valid(items)) : Valid(items)[i] \in Good
    BY <1>0, <1>1, <1>2, <1>3, <1>4 DEF Good
  <2>2. Len(Valid(items)) \in Nat /\ Valid(items) = [i \in 1..Len(Valid(items)) |-> Valid(items)[i]]
    BY <1>1, <1>3, LenProperties
  <2>3. Valid(items) \in [1..Len(Valid(items)) -> Good]
    BY <2>1, <2>2
  <2> QED
    BY <2>2, <2>3, SeqDef
<1> QED
  BY <1>0, <1>1, <1>2, <1>3, <1>5

\* A page holds items.
LEMMA PageHoldsItems ==
    ASSUME NEW k \in 1..Pages, published \in 0..MaxItems
    PROVE  PageNow(k) \in Seq(Items)
<1> DEFINE newest == published - (k - 1) * PerPage
           length == IF newest < 0 THEN 0 ELSE IF newest < PerPage THEN newest ELSE PerPage
<1>1. (k - 1) * PerPage \in Nat
  <2>1. k - 1 \in Nat /\ PerPage \in Nat
    BY CaptureAssumption, SMT
  <2> QED
    BY <2>1, SMT
<1>2. newest \in Int /\ newest <= MaxItems
  BY <1>1, CaptureAssumption, SMT
<1> HIDE DEF newest
<1>3. length \in Nat /\ \A i \in 1..length : newest - i + 1 \in 1..MaxItems
  BY <1>2, CaptureAssumption, SMT
<1> HIDE DEF length
<1>4. [i \in 1..length |-> newest - i + 1] \in [1..length -> Items]
  BY <1>3 DEF Items
<1>5. PageNow(k) = [i \in 1..length |-> newest - i + 1]
  BY DEF PageNow, newest, length
<1>6. PageNow(k) \in [1..length -> Items]
  BY <1>4, <1>5
<1> QED
  BY <1>3, <1>6, SeqDef

(***************************************************************************)
(* Types.                                                                  *)
(***************************************************************************)

\* What a page of a sweep adds to it, and what the end of the sweep makes of it.
LEMMA Reading ==
    ASSUME CaptureTypeOK, phase = "sweeping"
    PROVE  /\ Answer \in Seq(Items) /\ PageNow(page) \in Seq(Items)
           /\ ToSet(PageNow(page)) \subseteq Items
           /\ batch \o Valid(Answer) \in Seq(Good)
           /\ ToSet(batch \o Valid(Answer)) = ToSet(batch) \cup (ToSet(Answer) \ Redacted)
           /\ bad \cup Invalid(Answer) \subseteq Redacted
<1>1. PageNow(page) \in Seq(Items) /\ Answer \in Seq(Items)
  BY PageHoldsItems, EmptySeq DEF CaptureTypeOK, Answer
<1>2. Valid(Answer) \in Seq(Good) /\ ToSet(Valid(Answer)) = ToSet(Answer) \ Redacted
  BY <1>1, ValidKeeps
<1>3. batch \in Seq(Good)
  BY DEF CaptureTypeOK, Good
<1>4. /\ batch \o Valid(Answer) \in Seq(Good)
      /\ ToSet(batch \o Valid(Answer)) = ToSet(batch) \cup ToSet(Valid(Answer))
  BY <1>2, <1>3, SetOfConcat
<1>5. bad \cup Invalid(Answer) \subseteq Redacted
  BY DEF CaptureTypeOK, Invalid
<1> QED
  BY <1>1, <1>2, <1>4, <1>5, SetOfSeq

\* What the loop takes from a sweep: a sound window, each new event once, and
\* every event read in one or the other.
LEMMA Admitting ==
    ASSUME CaptureTypeOK, NEW read \in Seq(Good)
    PROVE  LET admitted == Admitted(Deduped(read)) IN
           /\ admitted.seen \in Seq(Good) /\ Len(admitted.seen) <= SeenWindow
           /\ admitted.fresh \in Seq(Good) /\ IsInjective(admitted.fresh)
           /\ ToSet(read) \subseteq ToSet(seen) \cup ToSet(admitted.fresh)
           /\ ToSet(admitted.seen) \subseteq ToSet(seen) \cup ToSet(admitted.fresh)
<1>1. /\ Deduped(read) \in Seq(Good) /\ ToSet(Deduped(read)) = ToSet(read)
      /\ IsInjective(Deduped(read))
  BY DedupedKeeps
<1>2. seen \in Seq(Good) /\ Len(seen) <= SeenWindow
  BY DEF CaptureTypeOK, Good
<1> QED
  BY <1>1, <1>2, AdmittedKeeps

\* A run that ends leaves nothing in hand.
LEMMA GoneIsEmpty ==
    ASSUME Gone
    PROVE  /\ batch' \in Seq(Good) /\ seen' \in Seq(Good) /\ fresh' \in Seq(Good)
           /\ Len(seen') = 0 /\ IsInjective(fresh')
           /\ ToSet(batch') = {} /\ ToSet(seen') = {} /\ ToSet(fresh') = {}
           /\ etags' \in [1..Pages -> Seq(Items) \cup {NoTag}]
           /\ \A k \in 1..Pages : etags'[k] = NoTag
<1>1. << >> \in Seq(Good) /\ Len(<< >>) = 0
  BY EmptySeq
<1>2. IsInjective(<< >>)
  BY EmptySeq, LenProperties, SMT DEF IsInjective
<1>3. batch' = << >> /\ seen' = << >> /\ fresh' = << >>
  BY DEF Gone
<1> QED
  BY <1>1, <1>2, <1>3, SetOfEmpty DEF Gone

\* The events of a write that reached the file are events of the batch.
LEMMA PartOfBatch ==
    ASSUME CaptureTypeOK, NEW n \in 0..(Len(fresh) - 1)
    PROVE  /\ ToSet(SubSeq(fresh, 1, n)) \subseteq ToSet(fresh)
           /\ SubSeq(fresh, 1, n) # << >> => Head(SubSeq(fresh, 1, n)) \in Good
<1>1. fresh \in Seq(Good) /\ Len(fresh) \in Nat /\ \A i \in 1..Len(fresh) : fresh[i] \in Good
  BY LenProperties, ElementOfSeq DEF CaptureTypeOK, Good
<1>2. n \in Int /\ \A i \in 1..n : i \in 1..Len(fresh)
  BY <1>1, SMT
<1>3. /\ SubSeq(fresh, 1, n) \in Seq(Good)
      /\ Len(SubSeq(fresh, 1, n)) = n
      /\ \A i \in 1..n : SubSeq(fresh, 1, n)[i] = fresh[i]
  <2>1. \A i \in 1..n : fresh[i] \in Good
    BY <1>1, <1>2
  <2> QED
    BY <1>2, <2>1, SubSeqProperties, SMT
<1>4. ToSet(SubSeq(fresh, 1, n)) = { SubSeq(fresh, 1, n)[i] : i \in 1..n }
  BY <1>3, SetOfSeq
<1>5. ToSet(fresh) = { fresh[i] : i \in 1..Len(fresh) }
  BY <1>1, SetOfSeq
<1>6. ToSet(SubSeq(fresh, 1, n)) \subseteq ToSet(fresh)
  BY <1>2, <1>3, <1>4, <1>5
<1> QED
  BY <1>3, <1>6, HeadTailProperties

LEMMA InitType == Init => CaptureTypeOK
<1> SUFFICES ASSUME Init PROVE CaptureTypeOK
  OBVIOUS
<1>1. << >> \in Seq(Items \ Redacted) /\ Len(<< >>) = 0
  BY EmptySeq
<1>2. IsInjective(<< >>)
  BY EmptySeq, LenProperties, SMT DEF IsInjective
<1>3. 1 \in 1..Pages /\ 0 \in 0..MaxItems /\ 0 \in 0..MaxCuts /\ 0 \in 0..MaxEnds /\ 0 <= SeenWindow
  BY CaptureAssumption, SMT
<1> QED
  BY <1>1, <1>2, <1>3 DEF Init, CaptureTypeOK

\* The end of a sweep, typed.
LEMMA SweptType ==
    ASSUME CaptureTypeOK, NEW read \in Seq(Good), NEW unreadable \in SUBSET Redacted,
           Swept(read, unreadable)
    PROVE  /\ seen' \in Seq(Good) /\ Len(seen') <= SeenWindow
           /\ fresh' \in Seq(Good) /\ IsInjective(fresh')
           /\ batch' \in Seq(Good) /\ bad' \subseteq Redacted /\ page' \in 1..Pages
           /\ phase' \in {"top", "sinking", "rejecting"}
<1> DEFINE admitted == Admitted(Deduped(read))
<1>1. /\ admitted.seen \in Seq(Good) /\ Len(admitted.seen) <= SeenWindow
      /\ admitted.fresh \in Seq(Good) /\ IsInjective(admitted.fresh)
  BY Admitting
<1>2. /\ seen' = admitted.seen /\ fresh' = admitted.fresh
      /\ page' = 1 /\ batch' = << >> /\ bad' = unreadable
      /\ phase' = IF admitted.fresh # << >> THEN "sinking" ELSE Rejecting(unreadable)
  BY DEF Swept
<1> HIDE DEF admitted
<1>3. << >> \in Seq(Good) /\ 1 \in 1..Pages
  BY EmptySeq, CaptureAssumption, SMT
<1> QED
  BY <1>1, <1>2, <1>3 DEF Rejecting

LEMMA StepType == CaptureTypeOK /\ [Next]_vars => CaptureTypeOK'
<1> SUFFICES ASSUME CaptureTypeOK, [Next]_vars PROVE CaptureTypeOK'
  OBVIOUS
<1> USE DEF Good
<1>0. /\ 1 \in 1..Pages /\ ToSet(fresh) \subseteq Good /\ ToSet(batch) \subseteq Good
      /\ << >> \in Seq(Good) /\ IsInjective(<< >>) /\ Len(<< >>) = 0
  <2>1. ToSet(fresh) \subseteq Good
    BY SetOfSeq DEF CaptureTypeOK
  <2>2. ToSet(batch) \subseteq Good
    BY SetOfSeq DEF CaptureTypeOK
  <2>3. << >> \in Seq(Good) /\ IsInjective(<< >>) /\ Len(<< >>) = 0
    BY EmptySeq, LenProperties, SMT DEF IsInjective
  <2> QED
    BY <2>1, <2>2, <2>3, CaptureAssumption, SMT
<1>1. CASE Publish
  <2>1. published' \in 0..MaxItems
    BY <1>1, CaptureAssumption, SMT DEF Publish, CaptureTypeOK
  <2> QED
    BY <1>1, <2>1 DEF Publish, CaptureTypeOK, sweep, run, file
<1>2. CASE Signal
  <2>1. ends' \in 0..MaxEnds
    BY <1>2, CaptureAssumption, SMT DEF Signal, CaptureTypeOK
  <2> QED
    BY <1>2, <2>1 DEF Signal, CaptureTypeOK, feed, sweep, file
<1>3. CASE Start
  BY <1>3 DEF Start, CaptureTypeOK, feed, sweep, run, file
<1>4. ASSUME Gone
      PROVE  /\ published' \in 0..MaxItems /\ phase' = "down" /\ stop' \in BOOLEAN
             /\ page' \in 1..Pages /\ batch' \in Seq(Good) /\ bad' \subseteq Redacted
             /\ etags' \in [1..Pages -> Seq(Items) \cup {NoTag}]
             /\ seen' \in Seq(Good) /\ Len(seen') <= SeenWindow
             /\ fresh' \in Seq(Good) /\ IsInjective(fresh')
             /\ dropped' \subseteq Items
  <2>1. Len(seen') <= SeenWindow
    BY <1>4, GoneIsEmpty, CaptureAssumption, SMT
  <2> QED
    BY <1>0, <1>4, <2>1, GoneIsEmpty DEF Gone, CaptureTypeOK, feed
<1>5. CASE Die
  <2>1. ends' \in 0..MaxEnds
    BY <1>5, CaptureAssumption, SMT DEF Die, CaptureTypeOK
  <2> QED
    BY <1>4, <1>5, <2>1 DEF Die, CaptureTypeOK, file
<1>6. CASE Leave
  BY <1>4, <1>6 DEF Leave, CaptureTypeOK, file
<1>7. CASE StartCycle
  BY <1>7 DEF StartCycle, CaptureTypeOK, feed, sweep, run, file
<1>8. CASE Read
  <2>1. etags' \in [1..Pages -> Seq(Items) \cup {NoTag}]
    BY <1>8, Reading DEF Read, CaptureTypeOK
  <2>2. /\ seen' \in Seq(Good) /\ Len(seen') <= SeenWindow
        /\ fresh' \in Seq(Good) /\ IsInjective(fresh')
        /\ batch' \in Seq(Good) /\ bad' \subseteq Redacted /\ page' \in 1..Pages
        /\ phase' \in {"top", "sweeping", "sinking", "rejecting"}
    <3> DEFINE read == batch \o Valid(Answer)
               unreadable == bad \cup Invalid(Answer)
    <3>1. read \in Seq(Good) /\ unreadable \in SUBSET Redacted /\ phase = "sweeping"
      BY <1>8, Reading DEF Read
    <3>2. CASE page = Pages
      <4>1. Swept(read, unreadable)
        BY <1>8, <3>2 DEF Read
      <4> HIDE DEF read, unreadable
      <4> QED
        BY <3>1, <4>1, SweptType
    <3>3. CASE page # Pages
      <4>1. /\ page' = page + 1 /\ batch' = read /\ bad' = unreadable
            /\ UNCHANGED << phase, seen, fresh >>
        BY <1>8, <3>3 DEF Read
      <4>2. page' \in 1..Pages
        BY <3>3, <4>1, CaptureAssumption, SMT DEF CaptureTypeOK
      <4> HIDE DEF read, unreadable
      <4> QED
        BY <3>1, <4>1, <4>2 DEF CaptureTypeOK
    <3> QED
      BY <3>2, <3>3
  <2> QED
    BY <1>8, <2>1, <2>2 DEF Read, CaptureTypeOK, feed, file
<1>9. CASE RateLimited
  <2>1. dropped' \subseteq Items
    <3>1. bad \subseteq Items /\ dropped \subseteq Items
      BY CaptureAssumption DEF CaptureTypeOK, Items
    <3>2. dropped' = dropped \cup ToSet(batch) \cup bad
      BY <1>9 DEF RateLimited
    <3> QED
      BY <1>0, <3>1, <3>2
  <2> QED
    BY <1>0, <1>9, <2>1 DEF RateLimited, CaptureTypeOK, run, file
<1>10. CASE Sink
  <2>1. captured' \subseteq Good /\ garbled' \subseteq Good
    <3>1. fresh # << >> => Head(fresh) \in Good
      BY HeadTailProperties DEF CaptureTypeOK
    <3> QED
      BY <1>0, <1>10, <3>1 DEF Sink, Appended, CaptureTypeOK
  <2> QED
    BY <1>10, <2>1 DEF Sink, CaptureTypeOK, feed, sweep, run
<1>11. CASE SinkCutShort
  <2>1. PICK n \in 0..(Len(fresh) - 1) : Appended(SubSeq(fresh, 1, n)) /\ torn' \in BOOLEAN
    BY <1>11 DEF SinkCutShort
  <2>2. captured' \subseteq Good /\ garbled' \subseteq Good
    BY <1>0, <2>1, PartOfBatch DEF Appended, CaptureTypeOK
  <2>3. cuts' \in 0..MaxCuts
    BY <1>11, CaptureAssumption, SMT DEF SinkCutShort, CaptureTypeOK
  <2>4. Gone /\ UNCHANGED << ends, rejects, topic >>
    BY <1>11 DEF SinkCutShort
  <2> QED
    BY <1>4, <2>1, <2>2, <2>3, <2>4 DEF CaptureTypeOK
<1>12. CASE Stream
  BY <1>0, <1>12 DEF Stream, Onward, Rejecting, CaptureTypeOK, feed, sweep, file
<1>13. CASE StreamDrops
  BY <1>0, <1>13 DEF StreamDrops, Onward, Rejecting, CaptureTypeOK, feed, sweep, file
<1>14. CASE Reject
  BY <1>14 DEF Reject, CaptureTypeOK, feed, run, file
<1>15. CASE UNCHANGED vars
  BY <1>15 DEF vars, CaptureTypeOK
<1> QED
  BY <1>1, <1>2, <1>3, <1>5, <1>6, <1>7, <1>8, <1>9, <1>10, <1>11, <1>12, <1>13, <1>14, <1>15
     DEF Next, Step

\* Every state serve reaches is well typed: the window within its size, the file
\* and the stream free of what does not validate, no event twice in a batch.
THEOREM CaptureTypeCorrect == Spec => []CaptureTypeOK
<1>1. Init => CaptureTypeOK
  BY InitType
<1>2. CaptureTypeOK /\ [Next]_vars => CaptureTypeOK'
  BY StepType
<1> QED
  BY <1>1, <1>2, PTL DEF Spec

(***************************************************************************)
(* The file and the stream.                                                *)
(***************************************************************************)

\* The stream follows the file: a batch on its way there is written, whole or
\* against a fragment.  Each write cut short leaves at most one fragment, and
\* each fragment spoils at most one event.
CutInv ==
    /\ topic \subseteq captured \cup garbled
    /\ phase = "streaming" => ToSet(fresh) \subseteq captured \cup garbled
    /\ IsFiniteSet(garbled) /\ cuts \in Nat
    /\ Cardinality(garbled) + (IF torn THEN 1 ELSE 0) <= cuts

\* A write against a fragment spoils one event at most, and what it writes is
\* somewhere in the file.
LEMMA WritingSpoilsOne ==
    ASSUME CutInv, NEW lines, Appended(lines)
    PROVE  /\ captured \cup garbled \cup ToSet(lines) \subseteq captured' \cup garbled'
           /\ IsFiniteSet(garbled') /\ Cardinality(garbled') <= cuts
<1> DEFINE spoiled == IF torn /\ lines # << >> THEN {Head(lines)} ELSE {}
<1>1. captured' = captured \cup (ToSet(lines) \ spoiled) /\ garbled' = garbled \cup spoiled
  BY DEF Appended
<1>2. Cardinality(garbled) \in Nat /\ IsFiniteSet(garbled) /\ cuts \in Nat
  BY FS_CardinalityType DEF CutInv
<1>3. CASE spoiled = {}
  <2>1. captured' = captured \cup ToSet(lines) /\ garbled' = garbled
    BY <1>1, <1>3
  <2>2. Cardinality(garbled) <= cuts
    BY <1>2, SMT DEF CutInv
  <2> QED
    BY <1>2, <2>1, <2>2
<1>4. CASE spoiled # {}
  <2>1. torn /\ spoiled = {Head(lines)}
    BY <1>4
  <2>2. /\ IsFiniteSet(garbled \cup {Head(lines)})
        /\ \/ Cardinality(garbled \cup {Head(lines)}) = Cardinality(garbled)
           \/ Cardinality(garbled \cup {Head(lines)}) = Cardinality(garbled) + 1
    BY <1>2, FS_AddElement
  <2>3. Cardinality(garbled) + 1 <= cuts
    BY <2>1 DEF CutInv
  <2>4. Cardinality(garbled \cup {Head(lines)}) <= cuts
    BY <1>2, <2>2, <2>3, SMT
  <2> HIDE DEF spoiled
  <2> QED
    BY <1>1, <2>1, <2>2, <2>4
<1> QED
  BY <1>3, <1>4

LEMMA InitCut == Init => CutInv
BY FS_EmptySet, SMT DEF Init, CutInv

LEMMA CutKept == CutInv /\ [Next]_vars => CutInv'
<1> SUFFICES ASSUME CutInv, [Next]_vars PROVE CutInv'
  OBVIOUS
<1>1. ASSUME UNCHANGED << captured, garbled, torn, cuts, topic >>,
             phase' = "streaming" => phase = "streaming" /\ fresh' = fresh
      PROVE  CutInv'
  BY <1>1 DEF CutInv
<1>2. CASE Publish \/ Signal \/ Start
  BY <1>1, <1>2 DEF Publish, Signal, Start, run, file
<1>3. CASE Die \/ Leave
  BY <1>1, <1>3 DEF Die, Leave, Gone, file
<1>4. CASE StartCycle \/ RateLimited \/ Reject
  BY <1>1, <1>4 DEF StartCycle, RateLimited, Reject, run, file
<1>5. CASE Read
  <2>1. phase' # "streaming"
    BY <1>5 DEF Read, Swept, Rejecting
  <2> QED
    BY <1>1, <1>5, <2>1 DEF Read, file
<1>6. CASE Sink
  <2>1. Appended(fresh) /\ torn' = FALSE /\ UNCHANGED << topic, cuts, fresh >>
    BY <1>6 DEF Sink, run
  <2>2. IsFiniteSet(garbled') /\ Cardinality(garbled') <= cuts /\ Cardinality(garbled') \in Nat
    BY <2>1, WritingSpoilsOne, FS_CardinalityType
  <2>3. captured \cup garbled \cup ToSet(fresh) \subseteq captured' \cup garbled'
    BY <2>1, WritingSpoilsOne
  <2> QED
    BY <2>1, <2>2, <2>3, SMT DEF CutInv
<1>7. CASE SinkCutShort
  <2>1. PICK n \in 0..(Len(fresh) - 1) : Appended(SubSeq(fresh, 1, n)) /\ torn' \in BOOLEAN
    BY <1>7 DEF SinkCutShort
  <2>2. phase' = "down" /\ cuts' = cuts + 1 /\ UNCHANGED topic
    BY <1>7 DEF SinkCutShort, Gone
  <2>3. IsFiniteSet(garbled') /\ Cardinality(garbled') <= cuts /\ Cardinality(garbled') \in Nat
    BY <2>1, WritingSpoilsOne, FS_CardinalityType
  <2>4. captured \cup garbled \subseteq captured' \cup garbled'
    BY <2>1, WritingSpoilsOne
  <2>5. Cardinality(garbled') + (IF torn' THEN 1 ELSE 0) <= cuts' /\ cuts' \in Nat
    BY <2>1, <2>2, <2>3, SMT DEF CutInv
  <2> QED
    BY <2>2, <2>3, <2>4, <2>5 DEF CutInv
<1>8. CASE Stream \/ StreamDrops
  <2>1. topic' \subseteq topic \cup ToSet(fresh) /\ phase = "streaming" /\ phase' # "streaming"
    BY <1>8 DEF Stream, StreamDrops, Onward, Rejecting
  <2>2. UNCHANGED << captured, garbled, torn, cuts >>
    BY <1>8 DEF Stream, StreamDrops, file
  <2> QED
    BY <2>1, <2>2 DEF CutInv
<1>9. CASE UNCHANGED vars
  BY <1>1, <1>9 DEF vars
<1> QED
  BY <1>2, <1>3, <1>4, <1>5, <1>6, <1>7, <1>8, <1>9 DEF Next, Step

\* Serve writes a batch before it streams it, and dies of a write that fails: the
\* stream is ahead of the readable file by at most one event per write cut short,
\* however many runs, restarts and sweeps there are.
THEOREM CutsAreCounted == Spec => []EachCutCostsOneEvent
<1>1. Init => CutInv
  BY InitCut
<1>2. CutInv /\ [Next]_vars => CutInv'
  BY CutKept
<1>3. CutInv => EachCutCostsOneEvent
  <2> SUFFICES ASSUME CutInv PROVE EachCutCostsOneEvent
    OBVIOUS
  <2>1. topic \ captured \subseteq garbled /\ IsFiniteSet(garbled)
    BY DEF CutInv
  <2>2. /\ IsFiniteSet(topic \ captured)
        /\ Cardinality(topic \ captured) <= Cardinality(garbled)
    BY <2>1, FS_Subset
  <2>3. Cardinality(topic \ captured) \in Nat /\ Cardinality(garbled) \in Nat
    BY <2>1, <2>2, FS_CardinalityType
  <2>4. Cardinality(garbled) <= cuts /\ cuts \in Nat
    BY <2>3, SMT DEF CutInv
  <2> QED
    BY <2>2, <2>3, <2>4, SMT DEF EachCutCostsOneEvent
<1> QED
  BY <1>1, <1>2, <1>3, PTL DEF Spec

(***************************************************************************)
(* Tags.                                                                   *)
(***************************************************************************)

\* What the loop remembers is written, or in the batch it is about to write; the
\* batch is empty but between a sweep and the sinks; and what is streamed is
\* written.
Kept ==
    /\ phase \notin {"sinking", "streaming"} => ToSet(fresh) = {}
    /\ phase = "streaming" => ToSet(fresh) \subseteq captured \cup garbled
    /\ ToSet(seen) \subseteq captured \cup garbled \cup ToSet(fresh)

\* Without Kept a tag could stand for an event the window holds and no file does.
CaptureInv == CaptureTypeOK /\ Kept /\ TagMeansKept

Stands == Written \cup InHand \cup dropped

\* Tags that stay go on standing for what is still there.
LEMMA TagsStay ==
    ASSUME TagMeansKept, Stands \subseteq Stands', etags' = etags
    PROVE  TagMeansKept'
BY DEF TagMeansKept, Stands

\* Nor does a run that has ended hold any.
LEMMA GoneIsKept ==
    ASSUME Gone
    PROVE  Kept' /\ TagMeansKept'
<1>1. \A k \in 1..Pages : etags'[k] = NoTag
  BY GoneIsEmpty
<1>2. TagMeansKept'
  BY <1>1 DEF TagMeansKept
<1>3. phase' = "down" /\ ToSet(seen') = {} /\ ToSet(fresh') = {}
  BY GoneIsEmpty DEF Gone
<1> QED
  BY <1>2, <1>3 DEF Kept

LEMMA InitCapture == Init => CaptureInv
<1> SUFFICES ASSUME Init PROVE CaptureInv
  OBVIOUS
<1>1. Kept
  BY SetOfEmpty DEF Init, Kept
<1>2. TagMeansKept
  BY DEF Init, TagMeansKept
<1> QED
  BY <1>1, <1>2, InitType DEF CaptureInv

\* The end of a sweep puts what was read in the batch or beside it, but for what
\* is written.
LEMMA SweptIsKept ==
    ASSUME CaptureInv, phase = "sweeping", NEW read \in Seq(Good), NEW unreadable,
           Swept(read, unreadable), UNCHANGED << captured, garbled >>
    PROVE  /\ Kept'
           /\ ToSet(read) \subseteq captured \cup garbled \cup ToSet(fresh')
           /\ bad' = unreadable
<1> DEFINE admitted == Admitted(Deduped(read))
<1>1. /\ ToSet(read) \subseteq ToSet(seen) \cup ToSet(admitted.fresh)
      /\ ToSet(admitted.seen) \subseteq ToSet(seen) \cup ToSet(admitted.fresh)
  BY Admitting DEF CaptureInv
<1>2. /\ seen' = admitted.seen /\ fresh' = admitted.fresh /\ bad' = unreadable
      /\ phase' = IF admitted.fresh # << >> THEN "sinking" ELSE Rejecting(unreadable)
  BY DEF Swept
<1> HIDE DEF admitted
<1>3. ToSet(seen) \subseteq captured \cup garbled
  BY DEF CaptureInv, Kept
<1>4. phase' # "streaming" /\ (phase' # "sinking" => ToSet(fresh') = {})
  BY <1>2, SetOfEmpty DEF Rejecting
<1>5. ToSet(seen') \subseteq captured \cup garbled \cup ToSet(fresh')
  BY <1>1, <1>2, <1>3
<1>6. ToSet(read) \subseteq captured \cup garbled \cup ToSet(fresh')
  BY <1>1, <1>2, <1>3
<1> QED
  BY <1>2, <1>4, <1>5, <1>6 DEF Kept

LEMMA ReadIsKept ==
    ASSUME CaptureInv, Read
    PROVE  Kept' /\ TagMeansKept'
<1> DEFINE read == batch \o Valid(Answer)
           unreadable == bad \cup Invalid(Answer)
<1>0. CaptureTypeOK /\ Kept /\ TagMeansKept /\ phase = "sweeping" /\ page \in 1..Pages
  BY DEF CaptureInv, CaptureTypeOK, Read
<1>1. /\ read \in Seq(Good)
      /\ ToSet(batch) \cup (ToSet(Answer) \ Redacted) = ToSet(read)
      /\ bad \cup (ToSet(Answer) \cap Redacted) = unreadable
  BY <1>0, Reading DEF Invalid
<1>2. /\ IF page = Pages THEN Swept(read, unreadable)
         ELSE /\ page' = page + 1 /\ batch' = read /\ bad' = unreadable
              /\ UNCHANGED << phase, seen, fresh >>
      /\ etags' = [etags EXCEPT ![page] = PageNow(page)]
      /\ UNCHANGED << published, dropped, captured, garbled, rejects >>
  BY DEF Read, feed, file
<1> HIDE DEF read, unreadable
<1>3. ToSet(fresh) = {}
  BY <1>0 DEF Kept
<1>4. /\ Kept' /\ bad' = unreadable
      /\ ToSet(read) \subseteq captured' \cup garbled' \cup ToSet(fresh') \cup ToSet(batch')
  <2>1. CASE page = Pages
    BY <1>0, <1>1, <1>2, <2>1, SweptIsKept
  <2>2. CASE page # Pages
    BY <1>0, <1>2, <2>2 DEF Kept
  <2> QED
    BY <2>1, <2>2
<1>5. Stands \subseteq Stands'
  <2>1. Stands = captured \cup garbled \cup rejects \cup ToSet(batch) \cup bad \cup dropped
    BY <1>3 DEF Stands, Written, InHand
  <2>2. Stands' = captured' \cup garbled' \cup rejects' \cup ToSet(batch') \cup bad'
                    \cup ToSet(fresh') \cup dropped'
    BY DEF Stands, Written, InHand
  <2> QED
    BY <1>1, <1>2, <1>4, <2>1, <2>2
<1>6. ToSet(Answer) \subseteq Stands'
  <2>1. ToSet(read) \cup unreadable \subseteq Stands'
    BY <1>4 DEF Stands, Written, InHand
  <2> QED
    BY <1>1, <2>1
<1>7. ToSet(PageNow(page)) \subseteq Stands'
  <2>1. CASE etags[page] = PageNow(page)
    <3>1. CASE etags[page] = NoTag
      <4>1. 0 \in ToSet(PageNow(page))
        <5>1. Len(NoTag) = 1 /\ NoTag[1] = 0 /\ NoTag \in Seq(Nat)
          BY DEF NoTag
        <5>2. ToSet(NoTag) = { NoTag[i] : i \in 1..Len(NoTag) }
          BY <5>1, SetOfSeq
        <5> QED
          BY <2>1, <3>1, <5>1, <5>2, SMT
      <4>2. ToSet(PageNow(page)) \subseteq Items
        BY <1>0, Reading
      <4> QED
        BY <4>1, <4>2, SMT DEF Items
    <3>2. CASE etags[page] # NoTag
      BY <1>0, <1>5, <2>1, <3>2 DEF TagMeansKept, Stands
    <3> QED
      BY <3>1, <3>2
  <2>2. CASE etags[page] # PageNow(page)
    BY <1>6, <2>2 DEF Answer
  <2> QED
    BY <2>1, <2>2
<1>8. ASSUME NEW k \in 1..Pages, etags'[k] # NoTag
      PROVE  ToSet(etags'[k]) \subseteq Stands'
  <2>1. DOMAIN etags = 1..Pages
    BY <1>0 DEF CaptureTypeOK
  <2>2. etags'[k] = IF k = page THEN PageNow(page) ELSE etags[k]
    BY <1>2, <2>1
  <2> QED
    BY <1>0, <1>5, <1>7, <1>8, <2>2 DEF TagMeansKept, Stands
<1>9. TagMeansKept'
  BY <1>8 DEF TagMeansKept, Stands
<1> QED
  BY <1>4, <1>9

LEMMA CaptureKept == CaptureInv /\ [Next]_vars => CaptureInv'
<1> SUFFICES ASSUME CaptureInv, [Next]_vars PROVE Kept' /\ TagMeansKept'
  BY StepType DEF CaptureInv
<1>0. CaptureTypeOK /\ Kept /\ TagMeansKept
  BY DEF CaptureInv
<1>1. ASSUME UNCHANGED << captured, garbled, rejects, dropped, batch, bad, fresh, seen, etags >>,
             phase' = phase \/ (phase' \notin {"sinking", "streaming"} /\ ToSet(fresh) = {})
      PROVE  Kept' /\ TagMeansKept'
  <2>1. Kept'
    BY <1>0, <1>1 DEF Kept
  <2>2. Stands' = Stands
    BY <1>1 DEF Stands, Written, InHand
  <2> QED
    BY <1>0, <1>1, <2>1, <2>2, TagsStay
<1>2. CASE Publish
  BY <1>1, <1>2 DEF Publish, sweep, run, file
<1>3. CASE Signal
  BY <1>1, <1>3 DEF Signal, feed, sweep, file
<1>4. CASE Start \/ StartCycle
  <2>1. ToSet(fresh) = {}
    BY <1>0, <1>4 DEF Kept, Start, StartCycle
  <2> QED
    BY <1>1, <1>4, <2>1 DEF Start, StartCycle, feed, sweep, run, file
<1>5. CASE Die \/ Leave \/ SinkCutShort
  BY <1>5, GoneIsKept DEF Die, Leave, SinkCutShort
<1>6. CASE Read
  BY <1>6, ReadIsKept
<1>7. CASE RateLimited
  <2>1. /\ phase = "sweeping" /\ phase' = "top" /\ dropped' = dropped \cup ToSet(batch) \cup bad
        /\ UNCHANGED << captured, garbled, rejects, fresh, seen, etags >>
    BY <1>7 DEF RateLimited, run, file
  <2>2. Stands \subseteq Stands'
    BY <2>1 DEF Stands, Written, InHand
  <2>3. Kept'
    BY <1>0, <2>1 DEF Kept
  <2> QED
    BY <1>0, <2>1, <2>2, <2>3, TagsStay
<1>8. CASE Sink
  <2>1. /\ Appended(fresh) /\ phase' = "streaming"
        /\ UNCHANGED << rejects, dropped, batch, bad, fresh, seen, etags >>
    BY <1>8 DEF Sink, feed, sweep, run
  <2>2. captured \cup garbled \cup ToSet(fresh) \subseteq captured' \cup garbled'
    BY <2>1 DEF Appended
  <2>3. Stands \subseteq Stands'
    BY <2>1, <2>2 DEF Stands, Written, InHand
  <2>4. Kept'
    BY <1>0, <2>1, <2>2 DEF Kept
  <2> QED
    BY <1>0, <2>1, <2>3, <2>4, TagsStay
<1>9. CASE Stream \/ StreamDrops
  <2>1. /\ phase = "streaming" /\ phase' \in {"top", "rejecting"} /\ fresh' = << >>
        /\ UNCHANGED << captured, garbled, rejects, dropped, batch, bad, seen, etags >>
    BY <1>9 DEF Stream, StreamDrops, Onward, Rejecting, feed, sweep, file
  <2>2. ToSet(fresh') = {} /\ ToSet(fresh) \subseteq captured \cup garbled
    BY <1>0, <2>1, SetOfEmpty DEF Kept
  <2>3. Stands \subseteq Stands'
    BY <2>1, <2>2 DEF Stands, Written, InHand
  <2>4. Kept'
    BY <1>0, <2>1, <2>2 DEF Kept
  <2> QED
    BY <1>0, <2>1, <2>3, <2>4, TagsStay
<1>10. CASE Reject
  <2>1. /\ phase = "rejecting" /\ phase' = "top" /\ rejects' = rejects \cup bad /\ bad' = {}
        /\ UNCHANGED << captured, garbled, dropped, batch, fresh, seen, etags >>
    BY <1>10 DEF Reject, feed, run, file
  <2>2. Stands \subseteq Stands'
    BY <2>1 DEF Stands, Written, InHand
  <2>3. Kept'
    BY <1>0, <2>1 DEF Kept
  <2> QED
    BY <1>0, <2>1, <2>2, <2>3, TagsStay
<1>11. CASE UNCHANGED vars
  BY <1>1, <1>11 DEF vars
<1> QED
  BY <1>2, <1>3, <1>4, <1>5, <1>6, <1>7, <1>8, <1>9, <1>10, <1>11 DEF Next, Step

\* A tag spares a page from being sent again only while what was on it has been
\* written, legibly or not, or is on its way there, or was read by a sweep of the
\* present run that was throttled: for feeds, pages and windows of every size.
THEOREM TagsStandForWhatIsKept == Spec => []TagMeansKept
<1>1. Init => CaptureInv
  BY InitCapture
<1>2. CaptureInv /\ [Next]_vars => CaptureInv'
  BY CaptureKept
<1>3. CaptureInv => TagMeansKept
  BY DEF CaptureInv
<1> QED
  BY <1>1, <1>2, <1>3, PTL DEF Spec
=============================================================================
