-------------------------- MODULE AttestationProofs --------------------------
(***************************************************************************)
(* What the engine seals the attestation accepts, for every value of the   *)
(* constants.  validate_effects folds the effects of a run into a subject  *)
(* and a sum of usage: SubjectsAlong and UsageAlong are recursive functions*)
(* over a sequence of any length, so the first lemmas are about recursion. *)
(***************************************************************************)
EXTENDS OutcomeProofs, Attestation, WellFoundedInduction

----------------------------------------------------------------------------
(* Induction and recursion over the naturals.  The library states them for *)
(* an operator; here they are for sets and functions, from the fact that   *)
(* < is well-founded, which names no operator.                             *)

Below == {p \in Nat \X Nat : p[1] < p[2]}

LEMMA BelowWellFounded == IsWellFoundedOn(Below, Nat)
  <1>1. Below = OpToRel(<, Nat) BY DEF Below, OpToRel
  <1>2. QED BY <1>1, NatLessThanWellFounded

(* A non-empty set of naturals has a least element.                        *)
LEMMA LeastNatural ==
  ASSUME NEW S \in SUBSET Nat, S # {} PROVE \E n \in S : \A m \in S : n <= m
  <1>1. PICK n \in S : \A m \in S : ~(<<m, n>> \in Below)
    BY BelowWellFounded, WFMin
  <1>2. \A m \in S : ~(m < n)
    <2> TAKE m \in S
    <2>1. <<m, n>> \in Nat \X Nat /\ <<m, n>>[1] = m /\ <<m, n>>[2] = n OBVIOUS
    <2>2. QED BY <1>1, <2>1 DEF Below
  <1>3. \A m \in S : n <= m BY <1>2
  <1>4. QED BY <1>3

LEMMA SetInduction ==
  ASSUME NEW S, 0 \in S, \A n \in Nat : n \in S => n + 1 \in S PROVE Nat \subseteq S
  <1> DEFINE T == {n \in Nat : n \notin S}
  <1>1. SUFFICES ASSUME T # {} PROVE FALSE OBVIOUS
  <1>2. PICK n \in T : \A m \in T : n <= m BY <1>1, LeastNatural
  <1>3. n \in Nat /\ n # 0 BY <1>2
  <1>4. n - 1 \in Nat /\ n = (n - 1) + 1 /\ ~(n <= n - 1) BY <1>3
  <1>5. n - 1 \in S BY <1>2, <1>4
  <1>6. QED BY <1>2, <1>4, <1>5

(* f is defined up to n by f[0] = c and f[i] = h[i][f[i - 1]].             *)
Unfolds(f, c, h, n) ==
  f = [i \in 0..n |-> IF i = 0 THEN c ELSE h[i][f[i - 1]]]

LEMMA RecursionExists ==
  ASSUME NEW V, NEW c \in V, NEW h \in [Nat -> [V -> V]]
  PROVE  \A n \in Nat : \E f \in [0..n -> V] : Unfolds(f, c, h, n)
  <1> DEFINE S == {n \in Nat : \E f \in [0..n -> V] : Unfolds(f, c, h, n)}
  <1>1. 0 \in S
    <2> DEFINE f == [i \in 0..0 |-> c]
    <2>1. f \in [0..0 -> V] OBVIOUS
    <2>2. f = [i \in 0..0 |-> IF i = 0 THEN c ELSE h[i][f[i - 1]]] OBVIOUS
    <2>3. Unfolds(f, c, h, 0) BY <2>2 DEF Unfolds
    <2>4. QED BY <2>1, <2>3
  <1>2. ASSUME NEW n \in Nat, n \in S PROVE n + 1 \in S
    <2>1. PICK f \in [0..n -> V] : Unfolds(f, c, h, n) BY <1>2
    <2> DEFINE g == [i \in 0..(n + 1) |-> IF i = n + 1 THEN h[n + 1][f[n]] ELSE f[i]]
    <2>2. /\ \A i \in 0..(n + 1) : i = n + 1 \/ i \in 0..n
          /\ \A i \in 0..n : i # n + 1 /\ i \in 0..(n + 1)
          /\ \A i \in 0..(n + 1) : i # 0 => i - 1 \in 0..n
          /\ n \in 0..n /\ n + 1 \in Nat /\ 0 \in 0..n /\ (n + 1) - 1 = n /\ n + 1 # 0
      OBVIOUS
    <2>3. f[n] \in V /\ h[n + 1] \in [V -> V] BY <2>1, <2>2
    <2>4. h[n + 1][f[n]] \in V BY <2>3
    <2>5. g \in [0..(n + 1) -> V] BY <2>1, <2>2, <2>4
    <2>6. \A i \in 0..(n + 1) : g[i] = IF i = 0 THEN c ELSE h[i][g[i - 1]]
      <3> TAKE i \in 0..(n + 1)
      <3>1. CASE i = n + 1 BY <2>2, <3>1
      <3>2. CASE i # n + 1
        <4>1. i \in 0..n /\ g[i] = f[i] BY <2>2, <3>2
        <4>2. f[i] = IF i = 0 THEN c ELSE h[i][f[i - 1]] BY <2>1, <4>1 DEF Unfolds
        <4>3. i # 0 => g[i - 1] = f[i - 1] BY <2>2, <4>1
        <4>4. QED BY <4>1, <4>2, <4>3
      <3>3. QED BY <3>1, <3>2
    <2> HIDE DEF g
    <2>7. g = [i \in 0..(n + 1) |-> IF i = 0 THEN c ELSE h[i][g[i - 1]]] BY <2>5, <2>6
    <2>8. QED BY <2>2, <2>5, <2>7 DEF Unfolds
  <1> HIDE DEF S
  <1>3. Nat \subseteq S BY <1>1, <1>2, SetInduction
  <1>4. QED BY <1>3 DEF S

----------------------------------------------------------------------------
(* The two folds of validate_effects over the evidence v of a run.         *)

EvidenceEffect ==
  [request : Effects, status : Statuses, post : Subjects \cup {Null},
   usage : Usage, decision : Nat]

LEMMA EvidenceFields ==
  ASSUME NEW v \in EvidenceRecord
  PROVE  /\ v.effects \in Seq(EvidenceEffect) /\ Len(v.effects) \in Nat
         /\ DOMAIN v.effects = 1..Len(v.effects)
         /\ \A i \in 1..Len(v.effects) :
              /\ v.effects[i] \in EvidenceEffect
              /\ v.effects[i].request \in Effects /\ v.effects[i].status \in Statuses
              /\ v.effects[i].usage \in Usage
         /\ \A x \in v.executions :
              x.seq \in Nat /\ x.digest \in Effects /\ x.decision \in Nat
         /\ \A m \in v.mutations :
              m.digest \in Effects /\ m.before \in Subjects /\ m.after \in Subjects
  <1>1. /\ v.effects \in Seq(EvidenceEffect)
        /\ v.executions \subseteq [seq : Nat, digest : Effects, decision : Nat]
        /\ v.mutations \subseteq [digest : Effects, before : Subjects, after : Subjects]
    BY DEF EvidenceRecord, EvidenceEffect
  <1>2. /\ Len(v.effects) \in Nat /\ DOMAIN v.effects = 1..Len(v.effects)
        /\ \A i \in 1..Len(v.effects) : v.effects[i] \in EvidenceEffect
    BY <1>1
  <1>3. \A r \in EvidenceEffect :
          r.request \in Effects /\ r.status \in Statuses /\ r.usage \in Usage
    BY DEF EvidenceEffect
  <1>4. QED BY <1>1, <1>2, <1>3

(* current_subject, one effect further.                                    *)
NextSubject(v, i, subject) ==
  LET own == MutationsOf(v, v.effects[i].request)
  IN IF own = {} THEN subject ELSE (CHOOSE m \in own : TRUE).after

LEMMA SubjectsUnfold ==
  ASSUME NEW v, NEW n \in Nat, n = Len(v.effects), NEW subject
  PROVE  LET s == SubjectsAlong(subject, v) IN
         s[0] = subject /\ \A i \in 1..n : s[i] = NextSubject(v, i, s[i - 1])
  <1> DEFINE V == {subject} \cup {m.after : m \in v.mutations}
             h == [i \in Nat |-> [x \in V |-> NextSubject(v, i, x)]]
             G(f) == [i \in 0..n |-> IF i = 0 THEN subject ELSE NextSubject(v, i, f[i - 1])]
             s == SubjectsAlong(subject, v)
  <1>1. \A i \in Nat, x \in V : NextSubject(v, i, x) \in V
    BY DEF NextSubject, MutationsOf
  <1>2. h \in [Nat -> [V -> V]] BY <1>1
  <1>3. subject \in V OBVIOUS
  <1>4. \A i \in Nat, x \in V : h[i][x] = NextSubject(v, i, x) OBVIOUS
  <1> HIDE DEF V, h
  <1>5. PICK f \in [0..n -> V] : Unfolds(f, subject, h, n)
    BY <1>2, <1>3, RecursionExists
  <1>6. \A i \in 0..n : i # 0 => i \in Nat /\ i - 1 \in 0..n OBVIOUS
  <1>7. \A i \in 0..n : i # 0 => h[i][f[i - 1]] = NextSubject(v, i, f[i - 1])
    BY <1>4, <1>5, <1>6
  <1>8. f = G(f)
    <2>1. f = [i \in 0..n |-> IF i = 0 THEN subject ELSE h[i][f[i - 1]]]
      BY <1>5 DEF Unfolds
    <2>2. QED BY <1>7, <2>1
  <1>9. s = CHOOSE g : g = G(g)
    BY DEF SubjectsAlong, NextSubject
  <1> HIDE DEF G
  <1>10. s = G(s) BY <1>8, <1>9
  <1> HIDE DEF s
  <1>11. s = [i \in 0..n |-> IF i = 0 THEN subject ELSE NextSubject(v, i, s[i - 1])]
    BY <1>10 DEF G
  <1>12. 0 \in 0..n /\ \A i \in 1..n : i \in 0..n /\ i # 0 OBVIOUS
  <1>13. QED BY <1>11, <1>12 DEF s

LEMMA SubjectsNext ==
  ASSUME NEW v \in EvidenceRecord, NEW subject
  PROVE  \A i \in 1..Len(v.effects) :
           SubjectsAlong(subject, v)[i] = NextSubject(v, i, SubjectsAlong(subject, v)[i - 1])
  <1> DEFINE n == Len(v.effects)
             s == SubjectsAlong(subject, v)
  <1>1. n \in Nat /\ n = Len(v.effects) BY EvidenceFields
  <1> HIDE DEF n
  <1>2. s[0] = subject /\ \A i \in 1..n : s[i] = NextSubject(v, i, s[i - 1])
    BY <1>1, SubjectsUnfold
  <1> HIDE DEF s
  <1>3. QED BY <1>2 DEF n, s
LEMMA UsageUnfolds ==
  ASSUME NEW v \in EvidenceRecord, NEW n \in Nat, n = Len(v.effects)
  PROVE  LET s == UsageAlong(v) IN
         /\ s \in [0..n -> Usage]
         /\ s[0] = ZeroUsage
         /\ \A i \in 1..n : s[i] = [m \in Meters |-> s[i - 1][m] + v.effects[i].usage[m]]
  <1> DEFINE Sum(i, x) == [m \in Meters |-> x[m] + v.effects[i].usage[m]]
             h == [i \in Nat |-> [x \in Usage |-> IF i \in 1..n THEN Sum(i, x) ELSE x]]
             G(f) == [i \in 0..n |-> IF i = 0 THEN ZeroUsage ELSE Sum(i, f[i - 1])]
             s == UsageAlong(v)
  <1>1. \A i \in 1..n, x \in Usage : Sum(i, x) \in Usage
    <2> SUFFICES ASSUME NEW i \in 1..n, NEW x \in Usage PROVE Sum(i, x) \in Usage OBVIOUS
    <2>1. v.effects[i].usage \in Usage BY EvidenceFields
    <2>2. QED BY <2>1 DEF Usage
  <1>2. h \in [Nat -> [Usage -> Usage]] BY <1>1
  <1>3. ZeroUsage \in Usage BY DEF ZeroUsage, Usage
  <1>4. \A i \in 1..n, x \in Usage : h[i][x] = Sum(i, x) OBVIOUS
  <1> HIDE DEF h
  <1>5. PICK f \in [0..n -> Usage] : Unfolds(f, ZeroUsage, h, n)
    BY <1>2, <1>3, RecursionExists
  <1>6. \A i \in 0..n : i # 0 => i \in 1..n /\ i - 1 \in 0..n OBVIOUS
  <1>7. \A i \in 0..n : i # 0 => h[i][f[i - 1]] = Sum(i, f[i - 1])
    BY <1>4, <1>5, <1>6
  <1> HIDE DEF Sum
  <1>8. f = G(f)
    <2>1. f = [i \in 0..n |-> IF i = 0 THEN ZeroUsage ELSE h[i][f[i - 1]]]
      BY <1>5 DEF Unfolds
    <2>2. QED BY <1>7, <2>1
  <1>9. s = CHOOSE g : g = G(g)
    BY DEF UsageAlong, Sum
  <1> HIDE DEF G
  <1>10. s = G(s) BY <1>8, <1>9
  <1> HIDE DEF s
  <1>11. s = [i \in 0..n |-> IF i = 0 THEN ZeroUsage ELSE Sum(i, s[i - 1])]
    BY <1>10 DEF G
  <1>12. 0 \in 0..n /\ \A i \in 1..n : i \in 0..n /\ i # 0 OBVIOUS
  <1>13. s[0] = ZeroUsage /\ \A i \in 1..n : s[i] = Sum(i, s[i - 1])
    BY <1>11, <1>12
  <1>14. \A i \in 0..n : s[i] \in Usage
    <2> DEFINE S == {i \in Nat : i \in 0..n => s[i] \in Usage}
    <2>1. 0 \in S BY <1>3, <1>13
    <2>2. ASSUME NEW i \in Nat, i \in S PROVE i + 1 \in S
      <3>1. i + 1 \in 0..n => i \in 0..n /\ i + 1 \in 1..n /\ (i + 1) - 1 = i OBVIOUS
      <3>2. i + 1 \in 0..n => s[i + 1] = Sum(i + 1, s[i]) BY <3>1, <1>13
      <3>3. i + 1 \in 0..n => s[i + 1] \in Usage BY <1>1, <2>2, <3>1, <3>2
      <3>4. QED BY <3>3
    <2> HIDE DEF S
    <2>3. Nat \subseteq S BY <2>1, <2>2, SetInduction
    <2>4. QED BY <2>3 DEF S
  <1>15. s \in [0..n -> Usage] BY <1>11, <1>14
  <1>16. QED BY <1>13, <1>15 DEF s, Sum

(* The evidence w goes on where v ends, and keeps the mutations of its     *)
(* effects.                                                                *)
Continues(w, v) ==
  LET n == Len(v.effects) IN
  /\ v \in EvidenceRecord /\ w \in EvidenceRecord
  /\ n <= Len(w.effects)
  /\ \A i \in 1..n : /\ w.effects[i] = v.effects[i]
                     /\ LET e == v.effects[i].request
                        IN /\ ExecutionsOf(w, e) = ExecutionsOf(v, e)
                           /\ MutationsOf(w, e) = MutationsOf(v, e)

LEMMA SubjectsKept ==
  ASSUME NEW v, NEW w, Continues(w, v), NEW subject
  PROVE  \A i \in 0..Len(v.effects) :
           SubjectsAlong(subject, w)[i] = SubjectsAlong(subject, v)[i]
  <1> DEFINE n == Len(v.effects)
             k == Len(w.effects)
             s == SubjectsAlong(subject, v)
             t == SubjectsAlong(subject, w)
             S == {i \in Nat : i \in 0..n => t[i] = s[i]}
  <1>1. n \in Nat /\ k \in Nat /\ n <= k BY EvidenceFields DEF Continues
  <1>2. s[0] = subject /\ \A i \in 1..n : s[i] = NextSubject(v, i, s[i - 1])
    BY <1>1, SubjectsUnfold
  <1>3. t[0] = subject /\ \A i \in 1..k : t[i] = NextSubject(w, i, t[i - 1])
    BY <1>1, SubjectsUnfold
  <1>4. \A i \in 1..n : i \in 1..k BY <1>1
  <1>5. \A i \in 1..n : \A x : NextSubject(w, i, x) = NextSubject(v, i, x)
    <2> TAKE i \in 1..n
    <2> TAKE x
    <2> DEFINE own == MutationsOf(v, v.effects[i].request)
               P(o) == IF o = {} THEN x ELSE (CHOOSE m \in o : TRUE).after
    <2>1. MutationsOf(w, w.effects[i].request) = own BY DEF Continues
    <2>2. NextSubject(v, i, x) = P(own) BY DEF NextSubject
    <2>3. NextSubject(w, i, x) = P(MutationsOf(w, w.effects[i].request)) BY DEF NextSubject
    <2> HIDE DEF own, P
    <2>4. QED BY <2>1, <2>2, <2>3
  <1> HIDE DEF n, k, s, t
  <1>6. 0 \in S BY <1>2, <1>3
  <1>7. ASSUME NEW i \in Nat, i \in S PROVE i + 1 \in S
    <2>1. i + 1 \in 0..n => i \in 0..n /\ i + 1 \in 1..n /\ (i + 1) - 1 = i BY <1>1
    <2>2. i + 1 \in 0..n => t[i] = s[i] BY <2>1, <1>7
    <2>3. i + 1 \in 0..n => t[i + 1] = NextSubject(w, i + 1, t[i]) BY <2>1, <1>3, <1>4
    <2>4. i + 1 \in 0..n => s[i + 1] = NextSubject(v, i + 1, s[i]) BY <2>1, <1>2
    <2>5. i + 1 \in 0..n => t[i + 1] = s[i + 1] BY <2>1, <2>2, <2>3, <2>4, <1>5
    <2>6. QED BY <2>5
  <1> HIDE DEF S
  <1>8. Nat \subseteq S BY <1>6, <1>7, SetInduction
  <1>9. QED BY <1>8 DEF S, n, s, t

LEMMA UsageKeptAlong ==
  ASSUME NEW v, NEW w, Continues(w, v)
  PROVE  \A i \in 0..Len(v.effects) : UsageAlong(w)[i] = UsageAlong(v)[i]
  <1> DEFINE n == Len(v.effects)
             k == Len(w.effects)
             s == UsageAlong(v)
             t == UsageAlong(w)
             S == {i \in Nat : i \in 0..n => t[i] = s[i]}
             Sum(x, r) == [m \in Meters |-> x[m] + r.usage[m]]
  <1>1. n \in Nat /\ k \in Nat /\ n <= k /\ v \in EvidenceRecord /\ w \in EvidenceRecord
    BY EvidenceFields DEF Continues
  <1>2. s[0] = ZeroUsage /\ \A i \in 1..n : s[i] = Sum(s[i - 1], v.effects[i])
    BY <1>1, UsageUnfolds
  <1>3. t[0] = ZeroUsage /\ \A i \in 1..k : t[i] = Sum(t[i - 1], w.effects[i])
    BY <1>1, UsageUnfolds
  <1>4. \A i \in 1..n : i \in 1..k BY <1>1
  <1>5. \A i \in 1..n : w.effects[i] = v.effects[i]
    BY DEF Continues
  <1> HIDE DEF n, k, s, t, Sum
  <1>6. 0 \in S BY <1>2, <1>3
  <1>7. ASSUME NEW i \in Nat, i \in S PROVE i + 1 \in S
    <2>1. i + 1 \in 0..n => i \in 0..n /\ i + 1 \in 1..n /\ (i + 1) - 1 = i BY <1>1
    <2>2. i + 1 \in 0..n => t[i] = s[i] BY <2>1, <1>7
    <2>3. i + 1 \in 0..n => t[i + 1] = Sum(t[i], w.effects[i + 1]) BY <2>1, <1>3, <1>4
    <2>4. i + 1 \in 0..n => s[i + 1] = Sum(s[i], v.effects[i + 1]) BY <2>1, <1>2
    <2>5. i + 1 \in 0..n => t[i + 1] = s[i + 1] BY <2>1, <2>2, <2>3, <2>4, <1>5
    <2>6. QED BY <2>5
  <1> HIDE DEF S
  <1>8. Nat \subseteq S BY <1>6, <1>7, SetInduction
  <1>9. QED BY <1>8 DEF S, n, s, t

----------------------------------------------------------------------------
(* The first decision about each effect.                                   *)

(* The decisions ns come after the decisions ds.                           *)
After(ns, ds) ==
  /\ ds \subseteq DecisionRecord /\ ns \subseteq DecisionRecord
  /\ \A d \in ds, c \in ns : d.seq < c.seq

(* Decisions about the completion or what has been decided on leave the    *)
(* order of the effects alone.                                             *)
LEMMA FirstsStay ==
  ASSUME NEW ds, NEW ns, After(ns, ds),
         \A c \in ns : OwnDecision(c) \/ \E d \in ds : d.digest = c.digest
  PROVE  /\ Firsts(ds \cup ns) = Firsts(ds)
         /\ \A d : Place(ds \cup ns, d) = Place(ds, d)
  <1> DEFINE es == ds \cup ns
  <1>1. \A d \in es : d.seq \in Nat BY DEF After, DecisionRecord
  <1>2. \A d \in ds, c \in ns : d.seq <= c.seq /\ ~(c.seq <= d.seq)
    BY <1>1 DEF After
  <1>3. ASSUME NEW d \in Firsts(ds) PROVE d \in Firsts(es)
    BY <1>2 DEF Firsts
  <1>4. ASSUME NEW d \in Firsts(es) PROVE d \in Firsts(ds)
    <2>1. d \in es /\ ~OwnDecision(d) /\ \A c \in es : c.digest = d.digest => d.seq <= c.seq
      BY DEF Firsts
    <2>2. d \in ds
      <3>1. SUFFICES ASSUME d \in ns PROVE FALSE BY <2>1
      <3>2. PICK c \in ds : c.digest = d.digest BY <2>1, <3>1
      <3>3. d.seq <= c.seq BY <2>1, <3>2
      <3>4. QED BY <1>2, <3>1, <3>2, <3>3
    <2>3. QED BY <2>1, <2>2 DEF Firsts
  <1>5. Firsts(es) = Firsts(ds) BY <1>3, <1>4
  <1>6. QED BY <1>5 DEF Place

(* The first decision about another effect comes last in that order.       *)
LEMMA FirstsGrow ==
  ASSUME NEW ds, NEW ns, After(ns, ds), IsFiniteSet(Firsts(ds)),
         NEW e, \A d \in ds : d.digest # e,
         \A c \in ns : c.digest = e /\ ~OwnDecision(c),
         NEW f \in ns, \A c \in ns : f.seq <= c.seq /\ (c.seq = f.seq => c = f)
  PROVE  LET es == ds \cup ns
             n  == Cardinality(Firsts(ds))
         IN /\ Firsts(es) = Firsts(ds) \cup {f}
            /\ IsFiniteSet(Firsts(es)) /\ n \in Nat /\ Cardinality(Firsts(es)) = n + 1
            /\ \A d \in Firsts(ds) : Place(es, d) = Place(ds, d)
            /\ Place(es, f) = n + 1
  <1> DEFINE es == ds \cup ns
             n == Cardinality(Firsts(ds))
  <1>1. \A d \in es : d.seq \in Nat BY DEF After, DecisionRecord
  <1>2. \A d \in ds, c \in ns : d.seq <= c.seq /\ ~(c.seq <= d.seq)
    BY <1>1 DEF After
  <1>3. ASSUME NEW d \in Firsts(ds) PROVE d \in Firsts(es)
    BY <1>2 DEF Firsts
  <1>4. f \in Firsts(es) BY <1>2 DEF Firsts
  <1>5. ASSUME NEW d \in Firsts(es) PROVE d \in Firsts(ds) \cup {f}
    <2>1. d \in es /\ ~OwnDecision(d) /\ \A c \in es : c.digest = d.digest => d.seq <= c.seq
      BY DEF Firsts
    <2>2. CASE d \in ds BY <2>1, <2>2 DEF Firsts
    <2>3. CASE d \in ns
      <3>1. d.seq <= f.seq /\ f.seq <= d.seq BY <2>1, <2>3
      <3>2. d.seq \in Nat /\ f.seq \in Nat BY <1>1, <2>3
      <3>3. d.seq = f.seq BY <3>1, <3>2
      <3>4. QED BY <2>3, <3>3
    <2>4. QED BY <2>1, <2>2, <2>3
  <1>6. Firsts(es) = Firsts(ds) \cup {f} BY <1>3, <1>4, <1>5
  <1>7. f \notin Firsts(ds) BY DEF Firsts
  <1>8. n \in Nat BY FS_CardinalityType
  <1>9. IsFiniteSet(Firsts(es)) /\ Cardinality(Firsts(es)) = n + 1
    BY <1>6, <1>7, FS_AddElement
  <1>10. Firsts(ds) \subseteq ds BY DEF Firsts
  <1>11. ASSUME NEW d \in Firsts(ds) PROVE Place(es, d) = Place(ds, d)
    <2>1. ~(f.seq <= d.seq) BY <1>2, <1>10
    <2>2. {c \in Firsts(es) : c.seq <= d.seq} = {c \in Firsts(ds) : c.seq <= d.seq}
      BY <1>6, <2>1
    <2>3. QED BY <2>2 DEF Place
  <1>12. Place(es, f) = n + 1
    <2>1. f.seq <= f.seq BY <1>1
    <2>2. \A c \in Firsts(ds) : c.seq <= f.seq BY <1>2, <1>10
    <2>3. {c \in Firsts(es) : c.seq <= f.seq} = Firsts(es) BY <1>6, <2>1, <2>2
    <2>4. QED BY <1>9, <2>3 DEF Place
  <1>13. QED BY <1>6, <1>8, <1>9, <1>11, <1>12

----------------------------------------------------------------------------
(* The body of the loop over the effects.                                  *)

LEMMA AdmittedKept ==
  ASSUME NEW ds, NEW es, NEW e, ds \subseteq es, \A d \in es \ ds : d.digest # e, NEW seq
  PROVE  AdmittedBefore(es, e, seq) <=> AdmittedBefore(ds, e, seq)
  <1>1. {d \in es : d.digest = e} = {d \in ds : d.digest = e} OBVIOUS
  <1>2. QED BY <1>1, Zenon DEF AdmittedBefore

(* An effect that matched still does when the run has gone on.             *)
LEMMA MatchesLater ==
  ASSUME NEW v, NEW w, Continues(w, v), NEW subject, NEW i \in 1..Len(v.effects),
         NEW ds, NEW es, ds \subseteq es,
         \A d \in es \ ds : d.digest # v.effects[i].request,
         \A d \in Firsts(ds) : d \in Firsts(es) /\ Place(es, d) = Place(ds, d),
         EffectMatches(subject, ds, v, i)
  PROVE  EffectMatches(subject, es, w, i)
  <1> DEFINE r == v.effects[i]
             e == r.request
             current == SubjectsAlong(subject, v)[i - 1]
             attempted == r.status \in Attempted
  <1>1. Len(v.effects) \in Nat BY EvidenceFields DEF Continues
  <1>2. w.effects[i] = r /\ ExecutionsOf(w, e) = ExecutionsOf(v, e)
        /\ MutationsOf(w, e) = MutationsOf(v, e)
    BY DEF Continues
  <1>3. \A j \in 1..(i - 1) : w.effects[j] = v.effects[j] BY <1>1 DEF Continues
  <1>4. SubjectsAlong(subject, w)[i - 1] = current
    <2>1. i - 1 \in 0..Len(v.effects) BY <1>1
    <2>2. QED BY <2>1, SubjectsKept
  <1>5. \A seq : AdmittedBefore(es, e, seq) <=> AdmittedBefore(ds, e, seq)
    BY AdmittedKept
  <1>6. /\ \E d \in Firsts(ds) : Place(ds, d) = i /\ d.digest = e
        /\ \A j \in 1..(i - 1) : v.effects[j].request.id # e.id
        /\ e.seq = i
        /\ e.subject = current
        /\ \E d \in ds : d.id = r.decision /\ d.digest = e
        /\ attempted => r.usage["calls"] > 0
        /\ Cardinality(ExecutionsOf(v, e)) = One(attempted)
        /\ \A x \in ExecutionsOf(v, e) : /\ AdmittedBefore(ds, e, x.seq)
                                         /\ x.decision = r.decision
        /\ Cardinality(MutationsOf(v, e)) =
             One(attempted /\ e.class = "mutation" /\ r.post # Null)
        /\ \A m \in MutationsOf(v, e) : m.before = current /\ m.after = r.post
    BY DEF EffectMatches
  <1> HIDE DEF r, e, current, attempted
  <1>7. /\ \E d \in Firsts(es) : Place(es, d) = i /\ d.digest = e
        /\ \A j \in 1..(i - 1) : w.effects[j].request.id # e.id
        /\ \E d \in es : d.id = r.decision /\ d.digest = e
        /\ Cardinality(ExecutionsOf(w, e)) = One(attempted)
        /\ \A x \in ExecutionsOf(w, e) : /\ AdmittedBefore(es, e, x.seq)
                                         /\ x.decision = r.decision
        /\ Cardinality(MutationsOf(w, e)) =
             One(attempted /\ e.class = "mutation" /\ r.post # Null)
        /\ \A m \in MutationsOf(w, e) : m.before = current /\ m.after = r.post
    BY <1>2, <1>3, <1>5, <1>6
  <1>8. QED BY <1>2, <1>4, <1>6, <1>7 DEF EffectMatches, r, e, current, attempted

(* What InTurn says, of any ledger l and evidence v.                       *)
Kept(subject, l, v, waiting) ==
  LET ds == l.log.decisions
      n  == Len(v.effects)
  IN /\ IsFiniteSet(Firsts(ds))
     /\ Cardinality(Firsts(ds)) = n + waiting
     /\ \A i \in 1..n : EffectMatches(subject, ds, v, i)
     /\ SubjectsAlong(subject, v)[n] = l.current
     /\ \A m \in Meters : UsageAlong(v)[n][m] <= l.usage[m] \/ l.usage[m] = MaxSafe

LEMMA InTurnMeaning ==
  ASSUME NEW waiting
  PROVE  InTurn(waiting) <=> Kept(config.subject, ledger, evidence, waiting)
  BY DEF InTurn, Kept, Decisions, Count, Matches, SubjectAfter, EffectUsage

LEMMA InTurnMeaningAfter ==
  ASSUME NEW CONSTANT waiting
  PROVE  InTurn(waiting)' <=> Kept(config.subject', ledger', evidence', waiting)
  BY DEF InTurn, Kept, Decisions, Count, Matches, SubjectAfter, EffectUsage

(* The turns of the effects depend on the ledger only through these parts. *)
LEMMA KeptFrame ==
  ASSUME NEW l, NEW k, NEW v \in EvidenceRecord, NEW subject, NEW waiting,
         Kept(subject, l, v, waiting), k.log.decisions = l.log.decisions,
         k.current = l.current, l.usage \in Counters, k.usage \in Counters,
         \A m \in Meters : l.usage[m] <= k.usage[m]
  PROVE  Kept(subject, k, v, waiting)
  <1> DEFINE n == Len(v.effects)
  <1>1. \A m \in Meters : UsageAlong(v)[n][m] <= k.usage[m] \/ k.usage[m] = MaxSafe
    <2> TAKE m \in Meters
    <2>1. n \in Nat BY EvidenceFields
    <2>2. UsageAlong(v)[n] \in Usage BY <2>1, UsageUnfolds
    <2>3. UsageAlong(v)[n][m] \in Nat BY <2>2 DEF Usage
    <2>4. l.usage[m] \in 0..MaxSafe /\ k.usage[m] \in 0..MaxSafe /\ l.usage[m] <= k.usage[m]
      BY DEF Counters
    <2>5. UsageAlong(v)[n][m] <= l.usage[m] \/ l.usage[m] = MaxSafe BY DEF Kept
    <2>6. QED BY <2>3, <2>4, <2>5, MaxSafeAssumption
  <1>2. QED BY <1>1 DEF Kept

(* The completion's decision leaves the turns alone.                       *)
LEMMA KeptCompleted ==
  ASSUME NEW l, NEW k, NEW v \in EvidenceRecord, NEW subject, NEW ns,
         Kept(subject, l, v, 0), After(ns, l.log.decisions),
         k.log.decisions = l.log.decisions \cup ns,
         \A c \in ns : OwnDecision(c) /\ c.digest \in Subjects,
         k.current = l.current, k.usage = l.usage
  PROVE  Kept(subject, k, v, 0)
  <1> DEFINE ds == l.log.decisions
             es == ds \cup ns
             n  == Len(v.effects)
  <1>1. Firsts(es) = Firsts(ds) /\ \A d : Place(es, d) = Place(ds, d) BY FirstsStay
  <1>2. Continues(v, v) BY EvidenceFields DEF Continues
  <1>3. ASSUME NEW i \in 1..n PROVE EffectMatches(subject, es, v, i)
    <2>1. v.effects[i].request \in Effects BY EvidenceFields
    <2>2. \A d \in es \ ds : d.digest # v.effects[i].request BY <2>1, DigestAssumption
    <2>3. EffectMatches(subject, ds, v, i) BY DEF Kept
    <2>4. ds \subseteq es OBVIOUS
    <2>5. \A d \in Firsts(ds) : d \in Firsts(es) /\ Place(es, d) = Place(ds, d) BY <1>1
    <2> HIDE DEF ds, es
    <2>6. QED BY <1>2, <2>2, <2>3, <2>4, <2>5, MatchesLater
  <1>4. QED BY <1>1, <1>3 DEF Kept

Undecided(ds, e) == \A d \in ds : d.digest # e
About(ns, e)     == \A c \in ns : c.digest = e
Foremost(f, ns)  == f \in ns /\ \A c \in ns : f.seq <= c.seq /\ (c.seq = f.seq => c = f)

(* The effect e has the turn i.                                            *)
Placed(ds, e, i) == \E d \in Firsts(ds) : Place(ds, d) = i /\ d.digest = e

Unrequested(v, e) == \A i \in 1..Len(v.effects) : v.effects[i].request # e

(* Decisions about an effect that has none yet give it the next turn.      *)
LEMMA KeptDecided ==
  ASSUME NEW l, NEW k, NEW v \in EvidenceRecord, NEW subject, NEW ns, NEW e \in Effects,
         Kept(subject, l, v, 0), After(ns, l.log.decisions),
         k.log.decisions = l.log.decisions \cup ns,
         Undecided(l.log.decisions, e),
         Unrequested(v, e),
         About(ns, e), NEW f, Foremost(f, ns),
         k.current = l.current, k.usage = l.usage
  PROVE  Kept(subject, k, v, 1) /\ Placed(k.log.decisions, e, Len(v.effects) + 1)
  <1> DEFINE ds == l.log.decisions
             es == ds \cup ns
             n  == Len(v.effects)
  <1>0. n \in Nat BY EvidenceFields
  <1>1. \A d \in ds : d.digest # e BY DEF Undecided
  <1>2. \A c \in ns : c.digest = e /\ ~OwnDecision(c)
    BY DigestAssumption DEF OwnDecision, After, DecisionRecord, About
  <1>2a. After(ns, ds) OBVIOUS
  <1>3. IsFiniteSet(Firsts(ds)) /\ Cardinality(Firsts(ds)) = n
    BY <1>0 DEF Kept
  <1>4. /\ Firsts(es) = Firsts(ds) \cup {f}
        /\ IsFiniteSet(Firsts(es)) /\ Cardinality(Firsts(es)) = n + 1
        /\ \A d \in Firsts(ds) : Place(es, d) = Place(ds, d)
        /\ Place(es, f) = n + 1
    <2> HIDE DEF ds, n
    <2>1. LET x == ds \cup ns
              c == Cardinality(Firsts(ds))
          IN /\ Firsts(x) = Firsts(ds) \cup {f}
             /\ IsFiniteSet(Firsts(x)) /\ c \in Nat /\ Cardinality(Firsts(x)) = c + 1
             /\ \A d \in Firsts(ds) : Place(x, d) = Place(ds, d)
             /\ Place(x, f) = c + 1
      BY <1>1, <1>2, <1>2a, <1>3, FirstsGrow DEF Foremost
    <2>2. QED BY <1>3, <2>1
  <1>5. Continues(v, v) BY EvidenceFields DEF Continues
  <1>6. ASSUME NEW i \in 1..n PROVE EffectMatches(subject, es, v, i)
    <2>1. \A d \in es \ ds : d.digest # v.effects[i].request BY <1>2 DEF Unrequested
    <2>2. EffectMatches(subject, ds, v, i) BY DEF Kept
    <2>3. ds \subseteq es OBVIOUS
    <2>4. \A d \in Firsts(ds) : d \in Firsts(es) /\ Place(es, d) = Place(ds, d) BY <1>4
    <2> HIDE DEF ds, es
    <2>5. QED BY <1>5, <2>1, <2>2, <2>3, <2>4, MatchesLater
  <1>7. Kept(subject, k, v, 1) BY <1>4, <1>6 DEF Kept
  <1>8. f.digest = e BY <1>2 DEF Foremost
  <1>9. QED BY <1>4, <1>7, <1>8 DEF Placed

(* What a step records of an effect: w is v with the record r, and if it   *)
(* was attempted the execution that ds admits, and if it was a mutation    *)
(* with a known outcome that mutation.                                     *)
Mutating(r) == r.status \in Attempted /\ r.request.class = "mutation" /\ r.post # Null

Adds(w, v, r, ds, before, after) ==
  /\ v \in EvidenceRecord /\ w \in EvidenceRecord
  /\ w.effects = Append(v.effects, r)
  /\ IF r.status \in Attempted
       THEN /\ r.usage["calls"] > 0
            /\ \E x : /\ w.executions = v.executions \cup {x}
                      /\ x.digest = r.request /\ x.decision = r.decision
                      /\ AdmittedBefore(ds, r.request, x.seq)
       ELSE w.executions = v.executions
  /\ IF Mutating(r)
       THEN \E m : /\ w.mutations = v.mutations \cup {m}
                   /\ m.digest = r.request /\ m.before = before /\ m.after = r.post
                   /\ after = r.post
       ELSE w.mutations = v.mutations /\ after = before

LEMMA AddedEvidence ==
  ASSUME NEW v, NEW w, NEW r, NEW ds, NEW before, NEW after,
         Adds(w, v, r, ds, before, after),
         \A i \in 1..Len(v.effects) : v.effects[i].request.id # r.request.id,
         \A x \in v.executions \cup v.mutations :
           x.digest \in {v.effects[i].request : i \in 1..Len(v.effects)}
  PROVE  LET n == Len(v.effects)
             e == r.request
         IN /\ n \in Nat /\ Len(w.effects) = n + 1
            /\ w.effects[n + 1] = r
            /\ r \in EvidenceEffect /\ r.usage \in Usage
            /\ Continues(w, v)
            /\ Cardinality(ExecutionsOf(w, e)) = One(r.status \in Attempted)
            /\ \A x \in ExecutionsOf(w, e) : /\ AdmittedBefore(ds, e, x.seq)
                                             /\ x.decision = r.decision
            /\ Cardinality(MutationsOf(w, e)) = One(Mutating(r))
            /\ \A m \in MutationsOf(w, e) : m.before = before /\ m.after = r.post
            /\ after = NextSubject(w, n + 1, before)
  <1> DEFINE n == Len(v.effects)
             e == r.request
  <1>1. /\ v \in EvidenceRecord /\ w \in EvidenceRecord
        /\ w.effects = Append(v.effects, r)
    BY DEF Adds
  <1>2. /\ n \in Nat /\ v.effects \in Seq(EvidenceEffect) /\ DOMAIN v.effects = 1..n
        /\ w.effects \in Seq(EvidenceEffect)
    BY <1>1, EvidenceFields
  <1>3. /\ Len(w.effects) = n + 1
        /\ w.effects[n + 1] = r /\ \A i \in 1..n : w.effects[i] = v.effects[i]
    BY <1>1, <1>2
  <1>4. n + 1 \in 1..Len(w.effects) /\ \A i \in 1..n : i \in 1..Len(w.effects)
    BY <1>2, <1>3
  <1>5. r \in EvidenceEffect /\ r.usage \in Usage
    BY <1>1, <1>3, <1>4, EvidenceFields
  <1>6. \A i \in 1..n : v.effects[i].request # e OBVIOUS
  <1>7. ExecutionsOf(v, e) = {} /\ MutationsOf(v, e) = {}
    BY <1>6 DEF ExecutionsOf, MutationsOf
  <1>8. /\ \A x \in w.executions : x \in v.executions \/ x.digest = e
        /\ \A m \in w.mutations : m \in v.mutations \/ m.digest = e
        /\ v.executions \subseteq w.executions /\ v.mutations \subseteq w.mutations
    BY DEF Adds
  <1>9. \A i \in 1..n : /\ ExecutionsOf(w, v.effects[i].request) = ExecutionsOf(v, v.effects[i].request)
                        /\ MutationsOf(w, v.effects[i].request) = MutationsOf(v, v.effects[i].request)
    BY <1>6, <1>8 DEF ExecutionsOf, MutationsOf
  <1>10. Continues(w, v)
    <2>1. n <= Len(w.effects) BY <1>2, <1>3
    <2>2. QED BY <1>1, <1>3, <1>9, <2>1 DEF Continues
  <1>11. /\ Cardinality(ExecutionsOf(w, e)) = One(r.status \in Attempted)
         /\ \A x \in ExecutionsOf(w, e) : /\ AdmittedBefore(ds, e, x.seq)
                                          /\ x.decision = r.decision
    <2>1. CASE r.status \in Attempted
      <3>1. PICK x : /\ w.executions = v.executions \cup {x}
                     /\ x.digest = e /\ x.decision = r.decision
                     /\ AdmittedBefore(ds, e, x.seq)
        BY <2>1 DEF Adds
      <3>2. ExecutionsOf(w, e) = {x} BY <1>7, <3>1 DEF ExecutionsOf
      <3>3. Cardinality({x}) = 1 BY FS_Singleton
      <3>4. QED BY <2>1, <3>1, <3>2, <3>3 DEF One
    <2>2. CASE r.status \notin Attempted
      <3>1. w.executions = v.executions BY <2>2 DEF Adds
      <3>2. ExecutionsOf(w, e) = {} BY <1>7, <3>1 DEF ExecutionsOf
      <3>3. Cardinality({}) = 0 BY FS_EmptySet
      <3>4. QED BY <2>2, <3>2, <3>3 DEF One
    <2>3. QED BY <2>1, <2>2
  <1>12. CASE Mutating(r)
    <2>1. PICK m : /\ w.mutations = v.mutations \cup {m}
                   /\ m.digest = e /\ m.before = before /\ m.after = r.post
                   /\ after = r.post
      BY <1>12 DEF Adds
    <2>2. MutationsOf(w, e) = {m} BY <1>7, <2>1 DEF MutationsOf
    <2>3. Cardinality({m}) = 1 BY FS_Singleton
    <2>4. (CHOOSE x \in {m} : TRUE) = m OBVIOUS
    <2>5. after = NextSubject(w, n + 1, before)
      BY <1>3, <2>1, <2>2, <2>4 DEF NextSubject
    <2>6. QED BY <1>2, <1>3, <1>5, <1>10, <1>11, <1>12, <2>1, <2>2, <2>3, <2>5 DEF One
  <1>13. CASE ~Mutating(r)
    <2>1. w.mutations = v.mutations /\ after = before BY <1>13 DEF Adds
    <2>2. MutationsOf(w, e) = {} BY <1>7, <2>1 DEF MutationsOf
    <2>3. Cardinality({}) = 0 BY FS_EmptySet
    <2>4. after = NextSubject(w, n + 1, before) BY <1>3, <2>1, <2>2 DEF NextSubject
    <2>5. QED BY <1>2, <1>3, <1>5, <1>10, <1>11, <1>13, <2>2, <2>3, <2>4 DEF One
  <1>14. QED BY <1>12, <1>13

(* An effect in its turn is recorded.                                      *)
LEMMA KeptRecorded ==
  ASSUME NEW l, NEW k, NEW v, NEW w, NEW r, NEW ns, NEW subject,
         Kept(subject, l, v, 1),
         Placed(l.log.decisions, r.request, Len(v.effects) + 1),
         r.request.seq = Len(v.effects) + 1, r.request.subject = l.current,
         \A i \in 1..Len(v.effects) : v.effects[i].request.id # r.request.id,
         \A x \in v.executions \cup v.mutations :
           x.digest \in {v.effects[i].request : i \in 1..Len(v.effects)},
         After(ns, l.log.decisions), About(ns, r.request),
         k.log.decisions = l.log.decisions \cup ns,
         \E d \in k.log.decisions : d.id = r.decision /\ d.digest = r.request,
         Adds(w, v, r, k.log.decisions, l.current, k.current),
         l.usage \in Counters, k.usage = CappedUsage(l.usage, r.usage)
  PROVE  Kept(subject, k, w, 0)
  <1> DEFINE n  == Len(v.effects)
             e  == r.request
             ds == l.log.decisions
             es == k.log.decisions
  <1>1. /\ n \in Nat /\ Len(w.effects) = n + 1
        /\ w.effects[n + 1] = r
        /\ r \in EvidenceEffect /\ r.usage \in Usage
        /\ Continues(w, v)
        /\ Cardinality(ExecutionsOf(w, e)) = One(r.status \in Attempted)
        /\ \A x \in ExecutionsOf(w, e) : AdmittedBefore(es, e, x.seq) /\ x.decision = r.decision
        /\ Cardinality(MutationsOf(w, e)) = One(Mutating(r))
        /\ \A m \in MutationsOf(w, e) : m.before = l.current /\ m.after = r.post
        /\ k.current = NextSubject(w, n + 1, l.current)
    BY AddedEvidence
  <1>2. v \in EvidenceRecord /\ w \in EvidenceRecord BY <1>1 DEF Continues
  <1>3. Firsts(es) = Firsts(ds) /\ \A d : Place(es, d) = Place(ds, d)
    <2>1. \E d \in ds : d.digest = e BY DEF Firsts, Placed
    <2>2. \A c \in ns : OwnDecision(c) \/ \E d \in ds : d.digest = c.digest
      BY <2>1 DEF About
    <2>3. es = ds \cup ns OBVIOUS
    <2>3a. After(ns, ds) OBVIOUS
    <2> HIDE DEF ds, es
    <2>4. Firsts(ds \cup ns) = Firsts(ds) /\ \A d : Place(ds \cup ns, d) = Place(ds, d)
      BY <2>2, <2>3a, FirstsStay
    <2>5. QED BY <2>3, <2>4
  <1>4. /\ IsFiniteSet(Firsts(es)) /\ Cardinality(Firsts(es)) = n + 1
        /\ \A i \in 1..n : EffectMatches(subject, ds, v, i)
        /\ SubjectsAlong(subject, v)[n] = l.current
    BY <1>3 DEF Kept
  <1>5. ASSUME NEW i \in 1..n PROVE EffectMatches(subject, es, w, i)
    <2>1. v.effects[i].request # e OBVIOUS
    <2>2. \A d \in es \ ds : d.digest # v.effects[i].request BY <2>1 DEF About
    <2>3. ds \subseteq es OBVIOUS
    <2>4. \A d \in Firsts(ds) : d \in Firsts(es) /\ Place(es, d) = Place(ds, d) BY <1>3
    <2>5. EffectMatches(subject, ds, v, i) BY <1>4
    <2> HIDE DEF ds, es
    <2>6. QED BY <1>1, <2>2, <2>3, <2>4, <2>5, MatchesLater
  <1>6. SubjectsAlong(subject, w)[n] = l.current
    <2>1. n \in 0..n BY <1>1
    <2>2. QED BY <1>1, <1>4, <2>1, SubjectsKept
  <1>7. EffectMatches(subject, es, w, n + 1)
    <2>1. (n + 1) - 1 = n BY <1>1
    <2>2. \A j \in 1..n : w.effects[j].request.id # e.id BY <1>1 DEF Continues
    <2>3. \E d \in Firsts(es) : Place(es, d) = n + 1 /\ d.digest = e BY <1>3 DEF Placed
    <2>4. r.status \in Attempted => r.usage["calls"] > 0 BY DEF Adds
    <2>5. \E d \in es : d.id = r.decision /\ d.digest = e OBVIOUS
    <2>6. e.seq = n + 1 /\ e.subject = l.current OBVIOUS
    <2> HIDE DEF n, e, es
    <2>7. QED BY <1>1, <1>6, <2>1, <2>2, <2>3, <2>4, <2>5, <2>6 DEF EffectMatches, Mutating, e
  <1>8. SubjectsAlong(subject, w)[n + 1] = k.current
    <2>1. n + 1 \in Nat /\ n + 1 \in 1..(n + 1) /\ (n + 1) - 1 = n BY <1>1
    <2>2. \A j \in 1..(n + 1) : SubjectsAlong(subject, w)[j]
                                  = NextSubject(w, j, SubjectsAlong(subject, w)[j - 1])
      <3>1. \A j \in 1..Len(w.effects) :
              SubjectsAlong(subject, w)[j] = NextSubject(w, j, SubjectsAlong(subject, w)[j - 1])
        BY <1>2, SubjectsNext
      <3>2. QED BY <1>1, <3>1
    <2>3. SubjectsAlong(subject, w)[n + 1] = NextSubject(w, n + 1, SubjectsAlong(subject, w)[n])
      BY <2>1, <2>2
    <2>4. QED BY <1>1, <1>6, <2>3
  <1>9. ASSUME NEW m \in Meters
        PROVE  UsageAlong(w)[n + 1][m] <= k.usage[m] \/ k.usage[m] = MaxSafe
    <2>1. n + 1 \in Nat /\ n + 1 \in 1..(n + 1) /\ (n + 1) - 1 = n /\ n \in 0..n BY <1>1
    <2>2. UsageAlong(w)[n + 1] = [x \in Meters |-> UsageAlong(w)[n][x] + r.usage[x]]
      <3> DEFINE t == n + 1
      <3>1. t \in Nat /\ t = Len(w.effects) BY <1>1, <2>1
      <3> HIDE DEF t
      <3>2. \A j \in 1..t : UsageAlong(w)[j]
                = [x \in Meters |-> UsageAlong(w)[j - 1][x] + w.effects[j].usage[x]]
        BY <3>1, <1>2, UsageUnfolds
      <3>3. QED BY <1>1, <2>1, <3>2 DEF t
    <2>3. UsageAlong(w)[n] = UsageAlong(v)[n] BY <1>1, <2>1, UsageKeptAlong
    <2>4. UsageAlong(v)[n] \in Usage BY <1>1, <1>2, <2>1, UsageUnfolds
    <2>5. /\ UsageAlong(v)[n][m] \in Nat /\ r.usage[m] \in Nat /\ l.usage[m] \in 0..MaxSafe
          /\ UsageAlong(w)[n + 1][m] = UsageAlong(v)[n][m] + r.usage[m]
      BY <1>1, <2>2, <2>3, <2>4 DEF Usage, Counters
    <2>6. UsageAlong(v)[n][m] <= l.usage[m] \/ l.usage[m] = MaxSafe BY DEF Kept
    <2>7. k.usage[m] = IF l.usage[m] + r.usage[m] > MaxSafe THEN MaxSafe
                       ELSE l.usage[m] + r.usage[m]
      BY DEF CappedUsage, CappedSum
    <2>8. QED BY <2>5, <2>6, <2>7, MaxSafeAssumption
  <1>10. \A i \in 1..(n + 1) : EffectMatches(subject, es, w, i)
    <2>1. \A i \in 1..(n + 1) : i = n + 1 \/ i \in 1..n BY <1>1
    <2> HIDE DEF n, es
    <2>2. QED BY <1>5, <1>7, <2>1
  <1>11. Cardinality(Firsts(es)) = Len(w.effects) + 0 BY <1>1, <1>4
  <1>12. QED BY <1>1, <1>4, <1>8, <1>9, <1>10, <1>11 DEF Kept

----------------------------------------------------------------------------
(* What the methods of the ledger leave alone that the evidence is about.  *)

(* l has grown into k without a decision, a result or a mutation.          *)
Quiet(k, l) ==
  /\ Shaped(k)
  /\ k.results = l.results
  /\ k.current = l.current
  /\ k.ids = l.ids
  /\ k.log.decisions = l.log.decisions
  /\ k.log.lastMutation = l.log.lastMutation
  /\ k.usage \in Counters
  /\ \A m \in Meters : l.usage[m] <= k.usage[m]

Calm(k, l) == Quiet(k, l) /\ k.log.interrupted = l.log.interrupted

Metering(l) == Shaped(l) /\ l.usage \in Counters

LEMMA QuietReflexive == ASSUME NEW l, Metering(l) PROVE Calm(l, l)
  BY DEF Metering, Quiet, Calm, Counters

LEMMA QuietTransitive ==
  ASSUME NEW l, NEW k, NEW h, Metering(l), Quiet(k, l), Quiet(h, k)
  PROVE  Quiet(h, l)
  <1>1. \A m \in Meters : l.usage[m] <= h.usage[m]
    <2> TAKE m \in Meters
    <2>1. l.usage[m] \in Nat /\ k.usage[m] \in Nat /\ h.usage[m] \in Nat
      BY DEF Metering, Quiet, Counters
    <2>2. l.usage[m] <= k.usage[m] /\ k.usage[m] <= h.usage[m] BY DEF Quiet
    <2>3. QED BY <2>1, <2>2
  <1>2. QED BY <1>1 DEF Quiet

LEMMA CalmTransitive ==
  ASSUME NEW l, NEW k, NEW h, Metering(l), Calm(k, l), Calm(h, k)
  PROVE  Calm(h, l)
  BY QuietTransitive DEF Calm

LEMMA QuietMeters == ASSUME NEW l, NEW k, Quiet(k, l) PROVE Metering(k)
  BY DEF Metering, Quiet

LEMMA LogQuiet ==
  ASSUME NEW l, Metering(l), NEW r,
         DOMAIN r = DOMAIN l.log, r.decisions = l.log.decisions,
         r.lastMutation = l.log.lastMutation
  PROVE  LET k == [l EXCEPT !.log = r] IN Quiet(k, l) /\ k.log = r
  BY DEF Quiet, Metering, Shaped, Counters

LEMMA TransitionQuiet ==
  ASSUME NEW l, Metering(l), NEW to PROVE Calm(Transition(l, to), l)
  <1> DEFINE r == ReplayTransition(l.log, l.status, to)
  <1>1. /\ DOMAIN r = DOMAIN l.log /\ r.decisions = l.log.decisions
        /\ r.lastMutation = l.log.lastMutation /\ r.interrupted = l.log.interrupted
    BY DEF ReplayTransition, Metering, Shaped
  <1>2. Transition(l, to) = [l EXCEPT !.log = r, !.status = to] BY DEF Transition
  <1> HIDE DEF r
  <1>3. QED BY <1>1, <1>2 DEF Calm, Quiet, Metering, Shaped, Counters

LEMMA NoteQuiet ==
  ASSUME NEW l, Metering(l) PROVE Calm(Note(l), l)
  <1> DEFINE r == ReplayNote(l.log, TRUE)
  <1>1. /\ DOMAIN r = DOMAIN l.log /\ r.decisions = l.log.decisions
        /\ r.lastMutation = l.log.lastMutation /\ r.interrupted = l.log.interrupted
    BY DEF ReplayNote, Metering, Shaped
  <1>2. Note(l) = [l EXCEPT !.log = r] BY DEF Note
  <1> HIDE DEF r
  <1>3. QED BY <1>1, <1>2, LogQuiet DEF Calm

LEMMA ToolExecutionQuiet ==
  ASSUME NEW l, Metering(l), NEW id, NEW e PROVE Calm(ToolExecution(l, id, e), l)
  <1> DEFINE r == ReplayToolExecution(l.log, id, e, TRUE)
  <1>1. /\ DOMAIN r = DOMAIN l.log /\ r.decisions = l.log.decisions
        /\ r.lastMutation = l.log.lastMutation /\ r.interrupted = l.log.interrupted
    BY DEF ReplayToolExecution, Metering, Shaped
  <1>2. ToolExecution(l, id, e) = [l EXCEPT !.log = r] BY DEF ToolExecution
  <1> HIDE DEF r
  <1>3. QED BY <1>1, <1>2, LogQuiet DEF Calm

LEMMA InterruptQuiet ==
  ASSUME NEW l, Metering(l) PROVE Quiet(Interrupt(l), l)
  <1> DEFINE r == ReplayInterruption(l.log)
  <1>1. /\ DOMAIN r = DOMAIN l.log /\ r.decisions = l.log.decisions
        /\ r.lastMutation = l.log.lastMutation
    BY DEF ReplayInterruption, Metering, Shaped
  <1>2. Interrupt(l) = [l EXCEPT !.log = r] BY DEF Interrupt
  <1> HIDE DEF r
  <1>3. QED BY <1>1, <1>2, LogQuiet

LEMMA UsageEventQuiet ==
  ASSUME NEW l, Metering(l) PROVE Calm(UsageEvent(l), l)
  <1> DEFINE r == ReplayUsage(l.log, l.usage)
  <1>1. /\ DOMAIN r = DOMAIN l.log /\ r.decisions = l.log.decisions
        /\ r.lastMutation = l.log.lastMutation /\ r.interrupted = l.log.interrupted
    BY DEF ReplayUsage, Metering, Shaped
  <1>2. UsageEvent(l) = l \/ UsageEvent(l) = [l EXCEPT !.log = r] BY DEF UsageEvent
  <1> HIDE DEF r
  <1>3. QED BY <1>1, <1>2, LogQuiet, QuietReflexive DEF Calm

LEMMA RecordQuiet ==
  ASSUME NEW l, Metering(l), NEW u \in Usage
  PROVE  Calm(RecordUsage(l, u), l) /\ RecordUsage(l, u).usage = CappedUsage(l.usage, u)
  <1> DEFINE v == CappedUsage(l.usage, u)
             h == [l EXCEPT !.usage = v]
  <1>1. RecordUsage(l, u) = UsageEvent(h) BY DEF RecordUsage
  <1>2. v \in Counters /\ \A m \in Meters : l.usage[m] <= v[m]
    BY CappedUsageSafe DEF Metering, Counters
  <1> HIDE DEF v
  <1>3. Calm(h, l) /\ h.usage = v /\ Metering(h)
    BY <1>2 DEF Calm, Quiet, Metering, Shaped
  <1> HIDE DEF h
  <1>4. Calm(UsageEvent(h), h) BY <1>3, UsageEventQuiet
  <1>5. UsageEvent(h).usage = h.usage BY <1>3, UsageEventFrame DEF Metering
  <1>6. QED BY <1>1, <1>3, <1>4, <1>5, CalmTransitive DEF v

LEMMA ObservedQuiet ==
  ASSUME NEW l, Metering(l), NEW u \in PortUsages \cup {Null}
  PROVE  Calm(Observed(l, u), l)
  BY UsageAssumption, RecordQuiet, QuietReflexive DEF Observed

LEMMA VerificationQuiet ==
  ASSUME NEW l, Metering(l), NEW rep PROVE Calm(VerificationLedger(l, rep), l)
  <1> DEFINE r == ReplayVerification(l.log, rep.subject, config.implementer,
                                     rep.verifier, rep.verdict, TRUE, rep.complete)
  <1>1. /\ DOMAIN r = DOMAIN l.log /\ r.decisions = l.log.decisions
        /\ r.lastMutation = l.log.lastMutation /\ r.interrupted = l.log.interrupted
    BY DEF ReplayVerification, Metering, Shaped
  <1>2. VerificationLedger(l, rep) = l \/ VerificationLedger(l, rep) = [l EXCEPT !.log = r]
    BY DEF VerificationLedger, Verified
  <1> HIDE DEF r
  <1>3. QED BY <1>1, <1>2, LogQuiet, QuietReflexive DEF Calm

LEMMA PlanQuiet ==
  ASSUME NEW l, Metering(l), NEW to
  PROVE  Calm(PlanLedger(l), l) /\ Calm(Transition(PlanLedger(l), to), l)
  <1> DEFINE n == Note(l)
             p == PlanLedger(l)
  <1>1. Calm(n, l) BY NoteQuiet
  <1>2. p = Note(n) \/ p = n BY DEF PlanLedger
  <1> HIDE DEF n
  <1>3. Metering(n) BY <1>1, QuietMeters DEF Calm
  <1>4. Calm(p, n) BY <1>2, <1>3, NoteQuiet, QuietReflexive
  <1> HIDE DEF p
  <1>5. Calm(p, l) BY <1>1, <1>4, CalmTransitive
  <1>6. Metering(p) BY <1>5, QuietMeters DEF Calm
  <1>7. Calm(Transition(p, to), p) BY <1>6, TransitionQuiet
  <1>8. Calm(Transition(p, to), l) BY <1>5, <1>7, CalmTransitive
  <1>9. QED BY <1>5, <1>8 DEF p

(* A decision is recorded, and nothing else.                               *)
Untaken(k, l) ==
  /\ Metering(k)
  /\ k.results = l.results
  /\ k.current = l.current
  /\ k.ids = l.ids
  /\ k.usage = l.usage
  /\ k.log.lastMutation = l.log.lastMutation
  /\ k.log.interrupted = l.log.interrupted

LEMMA DecideTaken ==
  ASSUME NEW l, Metering(l), NEW id, NEW gate, NEW digest, NEW decision, NEW intact
  PROVE  LET k == Decide(l, id, gate, digest, decision, intact)
         IN /\ Untaken(k, l)
            /\ k.log.decisions = l.log.decisions \cup
                 {[id |-> id, seq |-> l.log.seq + 1, gate |-> gate, digest |-> digest,
                   subject |-> l.current, outcome |-> decision.outcome]}
  <1> DEFINE r == ReplayDecision(l.log, id, gate, digest, l.current, decision, intact)
             a == l.mutationAuthorized \/ /\ gate = "workflow"
                                          /\ decision = Allow("workflow.mutation_authorized")
             d == [id |-> id, seq |-> l.log.seq + 1, gate |-> gate, digest |-> digest,
                   subject |-> l.current, outcome |-> decision.outcome]
  <1>1. /\ DOMAIN r = DOMAIN l.log /\ r.decisions = l.log.decisions \cup {d}
        /\ r.lastMutation = l.log.lastMutation /\ r.interrupted = l.log.interrupted
    BY DEF ReplayDecision, Metering, Shaped
  <1>2. Decide(l, id, gate, digest, decision, intact)
          = [l EXCEPT !.log = r, !.mutationAuthorized = a]
    BY DEF Decide
  <1> HIDE DEF r, a, d
  <1>3. LET k == [l EXCEPT !.log = r, !.mutationAuthorized = a]
        IN Untaken(k, l) /\ k.log = r
    BY <1>1 DEF Untaken, Metering, Shaped
  <1>4. QED BY <1>1, <1>2, <1>3 DEF d

(* The gates have decided on e: ns is what they decided, in the subject    *)
(* and after everything l has, and one of these decisions is the first.    *)
Judged(k, l, e, ns) ==
  /\ Sound(l) /\ Sound(k)
  /\ Untaken(k, l)
  /\ k.log.decisions = l.log.decisions \cup ns
  /\ \A c \in ns : c.digest = e /\ c.subject = l.current /\ l.log.seq < c.seq
  /\ \E f \in ns : \A c \in ns : f.seq <= c.seq /\ (c.seq = f.seq => c = f)
  /\ l.log.seq <= k.log.seq

LEMMA SoundMeters ==
  ASSUME NEW l, Sound(l)
  PROVE  /\ Metering(l) /\ l.log.seq \in Nat /\ l.log.decisions \subseteq DecisionRecord
         /\ l.current \in Subjects
         /\ \A d \in l.log.decisions : d.id = d.seq /\ d.seq \in Nat /\ d.seq <= l.log.seq
  <1>1. l \in LedgerRecord /\ l.log \in LogRecord BY DEF Sound, LedgerRecord
  <1>2. /\ l.log.seq \in Nat /\ l.log.decisions \subseteq DecisionRecord
        /\ l.current \in Subjects /\ l.usage \in Counters
    BY <1>1 DEF LedgerRecord, LogRecord, Counters
  <1>3. \A d \in l.log.decisions : d.id = d.seq /\ d.seq \in 1..l.log.seq BY DEF Sound
  <1>4. QED BY <1>1, <1>2, <1>3, RecordShaped DEF Metering

LEMMA JudgedAfter ==
  ASSUME NEW l, NEW k, NEW e, NEW ns, Judged(k, l, e, ns)
  PROVE  After(ns, l.log.decisions)
  <1>1. /\ l.log.seq \in Nat /\ l.log.decisions \subseteq DecisionRecord
        /\ \A d \in l.log.decisions : d.seq \in Nat /\ d.seq <= l.log.seq
    BY SoundMeters DEF Judged
  <1>2. k.log.decisions \subseteq DecisionRecord BY SoundMeters DEF Judged
  <1>3. ns \subseteq DecisionRecord BY <1>2 DEF Judged
  <1>4. \A c \in ns : c.seq \in Nat /\ l.log.seq < c.seq BY <1>3 DEF Judged, DecisionRecord
  <1>5. \A d \in l.log.decisions, c \in ns : d.seq < c.seq BY <1>1, <1>4
  <1>6. QED BY <1>1, <1>3, <1>5 DEF After

LEMMA JudgedOnce ==
  ASSUME NEW l, Sound(l), NEW gate \in EffectGates, NEW e \in Effects,
         NEW decision, decision.outcome \in Outcomes, Ordinary(gate, decision)
  PROVE  Judged(Decide(l, DecisionId(l), gate, e, decision, TRUE), l, e,
                {NextDecision(l, gate, e, decision)})
  <1> DEFINE yes == TRUE
             k == Decide(l, DecisionId(l), gate, e, decision, yes)
             d == NextDecision(l, gate, e, decision)
  <1>1. /\ Sound(k) /\ k.log.decisions = l.log.decisions \cup {d}
        /\ k.log.seq = l.log.seq + 1
    <2> HIDE DEF d
    <2>1. LET h == Decide(l, DecisionId(l), gate, e, decision, TRUE) IN
          /\ Sound(h) /\ h.status = l.status /\ SameEffects(h, l)
          /\ h.current = l.current /\ h.usage = l.usage /\ h.results = l.results
          /\ l.mutationAuthorized => h.mutationAuthorized
          /\ gate = "workflow" /\ decision = Allow("workflow.mutation_authorized")
               => h.mutationAuthorized
          /\ h.log.decisions = l.log.decisions \cup {NextDecision(l, gate, e, decision)}
          /\ h.log.seq = l.log.seq + 1
      BY DecideSound
    <2>2. QED BY <2>1 DEF d
  <1>2. Metering(l) /\ l.log.seq \in Nat BY SoundMeters
  <1> HIDE DEF yes
  <1>3. Untaken(k, l) BY <1>2, DecideTaken
  <1>4. d.digest = e /\ d.subject = l.current /\ d.seq = l.log.seq + 1
    BY DEF NextDecision
  <1> HIDE DEF d, k
  <1>5. l.log.seq < d.seq /\ d.seq <= d.seq /\ l.log.seq <= k.log.seq BY <1>1, <1>2, <1>4
  <1>6. Judged(k, l, e, {d}) BY <1>1, <1>3, <1>4, <1>5 DEF Judged
  <1>7. QED BY <1>6 DEF d, k, yes

LEMMA JudgedAgain ==
  ASSUME NEW l, NEW k, NEW h, NEW e, NEW ns, NEW ms, Judged(k, l, e, ns), Judged(h, k, e, ms)
  PROVE  Judged(h, l, e, ns \cup ms)
  <1>1. Sound(l) /\ Sound(k) /\ Sound(h) BY DEF Judged
  <1>2. /\ l.log.seq \in Nat /\ k.log.seq \in Nat /\ h.log.seq \in Nat
        /\ \A c \in k.log.decisions : c.seq \in Nat /\ c.seq <= k.log.seq
        /\ \A c \in h.log.decisions : c.seq \in Nat
    BY <1>1, SoundMeters
  <1>3. Untaken(h, l) BY DEF Judged, Untaken
  <1>4. h.log.decisions = l.log.decisions \cup (ns \cup ms) BY DEF Judged
  <1>5. /\ l.log.seq <= k.log.seq /\ k.log.seq <= h.log.seq /\ k.current = l.current
        /\ \A c \in ns : c \in k.log.decisions /\ l.log.seq < c.seq /\ c.digest = e
                         /\ c.subject = l.current
        /\ \A c \in ms : c \in h.log.decisions /\ k.log.seq < c.seq /\ c.digest = e
                         /\ c.subject = k.current
    BY DEF Judged, Untaken
  <1>6. ASSUME NEW c \in ns \cup ms
        PROVE  c.digest = e /\ c.subject = l.current /\ l.log.seq < c.seq
    <2>1. CASE c \in ns BY <2>1, <1>5
    <2>2. CASE c \in ms BY <2>2, <1>2, <1>5
    <2>3. QED BY <2>1, <2>2
  <1>7. PICK f \in ns : \A c \in ns : f.seq <= c.seq /\ (c.seq = f.seq => c = f)
    BY DEF Judged
  <1>8. \A c \in ms : f.seq < c.seq
    <2> TAKE c \in ms
    <2>1. f.seq \in Nat /\ f.seq <= k.log.seq /\ k.log.seq < c.seq /\ c.seq \in Nat
      BY <1>2, <1>5
    <2>2. QED BY <2>1, <1>2
  <1>9. \A c \in ns \cup ms : f.seq <= c.seq /\ (c.seq = f.seq => c = f)
    <2> TAKE c \in ns \cup ms
    <2>1. CASE c \in ns BY <2>1, <1>7
    <2>2. CASE c \in ms
      <3>1. f.seq < c.seq /\ f.seq \in Nat /\ c.seq \in Nat BY <2>2, <1>2, <1>5, <1>8
      <3>2. QED BY <3>1
    <2>3. QED BY <2>1, <2>2
  <1>10. l.log.seq <= h.log.seq BY <1>2, <1>5
  <1>11. \E g \in ns \cup ms : \A c \in ns \cup ms : g.seq <= c.seq /\ (c.seq = g.seq => c = g)
    BY <1>9
  <1>12. QED BY <1>1, <1>3, <1>4, <1>6, <1>10, <1>11 DEF Judged

(* One gate after the other, as far as they are asked.                     *)
LEMMA RecordedJudged ==
  ASSUME NEW c, NEW l, Sound(l), NEW e \in Effects, NEW gate \in EffectGates
  PROVE  Judged(Recorded(c, l, e, gate), l, e,
                {NextDecision(l, gate, e, GateDecision(c, l, e, gate))})
  <1> DEFINE g == GateDecision(c, l, e, gate)
  <1>1. g.outcome \in Outcomes /\ Ordinary(gate, g) BY GateDecisionType
  <1> HIDE DEF g
  <1>2. Judged(Decide(l, DecisionId(l), gate, e, g, TRUE), l, e, {NextDecision(l, gate, e, g)})
    BY <1>1, JudgedOnce
  <1>3. QED BY <1>2 DEF Recorded, g

LEMMA ThroughJudged ==
  ASSUME NEW c, NEW l, Sound(l), NEW e \in Effects, NEW gate \in EffectGates
  PROVE  \E ns : Judged(LedgerThrough(c, l, e, gate), l, e, ns)
  <1> DEFINE OK(k) == \E ns : Judged(k, l, e, ns)
  <1>1. ASSUME NEW k, OK(k), NEW g \in EffectGates PROVE OK(Recorded(c, k, e, g))
    <2> DEFINE h == Recorded(c, k, e, g)
               ms == {NextDecision(k, g, e, GateDecision(c, k, e, g))}
    <2>1. PICK ns : Judged(k, l, e, ns) BY <1>1
    <2>2. Sound(k) BY <2>1 DEF Judged
    <2>3. Judged(h, k, e, ms) BY <2>2, RecordedJudged
    <2> HIDE DEF h, ms
    <2>4. Judged(h, l, e, ns \cup ms) BY <2>1, <2>3, JudgedAgain
    <2>5. OK(h) BY <2>4
    <2>6. QED BY <2>5 DEF h
  <1>2. {"permission", "tool_trust", "runtime", "workflow"} = EffectGates BY DEF EffectGates
  <1>3. OK(PermissionLedger(c, l, e))
    <2>1. Judged(PermissionLedger(c, l, e), l, e,
                 {NextDecision(l, "permission", e, GateDecision(c, l, e, "permission"))})
      BY <1>2, RecordedJudged DEF PermissionLedger
    <2>2. QED BY <2>1
  <1> HIDE DEF OK
  <1>4. OK(ToolTrustLedger(c, l, e)) BY <1>1, <1>2, <1>3 DEF ToolTrustLedger
  <1>5. OK(RuntimeLedger(c, l, e)) BY <1>1, <1>2, <1>4 DEF RuntimeLedger
  <1>6. OK(WorkflowLedger(c, l, e)) BY <1>1, <1>2, <1>5 DEF WorkflowLedger
  <1>7. OK(LedgerThrough(c, l, e, gate))
    BY <1>2, <1>3, <1>4, <1>5, <1>6 DEF LedgerThrough
  <1>8. QED BY <1>7 DEF OK

(* The executor is called after an allow of every gate the effect needs.   *)
NeededGates(e) == EffectGates \ (IF e.class = "mutation" THEN {} ELSE {"workflow"})

LEMMA GatedJudged ==
  ASSUME NEW c, NEW l, Sound(l), NEW e \in Effects, GatesPass(c, l, e)
  PROVE  \E ns : /\ Judged(GatedLedger(c, l, e), l, e, ns)
                 /\ \A d \in ns : d.outcome = "allow"
                 /\ \A gate \in NeededGates(e) : \E d \in ns : d.gate = gate
  <1> DEFINE G(k, gate) == GateDecision(c, k, e, gate)
             D(k, gate) == NextDecision(k, gate, e, G(k, gate))
             p == PermissionLedger(c, l, e)
             t == Recorded(c, p, e, "tool_trust")
             r == Recorded(c, t, e, "runtime")
             w == Recorded(c, r, e, "workflow")
             d1 == D(l, "permission")
             d2 == D(p, "tool_trust")
             d3 == D(t, "runtime")
             d4 == D(r, "workflow")
  <1>0. GatedLedger(c, l, e) = IF e.class = "mutation" THEN w ELSE r
    BY DEF GatedLedger, WorkflowLedger, RuntimeLedger, ToolTrustLedger
  <1>g. {"permission", "tool_trust", "runtime", "workflow"} = EffectGates BY DEF EffectGates
  <1>1. \A k, gate : D(k, gate).gate = gate /\ D(k, gate).outcome = G(k, gate).outcome
    BY DEF NextDecision
  <1>2. Judged(p, l, e, {d1}) BY <1>g, RecordedJudged DEF PermissionLedger
  <1> HIDE DEF p
  <1>3. Judged(t, p, e, {d2})
    <2>1. Sound(p) BY <1>2 DEF Judged
    <2>2. QED BY <2>1, <1>g, RecordedJudged
  <1> HIDE DEF t
  <1>4. Judged(r, t, e, {d3})
    <2>1. Sound(t) BY <1>3 DEF Judged
    <2>2. QED BY <2>1, <1>g, RecordedJudged
  <1> HIDE DEF r
  <1>5. Judged(w, r, e, {d4})
    <2>1. Sound(r) BY <1>4 DEF Judged
    <2>2. QED BY <2>1, <1>g, RecordedJudged
  <1> HIDE DEF w
  <1>6. p.usage = l.usage /\ t.usage = l.usage /\ r.usage = l.usage
    BY <1>2, <1>3, <1>4 DEF Judged, Untaken
  <1>7. /\ G(l, "permission").outcome = "allow" /\ G(p, "tool_trust").outcome = "allow"
        /\ G(t, "runtime").outcome = "allow"
        /\ e.class = "mutation" => G(r, "workflow").outcome = "allow"
    <2>1. /\ G(p, "tool_trust") = G(l, "tool_trust") /\ G(t, "runtime") = G(l, "runtime")
          /\ G(r, "workflow") = G(l, "workflow")
      BY <1>g, <1>6, GateDecisionFrame
    <2>2. GatesOf(e) = IF e.class = "mutation" THEN 1..4 ELSE 1..3 BY DEF GatesOf
    <2>3. /\ {1, 2, 3} \subseteq GatesOf(e)
          /\ e.class = "mutation" => 4 \in GatesOf(e)
      BY <2>2
    <2>4. /\ GateOrder[1] = "permission" /\ GateOrder[2] = "tool_trust"
          /\ GateOrder[3] = "runtime" /\ GateOrder[4] = "workflow"
      BY DEF GateOrder
    <2>5. \A i \in GatesOf(e) : G(l, GateOrder[i]).outcome = "allow"
      BY DEF GatesPass, GateAllows
    <2> HIDE DEF G
    <2>6. QED BY <2>1, <2>3, <2>4, <2>5
  <1>8. /\ d1.gate = "permission" /\ d1.outcome = "allow"
        /\ d2.gate = "tool_trust" /\ d2.outcome = "allow"
        /\ d3.gate = "runtime" /\ d3.outcome = "allow"
        /\ d4.gate = "workflow"
        /\ e.class = "mutation" => d4.outcome = "allow"
    <2> HIDE DEF G, D
    <2>1. QED BY <1>1, <1>7
  <1> HIDE DEF d1, d2, d3, d4
  <1>9. Judged(r, l, e, ({d1} \cup {d2}) \cup {d3})
    <2>1. Judged(t, l, e, {d1} \cup {d2}) BY <1>2, <1>3, JudgedAgain
    <2>2. QED BY <2>1, <1>4, JudgedAgain
  <1>10. Judged(w, l, e, (({d1} \cup {d2}) \cup {d3}) \cup {d4})
    BY <1>5, <1>9, JudgedAgain
  <1>11. CASE e.class = "mutation"
    <2> DEFINE ns == (({d1} \cup {d2}) \cup {d3}) \cup {d4}
    <2>1. \A d \in ns : d.outcome = "allow" BY <1>8, <1>11
    <2>2. \A gate \in NeededGates(e) : \E d \in ns : d.gate = gate
      BY <1>8, <1>g DEF NeededGates
    <2>3. Judged(GatedLedger(c, l, e), l, e, ns) BY <1>0, <1>10, <1>11
    <2> HIDE DEF ns
    <2>4. QED BY <2>1, <2>2, <2>3
  <1>12. CASE e.class # "mutation"
    <2> DEFINE ns == ({d1} \cup {d2}) \cup {d3}
    <2>1. \A d \in ns : d.outcome = "allow" BY <1>8
    <2>2. \A gate \in NeededGates(e) : \E d \in ns : d.gate = gate
      BY <1>8, <1>g, <1>12 DEF NeededGates
    <2>3. Judged(GatedLedger(c, l, e), l, e, ns) BY <1>0, <1>9, <1>12
    <2> HIDE DEF ns
    <2>4. QED BY <2>1, <2>2, <2>3
  <1>13. QED BY <1>11, <1>12

(* An attempt with a sealed body b.                                        *)
LEMMA AttemptTaken ==
  ASSUME NEW l, Metering(l), l.log.seq \in Nat, l.log.lastMutation \in Nat,
         l.log.lastMutation <= l.log.seq,
         NEW p, NEW b, b.usage \in Usage
  PROVE  LET k == AttemptLedger(l, p, b)
         IN /\ Metering(k) /\ k.results = l.results
            /\ k.ids = l.ids \cup {p.effect.id}
            /\ k.log.decisions = l.log.decisions
            /\ k.log.interrupted = l.log.interrupted
            /\ k.usage = CappedUsage(l.usage, b.usage)
            /\ IF b.post # Null /\ p.effect.class = "mutation"
                 THEN k.current = b.post /\ k.log.lastMutation # l.log.lastMutation
                 ELSE k.current = l.current /\ k.log.lastMutation = l.log.lastMutation
  <1> DEFINE e == p.effect
             a == AcceptEffectIdentity(l, e)
             t == ToolExecution(a, p.permission, e)
             m == Mutate(t, p.workflow, e, b.post)
             c == IF b.post # Null /\ e.class = "mutation" THEN m ELSE t
             r == ReplayMutation(t.log, p.workflow, e, t.current, b.post)
  <1>1. /\ Metering(a) /\ a.usage = l.usage /\ a.log = l.log /\ a.results = l.results
        /\ a.current = l.current /\ a.ids = l.ids \cup {e.id}
    BY DEF AcceptEffectIdentity, Metering, Shaped, Counters
  <1> HIDE DEF a
  <1>2. Calm(t, a) /\ t.usage = a.usage /\ t.log.seq = l.log.seq + 1
    <2>1. Calm(t, a) BY <1>1, ToolExecutionQuiet
    <2>2. t.usage = a.usage BY <1>1, ToolExecutionFrame DEF Metering
    <2>3. t.log.seq = a.log.seq + 1
      BY <1>1 DEF ToolExecution, ReplayToolExecution, Metering, Shaped
    <2>4. QED BY <1>1, <2>1, <2>2, <2>3
  <1> HIDE DEF t
  <1>3. Metering(t) /\ t.log.decisions = l.log.decisions /\ t.results = l.results
        /\ t.ids = l.ids \cup {e.id} /\ t.current = l.current /\ t.usage = l.usage
        /\ t.log.lastMutation = l.log.lastMutation /\ t.log.interrupted = l.log.interrupted
    BY <1>1, <1>2 DEF Calm, Quiet, Metering
  <1>4. /\ DOMAIN r = DOMAIN t.log /\ r.decisions = t.log.decisions
        /\ r.interrupted = t.log.interrupted /\ r.lastMutation = t.log.seq + 1
    BY <1>3 DEF ReplayMutation, Metering, Shaped
  <1>5. m = [t EXCEPT !.log = r, !.current = b.post] BY DEF Mutate
  <1> HIDE DEF r
  <1>6. /\ Metering(m) /\ m.results = t.results /\ m.usage = t.usage /\ m.ids = t.ids
        /\ m.log.decisions = t.log.decisions /\ m.log.interrupted = t.log.interrupted
        /\ m.current = b.post /\ m.log.lastMutation = t.log.seq + 1
    BY <1>3, <1>4, <1>5 DEF Metering, Shaped
  <1>7. t.log.seq + 1 # l.log.lastMutation BY <1>2
  <1> HIDE DEF m
  <1>8. /\ Metering(c) /\ c.results = l.results /\ c.usage = l.usage
        /\ c.ids = l.ids \cup {e.id}
        /\ c.log.decisions = l.log.decisions /\ c.log.interrupted = l.log.interrupted
        /\ IF b.post # Null /\ e.class = "mutation"
             THEN c.current = b.post /\ c.log.lastMutation # l.log.lastMutation
             ELSE c.current = l.current /\ c.log.lastMutation = l.log.lastMutation
    BY <1>3, <1>6, <1>7
  <1>9. AttemptLedger(l, p, b) = RecordUsage(c, b.usage) BY DEF AttemptLedger, c, m, t, a
  <1> HIDE DEF c, e
  <1>10. /\ Calm(RecordUsage(c, b.usage), c)
         /\ RecordUsage(c, b.usage).usage = CappedUsage(c.usage, b.usage)
    BY <1>8, RecordQuiet
  <1>11. Metering(RecordUsage(c, b.usage)) BY <1>10, QuietMeters DEF Calm
  <1>12. QED BY <1>8, <1>9, <1>10, <1>11 DEF Calm, Quiet, e

(* An attempt whose answer is lost.                                        *)
LEMMA LostTaken ==
  ASSUME NEW l, Metering(l), NEW id, NEW e, NEW u \in Usage
  PROVE  LET k == RecordUsage(ToolExecution(l, id, e), u)
         IN Calm(k, l) /\ Metering(k) /\ k.usage = CappedUsage(l.usage, u)
  <1> DEFINE t == ToolExecution(l, id, e)
  <1>1. Calm(t, l) BY ToolExecutionQuiet
  <1>2. t.usage = l.usage BY ToolExecutionFrame DEF Metering
  <1>3. Metering(t) BY <1>1, QuietMeters DEF Calm
  <1> HIDE DEF t
  <1>4. Calm(RecordUsage(t, u), t) /\ RecordUsage(t, u).usage = CappedUsage(t.usage, u)
    BY <1>3, RecordQuiet
  <1>5. Calm(RecordUsage(t, u), l) BY <1>1, <1>4, CalmTransitive
  <1>6. Metering(RecordUsage(t, u)) BY <1>5, QuietMeters DEF Calm
  <1>7. QED BY <1>2, <1>4, <1>5, <1>6 DEF t

LEMMA PushTaken ==
  ASSUME NEW l, Metering(l), NEW e, NEW status
  PROVE  LET k == PushResult(l, e, status)
         IN /\ Metering(k) /\ k.log = l.log /\ k.current = l.current /\ k.usage = l.usage
            /\ k.ids = l.ids
            /\ k.results = Append(l.results, [effect |-> e, status |-> status])
  BY DEF PushResult, Metering, Shaped, Counters

----------------------------------------------------------------------------
(* Steps that record no result.                                            *)

Recording ==
  IF ledger'.results = ledger.results THEN UNCHANGED evidence
                                      ELSE \E r \in EffectRecords : Retain(r)

Sealing == {"observe_agent", "observe_executor", "seal"}

LEMMA Places ==
  /\ Open = {"start", "plan", "step", "execute", "verify", "check", "claim_agent",
             "claim_executor"}
  /\ {"close", "closed"} \cap (Open \cup Sealing) = {}
  /\ Open \cap Sealing = {}
  BY DEF Open, Running, Sealing

LEMMA NotInterrupted ==
  ASSUME AttestationInvariant, pc \in Open \cup {"observe_agent", "observe_executor"}
  PROVE  ~ledger.log.interrupted
  BY DEF AttestationInvariant, EndsAsLogged, Open, Running

(* The turns of the effects, before the next step.                         *)
LEMMA TurnNow ==
  ASSUME AttestationInvariant
  PROVE  /\ pc \in Open \ {"execute"} => Kept(config.subject, ledger, evidence, 0)
         /\ pc = "execute" => Kept(config.subject, ledger, evidence, 1)
         /\ pc \in Sealing => Kept(config.subject, ledger, evidence, 0) \/ OutOfTurn
  <1>1. /\ pc \in Open => InTurn(One(pc = "execute"))
        /\ pc \in Sealing => InTurn(0) \/ OutOfTurn
    BY DEF AttestationInvariant, TurnsKept, Sealing
  <1>2. pc = "execute" => pc \in Open BY Places
  <1>3. pc # "execute" => One(pc = "execute") = 0 BY DEF One
  <1>4. pc = "execute" => One(pc = "execute") = 1 BY DEF One
  <1>5. pc \in Open \ {"execute"} => InTurn(0) BY <1>1, <1>3
  <1>6. pc = "execute" => InTurn(1) BY <1>1, <1>2, <1>4
  <1>7. QED BY <1>1, <1>5, <1>6, InTurnMeaning

(* and after it.                                                           *)
LEMMA TurnAfter ==
  ASSUME pc' \in Open => Kept(config.subject', ledger', evidence', IF pc' = "execute" THEN 1 ELSE 0),
         pc' \in Sealing \/ result' = "receipt" =>
           Kept(config.subject', ledger', evidence', 0) \/ OutOfTurn'
  PROVE  TurnsKept'
  <1>1. InTurn(0)' <=> Kept(config.subject', ledger', evidence', 0) BY InTurnMeaningAfter
  <1>2. InTurn(1)' <=> Kept(config.subject', ledger', evidence', 1) BY InTurnMeaningAfter
  <1>3. CASE pc' = "execute"
    <2>1. One(pc = "execute")' = 1 BY <1>3 DEF One
    <2>2. pc' \in Open => InTurn(1)' BY <1>2, <1>3
    <2>3. QED BY <1>1, <1>2, <1>3, <2>1, <2>2 DEF TurnsKept, Sealing
  <1>4. CASE pc' # "execute"
    <2>1. One(pc = "execute")' = 0 BY <1>4 DEF One
    <2>2. QED BY <1>1, <1>4, <2>1 DEF TurnsKept, Sealing
  <1>5. QED BY <1>3, <1>4

LEMMA QuietAfter ==
  ASSUME RunInvariant, AttestationInvariant, Recording, UNCHANGED config,
         Quiet(ledger', ledger),
         pc \in (Open \ {"execute"}) \cup {"observe_agent", "observe_executor"},
         \/ pc \in Open /\ pc' \in Open \ {"execute"}
         \/ pc' \in Sealing,
         ledger'.log.interrupted =>
           ledger.log.interrupted \/ (pc' = "seal" /\ ending' = "interrupted"),
         result' = "none"
  PROVE  AttestationInvariant'
  <1>1. evidence' = evidence /\ ledger'.results = ledger.results BY DEF Recording, Quiet
  <1>2. /\ ledger'.current = ledger.current /\ ledger'.ids = ledger.ids
        /\ ledger'.log.decisions = ledger.log.decisions
        /\ ledger'.usage \in Counters /\ \A m \in Meters : ledger.usage[m] <= ledger'.usage[m]
    BY DEF Quiet
  <1>3. /\ EvidenceTyped /\ NothingElse /\ evidence \in EvidenceRecord
    BY DEF AttestationInvariant, EvidenceTyped
  <1>4. EvidenceTyped' BY <1>1, <1>3 DEF EvidenceTyped, Count, Request
  <1>5. NothingElse'
    <2>1. pc' \in Open => pc \in Open /\ pc # "execute" /\ pc' # "execute" BY Places
    <2>2. QED BY <1>1, <1>2, <1>3, <2>1
            DEF NothingElse, Requests, Request, Count, Decisions
  <1>6. \A w : Kept(config.subject, ledger, evidence, w)
                 => Kept(config.subject', ledger', evidence', w)
    <2>1. ledger.usage \in Counters BY LedgerShape
    <2>2. QED BY <1>1, <1>2, <1>3, <2>1, KeptFrame
  <1>7. OutOfTurn => OutOfTurn' BY <1>1, <1>2 DEF OutOfTurn, Count, Request
  <1>8. TurnsKept'
    <2>1. pc \in Open \ {"execute"} \/ pc \in Sealing BY DEF Sealing
    <2>2. pc' # "execute" /\ (pc' \in Open => pc \in Open \ {"execute"}) BY Places
    <2>3. QED BY <1>6, <1>7, <2>1, <2>2, TurnNow, TurnAfter
  <1>9. PendingInTurn' BY Places DEF PendingInTurn
  <1>10. EndsAsLogged'
    <2>1. ~ledger.log.interrupted BY NotInterrupted
    <2>2. QED BY <2>1 DEF EndsAsLogged
  <1>11. QED BY <1>4, <1>5, <1>8, <1>9, <1>10 DEF AttestationInvariant

LEMMA FinishSeals ==
  ASSUME RunInvariant, pc \notin {"close", "closed"}, NEW l, NEW s, Finish(l, s)
  PROVE  /\ pc' \in {"seal", "observe_agent"} /\ ledger' = l /\ ending' = s
         /\ result' = "none"
         /\ (s = "interrupted" => pc' = "seal")
  BY OpenRun DEF Finish

LEMMA QuietFinishes ==
  ASSUME RunInvariant, AttestationInvariant, Recording, UNCHANGED config,
         pc \in (Open \ {"execute"}) \cup {"observe_agent", "observe_executor"},
         NEW l, NEW s, Finish(l, s), Quiet(l, ledger),
         s = "interrupted" \/ Calm(l, ledger)
  PROVE  AttestationInvariant'
  <1>1. pc \notin {"close", "closed"} BY Places
  <1>2. /\ pc' \in Sealing /\ ledger' = l /\ result' = "none" /\ ending' = s
        /\ s = "interrupted" => pc' = "seal"
    BY <1>1, FinishSeals DEF Sealing
  <1>3. ledger'.log.interrupted =>
          ledger.log.interrupted \/ (pc' = "seal" /\ ending' = "interrupted")
    <2>1. CASE s = "interrupted" BY <1>2, <2>1
    <2>2. CASE Calm(l, ledger) BY <1>2, <2>2 DEF Calm
    <2>3. QED BY <2>1, <2>2
  <1>4. QED BY <1>2, <1>3, QuietAfter

LEMMA QuietContinues ==
  ASSUME RunInvariant, AttestationInvariant, Recording, UNCHANGED config,
         pc \in Open \ {"execute"}, NEW l, NEW at \in Open \ {"execute"},
         Continue(l, at), Calm(l, ledger)
  PROVE  AttestationInvariant'
  <1>1. pc \notin {"close", "closed"} BY Places
  <1>2. pc' = at /\ ledger' = l /\ result' = "none" BY <1>1, OpenRun DEF Continue
  <1>3. Quiet(ledger', ledger) BY <1>2 DEF Calm
  <1>4. ledger'.log.interrupted =>
          ledger.log.interrupted \/ (pc' = "seal" /\ ending' = "interrupted")
    BY <1>2 DEF Calm
  <1>5. pc \in Open /\ pc' \in Open \ {"execute"} BY <1>2
  <1>6. pc \in (Open \ {"execute"}) \cup {"observe_agent", "observe_executor"} OBVIOUS
  <1>7. QED BY <1>2, <1>3, <1>4, <1>5, <1>6, QuietAfter

(* run() fails: there is no receipt to attest.                             *)
LEMMA FailAfter ==
  ASSUME AttestationInvariant, Recording, pc \in Open,
         NEW error \in {"rejected", "result_error"}, Fail(error)
  PROVE  AttestationInvariant'
  <1>1. /\ pc' = "close" /\ result' # "receipt" /\ ledger' = ledger /\ evidence' = evidence
    BY DEF Fail, Recording
  <1>2. ~ledger.log.interrupted BY NotInterrupted
  <1>3. EvidenceTyped' BY <1>1 DEF AttestationInvariant, EvidenceTyped, Count, Request
  <1>4. NothingElse' /\ PendingInTurn' /\ EndsAsLogged'
    BY <1>1, <1>2, Places DEF NothingElse, PendingInTurn, EndsAsLogged
  <1>5. TurnsKept' BY <1>1, Places DEF TurnsKept
  <1>6. QED BY <1>3, <1>4, <1>5 DEF AttestationInvariant

(* The end of the run, and whatever happens beside the engine.             *)
LEMMA AsideAfter ==
  ASSUME AttestationInvariant, Recording,
         UNCHANGED <<config, ledger, pending, ending, result>>,
         UNCHANGED pc \/ (pc = "close" /\ pc' = "closed")
  PROVE  AttestationInvariant'
  <1>1. evidence' = evidence BY DEF Recording
  <1>2. EvidenceTyped' BY <1>1 DEF AttestationInvariant, EvidenceTyped, Count, Request
  <1>3. NothingElse' /\ PendingInTurn'
    BY <1>1, Places
       DEF AttestationInvariant, NothingElse, PendingInTurn, Decisions, Requests, Request,
           Count
  <1>4. EndsAsLogged' BY DEF AttestationInvariant, EndsAsLogged, AllExecuted
  <1>5. OutOfTurn => OutOfTurn' BY <1>1 DEF OutOfTurn, Count, Request
  <1>6. \A w : Kept(config.subject', ledger', evidence', w)
                 <=> Kept(config.subject, ledger, evidence, w)
    BY <1>1
  <1>7. result = "receipt" => Kept(config.subject, ledger, evidence, 0) \/ OutOfTurn
    BY InTurnMeaning DEF AttestationInvariant, TurnsKept
  <1>8. TurnsKept'
    <2>1. CASE UNCHANGED pc BY <1>5, <1>6, <1>7, <2>1, TurnNow, TurnAfter
    <2>2. CASE pc' = "closed" BY <1>5, <1>6, <1>7, <2>2, Places, TurnAfter
    <2>3. QED BY <2>1, <2>2
  <1>9. QED BY <1>2, <1>3, <1>4, <1>8 DEF AttestationInvariant

LEMMA SealAfter ==
  ASSUME RunInvariant, RunInvariant', AttestationInvariant, Recording, Seal
  PROVE  AttestationInvariant'
  <1> DEFINE h == UsageEvent(ledger)
             k == Transition(h, ending)
  <1>1. pc = "seal" /\ pc' = "close" /\ ledger' = k /\ UNCHANGED <<config, ending>>
    BY DEF Seal, SealedLedger, Untouched
  <1>2. Metering(ledger) BY LedgerShape DEF Metering
  <1>3. Calm(h, ledger) BY <1>2, UsageEventQuiet
  <1>4. Metering(h) BY <1>3, QuietMeters DEF Calm
  <1> HIDE DEF h
  <1>5. Calm(k, h) BY <1>4, TransitionQuiet
  <1> HIDE DEF k
  <1>6. Calm(ledger', ledger) BY <1>1, <1>2, <1>3, <1>5, CalmTransitive
  <1>7. /\ ledger'.results = ledger.results /\ evidence' = evidence
        /\ ledger'.current = ledger.current
        /\ ledger'.log.interrupted = ledger.log.interrupted
    BY <1>6 DEF Calm, Quiet, Recording
  <1>8. EvidenceTyped' BY <1>7 DEF AttestationInvariant, EvidenceTyped, Count, Request
  <1>9. NothingElse' /\ PendingInTurn' BY <1>1, Places DEF NothingElse, PendingInTurn
  <1>10. Kept(config.subject, ledger, evidence, 0)
           => Kept(config.subject', ledger', evidence', 0)
    <2>1. ledger.usage \in Counters /\ evidence \in EvidenceRecord
      BY LedgerShape DEF AttestationInvariant, EvidenceTyped
    <2>2. QED BY <1>1, <1>6, <1>7, <2>1, KeptFrame DEF Calm, Quiet
  <1>11. OutOfTurn => OutOfTurn' BY <1>7 DEF OutOfTurn, Count, Request
  <1>12. TurnsKept'
    <2>1. pc \in Sealing /\ pc' \notin Open \cup Sealing BY <1>1, Places DEF Sealing
    <2>2. QED BY <1>10, <1>11, <2>1, TurnNow, TurnAfter
  <1>13. EndsAsLogged'
    <2>1. ledger'.log.interrupted => pc' = "close" /\ ending' = "interrupted"
      BY <1>1, <1>7 DEF AttestationInvariant, EndsAsLogged
    <2>2. ASSUME result' = "receipt", ledger'.status = "completed" PROVE AllExecuted(ledger')
      <3>1. ending = "completed"
        BY <1>1, <2>2 DEF RunInvariant, EngineInvariant, CellsClaimed
      <3>2. AllExecuted(ledger)
        BY <1>1, <3>1 DEF RunInvariant, OutcomeInvariant, ResultsMatch
      <3>3. QED BY <1>7, <3>2 DEF AllExecuted
    <2>3. AllExecuted(ledger)' <=> AllExecuted(ledger') BY DEF AllExecuted
    <2>4. QED BY <2>1, <2>2, <2>3 DEF EndsAsLogged
  <1>14. QED BY <1>8, <1>9, <1>12, <1>13 DEF AttestationInvariant

----------------------------------------------------------------------------
(* The actions that record no result.                                      *)

LEMMA LedgerMeters == ASSUME RunInvariant PROVE Metering(ledger)
  BY LedgerShape DEF Metering

LEMMA CallPlaces ==
  ASSUME NEW at \in MeteredCalls PROVE at \in Open \ {"execute"}
  BY DEF MeteredCalls, Open, Running

LEMMA ReturnsCalm ==
  ASSUME RunInvariant, NEW at, NEW u \in PortUsages, PortReturns(at, u)
  PROVE  LET l == RecordUsage(ledger, u) IN
         /\ pc = at /\ Metering(l) /\ Calm(l, ledger) /\ Quiet(l, ledger)
  <1>1. u \in Usage BY UsageAssumption
  <1>2. Metering(ledger) BY LedgerMeters
  <1>3. Calm(RecordUsage(ledger, u), ledger) BY <1>1, <1>2, RecordQuiet
  <1>4. Metering(RecordUsage(ledger, u)) BY <1>3, QuietMeters DEF Calm
  <1>5. QED BY <1>3, <1>4 DEF PortReturns, Calm

LEMMA AcceptRunAfter ==
  ASSUME RunInvariant, AttestationInvariant, Recording, AcceptRun
  PROVE  AttestationInvariant'
  <1> DEFINE k == Transition(ledger, "planning")
  <1>1. pc = "start" /\ Continue(k, "plan") /\ UNCHANGED config BY DEF AcceptRun, Untouched
  <1>2. Calm(k, ledger) BY LedgerMeters, TransitionQuiet
  <1> HIDE DEF k
  <1>3. pc \in Open \ {"execute"} /\ "plan" \in Open \ {"execute"} BY <1>1, Places
  <1>4. QED BY <1>1, <1>2, <1>3, QuietContinues

LEMMA PortFailsAfter ==
  ASSUME RunInvariant, AttestationInvariant, Recording, NEW at \in MeteredCalls,
         PortFails(at) \/ PortOverspends(at)
  PROVE  AttestationInvariant'
  <1>1. pc = at /\ UNCHANGED config BY DEF PortFails, PortOverspends, Untouched
  <1>2. pc \in Open \ {"execute"} BY <1>1, CallPlaces
  <1>3. CASE PortFails(at)
    <2>1. PICK u \in PortUsages \cup {Null} : Finish(Observed(ledger, u), "failed")
      BY <1>3 DEF PortFails
    <2> DEFINE l == Observed(ledger, u)
    <2>2. Calm(l, ledger) BY LedgerMeters, ObservedQuiet
    <2>3. Finish(l, "failed") BY <2>1
    <2> HIDE DEF l
    <2>4. QED BY <1>1, <1>2, <2>2, <2>3, QuietFinishes DEF Calm
  <1>4. CASE PortOverspends(at)
    <2>1. PICK u \in PortUsages : Finish(RecordUsage(ledger, u), "blocked")
      BY <1>4 DEF PortOverspends
    <2> DEFINE l == RecordUsage(ledger, u)
    <2>2. Calm(l, ledger) BY UsageAssumption, LedgerMeters, RecordQuiet
    <2>3. Finish(l, "blocked") BY <2>1
    <2> HIDE DEF l
    <2>4. QED BY <1>1, <1>2, <2>2, <2>3, QuietFinishes DEF Calm
  <1>5. QED BY <1>3, <1>4

LEMMA PlanAfter ==
  ASSUME RunInvariant, AttestationInvariant, Recording,
         PlanBadDigest \/ PlanUnapproved \/ PlanApproved
  PROVE  AttestationInvariant'
  <1>1. PICK u \in PortUsages :
          LET l == RecordUsage(ledger, u)
          IN /\ PortReturns("plan", u) /\ UNCHANGED config
             /\ \/ Finish(l, "failed")
                \/ BlockedFromDecision(PlanLedger(l), PlanDecision)
                \/ Continue(Transition(PlanLedger(l), "executing"), "step")
    BY DEF PlanBadDigest, PlanUnapproved, PlanApproved, Untouched
  <1> DEFINE l == RecordUsage(ledger, u)
             p == PlanLedger(l)
             h == IF PlanDecision.outcome = "ask" THEN Transition(p, "awaiting_authority") ELSE p
             k == Transition(p, "executing")
  <1>2. pc = "plan" /\ Metering(l) /\ Calm(l, ledger) BY <1>1, ReturnsCalm
  <1>3. Metering(ledger) BY LedgerMeters
  <1>4. Finish(l, "failed") \/ Finish(h, "blocked") \/ Continue(k, "step")
    BY <1>1 DEF BlockedFromDecision
  <1> HIDE DEF l
  <1>5. Calm(p, l) /\ Calm(k, l) /\ Calm(Transition(p, "awaiting_authority"), l)
    BY <1>2, PlanQuiet
  <1>6. Calm(h, l) BY <1>5
  <1> HIDE DEF p, h, k
  <1>7. Calm(h, ledger) /\ Calm(k, ledger) BY <1>2, <1>3, <1>5, <1>6, CalmTransitive
  <1>8. pc \in Open \ {"execute"} /\ "step" \in Open \ {"execute"} BY <1>2, Places
  <1>9. CASE Finish(l, "failed")
    BY <1>1, <1>2, <1>8, <1>9, QuietFinishes DEF Calm
  <1>10. CASE Finish(h, "blocked")
    BY <1>1, <1>7, <1>8, <1>10, QuietFinishes DEF Calm
  <1>11. CASE Continue(k, "step") BY <1>1, <1>7, <1>8, <1>11, QuietContinues
  <1>12. QED BY <1>4, <1>9, <1>10, <1>11

LEMMA AgentEndsAfter ==
  ASSUME RunInvariant, AttestationInvariant, Recording, AgentCancels \/ AgentFinishes
  PROVE  AttestationInvariant'
  <1>1. PICK u \in PortUsages :
          LET l == RecordUsage(ledger, u)
          IN /\ PortReturns("step", u) /\ UNCHANGED config
             /\ \/ Finish(Interrupt(l), "interrupted")
                \/ Continue(Transition(l, "verifying"), "verify")
    BY DEF AgentCancels, AgentFinishes, Untouched
  <1> DEFINE l == RecordUsage(ledger, u)
             h == Interrupt(l)
             k == Transition(l, "verifying")
  <1>2. pc = "step" /\ Metering(l) /\ Calm(l, ledger) BY <1>1, ReturnsCalm
  <1>3. Metering(ledger) BY LedgerMeters
  <1>4. Finish(h, "interrupted") \/ Continue(k, "verify") BY <1>1
  <1> HIDE DEF l
  <1>5. Quiet(h, l) /\ Calm(k, l) BY <1>2, InterruptQuiet, TransitionQuiet
  <1> HIDE DEF h, k
  <1>6. Quiet(h, ledger) BY <1>2, <1>3, <1>5, QuietTransitive DEF Calm
  <1>7. Calm(k, ledger) BY <1>2, <1>3, <1>5, CalmTransitive
  <1>8. pc \in Open \ {"execute"} /\ "verify" \in Open \ {"execute"} BY <1>2, Places
  <1>9. CASE Finish(h, "interrupted") BY <1>1, <1>6, <1>8, <1>9, QuietFinishes
  <1>10. CASE Continue(k, "verify") BY <1>1, <1>7, <1>8, <1>10, QuietContinues
  <1>11. QED BY <1>4, <1>9, <1>10

LEMMA ProposeInvalidAfter ==
  ASSUME RunInvariant, AttestationInvariant, Recording, NEW e, NEW u \in PortUsages,
         ProposeInvalid(e, u, RecordUsage(ledger, u))
  PROVE  AttestationInvariant'
  <1> DEFINE l == RecordUsage(ledger, u)
  <1>1. PortReturns("step", u) /\ UNCHANGED config /\ Finish(l, "failed")
    BY DEF ProposeInvalid, Untouched
  <1>2. pc = "step" /\ Calm(l, ledger) BY <1>1, ReturnsCalm
  <1> HIDE DEF l
  <1>3. pc \in Open \ {"execute"} BY <1>2, Places
  <1>4. QED BY <1>1, <1>2, <1>3, QuietFinishes DEF Calm

LEMMA VerifyAfter ==
  ASSUME RunInvariant, AttestationInvariant, Recording, VerifyReturns
  PROVE  AttestationInvariant'
  <1>1. PICK rep \in Reports, u \in PortUsages :
          LET l == RecordUsage(ledger, u)
              k == VerificationLedger(l, rep)
          IN /\ PortReturns("verify", u) /\ UNCHANGED config
             /\ Finish(l, "blocked") \/ Finish(k, "blocked") \/ Continue(k, "check")
    BY DEF VerifyReturns, ReportDiscarded, ReportRejected, ReportAccepted, Untouched
  <1> DEFINE l == RecordUsage(ledger, u)
             k == VerificationLedger(l, rep)
  <1>2. pc = "verify" /\ Metering(l) /\ Calm(l, ledger) BY <1>1, ReturnsCalm
  <1>3. Metering(ledger) BY LedgerMeters
  <1>4. Finish(l, "blocked") \/ Finish(k, "blocked") \/ Continue(k, "check") BY <1>1
  <1> HIDE DEF l
  <1>5. Calm(k, l) BY <1>2, VerificationQuiet
  <1> HIDE DEF k
  <1>6. Calm(k, ledger) BY <1>2, <1>3, <1>5, CalmTransitive
  <1>7. pc \in Open \ {"execute"} /\ "check" \in Open \ {"execute"} BY <1>2, Places
  <1>8. CASE Finish(l, "blocked") BY <1>1, <1>2, <1>7, <1>8, QuietFinishes DEF Calm
  <1>9. CASE Finish(k, "blocked") BY <1>1, <1>6, <1>7, <1>9, QuietFinishes DEF Calm
  <1>10. CASE Continue(k, "check") BY <1>1, <1>6, <1>7, <1>10, QuietContinues
  <1>11. QED BY <1>4, <1>8, <1>9, <1>10

LEMMA ClaimEndsAfter ==
  ASSUME RunInvariant, AttestationInvariant, Recording, NEW p \in Ports,
         ClaimFails(p) \/ ClaimRefused(p) \/ ObserveCancelled(p) \/ ObserveNothing(p)
  PROVE  AttestationInvariant'
  <1>1. /\ UNCHANGED config
        /\ pc \in (Open \ {"execute"}) \cup {"observe_agent", "observe_executor"}
    BY Places DEF ClaimFails, ClaimRefused, ObserveCancelled, ObserveNothing, Untouched,
         ClaimAt, ObserveAt, Ports
  <1>2. Metering(ledger) BY LedgerMeters
  <1>3. CASE ClaimFails(p)
    <2>1. PICK u \in PortUsages \cup {Null} : Finish(Observed(ledger, u), "failed")
      BY <1>3 DEF ClaimFails
    <2> DEFINE l == Observed(ledger, u)
    <2>2. Calm(l, ledger) BY <1>2, ObservedQuiet
    <2>3. Finish(l, "failed") BY <2>1
    <2> HIDE DEF l
    <2>4. QED BY <1>1, <2>2, <2>3, QuietFinishes DEF Calm
  <1>4. CASE ClaimRefused(p) \/ ObserveCancelled(p)
    <2> DEFINE l == Interrupt(ledger)
    <2>1. Finish(l, "interrupted") BY <1>4 DEF ClaimRefused, ObserveCancelled
    <2>2. Quiet(l, ledger) BY <1>2, InterruptQuiet
    <2> HIDE DEF l
    <2>3. QED BY <1>1, <2>1, <2>2, QuietFinishes
  <1>5. CASE ObserveNothing(p)
    <2>1. /\ pc \in {"observe_agent", "observe_executor"} /\ pc' \in Sealing
          /\ ledger' = ledger /\ result' = result
      BY <1>5 DEF ObserveNothing, ObserveAt, Ports, Continue, Sealing
    <2>2. result' = "none" BY <2>1, OpenRun
    <2>3. Quiet(ledger', ledger) BY <1>2, <2>1, QuietReflexive DEF Calm
    <2>4. QED BY <1>1, <2>1, <2>2, <2>3, QuietAfter
  <1>6. QED BY <1>3, <1>4, <1>5

(* The decision about the completion is recorded, and the run ends.        *)
LEMMA CompletedAfter ==
  ASSUME RunInvariant, RunInvariant', AttestationInvariant, Recording, UNCHANGED config,
         pc \in {"check", "claim_executor"}, NEW l, Sound(l), Calm(l, ledger),
         NEW s \in {"blocked", "completed"}, Finish(CompletionLedger(l), s)
  PROVE  AttestationInvariant'
  <1> DEFINE k == CompletionLedger(l)
             g == CompletionDecision(l)
             yes == TRUE
             d == [id |-> CompletionId, seq |-> l.log.seq + 1, gate |-> "workflow",
                   digest |-> l.current, subject |-> l.current, outcome |-> g.outcome]
  <1>1. Metering(l) /\ l.log.seq \in Nat /\ l.current \in Subjects
        /\ l.log.decisions \subseteq DecisionRecord
        /\ \A c \in l.log.decisions : c.seq \in Nat /\ c.seq <= l.log.seq
    BY SoundMeters
  <1>2. Untaken(k, l) /\ k.log.decisions = l.log.decisions \cup {d}
    <2> HIDE DEF g, yes
    <2>1. LET h == Decide(l, CompletionId, "workflow", l.current, g, yes)
          IN /\ Untaken(h, l)
             /\ h.log.decisions = l.log.decisions \cup
                 {[id |-> CompletionId, seq |-> l.log.seq + 1, gate |-> "workflow",
                   digest |-> l.current, subject |-> l.current, outcome |-> g.outcome]}
      BY <1>1, DecideTaken
    <2>2. k = Decide(l, CompletionId, "workflow", l.current, g, yes)
      BY DEF CompletionLedger, g, yes
    <2> HIDE DEF k
    <2>3. QED BY <2>1, <2>2
  <1>3. d.seq = l.log.seq + 1 /\ d.digest = l.current /\ OwnDecision(d) BY DEF OwnDecision
  <1>4. /\ pc' \in Sealing /\ ledger' = k /\ result' = "none"
    BY Places, FinishSeals DEF Sealing
  <1> HIDE DEF k, d
  <1>5. d \in DecisionRecord
    <2>1. k.log.decisions \subseteq DecisionRecord
      BY <1>4 DEF RunInvariant, EngineInvariant, TypeOK, LedgerRecord, LogRecord
    <2>2. QED BY <1>2, <2>1
  <1>6. /\ evidence' = evidence /\ ledger'.results = ledger.results
        /\ ledger'.current = ledger.current
    BY <1>2, <1>4 DEF Untaken, Calm, Quiet, Recording
  <1>7. evidence \in EvidenceRecord BY DEF AttestationInvariant, EvidenceTyped
  <1>8. Kept(config.subject, l, evidence, 0)
    <2>1. pc \in Open \ {"execute"} BY Places
    <2>2. ledger.usage \in Counters BY LedgerShape
    <2>3. Kept(config.subject, ledger, evidence, 0) BY <2>1, TurnNow
    <2>4. QED BY <1>7, <2>2, <2>3, KeptFrame DEF Calm, Quiet
  <1>9. Kept(config.subject, k, evidence, 0)
    <2>1. After({d}, l.log.decisions)
      <3>1. \A c \in l.log.decisions, b \in {d} : c.seq < b.seq BY <1>1, <1>3
      <3>2. QED BY <1>1, <1>5, <3>1 DEF After
    <2>2. \A c \in {d} : OwnDecision(c) /\ c.digest \in Subjects BY <1>1, <1>3
    <2>3. k.current = l.current /\ k.usage = l.usage BY <1>2 DEF Untaken
    <2> DEFINE ns == {d}
    <2>4. /\ After(ns, l.log.decisions) /\ k.log.decisions = l.log.decisions \cup ns
          /\ \A c \in ns : OwnDecision(c) /\ c.digest \in Subjects
      BY <1>2, <2>1, <2>2
    <2> HIDE DEF ns
    <2>5. QED BY <1>7, <1>8, <2>3, <2>4, KeptCompleted
  <1>10. EvidenceTyped' BY <1>6 DEF AttestationInvariant, EvidenceTyped, Count, Request
  <1>11. NothingElse' /\ PendingInTurn' BY <1>4, Places DEF NothingElse, PendingInTurn
  <1>12. TurnsKept' BY <1>4, <1>6, <1>9, Places, TurnAfter
  <1>13. EndsAsLogged'
    <2>1. ~ledger.log.interrupted BY Places, NotInterrupted
    <2>2. ~ledger'.log.interrupted BY <1>2, <1>4, <2>1 DEF Untaken, Calm
    <2>3. QED BY <1>4, <2>2 DEF EndsAsLogged
  <1>14. QED BY <1>10, <1>11, <1>12, <1>13 DEF AttestationInvariant

LEMMA CheckAfter ==
  ASSUME RunInvariant, RunInvariant', AttestationInvariant, Recording, CheckReturns
  PROVE  AttestationInvariant'
  <1>1. PICK u \in PortUsages :
          LET l == RecordUsage(ledger, u)
          IN /\ PortReturns("check", u) /\ UNCHANGED config
             /\ Continue(l, "claim_agent") \/ Finish(CompletionLedger(l), "blocked")
    BY DEF CheckReturns, Untouched
  <1> DEFINE l == RecordUsage(ledger, u)
  <1>2. pc = "check" /\ Calm(l, ledger) BY <1>1, ReturnsCalm
  <1>3. Sound(l)
    <2>1. "check" \in MeteredCalls /\ EngineInvariant BY DEF MeteredCalls, RunInvariant
    <2>2. QED BY <1>1, <2>1, ReturnedLedger
  <1>4. Continue(l, "claim_agent") \/ Finish(CompletionLedger(l), "blocked") BY <1>1
  <1> HIDE DEF l
  <1>5. pc \in Open \ {"execute"} /\ "claim_agent" \in Open \ {"execute"} BY <1>2, Places
  <1>6. CASE Continue(l, "claim_agent") BY <1>1, <1>2, <1>5, <1>6, QuietContinues
  <1>7. CASE Finish(CompletionLedger(l), "blocked")
    BY <1>1, <1>2, <1>3, <1>7, CompletedAfter
  <1>8. QED BY <1>4, <1>6, <1>7

LEMMA GrantedAfter ==
  ASSUME RunInvariant, RunInvariant', AttestationInvariant, Recording, NEW p \in Ports,
         ClaimGranted(p)
  PROVE  AttestationInvariant'
  <1>1. UNCHANGED config BY DEF ClaimGranted
  <1>2. Calm(ledger, ledger) BY LedgerMeters, QuietReflexive
  <1>3. CASE p = "agent"
    <2>1. pc = "claim_agent" /\ Continue(ledger, "claim_executor")
      BY <1>3 DEF ClaimGranted, ClaimAt
    <2>2. pc \in Open \ {"execute"} /\ "claim_executor" \in Open \ {"execute"}
      BY <2>1, Places
    <2>3. QED BY <1>1, <1>2, <2>1, <2>2, QuietContinues
  <1>4. CASE p = "executor"
    <2>1. pc = "claim_executor" /\ Finish(CompletionLedger(ledger), "completed")
      BY <1>4 DEF ClaimGranted, ClaimAt
    <2>2. Sound(ledger)
      BY <2>1, EndableLedger DEF Endable, RunInvariant
    <2>3. QED BY <1>1, <1>2, <2>1, <2>2, CompletedAfter
  <1>5. QED BY <1>3, <1>4 DEF Ports

----------------------------------------------------------------------------
(* A proposal in its turn, and the call of the executor.                   *)

Fits(e) ==
  /\ e.seq = Count + 1
  /\ \A i \in 1..Count : Request(i).id # e.id
  /\ e.subject = ledger.current

(* What the evidence has in the loop.                                      *)
LEMMA EvidenceNow ==
  ASSUME AttestationInvariant, pc \in Open
  PROVE  LET n == Len(evidence.effects) IN
         /\ evidence \in EvidenceRecord /\ n \in Nat /\ Count = n
         /\ \A i \in 1..n : /\ Request(i) = evidence.effects[i].request
                            /\ evidence.effects[i].request.id \in ledger.ids
         /\ Requests = {evidence.effects[i].request : i \in 1..n}
         /\ \A d \in ledger.log.decisions :
              /\ d.digest \in Requests \/ (pc = "execute" /\ d.digest = pending.effect)
              /\ ~OwnDecision(d)
         /\ \A x \in evidence.executions \cup evidence.mutations : x.digest \in Requests
  <1>1. evidence \in EvidenceRecord BY DEF AttestationInvariant, EvidenceTyped
  <1>2. QED
    BY <1>1, EvidenceFields
       DEF AttestationInvariant, NothingElse, Requests, Request, Count, Decisions

LEMMA SeenInStep ==
  ASSUME RunInvariant, AttestationInvariant, pc = "step" PROVE ledger.seen = Count
  <1>1. Len(invoked) = ledger.seen + 0 /\ ledger.seen \in Nat
    BY DEF RunInvariant, EngineInvariant, IdentitiesKept, Running, TypeOK, LedgerRecord
  <1>2. Len(invoked) = Len(ledger.results)
    BY DEF RunInvariant, OutcomeInvariant, ResultsMatch
  <1>3. QED BY <1>1, <1>2 DEF AttestationInvariant, EvidenceTyped

(* An admitted effect fits.                                                *)
LEMMA AdmittedFits ==
  ASSUME RunInvariant, AttestationInvariant, NEW e, NEW u \in PortUsages,
         LET l == RecordUsage(ledger, u)
         IN PortReturns("step", u) /\ Current(l, e) /\ Admissible(l, e)
  PROVE  Fits(e)
  <1> DEFINE l == RecordUsage(ledger, u)
  <1>1. PortReturns("step", u) /\ Current(l, e) /\ Admissible(l, e) OBVIOUS
  <1>2. EngineInvariant BY DEF RunInvariant
  <1>3. pc = "step" /\ SameEffects(l, ledger) BY <1>1, <1>2, ProposalLedger
  <1>4. Calm(l, ledger) BY <1>1, ReturnsCalm
  <1> HIDE DEF l
  <1>5. e.seq = l.seen + 1 /\ e.id \notin l.ids
    BY <1>1 DEF Admissible, AdmissionCode
  <1>6. l.seen = Count /\ l.ids = ledger.ids /\ l.current = ledger.current
    BY <1>3, <1>4, SeenInStep DEF SameEffects, Calm, Quiet
  <1>7. \A i \in 1..Count : Request(i).id \in ledger.ids
    BY <1>3, Places, EvidenceNow
  <1>8. QED BY <1>1, <1>5, <1>6, <1>7 DEF Fits, Current

(* What the decisions about an effect that fits make of the turns.         *)
LEMMA DecidedInStep ==
  ASSUME RunInvariant, AttestationInvariant, pc = "step",
         NEW h, Calm(h, ledger), NEW e \in Effects, Fits(e), NEW l, NEW ns, Judged(l, h, e, ns)
  PROVE  /\ Kept(config.subject, l, evidence, 1)
         /\ Placed(l.log.decisions, e, Len(evidence.effects) + 1)
  <1>1. pc \in Open \ {"execute"} BY Places
  <1>2. evidence \in EvidenceRecord /\ Count = Len(evidence.effects)
    BY <1>1, EvidenceNow
  <1>3. Kept(config.subject, h, evidence, 0)
    <2>1. ledger.usage \in Counters BY LedgerShape
    <2>2. Kept(config.subject, ledger, evidence, 0) BY <1>1, TurnNow
    <2>3. QED BY <1>2, <2>1, <2>2, KeptFrame DEF Calm, Quiet
  <1>4. \A i \in 1..Count : Request(i) # e BY DEF Fits
  <1>5. Unrequested(evidence, e) BY <1>2, <1>4 DEF Request, Unrequested
  <1>6. Undecided(h.log.decisions, e)
    <2>1. e \notin Requests BY <1>4 DEF Requests
    <2>2. h.log.decisions = ledger.log.decisions BY DEF Calm, Quiet
    <2>3. QED BY <1>1, <2>1, <2>2, EvidenceNow DEF Undecided
  <1>7. After(ns, h.log.decisions) BY JudgedAfter
  <1>8. PICK f : Foremost(f, ns) BY DEF Judged, Foremost
  <1>9. l.log.decisions = h.log.decisions \cup ns /\ About(ns, e)
    BY DEF Judged, About
  <1>10. l.current = h.current /\ l.usage = h.usage BY DEF Judged, Untaken
  <1>11. QED BY <1>2, <1>3, <1>5, <1>6, <1>7, <1>8, <1>9, <1>10, KeptDecided

LEMMA NotOwn ==
  ASSUME NEW d, d.digest \in Effects, d.subject \in Subjects PROVE ~OwnDecision(d)
  BY DigestAssumption DEF OwnDecision

LEMMA DispatchAfter ==
  ASSUME RunInvariant, RunInvariant', AttestationInvariant, Recording, NEW e \in Effects,
         NEW u \in PortUsages, Dispatch(e, u, RecordUsage(ledger, u))
  PROVE  AttestationInvariant'
  <1> DEFINE h == RecordUsage(ledger, u)
             l == GatedLedger(config, h, e)
  <1>1. /\ PortReturns("step", u) /\ Current(h, e) /\ Admissible(h, e)
        /\ GatesPass(config, h, e) /\ Continue(l, "execute") /\ config' = config
        /\ pending'.effect = e
    BY DEF Dispatch, Admitted
  <1>2. EngineInvariant BY DEF RunInvariant
  <1>3. pc = "step" /\ Sound(h) BY <1>1, <1>2, ProposalLedger
  <1>4. Calm(h, ledger) BY <1>1, ReturnsCalm
  <1>5. Fits(e) BY <1>1, AdmittedFits
  <1>6. PICK ns : /\ Judged(l, h, e, ns)
                  /\ \A d \in ns : d.outcome = "allow"
                  /\ \A gate \in NeededGates(e) : \E d \in ns : d.gate = gate
    BY <1>1, <1>3, GatedJudged
  <1>7. pc' = "execute" /\ ledger' = l /\ result' = "none"
    BY <1>1, <1>3, OpenRun DEF Continue
  <1> HIDE DEF h, l
  <1>8. pc \in Open \ {"execute"} /\ pc' \in Open /\ pc' \notin Sealing
    BY <1>3, <1>7, Places
  <1>9. /\ ledger'.results = ledger.results /\ evidence' = evidence
        /\ ledger'.ids = ledger.ids /\ l.log.decisions = ledger.log.decisions \cup ns
        /\ l.current = ledger.current
        /\ l.log.interrupted = ledger.log.interrupted
    BY <1>4, <1>6, <1>7 DEF Judged, Untaken, Calm, Quiet, Recording
  <1>10. /\ Kept(config.subject, l, evidence, 1)
         /\ Placed(l.log.decisions, e, Len(evidence.effects) + 1)
    BY <1>3, <1>4, <1>5, <1>6, DecidedInStep
  <1>11. \A d \in ns : d.digest = e /\ d.subject = ledger.current /\ d \in l.log.decisions
    BY <1>6, <1>9 DEF Judged, Untaken
  <1>12. ledger.current \in Subjects /\ l.log.seq \in Nat
         /\ \A d \in l.log.decisions : d.seq \in Nat /\ d.seq <= l.log.seq
    BY <1>6, <1>9, SoundMeters DEF Judged
  <1>13. EvidenceTyped' BY <1>9 DEF AttestationInvariant, EvidenceTyped, Count, Request
  <1>14. NothingElse'
    <2>1. \A d \in ns : ~OwnDecision(d) BY <1>11, <1>12, NotOwn
    <2>2. Requests' = Requests BY <1>9 DEF Requests, Request, Count
    <2>3. \A d \in Decisions' :
            /\ d.digest \in Requests' \/ (pc' = "execute" /\ d.digest = pending'.effect)
            /\ ~OwnDecision(d)
      BY <1>1, <1>3, <1>7, <1>8, <1>9, <1>11, <2>1, <2>2, EvidenceNow DEF Decisions
    <2>4. \A x \in evidence'.executions \cup evidence'.mutations : x.digest \in Requests'
      BY <1>8, <1>9, <2>2, EvidenceNow
    <2>5. \A i \in 1..Count' : Request(i)'.id \in ledger'.ids
      BY <1>8, <1>9, EvidenceNow DEF Count, Request
    <2>6. QED BY <2>3, <2>4, <2>5 DEF NothingElse, OwnDecision
  <1>15. TurnsKept'
    <2>1. Kept(config.subject', ledger', evidence', 1) BY <1>1, <1>7, <1>9, <1>10
    <2>2. QED BY <1>7, <1>8, <2>1, TurnAfter
  <1>16. PendingInTurn'
    <2>1. \E d \in Firsts(Decisions)' : Place(Decisions, d)' = Count' + 1 /\ d.digest = e
      BY <1>7, <1>9, <1>10 DEF Decisions, Count, Placed
    <2>2. e.seq = Count' + 1 /\ \A i \in 1..Count' : Request(i)'.id # e.id
      BY <1>5, <1>9 DEF Fits, Count, Request
    <2>3. AdmittedBefore(l.log.decisions, e, l.log.seq + 1)
      <3>1. {d \in l.log.decisions : d.digest = e} = ns
        <4>1. \A d \in ledger.log.decisions : d.digest # e
          <5>1. \A i \in 1..Count : Request(i) # e BY <1>5 DEF Fits
          <5>2. e \notin Requests BY <5>1 DEF Requests
          <5>3. QED BY <1>3, <1>8, <5>2, EvidenceNow
        <4>2. QED BY <1>9, <1>11, <4>1
      <3>2. e.subject = ledger.current BY <1>5 DEF Fits
      <3>3. \A d \in ns : d.seq < l.log.seq + 1 BY <1>11, <1>12
      <3>4. \A gate \in NeededGates(e) : \E d \in ns : d.gate = gate /\ d.seq < l.log.seq + 1
        BY <1>6, <3>3
      <3>5. QED BY <1>6, <1>11, <3>1, <3>2, <3>4 DEF AdmittedBefore, NeededGates
    <2>4. QED BY <1>1, <1>7, <2>1, <2>2, <2>3 DEF PendingInTurn, Decisions
  <1>17. EndsAsLogged'
    <2>1. ~ledger.log.interrupted BY <1>8, NotInterrupted
    <2>2. QED BY <1>7, <1>9, <2>1 DEF EndsAsLogged
  <1>18. QED BY <1>13, <1>14, <1>15, <1>16, <1>17 DEF AttestationInvariant

----------------------------------------------------------------------------
(* The result of a step and its record in the evidence.                    *)

LEMMA PushedRecord ==
  ASSUME NEW q \in EffectResults, NEW e, NEW s,
         ledger.results = q, ledger'.results = Append(q, [effect |-> e, status |-> s])
  PROVE  ledger'.results # ledger.results /\ Pushed.effect = e /\ Pushed.status = s
  <1>1. Len(q) \in Nat BY DEF EffectResults
  <1>2. /\ Len(ledger'.results) = Len(q) + 1
        /\ ledger'.results[Len(q) + 1] = [effect |-> e, status |-> s]
    BY <1>1 DEF EffectResults
  <1>3. ledger'.results # q BY <1>1, <1>2
  <1>4. QED BY <1>2, <1>3 DEF Pushed

LEMMA GrownEvidence ==
  ASSUME EvidenceTyped, ledger.results \in EffectResults, NEW r, NEW ds, NEW before,
         NEW after, Adds(evidence', evidence, r, ds, before, after),
         ledger'.results = Append(ledger.results, [effect |-> r.request, status |-> r.status])
  PROVE  /\ EvidenceTyped'
         /\ Count \in Nat /\ Count' = Count + 1
         /\ \A i \in 1..Count : evidence'.effects[i] = evidence.effects[i]
         /\ evidence'.effects[Count + 1] = r
  <1>1. /\ evidence \in EvidenceRecord /\ evidence' \in EvidenceRecord
        /\ evidence'.effects = Append(evidence.effects, r)
    BY DEF Adds
  <1>2. evidence.effects \in Seq(EvidenceEffect) /\ Count \in Nat
    BY <1>1, EvidenceFields DEF Count
  <1>3. /\ Count' = Count + 1
        /\ \A i \in 1..Count : evidence'.effects[i] = evidence.effects[i]
        /\ evidence'.effects[Count + 1] = r
    BY <1>1, <1>2 DEF Count
  <1>4. IsFiniteSet(evidence'.mutations)
    <2>1. IsFiniteSet(evidence.mutations) BY DEF EvidenceTyped
    <2>2. CASE Mutating(r)
      <3>1. PICK m : evidence'.mutations = evidence.mutations \cup {m} BY <2>2 DEF Adds
      <3>2. QED BY <2>1, <3>1, FS_AddElement
    <2>3. CASE ~Mutating(r)
      <3>1. evidence'.mutations = evidence.mutations BY <2>3 DEF Adds
      <3>2. QED BY <2>1, <3>1
    <2>4. QED BY <2>2, <2>3
  <1>5. /\ Len(ledger'.results) = Count + 1
        /\ \A i \in 1..Count : ledger'.results[i] = ledger.results[i]
        /\ ledger'.results[Count + 1] = [effect |-> r.request, status |-> r.status]
    BY <1>2 DEF EvidenceTyped, EffectResults
  <1>6. ASSUME NEW i \in 1..Count'
        PROVE  /\ evidence'.effects[i].request = ledger'.results[i].effect
               /\ evidence'.effects[i].status = ledger'.results[i].status
    <2>1. CASE i = Count + 1 BY <1>3, <1>5, <2>1
    <2>2. CASE i # Count + 1
      <3>1. i \in 1..Count BY <1>2, <1>3, <2>2
      <3>2. QED BY <1>3, <1>5, <3>1 DEF EvidenceTyped, Request
    <2>3. QED BY <2>1, <2>2
  <1>7. EvidenceTyped' BY <1>1, <1>3, <1>4, <1>5, <1>6 DEF EvidenceTyped, Request
  <1>8. QED BY <1>2, <1>3, <1>7

(* An effect that is not executed.                                         *)

LEMMA Greatest ==
  ASSUME NEW S, S # {}, NEW n \in Nat, \A c \in S : c.seq \in Nat /\ c.seq <= n
  PROVE  \E g \in S : \A c \in S : c.seq <= g.seq
  <1> DEFINE T == {n - c.seq : c \in S}
  <1>1. T \in SUBSET Nat OBVIOUS
  <1>2. T # {} OBVIOUS
  <1>3. PICK t \in T : \A x \in T : t <= x
    <2> HIDE DEF T
    <2>1. QED BY <1>1, <1>2, LeastNatural
  <1>4. PICK g \in S : t = n - g.seq OBVIOUS
  <1>5. \A c \in S : n - g.seq <= n - c.seq BY <1>3, <1>4
  <1>6. \A c \in S : c.seq <= g.seq BY <1>5
  <1>7. QED BY <1>6

LEMMA LastJudged ==
  ASSUME NEW k, NEW l, NEW e, NEW ns, Judged(k, l, e, ns)
  PROVE  (CHOOSE d \in k.log.decisions : \A c \in k.log.decisions : c.seq <= d.seq) \in ns
  <1> DEFINE ds == k.log.decisions
             P(d) == \A c \in ds : c.seq <= d.seq
  <1>1. /\ k.log.seq \in Nat /\ l.log.seq \in Nat
        /\ \A c \in ds : c.seq \in Nat /\ c.seq <= k.log.seq
        /\ \A c \in l.log.decisions : c.seq \in Nat /\ c.seq <= l.log.seq
    BY SoundMeters DEF Judged
  <1>2. /\ ds = l.log.decisions \cup ns /\ ns # {}
        /\ \A c \in ns : l.log.seq < c.seq
    BY DEF Judged
  <1>3. PICK g \in ns : \A c \in ns : c.seq <= g.seq
    <2>1. \A c \in ns : c.seq \in Nat /\ c.seq <= k.log.seq BY <1>1, <1>2
    <2>2. QED BY <1>1, <1>2, <2>1, Greatest
  <1>4. g \in ds /\ P(g)
    <2> SUFFICES ASSUME NEW c \in ds PROVE c.seq <= g.seq BY <1>2
    <2>1. CASE c \in ns BY <1>3, <2>1
    <2>2. CASE c \in l.log.decisions
      <3>1. c.seq \in Nat /\ g.seq \in Nat BY <1>1, <1>2
      <3>2. c.seq <= l.log.seq /\ l.log.seq < g.seq BY <1>1, <1>2, <2>2
      <3>3. QED BY <1>1, <3>1, <3>2
    <2>3. QED BY <1>2, <2>1, <2>2
  <1> DEFINE d == CHOOSE x \in ds : P(x)
  <1>5. d \in ds /\ P(d)
    <2> HIDE DEF ds, P
    <2>1. QED BY <1>4
  <1>6. d \notin l.log.decisions
    <2>1. g.seq <= d.seq /\ g.seq \in Nat /\ d.seq \in Nat /\ l.log.seq < g.seq
      BY <1>1, <1>2, <1>4, <1>5
    <2>2. ~(d.seq <= l.log.seq) BY <1>1, <2>1
    <2>3. QED BY <1>1, <2>2
  <1>7. QED BY <1>2, <1>5, <1>6

LEMMA DeclinedEvidence ==
  ASSUME Recording, NEW q \in EffectResults, ledger.results = q, NEW e,
         NEW s \in NotExecuted,
         ledger'.results = Append(q, [effect |-> e, status |-> s]),
         ledger'.log.decisions # ledger.log.decisions, ~Mutated
  PROVE  evidence' =
           [effects    |-> Append(evidence.effects,
                             [request |-> e, status |-> s, post |-> Null,
                              usage |-> ZeroUsage, decision |-> LastDecision.id]),
            executions |-> evidence.executions \cup {},
            mutations  |-> evidence.mutations \cup {}]
  <1>1. ledger'.results # ledger.results /\ Pushed.effect = e /\ Pushed.status = s
    BY PushedRecord
  <1>2. EffectRecords = {[request |-> e, status |-> s, post |-> Null,
                          usage |-> ZeroUsage, decision |-> LastDecision.id]}
    BY <1>1 DEF EffectRecords
  <1>3. PICK r \in EffectRecords : Retain(r) BY <1>1 DEF Recording
  <1>4. Executions(r) = {} BY DEF Executions
  <1>5. Mutations(r) = {} BY DEF Mutations
  <1>6. QED BY <1>2, <1>3, <1>4, <1>5 DEF Retain

(* The ledger that a declined effect leaves, and its record: the decisions *)
(* ns about it come after h, whose usage is already that of the answer.    *)
LEMMA DeclinedAfter ==
  ASSUME RunInvariant, RunInvariant', AttestationInvariant, Recording, UNCHANGED config,
         pc \in {"step", "execute"}, NEW h, Calm(h, ledger), NEW e \in Effects,
         pc = "execute" => e = pending.effect, NEW l, NEW ns, Judged(l, h, e, ns),
         NEW s \in NotExecuted, pc = "step" => Fits(e) \/ s = "denied",
         NEW q, q = PushResult(l, e, s),
         Calm(ledger', q), ledger'.usage = q.usage, pc' \in Sealing, result' = "none"
  PROVE  AttestationInvariant'
  <1> DEFINE r == [request |-> e, status |-> s, post |-> Null, usage |-> ZeroUsage,
                   decision |-> LastDecision.id]
  <1>1. Metering(l) /\ Sound(l) /\ Sound(h) BY DEF Judged, Untaken
  <1>2. /\ q.log = l.log /\ q.current = l.current /\ q.usage = l.usage
        /\ q.results = Append(l.results, [effect |-> e, status |-> s])
    BY <1>1, PushTaken
  <1>3. /\ ledger'.log.decisions = l.log.decisions /\ ledger'.current = l.current
        /\ ledger'.log.lastMutation = l.log.lastMutation
        /\ ledger'.log.interrupted = l.log.interrupted
        /\ ledger'.results = Append(l.results, [effect |-> e, status |-> s])
        /\ ledger'.usage = l.usage
    BY <1>2 DEF Calm, Quiet
  <1>4. /\ l.results = h.results /\ l.current = h.current /\ l.usage = h.usage
        /\ l.log.lastMutation = h.log.lastMutation
        /\ l.log.interrupted = h.log.interrupted
        /\ l.log.decisions = h.log.decisions \cup ns
    BY DEF Judged, Untaken
  <1>5. /\ h.results = ledger.results /\ h.current = ledger.current
        /\ h.log.lastMutation = ledger.log.lastMutation
        /\ h.log.interrupted = ledger.log.interrupted
        /\ h.log.decisions = ledger.log.decisions
    BY DEF Calm, Quiet
  <1>6. ledger'.results = Append(ledger.results, [effect |-> e, status |-> s])
    BY <1>3, <1>4, <1>5
  <1>7. ~Mutated BY <1>3, <1>4, <1>5 DEF Mutated
  <1>8. LastDecision \in ns
    <2>1. (CHOOSE d \in l.log.decisions : \A c \in l.log.decisions : c.seq <= d.seq) \in ns
      BY LastJudged
    <2>2. QED BY <1>3, <2>1 DEF LastDecision
  <1>9. /\ \A c \in ns : /\ c \in l.log.decisions /\ c.digest = e /\ c.subject = h.current
                         /\ h.log.seq < c.seq
        /\ \A c \in h.log.decisions : c.seq \in Nat /\ c.seq <= h.log.seq
        /\ \A c \in l.log.decisions : c.seq \in Nat /\ c.id \in Nat
        /\ h.log.seq \in Nat
    <2>1. l.log.decisions \subseteq DecisionRecord BY <1>1, SoundMeters
    <2>2. \A c \in l.log.decisions : c.seq \in Nat /\ c.id \in Nat BY <2>1 DEF DecisionRecord
    <2>3. QED BY <1>1, <1>4, <2>2, SoundMeters DEF Judged
  <1>10. LastDecision \notin h.log.decisions
    <2>1. h.log.seq < LastDecision.seq /\ LastDecision.seq \in Nat BY <1>8, <1>9
    <2>2. QED BY <1>9, <2>1
  <1>11. ledger'.log.decisions # ledger.log.decisions
    BY <1>3, <1>5, <1>8, <1>9, <1>10
  <1>12. ledger.results \in EffectResults BY LedgerShape
  <1>13. /\ evidence'.effects = Append(evidence.effects, r)
         /\ evidence'.executions = evidence.executions
         /\ evidence'.mutations = evidence.mutations
         /\ evidence' = [effects |-> Append(evidence.effects, r),
                         executions |-> evidence.executions,
                         mutations |-> evidence.mutations]
    BY <1>6, <1>7, <1>11, <1>12, DeclinedEvidence
  <1>14. pc \in Open BY Places
  <1>15. evidence \in EvidenceRecord BY <1>14, EvidenceNow
  <1>16. s \in Statuses /\ s \notin Attempted
    BY DEF NotExecuted, Attempted, Statuses
  <1>17. r \in EvidenceEffect
    <2>1. LastDecision.id \in Nat BY <1>8, <1>9
    <2>2. ZeroUsage \in Usage BY DEF ZeroUsage, Usage
    <2> DEFINE i == LastDecision.id
               z == ZeroUsage
    <2>3. i \in Nat /\ z \in Usage BY <2>1, <2>2
    <2> HIDE DEF i, z
    <2>4. [request |-> e, status |-> s, post |-> Null, usage |-> z, decision |-> i]
            \in EvidenceEffect
      BY <1>16, <2>3 DEF EvidenceEffect
    <2>5. QED BY <2>4 DEF i, z
  <1>18. /\ r.request = e /\ r.status = s /\ r.usage = ZeroUsage
         /\ r.decision = LastDecision.id
    OBVIOUS
  <1> HIDE DEF r
  <1>19. evidence' \in EvidenceRecord
    <2>1. Append(evidence.effects, r) \in Seq(EvidenceEffect)
      BY <1>15, <1>17, EvidenceFields
    <2>2. QED BY <1>13, <1>15, <2>1 DEF EvidenceRecord, EvidenceEffect
  <1>20. Adds(evidence', evidence, r, ledger'.log.decisions, ledger.current, ledger'.current)
    BY <1>3, <1>4, <1>5, <1>13, <1>15, <1>16, <1>18, <1>19 DEF Adds, Mutating
  <1>21. EvidenceTyped BY DEF AttestationInvariant
  <1>22. /\ EvidenceTyped' /\ Count \in Nat /\ Count' = Count + 1
         /\ \A i \in 1..Count : evidence'.effects[i] = evidence.effects[i]
         /\ evidence'.effects[Count + 1] = r
    BY <1>6, <1>12, <1>18, <1>20, <1>21, GrownEvidence
  <1>23. ASSUME Fits(e) PROVE Kept(config.subject', ledger', evidence', 0)
    <2> DEFINE n == Len(evidence.effects)
    <2>1. n = Count /\ evidence \in EvidenceRecord BY <1>14, EvidenceNow
    <2>2. ledger.usage \in Counters /\ h.usage \in Counters
      BY LedgerShape DEF Calm, Quiet
    <2>3. /\ r.request.seq = n + 1 /\ r.request.subject = ledger.current
          /\ \A i \in 1..n : evidence.effects[i].request.id # r.request.id
      BY <1>18, <1>23, <2>1 DEF Fits, Request
    <2>4. \A x \in evidence.executions \cup evidence.mutations :
            x.digest \in {evidence.effects[i].request : i \in 1..Len(evidence.effects)}
      BY <1>14, EvidenceNow
    <2>5. \E d \in ledger'.log.decisions : d.id = r.decision /\ d.digest = r.request
      BY <1>3, <1>8, <1>9, <1>18
    <2>6. ledger'.usage = CappedUsage(h.usage, r.usage)
      BY <1>3, <1>4, <1>18, <2>2, CappedZero
    <2>7. CASE pc = "step"
      <3>1. /\ Kept(config.subject, l, evidence, 1)
            /\ Placed(l.log.decisions, e, n + 1)
        BY <1>23, <2>7, DecidedInStep
      <3>2. After({}, l.log.decisions) /\ About({}, r.request)
        BY <1>1, SoundMeters DEF After, About
      <3>3. /\ ledger'.log.decisions = l.log.decisions \cup {} /\ l.usage \in Counters
            /\ ledger'.usage = CappedUsage(l.usage, r.usage)
            /\ l.current = ledger.current
        BY <1>3, <1>4, <1>5, <2>2, <2>6
      <3> HIDE DEF n
      <3>4. Kept(config.subject, ledger', evidence', 0)
        BY <1>18, <1>20, <2>3, <2>4, <2>5, <3>1, <3>2, <3>3, KeptRecorded DEF n
      <3>5. QED BY <3>4
    <2>8. CASE pc = "execute"
      <3>1. Kept(config.subject, h, evidence, 1)
        <4>1. Kept(config.subject, ledger, evidence, 1) BY <2>8, TurnNow
        <4>2. QED BY <2>1, <2>2, <4>1, KeptFrame DEF Calm, Quiet
      <3>2. Placed(h.log.decisions, r.request, n + 1)
        BY <1>5, <1>18, <2>1, <2>8
           DEF AttestationInvariant, PendingInTurn, Placed, Decisions
      <3>3. After(ns, h.log.decisions) BY JudgedAfter
      <3>4. About(ns, r.request) BY <1>9, <1>18 DEF About
      <3>5. /\ ledger'.log.decisions = h.log.decisions \cup ns
            /\ h.current = ledger.current
        BY <1>3, <1>4, <1>5
      <3> HIDE DEF n
      <3>6. Kept(config.subject, ledger', evidence', 0)
        BY <1>20, <2>2, <2>3, <2>4, <2>5, <2>6, <3>1, <3>2, <3>3, <3>4, <3>5,
           KeptRecorded DEF n
      <3>7. QED BY <3>6
    <2>9. QED BY <2>7, <2>8
  <1>24. pc = "execute" => Fits(e)
    BY DEF AttestationInvariant, PendingInTurn, Fits, RunInvariant, EngineInvariant,
           DispatchAuthorized
  <1>25. ASSUME ~Fits(e) PROVE OutOfTurn'
    <2>1. s = "denied" BY <1>24, <1>25
    <2>2. /\ Count' > 0 /\ evidence'.effects[Count'].status = "denied"
          /\ evidence'.effects[Count'].request = e
      BY <1>18, <1>22, <2>1
    <2>3. \A i \in 1..Count : evidence'.effects[i].request = Request(i)
      BY <1>22 DEF Request
    <2>4. Count' - 1 = Count BY <1>22
    <2>5. ledger'.current = ledger.current BY <1>3, <1>4, <1>5
    <2>6. \/ e.seq # Count'
          \/ \E j \in 1..(Count' - 1) : evidence'.effects[j].request.id = e.id
          \/ e.subject # ledger'.current
      BY <1>22, <1>25, <2>3, <2>4, <2>5 DEF Fits
    <2>7. QED BY <2>2, <2>6 DEF OutOfTurn, Request
  <1>26. TurnsKept' BY <1>23, <1>25, Places, TurnAfter
  <1>27. NothingElse' /\ PendingInTurn' BY Places DEF NothingElse, PendingInTurn
  <1>28. EndsAsLogged'
    <2>1. ~ledger.log.interrupted BY <1>14, NotInterrupted
    <2>2. ~ledger'.log.interrupted BY <1>3, <1>4, <1>5, <2>1
    <2>3. QED BY <2>2 DEF EndsAsLogged
  <1>29. QED BY <1>22, <1>26, <1>27, <1>28 DEF AttestationInvariant

(* The two ends of a refusal: the result is sealed and the run stops, or   *)
(* the seal fails.                                                         *)
LEMMA RefusedAfter ==
  ASSUME RunInvariant, RunInvariant', AttestationInvariant, Recording, UNCHANGED config,
         pc \in {"step", "execute"}, NEW h, Calm(h, ledger), NEW e \in Effects,
         pc = "execute" => e = pending.effect, NEW l, NEW ns, Judged(l, h, e, ns),
         NEW gate, NEW decision, NEW intact,
         pc = "step" => Fits(e) \/ decision.outcome # "ask",
         Refuse(l, e, gate, decision, intact)
  PROVE  AttestationInvariant'
  <1> DEFINE b == NonExecutionBody(l, e, gate, decision, intact)
             s == NonExecutionStatus(decision)
             q == PushResult(l, e, s)
             k == IF decision.outcome = "ask" THEN Transition(q, "awaiting_authority") ELSE q
  <1>1. CASE ~ValidResult(e, b)
    <2>1. Fail("result_error") BY <1>1 DEF Refuse
    <2>2. pc \in Open BY Places
    <2>3. QED BY <2>1, <2>2, FailAfter
  <1>2. CASE ValidResult(e, b)
    <2>1. b.status = s BY DEF NonExecutionBody
    <2>2. Finish(k, "blocked")
      <3>1. BlockedFromDecision(PushResult(l, e, b.status), decision) BY <1>2 DEF Refuse
      <3>2. BlockedFromDecision(q, decision) BY <2>1, <3>1
      <3>3. QED BY <3>2 DEF BlockedFromDecision
    <2>3. s \in NotExecuted /\ (decision.outcome # "ask" => s = "denied")
      BY DEF NonExecutionStatus, NotExecuted
    <2> HIDE DEF s
    <2>4. Metering(q)
      <3>1. Metering(l) BY DEF Judged, Untaken
      <3>2. QED BY <3>1, PushTaken
    <2>5. q = PushResult(l, e, s) OBVIOUS
    <2> HIDE DEF q
    <2>6. Calm(k, q) /\ k.usage = q.usage
      <3>1. CASE decision.outcome = "ask"
        <4>1. Calm(Transition(q, "awaiting_authority"), q) BY <2>4, TransitionQuiet
        <4>2. Transition(q, "awaiting_authority").usage = q.usage
          BY <2>4, TransitionFrame DEF Metering
        <4>3. QED BY <3>1, <4>1, <4>2
      <3>2. CASE decision.outcome # "ask" BY <2>4, <3>2, QuietReflexive
      <3>3. QED BY <3>1, <3>2
    <2> HIDE DEF k
    <2>7. pc' \in Sealing /\ ledger' = k /\ result' = "none"
      <3>1. pc \notin {"close", "closed"} OBVIOUS
      <3>2. QED BY <2>2, <3>1, FinishSeals DEF Sealing
    <2>8. Calm(ledger', q) /\ ledger'.usage = q.usage BY <2>6, <2>7
    <2>9. pc = "step" => Fits(e) \/ s = "denied" BY <2>3
    <2>10. QED BY <2>3, <2>5, <2>7, <2>8, <2>9, DeclinedAfter
  <1>3. QED BY <1>1, <1>2

(* A decision is recorded first.                                           *)
LEMMA DeclineAfter ==
  ASSUME RunInvariant, RunInvariant', AttestationInvariant, Recording, UNCHANGED config,
         pc \in {"step", "execute"}, NEW h, Calm(h, ledger), Sound(h), NEW e \in Effects,
         pc = "execute" => e = pending.effect, NEW gate \in EffectGates,
         NEW decision, decision.outcome \in Outcomes, Ordinary(gate, decision),
         pc = "step" => decision.outcome # "ask",
         Decline(h, e, gate, decision, TRUE)
  PROVE  AttestationInvariant'
  <1> DEFINE l == Decide(h, DecisionId(h), gate, e, decision, TRUE)
             ns == {NextDecision(h, gate, e, decision)}
             yes == TRUE
  <1>1. Judged(l, h, e, ns) BY JudgedOnce
  <1>2. Refuse(l, e, gate, decision, yes) BY DEF Decline
  <1> HIDE DEF l, ns, yes
  <1>3. QED BY <1>1, <1>2, RefusedAfter

LEMMA ProposalDeclinedAfter ==
  ASSUME RunInvariant, RunInvariant', AttestationInvariant, Recording, NEW e \in Effects,
         NEW u \in PortUsages,
         \/ ProposeStale(e, u, RecordUsage(ledger, u))
         \/ ProposeInadmissible(e, u, RecordUsage(ledger, u))
         \/ ProposeUnaffordable(e, u, RecordUsage(ledger, u))
  PROVE  AttestationInvariant'
  <1> DEFINE h == RecordUsage(ledger, u)
  <1>1. PortReturns("step", u) /\ UNCHANGED config
    BY DEF ProposeStale, ProposeInadmissible, ProposeUnaffordable, Untouched
  <1>2. EngineInvariant BY DEF RunInvariant
  <1>3. pc = "step" /\ Sound(h) BY <1>1, <1>2, ProposalLedger
  <1>4. Calm(h, ledger) BY <1>1, ReturnsCalm
  <1>5. PICK code : \E gate \in EffectGates : Decline(h, e, gate, Block(code), TRUE)
    <2> HIDE DEF h
    <2>1. "permission" \in EffectGates /\ "runtime" \in EffectGates BY DEF EffectGates
    <2>2. \/ Decline(h, e, "permission", Block("protected_effect.stale_subject"), TRUE)
          \/ Decline(h, e, "runtime", Block(AdmissionCode(h, e, config.maxEffects)), TRUE)
          \/ Decline(h, e, "runtime",
                     Block(BudgetCode(h, config.budget, config.estimate)), TRUE)
      BY DEF ProposeStale, ProposeInadmissible, ProposeUnaffordable, h
    <2>3. QED BY <2>1, <2>2
  <1> HIDE DEF h
  <1>6. PICK gate \in EffectGates : Decline(h, e, gate, Block(code), TRUE) BY <1>5
  <1> DEFINE d == Block(code)
  <1>7. d.outcome \in Outcomes /\ Ordinary(gate, d) BY BlockDecision
  <1>8. d.outcome # "ask" BY DEF Block
  <1>9. Decline(h, e, gate, d, TRUE) BY <1>6
  <1> HIDE DEF d
  <1>10. QED BY <1>1, <1>3, <1>4, <1>7, <1>8, <1>9, DeclineAfter

LEMMA GateStopsAfter ==
  ASSUME RunInvariant, RunInvariant', AttestationInvariant, Recording, NEW e \in Effects,
         NEW u \in PortUsages, GateStops(e, u, RecordUsage(ledger, u))
  PROVE  AttestationInvariant'
  <1> DEFINE h == RecordUsage(ledger, u)
  <1>1. PortReturns("step", u) /\ Current(h, e) /\ Admissible(h, e) /\ UNCHANGED config
    BY DEF GateStops, Admitted, Untouched
  <1>2. EngineInvariant BY DEF RunInvariant
  <1>3. pc = "step" /\ Sound(h) BY <1>1, <1>2, ProposalLedger
  <1>4. Calm(h, ledger) BY <1>1, ReturnsCalm
  <1>5. Fits(e) BY <1>1, AdmittedFits
  <1>6. PICK i \in 1..4 :
          Refuse(LedgerThrough(config, h, e, GateOrder[i]), e, GateOrder[i],
                 GateDecision(config, h, e, GateOrder[i]), TRUE)
    BY DEF GateStops
  <1> DEFINE gate == GateOrder[i]
             l == LedgerThrough(config, h, e, gate)
             d == GateDecision(config, h, e, gate)
             yes == TRUE
  <1>7. gate \in EffectGates BY DEF GateOrder, EffectGates
  <1>8. Refuse(l, e, gate, d, yes) BY <1>6
  <1> HIDE DEF gate, h
  <1>9. PICK ns : Judged(l, h, e, ns) BY <1>3, <1>7, ThroughJudged
  <1> HIDE DEF l, d, yes
  <1>10. QED BY <1>1, <1>3, <1>4, <1>5, <1>8, <1>9, RefusedAfter

LEMMA ProposeAfter ==
  ASSUME RunInvariant, RunInvariant', AttestationInvariant, Recording, Propose
  PROVE  AttestationInvariant'
  BY ProposeInvalidAfter, ProposalDeclinedAfter, GateStopsAfter, DispatchAfter DEF Propose

(* The executor declines.                                                  *)
LEMMA ExecuteDeclinedAfter ==
  ASSUME RunInvariant, RunInvariant', AttestationInvariant, Recording,
         ExecuteNotDispatched \/ ExecuteDeclines
  PROVE  AttestationInvariant'
  <1>1. pc = "execute" /\ UNCHANGED config
    BY DEF ExecuteNotDispatched, ExecuteDeclines, Untouched
  <1>2. EngineInvariant BY DEF RunInvariant
  <1>3. Sound(ledger) /\ Endable(ledger) /\ pending.effect \in Effects
    BY <1>1, <1>2, PendingFacts
  <1>4. Metering(ledger) BY LedgerMeters
  <1>5. "permission" \in EffectGates BY DEF EffectGates
  <1>6. CASE ExecuteDeclines
    <2>1. PICK o \in Observations :
            Decline(RecordUsage(ledger, o.usage), pending.effect, "permission",
                    ExecutorDecision(o), TRUE)
      BY <1>6 DEF ExecuteDeclines
    <2> DEFINE h == RecordUsage(ledger, o.usage)
               d == ExecutorDecision(o)
               g == "permission"
    <2>2. o.usage \in Usage BY ObservationAssumption
    <2>3. Sound(h) BY <1>3, <2>2, RecordUsageSound
    <2>4. Calm(h, ledger) BY <1>4, <2>2, RecordQuiet
    <2>5. d.outcome \in Outcomes /\ Ordinary(g, d)
      BY DEF ExecutorDecision, Ask, Block, Outcomes, Ordinary
    <2>6. Decline(h, pending.effect, g, d, TRUE) /\ g \in EffectGates BY <1>5, <2>1
    <2> HIDE DEF h, d, g
    <2>7. QED BY <1>1, <1>3, <2>3, <2>4, <2>5, <2>6, DeclineAfter
  <1>7. CASE ExecuteNotDispatched
    <2>1. PICK u \in PortUsages \cup {Null}, blank \in BOOLEAN :
            Decline(Observed(ledger, u), pending.effect, "permission",
                    Block("executor.not_dispatched"), ~blank)
      BY <1>7 DEF ExecuteNotDispatched
    <2> DEFINE h == Observed(ledger, u)
               d == Block("executor.not_dispatched")
               g == "permission"
               intact == ~blank
    <2>2. Sound(h) BY <1>3, EndableObserved, EndableSound
    <2>3. Calm(h, ledger) BY <1>4, ObservedQuiet
    <2>4. d.outcome \in Outcomes /\ Ordinary(g, d) BY BlockDecision
    <2>5. Decline(h, pending.effect, g, d, intact) /\ g \in EffectGates BY <1>5, <2>1
    <2> HIDE DEF h, d, g
    <2>6. CASE blank = FALSE
      <3>1. Decline(h, pending.effect, g, d, TRUE) BY <2>5, <2>6
      <3>2. QED BY <1>1, <1>3, <2>2, <2>3, <2>4, <2>5, <3>1, DeclineAfter
    <2>7. CASE blank = TRUE
      <3> DEFINE l == Decide(h, DecisionId(h), g, pending.effect, d, intact)
                 b == NonExecutionBody(l, pending.effect, g, d, intact)
      <3>1. Refuse(l, pending.effect, g, d, intact) BY <2>5 DEF Decline
      <3>2. b.decision.effectsIntact = FALSE BY <2>7 DEF NonExecutionBody
      <3> HIDE DEF b
      <3>3. ~ValidResult(pending.effect, b) BY <3>2 DEF ValidResult, ValidDecision
      <3>4. Fail("result_error") BY <3>1, <3>3 DEF Refuse, b
      <3>5. pc \in Open BY <1>1, Places
      <3>6. QED BY <3>4, <3>5, FailAfter
    <2>8. QED BY <2>6, <2>7
  <1>8. QED BY <1>6, <1>7

----------------------------------------------------------------------------
(* An attempt.                                                             *)

(* Every body charges a call and names a subject, if one.                  *)
LEMMA BodyFacts ==
  ASSUME NEW b \in AttemptBodies
  PROVE  /\ b.usage \in Usage /\ b.usage["calls"] > 0
         /\ b.post \in Subjects \cup {Null, Malformed}
  <1>1. \A u \in Usage : AtLeastOneCall(u) \in Usage /\ AtLeastOneCall(u)["calls"] > 0
    BY MeterAssumption DEF AtLeastOneCall, Usage
  <1>2. \A o \in Observations :
          /\ Floored(o).usage = AtLeastOneCall(o.usage) /\ Floored(o).post = o.post
          /\ o.usage \in Usage /\ o.post \in Subjects \cup {Null, Malformed}
    <2> SUFFICES ASSUME NEW o \in Observations
                 PROVE  /\ Floored(o).usage = AtLeastOneCall(o.usage) /\ Floored(o).post = o.post
                        /\ o.usage \in Usage /\ o.post \in Subjects \cup {Null, Malformed}
      OBVIOUS
    <2>1. o \in [status : Statuses, post : Subjects \cup {Null, Malformed},
                 exit : {Null, Malformed, "code"}, usage : Usage,
                 executor : {Null, Malformed, Configured, "other"},
                 sandbox : {"requested", "other"}, reason : {Null, "blank", "text"},
                 evidence : SUBSET EvidenceTypes, evidenceIntact : BOOLEAN]
      BY ObservationAssumption
    <2>2. QED BY <2>1 DEF Floored
  <1>3. CASE \E u \in PortUsages \cup {Null}, ev \in LostEvidence :
               b = LostBody(ledger, pending.effect, u, ev)
    <2>1. PICK u \in PortUsages \cup {Null}, ev \in LostEvidence :
            b = LostBody(ledger, pending.effect, u, ev)
      BY <1>3
    <2> DEFINE v == IF u = Null THEN ZeroUsage ELSE u
    <2>2. v \in Usage
      <3>1. ZeroUsage \in Usage BY DEF ZeroUsage, Usage
      <3>2. QED BY <3>1, UsageAssumption
    <2>3. b.usage = AtLeastOneCall(v) /\ b.post = Null BY <2>1 DEF LostBody, AttemptBody
    <2> HIDE DEF v
    <2>4. QED BY <1>1, <2>2, <2>3
  <1>4. CASE \E o \in Observations : b = ObservedBody(ledger, pending.effect, Floored(o))
    <2>1. PICK o \in Observations : b = ObservedBody(ledger, pending.effect, Floored(o))
      BY <1>4
    <2>2. b.usage = Floored(o).usage /\ b.post = Floored(o).post
      BY <2>1 DEF ObservedBody, AttemptBody
    <2>3. QED BY <1>1, <1>2, <2>2
  <1>5. CASE \E o \in Observations : \E kept \in KeptEvidence(Floored(o)) :
               b = UntrustedBody(ledger, pending.effect, Floored(o), kept)
    <2>1. PICK o \in Observations : \E kept \in KeptEvidence(Floored(o)) :
            b = UntrustedBody(ledger, pending.effect, Floored(o), kept)
      BY <1>5
    <2> DEFINE v == Floored(o).usage
    <2>2. v \in Usage /\ v["calls"] > 0 BY <1>1, <1>2
    <2>3. /\ b.usage = [m \in Meters |-> IF v[m] > MaxSafe THEN MaxSafe ELSE v[m]]
          /\ b.post = UsablePost(pending.effect, Floored(o).post)
      BY <2>1 DEF UntrustedBody, AttemptBody
    <2>4. b.post \in Subjects \cup {Null, Malformed} BY <1>2, <2>3 DEF UsablePost
    <2> HIDE DEF v
    <2>5. b.usage \in Usage /\ b.usage["calls"] > 0
      BY <2>2, <2>3, MaxSafeAssumption, MeterAssumption DEF Usage
    <2>6. QED BY <2>4, <2>5
  <1>6. QED BY <1>3, <1>4, <1>5 DEF AttemptBodies

LEMMA AttemptEvidence ==
  ASSUME Recording, NEW q \in EffectResults, ledger.results = q, NEW e,
         NEW s \in Attempted,
         ledger'.results = Append(q, [effect |-> e, status |-> s])
  PROVE  \E b \in SealedBodies :
           /\ Retain([request |-> e, status |-> s, post |-> b.post,
                      usage |-> b.usage, decision |-> pending.permission])
           /\ b.usage \in Usage /\ b.usage["calls"] > 0 /\ b.post \in Subjects \cup {Null}
           /\ ledger'.usage = CappedUsage(ledger.usage, b.usage)
           /\ Mutated <=> b.post # Null /\ e.class = "mutation"
           /\ Mutated => ledger'.current = b.post
  <1>1. ledger'.results # ledger.results /\ Pushed.effect = e /\ Pushed.status = s
    BY PushedRecord
  <1>2. s \notin NotExecuted BY DEF NotExecuted, Attempted
  <1>3. EffectRecords = {[request |-> e, status |-> s, post |-> b.post,
                          usage |-> b.usage, decision |-> pending.permission] :
                         b \in SealedBodies}
    BY <1>1, <1>2 DEF EffectRecords
  <1>4. PICK r \in EffectRecords : Retain(r) BY <1>1 DEF Recording
  <1>5. PICK b \in SealedBodies :
          r = [request |-> e, status |-> s, post |-> b.post,
               usage |-> b.usage, decision |-> pending.permission]
    BY <1>3, <1>4
  <1>6. /\ b \in AttemptBodies /\ ValidResult(Pushed.effect, b)
        /\ ledger'.usage = CappedUsage(ledger.usage, b.usage)
        /\ Mutated <=> b.post # Null /\ Pushed.effect.class = "mutation"
        /\ Mutated => ledger'.current = b.post
    BY DEF SealedBodies
  <1>7. b.post # Malformed BY <1>6 DEF ValidResult
  <1>8. /\ b.usage \in Usage /\ b.usage["calls"] > 0
        /\ b.post \in Subjects \cup {Null, Malformed}
    BY <1>6, BodyFacts
  <1>9. QED BY <1>1, <1>4, <1>5, <1>6, <1>7, <1>8

(* The ledger that an attempt leaves, and its record.                      *)
LEMMA AttemptAfter ==
  ASSUME RunInvariant, AttestationInvariant, Recording, UNCHANGED config,
         pc = "execute", NEW s \in Attempted,
         ledger'.results =
           Append(ledger.results, [effect |-> pending.effect, status |-> s]),
         ledger'.log.decisions = ledger.log.decisions,
         ~Mutated => ledger'.current = ledger.current,
         ledger'.log.interrupted => pc' = "seal" /\ ending' = "interrupted",
         result' = "none", pc' \in Sealing \cup {"step"},
         pc' = "step" => ledger'.ids = ledger.ids \cup {pending.effect.id}
  PROVE  AttestationInvariant'
  <1> DEFINE e == pending.effect
             n == Len(evidence.effects)
  <1>1. /\ EngineInvariant /\ e \in Effects /\ Sound(ledger)
        /\ Authorized(ledger.log, pending.permission, e, "permission")
    BY PendingFacts DEF RunInvariant
  <1>2. /\ ledger.log.seq \in Nat /\ ledger.log.decisions \subseteq DecisionRecord
        /\ ledger.current \in Subjects /\ pending.permission \in Nat
    BY <1>1, SoundMeters DEF EngineInvariant, TypeOK
  <1>3. ledger.results \in EffectResults /\ ledger.usage \in Counters BY LedgerShape
  <1>4. pc \in Open BY Places
  <1>5. /\ evidence \in EvidenceRecord /\ n \in Nat /\ Count = n
        /\ Requests = {evidence.effects[i].request : i \in 1..n}
        /\ \A i \in 1..n : /\ Request(i) = evidence.effects[i].request
                           /\ evidence.effects[i].request.id \in ledger.ids
        /\ \A d \in ledger.log.decisions : (d.digest \in Requests \/ d.digest = e)
                                             /\ ~OwnDecision(d)
        /\ \A x \in evidence.executions \cup evidence.mutations : x.digest \in Requests
    BY <1>4, EvidenceNow
  <1>6. /\ Placed(ledger.log.decisions, e, n + 1)
        /\ e.seq = n + 1
        /\ \A i \in 1..n : evidence.effects[i].request.id # e.id
        /\ AdmittedBefore(ledger.log.decisions, e, ledger.log.seq + 1)
        /\ e.subject = ledger.current
    BY <1>1, <1>5 DEF AttestationInvariant, PendingInTurn, Placed, Decisions,
                      EngineInvariant, DispatchAuthorized
  <1>7. PICK b \in SealedBodies :
          /\ Retain([request |-> e, status |-> s, post |-> b.post,
                     usage |-> b.usage, decision |-> pending.permission])
          /\ b.usage \in Usage /\ b.usage["calls"] > 0 /\ b.post \in Subjects \cup {Null}
          /\ ledger'.usage = CappedUsage(ledger.usage, b.usage)
          /\ Mutated <=> b.post # Null /\ e.class = "mutation"
          /\ Mutated => ledger'.current = b.post
    BY <1>3, AttemptEvidence
  <1> DEFINE r == [request |-> e, status |-> s, post |-> b.post,
                   usage |-> b.usage, decision |-> pending.permission]
             x == [seq |-> ledger.log.seq + 1, digest |-> e, decision |-> pending.permission]
             m == [digest |-> e, before |-> ledger.current, after |-> ledger'.current]
  <1>8. /\ r.request = e /\ r.status = s /\ r.post = b.post /\ r.usage = b.usage
        /\ r.decision = pending.permission /\ Retain(r)
    BY <1>7
  <1>9. r \in EvidenceEffect
    <2>1. s \in Statuses BY DEF Statuses
    <2>2. QED BY <1>1, <1>2, <1>7, <2>1 DEF EvidenceEffect
  <1> HIDE DEF r, e
  <1>10. Executions(r) = {x} BY <1>8 DEF Executions
  <1>11. Mutations(r) = IF Mutated THEN {m} ELSE {} BY <1>8 DEF Mutations
  <1>12. Mutating(r) <=> Mutated BY <1>7, <1>8 DEF Mutating
  <1>13. x \in [seq : Nat, digest : Effects, decision : Nat] BY <1>1, <1>2
  <1>14. Mutated => m \in [digest : Effects, before : Subjects, after : Subjects]
    BY <1>1, <1>2, <1>7, SubjectAssumption
  <1>15. x.digest = e /\ x.decision = pending.permission /\ x.seq = ledger.log.seq + 1
    OBVIOUS
  <1>16. m.digest = e /\ m.before = ledger.current /\ m.after = ledger'.current OBVIOUS
  <1> HIDE DEF x, m
  <1>17. /\ evidence'.effects = Append(evidence.effects, r)
         /\ evidence'.executions = evidence.executions \cup {x}
         /\ evidence'.mutations =
              IF Mutated THEN evidence.mutations \cup {m} ELSE evidence.mutations
         /\ evidence' = [effects    |-> Append(evidence.effects, r),
                         executions |-> evidence.executions \cup {x},
                         mutations  |-> evidence.mutations \cup Mutations(r)]
    BY <1>8, <1>10, <1>11 DEF Retain
  <1>18. evidence' \in EvidenceRecord
    <2>1. Append(evidence.effects, r) \in Seq(EvidenceEffect)
      BY <1>5, <1>9, EvidenceFields
    <2>2. /\ evidence.executions \cup {x} \in SUBSET [seq : Nat, digest : Effects, decision : Nat]
          /\ evidence.mutations \cup Mutations(r) \in
               SUBSET [digest : Effects, before : Subjects, after : Subjects]
      BY <1>5, <1>11, <1>13, <1>14 DEF EvidenceRecord
    <2>3. QED BY <1>17, <2>1, <2>2 DEF EvidenceRecord, EvidenceEffect
  <1>19. Adds(evidence', evidence, r, ledger'.log.decisions, ledger.current, ledger'.current)
    <2>1. /\ x.digest = r.request /\ x.decision = r.decision
          /\ AdmittedBefore(ledger'.log.decisions, r.request, x.seq)
      BY <1>6, <1>8, <1>15
    <2>2. IF Mutating(r)
            THEN \E y : /\ evidence'.mutations = evidence.mutations \cup {y}
                        /\ y.digest = r.request /\ y.before = ledger.current
                        /\ y.after = r.post /\ ledger'.current = r.post
            ELSE evidence'.mutations = evidence.mutations
                   /\ ledger'.current = ledger.current
      BY <1>7, <1>8, <1>12, <1>16, <1>17
    <2>3. r.status \in Attempted /\ r.usage["calls"] > 0 BY <1>7, <1>8
    <2>4. QED BY <1>5, <1>17, <1>18, <2>1, <2>2, <2>3 DEF Adds
  <1>20. Kept(config.subject', ledger', evidence', 0)
    <2> DEFINE ns == {}
    <2>1. Kept(config.subject, ledger, evidence, 1) BY TurnNow
    <2>2. After(ns, ledger.log.decisions) /\ About(ns, r.request)
      BY <1>2 DEF After, About
    <2>3. ledger'.log.decisions = ledger.log.decisions \cup ns OBVIOUS
    <2>4. \E d \in ledger'.log.decisions : d.id = r.decision /\ d.digest = r.request
      BY <1>1, <1>8 DEF Authorized
    <2>5. ledger'.usage = CappedUsage(ledger.usage, r.usage) BY <1>7, <1>8
    <2>6. /\ r.request.seq = n + 1 /\ r.request.subject = ledger.current
          /\ \A i \in 1..n : evidence.effects[i].request.id # r.request.id
          /\ \A y \in evidence.executions \cup evidence.mutations :
               y.digest \in {evidence.effects[i].request : i \in 1..n}
          /\ Placed(ledger.log.decisions, r.request, n + 1)
      BY <1>5, <1>6, <1>8
    <2> HIDE DEF ns, n
    <2>7. Kept(config.subject, ledger', evidence', 0)
      BY <1>3, <1>19, <2>1, <2>2, <2>3, <2>4, <2>5, <2>6, KeptRecorded DEF n
    <2>8. QED BY <2>7
  <1>21. EvidenceTyped BY DEF AttestationInvariant
  <1>22. /\ EvidenceTyped' /\ Count' = n + 1
         /\ \A i \in 1..n : evidence'.effects[i] = evidence.effects[i]
         /\ evidence'.effects[n + 1] = r
    <2>1. ledger'.results = Append(ledger.results, [effect |-> r.request, status |-> r.status])
      BY <1>8 DEF e
    <2>2. QED BY <1>3, <1>5, <1>19, <1>21, <2>1, GrownEvidence
  <1>23. NothingElse'
    <2> SUFFICES ASSUME pc' = "step" PROVE NothingElse'
      BY Places DEF NothingElse
    <2>1. \A i \in 1..n : evidence'.effects[i].request = evidence.effects[i].request
      BY <1>22
    <2>2. evidence'.effects[n + 1].request = e BY <1>8, <1>22
    <2>3. Requests' = Requests \cup {e}
      <3>1. Requests' = {evidence'.effects[i].request : i \in 1..(n + 1)}
        BY <1>22 DEF Requests, Request
      <3>2. n \in Nat /\ Requests = {evidence.effects[i].request : i \in 1..n} BY <1>5
      <3> HIDE DEF n
      <3>3. ASSUME NEW y \in Requests' PROVE y \in Requests \cup {e}
        <4>1. PICK i \in 1..(n + 1) : y = evidence'.effects[i].request BY <3>1, <3>3
        <4>2. i = n + 1 \/ i \in 1..n BY <3>2
        <4>3. QED BY <2>1, <2>2, <3>2, <4>1, <4>2
      <3>4. ASSUME NEW y \in Requests \cup {e} PROVE y \in Requests'
        <4>1. CASE y = e
          <5>1. n + 1 \in 1..(n + 1) BY <3>2
          <5>2. QED BY <2>2, <3>1, <4>1, <5>1
        <4>2. CASE y \in Requests
          <5>1. PICK i \in 1..n : y = evidence.effects[i].request BY <3>2, <4>2
          <5>2. i \in 1..(n + 1) BY <3>2
          <5>3. QED BY <2>1, <3>1, <5>1, <5>2
        <4>3. QED BY <3>4, <4>1, <4>2
      <3>5. QED BY <3>3, <3>4
    <2>4. \A d \in Decisions' : d.digest \in Requests' /\ ~OwnDecision(d)
      BY <1>5, <2>3 DEF Decisions
    <2>5. \A y \in evidence'.executions \cup evidence'.mutations : y.digest \in Requests'
      BY <1>5, <1>15, <1>16, <1>17, <2>3
    <2>6. \A i \in 1..Count' : Request(i)'.id \in ledger'.ids
      <3> SUFFICES ASSUME NEW i \in 1..(n + 1)
                   PROVE  evidence'.effects[i].request.id \in ledger'.ids
        BY <1>22 DEF Request
      <3>1. ledger'.ids = ledger.ids \cup {e.id} BY DEF e
      <3>2. CASE i = n + 1 BY <2>2, <3>1, <3>2
      <3>3. CASE i # n + 1
        <4>1. i \in 1..n BY <1>5, <3>3
        <4>2. QED BY <1>5, <2>1, <3>1, <4>1
      <3>4. QED BY <3>2, <3>3
    <2>7. QED BY <2>4, <2>5, <2>6 DEF NothingElse, OwnDecision
  <1>24. TurnsKept'
    <2>1. pc' # "execute" BY Places DEF Sealing
    <2>2. QED BY <1>20, <2>1, TurnAfter
  <1>25. PendingInTurn' BY Places DEF PendingInTurn, Sealing
  <1>26. EndsAsLogged' BY DEF EndsAsLogged
  <1>27. QED BY <1>22, <1>23, <1>24, <1>25, <1>26 DEF AttestationInvariant

(* Both ends of an attempt: the run finishes, or the loop goes on.         *)
LEMMA AttemptEnds ==
  ASSUME RunInvariant, AttestationInvariant, Recording, UNCHANGED config,
         pc = "execute", NEW h, Metering(h), h.results = ledger.results,
         h.log.decisions = ledger.log.decisions,
         h.log.lastMutation = ledger.log.lastMutation => h.current = ledger.current,
         NEW s \in Attempted, NEW k, k = PushResult(h, pending.effect, s),
         \/ \E w : Finish(k, w) /\ (h.log.interrupted => w = "interrupted")
         \/ /\ Continue(k, "step") /\ ~h.log.interrupted
            /\ h.ids = ledger.ids \cup {pending.effect.id}
  PROVE  AttestationInvariant'
  <1>1. /\ k.log = h.log /\ k.current = h.current /\ k.ids = h.ids
        /\ k.results = Append(ledger.results, [effect |-> pending.effect, status |-> s])
    BY PushTaken
  <1>2. pc \notin {"close", "closed"} OBVIOUS
  <1>3. /\ ledger' = k /\ result' = "none" /\ pc' \in Sealing \cup {"step"}
        /\ h.log.interrupted => pc' = "seal" /\ ending' = "interrupted"
        /\ pc' = "step" => h.ids = ledger.ids \cup {pending.effect.id}
    <2>1. CASE \E w : Finish(k, w) /\ (h.log.interrupted => w = "interrupted")
      <3>1. PICK w : Finish(k, w) /\ (h.log.interrupted => w = "interrupted") BY <2>1
      <3>2. /\ pc' \in {"seal", "observe_agent"} /\ ledger' = k /\ ending' = w
            /\ result' = "none" /\ (w = "interrupted" => pc' = "seal")
        BY <1>2, <3>1, FinishSeals
      <3>3. QED BY <3>1, <3>2 DEF Sealing
    <2>2. CASE /\ Continue(k, "step") /\ ~h.log.interrupted
               /\ h.ids = ledger.ids \cup {pending.effect.id}
      BY <1>2, <2>2, OpenRun DEF Continue
    <2>3. QED BY <2>1, <2>2
  <1>4. /\ ledger'.results =
             Append(ledger.results, [effect |-> pending.effect, status |-> s])
        /\ ledger'.log.decisions = ledger.log.decisions
        /\ ~Mutated => ledger'.current = ledger.current
        /\ ledger'.log.interrupted => pc' = "seal" /\ ending' = "interrupted"
        /\ pc' = "step" => ledger'.ids = ledger.ids \cup {pending.effect.id}
    BY <1>1, <1>3 DEF Mutated
  <1>5. QED BY <1>3, <1>4, AttemptAfter

LEMMA ExecuteLostAfter ==
  ASSUME RunInvariant, AttestationInvariant, Recording, ExecuteLost
  PROVE  AttestationInvariant'
  <1>1. pc = "execute" /\ UNCHANGED config BY DEF ExecuteLost, Untouched
  <1>2. PICK u \in PortUsages \cup {Null}, ev \in LostEvidence :
          LET b == LostBody(ledger, pending.effect, u, ev)
              l == ToolExecution(ledger, pending.permission, pending.effect)
          IN Finish(PushResult(RecordUsage(l, b.usage), pending.effect, b.status),
                    IF UsageReason(l, b.usage, config.budget) # "none"
                      THEN "blocked" ELSE "failed")
    BY DEF ExecuteLost
  <1> DEFINE b == LostBody(ledger, pending.effect, u, ev)
             l == ToolExecution(ledger, pending.permission, pending.effect)
             h == RecordUsage(l, b.usage)
             s == "unknown_outcome"
             k == PushResult(h, pending.effect, s)
             w == IF UsageReason(l, b.usage, config.budget) # "none"
                    THEN "blocked" ELSE "failed"
  <1>3. b \in AttemptBodies BY DEF AttemptBodies
  <1>4. b.usage \in Usage BY <1>3, BodyFacts
  <1>5. b.status = s BY DEF LostBody, AttemptBody
  <1>6. Finish(k, w) BY <1>2, <1>5
  <1>7. s \in Attempted BY DEF Attempted
  <1>8. Calm(h, ledger) /\ Metering(h) BY <1>4, LedgerMeters, LostTaken
  <1>9. pc \in Open BY <1>1, Places
  <1>10. k = PushResult(h, pending.effect, s) OBVIOUS
  <1> HIDE DEF b, h, s, k, w
  <1>11. /\ h.results = ledger.results /\ h.log.decisions = ledger.log.decisions
         /\ h.current = ledger.current /\ ~h.log.interrupted
    BY <1>8, <1>9, NotInterrupted DEF Calm, Quiet
  <1>12. QED BY <1>1, <1>6, <1>7, <1>8, <1>10, <1>11, AttemptEnds

(* What AttemptLedger leaves.                                              *)
LEMMA AttemptedLedger ==
  ASSUME RunInvariant, AttestationInvariant, pc = "execute", NEW b \in AttemptBodies
  PROVE  LET h == AttemptLedger(ledger, pending, b) IN
         /\ Metering(h) /\ h.results = ledger.results
         /\ h.log.decisions = ledger.log.decisions /\ ~h.log.interrupted
         /\ h.log.lastMutation = ledger.log.lastMutation => h.current = ledger.current
         /\ h.ids = ledger.ids \cup {pending.effect.id}
  <1> DEFINE h == AttemptLedger(ledger, pending, b)
  <1>1. b.usage \in Usage BY BodyFacts
  <1>2. Sound(ledger) BY PendingFacts DEF RunInvariant
  <1>3. Metering(ledger) BY LedgerMeters
  <1>4. /\ ledger.log.seq \in Nat /\ ledger.log.lastMutation \in Nat
        /\ ledger.log.lastMutation <= ledger.log.seq
    BY <1>2 DEF Sound, LedgerRecord, LogRecord
  <1>5. /\ Metering(h) /\ h.results = ledger.results
        /\ h.ids = ledger.ids \cup {pending.effect.id}
        /\ h.log.decisions = ledger.log.decisions
        /\ h.log.interrupted = ledger.log.interrupted
        /\ IF b.post # Null /\ pending.effect.class = "mutation"
             THEN h.current = b.post /\ h.log.lastMutation # ledger.log.lastMutation
             ELSE h.current = ledger.current
                    /\ h.log.lastMutation = ledger.log.lastMutation
    BY <1>1, <1>3, <1>4, AttemptTaken
  <1> HIDE DEF h
  <1>6. ~ledger.log.interrupted BY Places, NotInterrupted
  <1>7. QED BY <1>5, <1>6 DEF h

LEMMA ExecuteUntrustedAfter ==
  ASSUME RunInvariant, AttestationInvariant, Recording, ExecuteUntrusted
  PROVE  AttestationInvariant'
  <1>1. pc = "execute" /\ UNCHANGED config BY DEF ExecuteUntrusted, Untouched
  <1>2. PICK o \in Observations : Untrusted(o) /\ \E kept \in KeptEvidence(Floored(o)) :
          LET b == UntrustedBody(ledger, pending.effect, Floored(o), kept)
          IN Finish(PushResult(AttemptLedger(ledger, pending, b), pending.effect, b.status),
                    "failed")
    BY DEF ExecuteUntrusted
  <1>3. PICK kept \in KeptEvidence(Floored(o)) :
          LET b == UntrustedBody(ledger, pending.effect, Floored(o), kept)
          IN Finish(PushResult(AttemptLedger(ledger, pending, b), pending.effect, b.status),
                    "failed")
    BY <1>2
  <1> DEFINE b == UntrustedBody(ledger, pending.effect, Floored(o), kept)
             h == AttemptLedger(ledger, pending, b)
             s == "unknown_outcome"
             k == PushResult(h, pending.effect, s)
             w == "failed"
  <1>4. b \in AttemptBodies BY <1>2 DEF AttemptBodies
  <1>5. b.status = s BY DEF UntrustedBody, AttemptBody
  <1>6. Finish(k, w) BY <1>3, <1>5
  <1>7. s \in Attempted BY DEF Attempted
  <1>8. k = PushResult(h, pending.effect, s) OBVIOUS
  <1> HIDE DEF b
  <1>9. /\ Metering(h) /\ h.results = ledger.results
        /\ h.log.decisions = ledger.log.decisions /\ ~h.log.interrupted
        /\ h.log.lastMutation = ledger.log.lastMutation => h.current = ledger.current
    BY <1>1, <1>4, AttemptedLedger
  <1> HIDE DEF h, s, k, w
  <1>10. QED BY <1>1, <1>6, <1>7, <1>8, <1>9, AttemptEnds

LEMMA ExecuteReturnsAfter ==
  ASSUME RunInvariant, AttestationInvariant, Recording, ExecuteReturns
  PROVE  AttestationInvariant'
  <1>1. pc = "execute" /\ UNCHANGED config BY DEF ExecuteReturns, Untouched
  <1>2. PICK o \in Observations :
          LET e == pending.effect
              b == ObservedBody(ledger, e, Floored(o))
              l == AttemptLedger(ledger, pending, b)
              overspent == UsageReason(ledger, b.usage, config.budget) # "none"
          IN /\ o.status \in Attempted /\ ~Untrusted(o)
             /\ CASE b.status = "executed" /\ ~overspent ->
                       Continue(PushResult(l, e, b.status), "step")
                  [] b.status = "executed" /\ overspent ->
                       Finish(PushResult(l, e, b.status), "blocked")
                  [] b.status = "interrupted" ->
                       Finish(PushResult(Interrupt(l), e, b.status), "interrupted")
                  [] b.status \in {"failed", "unknown_outcome"} ->
                       Finish(PushResult(l, e, b.status), "failed")
    BY DEF ExecuteReturns
  <1> DEFINE e == pending.effect
             b == ObservedBody(ledger, e, Floored(o))
             h == AttemptLedger(ledger, pending, b)
             s == b.status
             k == PushResult(h, e, s)
             g == Interrupt(h)
             j == PushResult(g, e, s)
             overspent == UsageReason(ledger, b.usage, config.budget) # "none"
  <1>3. b \in AttemptBodies BY <1>2 DEF AttemptBodies
  <1>4. s \in Attempted
    <2>1. b.status = Floored(o).status BY DEF ObservedBody, AttemptBody
    <2>2. o \in [status : Statuses, post : Subjects \cup {Null, Malformed},
                 exit : {Null, Malformed, "code"}, usage : Usage,
                 executor : {Null, Malformed, Configured, "other"},
                 sandbox : {"requested", "other"}, reason : {Null, "blank", "text"},
                 evidence : SUBSET EvidenceTypes, evidenceIntact : BOOLEAN]
      BY ObservationAssumption
    <2>3. Floored(o).status = o.status BY <2>2 DEF Floored
    <2>4. QED BY <1>2, <2>1, <2>3
  <1>5. \/ Continue(k, "step") \/ Finish(k, "blocked") \/ Finish(k, "failed")
        \/ Finish(j, "interrupted")
    <2>1. CASE s = "executed" /\ ~overspent
      <3>1. Continue(k, "step") BY <1>2, <2>1
      <3>2. QED BY <3>1
    <2>2. CASE s = "executed" /\ overspent
      <3>1. Finish(k, "blocked") BY <1>2, <2>2
      <3>2. QED BY <3>1
    <2>3. CASE s = "interrupted"
      <3>1. Finish(j, "interrupted") BY <1>2, <2>3
      <3>2. QED BY <3>1
    <2>4. CASE s \in {"failed", "unknown_outcome"}
      <3>1. Finish(k, "failed") BY <1>2, <2>4
      <3>2. QED BY <3>1
    <2>5. s \in {"executed", "interrupted", "failed", "unknown_outcome"}
      BY <1>4 DEF Attempted
    <2> HIDE DEF s, k, j, overspent
    <2>6. QED BY <2>1, <2>2, <2>3, <2>4, <2>5
  <1>6. k = PushResult(h, e, s) /\ j = PushResult(g, e, s) OBVIOUS
  <1> HIDE DEF b
  <1>7. /\ Metering(h) /\ h.results = ledger.results
        /\ h.log.decisions = ledger.log.decisions /\ ~h.log.interrupted
        /\ h.log.lastMutation = ledger.log.lastMutation => h.current = ledger.current
        /\ h.ids = ledger.ids \cup {e.id}
    BY <1>1, <1>3, AttemptedLedger
  <1> HIDE DEF h, s, k, j
  <1>8. Quiet(g, h) BY <1>7, InterruptQuiet
  <1>9. Metering(g) BY <1>8, QuietMeters
  <1> HIDE DEF g
  <1>10. /\ g.results = ledger.results /\ g.log.decisions = ledger.log.decisions
         /\ g.log.lastMutation = ledger.log.lastMutation => g.current = ledger.current
    BY <1>7, <1>8 DEF Quiet
  <1>11. CASE Continue(k, "step") \/ Finish(k, "blocked") \/ Finish(k, "failed")
    BY <1>1, <1>4, <1>6, <1>7, <1>11, AttemptEnds
  <1>12. CASE Finish(j, "interrupted")
    <2>1. \E w : Finish(j, w) /\ (g.log.interrupted => w = "interrupted") BY <1>12
    <2>2. QED BY <1>1, <1>4, <1>6, <1>9, <1>10, <2>1, AttemptEnds
  <1>13. QED BY <1>5, <1>11, <1>12

----------------------------------------------------------------------------
(* The induction.                                                          *)

LEMMA EngineAfter ==
  ASSUME RunInvariant, RunInvariant', AttestationInvariant, Recording, EngineStep
  PROVE  AttestationInvariant'
  <1>1. CASE RejectRun \/ ExecuteUnsealable
    <2>1. /\ pc \in Open
          /\ \E error \in {"rejected", "result_error"} : Fail(error)
      BY <1>1, Places DEF RejectRun, ExecuteUnsealable
    <2>2. QED BY <2>1, FailAfter
  <1>2. CASE AcceptRun BY <1>2, AcceptRunAfter
  <1>3. CASE \E at \in MeteredCalls : PortFails(at) \/ PortOverspends(at)
    BY <1>3, PortFailsAfter
  <1>4. CASE PlanBadDigest \/ PlanUnapproved \/ PlanApproved BY <1>4, PlanAfter
  <1>5. CASE AgentCancels \/ AgentFinishes BY <1>5, AgentEndsAfter
  <1>6. CASE Propose BY <1>6, ProposeAfter
  <1>7. CASE ExecuteNotDispatched \/ ExecuteDeclines BY <1>7, ExecuteDeclinedAfter
  <1>8. CASE ExecuteLost BY <1>8, ExecuteLostAfter
  <1>9. CASE ExecuteUntrusted BY <1>9, ExecuteUntrustedAfter
  <1>10. CASE ExecuteReturns BY <1>10, ExecuteReturnsAfter
  <1>11. CASE VerifyReturns BY <1>11, VerifyAfter
  <1>12. CASE CheckReturns BY <1>12, CheckAfter
  <1>13. CASE \E p \in Ports : \/ ClaimFails(p) \/ ClaimRefused(p)
                               \/ ObserveCancelled(p) \/ ObserveNothing(p)
    BY <1>13, ClaimEndsAfter
  <1>14. CASE \E p \in Ports : ClaimGranted(p) BY <1>14, GrantedAfter
  <1>15. CASE Seal BY <1>15, SealAfter
  <1>16. CASE Close
    <2>1. /\ pc = "close" /\ pc' = "closed"
          /\ UNCHANGED <<config, ledger, pending, ending, result>>
      BY <1>16 DEF Close, Continue, Untouched
    <2>2. QED BY <2>1, AsideAfter
  <1>17. {"plan", "step", "verify", "check"} = MeteredCalls BY DEF MeteredCalls
  <1>18. QED
    BY <1>1, <1>2, <1>3, <1>4, <1>5, <1>6, <1>7, <1>8, <1>9, <1>10, <1>11, <1>12,
       <1>13, <1>14, <1>15, <1>16, <1>17
       DEF EngineStep, PlanFails, PlanOverspends, StepFails, StepOverspends, VerifyFails,
           VerifyOverspends, CheckFails, CheckOverspends

LEMMA AttestedInitially ==
  ASSUME AttestedInit PROVE RunInvariant /\ AttestationInvariant
  <1>1. Init /\ RunInvariant BY RunInit DEF AttestedInit
  <1>2. /\ pc = "start" /\ result = "none" /\ ledger = NewLedger(config.subject)
        /\ evidence = [effects |-> <<>>, executions |-> {}, mutations |-> {}]
    BY <1>1 DEF AttestedInit, Init
  <1>3. /\ ledger.results = <<>> /\ ledger.current = config.subject
        /\ ledger.usage = ZeroUsage
        /\ ledger.log.decisions = {} /\ ledger.log.interrupted = FALSE
    BY <1>2 DEF NewLedger, InitReplay
  <1>4. evidence.effects = <<>> /\ evidence.executions = {} /\ evidence.mutations = {}
    BY <1>2
  <1>5. evidence \in EvidenceRecord BY <1>2 DEF EvidenceRecord
  <1>6. Count = 0 /\ Count = Len(evidence.effects) BY <1>4 DEF Count
  <1>7. IsFiniteSet({}) /\ Cardinality({}) = 0 BY FS_EmptySet
  <1>8. EvidenceTyped BY <1>3, <1>4, <1>5, <1>6, <1>7 DEF EvidenceTyped
  <1>9. NothingElse BY <1>3, <1>4, <1>6 DEF NothingElse, Decisions
  <1>10. InTurn(0)
    <2>1. Firsts(Decisions) = {} BY <1>3 DEF Firsts, Decisions
    <2>2. SubjectAfter(Count) = ledger.current
      <3>1. SubjectsAlong(config.subject, evidence)[0] = config.subject
        BY <1>6, SubjectsUnfold
      <3>2. QED BY <1>3, <1>6, <3>1 DEF SubjectAfter
    <2>3. \A m \in Meters : EffectUsage(m) <= ledger.usage[m]
      <3>1. UsageAlong(evidence)[0] = ZeroUsage BY <1>5, <1>6, UsageUnfolds
      <3>2. QED BY <1>3, <1>6, <3>1 DEF EffectUsage, ZeroUsage
    <2>4. QED BY <1>6, <1>7, <2>1, <2>2, <2>3 DEF InTurn
  <1>11. TurnsKept
    <2>1. One(pc = "execute") = 0 BY <1>2 DEF One
    <2>2. QED BY <1>2, <1>10, <2>1 DEF TurnsKept
  <1>12. PendingInTurn /\ EndsAsLogged BY <1>2, <1>3 DEF PendingInTurn, EndsAsLogged
  <1>13. QED BY <1>1, <1>8, <1>9, <1>11, <1>12 DEF AttestationInvariant

LEMMA AttestedNextAfter ==
  ASSUME RunInvariant, AttestationInvariant, [AttestedNext]_attestedVars
  PROVE  RunInvariant' /\ AttestationInvariant'
  <1>1. [Next]_vars BY DEF AttestedNext, attestedVars
  <1>2. RunInvariant' BY <1>1, RunNext
  <1>3. Recording BY DEF AttestedNext, attestedVars, vars, engine, Recording
  <1>4. CASE EngineStep BY <1>2, <1>3, <1>4, EngineAfter
  <1>5. CASE UNCHANGED engine
    <2>1. UNCHANGED <<config, ledger, pending, ending, result>> BY <1>5 DEF engine
    <2>2. UNCHANGED pc \/ (pc = "close" /\ pc' = "closed") BY <1>5 DEF engine
    <2>3. QED BY <1>2, <1>3, <2>1, <2>2, AsideAfter
  <1>6. QED BY <1>1, <1>4, <1>5 DEF Next, Cancel, Terminated, vars

(* The evidence only watches the run.                                      *)
LEMMA AttestedRun == AttestedSpec => Spec
  <1>1. AttestedInit => Init BY DEF AttestedInit
  <1>2. [AttestedNext]_attestedVars => [Next]_vars BY DEF AttestedNext, attestedVars
  <1>3. QED BY <1>1, <1>2, PTL DEF AttestedSpec, Spec

LEMMA AttestedInductive == AttestedSpec => [](RunInvariant /\ AttestationInvariant)
  <1>1. AttestedInit => RunInvariant /\ AttestationInvariant BY AttestedInitially
  <1>2. RunInvariant /\ AttestationInvariant /\ [AttestedNext]_attestedVars
          => RunInvariant' /\ AttestationInvariant'
    BY AttestedNextAfter
  <1>3. QED BY <1>1, <1>2, PTL DEF AttestedSpec

(* While the run goes on, the events of the ledger are in the order the    *)
(* attestation insists on; a run leaves it only by a proposal out of turn. *)
THEOREM AttestationInductive == AttestedSpec => []AttestationInvariant
  BY AttestedInductive, PTL

----------------------------------------------------------------------------
(* What the attestation accepts of a receipt.                              *)

(* Neither an effect out of its turn nor a saturated usage.                *)
LEMMA AttestableOnly ==
  ASSUME RunInvariant, AttestationInvariant, Attestable
  PROVE  ~OutOfTurn /\ ~Saturated
  <1>1. evidence \in EvidenceRecord /\ IsFiniteSet(evidence.mutations)
    BY DEF AttestationInvariant, EvidenceTyped
  <1>2. Count \in Nat /\ Count = Len(evidence.effects) BY <1>1, EvidenceFields DEF Count
  <1>3. ~Saturated
    <2> SUFFICES ASSUME NEW m \in Meters PROVE ~(EffectUsage(m) > MaxSafe)
      BY DEF Saturated
    <2>1. UsageAlong(evidence) \in [0..Count -> Usage] BY <1>1, <1>2, UsageUnfolds
    <2>2. EffectUsage(m) \in Nat BY <1>2, <2>1 DEF EffectUsage, Usage
    <2>3. ledger.usage[m] \in 0..MaxSafe
      BY DEF RunInvariant, EngineInvariant, TypeOK, LedgerRecord
    <2>4. EffectUsage(m) <= ledger.usage[m] BY DEF Attestable
    <2>5. QED BY <2>2, <2>3, <2>4, MaxSafeAssumption
  <1>4. ASSUME OutOfTurn PROVE FALSE
    <2> DEFINE r == evidence.effects[Count]
    <2>1. Count > 0 /\ r.status = "denied" /\ r.request = Request(Count)
      BY <1>4 DEF OutOfTurn, Request
    <2>2. Count \in 1..Count BY <1>2, <2>1
    <2>3. EffectMatches(config.subject, Decisions, evidence, Count)
      BY <2>2 DEF Attestable, Matches
    <2>4. "denied" \notin Attempted BY DEF Attempted
    <2>5. /\ \A j \in 1..(Count - 1) : Request(j).id # r.request.id
          /\ r.request.seq = Count
          /\ r.request.subject = SubjectsAlong(config.subject, evidence)[Count - 1]
      BY <2>3 DEF EffectMatches, Request
    <2>6. Cardinality(MutationsOf(evidence, r.request)) =
            One(r.status \in Attempted /\ r.request.class = "mutation" /\ r.post # Null)
      BY <2>3 DEF EffectMatches
    <2>7. Cardinality(MutationsOf(evidence, r.request)) = 0
      BY <2>1, <2>4, <2>6 DEF One
    <2>8. MutationsOf(evidence, r.request) = {}
      <3>1. MutationsOf(evidence, r.request) \subseteq evidence.mutations BY DEF MutationsOf
      <3>2. IsFiniteSet(MutationsOf(evidence, r.request)) BY <1>1, <3>1, FS_Subset
      <3>3. QED BY <2>7, <3>2, FS_EmptySet
    <2>9. SubjectsAlong(config.subject, evidence)[Count] =
            NextSubject(evidence, Count, SubjectsAlong(config.subject, evidence)[Count - 1])
      BY <1>1, <1>2, <2>2, SubjectsNext
    <2>10. SubjectsAlong(config.subject, evidence)[Count]
             = SubjectsAlong(config.subject, evidence)[Count - 1]
      BY <2>8, <2>9 DEF NextSubject
    <2>11. SubjectsAlong(config.subject, evidence)[Count] = ledger.current
      BY DEF Attestable, SubjectAfter
    <2>12. QED BY <1>4, <2>1, <2>5, <2>10, <2>11 DEF OutOfTurn
  <1>5. QED BY <1>3, <1>4

(* And everything else.                                                    *)
LEMMA AttestableAll ==
  ASSUME RunInvariant, AttestationInvariant, result = "receipt", ~OutOfTurn, ~Saturated
  PROVE  Attestable
  <1>1. evidence \in EvidenceRecord BY DEF AttestationInvariant, EvidenceTyped
  <1>2. Count \in Nat /\ Count = Len(evidence.effects) BY <1>1, EvidenceFields DEF Count
  <1>3. InTurn(0) BY DEF AttestationInvariant, TurnsKept
  <1>4. ledger.status = ending BY DEF RunInvariant, EngineInvariant, CellsClaimed
  <1>5. ledger.log.interrupted => ledger.status = "interrupted"
    BY <1>4 DEF AttestationInvariant, EndsAsLogged
  <1>6. ASSUME NEW i \in 1..Count, ledger.status = "completed"
        PROVE  evidence.effects[i].status = "executed"
    <2>1. AllExecuted(ledger) BY <1>6 DEF AttestationInvariant, EndsAsLogged
    <2>2. /\ Count = Len(ledger.results)
          /\ evidence.effects[i].status = ledger.results[i].status
      BY DEF AttestationInvariant, EvidenceTyped
    <2>3. i \in DOMAIN ledger.results
      <3>1. ledger.results \in EffectResults BY LedgerShape
      <3>2. QED BY <2>2, <3>1 DEF EffectResults
    <2>4. QED BY <2>1, <2>2, <2>3 DEF AllExecuted
  <1>7. \A i \in 1..Count : Matches(i) BY <1>3 DEF InTurn
  <1>8. Cardinality(Firsts(Decisions)) = Count BY <1>2, <1>3 DEF InTurn
  <1>9. ASSUME NEW m \in Meters PROVE EffectUsage(m) <= ledger.usage[m]
    <2>1. UsageAlong(evidence) \in [0..Count -> Usage] BY <1>1, <1>2, UsageUnfolds
    <2>2. EffectUsage(m) \in Nat BY <1>2, <2>1 DEF EffectUsage, Usage
    <2>3. EffectUsage(m) <= MaxSafe BY <2>2, MaxSafeAssumption DEF Saturated
    <2>4. EffectUsage(m) <= ledger.usage[m] \/ ledger.usage[m] = MaxSafe
      BY <1>3 DEF InTurn
    <2>5. QED BY <2>3, <2>4
  <1>10. SubjectAfter(Count) = ledger.current BY <1>3 DEF InTurn
  <1>11. QED BY <1>5, <1>6, <1>7, <1>8, <1>9, <1>10 DEF Attestable

(* validate of adapters/attestation accepts the receipt of every run the   *)
(* engine seals, but for a proposal out of turn and a saturated usage; and *)
(* it refuses those two.                                                   *)
THEOREM AttestationCorrect == AttestedSpec => []ReceiptAttestable
  <1>1. RunInvariant /\ AttestationInvariant => ReceiptAttestable
    BY AttestableOnly, AttestableAll DEF ReceiptAttestable
  <1>2. QED BY <1>1, AttestedInductive, PTL

----------------------------------------------------------------------------
(* The evidence stops no step of the engine.                               *)

(* A step that records no result.                                          *)
Silent == ledger'.results = ledger.results

LEMMA FinishSilent ==
  ASSUME NEW l, NEW s, Finish(l, s), l.results = ledger.results PROVE Silent
  BY DEF Finish, Silent

LEMMA ContinueSilent ==
  ASSUME NEW l, NEW at, Continue(l, at), l.results = ledger.results PROVE Silent
  BY DEF Continue, Silent

LEMMA CallsSilent ==
  ASSUME RunInvariant,
         \/ \E at \in MeteredCalls : PortFails(at) \/ PortOverspends(at)
         \/ \E p \in Ports : ClaimFails(p)
  PROVE  Silent
  <1>1. Metering(ledger) BY LedgerMeters
  <1>2. \A u \in PortUsages \cup {Null} : Observed(ledger, u).results = ledger.results
    BY <1>1, ObservedQuiet DEF Calm, Quiet
  <1>3. \A u \in PortUsages : RecordUsage(ledger, u).results = ledger.results
    BY <1>1, UsageAssumption, RecordQuiet DEF Calm, Quiet
  <1>4. \/ \E u \in PortUsages \cup {Null} : Finish(Observed(ledger, u), "failed")
        \/ \E u \in PortUsages : Finish(RecordUsage(ledger, u), "blocked")
    BY DEF PortFails, PortOverspends, ClaimFails
  <1>5. QED BY <1>2, <1>3, <1>4, FinishSilent

LEMMA ReturnedSilent ==
  ASSUME RunInvariant,
         \/ PlanBadDigest \/ PlanUnapproved \/ PlanApproved
         \/ AgentCancels \/ AgentFinishes \/ VerifyReturns
  PROVE  Silent
  <1>1. Metering(ledger) BY LedgerMeters
  <1>2. PICK u \in PortUsages :
          LET l == RecordUsage(ledger, u)
              p == PlanLedger(l)
          IN \/ Finish(l, "failed") \/ Finish(l, "blocked")
             \/ BlockedFromDecision(p, PlanDecision)
             \/ Continue(Transition(p, "executing"), "step")
             \/ Finish(Interrupt(l), "interrupted")
             \/ Continue(Transition(l, "verifying"), "verify")
             \/ \E rep \in Reports : \/ Finish(VerificationLedger(l, rep), "blocked")
                                     \/ Continue(VerificationLedger(l, rep), "check")
    <2>1. CASE PlanBadDigest \/ PlanUnapproved \/ PlanApproved
      BY <2>1 DEF PlanBadDigest, PlanUnapproved, PlanApproved
    <2>2. CASE AgentCancels \/ AgentFinishes BY <2>2 DEF AgentCancels, AgentFinishes
    <2>3. CASE VerifyReturns
      BY <2>3 DEF VerifyReturns, ReportDiscarded, ReportRejected, ReportAccepted
    <2>4. QED BY <2>1, <2>2, <2>3
  <1> DEFINE l == RecordUsage(ledger, u)
             p == PlanLedger(l)
  <1>3. Metering(l) /\ l.results = ledger.results
    BY <1>1, UsageAssumption, RecordQuiet, QuietMeters DEF Calm, Quiet
  <1>4. \/ Finish(l, "failed") \/ Finish(l, "blocked")
        \/ BlockedFromDecision(p, PlanDecision)
        \/ Continue(Transition(p, "executing"), "step")
        \/ Finish(Interrupt(l), "interrupted")
        \/ Continue(Transition(l, "verifying"), "verify")
        \/ \E rep \in Reports : \/ Finish(VerificationLedger(l, rep), "blocked")
                                \/ Continue(VerificationLedger(l, rep), "check")
    BY <1>2
  <1> HIDE DEF l
  <1>5. p.results = l.results /\ \A to : Transition(p, to).results = l.results
    BY <1>3, PlanQuiet DEF Calm, Quiet
  <1>6. /\ Interrupt(l).results = l.results
        /\ Transition(l, "verifying").results = l.results
        /\ \A rep : VerificationLedger(l, rep).results = l.results
    BY <1>3, InterruptQuiet, TransitionQuiet, VerificationQuiet DEF Calm, Quiet
  <1> HIDE DEF p
  <1>7. CASE BlockedFromDecision(p, PlanDecision)
    BY <1>3, <1>5, <1>7, FinishSilent DEF BlockedFromDecision
  <1>8. QED BY <1>3, <1>4, <1>5, <1>6, <1>7, FinishSilent, ContinueSilent

LEMMA CompletionSilent ==
  ASSUME RunInvariant, CheckReturns \/ \E p \in Ports : ClaimGranted(p)
  PROVE  Silent
  <1>1. Metering(ledger) BY LedgerMeters
  <1>2. ASSUME NEW l, Metering(l) PROVE CompletionLedger(l).results = l.results
    <2> DEFINE g == CompletionDecision(l)
               yes == TRUE
               k == Decide(l, CompletionId, "workflow", l.current, g, yes)
    <2>1. CompletionLedger(l) = k BY DEF CompletionLedger
    <2> HIDE DEF g, yes
    <2>2. Untaken(k, l) BY <1>2, DecideTaken
    <2>3. QED BY <2>1, <2>2 DEF Untaken
  <1>3. \A u \in PortUsages :
          /\ RecordUsage(ledger, u).results = ledger.results
          /\ Metering(RecordUsage(ledger, u))
    BY <1>1, UsageAssumption, RecordQuiet, QuietMeters DEF Calm, Quiet
  <1>4. CASE CheckReturns
    <2>1. PICK u \in PortUsages :
            \/ Continue(RecordUsage(ledger, u), "claim_agent")
            \/ Finish(CompletionLedger(RecordUsage(ledger, u)), "blocked")
      BY <1>4 DEF CheckReturns
    <2>2. QED BY <1>2, <1>3, <2>1, FinishSilent, ContinueSilent
  <1>5. CASE \E p \in Ports : ClaimGranted(p)
    <2>1. \/ Continue(ledger, "claim_executor")
          \/ Finish(CompletionLedger(ledger), "completed")
      BY <1>5 DEF ClaimGranted
    <2>2. QED BY <1>1, <1>2, <2>1, FinishSilent, ContinueSilent
  <1>6. QED BY <1>4, <1>5

LEMMA OtherwiseSilent ==
  ASSUME RunInvariant,
         \/ RejectRun \/ AcceptRun \/ ExecuteUnsealable \/ Seal \/ Close
         \/ \E p \in Ports : ClaimRefused(p) \/ ObserveCancelled(p) \/ ObserveNothing(p)
         \/ \E k \in Cells : Cancel(k)
         \/ Terminated
  PROVE  Silent
  <1>1. Metering(ledger) BY LedgerMeters
  <1>2. CASE RejectRun \/ ExecuteUnsealable
    BY <1>2 DEF RejectRun, ExecuteUnsealable, Fail, Silent
  <1>3. CASE AcceptRun
    <2>1. Transition(ledger, "planning").results = ledger.results
      BY <1>1, TransitionQuiet DEF Calm, Quiet
    <2>2. QED BY <1>3, <2>1, ContinueSilent DEF AcceptRun
  <1>4. CASE Seal
    <2>1. Calm(UsageEvent(ledger), ledger) BY <1>1, UsageEventQuiet
    <2>2. Metering(UsageEvent(ledger)) BY <2>1, QuietMeters DEF Calm
    <2>3. Calm(SealedLedger(ledger, ending), UsageEvent(ledger))
      BY <2>2, TransitionQuiet DEF SealedLedger
    <2>4. QED BY <1>4, <2>1, <2>3 DEF Seal, Calm, Quiet, Silent
  <1>5. CASE Close BY <1>5, ContinueSilent DEF Close
  <1>6. CASE \E p \in Ports : ClaimRefused(p) \/ ObserveCancelled(p) \/ ObserveNothing(p)
    <2>1. Interrupt(ledger).results = ledger.results BY <1>1, InterruptQuiet DEF Quiet
    <2>2. QED BY <1>6, <2>1, FinishSilent, ContinueSilent
            DEF ClaimRefused, ObserveCancelled, ObserveNothing
  <1>7. CASE (\E k \in Cells : Cancel(k)) \/ Terminated
    BY <1>7 DEF Cancel, Terminated, vars, engine, Silent
  <1>8. QED BY <1>2, <1>3, <1>4, <1>5, <1>6, <1>7

(* A step that records the result of an effect that was not executed.      *)
Declined == ledger'.results # ledger.results => Pushed.status \in NotExecuted

LEMMA RefuseRecords ==
  ASSUME RunInvariant, NEW l, Metering(l), l.results = ledger.results, NEW e, NEW gate,
         NEW decision, NEW intact, Refuse(l, e, gate, decision, intact)
  PROVE  Declined
  <1> DEFINE b == NonExecutionBody(l, e, gate, decision, intact)
             s == b.status
             q == PushResult(l, e, s)
             k == IF decision.outcome = "ask" THEN Transition(q, "awaiting_authority") ELSE q
  <1>1. CASE Fail("result_error") BY <1>1 DEF Fail, Declined
  <1>2. CASE BlockedFromDecision(q, decision)
    <2>1. ledger' = k BY <1>2 DEF BlockedFromDecision, Finish
    <2>2. s \in NotExecuted BY DEF NonExecutionBody, NonExecutionStatus, NotExecuted
    <2> HIDE DEF s
    <2>3. Metering(q) /\ q.results = Append(ledger.results, [effect |-> e, status |-> s])
      BY PushTaken
    <2> HIDE DEF q
    <2>4. Transition(q, "awaiting_authority").results = q.results
      BY <2>3, TransitionQuiet DEF Calm, Quiet
    <2>5. ledger'.results = Append(ledger.results, [effect |-> e, status |-> s])
      BY <2>1, <2>3, <2>4
    <2>6. Pushed.status = s BY <2>5, LedgerShape, PushedRecord
    <2>7. QED BY <2>2, <2>6 DEF Declined
  <1>3. QED BY <1>1, <1>2 DEF Refuse

LEMMA DeclineRecords ==
  ASSUME RunInvariant, NEW l, Metering(l), l.results = ledger.results, NEW e, NEW gate,
         NEW decision, NEW intact, Decline(l, e, gate, decision, intact)
  PROVE  Declined
  <1> DEFINE k == Decide(l, DecisionId(l), gate, e, decision, intact)
  <1>1. Untaken(k, l) BY DecideTaken
  <1>2. Refuse(k, e, gate, decision, intact) BY DEF Decline
  <1> HIDE DEF k
  <1>3. QED BY <1>1, <1>2, RefuseRecords DEF Untaken

LEMMA ProposeRecords ==
  ASSUME RunInvariant, Propose PROVE Declined
  <1>1. PICK e \in Effects, u \in PortUsages :
          LET h == RecordUsage(ledger, u)
          IN \/ ProposeInvalid(e, u, h) \/ ProposeStale(e, u, h)
             \/ ProposeInadmissible(e, u, h) \/ ProposeUnaffordable(e, u, h)
             \/ GateStops(e, u, h) \/ Dispatch(e, u, h)
    BY DEF Propose
  <1> DEFINE h == RecordUsage(ledger, u)
  <1>2. PortReturns("step", u)
    BY <1>1 DEF ProposeInvalid, ProposeStale, ProposeInadmissible, ProposeUnaffordable,
                GateStops, Dispatch, Admitted
  <1>3. Metering(h) /\ h.results = ledger.results BY <1>2, ReturnsCalm DEF Quiet
  <1>4. Sound(h)
    <2>1. EngineInvariant BY DEF RunInvariant
    <2>2. QED BY <1>2, <2>1, ProposalLedger
  <1>5. \/ ProposeInvalid(e, u, h) \/ ProposeStale(e, u, h)
        \/ ProposeInadmissible(e, u, h) \/ ProposeUnaffordable(e, u, h)
        \/ GateStops(e, u, h) \/ Dispatch(e, u, h)
    BY <1>1
  <1> HIDE DEF h
  <1>6. CASE ProposeInvalid(e, u, h)
    BY <1>3, <1>6, FinishSilent DEF ProposeInvalid, Silent, Declined
  <1>7. CASE ProposeStale(e, u, h) \/ ProposeInadmissible(e, u, h)
               \/ ProposeUnaffordable(e, u, h)
    <2>1. PICK code, gate : Decline(h, e, gate, Block(code), TRUE)
      BY <1>7 DEF ProposeStale, ProposeInadmissible, ProposeUnaffordable
    <2> DEFINE d == Block(code)
    <2>2. Decline(h, e, gate, d, TRUE) BY <2>1
    <2> HIDE DEF d
    <2>3. QED BY <1>3, <2>2, DeclineRecords
  <1>8. CASE GateStops(e, u, h)
    <2>1. PICK i \in 1..4 :
            Refuse(LedgerThrough(config, h, e, GateOrder[i]), e, GateOrder[i],
                   GateDecision(config, h, e, GateOrder[i]), TRUE)
      BY <1>8 DEF GateStops
    <2> DEFINE gate == GateOrder[i]
               l == LedgerThrough(config, h, e, gate)
               d == GateDecision(config, h, e, gate)
               yes == TRUE
    <2>2. gate \in EffectGates BY DEF GateOrder, EffectGates
    <2>3. Refuse(l, e, gate, d, yes) BY <2>1
    <2> HIDE DEF gate
    <2>4. \E ns : Judged(l, h, e, ns) BY <1>4, <2>2, ThroughJudged
    <2> HIDE DEF l, d, yes
    <2>5. Metering(l) /\ l.results = ledger.results BY <1>3, <2>4 DEF Judged, Untaken
    <2>6. QED BY <2>3, <2>5, RefuseRecords
  <1>9. CASE Dispatch(e, u, h)
    <2> DEFINE l == GatedLedger(config, h, e)
    <2>1. Continue(l, "execute") /\ GatesPass(config, h, e) BY <1>9 DEF Dispatch
    <2>2. \E ns : Judged(l, h, e, ns) BY <1>4, <2>1, GatedJudged
    <2> HIDE DEF l
    <2>3. l.results = ledger.results BY <1>3, <2>2 DEF Judged, Untaken
    <2>4. QED BY <2>1, <2>3, ContinueSilent DEF Silent, Declined
  <1>10. QED BY <1>5, <1>6, <1>7, <1>8, <1>9

LEMMA ExecuteDeclinedRecords ==
  ASSUME RunInvariant, ExecuteNotDispatched \/ ExecuteDeclines PROVE Declined
  <1>1. Metering(ledger) BY LedgerMeters
  <1>2. \A u \in PortUsages \cup {Null} :
          Metering(Observed(ledger, u)) /\ Observed(ledger, u).results = ledger.results
    BY <1>1, ObservedQuiet, QuietMeters DEF Calm, Quiet
  <1>3. \A o \in Observations :
          /\ Metering(RecordUsage(ledger, o.usage))
          /\ RecordUsage(ledger, o.usage).results = ledger.results
    <2> SUFFICES ASSUME NEW o \in Observations
                 PROVE  /\ Metering(RecordUsage(ledger, o.usage))
                        /\ RecordUsage(ledger, o.usage).results = ledger.results
      OBVIOUS
    <2>1. o.usage \in Usage BY ObservationAssumption
    <2>2. QED BY <1>1, <2>1, RecordQuiet, QuietMeters DEF Calm, Quiet
  <1>4. CASE ExecuteNotDispatched
    <2>1. PICK u \in PortUsages \cup {Null}, blank \in BOOLEAN :
            Decline(Observed(ledger, u), pending.effect, "permission",
                    Block("executor.not_dispatched"), ~blank)
      BY <1>4 DEF ExecuteNotDispatched
    <2> DEFINE d == Block("executor.not_dispatched")
               g == "permission"
               intact == ~blank
    <2>2. Decline(Observed(ledger, u), pending.effect, g, d, intact) BY <2>1
    <2> HIDE DEF d, g, intact
    <2>3. QED BY <1>2, <2>2, DeclineRecords
  <1>5. CASE ExecuteDeclines
    <2>1. PICK o \in Observations :
            Decline(RecordUsage(ledger, o.usage), pending.effect, "permission",
                    ExecutorDecision(o), TRUE)
      BY <1>5 DEF ExecuteDeclines
    <2> DEFINE d == ExecutorDecision(o)
               g == "permission"
               yes == TRUE
    <2>2. Decline(RecordUsage(ledger, o.usage), pending.effect, g, d, yes) BY <2>1
    <2> HIDE DEF d, g, yes
    <2>3. QED BY <1>3, <2>2, DeclineRecords
  <1>6. QED BY <1>4, <1>5

(* An attempt leaves the body it has sealed.                               *)
LEMMA AttemptRecords ==
  ASSUME RunInvariant, NEW b \in AttemptBodies, ValidResult(pending.effect, b),
         NEW h, Metering(h), h.results = ledger.results,
         h.usage = CappedUsage(ledger.usage, b.usage),
         IF b.post # Null /\ pending.effect.class = "mutation"
           THEN h.current = b.post /\ h.log.lastMutation # ledger.log.lastMutation
           ELSE h.log.lastMutation = ledger.log.lastMutation,
         ledger' = PushResult(h, pending.effect, b.status)
  PROVE  SealedBodies # {}
  <1> DEFINE s == b.status
             k == PushResult(h, pending.effect, s)
  <1>1. ledger' = k OBVIOUS
  <1> HIDE DEF s
  <1>2. /\ k.log = h.log /\ k.current = h.current /\ k.usage = h.usage
        /\ k.results = Append(ledger.results, [effect |-> pending.effect, status |-> s])
    BY PushTaken
  <1> HIDE DEF k
  <1>3. Pushed.effect = pending.effect /\ Pushed.status = s
    BY <1>1, <1>2, LedgerShape, PushedRecord
  <1>4. /\ ledger'.usage = CappedUsage(ledger.usage, b.usage)
        /\ Mutated <=> b.post # Null /\ pending.effect.class = "mutation"
        /\ Mutated => ledger'.current = b.post
    BY <1>1, <1>2 DEF Mutated
  <1>5. b \in SealedBodies BY <1>3, <1>4 DEF SealedBodies, s
  <1>6. QED BY <1>5

LEMMA ExecuteLostRecords == ASSUME RunInvariant, ExecuteLost PROVE SealedBodies # {}
  <1>1. PICK u \in PortUsages \cup {Null}, ev \in LostEvidence :
          LET b == LostBody(ledger, pending.effect, u, ev)
              l == ToolExecution(ledger, pending.permission, pending.effect)
          IN /\ ValidResult(pending.effect, b)
             /\ ledger' = PushResult(RecordUsage(l, b.usage), pending.effect, b.status)
    BY DEF ExecuteLost, Finish
  <1> DEFINE b == LostBody(ledger, pending.effect, u, ev)
             h == RecordUsage(ToolExecution(ledger, pending.permission, pending.effect), b.usage)
  <1>2. b \in AttemptBodies /\ b.post = Null
    <2>1. b \in AttemptBodies BY DEF AttemptBodies
    <2>2. b.post = Null BY DEF LostBody, AttemptBody
    <2>3. QED BY <2>1, <2>2
  <1>3. /\ ValidResult(pending.effect, b)
        /\ ledger' = PushResult(h, pending.effect, b.status)
    BY <1>1
  <1> HIDE DEF b
  <1>4. b.usage \in Usage BY <1>2, BodyFacts
  <1>5. Calm(h, ledger) /\ Metering(h) /\ h.usage = CappedUsage(ledger.usage, b.usage)
    BY <1>4, LedgerMeters, LostTaken
  <1> HIDE DEF h
  <1>6. h.results = ledger.results /\ h.log.lastMutation = ledger.log.lastMutation
    BY <1>5 DEF Calm, Quiet
  <1>7. QED BY <1>2, <1>3, <1>5, <1>6, AttemptRecords

(* With or without the interruption the executor reports.                  *)
LEMMA AttemptLedgerRecords ==
  ASSUME RunInvariant, pc = "execute", NEW b \in AttemptBodies,
         ValidResult(pending.effect, b),
         LET h == AttemptLedger(ledger, pending, b)
         IN \/ ledger' = PushResult(h, pending.effect, b.status)
            \/ ledger' = PushResult(Interrupt(h), pending.effect, b.status)
  PROVE  SealedBodies # {}
  <1> DEFINE h == AttemptLedger(ledger, pending, b)
             g == Interrupt(h)
  <1>1. b.usage \in Usage BY BodyFacts
  <1>2. Sound(ledger) BY PendingFacts DEF RunInvariant
  <1>3. Metering(ledger) BY LedgerMeters
  <1>4. /\ ledger.log.seq \in Nat /\ ledger.log.lastMutation \in Nat
        /\ ledger.log.lastMutation <= ledger.log.seq
    BY <1>2 DEF Sound, LedgerRecord, LogRecord
  <1>5. /\ Metering(h) /\ h.results = ledger.results
        /\ h.usage = CappedUsage(ledger.usage, b.usage)
        /\ IF b.post # Null /\ pending.effect.class = "mutation"
             THEN h.current = b.post /\ h.log.lastMutation # ledger.log.lastMutation
             ELSE h.log.lastMutation = ledger.log.lastMutation
    BY <1>1, <1>3, <1>4, AttemptTaken
  <1>6. \/ ledger' = PushResult(h, pending.effect, b.status)
        \/ ledger' = PushResult(g, pending.effect, b.status)
    OBVIOUS
  <1> HIDE DEF h
  <1>7. Quiet(g, h) /\ g.usage = h.usage /\ Metering(g)
    BY <1>5, InterruptQuiet, InterruptFrame, QuietMeters DEF Metering
  <1> HIDE DEF g
  <1>8. /\ g.results = ledger.results /\ g.current = h.current
        /\ g.log.lastMutation = h.log.lastMutation
    BY <1>5, <1>7 DEF Quiet
  <1>9. CASE ledger' = PushResult(h, pending.effect, b.status)
    BY <1>5, <1>9, AttemptRecords
  <1>10. CASE ledger' = PushResult(g, pending.effect, b.status)
    BY <1>5, <1>7, <1>8, <1>10, AttemptRecords
  <1>11. QED BY <1>6, <1>9, <1>10

LEMMA ExecuteReportedRecords ==
  ASSUME RunInvariant, ExecuteUntrusted \/ ExecuteReturns PROVE SealedBodies # {}
  <1>1. CASE ExecuteUntrusted
    <2>1. PICK o \in Observations : \E kept \in KeptEvidence(Floored(o)) :
            LET b == UntrustedBody(ledger, pending.effect, Floored(o), kept)
            IN /\ Untrusted(o) /\ ValidResult(pending.effect, b)
               /\ ledger' = PushResult(AttemptLedger(ledger, pending, b), pending.effect,
                                       b.status)
      BY <1>1 DEF ExecuteUntrusted, Finish
    <2>2. PICK kept \in KeptEvidence(Floored(o)) :
            LET b == UntrustedBody(ledger, pending.effect, Floored(o), kept)
            IN /\ Untrusted(o) /\ ValidResult(pending.effect, b)
               /\ ledger' = PushResult(AttemptLedger(ledger, pending, b), pending.effect,
                                       b.status)
      BY <2>1
    <2> DEFINE b == UntrustedBody(ledger, pending.effect, Floored(o), kept)
    <2>3. b \in AttemptBodies BY <2>2 DEF AttemptBodies
    <2>4. /\ ValidResult(pending.effect, b)
          /\ ledger' = PushResult(AttemptLedger(ledger, pending, b), pending.effect, b.status)
      BY <2>2
    <2>5. pc = "execute" BY <1>1 DEF ExecuteUntrusted
    <2> HIDE DEF b
    <2>6. QED BY <2>3, <2>4, <2>5, AttemptLedgerRecords
  <1>2. CASE ExecuteReturns
    <2>1. PICK o \in Observations :
            LET b == ObservedBody(ledger, pending.effect, Floored(o))
                h == AttemptLedger(ledger, pending, b)
            IN /\ o.status \in Attempted /\ ~Untrusted(o) /\ ValidResult(pending.effect, b)
               /\ CASE b.status = "executed"
                         /\ ~(UsageReason(ledger, b.usage, config.budget) # "none") ->
                         Continue(PushResult(h, pending.effect, b.status), "step")
                    [] b.status = "executed"
                         /\ UsageReason(ledger, b.usage, config.budget) # "none" ->
                         Finish(PushResult(h, pending.effect, b.status), "blocked")
                    [] b.status = "interrupted" ->
                         Finish(PushResult(Interrupt(h), pending.effect, b.status),
                                "interrupted")
                    [] b.status \in {"failed", "unknown_outcome"} ->
                         Finish(PushResult(h, pending.effect, b.status), "failed")
      BY <1>2 DEF ExecuteReturns
    <2> DEFINE b == ObservedBody(ledger, pending.effect, Floored(o))
               h == AttemptLedger(ledger, pending, b)
               overspent == UsageReason(ledger, b.usage, config.budget) # "none"
    <2>2. b \in AttemptBodies BY <2>1 DEF AttemptBodies
    <2>3. b.status \in Attempted
      <3>1. o \in [status : Statuses, post : Subjects \cup {Null, Malformed},
                   exit : {Null, Malformed, "code"}, usage : Usage,
                   executor : {Null, Malformed, Configured, "other"},
                   sandbox : {"requested", "other"}, reason : {Null, "blank", "text"},
                   evidence : SUBSET EvidenceTypes, evidenceIntact : BOOLEAN]
        BY ObservationAssumption
      <3>2. b.status = Floored(o).status BY DEF ObservedBody, AttemptBody
      <3>3. Floored(o).status = o.status BY <3>1 DEF Floored
      <3>4. QED BY <2>1, <3>2, <3>3
    <2>4. ValidResult(pending.effect, b) /\ pc = "execute"
      BY <1>2, <2>1 DEF ExecuteReturns
    <2>5. \/ ledger' = PushResult(h, pending.effect, b.status)
          \/ ledger' = PushResult(Interrupt(h), pending.effect, b.status)
      <3>1. /\ b.status = "executed" /\ ~overspent =>
                 Continue(PushResult(h, pending.effect, b.status), "step")
            /\ b.status = "executed" /\ overspent =>
                 Finish(PushResult(h, pending.effect, b.status), "blocked")
            /\ b.status = "interrupted" =>
                 Finish(PushResult(Interrupt(h), pending.effect, b.status), "interrupted")
            /\ b.status \in {"failed", "unknown_outcome"} =>
                 Finish(PushResult(h, pending.effect, b.status), "failed")
        BY <2>1
      <3> HIDE DEF b, h, overspent
      <3>2. QED BY <2>3, <3>1 DEF Attempted, Finish, Continue
    <2> HIDE DEF b
    <2>6. QED BY <2>2, <2>4, <2>5, AttemptLedgerRecords
  <1>3. QED BY <1>1, <1>2

LEMMA RecordsFound ==
  ASSUME RunInvariant, [Next]_vars, ledger'.results # ledger.results
  PROVE  EffectRecords # {}
  <1>1. CASE Pushed.status \in NotExecuted BY <1>1 DEF EffectRecords
  <1>2. CASE Pushed.status \notin NotExecuted
    <2>1. ~Declined /\ ~Silent BY <1>2 DEF Declined, Silent
    <2>2. ~(UNCHANGED vars) BY DEF vars, engine
    <2>3. ExecuteLost \/ ExecuteUntrusted \/ ExecuteReturns
      <3>1. {"plan", "step", "verify", "check"} = MeteredCalls BY DEF MeteredCalls
      <3>2. QED
        BY <2>1, <2>2, <3>1, CallsSilent, ReturnedSilent, CompletionSilent, OtherwiseSilent,
           ProposeRecords, ExecuteDeclinedRecords
           DEF Next, EngineStep, PlanFails, PlanOverspends, StepFails, StepOverspends,
               VerifyFails, VerifyOverspends, CheckFails, CheckOverspends
    <2>4. SealedBodies # {} BY <2>3, ExecuteLostRecords, ExecuteReportedRecords
    <2>5. QED BY <1>2, <2>4 DEF EffectRecords
  <1>3. QED BY <1>1, <1>2

(* Whatever the engine does, the evidence has a record for it: evidence    *)
(* stops no step, and what is proved of the attested runs holds of every   *)
(* run of AgentRunEngine.                                                  *)
THEOREM EvidenceFollows ==
  Spec => [][ledger'.results # ledger.results => EffectRecords # {}]_vars
  <1> DEFINE A == ledger'.results # ledger.results => EffectRecords # {}
  <1>1. RunInvariant /\ [Next]_vars => [A]_vars BY RecordsFound
  <1> HIDE DEF A
  <1>2. Spec => [][A]_vars BY <1>1, RunCorrect, PTL DEF Spec
  <1>3. QED BY <1>2 DEF A

=============================================================================
