--------------------------- MODULE RegFileProofs ---------------------------
(***************************************************************************)
(* Lemmas about the operations on the register file, for every set of      *)
(* names and every size of the files: renaming, writing, committing and    *)
(* undoing uops in the order the core does keep account of every physical  *)
(* register, and none of the code's assertions fails.                      *)
(***************************************************************************)
EXTENDS RegFile, Integers, SequencesExt, Functions, FiniteSetTheorems, SequenceTheorems,
        WellFoundedInduction, TLAPS

(***************************************************************************)
(* Induction and folds                                                     *)
(***************************************************************************)

\* A set of natural numbers that is not empty has a least element.
LEMMA LeastNat ==
  ASSUME NEW T, T \subseteq Nat, T # {}
  PROVE  \E x \in T : \A y \in T : x <= y
PROOF
  <1> DEFINE R == OpToRel(<, Nat)
  <1>1. IsWellFoundedOn(R, Nat)
    BY NatLessThanWellFounded
  <1>2. \A x, y \in Nat : x < y => <<x, y>> \in R
    BY DEF OpToRel
  <1> HIDE DEF R
  <1>3. PICK x \in T : \A y \in T : <<y, x>> \notin R
    BY <1>1, WFMin
  <1>4. ASSUME NEW y \in T, ~(x <= y)
        PROVE  FALSE
    <2>1. x \in Nat /\ y \in Nat /\ y < x
      BY <1>4
    <2>2. <<y, x>> \in R
      BY <1>2, <2>1
    <2> QED BY <1>3, <1>4, <2>2
  <1> QED BY <1>4

\* What holds of 0 and of k when it holds of k - 1 holds up to n: induction
\* over the members of a set.
LEMMA UpTo ==
  ASSUME NEW n \in Nat, NEW S, 0 \in S, \A k \in 1 .. n : k - 1 \in S => k \in S
  PROVE  \A k \in 0 .. n : k \in S
PROOF
  <1>1. SUFFICES ASSUME NEW j \in 0 .. n, j \notin S
                 PROVE  FALSE
    OBVIOUS
  <1> DEFINE T == {k \in 0 .. n : k \notin S}
  <1>2. T \subseteq Nat /\ T # {}
    BY <1>1
  <1>3. PICK x \in T : \A y \in T : x <= y
    BY <1>2, LeastNat
  <1>4. x \in 1 .. n /\ x - 1 \notin T
    BY <1>3
  <1>5. x - 1 \in S
    BY <1>4
  <1> QED BY <1>4, <1>5

\* A function of the sets of numbers up to n that adding a number above the
\* others to a set takes a step further.
BuiltUp(n, D, base, step, g) ==
  /\ g \in [SUBSET (1 .. n) -> D]
  /\ g[{}] = base
  /\ \A k \in 1 .. n : \A s \in SUBSET (1 .. (k - 1)) : g[s \cup {k}] = step[k][g[s]]

\* Such a function there is.
LEMMA FromBelow ==
  ASSUME NEW n \in Nat, NEW D, NEW base \in D, NEW step \in [1 .. n -> [D -> D]]
  PROVE  \E g : BuiltUp(n, D, base, step, g)
PROOF
  <1> DEFINE S == {m \in 0 .. n : \E g : BuiltUp(m, D, base, step, g)}
  <1>1. 0 \in S
    <2> DEFINE g == [s \in SUBSET (1 .. 0) |-> base]
    <2>1. BuiltUp(0, D, base, step, g)
      BY DEF BuiltUp
    <2> HIDE DEF g
    <2> QED BY <2>1
  <1>2. ASSUME NEW m \in 1 .. n, m - 1 \in S
        PROVE  m \in S
    <2>1. PICK g : BuiltUp(m - 1, D, base, step, g)
      BY <1>2
    <2> DEFINE h == [s \in SUBSET (1 .. m) |-> IF m \in s THEN step[m][g[s \ {m}]] ELSE g[s]]
    <2>2. ASSUME NEW s \in SUBSET (1 .. m)
          PROVE  (m \in s => s \ {m} \in SUBSET (1 .. (m - 1))) /\ (m \notin s => s \in SUBSET (1 .. (m - 1)))
      OBVIOUS
    <2>3. h \in [SUBSET (1 .. m) -> D]
      <3>1. ASSUME NEW s \in SUBSET (1 .. m)
            PROVE  h[s] \in D
        <4>1. CASE m \in s
          BY <2>1, <2>2, <4>1 DEF BuiltUp
        <4>2. CASE m \notin s
          BY <2>1, <2>2, <4>2 DEF BuiltUp
        <4> QED BY <4>1, <4>2
      <3> QED BY <3>1
    <2>4. h[{}] = base
      BY <2>1 DEF BuiltUp
    <2>5. ASSUME NEW k \in 1 .. m, NEW s \in SUBSET (1 .. (k - 1))
          PROVE  h[s \cup {k}] = step[k][h[s]]
      <3>1. s \in SUBSET (1 .. m) /\ s \cup {k} \in SUBSET (1 .. m) /\ m \notin s
        BY <2>5
      <3>2. h[s] = g[s]
        BY <3>1
      <3>3. CASE k = m
        <4>1. (s \cup {k}) \ {m} = s
          BY <3>1, <3>3
        <4>2. h[s \cup {k}] = step[m][g[(s \cup {k}) \ {m}]]
          BY <3>1, <3>3
        <4> QED BY <3>2, <3>3, <4>1, <4>2
      <3>4. CASE k # m
        <4>1. k \in 1 .. (m - 1) /\ m \notin s \cup {k}
          BY <3>1, <3>4
        <4>2. h[s \cup {k}] = g[s \cup {k}]
          BY <3>1, <4>1
        <4> QED BY <2>1, <3>2, <4>1, <4>2 DEF BuiltUp
      <3> QED BY <3>3, <3>4
    <2> HIDE DEF h
    <2>6. BuiltUp(m, D, base, step, h)
      BY <2>3, <2>4, <2>5 DEF BuiltUp
    <2> QED BY <2>6
  <1> HIDE DEF S
  <1>3. \A k \in 0 .. n : k \in S
    BY <1>1, <1>2, UpTo
  <1>4. n \in S
    BY <1>3
  <1> QED BY <1>4 DEF S

\* The values a function takes from base in n steps.
Chain(h, n, D, base, step) ==
  /\ h \in [0 .. n -> D]
  /\ h[0] = base
  /\ \A k \in 1 .. n : h[k] = step[k][h[k - 1]]

\* f, at the numbers up to k, is what the kth step makes of f at the numbers
\* below.
Follows(f, n, D, step) ==
  \A k \in 1 .. n : f[1 .. (k - 1)] \in D => f[1 .. k] = step[k][f[1 .. (k - 1)]]

\* f at all of them is what n steps make of base.
Reached(n, D, base, step, f) == \E h : Chain(h, n, D, base, step) /\ h[n] = f[1 .. n]

\* ... whose values for the first of them are those of the steps.
LEMMA StepByStep ==
  ASSUME NEW n \in Nat, NEW D, NEW base \in D, NEW step \in [1 .. n -> [D -> D]],
         NEW f, f[{}] = base, Follows(f, n, D, step)
  PROVE  Reached(n, D, base, step, f)
PROOF
  <1> DEFINE S == {k \in 0 .. n : f[1 .. k] \in D}
             h == [k \in 0 .. n |-> f[1 .. k]]
  <1>1. 0 \in S /\ f[1 .. 0] = base
    <2>1. 1 .. 0 = {}
      OBVIOUS
    <2> QED BY <2>1
  <1>2. ASSUME NEW k \in 1 .. n, k - 1 \in S
        PROVE  k \in S
    BY <1>2 DEF Follows
  <1>3. \A k \in 0 .. n : k \in S
    <2> HIDE DEF S
    <2> QED BY <1>1, <1>2, UpTo
  <1>4. h \in [0 .. n -> D]
    BY <1>3
  <1>5. \A k \in 1 .. n : h[k] = step[k][h[k - 1]]
    BY <1>3 DEF Follows
  <1>6. h[0] = base /\ h[n] = f[1 .. n]
    BY <1>1
  <1> HIDE DEF h
  <1>7. Chain(h, n, D, base, step)
    BY <1>4, <1>5, <1>6 DEF Chain
  <1> QED BY <1>6, <1>7 DEF Reached

\* The same from the greatest down.
BuiltDown(n, D, base, step, g) ==
  /\ g \in [SUBSET (1 .. n) -> D]
  /\ g[{}] = base
  /\ \A k \in 1 .. n : \A s \in SUBSET ((k + 1) .. n) : g[s \cup {k}] = step[k][g[s]]

\* Such a function there is.
LEMMA FromAbove ==
  ASSUME NEW n \in Nat, NEW D, NEW base \in D, NEW step \in [1 .. n -> [D -> D]]
  PROVE  \E g : BuiltDown(n, D, base, step, g)
PROOF
  <1> DEFINE Mirror(s) == {n + 1 - i : i \in s}
             back == [k \in 1 .. n |-> step[n + 1 - k]]
  <1>1. back \in [1 .. n -> [D -> D]]
    OBVIOUS
  <1>2. PICK g : BuiltUp(n, D, base, back, g)
    <2> HIDE DEF back
    <2> QED BY <1>1, FromBelow
  <1> DEFINE h == [s \in SUBSET (1 .. n) |-> g[Mirror(s)]]
  <1>3. ASSUME NEW s \in SUBSET (1 .. n)
        PROVE  Mirror(s) \in SUBSET (1 .. n)
    <2>1. \A i \in s : n + 1 - i \in 1 .. n
      OBVIOUS
    <2> QED BY <2>1
  <1>4. h \in [SUBSET (1 .. n) -> D]
    <2> HIDE DEF Mirror
    <2> QED BY <1>2, <1>3 DEF BuiltUp
  <1>5. h[{}] = base
    <2>1. Mirror({}) = {}
      OBVIOUS
    <2>2. h[{}] = g[Mirror({})]
      OBVIOUS
    <2> HIDE DEF h, Mirror
    <2> QED BY <1>2, <2>1, <2>2 DEF BuiltUp
  <1>6. ASSUME NEW k \in 1 .. n, NEW s \in SUBSET ((k + 1) .. n)
        PROVE  h[s \cup {k}] = step[k][h[s]]
    <2>1. s \in SUBSET (1 .. n) /\ s \cup {k} \in SUBSET (1 .. n)
      BY <1>6
    <2>2. Mirror(s \cup {k}) = Mirror(s) \cup {n + 1 - k}
      OBVIOUS
    <2>3. n + 1 - k \in 1 .. n /\ Mirror(s) \in SUBSET (1 .. ((n + 1 - k) - 1))
      OBVIOUS
    <2>4. back[n + 1 - k] = step[k]
      <3>1. n + 1 - (n + 1 - k) = k
        OBVIOUS
      <3> QED BY <2>3, <3>1
    <2>5. h[s \cup {k}] = g[Mirror(s) \cup {n + 1 - k}] /\ h[s] = g[Mirror(s)]
      BY <2>1, <2>2
    <2> HIDE DEF h, Mirror, back
    <2> QED BY <1>2, <2>3, <2>4, <2>5 DEF BuiltUp
  <1> HIDE DEF h
  <1>7. BuiltDown(n, D, base, step, h)
    BY <1>4, <1>5, <1>6 DEF BuiltDown
  <1> QED BY <1>7

\* The values a function takes from base, from the last step to the first.
ChainDown(h, n, D, base, step) ==
  /\ h \in [0 .. n -> D]
  /\ h[n] = base
  /\ \A k \in 1 .. n : h[k - 1] = step[k][h[k]]

\* f, at the numbers from k, is what the kth step makes of f at the numbers
\* above.
FollowsDown(f, n, D, step) ==
  \A k \in 1 .. n : f[(k + 1) .. n] \in D => f[k .. n] = step[k][f[(k + 1) .. n]]

\* f at all of them is what the steps, last to first, make of base.
ReachedDown(n, D, base, step, f) == \E h : ChainDown(h, n, D, base, step) /\ h[0] = f[1 .. n]

\* ... whose value for all of them is that of the steps.
LEMMA StepDown ==
  ASSUME NEW n \in Nat, NEW D, NEW base \in D, NEW step \in [1 .. n -> [D -> D]],
         NEW f, f[{}] = base, FollowsDown(f, n, D, step)
  PROVE  ReachedDown(n, D, base, step, f)
PROOF
  <1> DEFINE S == {k \in 0 .. n : f[(n + 1 - k) .. n] \in D}
             h == [k \in 0 .. n |-> f[(k + 1) .. n]]
  <1>1. 0 \in S /\ f[(n + 1) .. n] = base
    <2>1. (n + 1) .. n = {} /\ n + 1 - 0 = n + 1
      OBVIOUS
    <2> QED BY <2>1
  <1>2. ASSUME NEW k \in 1 .. n, k - 1 \in S
        PROVE  k \in S
    <2>1. n + 1 - k \in 1 .. n /\ n + 1 - (k - 1) = (n + 1 - k) + 1
      OBVIOUS
    <2>2. f[((n + 1 - k) + 1) .. n] \in D
      BY <1>2, <2>1
    <2>3. f[(n + 1 - k) .. n] = step[n + 1 - k][f[((n + 1 - k) + 1) .. n]]
      BY <2>1, <2>2 DEF FollowsDown
    <2> QED BY <2>1, <2>2, <2>3
  <1>3. \A k \in 0 .. n : k \in S
    <2> HIDE DEF S
    <2> QED BY <1>1, <1>2, UpTo
  <1>4. \A k \in 1 .. (n + 1) : f[k .. n] \in D
    <2>1. ASSUME NEW k \in 1 .. (n + 1)
          PROVE  f[k .. n] \in D
      <3>1. n + 1 - k \in 0 .. n /\ n + 1 - (n + 1 - k) = k
        OBVIOUS
      <3>2. n + 1 - k \in S
        BY <1>3, <3>1
      <3> QED BY <3>1, <3>2
    <2> QED BY <2>1
  <1>5. ASSUME NEW k \in 1 .. n
        PROVE  h[k - 1] = step[k][h[k]]
    <2>1. h[k - 1] = f[k .. n] /\ h[k] = f[(k + 1) .. n]
      <3>1. k - 1 \in 0 .. n /\ (k - 1) + 1 = k /\ k \in 0 .. n
        OBVIOUS
      <3> QED BY <3>1
    <2>2. f[(k + 1) .. n] \in D
      BY <1>4
    <2> QED BY <2>1, <2>2 DEF FollowsDown
  <1>6. h[n] = base /\ h[0] = f[1 .. n]
    BY <1>1
  <1>7. h \in [0 .. n -> D]
    BY <1>4
  <1> HIDE DEF h
  <1>8. ChainDown(h, n, D, base, step)
    BY <1>5, <1>6, <1>7 DEF ChainDown
  <1> QED BY <1>6, <1>8 DEF ReachedDown

\* The greatest and the least of a set of numbers.
LEMMA MaxOfTop ==
  ASSUME NEW k \in Int, NEW s, s \subseteq Int, k \in s, \A i \in s : i <= k
  PROVE  Max(s) = k
PROOF
  <1>1. \E x \in s : \A y \in s : x >= y
    OBVIOUS
  <1>2. Max(s) \in s /\ \A y \in s : Max(s) >= y
    BY <1>1, Zenon DEF Max
  <1>3. Max(s) >= k /\ Max(s) <= k /\ Max(s) \in Int
    BY <1>2
  <1> QED BY <1>3

\* The least, as it is for MaxOfTop.
LEMMA MinOfBottom ==
  ASSUME NEW k \in Int, NEW s, s \subseteq Int, k \in s, \A i \in s : k <= i
  PROVE  Min(s) = k
PROOF
  <1>1. \E x \in s : \A y \in s : x <= y
    OBVIOUS
  <1>2. Min(s) \in s /\ \A y \in s : Min(s) <= y
    BY <1>1, Zenon DEF Min
  <1>3. Min(s) >= k /\ Min(s) <= k /\ Min(s) \in Int
    BY <1>2
  <1> QED BY <1>3

(***************************************************************************)
(* Registers and free lists, field by field                                *)
(***************************************************************************)

\* A register file whose map has values in R: at reset some names have no
\* register yet.
RegFileOver(R) ==
  [rat : [Logical -> R], free : [File -> Seq(Phys)], busy : [Phys -> Int],
   pending : [Phys -> BOOLEAN], top : 0 .. (StackDepth - 1), ok : BOOLEAN]

\* The register files of a running core.
RegFiles == RegFileOver(Phys)

\* A physical register is of a file, and NoReg is none.
LEMMA FileFacts ==
  ASSUME NEW p \in Phys
  PROVE  FileOf(p) \in File /\ p # NoReg
PROOF
  <1>1. PICK f \in File : p \in {f} \X (1..FileSize[f])
    BY DEF Phys
  <1> QED BY <1>1 DEF FileOf, NoReg

\* A record of a register file and its fields.
LEMMA RegFileRecord ==
  ASSUME NEW R, NEW rat \in [Logical -> R], NEW free \in [File -> Seq(Phys)], NEW busy \in [Phys -> Int],
         NEW pending \in [Phys -> BOOLEAN], NEW top \in 0 .. (StackDepth - 1), NEW ok \in BOOLEAN,
         NEW r, r = [rat |-> rat, free |-> free, busy |-> busy, pending |-> pending, top |-> top, ok |-> ok]
  PROVE  r \in RegFileOver(R)
PROOF
  BY DEF RegFileOver

\* ... and back.
LEMMA RegFileFields ==
  ASSUME NEW R, NEW r \in RegFileOver(R)
  PROVE  /\ r = [rat |-> r.rat, free |-> r.free, busy |-> r.busy, pending |-> r.pending, top |-> r.top, ok |-> r.ok]
         /\ r.rat \in [Logical -> R] /\ r.free \in [File -> Seq(Phys)] /\ r.busy \in [Phys -> Int]
         /\ r.pending \in [Phys -> BOOLEAN] /\ r.top \in 0 .. (StackDepth - 1) /\ r.ok \in BOOLEAN
PROOF
  BY DEF RegFileOver

\* A record with the fields of a register file, whatever they are.
HasFields(r) ==
  r = [rat |-> r.rat, free |-> r.free, busy |-> r.busy, pending |-> r.pending, top |-> r.top, ok |-> r.ok]

\* s has the fields of r but one.
SameBut(s, r, field) ==
  /\ HasFields(s)
  /\ field # "rat" => s.rat = r.rat
  /\ field # "free" => s.free = r.free
  /\ field # "busy" => s.busy = r.busy
  /\ field # "pending" => s.pending = r.pending
  /\ field # "top" => s.top = r.top
  /\ field # "ok" => s.ok = r.ok

\* Setting a field leaves the others.
LEMMA FieldSet ==
  ASSUME NEW r, HasFields(r), NEW x
  PROVE  /\ SameBut([r EXCEPT !.rat = x], r, "rat") /\ [r EXCEPT !.rat = x].rat = x
         /\ SameBut([r EXCEPT !.free = x], r, "free") /\ [r EXCEPT !.free = x].free = x
         /\ SameBut([r EXCEPT !.busy = x], r, "busy") /\ [r EXCEPT !.busy = x].busy = x
         /\ SameBut([r EXCEPT !.pending = x], r, "pending") /\ [r EXCEPT !.pending = x].pending = x
         /\ SameBut([r EXCEPT !.top = x], r, "top") /\ [r EXCEPT !.top = x].top = x
         /\ SameBut([r EXCEPT !.ok = x], r, "ok") /\ [r EXCEPT !.ok = x].ok = x
PROOF
  <1>1. SameBut([r EXCEPT !.rat = x], r, "rat") /\ [r EXCEPT !.rat = x].rat = x
    <2>1. [r EXCEPT !.rat = x] = [rat |-> x, free |-> r.free, busy |-> r.busy, pending |-> r.pending, top |-> r.top, ok |-> r.ok]
      BY DEF HasFields
    <2> QED BY <2>1 DEF HasFields, SameBut
  <1>2. SameBut([r EXCEPT !.free = x], r, "free") /\ [r EXCEPT !.free = x].free = x
    <2>1. [r EXCEPT !.free = x] = [rat |-> r.rat, free |-> x, busy |-> r.busy, pending |-> r.pending, top |-> r.top, ok |-> r.ok]
      BY DEF HasFields
    <2> QED BY <2>1 DEF HasFields, SameBut
  <1>3. SameBut([r EXCEPT !.busy = x], r, "busy") /\ [r EXCEPT !.busy = x].busy = x
    <2>1. [r EXCEPT !.busy = x] = [rat |-> r.rat, free |-> r.free, busy |-> x, pending |-> r.pending, top |-> r.top, ok |-> r.ok]
      BY DEF HasFields
    <2> QED BY <2>1 DEF HasFields, SameBut
  <1>4. SameBut([r EXCEPT !.pending = x], r, "pending") /\ [r EXCEPT !.pending = x].pending = x
    <2>1. [r EXCEPT !.pending = x] = [rat |-> r.rat, free |-> r.free, busy |-> r.busy, pending |-> x, top |-> r.top, ok |-> r.ok]
      BY DEF HasFields
    <2> QED BY <2>1 DEF HasFields, SameBut
  <1>5. SameBut([r EXCEPT !.top = x], r, "top") /\ [r EXCEPT !.top = x].top = x
    <2>1. [r EXCEPT !.top = x] = [rat |-> r.rat, free |-> r.free, busy |-> r.busy, pending |-> r.pending, top |-> x, ok |-> r.ok]
      BY DEF HasFields
    <2> QED BY <2>1 DEF HasFields, SameBut
  <1>6. SameBut([r EXCEPT !.ok = x], r, "ok") /\ [r EXCEPT !.ok = x].ok = x
    <2>1. [r EXCEPT !.ok = x] = [rat |-> r.rat, free |-> r.free, busy |-> r.busy, pending |-> r.pending, top |-> r.top, ok |-> x]
      BY DEF HasFields
    <2> QED BY <2>1 DEF HasFields, SameBut
  <1> QED BY <1>1, <1>2, <1>3, <1>4, <1>5, <1>6

\* A register file is a record of six typed fields.
LEMMA RegFileIs ==
  ASSUME NEW R, NEW r
  PROVE  r \in RegFileOver(R) <=>
           /\ HasFields(r)
           /\ r.rat \in [Logical -> R] /\ r.free \in [File -> Seq(Phys)] /\ r.busy \in [Phys -> Int]
           /\ r.pending \in [Phys -> BOOLEAN] /\ r.top \in 0 .. (StackDepth - 1) /\ r.ok \in BOOLEAN
PROOF
  BY DEF RegFileOver, HasFields

\* Letting go of a register, field by field.
LEMMA DropFields ==
  ASSUME NEW R, NEW rf \in RegFileOver(R), NEW p \in Phys
  PROVE  LET r == Drop(rf, p) IN
         /\ r \in RegFileOver(R)
         /\ r.rat = rf.rat /\ r.pending = rf.pending /\ r.top = rf.top
         /\ r.busy = [rf.busy EXCEPT ![p] = rf.busy[p] - 1]
         /\ r.free = [rf.free EXCEPT ![FileOf(p)] =
                        IF rf.busy[p] = 1 THEN Append(rf.free[FileOf(p)], p) ELSE rf.free[FileOf(p)]]
         /\ r.ok = (rf.ok /\ rf.busy[p] > 0)
PROOF
  <1> DEFINE F == IF rf.busy[p] = 1 THEN Append(rf.free[FileOf(p)], p) ELSE rf.free[FileOf(p)]
             free == [rf.free EXCEPT ![FileOf(p)] = F]
             busy == [rf.busy EXCEPT ![p] = rf.busy[p] - 1]
             ok == rf.ok /\ rf.busy[p] > 0
             r == Drop(rf, p)
  <1>1. FileOf(p) \in File
    BY FileFacts
  <1>2. /\ HasFields(rf)
        /\ rf.rat \in [Logical -> R] /\ rf.free \in [File -> Seq(Phys)] /\ rf.busy \in [Phys -> Int]
        /\ rf.pending \in [Phys -> BOOLEAN] /\ rf.top \in 0 .. (StackDepth - 1) /\ rf.ok \in BOOLEAN
    BY RegFileIs
  <1>3. F \in Seq(Phys)
    BY <1>1, <1>2
  <1>4. free \in [File -> Seq(Phys)] /\ busy \in [Phys -> Int] /\ ok \in BOOLEAN
    <2> HIDE DEF F
    <2> QED BY <1>1, <1>2, <1>3
  <1>5. Drop(rf, p) = [rf EXCEPT !.busy = busy, !.free = free, !.ok = ok]
    BY DEF Drop
  <1> HIDE DEF free, busy, ok
  <1> DEFINE c1 == [rf EXCEPT !.busy = busy]
  <1>6. SameBut(c1, rf, "busy") /\ c1.busy = busy
    BY <1>2, FieldSet
  <1> HIDE DEF c1
  <1>7. HasFields(c1)
    BY <1>6 DEF SameBut
  <1> DEFINE c2 == [c1 EXCEPT !.free = free]
  <1>8. SameBut(c2, c1, "free") /\ c2.free = free
    BY <1>7, FieldSet
  <1> HIDE DEF c2
  <1>9. HasFields(c2)
    BY <1>8 DEF SameBut
  <1> DEFINE c3 == [c2 EXCEPT !.ok = ok]
  <1>10. SameBut(c3, c2, "ok") /\ c3.ok = ok
    BY <1>9, FieldSet
  <1> HIDE DEF c3
  <1>11. HasFields(c3)
    BY <1>10 DEF SameBut
  <1>12. r = c3
    BY <1>5 DEF r, c1, c2, c3
  <1> HIDE DEF r
  <1>13. HasFields(r) /\ r.rat = rf.rat /\ r.free = free /\ r.busy = busy /\ r.pending = rf.pending /\ r.top = rf.top /\ r.ok = ok
    BY <1>6, <1>7, <1>8, <1>9, <1>10, <1>11, <1>12 DEF SameBut
  <1>14. r \in RegFileOver(R)
    BY <1>2, <1>4, <1>13, RegFileIs
  <1> QED BY <1>13, <1>14 DEF r, free, busy, ok

(***************************************************************************)
(* The log of renamings, and what it accounts for                          *)
(***************************************************************************)

\* There are as many logical registers as names in Deps.
LEMMA LogicalFinite ==
  /\ IsFiniteSet(Logical)
  /\ Cardinality(Logical) = Len(Deps)
PROOF
  <1>1. Len(Deps) \in Nat /\ DOMAIN Deps = 1 .. Len(Deps) /\ IsInjective(Deps)
    BY NamesFit, LenProperties
  <1>2. Deps \in [1 .. Len(Deps) -> Logical]
    BY NamesFit, LenProperties
  <1>3. Deps \in Surjection(1 .. Len(Deps), Logical)
    BY <1>1, <1>2 DEF Surjection, Logical, ToSet
  <1>4. Deps \in Injection(1 .. Len(Deps), Logical)
    BY <1>1, <1>2 DEF Injection, IsInjective
  <1>5. IsFiniteSet(1 .. Len(Deps)) /\ Cardinality(1 .. Len(Deps)) = Len(Deps)
    <2>1. \A n \in Nat : IsFiniteSet(1 .. n) /\ Cardinality(1 .. n) = n
      BY FS_Interval
    <2> QED BY <1>1, <2>1
  <1> QED BY <1>3, <1>4, <1>5, FS_Surjection

\* A log of the outputs of uops, <<id, output>>, oldest first: what logical
\* register each renames, to which physical one, and what it was mapped to.
Entry == [to : Logical, new : Phys, old : Phys]

\* The outputs of uops: the id of the uop and the place of the output.
OutputIds == Nat \X Nat

\* A log is finite and has an entry for each of its outputs.
IsLog(log) ==
  /\ DOMAIN log \subseteq OutputIds /\ IsFiniteSet(DOMAIN log)
  /\ log \in [DOMAIN log -> Entry]

\* Program order of outputs.
Earlier(v, w) == v[1] < w[1] \/ (v[1] = w[1] /\ v[2] < w[2])

\* The logical registers mapped to p.
MappedTo(rat, p) == {l \in Logical : rat[l] = p}
\* The outputs whose renaming keeps p, to let it go at commit or map it again
\* at a squash.
KeptBy(log, p) == {w \in DOMAIN log : log[w].old = p}

\* busy_count is the number of logical registers mapped to a register and of
\* outputs that keep it.
BusyCounted(rat, busy, log) ==
  \A p \in Phys : busy[p] = Cardinality(MappedTo(rat, p)) + Cardinality(KeptBy(log, p))

\* The free list of a file has each of its registers that is not busy, once.
FreeUnused(busy, free) ==
  \A f \in File : /\ IsInjective(free[f])
                  /\ ToSet(free[f]) = {p \in Phys : FileOf(p) = f /\ busy[p] = 0}

\* The later outputs that rename the same register.
After(log, v) == {w \in DOMAIN log : Earlier(v, w) /\ log[w].to = log[v].to}

\* The next output that renames the same register keeps this one's.
NextKeeps(log, v) ==
  \E w \in After(log, v) : /\ log[w].old = log[v].new
                           /\ \A x \in After(log, v) : x = w \/ Earlier(w, x)

\* The map names the last output that renames a register, and every other is
\* kept by the next.
Linked(rat, log) ==
  \A v \in DOMAIN log :
    IF After(log, v) = {} THEN rat[log[v].to] = log[v].new ELSE NextKeeps(log, v)

\* Only the outputs of one uop share a register (the flags).
OwnRegisters(log) ==
  \A v, w \in DOMAIN log : log[v].new = log[w].new => v[1] = w[1]

\* The log accounts for the map, the counts and the free lists.
Logged(rat, busy, free, log) ==
  /\ IsLog(log)
  /\ BusyCounted(rat, busy, log)
  /\ FreeUnused(busy, free)
  /\ Linked(rat, log)
  /\ OwnRegisters(log)

\* The types of the three.
Tables(rat, busy, free) ==
  rat \in [Logical -> Phys] /\ busy \in [Phys -> Int] /\ free \in [File -> Seq(Phys)]

\* Earlier is a total order of the outputs.
LEMMA EarlierOrder ==
  /\ \A v, w, x \in OutputIds : Earlier(v, w) /\ Earlier(w, x) => Earlier(v, x)
  /\ \A v \in OutputIds : ~Earlier(v, v)
  /\ \A v, w \in OutputIds : v = w \/ Earlier(v, w) \/ Earlier(w, v)
PROOF
  BY DEF Earlier, OutputIds

\* 1 for equals, else 0: what one name adds to a count.
One(a, b) == IF a = b THEN 1 ELSE 0

\* The logical registers mapped to p are finite in number.
LEMMA MappedFinite ==
  ASSUME NEW rat, NEW p
  PROVE  IsFiniteSet(MappedTo(rat, p)) /\ Cardinality(MappedTo(rat, p)) \in Nat
PROOF
  BY LogicalFinite, FS_Subset, FS_CardinalityType DEF MappedTo

\* rat2 is rat with l mapped to q.
Remaps(rat2, rat, l, q) == rat2[l] = q /\ \A k \in Logical \ {l} : rat2[k] = rat[k]

\* Mapping a name anew moves one from the old register's count to the new
\* one's.
LEMMA MappedCount ==
  ASSUME NEW rat, NEW l \in Logical, NEW q, NEW rat2, Remaps(rat2, rat, l, q), NEW p
  PROVE  Cardinality(MappedTo(rat2, p)) + One(rat[l], p) = Cardinality(MappedTo(rat, p)) + One(q, p)
PROOF
  <1> DEFINE M == MappedTo(rat, p)
             N == MappedTo(rat2, p)
             rest == {k \in Logical \ {l} : rat[k] = p}
  <1>1. IsFiniteSet(rest) /\ IsFiniteSet(M)
    BY LogicalFinite, FS_Subset DEF MappedTo
  <1>2. Cardinality(rest) \in Nat /\ Cardinality(M) \in Nat
    BY <1>1, FS_CardinalityType
  <1>3. l \notin rest
    OBVIOUS
  <1>4. M = (IF rat[l] = p THEN rest \cup {l} ELSE rest)
    BY DEF MappedTo, Remaps
  <1>5. N = (IF q = p THEN rest \cup {l} ELSE rest)
    BY DEF MappedTo, Remaps
  <1>6. Cardinality(rest \cup {l}) = Cardinality(rest) + 1
    BY <1>1, <1>3, FS_AddElement
  <1> HIDE DEF rest, M, N
  <1>7. Cardinality(N) + One(rat[l], p) = Cardinality(M) + One(q, p)
    BY <1>2, <1>4, <1>5, <1>6 DEF One
  <1> QED BY <1>7 DEF M, N

\* The outputs that keep p are finite in number.
LEMMA KeptFinite ==
  ASSUME NEW log, IsFiniteSet(DOMAIN log), NEW p
  PROVE  IsFiniteSet(KeptBy(log, p)) /\ Cardinality(KeptBy(log, p)) \in Nat
PROOF
  BY FS_Subset, FS_CardinalityType DEF KeptBy

\* log2 has one output more.
Extends(log2, log, x) ==
  /\ x \notin DOMAIN log /\ DOMAIN log2 = DOMAIN log \cup {x}
  /\ \A w \in DOMAIN log : log2[w] = log[w]

\* One output more keeps one register more.
LEMMA KeptCount ==
  ASSUME NEW log, IsFiniteSet(DOMAIN log), NEW x, NEW log2, Extends(log2, log, x), NEW p
  PROVE  Cardinality(KeptBy(log2, p)) = Cardinality(KeptBy(log, p)) + One(log2[x].old, p)
PROOF
  <1> DEFINE K == KeptBy(log, p)
             K2 == KeptBy(log2, p)
  <1>1. IsFiniteSet(K) /\ Cardinality(K) \in Nat /\ x \notin K
    BY KeptFinite DEF KeptBy, Extends
  <1>2. K2 = (IF log2[x].old = p THEN K \cup {x} ELSE K)
    BY DEF KeptBy, Extends
  <1>3. Cardinality(K \cup {x}) = Cardinality(K) + 1
    BY <1>1, FS_AddElement
  <1> HIDE DEF K, K2
  <1>4. Cardinality(K2) = Cardinality(K) + One(log2[x].old, p)
    BY <1>1, <1>2, <1>3 DEF One
  <1> QED BY <1>4 DEF K, K2

\* A finite set with a member has a positive size.
LEMMA SomeMember ==
  ASSUME NEW S, IsFiniteSet(S), NEW x \in S
  PROVE  Cardinality(S) \in Nat /\ Cardinality(S) > 0
PROOF
  BY FS_CardinalityType, FS_EmptySet

\* A register that is the new one of some output is in use.
LEMMA NewInUse ==
  ASSUME NEW rat, NEW busy, NEW free, Tables(rat, busy, free), NEW log, Logged(rat, busy, free, log),
         NEW v \in DOMAIN log
  PROVE  /\ log[v].new \in Phys /\ log[v].old \in Phys /\ log[v].to \in Logical
         /\ busy[log[v].new] > 0
         /\ \/ \E w \in DOMAIN log : Earlier(v, w) /\ log[w].old = log[v].new
            \/ \E l \in Logical : rat[l] = log[v].new
PROOF
  <1>1. log[v] \in Entry
    BY DEF Logged, IsLog
  <1>2. log[v].new \in Phys /\ log[v].old \in Phys /\ log[v].to \in Logical
    BY <1>1 DEF Entry
  <1>3. \/ \E w \in DOMAIN log : Earlier(v, w) /\ log[w].old = log[v].new
        \/ \E l \in Logical : rat[l] = log[v].new
    BY <1>2 DEF Logged, Linked, NextKeeps, After
  <1> DEFINE p == log[v].new
             M == MappedTo(rat, p)
             K == KeptBy(log, p)
  <1>4. IsFiniteSet(M) /\ IsFiniteSet(K)
    BY LogicalFinite, FS_Subset DEF MappedTo, KeptBy, Logged, IsLog
  <1>5. (\E w : w \in K) \/ (\E l : l \in M)
    BY <1>3 DEF MappedTo, KeptBy
  <1>6. busy[p] = Cardinality(M) + Cardinality(K)
    BY <1>2 DEF Logged, BusyCounted
  <1>7. Cardinality(M) \in Nat /\ Cardinality(K) \in Nat
    BY <1>4, FS_CardinalityType
  <1>8. Cardinality(M) > 0 \/ Cardinality(K) > 0
    <2> HIDE DEF M, K
    <2> QED BY <1>4, <1>5, SomeMember
  <1>9. busy[p] > 0
    BY <1>6, <1>7, <1>8
  <1> QED BY <1>2, <1>3, <1>9

\* The log with an entry more.
With(log, x, e) == [w \in DOMAIN log \cup {x} |-> IF w = x THEN e ELSE log[w]]
\* The log with an output less.
Without(log, x) == [w \in DOMAIN log \ {x} |-> log[w]]

\* Adding an entry extends the log.
LEMMA WithLog ==
  ASSUME NEW log, IsLog(log), NEW x \in OutputIds, x \notin DOMAIN log, NEW e \in Entry
  PROVE  /\ IsLog(With(log, x, e))
         /\ Extends(With(log, x, e), log, x)
         /\ With(log, x, e)[x] = e
PROOF
  <1>1. IsFiniteSet(DOMAIN log \cup {x})
    BY FS_AddElement DEF IsLog
  <1>2. \A w \in DOMAIN log : log[w] \in Entry
    BY DEF IsLog
  <1>3. /\ DOMAIN With(log, x, e) = DOMAIN log \cup {x} /\ With(log, x, e)[x] = e
        /\ \A w \in DOMAIN log : With(log, x, e)[w] = log[w]
    BY DEF With
  <1>4. With(log, x, e) \in [DOMAIN log \cup {x} -> Entry]
    BY <1>2 DEF With
  <1>5. DOMAIN log \subseteq OutputIds
    BY DEF IsLog
  <1>6. IsLog(With(log, x, e))
    BY <1>1, <1>3, <1>4, <1>5 DEF IsLog
  <1> QED BY <1>3, <1>6 DEF Extends

\* Removing one leaves the others.
LEMMA WithoutLog ==
  ASSUME NEW log, IsLog(log), NEW x
  PROVE  /\ IsLog(Without(log, x))
         /\ DOMAIN Without(log, x) = DOMAIN log \ {x}
         /\ \A w \in DOMAIN log \ {x} : Without(log, x)[w] = log[w]
PROOF
  <1>1. IsFiniteSet(DOMAIN log \ {x})
    BY FS_RemoveElement DEF IsLog
  <1>2. \A w \in DOMAIN log : log[w] \in Entry
    BY DEF IsLog
  <1>3. /\ DOMAIN Without(log, x) = DOMAIN log \ {x}
        /\ \A w \in DOMAIN log \ {x} : Without(log, x)[w] = log[w]
    BY DEF Without
  <1>4. Without(log, x) \in [DOMAIN log \ {x} -> Entry]
    BY <1>2 DEF Without
  <1>5. DOMAIN log \subseteq OutputIds
    BY DEF IsLog
  <1> QED BY <1>1, <1>3, <1>4, <1>5 DEF IsLog

\* Taking a register off the free ones, and putting one back.
Takes(free2, free, p) ==
  \A f \in File : IsInjective(free2[f]) /\ ToSet(free2[f]) = ToSet(free[f]) \ {p}

\* A register taken off its list and counted leaves the lists exact.
LEMMA FreeTaken ==
  ASSUME NEW busy \in [Phys -> Int], NEW free, FreeUnused(busy, free), NEW p \in Phys, busy[p] >= 0,
         NEW free2, Takes(free2, free, p)
  PROVE  FreeUnused([busy EXCEPT ![p] = busy[p] + 1], free2)
PROOF
  <1> DEFINE busy2 == [busy EXCEPT ![p] = busy[p] + 1]
  <1>1. \A q \in Phys : busy2[q] = IF q = p THEN busy[p] + 1 ELSE busy[q]
    OBVIOUS
  <1>2. busy2[p] # 0
    BY <1>1
  <1> HIDE DEF busy2
  <1>3. ASSUME NEW f \in File
        PROVE  ToSet(free2[f]) = {q \in Phys : FileOf(q) = f /\ busy2[q] = 0}
    <2>1. ToSet(free2[f]) = {q \in Phys : FileOf(q) = f /\ busy[q] = 0} \ {p}
      BY DEF FreeUnused, Takes
    <2> QED BY <1>1, <1>2, <2>1
  <1> QED BY <1>3 DEF FreeUnused, Takes, busy2

\* The free lists once a register is let go: it joins its list when it was busy
\* once.
PutBack(busy, free, p) ==
  [free EXCEPT ![FileOf(p)] = IF busy[p] = 1 THEN Append(free[FileOf(p)], p) ELSE free[FileOf(p)]]

\* Appending a new member.
LEMMA AppendOne ==
  ASSUME NEW S, NEW s \in Seq(S), IsInjective(s), NEW x \in S, x \notin ToSet(s)
  PROVE  IsInjective(Append(s, x)) /\ ToSet(Append(s, x)) = ToSet(s) \cup {x}
PROOF
  <1>1. /\ Len(s) \in Nat /\ DOMAIN s = 1 .. Len(s) /\ DOMAIN Append(s, x) = 1 .. Len(s) + 1
        /\ \A i \in 1 .. Len(s) : Append(s, x)[i] = s[i]
        /\ Append(s, x)[Len(s) + 1] = x
    BY AppendProperties, LenProperties
  <1> DEFINE t == Append(s, x)
  <1> HIDE DEF t
  <1>2. ToSet(t) = ToSet(s) \cup {x}
    <2>1. ASSUME NEW y PROVE y \in ToSet(t) <=> y \in ToSet(s) \/ y = x
      <3>1. y \in ToSet(t) <=> \E i \in 1 .. Len(s) + 1 : t[i] = y
        BY <1>1 DEF ToSet, t
      <3>2. y \in ToSet(s) <=> \E i \in 1 .. Len(s) : s[i] = y
        BY <1>1 DEF ToSet
      <3>3. (\E i \in 1 .. Len(s) + 1 : t[i] = y) <=> (\E i \in 1 .. Len(s) : t[i] = y) \/ t[Len(s) + 1] = y
        BY <1>1
      <3> QED BY <1>1, <3>1, <3>2, <3>3 DEF t
    <2> QED BY <2>1
  <1>3. IsInjective(t)
    <2>1. \A i \in 1 .. Len(s) : s[i] # x
      BY <1>1 DEF ToSet
    <2>2. \A i, j \in 1 .. Len(s) : s[i] = s[j] => i = j
      BY <1>1 DEF IsInjective
    <2>3. \A i, j \in 1 .. Len(s) + 1 : t[i] = t[j] => i = j
      BY <1>1, <2>1, <2>2 DEF t
    <2> QED BY <1>1, <2>3 DEF IsInjective, t
  <1> QED BY <1>2, <1>3 DEF t

\* Letting go of a register leaves the lists exact.
LEMMA FreeDropped ==
  ASSUME NEW busy \in [Phys -> Int], NEW free \in [File -> Seq(Phys)], FreeUnused(busy, free),
         NEW p \in Phys, busy[p] > 0
  PROVE  /\ FreeUnused([busy EXCEPT ![p] = busy[p] - 1], PutBack(busy, free, p))
         /\ PutBack(busy, free, p) \in [File -> Seq(Phys)]
PROOF
  <1> DEFINE busy2 == [busy EXCEPT ![p] = busy[p] - 1]
             free2 == PutBack(busy, free, p)
             g == FileOf(p)
  <1>1. \A q \in Phys : busy2[q] = IF q = p THEN busy[p] - 1 ELSE busy[q]
    OBVIOUS
  <1>2. g \in File /\ free[g] \in Seq(Phys)
    BY FileFacts
  <1>3. \A f \in File : free2[f] = IF f = g /\ busy[p] = 1 THEN Append(free[f], p) ELSE free[f]
    BY <1>2 DEF PutBack
  <1>4. free2 \in [File -> Seq(Phys)]
    <2>1. Append(free[g], p) \in Seq(Phys)
      BY <1>2
    <2> QED BY <1>2, <2>1 DEF PutBack
  <1>5. IsInjective(free[g]) /\ p \notin ToSet(free[g])
    BY <1>2 DEF FreeUnused
  <1>6. IsInjective(Append(free[g], p)) /\ ToSet(Append(free[g], p)) = ToSet(free[g]) \cup {p}
    BY <1>2, <1>5, AppendOne
  <1> HIDE DEF busy2, free2
  <1>7. ASSUME NEW f \in File
        PROVE  /\ IsInjective(free2[f])
               /\ ToSet(free2[f]) = {q \in Phys : FileOf(q) = f /\ busy2[q] = 0}
    <2>1. IsInjective(free[f]) /\ ToSet(free[f]) = {q \in Phys : FileOf(q) = f /\ busy[q] = 0}
      BY DEF FreeUnused
    <2>2. CASE f = g /\ busy[p] = 1
      <3>1. IsInjective(free2[f]) /\ ToSet(free2[f]) = ToSet(free[f]) \cup {p}
        BY <1>3, <1>6, <2>2
      <3>2. busy2[p] = 0 /\ FileOf(p) = f
        BY <1>1, <2>2
      <3>3. \A q \in Phys : q # p => busy2[q] = busy[q]
        BY <1>1
      <3> HIDE DEF g
      <3> QED BY <2>1, <3>1, <3>2, <3>3
    <2>3. CASE ~(f = g /\ busy[p] = 1)
      <3>1. free2[f] = free[f]
        BY <1>3, <2>3
      <3>2. \A q \in Phys : FileOf(q) = f => (busy2[q] = 0 <=> busy[q] = 0)
        BY <1>1, <2>3
      <3> QED BY <2>1, <3>1, <3>2
    <2> QED BY <2>2, <2>3
  <1> QED BY <1>4, <1>7 DEF FreeUnused, busy2, free2

\* Renaming one output, the youngest of all, keeps the account.
LEMMA LogAdd ==
  ASSUME NEW rat, NEW busy, NEW free, Tables(rat, busy, free), NEW log, Logged(rat, busy, free, log),
         NEW x \in OutputIds, \A w \in DOMAIN log : Earlier(w, x),
         NEW p \in Phys, NEW l \in Logical, \A v \in DOMAIN log : log[v].new = p => v[1] = x[1],
         NEW free2 \in [File -> Seq(Phys)],
         Takes(free2, free, p)
  PROVE  /\ Logged([rat EXCEPT ![l] = p], [busy EXCEPT ![p] = busy[p] + 1], free2,
                   With(log, x, [to |-> l, new |-> p, old |-> rat[l]]))
         /\ Tables([rat EXCEPT ![l] = p], [busy EXCEPT ![p] = busy[p] + 1], free2)
PROOF
  <1> DEFINE rat2 == [rat EXCEPT ![l] = p]
             busy2 == [busy EXCEPT ![p] = busy[p] + 1]
             e == [to |-> l, new |-> p, old |-> rat[l]]
             log2 == With(log, x, e)
  <1>1. rat \in [Logical -> Phys] /\ busy \in [Phys -> Int] /\ rat[l] \in Phys
    BY DEF Tables
  <1>2. e \in Entry /\ e.to = l /\ e.new = p /\ e.old = rat[l]
    BY <1>1 DEF Entry
  <1>3. IsLog(log) /\ DOMAIN log \subseteq OutputIds /\ IsFiniteSet(DOMAIN log)
    BY DEF Logged, IsLog
  <1>4. x \notin DOMAIN log
    BY <1>3, EarlierOrder
  <1> HIDE DEF e
  <1>5. /\ IsLog(log2) /\ DOMAIN log2 = DOMAIN log \cup {x} /\ log2[x] = e
        /\ \A w \in DOMAIN log : log2[w] = log[w]
    <2>1. IsLog(log2) /\ Extends(log2, log, x) /\ log2[x] = e
      BY <1>2, <1>3, <1>4, WithLog
    <2> QED BY <2>1 DEF Extends
  <1>55. Extends(log2, log, x)
    BY <1>4, <1>5 DEF Extends
  <1> HIDE DEF log2
  <1>6. \A q \in Phys : busy2[q] = busy[q] + IF q = p THEN 1 ELSE 0
    BY <1>1
  <1>7. \A q \in Phys : busy[q] \in Int
    BY <1>1
  <1>8. Tables(rat2, busy2, free2)
    BY <1>1 DEF Tables
  <1>9. rat2[l] = p /\ \A k \in Logical : k # l => rat2[k] = rat[k]
    BY <1>1
  <1> HIDE DEF busy2
  <1>10. BusyCounted(rat2, busy2, log2)
    <2>1. ASSUME NEW q \in Phys
          PROVE  busy2[q] = Cardinality(MappedTo(rat2, q)) + Cardinality(KeptBy(log2, q))
      <3>1. busy[q] = Cardinality(MappedTo(rat, q)) + Cardinality(KeptBy(log, q))
        BY DEF Logged, BusyCounted
      <3>2. /\ Cardinality(MappedTo(rat, q)) \in Nat
            /\ Cardinality(MappedTo(rat2, q)) + One(rat[l], q)
                 = Cardinality(MappedTo(rat, q)) + One(p, q)
        <4>1. Remaps(rat2, rat, l, p)
          BY <1>9 DEF Remaps
        <4> HIDE DEF rat2
        <4> QED BY <1>1, <4>1, MappedCount, MappedFinite
      <3>3. /\ Cardinality(KeptBy(log, q)) \in Nat
            /\ Cardinality(KeptBy(log2, q)) = Cardinality(KeptBy(log, q)) + One(log2[x].old, q)
        BY <1>3, <1>55, KeptCount, KeptFinite
      <3>4. Cardinality(MappedTo(rat2, q)) \in Nat
        BY MappedFinite
      <3> HIDE DEF rat2
      <3> QED BY <1>2, <1>5, <1>6, <3>1, <3>2, <3>3, <3>4 DEF One
    <2> QED BY <2>1 DEF BusyCounted
  <1>11. FreeUnused(busy2, free2)
    <2>1. busy[p] = Cardinality(MappedTo(rat, p)) + Cardinality(KeptBy(log, p))
      BY DEF Logged, BusyCounted
    <2>2. Cardinality(MappedTo(rat, p)) \in Nat
      BY MappedFinite
    <2>3. Cardinality(KeptBy(log, p)) \in Nat
      BY <1>3, KeptFinite
    <2>4. busy[p] >= 0
      BY <2>1, <2>2, <2>3
    <2>5. FreeUnused(busy, free)
      BY DEF Logged
    <2>6. FreeUnused([busy EXCEPT ![p] = busy[p] + 1], free2)
      BY <1>1, <2>4, <2>5, FreeTaken
    <2> QED BY <2>6 DEF busy2
  <1>12. Linked(rat2, log2)
    <2>1. ASSUME NEW v \in DOMAIN log2
          PROVE  IF After(log2, v) = {} THEN rat2[log2[v].to] = log2[v].new ELSE NextKeeps(log2, v)
      <3>1. CASE v = x
        <4>1. After(log2, x) = {}
          <5>1. \A w \in DOMAIN log2 : ~Earlier(x, w)
            BY <1>3, <1>5, EarlierOrder
          <5> QED BY <5>1 DEF After
        <4> QED BY <1>2, <1>5, <1>9, <3>1, <4>1
      <3>2. CASE v # x
        <4>1. v \in DOMAIN log /\ log2[v] = log[v] /\ Earlier(v, x)
          BY <1>5, <3>2
        <4>2. IF After(log, v) = {} THEN rat[log[v].to] = log[v].new ELSE NextKeeps(log, v)
          BY <4>1 DEF Logged, Linked
        <4>3. log[v].to \in Logical
          BY <1>3, <4>1 DEF IsLog, Entry
        <4>4. CASE log[v].to = l
          <5>1. After(log2, v) = After(log, v) \cup {x}
            BY <1>2, <1>5, <4>1, <4>4 DEF After
          <5>2. CASE After(log, v) = {}
            <6>1. log2[x].old = log2[v].new
              BY <1>2, <1>5, <4>1, <4>2, <4>4, <5>2
            <6> QED BY <5>1, <5>2, <6>1 DEF NextKeeps
          <5>3. CASE After(log, v) # {}
            <6>1. PICK w \in After(log, v) : /\ log[w].old = log[v].new
                                             /\ \A y \in After(log, v) : y = w \/ Earlier(w, y)
              BY <4>2, <5>3 DEF NextKeeps
            <6>2. w \in DOMAIN log /\ Earlier(w, x) /\ log2[w] = log[w]
              BY <1>5, <6>1 DEF After
            <6>3. w \in After(log2, v) /\ log2[w].old = log2[v].new
              BY <4>1, <5>1, <6>1, <6>2
            <6>4. \A y \in After(log2, v) : y = w \/ Earlier(w, y)
              BY <5>1, <6>1, <6>2
            <6>5. NextKeeps(log2, v)
              BY <6>3, <6>4 DEF NextKeeps
            <6> QED BY <6>3, <6>5
          <5> QED BY <5>2, <5>3
        <4>5. CASE log[v].to # l
          <5>1. After(log2, v) = After(log, v)
            BY <1>2, <1>5, <4>1, <4>5 DEF After
          <5>2. rat2[log2[v].to] = rat[log[v].to]
            BY <1>9, <4>1, <4>3, <4>5
          <5>3. NextKeeps(log, v) => NextKeeps(log2, v)
            BY <1>5, <4>1, <5>1 DEF NextKeeps, After
          <5> QED BY <4>1, <4>2, <5>1, <5>2, <5>3
        <4> QED BY <4>4, <4>5
      <3> QED BY <3>1, <3>2
    <2> QED BY <2>1 DEF Linked
  <1>13. OwnRegisters(log2)
    <2>1. ASSUME NEW v \in DOMAIN log2, NEW w \in DOMAIN log2, log2[v].new = log2[w].new
          PROVE  v[1] = w[1]
      <3>1. CASE v # x /\ w # x
        <4>1. v \in DOMAIN log /\ w \in DOMAIN log /\ log[v].new = log[w].new
          BY <1>5, <2>1, <3>1
        <4> QED BY <4>1 DEF Logged, OwnRegisters
      <3>2. CASE v = x /\ w # x
        <4>1. w \in DOMAIN log /\ log[w].new = p
          BY <1>2, <1>5, <2>1, <3>2
        <4> QED BY <3>2, <4>1
      <3>3. CASE v # x /\ w = x
        <4>1. v \in DOMAIN log /\ log[v].new = p
          BY <1>2, <1>5, <2>1, <3>3
        <4> QED BY <3>3, <4>1
      <3>4. CASE v = x /\ w = x
        BY <3>4
      <3> QED BY <3>1, <3>2, <3>3, <3>4
    <2> QED BY <2>1 DEF OwnRegisters
  <1>14. Logged(rat2, busy2, free2, log2)
    BY <1>5, <1>10, <1>11, <1>12, <1>13 DEF Logged
  <1> QED BY <1>8, <1>14 DEF rat2, busy2, log2, e

\* Undoing the youngest output keeps the account, and aborts on neither count.
LEMMA LogUndo ==
  ASSUME NEW rat, NEW busy, NEW free, Tables(rat, busy, free), NEW log, Logged(rat, busy, free, log),
         NEW x \in DOMAIN log, \A w \in DOMAIN log : w = x \/ Earlier(w, x)
  PROVE  LET e == log[x]
             busy2 == [busy EXCEPT ![e.new] = busy[e.new] - 1]
         IN  /\ busy[e.new] > 0 /\ busy2[e.old] > 0
             /\ Logged([rat EXCEPT ![e.to] = e.old], busy2, PutBack(busy, free, e.new), Without(log, x))
             /\ Tables([rat EXCEPT ![e.to] = e.old], busy2, PutBack(busy, free, e.new))
PROOF
  <1> DEFINE e == log[x]
             p == e.new
             q == e.old
             l == e.to
             rat2 == [rat EXCEPT ![l] = q]
             busy2 == [busy EXCEPT ![p] = busy[p] - 1]
             free2 == PutBack(busy, free, p)
             log2 == Without(log, x)
  <1>1. rat \in [Logical -> Phys] /\ busy \in [Phys -> Int] /\ free \in [File -> Seq(Phys)]
    BY DEF Tables
  <1>2. p \in Phys /\ q \in Phys /\ l \in Logical /\ busy[p] > 0
    BY NewInUse
  <1>3. IsLog(log) /\ DOMAIN log \subseteq OutputIds /\ IsFiniteSet(DOMAIN log)
    BY DEF Logged, IsLog
  <1>4. /\ IsLog(log2) /\ DOMAIN log2 = DOMAIN log \ {x} /\ IsFiniteSet(DOMAIN log2)
        /\ \A w \in DOMAIN log2 : log2[w] = log[w]
    BY <1>3, WithoutLog DEF IsLog
  <1>5. After(log, x) = {}
    BY <1>3, EarlierOrder DEF After
  <1>6. rat[l] = p
    BY <1>5 DEF Logged, Linked
  <1>7. \A r \in Phys : busy2[r] = busy[r] - IF r = p THEN 1 ELSE 0
    BY <1>1
  <1>8. \A r \in Phys : busy[r] \in Int
    BY <1>1
  <1>9. FreeUnused(busy2, free2) /\ free2 \in [File -> Seq(Phys)]
    BY <1>1, <1>2, FreeDropped DEF Logged
  <1>10. Tables(rat2, busy2, free2)
    <2>1. rat2 \in [Logical -> Phys] /\ busy2 \in [Phys -> Int]
      <3> HIDE DEF p, q, l
      <3> QED BY <1>1, <1>2
    <2> QED BY <2>1, <1>9 DEF Tables
  <1>11. rat2[l] = q /\ \A k \in Logical : k # l => rat2[k] = rat[k]
    <2> HIDE DEF q, l
    <2> QED BY <1>1, <1>2
  <1> HIDE DEF log2, busy2
  <1>12. ASSUME NEW r \in Phys
         PROVE  /\ busy2[r] = Cardinality(MappedTo(rat2, r)) + Cardinality(KeptBy(log2, r))
                /\ busy[r] = Cardinality(MappedTo(rat, r)) + Cardinality(KeptBy(log, r))
                /\ Cardinality(MappedTo(rat2, r)) + One(rat[l], r)
                     = Cardinality(MappedTo(rat, r)) + One(q, r)
                /\ Cardinality(KeptBy(log, r)) = Cardinality(KeptBy(log2, r)) + One(q, r)
                /\ Cardinality(MappedTo(rat2, r)) \in Nat /\ Cardinality(KeptBy(log2, r)) \in Nat
    <2>1. busy[r] = Cardinality(MappedTo(rat, r)) + Cardinality(KeptBy(log, r))
      BY DEF Logged, BusyCounted
    <2>2. /\ Cardinality(MappedTo(rat, r)) \in Nat
          /\ Cardinality(MappedTo(rat2, r)) + One(rat[l], r)
               = Cardinality(MappedTo(rat, r)) + One(q, r)
      <3>1. Remaps(rat2, rat, l, q)
        BY <1>11 DEF Remaps
      <3> HIDE DEF q, l, rat2
      <3> QED BY <1>1, <1>2, <3>1, MappedCount, MappedFinite
    <2>3. /\ Cardinality(KeptBy(log2, r)) \in Nat
          /\ Cardinality(KeptBy(log, r)) = Cardinality(KeptBy(log2, r)) + One(log[x].old, r)
      <3>1. Extends(log, log2, x)
        BY <1>4 DEF Extends
      <3> QED BY <1>4, <3>1, KeptCount, KeptFinite
    <2>4. Cardinality(MappedTo(rat2, r)) \in Nat
      BY MappedFinite
    <2> HIDE DEF rat2
    <2> QED BY <1>6, <1>7, <1>8, <2>1, <2>2, <2>3, <2>4 DEF One
  <1>13. BusyCounted(rat2, busy2, log2)
    BY <1>12 DEF BusyCounted
  <1>14. busy2[q] > 0
    <2>1. Cardinality(MappedTo(rat2, q)) > 0
      <3>1. l \in MappedTo(rat2, q)
        BY <1>2, <1>11 DEF MappedTo
      <3>2. IsFiniteSet(MappedTo(rat2, q))
        BY LogicalFinite, FS_Subset DEF MappedTo
      <3> QED BY <3>1, <3>2, SomeMember
    <2> HIDE DEF rat2, q, p
    <2> QED BY <1>2, <1>12, <2>1
  <1>15. Linked(rat2, log2)
    <2>1. ASSUME NEW v \in DOMAIN log2
          PROVE  IF After(log2, v) = {} THEN rat2[log2[v].to] = log2[v].new ELSE NextKeeps(log2, v)
      <3>1. v \in DOMAIN log /\ v # x /\ log2[v] = log[v] /\ Earlier(v, x)
        BY <1>4
      <3>2. IF After(log, v) = {} THEN rat[log[v].to] = log[v].new ELSE NextKeeps(log, v)
        BY <3>1 DEF Logged, Linked
      <3>3. log[v].to \in Logical
        BY <3>1, NewInUse
      <3>4. After(log2, v) = After(log, v) \ {x}
        BY <1>4, <3>1 DEF After
      <3>5. CASE log[v].to = l
        <4>1. x \in After(log, v)
          BY <3>1, <3>5 DEF After
        <4>2. PICK w \in After(log, v) : /\ log[w].old = log[v].new
                                         /\ \A y \in After(log, v) : y = w \/ Earlier(w, y)
          BY <3>2, <4>1 DEF NextKeeps
        <4>3. CASE w = x
          <5>1. \A y \in After(log, v) : ~Earlier(x, y)
            BY <1>3, EarlierOrder DEF After
          <5>2. After(log2, v) = {}
            BY <3>4, <4>2, <4>3, <5>1
          <5>3. rat2[log2[v].to] = log2[v].new
            BY <1>11, <3>1, <3>5, <4>2, <4>3
          <5> QED BY <5>2, <5>3
        <4>4. CASE w # x
          <5>1. w \in After(log2, v) /\ log2[w] = log[w]
            BY <1>4, <3>4, <4>2, <4>4 DEF After
          <5>2. NextKeeps(log2, v)
            BY <3>1, <3>4, <4>2, <5>1 DEF NextKeeps
          <5> QED BY <5>1, <5>2
        <4> QED BY <4>3, <4>4
      <3>6. CASE log[v].to # l
        <4>1. After(log2, v) = After(log, v)
          BY <3>4, <3>6 DEF After
        <4>2. rat2[log2[v].to] = rat[log[v].to]
          BY <1>11, <3>1, <3>3, <3>6
        <4>3. NextKeeps(log, v) => NextKeeps(log2, v)
          BY <1>4, <3>1, <4>1 DEF NextKeeps, After
        <4> QED BY <3>1, <3>2, <4>1, <4>2, <4>3
      <3> QED BY <3>5, <3>6
    <2> QED BY <2>1 DEF Linked
  <1>16. OwnRegisters(log2)
    BY <1>4 DEF Logged, OwnRegisters
  <1>17. Logged(rat2, busy2, free2, log2)
    BY <1>4, <1>9, <1>13, <1>15, <1>16 DEF Logged
  <1> QED BY <1>2, <1>10, <1>14, <1>17 DEF busy2, log2

\* What the oldest output kept is let go.
LEMMA LogCommit ==
  ASSUME NEW rat, NEW busy, NEW free, Tables(rat, busy, free), NEW log, Logged(rat, busy, free, log),
         NEW x \in DOMAIN log, \A w \in DOMAIN log : w = x \/ Earlier(x, w), NEW q, q = log[x].old
  PROVE  /\ busy[q] > 0
         /\ busy[q] = 1 => \A w \in DOMAIN log \ {x} : log[w].new # q
         /\ Logged(rat, [busy EXCEPT ![q] = busy[q] - 1], PutBack(busy, free, q), Without(log, x))
         /\ Tables(rat, [busy EXCEPT ![q] = busy[q] - 1], PutBack(busy, free, q))
PROOF
  <1> DEFINE busy2 == [busy EXCEPT ![q] = busy[q] - 1]
             free2 == PutBack(busy, free, q)
             log2 == Without(log, x)
  <1>1. rat \in [Logical -> Phys] /\ busy \in [Phys -> Int] /\ free \in [File -> Seq(Phys)]
    BY DEF Tables
  <1>2. q \in Phys
    BY NewInUse
  <1>3. IsLog(log) /\ DOMAIN log \subseteq OutputIds /\ IsFiniteSet(DOMAIN log)
    BY DEF Logged, IsLog
  <1>4. /\ IsLog(log2) /\ DOMAIN log2 = DOMAIN log \ {x} /\ IsFiniteSet(DOMAIN log2)
        /\ \A w \in DOMAIN log2 : log2[w] = log[w]
    <2>1. IsLog(log2) /\ DOMAIN log2 = DOMAIN log \ {x}
      BY <1>3, WithoutLog
    <2>2. \A w \in DOMAIN log \ {x} : log2[w] = log[w]
      BY <1>3, WithoutLog
    <2> QED BY <2>1, <2>2 DEF IsLog
  <1>5. \A r \in Phys : busy2[r] = busy[r] - One(q, r)
    <2>1. busy2[q] = busy[q] - 1 /\ \A r \in Phys : r # q => busy2[r] = busy[r]
      BY <1>1, <1>2
    <2>2. \A r \in Phys : busy[r] \in Int
      BY <1>1
    <2> HIDE DEF busy2
    <2> QED BY <2>1, <2>2 DEF One
  <1>6. \A r \in Phys : busy[r] \in Int
    BY <1>1
  <1> HIDE DEF log2
  <1>7. ASSUME NEW r \in Phys
        PROVE  /\ busy[r] = Cardinality(MappedTo(rat, r)) + Cardinality(KeptBy(log2, r)) + One(q, r)
               /\ Cardinality(MappedTo(rat, r)) \in Nat /\ Cardinality(KeptBy(log2, r)) \in Nat
    <2>1. busy[r] = Cardinality(MappedTo(rat, r)) + Cardinality(KeptBy(log, r))
      BY DEF Logged, BusyCounted
    <2>2. Cardinality(MappedTo(rat, r)) \in Nat
      BY MappedFinite
    <2>3. /\ Cardinality(KeptBy(log2, r)) \in Nat
          /\ Cardinality(KeptBy(log, r)) = Cardinality(KeptBy(log2, r)) + One(q, r)
      <3>1. Extends(log, log2, x)
        BY <1>4 DEF Extends
      <3> QED BY <1>4, <3>1, KeptCount, KeptFinite
    <2> QED BY <2>1, <2>2, <2>3 DEF One
  <1>8. busy[q] > 0
    BY <1>2, <1>7 DEF One
  <1>9. FreeUnused(busy2, free2) /\ free2 \in [File -> Seq(Phys)]
    BY <1>1, <1>2, <1>8, FreeDropped DEF Logged
  <1>10. busy2 \in [Phys -> Int]
    BY <1>1, <1>2
  <1> HIDE DEF busy2
  <1>11. BusyCounted(rat, busy2, log2)
    BY <1>5, <1>6, <1>7 DEF BusyCounted, One
  <1>12. ASSUME busy[q] = 1, NEW w \in DOMAIN log \ {x}, log[w].new = q
         PROVE  FALSE
    <2>1. Cardinality(MappedTo(rat, q)) = 0 /\ Cardinality(KeptBy(log2, q)) = 0
      BY <1>2, <1>7, <1>12 DEF One
    <2>2. MappedTo(rat, q) = {} /\ KeptBy(log2, q) = {}
      <3>1. IsFiniteSet(MappedTo(rat, q)) /\ IsFiniteSet(KeptBy(log2, q))
        BY <1>4, MappedFinite, KeptFinite
      <3> QED BY <2>1, <3>1, FS_EmptySet
    <2>3. \/ \E v \in DOMAIN log : Earlier(w, v) /\ log[v].old = q
          \/ \E l \in Logical : rat[l] = q
      BY <1>12, NewInUse
    <2>4. PICK v \in DOMAIN log : Earlier(w, v) /\ log[v].old = q
      BY <2>2, <2>3 DEF MappedTo
    <2>5. v # x
      BY <1>3, <1>12, <2>4, EarlierOrder
    <2>6. v \in KeptBy(log2, q)
      BY <1>4, <2>4, <2>5 DEF KeptBy
    <2> QED BY <2>2, <2>6
  <1>13. Linked(rat, log2)
    <2>1. ASSUME NEW v \in DOMAIN log2
          PROVE  IF After(log2, v) = {} THEN rat[log2[v].to] = log2[v].new ELSE NextKeeps(log2, v)
      <3>1. v \in DOMAIN log /\ v # x /\ log2[v] = log[v] /\ Earlier(x, v) /\ v \in OutputIds /\ x \in OutputIds
        BY <1>3, <1>4
      <3>2. IF After(log, v) = {} THEN rat[log[v].to] = log[v].new ELSE NextKeeps(log, v)
        BY <3>1 DEF Logged, Linked
      <3>3. ~Earlier(v, x)
        BY <3>1, EarlierOrder
      <3>4. After(log2, v) = After(log, v)
        BY <1>4, <3>1, <3>3 DEF After
      <3>5. NextKeeps(log, v) => NextKeeps(log2, v)
        BY <1>4, <3>1, <3>3, <3>4 DEF NextKeeps, After
      <3> QED BY <3>1, <3>2, <3>4, <3>5
    <2> QED BY <2>1 DEF Linked
  <1>14. OwnRegisters(log2)
    BY <1>4 DEF Logged, OwnRegisters
  <1>15. Logged(rat, busy2, free2, log2)
    BY <1>4, <1>9, <1>11, <1>13, <1>14 DEF Logged
  <1>16. Tables(rat, busy2, free2)
    BY <1>1, <1>9, <1>10 DEF Tables
  <1> QED BY <1>8, <1>12, <1>15, <1>16 DEF busy2, log2

(***************************************************************************)
(* The operations on one output                                            *)
(***************************************************************************)

\* Drop, field by field, with PutBack.
LEMMA DropIs ==
  ASSUME NEW rf \in RegFiles, NEW p \in Phys, NEW r, r = Drop(rf, p)
  PROVE  /\ r \in RegFiles
         /\ r.rat = rf.rat /\ r.pending = rf.pending /\ r.top = rf.top
         /\ r.busy = [rf.busy EXCEPT ![p] = rf.busy[p] - 1]
         /\ r.free = PutBack(rf.busy, rf.free, p)
         /\ r.ok = (rf.ok /\ rf.busy[p] > 0)
PROOF
  BY DropFields DEF RegFiles, PutBack

\* What committing an output changes, and when it aborts (the asserts of
\* X86ThreadCommitUop()).
LEMMA CommitOutputIs ==
  ASSUME NEW rf \in RegFiles, NEW p \in Phys, NEW r, r = CommitOutput(rf, p)
  PROVE  /\ r \in RegFiles
         /\ r.rat = rf.rat /\ r.pending = rf.pending /\ r.top = rf.top
         /\ r.busy = [rf.busy EXCEPT ![p] = rf.busy[p] - 1]
         /\ r.free = PutBack(rf.busy, rf.free, p)
         /\ r.ok = (rf.ok /\ rf.busy[p] > 0 /\ (rf.busy[p] = 1 => ~rf.pending[p]))
PROOF
  <1> DEFINE d == Drop(rf, p)
             ok == d.ok /\ (rf.busy[p] = 1 => ~rf.pending[p])
  <1>1. r = [d EXCEPT !.ok = ok]
    BY DEF CommitOutput
  <1>2. /\ d \in RegFiles
        /\ d.rat = rf.rat /\ d.pending = rf.pending /\ d.top = rf.top
        /\ d.busy = [rf.busy EXCEPT ![p] = rf.busy[p] - 1]
        /\ d.free = PutBack(rf.busy, rf.free, p)
        /\ d.ok = (rf.ok /\ rf.busy[p] > 0)
    <2> HIDE DEF d
    <2> QED BY DropIs DEF d
  <1> HIDE DEF d
  <1>3. HasFields(d)
    BY <1>2, RegFileIs DEF RegFiles
  <1>4. ok \in BOOLEAN
    OBVIOUS
  <1> HIDE DEF ok
  <1> DEFINE c1 == [d EXCEPT !.ok = ok]
  <1>5. SameBut(c1, d, "ok") /\ c1.ok = ok
    BY ONLY <1>3, FieldSet
  <1> HIDE DEF c1
  <1>6. HasFields(c1)
    BY <1>5 DEF SameBut
  <1>7. r = c1
    BY <1>1 DEF c1
  <1>8. HasFields(r) /\ r.rat = d.rat /\ r.free = d.free /\ r.busy = d.busy /\ r.pending = d.pending /\ r.top = d.top /\ r.ok = ok
    BY <1>5, <1>6, <1>7 DEF SameBut
  <1>9. r \in RegFiles
    BY <1>2, <1>4, <1>8, RegFileIs DEF RegFiles
  <1> QED BY <1>2, <1>8, <1>9 DEF ok

\* What undoing an output changes, and when it aborts (the asserts of
\* X86ThreadUndoUop()).
LEMMA UndoOutputIs ==
  ASSUME NEW rf \in RegFiles, NEW u, NEW k, NEW p \in Phys, p = u.ph_odep[k],
         NEW q \in Phys, q = u.ph_oodep[k], NEW l \in Logical, l = Resolve(u.uinst.odep[k], rf.top),
         NEW r, r = UndoOutput(u, k, rf)
  PROVE  /\ r \in RegFiles
         /\ r.pending = rf.pending /\ r.top = rf.top
         /\ r.rat = [rf.rat EXCEPT ![l] = q]
         /\ r.busy = [rf.busy EXCEPT ![p] = rf.busy[p] - 1]
         /\ r.free = PutBack(rf.busy, rf.free, p)
         /\ r.ok = (rf.ok /\ rf.busy[p] > 0 /\ ~rf.pending[p] /\ r.busy[q] > 0)
PROOF
  <1> DEFINE d == Drop(rf, p)
             ok == d.ok /\ ~rf.pending[p] /\ d.busy[q] > 0
             rat == [d.rat EXCEPT ![l] = q]
  <1>1. r = [d EXCEPT !.rat = rat, !.ok = ok]
    BY DEF UndoOutput
  <1>2. /\ d \in RegFiles
        /\ d.rat = rf.rat /\ d.pending = rf.pending /\ d.top = rf.top
        /\ d.busy = [rf.busy EXCEPT ![p] = rf.busy[p] - 1]
        /\ d.free = PutBack(rf.busy, rf.free, p)
        /\ d.ok = (rf.ok /\ rf.busy[p] > 0)
    <2> HIDE DEF d
    <2> QED BY DropIs DEF d
  <1> HIDE DEF d
  <1>3. HasFields(d) /\ d.rat \in [Logical -> Phys]
    BY <1>2, RegFileIs DEF RegFiles
  <1>4. ok \in BOOLEAN
    OBVIOUS
  <1>5. rat \in [Logical -> Phys]
    BY <1>3
  <1> HIDE DEF ok, rat
  <1> DEFINE c1 == [d EXCEPT !.rat = rat]
  <1>6. SameBut(c1, d, "rat") /\ c1.rat = rat
    BY ONLY <1>3, FieldSet
  <1> HIDE DEF c1
  <1>7. HasFields(c1)
    BY <1>6 DEF SameBut
  <1> DEFINE c2 == [c1 EXCEPT !.ok = ok]
  <1>8. SameBut(c2, c1, "ok") /\ c2.ok = ok
    BY ONLY <1>7, FieldSet
  <1> HIDE DEF c2
  <1>9. HasFields(c2)
    BY <1>8 DEF SameBut
  <1>10. r = c2
    BY <1>1 DEF c1, c2
  <1>11. HasFields(r) /\ r.rat = rat /\ r.free = d.free /\ r.busy = d.busy /\ r.pending = d.pending /\ r.top = d.top /\ r.ok = ok
    BY <1>6, <1>7, <1>8, <1>9, <1>10 DEF SameBut
  <1>12. r \in RegFiles
    <2>1. /\ d.free \in [File -> Seq(Phys)] /\ d.busy \in [Phys -> Int]
          /\ d.pending \in [Phys -> BOOLEAN] /\ d.top \in 0 .. (StackDepth - 1)
      BY ONLY <1>2, RegFileIs DEF RegFiles
    <2> QED BY ONLY <1>4, <1>5, <1>11, <2>1, RegFileIs DEF RegFiles
  <1> QED BY <1>2, <1>11, <1>12 DEF ok, rat

\* What X86ThreadUndoUop() does after its loop over the outputs.
LEMMA UndoIs ==
  ASSUME NEW rf, NEW u, NEW d \in RegFiles, d = UndoOutputs(rf, u), u.specmode \in BOOLEAN,
         NEW top \in 0 .. (StackDepth - 1), top = (d.top + StackDepth - Shift(u.uinst.op)) % StackDepth,
         NEW r, r = Undo(rf, u)
  PROVE  /\ r \in RegFiles
         /\ r.pending = d.pending /\ r.top = top
         /\ r.rat = d.rat /\ r.busy = d.busy /\ r.free = d.free
         /\ r.ok = (d.ok /\ u.specmode)
PROOF
  <1> DEFINE ok == d.ok /\ u.specmode
  <1>1. r = [d EXCEPT !.top = top, !.ok = ok]
    BY DEF Undo
  <1>2. HasFields(d)
    BY RegFileIs DEF RegFiles
  <1>3. ok \in BOOLEAN
    OBVIOUS
  <1> HIDE DEF ok
  <1> DEFINE c1 == [d EXCEPT !.top = top]
  <1>5. SameBut(c1, d, "top") /\ c1.top = top
    BY ONLY <1>2, FieldSet
  <1> HIDE DEF c1
  <1>6. HasFields(c1)
    BY <1>5 DEF SameBut
  <1> DEFINE c2 == [c1 EXCEPT !.ok = ok]
  <1>7. SameBut(c2, c1, "ok") /\ c2.ok = ok
    BY ONLY <1>6, FieldSet
  <1> HIDE DEF c2
  <1>8. HasFields(c2)
    BY <1>7 DEF SameBut
  <1>9. r = c2
    BY <1>1 DEF c1, c2
  <1>10. HasFields(r) /\ r.rat = d.rat /\ r.free = d.free /\ r.busy = d.busy /\ r.pending = d.pending /\ r.top = top /\ r.ok = ok
    BY <1>5, <1>6, <1>7, <1>8, <1>9 DEF SameBut
  <1>11. r \in RegFiles
    BY <1>3, <1>10, RegFileIs DEF RegFiles
  <1> QED BY <1>10, <1>11 DEF ok

\* What X86ThreadCommitUop() asserts besides what its loop does.
LEMMA CommitRegsIs ==
  ASSUME NEW rf, NEW u, NEW d \in RegFiles, d = CommitOutputs(rf, u.ph_oodep), u.specmode \in BOOLEAN,
         NEW r, r = CommitRegs(rf, u)
  PROVE  /\ r \in RegFiles
         /\ r.pending = d.pending /\ r.top = d.top
         /\ r.rat = d.rat /\ r.busy = d.busy /\ r.free = d.free
         /\ r.ok = (d.ok /\ ~u.specmode)
PROOF
  <1> DEFINE ok == d.ok /\ ~u.specmode
  <1>1. r = [d EXCEPT !.ok = ok]
    BY DEF CommitRegs
  <1>2. HasFields(d)
    BY RegFileIs DEF RegFiles
  <1>3. ok \in BOOLEAN
    OBVIOUS
  <1> HIDE DEF ok
  <1> DEFINE c1 == [d EXCEPT !.ok = ok]
  <1>5. SameBut(c1, d, "ok") /\ c1.ok = ok
    BY ONLY <1>2, FieldSet
  <1> HIDE DEF c1
  <1>6. HasFields(c1)
    BY <1>5 DEF SameBut
  <1>7. r = c1
    BY <1>1 DEF c1
  <1>8. HasFields(r) /\ r.rat = d.rat /\ r.free = d.free /\ r.busy = d.busy /\ r.pending = d.pending /\ r.top = d.top /\ r.ok = ok
    BY <1>5, <1>6, <1>7 DEF SameBut
  <1>9. r \in RegFiles
    BY <1>3, <1>8, RegFileIs DEF RegFiles
  <1> QED BY <1>8, <1>9 DEF ok

\* What is pending once the outputs of u are written.
Written(r, rf, u) == \A p \in Phys : r.pending[p] <=> rf.pending[p] /\ p \notin ToSet(u.ph_odep)

\* X86ThreadWriteUop() changes the pending flags and nothing else.
LEMMA WriteIs ==
  ASSUME NEW rf \in RegFiles, NEW u, NEW r, r = Write(rf, u)
  PROVE  /\ r \in RegFiles
         /\ r.ok = rf.ok /\ r.top = rf.top
         /\ r.rat = rf.rat /\ r.busy = rf.busy /\ r.free = rf.free
         /\ Written(r, rf, u)
PROOF
  <1> DEFINE pending == [p \in Phys |-> rf.pending[p] /\ p \notin ToSet(u.ph_odep)]
  <1>1. r = [rf EXCEPT !.pending = pending]
    BY DEF Write
  <1>2. HasFields(rf)
    BY RegFileIs DEF RegFiles
  <1>3. pending \in [Phys -> BOOLEAN] /\ \A p \in Phys : pending[p] <=> rf.pending[p] /\ p \notin ToSet(u.ph_odep)
    <2>1. \A p \in Phys : (rf.pending[p] /\ p \notin ToSet(u.ph_odep)) \in BOOLEAN
      BY RegFileIs DEF RegFiles
    <2> QED BY <2>1
  <1> HIDE DEF pending
  <1> DEFINE c1 == [rf EXCEPT !.pending = pending]
  <1>5. SameBut(c1, rf, "pending") /\ c1.pending = pending
    BY ONLY <1>2, FieldSet
  <1> HIDE DEF c1
  <1>6. HasFields(c1)
    BY <1>5 DEF SameBut
  <1>7. r = c1
    BY <1>1 DEF c1
  <1>8. HasFields(r) /\ r.rat = rf.rat /\ r.free = rf.free /\ r.busy = rf.busy /\ r.pending = pending /\ r.top = rf.top /\ r.ok = rf.ok
    BY <1>5, <1>6, <1>7 DEF SameBut
  <1>9. r \in RegFiles
    BY <1>3, <1>8, RegFileIs DEF RegFiles
  <1> QED BY <1>3, <1>8, <1>9 DEF Written

\* A register file that keeps account of the outputs in a log.
Books(rf, log) == rf \in RegFiles /\ rf.ok /\ Logged(rf.rat, rf.busy, rf.free, log)

\* What is known of the entries of such a log.
LEMMA BooksFacts ==
  ASSUME NEW rf, NEW log, Books(rf, log)
  PROVE  /\ Tables(rf.rat, rf.busy, rf.free) /\ IsLog(log)
         /\ rf.pending \in [Phys -> BOOLEAN] /\ rf.top \in 0 .. (StackDepth - 1)
         /\ \A v \in DOMAIN log : /\ log[v].new \in Phys /\ log[v].old \in Phys /\ log[v].to \in Logical
                                  /\ rf.busy[log[v].new] > 0
PROOF
  <1>1. Tables(rf.rat, rf.busy, rf.free)
    BY RegFileIs DEF Books, RegFiles, Tables
  <1>2. rf.pending \in [Phys -> BOOLEAN] /\ rf.top \in 0 .. (StackDepth - 1)
    BY RegFileIs DEF Books, RegFiles
  <1>3. Logged(rf.rat, rf.busy, rf.free, log)
    BY DEF Books
  <1>4. \A v \in DOMAIN log : /\ log[v].new \in Phys /\ log[v].old \in Phys /\ log[v].to \in Logical
                              /\ rf.busy[log[v].new] > 0
    BY <1>1, <1>3, NewInUse
  <1> QED BY <1>1, <1>2, <1>3, <1>4 DEF Logged

\* Committing the oldest output keeps the books and does not abort.
LEMMA CommitStep ==
  ASSUME NEW rf, NEW log, Books(rf, log), NEW x \in DOMAIN log, \A w \in DOMAIN log : w = x \/ Earlier(x, w),
         NEW p, p = log[x].old, rf.pending[p] => \E w \in DOMAIN log \ {x} : log[w].new = p,
         NEW r, r = CommitOutput(rf, p)
  PROVE  /\ Books(r, Without(log, x))
         /\ r.pending = rf.pending /\ r.top = rf.top
PROOF
  <1>1. Tables(rf.rat, rf.busy, rf.free) /\ p \in Phys
    BY BooksFacts
  <1>2. rf \in RegFiles /\ rf.ok /\ Logged(rf.rat, rf.busy, rf.free, log)
    BY DEF Books
  <1>3. /\ rf.busy[p] > 0
        /\ rf.busy[p] = 1 => \A w \in DOMAIN log \ {x} : log[w].new # p
        /\ Logged(rf.rat, [rf.busy EXCEPT ![p] = rf.busy[p] - 1], PutBack(rf.busy, rf.free, p), Without(log, x))
    BY <1>1, <1>2, LogCommit
  <1>4. /\ r \in RegFiles
        /\ r.rat = rf.rat /\ r.pending = rf.pending /\ r.top = rf.top
        /\ r.busy = [rf.busy EXCEPT ![p] = rf.busy[p] - 1]
        /\ r.free = PutBack(rf.busy, rf.free, p)
        /\ r.ok = (rf.ok /\ rf.busy[p] > 0 /\ (rf.busy[p] = 1 => ~rf.pending[p]))
    BY <1>1, <1>2, CommitOutputIs
  <1>5. r.ok
    BY <1>2, <1>3, <1>4
  <1> QED BY <1>3, <1>4, <1>5 DEF Books

\* Undoing the youngest output keeps the books and does not abort.
LEMMA UndoStep ==
  ASSUME NEW rf, NEW log, Books(rf, log), NEW x \in DOMAIN log, \A w \in DOMAIN log : w = x \/ Earlier(w, x),
         NEW u, NEW k, log[x].new = u.ph_odep[k], log[x].old = u.ph_oodep[k],
         log[x].to = Resolve(u.uinst.odep[k], rf.top), ~rf.pending[log[x].new],
         NEW r, r = UndoOutput(u, k, rf)
  PROVE  /\ Books(r, Without(log, x))
         /\ r.pending = rf.pending /\ r.top = rf.top
PROOF
  <1> DEFINE p == log[x].new
             q == log[x].old
             l == log[x].to
  <1>1. Tables(rf.rat, rf.busy, rf.free) /\ p \in Phys /\ q \in Phys /\ l \in Logical
    BY BooksFacts
  <1>2. rf \in RegFiles /\ rf.ok /\ Logged(rf.rat, rf.busy, rf.free, log)
    BY DEF Books
  <1>3. /\ rf.busy[p] > 0 /\ [rf.busy EXCEPT ![p] = rf.busy[p] - 1][q] > 0
        /\ Logged([rf.rat EXCEPT ![l] = q], [rf.busy EXCEPT ![p] = rf.busy[p] - 1],
                  PutBack(rf.busy, rf.free, p), Without(log, x))
    BY <1>1, <1>2, LogUndo
  <1>4. p = u.ph_odep[k] /\ q = u.ph_oodep[k] /\ l = Resolve(u.uinst.odep[k], rf.top)
    OBVIOUS
  <1>5. ~rf.pending[p]
    OBVIOUS
  <1> HIDE DEF p, q, l
  <1>6. /\ r \in RegFiles
        /\ r.pending = rf.pending /\ r.top = rf.top
        /\ r.rat = [rf.rat EXCEPT ![l] = q]
        /\ r.busy = [rf.busy EXCEPT ![p] = rf.busy[p] - 1]
        /\ r.free = PutBack(rf.busy, rf.free, p)
        /\ r.ok = (rf.ok /\ rf.busy[p] > 0 /\ ~rf.pending[p] /\ r.busy[q] > 0)
    BY <1>1, <1>2, <1>4, UndoOutputIs
  <1>7. r.ok
    BY <1>2, <1>3, <1>5, <1>6
  <1> QED BY <1>3, <1>6, <1>7 DEF Books

(***************************************************************************)
(* Committing and undoing a uop                                            *)
(***************************************************************************)

\* A set of the first n numbers has a greatest one.
LEMMA TopOf ==
  ASSUME NEW n \in Nat, NEW s \in SUBSET (1 .. n), s # {}
  PROVE  \E k \in s : \A i \in s : i <= k
PROOF
  <1> DEFINE T == {m \in 0 .. n : \A i \in s : i <= m}
  <1>1. n \in T
    OBVIOUS
  <1>2. PICK m \in T : \A y \in T : m <= y
    <2>1. T \subseteq Nat /\ T # {}
      BY <1>1
    <2> HIDE DEF T
    <2> QED BY <2>1, LeastNat
  <1>3. m \in s
    <2>1. SUFFICES ASSUME m \notin s PROVE FALSE
      OBVIOUS
    <2>2. PICK i \in s : TRUE
      OBVIOUS
    <2>3. m - 1 \in T
      BY <2>1
    <2> QED BY <1>2, <2>3
  <1> QED BY <1>2, <1>3

\* ... and is that one and a set of the smaller ones.
LEMMA TopCut ==
  ASSUME NEW n \in Nat, NEW s \in SUBSET (1 .. n), s # {}
  PROVE  \E k \in 1 .. n : /\ Max(s) = k /\ s \ {k} \in SUBSET (1 .. (k - 1))
                           /\ s = (s \ {k}) \cup {k} /\ s \ {k} \in SUBSET (1 .. n)
PROOF
  <1>1. PICK k \in s : \A i \in s : i <= k
    BY TopOf
  <1>2. k \in 1 .. n /\ s \subseteq Int
    BY <1>1
  <1>25. Max(s) = k
    BY ONLY <1>1, <1>2, MaxOfTop
  <1>3. s \ {k} \in SUBSET (1 .. (k - 1))
    BY <1>1
  <1> QED BY <1>1, <1>2, <1>25, <1>3

\* The same for the first k numbers.
LEMMA TopInterval ==
  ASSUME NEW k \in Nat, k # 0
  PROVE  Max(1 .. k) = k /\ (1 .. k) \ {k} = 1 .. (k - 1) /\ 1 .. k # {}
PROOF
  <1>1. 1 .. k \subseteq Int /\ k \in Int /\ k \in 1 .. k /\ \A i \in 1 .. k : i <= k
    OBVIOUS
  <1> DEFINE s == 1 .. k
  <1>2. Max(s) = k
    <2>1. s \subseteq Int /\ k \in Int /\ k \in s /\ \A i \in s : i <= k
      BY <1>1
    <2> HIDE DEF s
    <2> QED BY ONLY <2>1, MaxOfTop
  <1>3. ASSUME NEW i
        PROVE  i \in (1 .. k) \ {k} <=> i \in 1 .. (k - 1)
    OBVIOUS
  <1>4. (1 .. k) \ {k} = 1 .. (k - 1)
    BY <1>3
  <1> QED BY <1>1, <1>2, <1>4

\* A set of the first n numbers is its least one and a set of the greater ones.
LEMMA BottomCut ==
  ASSUME NEW n \in Nat, NEW s \in SUBSET (1 .. n), s # {}
  PROVE  \E k \in 1 .. n : /\ Min(s) = k /\ s \ {k} \in SUBSET ((k + 1) .. n)
                           /\ s = (s \ {k}) \cup {k} /\ s \ {k} \in SUBSET (1 .. n)
PROOF
  <1>1. PICK k \in s : \A i \in s : k <= i
    <2>1. s \subseteq Nat
      OBVIOUS
    <2> QED BY <2>1, LeastNat
  <1>2. k \in 1 .. n /\ s \subseteq Int /\ k \in Int
    BY <1>1
  <1>3. Min(s) = k
    BY ONLY <1>1, <1>2, MinOfBottom
  <1>4. s \ {k} \in SUBSET ((k + 1) .. n)
    BY <1>1
  <1> QED BY <1>1, <1>2, <1>3, <1>4

\* The same for the numbers from k to n.
LEMMA BottomInterval ==
  ASSUME NEW n \in Nat, NEW k \in 1 .. n
  PROVE  Min(k .. n) = k /\ (k .. n) \ {k} = (k + 1) .. n /\ k .. n # {}
PROOF
  <1> DEFINE s == k .. n
  <1>1. s \subseteq Int /\ k \in Int /\ k \in s /\ \A i \in s : k <= i
    OBVIOUS
  <1>2. ASSUME NEW i
        PROVE  i \in (k .. n) \ {k} <=> i \in (k + 1) .. n
    OBVIOUS
  <1>3. (k .. n) \ {k} = (k + 1) .. n
    BY <1>2
  <1> HIDE DEF s
  <1>4. Min(s) = k
    BY ONLY <1>1, MinOfBottom
  <1> QED BY <1>1, <1>3, <1>4 DEF s

\* The register files between the n outputs of a commit.
CommitChain(h, n, rf, q) ==
  /\ h \in [0 .. n -> RegFiles] /\ h[0] = rf /\ h[n] = CommitOutputs(rf, q)
  /\ \A k \in 1 .. n : h[k] = CommitOutput(h[k - 1], q[k])

\* The fold over the kept registers goes output by output.
LEMMA CommitFold ==
  ASSUME NEW rf \in RegFiles, NEW q \in Seq(Phys)
  PROVE  \E h : CommitChain(h, Len(q), rf, q)
PROOF
  <1> DEFINE n == Len(q)
             step == [k \in 1 .. n |-> [d \in RegFiles |-> CommitOutput(d, q[k])]]
             Folds(iter) == iter = [s \in SUBSET (DOMAIN q) |->
               IF s = {} THEN rf ELSE CommitOutput(iter[s \ {Max(s)}], q[Max(s)])]
             f == CHOOSE iter : Folds(iter)
  <1>1. CommitOutputs(rf, q) = f[DOMAIN q]
    BY Zenon DEF CommitOutputs, FoldLeft, MapThenFoldSet
  <1>0. rf \in RegFiles
    OBVIOUS
  <1>2. n \in Nat /\ DOMAIN q = 1 .. n /\ \A k \in 1 .. n : q[k] \in Phys
    BY LenProperties
  <1>3. step \in [1 .. n -> [RegFiles -> RegFiles]]
    <2>1. \A k \in 1 .. n : \A d \in RegFiles : CommitOutput(d, q[k]) \in RegFiles
      BY <1>2, CommitOutputIs
    <2> QED BY <2>1
  <1>4. \A k \in 1 .. n : \A d \in RegFiles : step[k][d] = CommitOutput(d, q[k])
    OBVIOUS
  <1> HIDE DEF step, n
  <1>5. PICK g : BuiltUp(n, RegFiles, rf, step, g)
    BY <1>0, <1>2, <1>3, FromBelow
  <1>6. Folds(g)
    <2>1. ASSUME NEW s \in SUBSET (1 .. n)
          PROVE  g[s] = IF s = {} THEN rf ELSE CommitOutput(g[s \ {Max(s)}], q[Max(s)])
      <3>1. CASE s = {}
        BY <1>5, <3>1 DEF BuiltUp
      <3>2. CASE s # {}
        <4>1. PICK k \in 1 .. n : /\ Max(s) = k /\ s \ {k} \in SUBSET (1 .. (k - 1))
                                  /\ s = (s \ {k}) \cup {k} /\ s \ {k} \in SUBSET (1 .. n)
          BY <1>2, <3>2, TopCut
        <4> DEFINE t == s \ {k}
        <4>2. g[t] \in RegFiles
          BY <1>5, <4>1 DEF BuiltUp
        <4>3. g[t \cup {k}] = step[k][g[t]]
          BY <1>5, <4>1 DEF BuiltUp
        <4>4. g[s] = CommitOutput(g[t], q[k])
          BY <1>4, <4>1, <4>2, <4>3
        <4> QED BY <1>2, <3>2, <4>1, <4>4
      <3> QED BY <3>1, <3>2
    <2>2. g = [s \in SUBSET (1 .. n) |-> g[s]]
      BY <1>5 DEF BuiltUp
    <2> QED BY <1>2, <2>1, <2>2
  <1>7. Folds(f)
    <2>1. \E iter : Folds(iter)
      BY <1>6
    <2> QED BY <2>1, Zenon
  <1> HIDE DEF f
  <1>70. \A s \in SUBSET (DOMAIN q) : f[s] = IF s = {} THEN rf ELSE CommitOutput(f[s \ {Max(s)}], q[Max(s)])
    BY <1>7
  <1> HIDE DEF Folds
  <1>8. f[{}] = rf
    BY <1>70
  <1>9. ASSUME NEW k \in 1 .. n, f[1 .. (k - 1)] \in RegFiles
        PROVE  f[1 .. k] = step[k][f[1 .. (k - 1)]]
    <2>1. Max(1 .. k) = k /\ (1 .. k) \ {k} = 1 .. (k - 1) /\ 1 .. k # {}
      <3>1. k \in Nat /\ k # 0
        BY <1>2
      <3> QED BY <3>1, TopInterval
    <2>2. 1 .. k \in SUBSET (DOMAIN q)
      BY <1>2
    <2>3. f[1 .. k] = CommitOutput(f[1 .. (k - 1)], q[k])
      BY <1>2, <1>70, <2>1, <2>2
    <2> QED BY <1>4, <1>9, <2>3
  <1>10. Follows(f, n, RegFiles, step)
    BY <1>9 DEF Follows
  <1>11. PICK h : Chain(h, n, RegFiles, rf, step) /\ h[n] = f[1 .. n]
    <2>1. n \in Nat
      BY <1>2
    <2>2. Reached(n, RegFiles, rf, step, f)
      BY <1>0, <1>3, <1>8, <1>10, <2>1, StepByStep
    <2> QED BY <2>2 DEF Reached
  <1>12. /\ h \in [0 .. n -> RegFiles] /\ h[0] = rf
         /\ \A k \in 1 .. n : h[k] = CommitOutput(h[k - 1], q[k])
    <2>1. ASSUME NEW k \in 1 .. n
          PROVE  h[k] = CommitOutput(h[k - 1], q[k])
      <3>1. h[k - 1] \in RegFiles /\ h[k] = step[k][h[k - 1]]
        BY <1>2, <1>11 DEF Chain
      <3> QED BY <1>4, <3>1
    <2> QED BY <1>11, <2>1 DEF Chain
  <1>13. CommitChain(h, n, rf, q)
    BY <1>1, <1>2, <1>11, <1>12 DEF CommitChain
  <1> QED BY <1>13 DEF n

\* A uop that has been renamed.
Renamed(u) ==
  /\ u.uinst \in Uinst
  /\ u.ph_odep \in Seq(Phys) /\ u.ph_oodep \in Seq(Phys)
  /\ Len(u.ph_odep) = Len(u.uinst.odep) /\ Len(u.ph_oodep) = Len(u.uinst.odep)

\* The outputs of a renamed uop.
LEMMA RenamedFacts ==
  ASSUME NEW u, Renamed(u)
  PROVE  /\ Len(u.ph_odep) \in Nat /\ DOMAIN u.ph_odep = 1 .. Len(u.ph_odep)
         /\ DOMAIN u.ph_oodep = 1 .. Len(u.ph_odep) /\ DOMAIN u.uinst.odep = 1 .. Len(u.ph_odep)
         /\ \A k \in 1 .. Len(u.ph_odep) :
              u.ph_odep[k] \in Phys /\ u.ph_oodep[k] \in Phys /\ u.uinst.odep[k] \in Logical
PROOF
  BY LenProperties, ElementOfSeq DEF Renamed, Uinst

\* A logical register is of a file, and resolves to a logical register.
LEMMA LogicalFacts ==
  ASSUME NEW l \in Logical
  PROVE  /\ FileOf(l) \in File
         /\ \A top \in 0 .. (StackDepth - 1) : Resolve(l, top) \in Logical
PROOF
  <1>1. FileOf(l) \in File
    BY DEF File
  <1>2. ASSUME NEW top \in 0 .. (StackDepth - 1), FileOf(l) = "fp"
        PROVE  Resolve(l, top) \in Logical
    <2>1. l[2] \in Nat
      BY NamesFit
    <2>2. (l[2] + top) % StackDepth \in 0 .. (StackDepth - 1)
      BY <2>1, NamesFit
    <2>3. <<"fp", (l[2] + top) % StackDepth>> \in {"fp"} \X (0..(StackDepth - 1))
      BY <2>2
    <2> QED BY <1>1, <1>2, <2>3, NamesFit DEF Resolve
  <1> QED BY <1>1, <1>2 DEF Resolve

\* The register files between the n outputs of an undo.
UndoChain(h, n, rf, u) ==
  /\ h \in [0 .. n -> RegFiles] /\ h[n] = rf /\ h[0] = UndoOutputs(rf, u)
  /\ \A k \in 1 .. n : h[k - 1] = UndoOutput(u, k, h[k])

\* The fold over the outputs goes from the last to the first.
LEMMA UndoFold ==
  ASSUME NEW rf \in RegFiles, NEW u, Renamed(u)
  PROVE  \E h : UndoChain(h, Len(u.ph_odep), rf, u)
PROOF
  <1> DEFINE n == Len(u.ph_odep)
             step == [k \in 1 .. n |-> [d \in RegFiles |-> UndoOutput(u, k, d)]]
             Folds(iter) == iter = [s \in SUBSET (DOMAIN [j \in DOMAIN u.ph_odep |-> j]) |->
               IF s = {} THEN rf ELSE UndoOutput(u, [j \in DOMAIN u.ph_odep |-> j][Min(s)], iter[s \ {Min(s)}])]
             f == CHOOSE iter : Folds(iter)
  <1>1. UndoOutputs(rf, u) = f[DOMAIN [j \in DOMAIN u.ph_odep |-> j]]
    BY Zenon DEF UndoOutputs, FoldRight, MapThenFoldSet
  <1>0. rf \in RegFiles
    OBVIOUS
  <1>2. /\ n \in Nat /\ DOMAIN [j \in DOMAIN u.ph_odep |-> j] = 1 .. n
        /\ \A k \in 1 .. n : [j \in DOMAIN u.ph_odep |-> j][k] = k
    BY RenamedFacts
  <1>3. step \in [1 .. n -> [RegFiles -> RegFiles]]
    <2>1. ASSUME NEW k \in 1 .. n, NEW d \in RegFiles
          PROVE  UndoOutput(u, k, d) \in RegFiles
      <3>1. d.top \in 0 .. (StackDepth - 1)
        BY RegFileIs DEF RegFiles
      <3>2. /\ u.ph_odep[k] \in Phys /\ u.ph_oodep[k] \in Phys
            /\ Resolve(u.uinst.odep[k], d.top) \in Logical
        BY <3>1, RenamedFacts, LogicalFacts
      <3> QED BY <3>2, UndoOutputIs
    <2> QED BY <2>1
  <1>4. \A k \in 1 .. n : \A d \in RegFiles : step[k][d] = UndoOutput(u, k, d)
    OBVIOUS
  <1> HIDE DEF step, n
  <1>5. PICK g : BuiltDown(n, RegFiles, rf, step, g)
    BY <1>0, <1>2, <1>3, FromAbove
  <1>6. Folds(g)
    <2>1. ASSUME NEW s \in SUBSET (1 .. n)
          PROVE  g[s] = IF s = {} THEN rf ELSE UndoOutput(u, [j \in DOMAIN u.ph_odep |-> j][Min(s)], g[s \ {Min(s)}])
      <3>1. CASE s = {}
        BY <1>5, <3>1 DEF BuiltDown
      <3>2. CASE s # {}
        <4>1. PICK k \in 1 .. n : /\ Min(s) = k /\ s \ {k} \in SUBSET ((k + 1) .. n)
                                  /\ s = (s \ {k}) \cup {k} /\ s \ {k} \in SUBSET (1 .. n)
          BY <1>2, <3>2, BottomCut
        <4> DEFINE t == s \ {k}
        <4>2. g[t] \in RegFiles
          BY <1>5, <4>1 DEF BuiltDown
        <4>3. g[t \cup {k}] = step[k][g[t]]
          BY <1>5, <4>1 DEF BuiltDown
        <4>4. g[s] = UndoOutput(u, k, g[t])
          BY <1>4, <4>1, <4>2, <4>3
        <4> QED BY <1>2, <3>2, <4>1, <4>4
      <3> QED BY <3>1, <3>2
    <2>2. g = [s \in SUBSET (1 .. n) |-> g[s]]
      BY <1>5 DEF BuiltDown
    <2> QED BY <1>2, <2>1, <2>2
  <1>7. Folds(f)
    <2>1. \E iter : Folds(iter)
      BY <1>6
    <2> QED BY <2>1, Zenon
  <1> HIDE DEF f
  <1>70. \A s \in SUBSET (DOMAIN [j \in DOMAIN u.ph_odep |-> j]) : f[s] = IF s = {} THEN rf ELSE UndoOutput(u, [j \in DOMAIN u.ph_odep |-> j][Min(s)], f[s \ {Min(s)}])
    BY <1>7
  <1> HIDE DEF Folds
  <1>8. f[{}] = rf
    BY <1>70
  <1>9. ASSUME NEW k \in 1 .. n, f[(k + 1) .. n] \in RegFiles
        PROVE  f[k .. n] = step[k][f[(k + 1) .. n]]
    <2>1. Min(k .. n) = k /\ (k .. n) \ {k} = (k + 1) .. n /\ k .. n # {}
      BY <1>2, BottomInterval
    <2>2. k .. n \in SUBSET (DOMAIN [j \in DOMAIN u.ph_odep |-> j])
      BY <1>2
    <2>3. f[k .. n] = UndoOutput(u, k, f[(k + 1) .. n])
      BY <1>2, <1>70, <2>1, <2>2
    <2> QED BY <1>4, <1>9, <2>3
  <1>10. FollowsDown(f, n, RegFiles, step)
    BY <1>9 DEF FollowsDown
  <1>11. PICK h : ChainDown(h, n, RegFiles, rf, step) /\ h[0] = f[1 .. n]
    <2>1. n \in Nat
      BY <1>2
    <2>2. ReachedDown(n, RegFiles, rf, step, f)
      BY <1>0, <1>3, <1>8, <1>10, <2>1, StepDown
    <2> QED BY <2>2 DEF ReachedDown
  <1>12. /\ h \in [0 .. n -> RegFiles] /\ h[n] = rf
         /\ \A k \in 1 .. n : h[k - 1] = UndoOutput(u, k, h[k])
    <2>1. ASSUME NEW k \in 1 .. n
          PROVE  h[k - 1] = UndoOutput(u, k, h[k])
      <3>1. h[k] \in RegFiles /\ h[k - 1] = step[k][h[k]]
        BY <1>2, <1>11 DEF ChainDown
      <3> QED BY <1>4, <3>1
    <2> QED BY <1>11, <2>1 DEF ChainDown
  <1>13. UndoChain(h, n, rf, u)
    BY <1>1, <1>2, <1>11, <1>12 DEF UndoChain
  <1> QED BY <1>13 DEF n

\* A part of a log.
LEMMA RestrictedLog ==
  ASSUME NEW log, IsLog(log), NEW S, S \subseteq DOMAIN log
  PROVE  /\ DOMAIN Restrict(log, S) = S
         /\ \A w \in S : Restrict(log, S)[w] = log[w]
         /\ \A x : Without(Restrict(log, S), x) = Restrict(log, S \ {x})
         /\ S = DOMAIN log => Restrict(log, S) = log
PROOF
  BY DEF Restrict, Without, IsLog

\* An output is a pair of numbers.
LEMMA OutputIdFacts ==
  ASSUME NEW w \in OutputIds
  PROVE  w[1] \in Nat /\ w[2] \in Nat /\ w = <<w[1], w[2]>>
PROOF
  BY DEF OutputIds

\* The log has the outputs of u as those of id i, and none besides.
LogHas(log, i, u) ==
  /\ \A w \in DOMAIN log : w[1] = i => w[2] \in 1 .. Len(u.ph_odep)
  /\ \A k \in 1 .. Len(u.ph_odep) :
       /\ <<i, k>> \in DOMAIN log
       /\ log[<<i, k>>].new = u.ph_odep[k] /\ log[<<i, k>>].old = u.ph_oodep[k]

\* The outputs of the other uops.
Others(log, i) == {w \in DOMAIN log : w[1] # i}

\* The oldest uop of the log, i, can be committed: it is of the program and
\* nothing waits for a value of its own.
Committable(rf, log, i, u) ==
  /\ Books(rf, log) /\ i \in Nat /\ Renamed(u) /\ u.specmode = FALSE /\ LogHas(log, i, u)
  /\ \A w \in DOMAIN log : w[1] >= i
  /\ \A p \in Phys : rf.pending[p] => \E w \in Others(log, i) : log[w].new = p

\* The register file keeps account of the uops but i, and nothing else changed.
Released(r, rf, log, i, top) ==
  Books(r, Restrict(log, Others(log, i))) /\ r.pending = rf.pending /\ r.top = top

\* Committing the oldest uop keeps the books and does not abort.
LEMMA CommitUop ==
  ASSUME NEW rf, NEW log, NEW i, NEW u, Committable(rf, log, i, u), NEW r, r = CommitRegs(rf, u)
  PROVE  Released(r, rf, log, i, rf.top)
PROOF
  <1> /\ Books(rf, log) /\ i \in Nat /\ Renamed(u) /\ u.specmode = FALSE /\ LogHas(log, i, u)
      /\ \A w \in DOMAIN log : w[1] >= i
      /\ \A p \in Phys : rf.pending[p] => \E w \in Others(log, i) : log[w].new = p
    BY DEF Committable
  <1> DEFINE q == u.ph_oodep
             n == Len(u.ph_odep)
             S(k) == {w \in DOMAIN log : w[1] # i \/ w[2] > k}
  <1>1. /\ q \in Seq(Phys) /\ Len(q) = n /\ n \in Nat /\ \A k \in 1 .. n : q[k] \in Phys
        /\ rf \in RegFiles /\ IsLog(log) /\ DOMAIN log \subseteq OutputIds
    BY BooksFacts, RenamedFacts DEF Renamed, Books, IsLog
  <1>2. PICK h : CommitChain(h, n, rf, q)
    <2>1. \E h : CommitChain(h, Len(q), rf, q)
      BY <1>1, CommitFold
    <2> QED BY <1>1, <2>1
  <1>20. /\ h \in [0 .. n -> RegFiles] /\ h[0] = rf /\ h[n] = CommitOutputs(rf, q)
         /\ \A k \in 1 .. n : h[k] = CommitOutput(h[k - 1], q[k])
    BY <1>2 DEF CommitChain
  <1> DEFINE P(k) == Books(h[k], Restrict(log, S(k))) /\ h[k].pending = rf.pending /\ h[k].top = rf.top
             T == {k \in 0 .. n : P(k)}
  <1>3. \A w \in DOMAIN log : w[1] \in Nat /\ w[2] \in Nat /\ w = <<w[1], w[2]>> /\ (w[1] = i => w[2] \in 1 .. n)
    BY <1>1, OutputIdFacts DEF LogHas
  <1>4. \A k : S(k) \subseteq DOMAIN log
    OBVIOUS
  <1>5. 0 \in T
    <2>1. S(0) = DOMAIN log
      <3>1. ASSUME NEW w \in DOMAIN log
            PROVE  w \in S(0)
        BY <1>3
      <3> QED BY <3>1
    <2> HIDE DEF S
    <2>2. Restrict(log, S(0)) = log
      BY <1>1, <2>1, RestrictedLog
    <2> QED BY <1>1, <1>20, <2>2
  <1>6. ASSUME NEW k \in 1 .. n, k - 1 \in T
        PROVE  k \in T
    <2> DEFINE x == <<i, k>>
               L == Restrict(log, S(k - 1))
    <2>1. x \in DOMAIN log /\ log[x].old = q[k] /\ x[1] = i /\ x[2] = k
      BY DEF LogHas
    <2>2. x \in S(k - 1)
      BY <2>1
    <2>3. \A w \in S(k - 1) : w = x \/ Earlier(x, w)
      BY <1>3, <2>1 DEF Earlier
    <2>4. S(k - 1) \ {x} = S(k)
      BY <1>3, <2>1
    <2>5. Others(log, i) \subseteq S(k - 1) \ {x}
      BY <2>1 DEF Others
    <2> HIDE DEF S, x
    <2>6. /\ DOMAIN L = S(k - 1) /\ \A w \in S(k - 1) : L[w] = log[w]
          /\ Without(L, x) = Restrict(log, S(k))
      BY <1>1, <1>4, <2>4, RestrictedLog
    <2> HIDE DEF L
    <2>7. Books(h[k - 1], L) /\ h[k - 1].pending = rf.pending /\ h[k - 1].top = rf.top
      BY <1>6 DEF L
    <2>8. h[k - 1].pending[q[k]] => \E w \in DOMAIN L \ {x} : L[w].new = q[k]
      BY <1>1, <2>5, <2>6, <2>7
    <2>9. h[k] = CommitOutput(h[k - 1], q[k])
      BY <1>20
    <2>10. Books(h[k], Without(L, x)) /\ h[k].pending = h[k - 1].pending /\ h[k].top = h[k - 1].top
      BY <2>1, <2>2, <2>3, <2>6, <2>7, <2>8, <2>9, CommitStep
    <2> QED BY <2>6, <2>7, <2>10
  <1> HIDE DEF T
  <1>7. \A k \in 0 .. n : k \in T
    BY <1>1, <1>5, <1>6, UpTo
  <1>8. P(n)
    <2>1. n \in 0 .. n
      BY <1>1
    <2>2. n \in T
      BY <1>7, <2>1
    <2> HIDE DEF P
    <2> QED BY <2>2, Zenon DEF T
  <1>9. S(n) = Others(log, i)
    <2>1. ASSUME NEW w
          PROVE  w \in S(n) <=> w \in Others(log, i)
      <3>1. CASE w \in DOMAIN log
        <4>1. w[1] = i => ~(w[2] > n)
          BY <1>1, <1>3, <3>1
        <4> QED BY <4>1, <3>1 DEF Others
      <3>2. CASE w \notin DOMAIN log
        BY <3>2 DEF Others
      <3> QED BY <3>1, <3>2
    <2> HIDE DEF S
    <2> QED BY <2>1
  <1> HIDE DEF S
  <1> DEFINE d == h[n]
  <1>10. d \in RegFiles /\ d = CommitOutputs(rf, u.ph_oodep)
    BY <1>1, <1>20
  <1>11. Books(d, Restrict(log, Others(log, i))) /\ d.pending = rf.pending /\ d.top = rf.top
    BY <1>8, <1>9
  <1> HIDE DEF d
  <1>12. /\ r \in RegFiles /\ r.pending = d.pending /\ r.top = d.top
         /\ r.rat = d.rat /\ r.busy = d.busy /\ r.free = d.free
         /\ r.ok = (d.ok /\ ~u.specmode)
    <2>1. u.specmode \in BOOLEAN
      OBVIOUS
    <2> QED BY <1>10, <2>1, CommitRegsIs
  <1> QED BY <1>11, <1>12 DEF Books, Released

\* The names of the outputs of u are those of its entries when the FP stack has this top.
NamedAt(log, i, u, top) ==
  \A k \in 1 .. Len(u.ph_odep) : log[<<i, k>>].to = Resolve(u.uinst.odep[k], top)

\* No output of u is awaited.
NonePending(rf, u) == \A k \in 1 .. Len(u.ph_odep) : ~rf.pending[u.ph_odep[k]]

\* The youngest uop of the log, i, can be undone: it is of the wrong path and
\* its values came, or never will.
Undoable(rf, log, i, u) ==
  /\ Books(rf, log) /\ i \in Nat /\ Renamed(u) /\ u.specmode = TRUE /\ LogHas(log, i, u)
  /\ \A w \in DOMAIN log : w[1] <= i
  /\ NamedAt(log, i, u, rf.top) /\ NonePending(rf, u)

\* The top of the FP stack before a uop moved it.
TopBefore(top, u) == (top + StackDepth - Shift(u.uinst.op)) % StackDepth

\* Undoing the youngest uop keeps the books and does not abort.
LEMMA UndoUop ==
  ASSUME NEW rf, NEW log, NEW i, NEW u, Undoable(rf, log, i, u),
         NEW top \in 0 .. (StackDepth - 1), top = TopBefore(rf.top, u),
         NEW r, r = Undo(rf, u)
  PROVE  Released(r, rf, log, i, top)
PROOF
  <1> /\ Books(rf, log) /\ i \in Nat /\ Renamed(u) /\ u.specmode = TRUE /\ LogHas(log, i, u)
      /\ \A w \in DOMAIN log : w[1] <= i
      /\ NamedAt(log, i, u, rf.top) /\ NonePending(rf, u)
    BY DEF Undoable
  <1> DEFINE n == Len(u.ph_odep)
             S(k) == {w \in DOMAIN log : w[1] # i \/ w[2] <= k}
  <1>1. /\ n \in Nat /\ rf \in RegFiles /\ IsLog(log) /\ DOMAIN log \subseteq OutputIds
    BY BooksFacts, RenamedFacts DEF Books, IsLog
  <1>2. PICK h : UndoChain(h, n, rf, u)
    BY <1>1, UndoFold
  <1>20. /\ h \in [0 .. n -> RegFiles] /\ h[n] = rf /\ h[0] = UndoOutputs(rf, u)
         /\ \A k \in 1 .. n : h[k - 1] = UndoOutput(u, k, h[k])
    BY <1>2 DEF UndoChain
  <1> DEFINE P(k) == Books(h[k], Restrict(log, S(k))) /\ h[k].pending = rf.pending /\ h[k].top = rf.top
             T == {k \in 0 .. n : P(n - k)}
  <1>3. \A w \in DOMAIN log : w[1] \in Nat /\ w[2] \in Nat /\ w = <<w[1], w[2]>> /\ (w[1] = i => w[2] \in 1 .. n)
    BY <1>1, OutputIdFacts DEF LogHas
  <1>4. \A k : S(k) \subseteq DOMAIN log
    OBVIOUS
  <1>5. 0 \in T
    <2>1. S(n) = DOMAIN log
      <3>1. ASSUME NEW w \in DOMAIN log
            PROVE  w \in S(n)
        BY <1>1, <1>3
      <3> QED BY <3>1
    <2> HIDE DEF S
    <2>2. Restrict(log, S(n)) = log
      BY <1>1, <2>1, RestrictedLog
    <2>3. P(n) /\ n - 0 = n /\ 0 \in 0 .. n
      BY <1>1, <1>20, <2>2
    <2> HIDE DEF P
    <2> QED BY <2>3
  <1>6. ASSUME NEW j \in 1 .. n, j - 1 \in T
        PROVE  j \in T
    <2> DEFINE k == n - (j - 1)
               x == <<i, k>>
               L == Restrict(log, S(k))
    <2>0. k \in 1 .. n /\ n - j = k - 1 /\ k \in Nat
      BY <1>1
    <2>00. P(k)
      BY <1>6
    <2> HIDE DEF k
    <2>1. /\ x \in DOMAIN log /\ log[x].new = u.ph_odep[k] /\ log[x].old = u.ph_oodep[k]
          /\ log[x].to = Resolve(u.uinst.odep[k], rf.top) /\ ~rf.pending[u.ph_odep[k]]
          /\ x[1] = i /\ x[2] = k
      BY <2>0 DEF LogHas, NamedAt, NonePending
    <2>2. x \in S(k)
      BY <2>0, <2>1
    <2>3. \A w \in S(k) : w = x \/ Earlier(w, x)
      BY <1>3, <2>0, <2>1 DEF Earlier
    <2>4. S(k) \ {x} = S(k - 1)
      BY <1>3, <2>0, <2>1
    <2> HIDE DEF S, x
    <2>6. /\ DOMAIN L = S(k) /\ \A w \in S(k) : L[w] = log[w]
          /\ Without(L, x) = Restrict(log, S(k - 1))
      BY <1>1, <1>4, <2>4, RestrictedLog
    <2>7. Books(h[k], L) /\ h[k].pending = rf.pending /\ h[k].top = rf.top
      BY <2>00
    <2> HIDE DEF L, P
    <2>9. h[k - 1] = UndoOutput(u, k, h[k])
      BY <1>20, <2>0
    <2> DEFINE d == h[k]
               e == h[k - 1]
    <2>90. /\ Books(d, L) /\ x \in DOMAIN L /\ (\A w \in DOMAIN L : w = x \/ Earlier(w, x))
           /\ L[x].new = u.ph_odep[k] /\ L[x].old = u.ph_oodep[k]
           /\ L[x].to = Resolve(u.uinst.odep[k], d.top) /\ ~d.pending[L[x].new]
           /\ e = UndoOutput(u, k, d) /\ d.pending = rf.pending /\ d.top = rf.top
      BY <2>1, <2>2, <2>3, <2>6, <2>7, <2>9
    <2> HIDE DEF d, e
    <2>10. Books(e, Without(L, x)) /\ e.pending = d.pending /\ e.top = d.top
      BY <2>90, UndoStep
    <2>11. P(k - 1)
      BY <2>6, <2>90, <2>10 DEF P, e
    <2> QED BY <2>0, <2>11
  <1> HIDE DEF T
  <1>7. \A k \in 0 .. n : k \in T
    BY <1>1, <1>5, <1>6, UpTo
  <1>8. P(0)
    <2>1. n \in 0 .. n /\ n - n = 0
      BY <1>1
    <2>2. n \in T
      BY <1>7, <2>1
    <2> HIDE DEF P, n
    <2> QED BY <2>1, <2>2 DEF T
  <1>9. S(0) = Others(log, i)
    <2>1. ASSUME NEW w
          PROVE  w \in S(0) <=> w \in Others(log, i)
      <3>1. CASE w \in DOMAIN log
        <4>1. w[1] = i => ~(w[2] <= 0)
          BY <1>1, <1>3, <3>1
        <4> QED BY <4>1, <3>1 DEF Others
      <3>2. CASE w \notin DOMAIN log
        BY <3>2 DEF Others
      <3> QED BY <3>1, <3>2
    <2> HIDE DEF S
    <2> QED BY <2>1
  <1> HIDE DEF S
  <1> DEFINE d == h[0]
  <1>10. d \in RegFiles /\ d = UndoOutputs(rf, u)
    BY <1>1, <1>20
  <1>11. Books(d, Restrict(log, Others(log, i))) /\ d.pending = rf.pending /\ d.top = rf.top
    BY <1>8, <1>9
  <1> HIDE DEF d
  <1>12. /\ r \in RegFiles /\ r.pending = d.pending /\ r.top = top
         /\ r.rat = d.rat /\ r.busy = d.busy /\ r.free = d.free
         /\ r.ok = (d.ok /\ u.specmode)
    <2>1. u.specmode \in BOOLEAN /\ top = (d.top + StackDepth - Shift(u.uinst.op)) % StackDepth
      BY <1>11 DEF TopBefore
    <2> QED BY <1>10, <2>1, UndoIs
  <1> QED BY <1>11, <1>12 DEF Books, Released

(***************************************************************************)
(* Renaming a uop                                                          *)
(***************************************************************************)

\* A sequence without its last member.
LEMMA FrontLast ==
  ASSUME NEW S, NEW s \in Seq(S), s # <<>>
  PROVE  /\ Front(s) \in Seq(S) /\ Len(Front(s)) = Len(s) - 1 /\ Last(s) \in S
         /\ IsInjective(s) => /\ IsInjective(Front(s)) /\ Last(s) \in ToSet(s)
                              /\ ToSet(Front(s)) = ToSet(s) \ {Last(s)}
PROOF
  <1> DEFINE n == Len(s)
             t == Front(s)
  <1>1. n \in Nat /\ n >= 1 /\ DOMAIN s = 1 .. n /\ \A i \in 1 .. n : s[i] \in S
    BY LenProperties, EmptySeq
  <1>2. t \in Seq(S) /\ Len(t) = n - 1 /\ \A i \in 1 .. (n - 1) : t[i] = s[i]
    BY <1>1 DEF Front
  <1>3. Last(s) = s[n] /\ n \in 1 .. n
    BY <1>1 DEF Last
  <1> HIDE DEF n, t
  <1>4. DOMAIN t = 1 .. (n - 1)
    BY <1>2, LenProperties
  <1>5. ASSUME IsInjective(s)
        PROVE  IsInjective(t) /\ s[n] \in ToSet(s) /\ ToSet(t) = ToSet(s) \ {s[n]}
    <2>1. \A i, j \in 1 .. n : s[i] = s[j] => i = j
      BY <1>1, <1>5 DEF IsInjective
    <2>2. \A i \in 1 .. (n - 1) : i \in 1 .. n /\ i # n
      BY <1>1
    <2>3. IsInjective(t)
      BY <1>2, <1>4, <2>1, <2>2 DEF IsInjective
    <2>4. ASSUME NEW y
          PROVE  y \in ToSet(t) <=> y \in ToSet(s) \ {s[n]}
      <3>1. y \in ToSet(t) <=> \E i \in 1 .. (n - 1) : s[i] = y
        BY <1>2, <1>4 DEF ToSet
      <3>2. y \in ToSet(s) <=> \E i \in 1 .. n : s[i] = y
        BY <1>1 DEF ToSet
      <3>3. \A i \in 1 .. n : i # n => i \in 1 .. (n - 1)
        BY <1>1
      <3> QED BY <1>3, <2>1, <2>2, <3>1, <3>2, <3>3
    <2> QED BY <1>1, <1>3, <2>3, <2>4 DEF ToSet
  <1>6. IsInjective(s) => IsInjective(t) /\ Last(s) \in ToSet(s) /\ ToSet(t) = ToSet(s) \ {Last(s)}
    BY <1>3, <1>5
  <1> QED BY <1>1, <1>2, <1>3, <1>6 DEF n, t

\* What X86ThreadRequestIntReg() and its likes leave when there is a free register.
Popped(free, f) == [free EXCEPT ![f] = Front(free[f])]

\* What requesting a register changes, and when it aborts.
LEMMA RequestIs ==
  ASSUME NEW R, NEW rf \in RegFileOver(R), NEW f \in File, NEW r, r = Request(rf, f)
  PROVE  /\ r \in RegFileOver(R)
         /\ r.rat = rf.rat /\ r.pending = rf.pending /\ r.top = rf.top /\ r.busy = rf.busy
         /\ rf.free[f] # <<>> =>
              /\ r.free = Popped(rf.free, f)
              /\ r.ok = (rf.ok /\ rf.busy[Last(rf.free[f])] = 0 /\ ~rf.pending[Last(rf.free[f])])
         /\ rf.free[f] = <<>> => r.free = rf.free
PROOF
  <1>0. HasFields(rf) /\ rf.free \in [File -> Seq(Phys)]
    BY RegFileIs
  <1>00. /\ rf.rat \in [Logical -> R] /\ rf.busy \in [Phys -> Int]
         /\ rf.pending \in [Phys -> BOOLEAN] /\ rf.top \in 0 .. (StackDepth - 1)
    BY RegFileIs
  <1>1. CASE rf.free[f] = <<>>
    <2> DEFINE ok == FALSE
    <2>1. r = [rf EXCEPT !.ok = ok]
      BY <1>1 DEF Request
    <2>2. ok \in BOOLEAN
      OBVIOUS
    <2> HIDE DEF ok
    <2> DEFINE c1 == [rf EXCEPT !.ok = ok]
    <2>3. SameBut(c1, rf, "ok") /\ c1.ok = ok
      BY ONLY <1>0, FieldSet
    <2> HIDE DEF c1
    <2>4. HasFields(c1)
      BY <2>3 DEF SameBut
    <2>5. r = c1
      BY <2>1 DEF c1
    <2>6. HasFields(r) /\ r.rat = rf.rat /\ r.free = rf.free /\ r.busy = rf.busy /\ r.pending = rf.pending /\ r.top = rf.top /\ r.ok = ok
      BY <2>3, <2>4, <2>5 DEF SameBut
    <2>7. r \in RegFileOver(R)
      BY ONLY <1>0, <1>00, <2>2, <2>6, RegFileIs
    <2> QED BY <1>1, <2>6, <2>7
  <1>2. CASE rf.free[f] # <<>>
    <2> DEFINE free == [rf.free EXCEPT ![f] = Front(rf.free[f])]
               ok == rf.ok /\ rf.busy[Last(rf.free[f])] = 0 /\ ~rf.pending[Last(rf.free[f])]
    <2>1. r = [rf EXCEPT !.free = free, !.ok = ok]
      BY <1>2 DEF Request
    <2>2. ok \in BOOLEAN
      OBVIOUS
    <2>3. free \in [File -> Seq(Phys)]
      <3>1. Front(rf.free[f]) \in Seq(Phys)
        BY <1>0, <1>2, FrontLast
      <3> QED BY <1>0, <3>1
    <2>30. free = Popped(rf.free, f)
      BY DEF Popped
    <2>31. ok = (rf.ok /\ rf.busy[Last(rf.free[f])] = 0 /\ ~rf.pending[Last(rf.free[f])])
      OBVIOUS
    <2> HIDE DEF ok, free
    <2> DEFINE c1 == [rf EXCEPT !.free = free]
    <2>4. SameBut(c1, rf, "free") /\ c1.free = free
      BY ONLY <1>0, FieldSet
    <2> HIDE DEF c1
    <2>5. HasFields(c1)
      BY <2>4 DEF SameBut
    <2> DEFINE c2 == [c1 EXCEPT !.ok = ok]
    <2>6. SameBut(c2, c1, "ok") /\ c2.ok = ok
      BY ONLY <2>5, FieldSet
    <2> HIDE DEF c2
    <2>7. HasFields(c2)
      BY <2>6 DEF SameBut
    <2>8. r = c2
      BY <2>1 DEF c1, c2
    <2>9. HasFields(r) /\ r.rat = rf.rat /\ r.free = free /\ r.busy = rf.busy /\ r.pending = rf.pending /\ r.top = rf.top /\ r.ok = ok
      BY <2>4, <2>5, <2>6, <2>7, <2>8 DEF SameBut
    <2>10. r \in RegFileOver(R)
      BY ONLY <1>00, <2>2, <2>3, <2>9, RegFileIs
    <2> QED BY <1>2, <2>30, <2>31, <2>9, <2>10
  <1> QED BY <1>1, <1>2

\* A register is mapped, its value to come.
MapsPending(r, rf, l, p) == r = [rf EXCEPT !.busy[p] = @ + 1, !.pending[p] = TRUE, !.rat[l] = p]

\* Renaming an output to a register, field by field.
LEMMA MapPendingIs ==
  ASSUME NEW rf \in RegFileOver(Phys), NEW p \in Phys, NEW l \in Logical,
         NEW r, MapsPending(r, rf, l, p)
  PROVE  /\ r \in RegFileOver(Phys)
         /\ r.free = rf.free /\ r.top = rf.top /\ r.ok = rf.ok
         /\ r.busy = [rf.busy EXCEPT ![p] = rf.busy[p] + 1]
         /\ r.pending = [rf.pending EXCEPT ![p] = TRUE]
         /\ r.rat = [rf.rat EXCEPT ![l] = p]
PROOF
  <1> DEFINE busy == [rf.busy EXCEPT ![p] = rf.busy[p] + 1]
             pending == [rf.pending EXCEPT ![p] = TRUE]
             rat == [rf.rat EXCEPT ![l] = p]
  <1>1. HasFields(rf)
    BY RegFileIs
  <1>01. /\ rf.rat \in [Logical -> Phys] /\ rf.busy \in [Phys -> Int] /\ rf.free \in [File -> Seq(Phys)]
         /\ rf.pending \in [Phys -> BOOLEAN] /\ rf.top \in 0 .. (StackDepth - 1) /\ rf.ok \in BOOLEAN
    BY RegFileIs
  <1>2. r = [rf EXCEPT !.busy = busy, !.pending = pending, !.rat = rat]
    BY DEF MapsPending
  <1>3. /\ busy \in [Phys -> Int] /\ rat \in [Logical -> Phys] /\ pending \in [Phys -> BOOLEAN]
    BY <1>01
  <1> HIDE DEF busy, pending, rat
  <1> DEFINE c1 == [rf EXCEPT !.busy = busy]
  <1>4. SameBut(c1, rf, "busy") /\ c1.busy = busy
    BY ONLY <1>1, FieldSet
  <1> HIDE DEF c1
  <1>5. HasFields(c1)
    BY <1>4 DEF SameBut
  <1> DEFINE c2 == [c1 EXCEPT !.pending = pending]
  <1>6. SameBut(c2, c1, "pending") /\ c2.pending = pending
    BY ONLY <1>5, FieldSet
  <1> HIDE DEF c2
  <1>7. HasFields(c2)
    BY <1>6 DEF SameBut
  <1> DEFINE c3 == [c2 EXCEPT !.rat = rat]
  <1>8. SameBut(c3, c2, "rat") /\ c3.rat = rat
    BY ONLY <1>7, FieldSet
  <1> HIDE DEF c3
  <1>9. HasFields(c3)
    BY <1>8 DEF SameBut
  <1>10. r = c3
    BY <1>2 DEF c1, c2, c3
  <1>11. HasFields(r) /\ r.rat = rat /\ r.free = rf.free /\ r.busy = busy /\ r.pending = pending /\ r.top = rf.top /\ r.ok = rf.ok
    BY <1>4, <1>5, <1>6, <1>7, <1>8, <1>9, <1>10 DEF SameBut
  <1>12. r \in RegFileOver(Phys)
    BY ONLY <1>01, <1>3, <1>11, RegFileIs
  <1> QED BY <1>11, <1>12 DEF busy, pending, rat

\* A register is mapped at reset.
Maps(r, rf, l, p) == r = [rf EXCEPT !.busy[p] = @ + 1, !.rat[l] = p]

\* The same at reset.
LEMMA MapIs ==
  ASSUME NEW R, NEW rf \in RegFileOver(R), NEW p \in R, NEW l \in Logical,
         NEW r, Maps(r, rf, l, p)
  PROVE  /\ r \in RegFileOver(R)
         /\ r.free = rf.free /\ r.top = rf.top /\ r.ok = rf.ok
         /\ r.busy = [rf.busy EXCEPT ![p] = rf.busy[p] + 1]
         /\ r.pending = rf.pending
         /\ r.rat = [rf.rat EXCEPT ![l] = p]
PROOF
  <1> DEFINE busy == [rf.busy EXCEPT ![p] = rf.busy[p] + 1]
             rat == [rf.rat EXCEPT ![l] = p]
  <1>1. HasFields(rf)
    BY RegFileIs
  <1>01. /\ rf.rat \in [Logical -> R] /\ rf.busy \in [Phys -> Int] /\ rf.free \in [File -> Seq(Phys)]
         /\ rf.pending \in [Phys -> BOOLEAN] /\ rf.top \in 0 .. (StackDepth - 1) /\ rf.ok \in BOOLEAN
    BY RegFileIs
  <1>2. r = [rf EXCEPT !.busy = busy, !.rat = rat]
    BY DEF Maps
  <1>3. /\ busy \in [Phys -> Int] /\ rat \in [Logical -> R]
    <2>1. \A x \in Phys : busy[x] = (IF x = p THEN rf.busy[x] + 1 ELSE rf.busy[x])
      BY <1>01
    <2>2. \A x \in Phys : busy[x] \in Int
      BY <1>01, <2>1
    <2> QED BY <1>01, <2>2
  <1> HIDE DEF busy, rat
  <1> DEFINE c1 == [rf EXCEPT !.busy = busy]
  <1>4. SameBut(c1, rf, "busy") /\ c1.busy = busy
    BY ONLY <1>1, FieldSet
  <1> HIDE DEF c1
  <1>5. HasFields(c1)
    BY <1>4 DEF SameBut
  <1> DEFINE c2 == [c1 EXCEPT !.rat = rat]
  <1>6. SameBut(c2, c1, "rat") /\ c2.rat = rat
    BY ONLY <1>5, FieldSet
  <1> HIDE DEF c2
  <1>7. HasFields(c2)
    BY <1>6 DEF SameBut
  <1>8. r = c2
    BY <1>2 DEF c1, c2
  <1>9. HasFields(r) /\ r.rat = rat /\ r.free = rf.free /\ r.busy = busy /\ r.pending = rf.pending /\ r.top = rf.top /\ r.ok = rf.ok
    BY <1>4, <1>5, <1>6, <1>7, <1>8 DEF SameBut
  <1>10. r \in RegFileOver(R)
    BY ONLY <1>01, <1>3, <1>9, RegFileIs
  <1> QED BY <1>9, <1>10 DEF busy, rat

\* A request returns a physical register.
LEMMA RequestedIs ==
  ASSUME NEW R, NEW rf \in RegFileOver(R), NEW f \in File
  PROVE  Requested(rf, f) \in Phys
PROOF
  <1>1. CASE rf.free[f] = <<>>
    <2>1. PICK l \in Logical : FileOf(l) = f
      BY DEF File
    <2> DEFINE S == {k \in Logical : FileOf(k) = f}
    <2>2. IsFiniteSet(S) /\ l \in S
      BY <2>1, LogicalFinite, FS_Subset
    <2> HIDE DEF S
    <2>3. Cardinality(S) \in Nat /\ Cardinality(S) # 0
      BY <2>2, FS_EmptySet, FS_CardinalityType
    <2>4. FileSize[f] \in Nat /\ FileSize[f] >= 1
      BY <2>3, FilesFit DEF S
    <2>5. <<f, 1>> \in {f} \X (1 .. FileSize[f])
      BY <2>4
    <2>6. <<f, 1>> \in Phys
      BY <2>5 DEF Phys
    <2> QED BY <1>1, <2>6 DEF Requested
  <1>2. CASE rf.free[f] # <<>>
    <2>1. rf.free \in [File -> Seq(Phys)]
      BY RegFileIs
    <2>2. Last(rf.free[f]) \in Phys
      BY <1>2, <2>1, FrontLast
    <2> QED BY <1>2, <2>2 DEF Requested
  <1> QED BY <1>1, <1>2

\* What the loop over the outputs of a uop has when it renames one.
Accs == [rf : RegFiles, odep : Seq(Phys), oodep : Seq(Phys), first : Phys \cup {NoReg}]

\* r is what acc becomes when its next output, l, is renamed to p.
Shares(acc, l) == l \in Flag /\ acc.first # NoReg

\* ... the fields that change in either case,
RenamesTo(r, acc, l, p) ==
  /\ r.odep = Append(acc.odep, p)
  /\ r.oodep = Append(acc.oodep, acc.rf.rat[Resolve(l, acc.rf.top)])
  /\ r.first = (IF FileOf(l) = "int" /\ acc.first = NoReg THEN p ELSE acc.first)
  /\ r.rf.top = acc.rf.top
  /\ r.rf.rat = [acc.rf.rat EXCEPT ![Resolve(l, acc.rf.top)] = p]
  /\ r.rf.busy = [acc.rf.busy EXCEPT ![p] = acc.rf.busy[p] + 1]
  /\ r.rf.pending = [acc.rf.pending EXCEPT ![p] = TRUE]

\* ... when a flag shares the register of the first integer output,
SharesWith(r, acc, l, p) ==
  Shares(acc, l) => p = acc.first /\ r.rf.free = acc.rf.free /\ r.rf.ok = acc.rf.ok

\* ... and when the output takes one off the free list.
TakesOwn(r, acc, l, p) ==
  ~Shares(acc, l) /\ acc.rf.free[FileOf(l)] # <<>> =>
    /\ p = Last(acc.rf.free[FileOf(l)])
    /\ r.rf.free = Popped(acc.rf.free, FileOf(l))
    /\ r.rf.ok = (acc.rf.ok /\ acc.rf.busy[p] = 0 /\ ~acc.rf.pending[p])

\* What the loop has is a record of four typed fields.
LEMMA AccIs ==
  ASSUME NEW r
  PROVE  r \in Accs <=> /\ r = [rf |-> r.rf, odep |-> r.odep, oodep |-> r.oodep, first |-> r.first]
                        /\ r.rf \in RegFiles /\ r.odep \in Seq(Phys) /\ r.oodep \in Seq(Phys)
                        /\ r.first \in Phys \cup {NoReg}
PROOF
  BY DEF Accs

\* Renaming one output does one of the two.
LEMMA RenameOutputIs ==
  ASSUME NEW acc \in Accs, NEW l \in Logical, NEW r, r = RenameOutput(acc, l)
  PROVE  /\ r \in Accs
         /\ \E p \in Phys : RenamesTo(r, acc, l, p) /\ SharesWith(r, acc, l, p) /\ TakesOwn(r, acc, l, p)
PROOF
  <1> DEFINE f == FileOf(l)
             to == Resolve(l, acc.rf.top)
             base == IF Shares(acc, l) THEN acc.rf ELSE Request(acc.rf, f)
             p == IF Shares(acc, l) THEN acc.first ELSE Requested(acc.rf, f)
             d == [base EXCEPT !.busy[p] = @ + 1, !.pending[p] = TRUE, !.rat[to] = p]
             first == IF f = "int" /\ acc.first = NoReg THEN p ELSE acc.first
  <1>1. /\ acc.rf \in RegFileOver(Phys) /\ acc.odep \in Seq(Phys) /\ acc.oodep \in Seq(Phys)
        /\ acc.first \in Phys \cup {NoReg}
    BY AccIs DEF RegFiles
  <1>2. /\ acc.rf.rat \in [Logical -> Phys] /\ acc.rf.free \in [File -> Seq(Phys)]
        /\ acc.rf.top \in 0 .. (StackDepth - 1)
    BY <1>1, RegFileIs
  <1>3. f \in File /\ to \in Logical /\ acc.rf.rat[to] \in Phys
    BY <1>2, LogicalFacts
  <1>4. p \in Phys
    BY <1>1, <1>3, RequestedIs DEF Shares
  <1>5. /\ base \in RegFileOver(Phys) /\ base.rat = acc.rf.rat /\ base.pending = acc.rf.pending
        /\ base.top = acc.rf.top /\ base.busy = acc.rf.busy
    <2>1. CASE Shares(acc, l)
      BY <1>1, <2>1
    <2>2. CASE ~Shares(acc, l)
      BY <1>1, <1>3, <2>2, RequestIs
    <2> QED BY <2>1, <2>2
  <1>6. r = [rf |-> d, odep |-> Append(acc.odep, p), oodep |-> Append(acc.oodep, acc.rf.rat[to]), first |-> first]
    BY DEF RenameOutput, Shares
  <1>7. ~Shares(acc, l) /\ acc.rf.free[f] # <<>> =>
          /\ p = Last(acc.rf.free[f]) /\ base.free = Popped(acc.rf.free, f)
          /\ base.ok = (acc.rf.ok /\ acc.rf.busy[Last(acc.rf.free[f])] = 0 /\ ~acc.rf.pending[Last(acc.rf.free[f])])
    <2> SUFFICES ASSUME ~Shares(acc, l), acc.rf.free[f] # <<>>
                 PROVE  /\ p = Last(acc.rf.free[f]) /\ base.free = Popped(acc.rf.free, f)
                        /\ base.ok = (acc.rf.ok /\ acc.rf.busy[Last(acc.rf.free[f])] = 0 /\ ~acc.rf.pending[Last(acc.rf.free[f])])
      OBVIOUS
    <2>1. p = Last(acc.rf.free[f])
      BY DEF Requested
    <2>2. base = Request(acc.rf, f)
      OBVIOUS
    <2> HIDE DEF base, p
    <2> QED BY <1>1, <1>3, <2>1, <2>2, RequestIs
  <1>8. Shares(acc, l) => p = acc.first /\ base = acc.rf
    OBVIOUS
  <1> HIDE DEF base, p
  <1>9. /\ d \in RegFileOver(Phys)
        /\ d.free = base.free /\ d.top = base.top /\ d.ok = base.ok
        /\ d.busy = [base.busy EXCEPT ![p] = base.busy[p] + 1]
        /\ d.pending = [base.pending EXCEPT ![p] = TRUE]
        /\ d.rat = [base.rat EXCEPT ![to] = p]
    <2>1. MapsPending(d, base, to, p)
      BY DEF MapsPending
    <2>2. base \in RegFileOver(Phys) /\ p \in Phys /\ to \in Logical
      BY <1>3, <1>4, <1>5
    <2> HIDE DEF d, to, f
    <2> QED BY ONLY <2>1, <2>2, MapPendingIs
  <1>10. first \in Phys \cup {NoReg} /\ Append(acc.odep, p) \in Seq(Phys) /\ Append(acc.oodep, acc.rf.rat[to]) \in Seq(Phys)
    BY <1>1, <1>3, <1>4
  <1> HIDE DEF d
  <1>11. r.rf = d /\ r.odep = Append(acc.odep, p) /\ r.oodep = Append(acc.oodep, acc.rf.rat[to]) /\ r.first = first
    BY <1>6
  <1>12. r \in Accs
    BY <1>6, <1>9, <1>10, <1>11, AccIs DEF RegFiles
  <1>13. RenamesTo(r, acc, l, p)
    <2>1. /\ r.odep = Append(acc.odep, p) /\ r.oodep = Append(acc.oodep, acc.rf.rat[to])
          /\ r.first = first /\ r.rf.top = acc.rf.top
      BY <1>5, <1>9, <1>11
    <2>2. /\ r.rf.rat = [acc.rf.rat EXCEPT ![to] = p]
          /\ r.rf.busy = [acc.rf.busy EXCEPT ![p] = acc.rf.busy[p] + 1]
          /\ r.rf.pending = [acc.rf.pending EXCEPT ![p] = TRUE]
      BY ONLY <1>5, <1>9, <1>11
    <2> QED BY ONLY <2>1, <2>2 DEF RenamesTo, first, f, to
  <1>14. SharesWith(r, acc, l, p)
    BY <1>8, <1>9, <1>11 DEF SharesWith
  <1>15. TakesOwn(r, acc, l, p)
    BY <1>7, <1>9, <1>11 DEF TakesOwn
  <1> HIDE DEF first, f, to
  <1> QED BY <1>4, <1>12, <1>13, <1>14, <1>15

\* What the loop starts from.
NoOutputs(rf) == [rf |-> rf, odep |-> <<>>, oodep |-> <<>>, first |-> NoReg]

\* What the loop has between the n outputs of a renaming.
RenameChain(h, n, rf, q) ==
  /\ h \in [0 .. n -> Accs] /\ h[0] = NoOutputs(rf) /\ h[n] = RenameOutputs(rf, q)
  /\ \A k \in 1 .. n : h[k] = RenameOutput(h[k - 1], q[k])

\* The fold over the outputs goes output by output.
LEMMA RenameFold ==
  ASSUME NEW rf \in RegFiles, NEW q \in Seq(Logical)
  PROVE  \E h : RenameChain(h, Len(q), rf, q)
PROOF
  <1> DEFINE n == Len(q)
             step == [k \in 1 .. n |-> [d \in Accs |-> RenameOutput(d, q[k])]]
             Folds(iter) == iter = [s \in SUBSET (DOMAIN q) |->
               IF s = {} THEN NoOutputs(rf) ELSE RenameOutput(iter[s \ {Max(s)}], q[Max(s)])]
             f == CHOOSE iter : Folds(iter)
  <1>1. RenameOutputs(rf, q) = f[DOMAIN q]
    BY Zenon DEF RenameOutputs, NoOutputs, FoldLeft, MapThenFoldSet
  <1>0. NoOutputs(rf) \in Accs
    <2>1. <<>> \in Seq(Phys)
      OBVIOUS
    <2> QED BY <2>1 DEF Accs, NoOutputs
  <1>2. n \in Nat /\ DOMAIN q = 1 .. n /\ \A k \in 1 .. n : q[k] \in Logical
    BY LenProperties
  <1>3. step \in [1 .. n -> [Accs -> Accs]]
    <2>1. \A k \in 1 .. n : \A d \in Accs : RenameOutput(d, q[k]) \in Accs
      BY <1>2, RenameOutputIs
    <2> QED BY <2>1
  <1>4. \A k \in 1 .. n : \A d \in Accs : step[k][d] = RenameOutput(d, q[k])
    OBVIOUS
  <1> HIDE DEF step, n
  <1>5. PICK g : BuiltUp(n, Accs, NoOutputs(rf), step, g)
    BY <1>0, <1>2, <1>3, FromBelow
  <1>6. Folds(g)
    <2>1. ASSUME NEW s \in SUBSET (1 .. n)
          PROVE  g[s] = IF s = {} THEN NoOutputs(rf) ELSE RenameOutput(g[s \ {Max(s)}], q[Max(s)])
      <3>1. CASE s = {}
        BY <1>5, <3>1 DEF BuiltUp
      <3>2. CASE s # {}
        <4>1. PICK k \in 1 .. n : /\ Max(s) = k /\ s \ {k} \in SUBSET (1 .. (k - 1))
                                  /\ s = (s \ {k}) \cup {k} /\ s \ {k} \in SUBSET (1 .. n)
          BY <1>2, <3>2, TopCut
        <4> DEFINE t == s \ {k}
        <4>2. g[t] \in Accs
          BY <1>5, <4>1 DEF BuiltUp
        <4>3. g[t \cup {k}] = step[k][g[t]]
          BY <1>5, <4>1 DEF BuiltUp
        <4>4. g[s] = RenameOutput(g[t], q[k])
          BY <1>4, <4>1, <4>2, <4>3
        <4> QED BY <1>2, <3>2, <4>1, <4>4
      <3> QED BY <3>1, <3>2
    <2>2. g = [s \in SUBSET (1 .. n) |-> g[s]]
      BY <1>5 DEF BuiltUp
    <2> QED BY <1>2, <2>1, <2>2
  <1>7. Folds(f)
    <2>1. \E iter : Folds(iter)
      BY <1>6
    <2> QED BY <2>1, Zenon
  <1> HIDE DEF f
  <1>70. \A s \in SUBSET (DOMAIN q) : f[s] = IF s = {} THEN NoOutputs(rf) ELSE RenameOutput(f[s \ {Max(s)}], q[Max(s)])
    BY <1>7
  <1> HIDE DEF Folds
  <1>8. f[{}] = NoOutputs(rf)
    BY <1>70
  <1>9. ASSUME NEW k \in 1 .. n, f[1 .. (k - 1)] \in Accs
        PROVE  f[1 .. k] = step[k][f[1 .. (k - 1)]]
    <2>1. Max(1 .. k) = k /\ (1 .. k) \ {k} = 1 .. (k - 1) /\ 1 .. k # {}
      <3>1. k \in Nat /\ k # 0
        BY <1>2
      <3> QED BY <3>1, TopInterval
    <2>2. 1 .. k \in SUBSET (DOMAIN q)
      BY <1>2
    <2>3. f[1 .. k] = RenameOutput(f[1 .. (k - 1)], q[k])
      BY <1>2, <1>70, <2>1, <2>2
    <2> QED BY <1>4, <1>9, <2>3
  <1>10. Follows(f, n, Accs, step)
    BY <1>9 DEF Follows
  <1>11. PICK h : Chain(h, n, Accs, NoOutputs(rf), step) /\ h[n] = f[1 .. n]
    <2>1. n \in Nat
      BY <1>2
    <2>2. Reached(n, Accs, NoOutputs(rf), step, f)
      BY <1>0, <1>3, <1>8, <1>10, <2>1, StepByStep
    <2> QED BY <2>2 DEF Reached
  <1>12. /\ h \in [0 .. n -> Accs] /\ h[0] = NoOutputs(rf)
         /\ \A k \in 1 .. n : h[k] = RenameOutput(h[k - 1], q[k])
    <2>1. ASSUME NEW k \in 1 .. n
          PROVE  h[k] = RenameOutput(h[k - 1], q[k])
      <3>1. h[k - 1] \in Accs /\ h[k] = step[k][h[k - 1]]
        BY <1>2, <1>11 DEF Chain
      <3> QED BY <1>4, <3>1
    <2> QED BY <1>11, <2>1 DEF Chain
  <1>13. RenameChain(h, n, rf, q)
    BY <1>1, <1>2, <1>11, <1>12 DEF RenameChain
  <1> QED BY <1>13 DEF n

\* A register that the next output takes or shares.
LEMMA RenameStep ==
  ASSUME NEW acc \in Accs, NEW log, Books(acc.rf, log), NEW l \in Logical,
         NEW x \in OutputIds, \A w \in DOMAIN log : Earlier(w, x),
         Shares(acc, l) \/ acc.rf.free[FileOf(l)] # <<>>,
         Shares(acc, l) => \E v \in DOMAIN log : v[1] = x[1] /\ log[v].new = acc.first,
         \A p \in Phys : acc.rf.pending[p] => \E v \in DOMAIN log : log[v].new = p,
         NEW p \in Phys, NEW r \in Accs,
         RenamesTo(r, acc, l, p), SharesWith(r, acc, l, p), TakesOwn(r, acc, l, p),
         NEW to, to = Resolve(l, acc.rf.top)
  PROVE  Books(r.rf, With(log, x, [to |-> to, new |-> p, old |-> acc.rf.rat[to]]))
PROOF
  <1> DEFINE rf == acc.rf
             f == FileOf(l)
             free2 == r.rf.free
  <1>1. Tables(rf.rat, rf.busy, rf.free) /\ rf.top \in 0 .. (StackDepth - 1) /\ IsLog(log)
    BY BooksFacts
  <1>2. rf.ok /\ Logged(rf.rat, rf.busy, rf.free, log) /\ rf \in RegFiles /\ r.rf \in RegFiles
    BY AccIs DEF Books
  <1>3. to \in Logical /\ f \in File
    BY <1>1, LogicalFacts
  <1>4. \A v \in DOMAIN log : log[v].new \in Phys /\ rf.busy[log[v].new] > 0
    BY BooksFacts
  <1>5. free2 \in [File -> Seq(Phys)]
    BY <1>2, RegFileIs DEF RegFiles
  <1>6. FreeUnused(rf.busy, rf.free) /\ OwnRegisters(log)
    BY <1>2 DEF Logged
  <1>7. /\ Takes(free2, rf.free, p) /\ r.rf.ok
        /\ \A v \in DOMAIN log : log[v].new = p => v[1] = x[1]
    <2>1. CASE Shares(acc, l)
      <3>1. p = acc.first /\ free2 = rf.free /\ r.rf.ok = rf.ok
        BY <2>1 DEF SharesWith
      <3>2. PICK v \in DOMAIN log : v[1] = x[1] /\ log[v].new = p
        BY <2>1, <3>1
      <3>3. \A w \in DOMAIN log : log[w].new = p => w[1] = x[1]
        BY <1>6, <3>2 DEF OwnRegisters
      <3>4. rf.busy[p] # 0
        BY <1>4, <3>2
      <3>5. Takes(rf.free, rf.free, p)
        BY <1>6, <3>4 DEF Takes, FreeUnused
      <3> QED BY <1>2, <3>1, <3>3, <3>5
    <2>2. CASE ~Shares(acc, l)
      <3> DEFINE s == rf.free[f]
      <3>1. /\ s # <<>> /\ p = Last(s) /\ free2 = Popped(rf.free, f)
            /\ r.rf.ok = (rf.ok /\ rf.busy[p] = 0 /\ ~rf.pending[p])
        BY <2>2 DEF TakesOwn
      <3>2. s \in Seq(Phys) /\ IsInjective(s) /\ ToSet(s) = {q \in Phys : FileOf(q) = f /\ rf.busy[q] = 0}
        BY <1>1, <1>3, <1>6 DEF Tables, FreeUnused
      <3> HIDE DEF s
      <3>3. IsInjective(Front(s)) /\ p \in ToSet(s) /\ ToSet(Front(s)) = ToSet(s) \ {p}
        BY <3>1, <3>2, FrontLast
      <3>4. rf.busy[p] = 0 /\ FileOf(p) = f
        BY <3>2, <3>3
      <3>5. \A v \in DOMAIN log : log[v].new # p
        BY <1>4, <3>4
      <3>6. ~rf.pending[p]
        BY <3>5
      <3>7. Takes(free2, rf.free, p)
        <4>1. ASSUME NEW g \in File
              PROVE  IsInjective(free2[g]) /\ ToSet(free2[g]) = ToSet(rf.free[g]) \ {p}
          <5>1. free2[g] = IF g = f THEN Front(s) ELSE rf.free[g]
            BY <1>1, <1>3, <3>1 DEF Popped, Tables, s
          <5>2. CASE g = f
            BY <3>3, <5>1, <5>2 DEF s
          <5>3. CASE g # f
            <6>1. IsInjective(rf.free[g]) /\ ToSet(rf.free[g]) = {q \in Phys : FileOf(q) = g /\ rf.busy[q] = 0}
              BY <1>6 DEF FreeUnused
            <6>2. p \notin ToSet(rf.free[g])
              BY <3>4, <5>3, <6>1
            <6> QED BY <5>1, <5>3, <6>1, <6>2
          <5> QED BY <5>2, <5>3
        <4> QED BY <4>1 DEF Takes
      <3> QED BY <1>2, <3>1, <3>4, <3>5, <3>6, <3>7
    <2> QED BY <2>1, <2>2
  <1>8. Logged([rf.rat EXCEPT ![to] = p], [rf.busy EXCEPT ![p] = rf.busy[p] + 1], free2,
               With(log, x, [to |-> to, new |-> p, old |-> rf.rat[to]]))
    <2> HIDE DEF free2, rf
    <2> QED BY <1>1, <1>2, <1>3, <1>5, <1>7, LogAdd
  <1>9. r.rf.rat = [rf.rat EXCEPT ![to] = p] /\ r.rf.busy = [rf.busy EXCEPT ![p] = rf.busy[p] + 1]
    BY DEF RenamesTo
  <1> QED BY <1>2, <1>7, <1>8, <1>9 DEF Books

\* The outputs behind the first k, of a file, that need a register of their own.
Left(outs, k, f) == {j \in (k + 1) .. Len(outs) : outs[j] \notin Flag /\ FileOf(outs[j]) = f}

\* A flag is among them.
FlagLeft(outs, k) == \E j \in (k + 1) .. Len(outs) : outs[j] \in Flag

\* There are free registers for the outputs behind the first k.
Room(free, outs, k, first) ==
  /\ \A f \in File : Cardinality(Left(outs, k, f)) <= Len(free[f])
  /\ first = NoReg /\ FlagLeft(outs, k) => Len(free["int"]) >= 1

\* "Flags are renamed last", as PipelineConstants has it of every micro-instruction.
FlagsLast(outs) ==
  \A i, j \in DOMAIN outs : i < j /\ outs[i] \in Flag => outs[j] \in Flag

\* They are finite in number.
LEMMA LeftFinite ==
  ASSUME NEW outs \in Seq(Logical), NEW k \in Nat, NEW f
  PROVE  IsFiniteSet(Left(outs, k, f)) /\ Cardinality(Left(outs, k, f)) \in Nat
PROOF
  <1>1. Len(outs) \in Nat
    BY LenProperties
  <1>2. IsFiniteSet(1 .. Len(outs))
    BY <1>1, FS_Interval
  <1>3. Left(outs, k, f) \subseteq 1 .. Len(outs)
    BY <1>1 DEF Left
  <1> QED BY <1>2, <1>3, FS_Subset, FS_CardinalityType

\* While there is room an output finds its register, and leaves room for the
\* rest.
LEMMA RoomStep ==
  ASSUME NEW outs \in Seq(Logical), FlagsLast(outs), NEW k \in 1 .. Len(outs), NEW acc \in Accs,
         Room(acc.rf.free, outs, k - 1, acc.first), NEW l, l = outs[k]
  PROVE  /\ Shares(acc, l) \/ acc.rf.free[FileOf(l)] # <<>>
         /\ \A r \in Accs : \A p \in Phys :
              RenamesTo(r, acc, l, p) /\ SharesWith(r, acc, l, p) /\ TakesOwn(r, acc, l, p) => Room(r.rf.free, outs, k, r.first)
PROOF
  <1> DEFINE g == FileOf(l)
             free == acc.rf.free
  <1>0. /\ Len(outs) \in Nat /\ DOMAIN outs = 1 .. Len(outs) /\ l \in Logical /\ k \in Nat /\ k - 1 \in Nat
        /\ g \in File /\ k \in ((k - 1) + 1) .. Len(outs)
    BY LenProperties, ElementOfSeq DEF File
  <1>1. free \in [File -> Seq(Phys)]
    BY AccIs, RegFileIs DEF RegFiles
  <1>2. \A f \in File : Len(free[f]) \in Nat /\ (Len(free[f]) = 0 <=> free[f] = <<>>)
    BY <1>1, LenProperties, EmptySeq
  <1>3. /\ \A f \in File : Cardinality(Left(outs, k - 1, f)) <= Len(free[f])
        /\ acc.first = NoReg /\ FlagLeft(outs, k - 1) => Len(free["int"]) >= 1
    BY DEF Room
  <1>4. \A f : /\ IsFiniteSet(Left(outs, k, f)) /\ Cardinality(Left(outs, k, f)) \in Nat
               /\ Cardinality(Left(outs, k - 1, f)) \in Nat
    BY <1>0, LeftFinite
  <1>5. \A f : IF l \notin Flag /\ g = f
               THEN Left(outs, k - 1, f) = Left(outs, k, f) \cup {k} /\ k \notin Left(outs, k, f)
               ELSE Left(outs, k - 1, f) = Left(outs, k, f)
    BY <1>0 DEF Left
  <1>6. \A f : IF l \notin Flag /\ g = f
               THEN Cardinality(Left(outs, k - 1, f)) = Cardinality(Left(outs, k, f)) + 1
               ELSE Cardinality(Left(outs, k - 1, f)) = Cardinality(Left(outs, k, f))
    BY <1>4, <1>5, FS_AddElement
  <1>7. FlagLeft(outs, k) => FlagLeft(outs, k - 1)
    BY <1>0 DEF FlagLeft
  <1>8. l \in Flag => FlagLeft(outs, k - 1) /\ g = "int"
    BY <1>0, NamesFit DEF FlagLeft
  <1>9. Shares(acc, l) \/ (free[g] # <<>> /\ Len(free[g]) >= 1)
    <2>1. CASE l \in Flag
      BY <1>0, <1>2, <1>3, <1>8, <2>1 DEF Shares
    <2>2. CASE l \notin Flag
      BY <1>0, <1>2, <1>3, <1>4, <1>6, <2>2
    <2> QED BY <2>1, <2>2
  <1>10. l \in Flag => \A f : Cardinality(Left(outs, k, f)) = 0
    <2> SUFFICES ASSUME l \in Flag, NEW f PROVE Cardinality(Left(outs, k, f)) = 0
      OBVIOUS
    <2>1. ASSUME NEW j \in (k + 1) .. Len(outs)
          PROVE  outs[j] \in Flag
      <3>1. j \in DOMAIN outs /\ k \in DOMAIN outs /\ k < j
        BY <1>0
      <3> QED BY <3>1 DEF FlagsLast
    <2>2. Left(outs, k, f) = {}
      BY <2>1 DEF Left
    <2> QED BY <2>2, FS_EmptySet
  <1>11. ASSUME NEW r \in Accs, NEW p \in Phys,
                RenamesTo(r, acc, l, p), SharesWith(r, acc, l, p), TakesOwn(r, acc, l, p)
         PROVE  Room(r.rf.free, outs, k, r.first)
    <2>1. CASE Shares(acc, l)
      <3>1. r.rf.free = free
        BY <2>1, <1>11 DEF SharesWith
      <3>2. acc.first # NoReg /\ r.first = acc.first /\ l \in Flag
        BY <2>1, <1>11 DEF Shares, RenamesTo
      <3> QED BY <1>2, <1>3, <1>6, <3>1, <3>2 DEF Room
    <2>2. CASE ~Shares(acc, l)
      <3>0. free[g] # <<>> /\ Len(free[g]) >= 1
        BY <1>9, <2>2
      <3>1. r.rf.free = Popped(free, g)
        BY <2>2, <3>0, <1>11 DEF TakesOwn
      <3>2. Len(Front(free[g])) = Len(free[g]) - 1
        BY <1>0, <1>1, <3>0, FrontLast
      <3>3. \A f \in File : Len(r.rf.free[f]) = IF f = g THEN Len(free[g]) - 1 ELSE Len(free[f])
        BY <1>0, <1>1, <3>1, <3>2 DEF Popped
      <3>4. ASSUME NEW f \in File
            PROVE  Cardinality(Left(outs, k, f)) <= Len(r.rf.free[f])
        <4>1. CASE l \in Flag
          <5>1. Cardinality(Left(outs, k, f)) = 0
            BY <1>10, <4>1
          <5>2. Len(r.rf.free[f]) >= 0
            BY <1>2, <3>0, <3>3
          <5> QED BY <5>1, <5>2
        <4>2. CASE l \notin Flag
          <5>1. CASE g = f
            <6>1. Cardinality(Left(outs, k - 1, f)) = Cardinality(Left(outs, k, f)) + 1
              BY <1>6, <4>2, <5>1
            <6>2. Len(r.rf.free[f]) = Len(free[f]) - 1
              BY <3>3, <5>1
            <6> HIDE DEF g, free
            <6> QED BY <1>2, <1>3, <1>4, <6>1, <6>2
          <5>2. CASE g # f
            <6>1. Cardinality(Left(outs, k - 1, f)) = Cardinality(Left(outs, k, f))
              BY <1>6, <4>2, <5>2
            <6>2. Len(r.rf.free[f]) = Len(free[f])
              BY <3>3, <5>2
            <6> HIDE DEF g, free
            <6> QED BY <1>2, <1>3, <1>4, <6>1, <6>2
          <5> QED BY <5>1, <5>2
        <4> QED BY <4>1, <4>2
      <3>5. ASSUME r.first = NoReg, FlagLeft(outs, k)
            PROVE  Len(r.rf.free["int"]) >= 1
        <4>1. p # NoReg
          BY FileFacts
        <4>2. acc.first = NoReg /\ g # "int"
          BY <1>11, <3>5, <4>1 DEF RenamesTo
        <4>3. "int" \in File
          <5>1. PICK j \in (k + 1) .. Len(outs) : outs[j] \in Flag
            BY <3>5 DEF FlagLeft
          <5>2. outs[j] \in Logical /\ FileOf(outs[j]) = "int"
            BY <5>1, NamesFit
          <5> QED BY <5>2 DEF File
        <4> QED BY <1>3, <1>7, <3>3, <3>5, <4>2, <4>3
      <3> QED BY <3>4, <3>5 DEF Room
    <2> QED BY <2>1, <2>2
  <1> QED BY <1>9, <1>11

\* X86ThreadCanRenameUop() is what makes room for all outputs.
LEMMA RoomAtFirst ==
  ASSUME NEW rf \in RegFiles, NEW uinst \in Uinst, CanRename(rf, uinst)
  PROVE  Room(rf.free, uinst.odep, 0, NoReg)
PROOF
  <1> DEFINE outs == uinst.odep
             flags == {k \in DOMAIN outs : outs[k] \in Flag}
             own(f) == {k \in DOMAIN outs : FileOf(outs[k]) = f} \ flags
  <1>1. outs \in Seq(Logical) /\ Len(outs) \in Nat /\ DOMAIN outs = 1 .. Len(outs)
    BY LenProperties DEF Uinst
  <1>2. \A f : Left(outs, 0, f) = own(f)
    BY <1>1 DEF Left
  <1>3. \A f : Cardinality(own(f)) \in Nat /\ (Cardinality(own(f)) = 0 => own(f) = {}) /\ (own(f) = {} => Cardinality(own(f)) = 0)
    <2>1. \A f : IsFiniteSet(Left(outs, 0, f)) /\ Cardinality(Left(outs, 0, f)) \in Nat
      BY <1>1, LeftFinite
    <2> HIDE DEF own, outs
    <2> QED BY <1>2, <2>1, FS_EmptySet
  <1>4. \A f \in File : Len(rf.free[f]) \in Nat
    BY RegFileIs, LenProperties DEF RegFiles
  <1>5. \A f \in File : Needs(uinst, f) <= Len(rf.free[f])
    BY DEF CanRename
  <1>6. \A f : Needs(uinst, f) = IF f = "int" /\ own(f) = {} /\ flags # {} THEN 1 ELSE Cardinality(own(f))
    BY DEF Needs
  <1>7. FlagLeft(outs, 0) => flags # {} /\ "int" \in File
    <2> SUFFICES ASSUME FlagLeft(outs, 0) PROVE flags # {} /\ "int" \in File
      OBVIOUS
    <2>1. PICK j \in 1 .. Len(outs) : outs[j] \in Flag
      BY DEF FlagLeft
    <2>2. outs[j] \in Logical /\ FileOf(outs[j]) = "int"
      BY <2>1, NamesFit
    <2> QED BY <1>1, <2>1, <2>2 DEF File
  <1> HIDE DEF own, flags, outs
  <1>8. \A f \in File : Cardinality(Left(outs, 0, f)) <= Len(rf.free[f])
    <2>1. ASSUME NEW f \in File
          PROVE  Cardinality(own(f)) <= Len(rf.free[f])
      BY <1>3, <1>4, <1>5, <1>6
    <2> QED BY <1>2, <2>1
  <1>9. FlagLeft(outs, 0) => Len(rf.free["int"]) >= 1
    <2> SUFFICES ASSUME FlagLeft(outs, 0) PROVE Len(rf.free["int"]) >= 1
      OBVIOUS
    <2>1. Needs(uinst, "int") >= 1 /\ Needs(uinst, "int") \in Nat
      BY <1>3, <1>6, <1>7
    <2> QED BY <1>4, <1>5, <1>7, <2>1
  <1> QED BY <1>8, <1>9 DEF Room, outs

\* The FP stack moves.
Moved(r, rf, top) == r = [rf EXCEPT !.top = top]

\* Only the top changes.
LEMMA MovedIs ==
  ASSUME NEW rf \in RegFiles, NEW top \in 0 .. (StackDepth - 1), NEW r, Moved(r, rf, top)
  PROVE  /\ r \in RegFiles /\ r.top = top
         /\ r.rat = rf.rat /\ r.busy = rf.busy /\ r.free = rf.free /\ r.pending = rf.pending /\ r.ok = rf.ok
PROOF
  <1>1. HasFields(rf)
    BY RegFileIs DEF RegFiles
  <1>2. SameBut(r, rf, "top") /\ r.top = top
    BY <1>1, FieldSet DEF Moved
  <1>3. HasFields(r) /\ r.rat = rf.rat /\ r.free = rf.free /\ r.busy = rf.busy /\ r.pending = rf.pending /\ r.ok = rf.ok
    BY <1>2 DEF SameBut
  <1>4. /\ rf.rat \in [Logical -> Phys] /\ rf.free \in [File -> Seq(Phys)] /\ rf.busy \in [Phys -> Int]
        /\ rf.pending \in [Phys -> BOOLEAN] /\ rf.ok \in BOOLEAN
    BY RegFileIs DEF RegFiles
  <1>5. r \in RegFiles
    BY <1>2, <1>3, <1>4, RegFileIs DEF RegFiles
  <1> QED BY <1>2, <1>3, <1>5

\* The entry of the jth output of a uop, and the log with those of its first k.
EntryOf(h, outs, top, j) ==
  [to |-> Resolve(outs[j], top), new |-> h[j].odep[j], old |-> h[j].oodep[j]]

\* The first k outputs of uop i.
Own(i, k) == {<<i, j>> : j \in 1 .. k}

\* The log when the loop has renamed its first k outputs.
LogAfter(log, i, k, h, outs, top) ==
  [w \in DOMAIN log \cup Own(i, k) |-> IF w \in DOMAIN log THEN log[w] ELSE EntryOf(h, outs, top, w[2])]

\* Before the first it is the log.
LEMMA LogAfterNone ==
  ASSUME NEW log, IsLog(log), NEW i, NEW h, NEW outs, NEW top
  PROVE  LogAfter(log, i, 0, h, outs, top) = log
PROOF
  <1>1. log = [w \in DOMAIN log |-> log[w]]
    BY DEF IsLog
  <1>2. Own(i, 0) = {}
    BY DEF Own
  <1> QED BY <1>1, <1>2 DEF LogAfter

\* Its entries, those of the log and those of the uop.
AfterHas(L, log, i, k, h, outs, top) ==
  /\ DOMAIN L = DOMAIN log \cup Own(i, k)
  /\ \A w \in DOMAIN log : w \in DOMAIN L /\ L[w] = log[w]
  /\ \A j \in 1 .. k : <<i, j>> \in DOMAIN L /\ L[<<i, j>>] = EntryOf(h, outs, top, j)

\* It has them.
LEMMA LogAfterHas ==
  ASSUME NEW log, IsLog(log), NEW i \in Nat, \A w \in DOMAIN log : w[1] < i, NEW h, NEW outs, NEW top, NEW k \in Nat
  PROVE  AfterHas(LogAfter(log, i, k, h, outs, top), log, i, k, h, outs, top)
PROOF
  <1> DEFINE L == LogAfter(log, i, k, h, outs, top)
  <1>1. \A j : <<i, j>>[1] = i /\ <<i, j>>[2] = j
    OBVIOUS
  <1>2. \A w \in DOMAIN log : w[1] \in Nat /\ w[1] < i
    BY OutputIdFacts DEF IsLog
  <1>3. \A j : <<i, j>> \notin DOMAIN log
    BY <1>1, <1>2
  <1>4. DOMAIN L = DOMAIN log \cup Own(i, k) /\ \A w \in DOMAIN log : w \in DOMAIN L /\ L[w] = log[w]
    BY DEF LogAfter
  <1>5. ASSUME NEW j \in 1 .. k
        PROVE  <<i, j>> \in DOMAIN L /\ L[<<i, j>>] = EntryOf(h, outs, top, j)
    <2>1. <<i, j>> \in Own(i, k)
      BY DEF Own
    <2> QED BY <1>1, <1>3, <1>4, <2>1 DEF LogAfter
  <1> HIDE DEF L
  <1>6. AfterHas(L, log, i, k, h, outs, top)
    BY <1>4, <1>5 DEF AfterHas
  <1> QED BY <1>6 DEF L

\* It grows by the kth output, which is younger than all before.
AfterStep(L, M, i, k, e) ==
  /\ \A w \in DOMAIN L : Earlier(w, <<i, k>>)
  /\ <<i, k>> \in OutputIds
  /\ M = With(L, <<i, k>>, e)

\* It does.
LEMMA LogAfterStep ==
  ASSUME NEW log, IsLog(log), NEW i \in Nat, \A w \in DOMAIN log : w[1] < i, NEW h, NEW outs, NEW top,
         NEW k \in Nat \ {0}
  PROVE  AfterStep(LogAfter(log, i, k - 1, h, outs, top), LogAfter(log, i, k, h, outs, top), i, k,
                   EntryOf(h, outs, top, k))
PROOF
  <1> DEFINE L == LogAfter(log, i, k - 1, h, outs, top)
             M == LogAfter(log, i, k, h, outs, top)
             x == <<i, k>>
  <1>0. \A j : <<i, j>>[1] = i /\ <<i, j>>[2] = j
    OBVIOUS
  <1>00. \A w \in DOMAIN log : w[1] \in Nat /\ w[1] < i
    BY OutputIdFacts DEF IsLog
  <1>1. AfterHas(L, log, i, k - 1, h, outs, top)
    BY LogAfterHas
  <1>2. AfterHas(M, log, i, k, h, outs, top)
    BY LogAfterHas
  <1>3. M = [w \in DOMAIN M |-> M[w]]
    BY DEF LogAfter
  <1> HIDE DEF L, M
  <1>4. ASSUME NEW w \in Own(i, k - 1)
        PROVE  \E j \in 1 .. (k - 1) : w = <<i, j>>
    BY DEF Own
  <1>5. \A w \in DOMAIN L : Earlier(w, x)
    <2>1. ASSUME NEW w \in DOMAIN log
          PROVE  Earlier(w, x)
      BY <1>0, <1>00 DEF Earlier
    <2>2. ASSUME NEW w \in Own(i, k - 1)
          PROVE  Earlier(w, x)
      BY <1>0, <1>4 DEF Earlier
    <2> QED BY <1>1, <2>1, <2>2 DEF AfterHas
  <1>6. x \in OutputIds
    BY DEF OutputIds
  <1>7. Own(i, k) = Own(i, k - 1) \cup {x}
    <2>1. \A j \in 1 .. k : j = k \/ j \in 1 .. (k - 1)
      OBVIOUS
    <2>2. \A j \in 1 .. (k - 1) : j \in 1 .. k
      OBVIOUS
    <2>3. k \in 1 .. k
      OBVIOUS
    <2> QED BY <2>1, <2>2, <2>3 DEF Own
  <1>8. \A w \in DOMAIN M : M[w] = IF w = x THEN EntryOf(h, outs, top, k) ELSE L[w]
    <2>1. ASSUME NEW w \in DOMAIN log
          PROVE  w # x /\ M[w] = L[w]
      BY <1>0, <1>00, <1>1, <1>2 DEF AfterHas
    <2>2. ASSUME NEW w \in Own(i, k - 1)
          PROVE  w # x /\ M[w] = L[w]
      <3>1. PICK j \in 1 .. (k - 1) : w = <<i, j>>
        BY <1>4
      <3>2. j \in 1 .. k /\ j # k
        OBVIOUS
      <3> QED BY <1>1, <1>2, <3>1, <3>2 DEF AfterHas
    <2>3. M[x] = EntryOf(h, outs, top, k) /\ DOMAIN M = DOMAIN log \cup Own(i, k)
      BY <1>2 DEF AfterHas
    <2> HIDE DEF x
    <2> QED BY <1>7, <2>1, <2>2, <2>3
  <1>9. DOMAIN M = DOMAIN L \cup {x}
    BY <1>1, <1>2, <1>7 DEF AfterHas
  <1>10. M = With(L, x, EntryOf(h, outs, top, k))
    <2> HIDE DEF x
    <2> QED BY <1>3, <1>8, <1>9 DEF With
  <1>11. AfterStep(L, M, i, k, EntryOf(h, outs, top, k))
    BY <1>5, <1>6, <1>10 DEF AfterStep
  <1> QED BY <1>11 DEF L, M

\* log2 is log with the outputs of a uop that m renamed.
Grown(log2, log, i, outs, m, top) ==
  /\ DOMAIN log2 = DOMAIN log \cup Own(i, Len(outs))
  /\ \A w \in DOMAIN log : log2[w] = log[w]
  /\ \A k \in 1 .. Len(outs) :
       log2[<<i, k>>] = [to |-> Resolve(outs[k], top), new |-> m.ph_odep[k], old |-> m.ph_oodep[k]]

\* Renaming the outputs of a uop, with room for all, keeps the books: no
\* request finds an empty list, and no assert fails.
LEMMA RenameLoop ==
  ASSUME NEW rf, NEW log, Books(rf, log), NEW i \in Nat, \A w \in DOMAIN log : w[1] < i,
         NEW outs \in Seq(Logical), FlagsLast(outs), Room(rf.free, outs, 0, NoReg),
         \A p \in Phys : rf.pending[p] => \E v \in DOMAIN log : log[v].new = p,
         NEW m, m.rf = RenameOutputs(rf, outs).rf, m.ph_odep = RenameOutputs(rf, outs).odep,
         m.ph_oodep = RenameOutputs(rf, outs).oodep
  PROVE  /\ \E log2 : Books(m.rf, log2) /\ Grown(log2, log, i, outs, m, rf.top)
         /\ m.rf.top = rf.top
         /\ m.ph_odep \in Seq(Phys) /\ m.ph_oodep \in Seq(Phys)
         /\ Len(m.ph_odep) = Len(outs) /\ Len(m.ph_oodep) = Len(outs)
         /\ \A p \in Phys : m.rf.pending[p] => rf.pending[p] \/ p \in ToSet(m.ph_odep)
PROOF
  <1> DEFINE n == Len(outs)
             top == rf.top
  <1>1. /\ n \in Nat /\ rf \in RegFiles /\ IsLog(log) /\ \A k \in 1 .. n : outs[k] \in Logical
    BY BooksFacts, LenProperties, ElementOfSeq DEF Books
  <1>2. PICK h : RenameChain(h, n, rf, outs)
    BY <1>1, RenameFold
  <1>3. /\ h \in [0 .. n -> Accs] /\ h[0] = NoOutputs(rf) /\ h[n] = RenameOutputs(rf, outs)
        /\ \A k \in 1 .. n : h[k] = RenameOutput(h[k - 1], outs[k])
    BY <1>2 DEF RenameChain
  <1> DEFINE L(k) == LogAfter(log, i, k, h, outs, top)
             Kept(k) == /\ Len(h[k].odep) = k /\ Len(h[k].oodep) = k
                        /\ \A j \in 1 .. k : h[k].odep[j] = h[j].odep[j] /\ h[k].oodep[j] = h[j].oodep[j]
             Firsts(k) == h[k].first # NoReg => \E j \in 1 .. k : h[j].odep[j] = h[k].first
             Late(k) == \A p \in Phys : h[k].rf.pending[p] => rf.pending[p] \/ \E j \in 1 .. k : h[j].odep[j] = p
             P(k) == /\ Books(h[k].rf, L(k)) /\ h[k].rf.top = top
                     /\ Kept(k) /\ Firsts(k) /\ Late(k)
                     /\ Room(h[k].rf.free, outs, k, h[k].first)
             T == {k \in 0 .. n : P(k)}
  <1>4. 0 \in T
    <2>1. h[0].rf = rf /\ h[0].odep = <<>> /\ h[0].oodep = <<>> /\ h[0].first = NoReg
      BY <1>3 DEF NoOutputs
    <2>2. L(0) = log
      BY <1>1, LogAfterNone
    <2>3. Kept(0)
      BY <2>1
    <2>4. Firsts(0) /\ Late(0)
      BY <2>1
    <2> HIDE DEF L, Kept, Firsts, Late
    <2> QED BY <1>1, <2>1, <2>2, <2>3, <2>4
  <1>5. ASSUME NEW k \in 1 .. n, k - 1 \in T
        PROVE  k \in T
    <2> DEFINE acc == h[k - 1]
               r == h[k]
               l == outs[k]
               x == <<i, k>>
               to == Resolve(l, top)
    <2>0. k \in Nat \ {0} /\ k - 1 \in Nat /\ k - 1 \in 0 .. n /\ k \in 0 .. n
      BY <1>1
    <2>1. /\ Books(acc.rf, L(k - 1)) /\ acc.rf.top = top /\ Kept(k - 1) /\ Firsts(k - 1) /\ Late(k - 1)
          /\ Room(acc.rf.free, outs, k - 1, acc.first)
      BY <1>5
    <2>2. acc \in Accs /\ r \in Accs /\ r = RenameOutput(acc, l) /\ l \in Logical
      BY <1>1, <1>3, <2>0
    <2>20. acc.odep \in Seq(Phys) /\ acc.oodep \in Seq(Phys)
      BY <2>2, AccIs
    <2>3. PICK p \in Phys : RenamesTo(r, acc, l, p) /\ SharesWith(r, acc, l, p) /\ TakesOwn(r, acc, l, p)
      BY <2>2, RenameOutputIs
    <2>4. /\ Shares(acc, l) \/ acc.rf.free[FileOf(l)] # <<>>
          /\ Room(r.rf.free, outs, k, r.first)
      <3> HIDE DEF acc, r, l, L, Kept, Firsts, Late
      <3>1. l = outs[k]
        BY DEF l
      <3> QED BY <2>1, <2>2, <2>3, <3>1, RoomStep
    <2>5. /\ r.odep = Append(acc.odep, p) /\ r.oodep = Append(acc.oodep, acc.rf.rat[to])
          /\ r.first = (IF FileOf(l) = "int" /\ acc.first = NoReg THEN p ELSE acc.first)
          /\ r.rf.top = top
          /\ r.rf.pending = [acc.rf.pending EXCEPT ![p] = TRUE]
      BY <2>1, <2>3 DEF RenamesTo
    <2>6. Len(acc.odep) = k - 1 /\ Len(acc.oodep) = k - 1
      BY <2>1
    <2>7. /\ Len(r.odep) = k /\ Len(r.oodep) = k
          /\ r.odep[k] = p /\ r.oodep[k] = acc.rf.rat[to]
          /\ \A j \in 1 .. (k - 1) : r.odep[j] = acc.odep[j] /\ r.oodep[j] = acc.oodep[j]
      <3> HIDE DEF acc, r, to, Kept, Firsts, Late, L
      <3> QED BY <2>0, <2>5, <2>6, <2>20, AppendProperties
    <2>8. Kept(k)
      <3>1. \A j \in 1 .. k : j = k \/ j \in 1 .. (k - 1)
        BY <2>0
      <3> HIDE DEF to, l, x, L, Firsts, Late
      <3> QED BY <2>1, <2>7, <3>1
    <2>9. Firsts(k)
      <3>1. k \in 1 .. k /\ \A j \in 1 .. (k - 1) : j \in 1 .. k
        BY <2>0
      <3> HIDE DEF to, l, x, L, Kept, Late
      <3> QED BY <2>1, <2>5, <2>7, <3>1
    <2>10. Late(k)
      <3>1. k \in 1 .. k /\ \A j \in 1 .. (k - 1) : j \in 1 .. k
        BY <2>0
      <3>2. acc.rf.pending \in [Phys -> BOOLEAN]
        BY <2>1, BooksFacts
      <3>3. \A q \in Phys : r.rf.pending[q] => q = p \/ acc.rf.pending[q]
        BY <2>5, <3>2
      <3> HIDE DEF to, l, x, L, Kept, Firsts
      <3> QED BY <2>1, <2>7, <3>1, <3>3
    <2>11. /\ DOMAIN L(k - 1) = DOMAIN log \cup Own(i, k - 1)
           /\ \A w \in DOMAIN log : w \in DOMAIN L(k - 1) /\ L(k - 1)[w] = log[w]
           /\ \A j \in 1 .. (k - 1) : <<i, j>> \in DOMAIN L(k - 1) /\ L(k - 1)[<<i, j>>] = EntryOf(h, outs, top, j)
      <3>1. AfterHas(L(k - 1), log, i, k - 1, h, outs, top)
        BY <1>1, <2>0, LogAfterHas
      <3> QED BY <3>1 DEF AfterHas
    <2>12. /\ \A w \in DOMAIN L(k - 1) : Earlier(w, x)
           /\ x \in OutputIds /\ L(k) = With(L(k - 1), x, EntryOf(h, outs, top, k))
      <3>1. AfterStep(L(k - 1), L(k), i, k, EntryOf(h, outs, top, k))
        BY <1>1, <2>0, LogAfterStep
      <3> QED BY <3>1 DEF AfterStep
    <2>13. \A q \in Phys : acc.rf.pending[q] => \E v \in DOMAIN L(k - 1) : L(k - 1)[v].new = q
      <3>1. ASSUME NEW q \in Phys, rf.pending[q]
            PROVE  \E v \in DOMAIN L(k - 1) : L(k - 1)[v].new = q
        BY <2>11, <3>1
      <3>2. ASSUME NEW j \in 1 .. (k - 1)
            PROVE  \E v \in DOMAIN L(k - 1) : L(k - 1)[v].new = h[j].odep[j]
        <4>1. EntryOf(h, outs, top, j).new = h[j].odep[j]
          BY DEF EntryOf
        <4> QED BY <2>11, <4>1
      <3> HIDE DEF L
      <3> QED BY <2>1, <3>1, <3>2
    <2>14. Shares(acc, l) => \E v \in DOMAIN L(k - 1) : v[1] = x[1] /\ L(k - 1)[v].new = acc.first
      <3> SUFFICES ASSUME Shares(acc, l)
                   PROVE  \E v \in DOMAIN L(k - 1) : v[1] = x[1] /\ L(k - 1)[v].new = acc.first
        OBVIOUS
      <3>1. PICK j \in 1 .. (k - 1) : h[j].odep[j] = acc.first
        BY <2>1 DEF Shares
      <3>2. EntryOf(h, outs, top, j).new = h[j].odep[j] /\ <<i, j>>[1] = i /\ x[1] = i
        BY DEF EntryOf
      <3> HIDE DEF L
      <3> QED BY <2>11, <3>1, <3>2
    <2>15. EntryOf(h, outs, top, k) = [to |-> to, new |-> p, old |-> acc.rf.rat[to]]
      BY <2>7 DEF EntryOf
    <2>16. to = Resolve(l, acc.rf.top)
      BY <2>1
    <2> DEFINE M == L(k - 1)
    <2>17. Books(r.rf, With(M, x, [to |-> to, new |-> p, old |-> acc.rf.rat[to]]))
      <3>1. Books(acc.rf, M) /\ (\A w \in DOMAIN M : Earlier(w, x))
        BY <2>1, <2>12
      <3> HIDE DEF acc, r, l, x, to, M, L, Kept, Firsts, Late
      <3> QED BY <2>2, <2>3, <2>4, <2>12, <2>13, <2>14, <2>16, <3>1, RenameStep DEF M
    <2>18. Books(r.rf, L(k))
      BY <2>12, <2>15, <2>17
    <2> HIDE DEF L, Kept, Firsts, Late
    <2> QED BY <2>0, <2>4, <2>5, <2>8, <2>9, <2>10, <2>18
  <1> HIDE DEF T
  <1>6. \A k \in 0 .. n : k \in T
    BY <1>1, <1>4, <1>5, UpTo
  <1>7. P(n)
    <2>1. n \in 0 .. n
      BY <1>1
    <2>2. n \in T
      BY <1>6, <2>1
    <2> HIDE DEF P
    <2> QED BY <2>2, Zenon DEF T
  <1>8. h[n].rf = m.rf /\ h[n].odep = m.ph_odep /\ h[n].oodep = m.ph_oodep
    BY <1>3
  <1>9. h[n].odep \in Seq(Phys) /\ h[n].oodep \in Seq(Phys)
    BY <1>1, <1>3, AccIs
  <1>10. Books(m.rf, L(n)) /\ m.rf.top = top /\ Kept(n) /\ Late(n)
    BY <1>7, <1>8
  <1>11. Grown(L(n), log, i, outs, m, top)
    <2>1. /\ DOMAIN L(n) = DOMAIN log \cup Own(i, n)
          /\ \A w \in DOMAIN log : L(n)[w] = log[w]
          /\ \A j \in 1 .. n : L(n)[<<i, j>>] = EntryOf(h, outs, top, j)
      <3>1. AfterHas(L(n), log, i, n, h, outs, top)
        BY <1>1, LogAfterHas
      <3> QED BY <3>1 DEF AfterHas
    <2>2. \A j \in 1 .. n : m.ph_odep[j] = h[j].odep[j] /\ m.ph_oodep[j] = h[j].oodep[j]
      BY <1>8, <1>10
    <2> HIDE DEF L
    <2> QED BY <2>1, <2>2 DEF Grown, EntryOf
  <1>12. \A p \in Phys : m.rf.pending[p] => rf.pending[p] \/ p \in ToSet(m.ph_odep)
    <2>1. ASSUME NEW j \in 1 .. n
          PROVE  h[j].odep[j] \in ToSet(m.ph_odep)
      <3>1. m.ph_odep[j] = h[j].odep[j] /\ Len(m.ph_odep) = n /\ m.ph_odep \in Seq(Phys)
        BY <1>8, <1>9, <1>10
      <3>2. j \in DOMAIN m.ph_odep
        BY <3>1, LenProperties
      <3> QED BY <3>1, <3>2 DEF ToSet
    <2> QED BY <1>8, <1>10, <2>1
  <1>13. Len(m.ph_odep) = n /\ Len(m.ph_oodep) = n
    BY <1>8, <1>10
  <1> HIDE DEF L, Kept, Late
  <1> QED BY <1>8, <1>9, <1>10, <1>11, <1>12, <1>13

\* X86ThreadRenameUop(): the FP stack moves, the inputs are read, the outputs
\* are renamed.
LEMMA RenameIs ==
  ASSUME NEW rf, NEW uinst, NEW m, m = Rename(rf, uinst),
         NEW top, top = (rf.top + Shift(uinst.op)) % StackDepth,
         NEW moved, Moved(moved, rf, top)
  PROVE  /\ m.rf = RenameOutputs(moved, uinst.odep).rf
         /\ m.ph_odep = RenameOutputs(moved, uinst.odep).odep
         /\ m.ph_oodep = RenameOutputs(moved, uinst.odep).oodep
         /\ moved.top = top => m.ph_idep = [l \in uinst.idep |-> moved.rat[Resolve(l, top)]]
PROOF
  BY DEF Rename, Moved

\* A uop, i, younger than those in the log can be renamed.
Renamable(rf, log, i, uinst) ==
  /\ Books(rf, log) /\ i \in Nat /\ \A w \in DOMAIN log : w[1] < i
  /\ uinst \in Uinst /\ FlagsLast(uinst.odep) /\ CanRename(rf, uinst)
  /\ \A p \in Phys : rf.pending[p] => \E v \in DOMAIN log : log[v].new = p

\* What renaming it has made of the register file and of the log.
Enters(m, log2, rf, log, i, uinst, top) ==
  /\ Books(m.rf, log2) /\ Grown(log2, log, i, uinst.odep, m, top)
  /\ m.rf.top = top
  /\ m.ph_odep \in Seq(Phys) /\ m.ph_oodep \in Seq(Phys)
  /\ Len(m.ph_odep) = Len(uinst.odep) /\ Len(m.ph_oodep) = Len(uinst.odep)
  /\ \A p \in Phys : m.rf.pending[p] => rf.pending[p] \/ p \in ToSet(m.ph_odep)
  /\ m.ph_idep = [l \in uinst.idep |-> rf.rat[Resolve(l, top)]]

\* Renaming a uop that X86ThreadCanRenameUop() allows keeps the books and does
\* not abort.
LEMMA RenameUop ==
  ASSUME NEW rf, NEW log, NEW i, NEW uinst, Renamable(rf, log, i, uinst),
         NEW top \in 0 .. (StackDepth - 1), top = (rf.top + Shift(uinst.op)) % StackDepth,
         NEW m, m = Rename(rf, uinst)
  PROVE  \E log2 : Enters(m, log2, rf, log, i, uinst, top)
PROOF
  <1> /\ Books(rf, log) /\ i \in Nat /\ \A w \in DOMAIN log : w[1] < i
      /\ uinst \in Uinst /\ FlagsLast(uinst.odep) /\ CanRename(rf, uinst)
      /\ \A p \in Phys : rf.pending[p] => \E v \in DOMAIN log : log[v].new = p
    BY DEF Renamable
  <1> DEFINE moved == [rf EXCEPT !.top = top]
             outs == uinst.odep
  <1>1. rf \in RegFiles /\ rf.ok /\ Logged(rf.rat, rf.busy, rf.free, log)
    BY DEF Books
  <1>2. /\ moved \in RegFiles /\ moved.top = top /\ moved.rat = rf.rat /\ moved.busy = rf.busy
        /\ moved.free = rf.free /\ moved.pending = rf.pending /\ moved.ok = rf.ok
    <2>1. Moved(moved, rf, top)
      BY DEF Moved
    <2> HIDE DEF moved
    <2>2. rf \in RegFiles /\ top \in 0 .. (StackDepth - 1)
      BY <1>1
    <2> QED BY ONLY <2>1, <2>2, MovedIs
  <1>3. /\ m.rf = RenameOutputs(moved, outs).rf /\ m.ph_odep = RenameOutputs(moved, outs).odep
        /\ m.ph_oodep = RenameOutputs(moved, outs).oodep
        /\ m.ph_idep = [l \in uinst.idep |-> moved.rat[Resolve(l, top)]]
    <2>1. Moved(moved, rf, top)
      BY DEF Moved
    <2> HIDE DEF moved
    <2> QED BY <1>2, <2>1, RenameIs
  <1> HIDE DEF moved
  <1>4. Books(moved, log)
    BY <1>1, <1>2 DEF Books
  <1>5. outs \in Seq(Logical) /\ Room(moved.free, outs, 0, NoReg)
    <2>1. Room(rf.free, uinst.odep, 0, NoReg)
      BY <1>1, RoomAtFirst
    <2>2. uinst.odep \in Seq(Logical)
      BY DEF Uinst
    <2> QED BY <1>2, <2>1, <2>2
  <1> HIDE DEF outs
  <1>6. /\ \E log2 : Books(m.rf, log2) /\ Grown(log2, log, i, outs, m, moved.top)
        /\ m.rf.top = moved.top
        /\ m.ph_odep \in Seq(Phys) /\ m.ph_oodep \in Seq(Phys)
        /\ Len(m.ph_odep) = Len(outs) /\ Len(m.ph_oodep) = Len(outs)
        /\ \A p \in Phys : m.rf.pending[p] => moved.pending[p] \/ p \in ToSet(m.ph_odep)
    <2>1. FlagsLast(outs)
      BY DEF outs
    <2>2. \A p \in Phys : moved.pending[p] => \E v \in DOMAIN log : log[v].new = p
      BY <1>2
    <2> QED BY <1>3, <1>4, <1>5, <2>1, <2>2, RenameLoop
  <1>7. PICK log2 : Books(m.rf, log2) /\ Grown(log2, log, i, outs, m, moved.top)
    BY <1>6
  <1>8. m.ph_idep = [l \in uinst.idep |-> rf.rat[Resolve(l, top)]]
    BY <1>2, <1>3
  <1>9. Enters(m, log2, rf, log, i, uinst, top)
    BY <1>2, <1>6, <1>7, <1>8 DEF outs, Enters
  <1> QED BY <1>9

\* Writing a uop's outputs keeps the books.
LEMMA WriteBooks ==
  ASSUME NEW rf, NEW log, Books(rf, log), NEW u, NEW r, r = Write(rf, u)
  PROVE  /\ Books(r, log) /\ r.top = rf.top
         /\ Written(r, rf, u)
PROOF
  <1>1. rf \in RegFiles
    BY DEF Books
  <1>2. /\ r \in RegFiles /\ r.ok = rf.ok /\ r.top = rf.top
        /\ r.rat = rf.rat /\ r.busy = rf.busy /\ r.free = rf.free
        /\ Written(r, rf, u)
    BY <1>1, WriteIs
  <1> QED BY <1>2 DEF Books

\* The top of the FP stack is where it was once a move of it is undone.
LEMMA ShiftBack ==
  ASSUME NEW top \in 0 .. (StackDepth - 1), NEW op
  PROVE  /\ (top + StackDepth - Shift(op)) % StackDepth \in 0 .. (StackDepth - 1)
         /\ (top + Shift(op)) % StackDepth \in 0 .. (StackDepth - 1)
         /\ (((top + Shift(op)) % StackDepth) + StackDepth - Shift(op)) % StackDepth = top
PROOF
  <1>1. StackDepth \in Nat /\ StackDepth > 0
    BY NamesFit
  <1>2. Shift(op) = 0 \/ Shift(op) = 1 \/ Shift(op) = StackDepth - 1
    <2>1. CASE op = "fp_pop"
      BY <2>1 DEF Shift
    <2>2. CASE op = "fp_push"
      BY <2>2 DEF Shift
    <2>3. CASE op # "fp_pop" /\ op # "fp_push"
      BY <2>3 DEF Shift
    <2> QED BY <2>1, <2>2, <2>3
  <1>3. ASSUME NEW n \in Nat, n > 0, NEW a \in 0 .. (n - 1), NEW s \in {0, 1, n - 1}
        PROVE  /\ (a + n - s) % n \in 0 .. (n - 1) /\ (a + s) % n \in 0 .. (n - 1)
               /\ (((a + s) % n) + n - s) % n = a
    <2>1. \A b \in Int : b % n \in 0 .. (n - 1)
      BY <1>3
    <2>2. \A b \in 0 .. (n - 1) : b % n = b /\ (b + n) % n = b
      BY <1>3
    <2>3. CASE a + s < n
      <3>1. (a + s) % n = a + s /\ a + s + n - s = a + n
        BY <1>3, <2>2, <2>3
      <3> QED BY <1>3, <2>1, <2>2, <3>1
    <2>4. CASE ~(a + s < n)
      <3>1. a + s - n \in 0 .. (n - 1) /\ a + s = (a + s - n) + n
        BY <1>3, <2>4
      <3>2. (a + s) % n = a + s - n /\ (a + s - n) + n - s = a
        BY <1>3, <2>2, <3>1
      <3> QED BY <1>3, <2>1, <2>2, <3>2
    <2> QED BY <2>3, <2>4
  <1> QED BY <1>1, <1>2, <1>3

\* The register of the top of a free list is taken.
LEMMA PoppedTakes ==
  ASSUME NEW busy \in [Phys -> Int], NEW free \in [File -> Seq(Phys)], FreeUnused(busy, free),
         NEW f \in File, free[f] # <<>>, NEW p, p = Last(free[f])
  PROVE  /\ p \in Phys /\ busy[p] = 0 /\ FileOf(p) = f
         /\ Takes(Popped(free, f), free, p) /\ Popped(free, f) \in [File -> Seq(Phys)]
PROOF
  <1> DEFINE s == free[f]
             free2 == Popped(free, f)
  <1>1. s \in Seq(Phys) /\ IsInjective(s) /\ ToSet(s) = {q \in Phys : FileOf(q) = f /\ busy[q] = 0}
    BY DEF FreeUnused
  <1>2. s # <<>> /\ p = Last(s)
    OBVIOUS
  <1>30. \A g \in File : free2[g] = IF g = f THEN Front(s) ELSE free[g]
    BY DEF Popped
  <1>31. free2 = [free EXCEPT ![f] = Front(s)]
    BY DEF Popped
  <1> HIDE DEF s, free2
  <1>3. IsInjective(Front(s)) /\ p \in ToSet(s) /\ ToSet(Front(s)) = ToSet(s) \ {p} /\ Front(s) \in Seq(Phys)
    BY <1>1, <1>2, FrontLast
  <1>4. p \in Phys /\ busy[p] = 0 /\ FileOf(p) = f
    BY <1>1, <1>3
  <1>5. ASSUME NEW g \in File
        PROVE  IsInjective(free2[g]) /\ ToSet(free2[g]) = ToSet(free[g]) \ {p}
    <2>1. free2[g] = IF g = f THEN Front(s) ELSE free[g]
      BY <1>30
    <2>2. CASE g = f
      BY <1>3, <2>1, <2>2 DEF s
    <2>3. CASE g # f
      <3>1. IsInjective(free[g]) /\ ToSet(free[g]) = {q \in Phys : FileOf(q) = g /\ busy[q] = 0}
        BY DEF FreeUnused
      <3> QED BY <1>4, <2>1, <2>3, <3>1
    <2> QED BY <2>2, <2>3
  <1>6. free2 \in [File -> Seq(Phys)]
    BY <1>3, <1>31
  <1> QED BY <1>4, <1>5, <1>6 DEF Takes, free2

(***************************************************************************)
(* Reset                                                                   *)
(***************************************************************************)

\* What the loop over the logical registers has at reset.
InitAccs == [rf : RegFileOver(Phys \cup {NoReg}), last : Phys \cup {NoReg}]

\* What that loop has is a record of two typed fields.
LEMMA InitAccIs ==
  ASSUME NEW r
  PROVE  r \in InitAccs <=> /\ r = [rf |-> r.rf, last |-> r.last]
                            /\ r.rf \in RegFileOver(Phys \cup {NoReg}) /\ r.last \in Phys \cup {NoReg}
PROOF
  BY DEF InitAccs

\* r is what acc becomes when l is mapped to p.

\* ... the fields that change in either case,
InitTo(r, acc, l, p) ==
  /\ r.last = p
  /\ r.rf.top = acc.rf.top /\ r.rf.pending = acc.rf.pending
  /\ r.rf.rat = [acc.rf.rat EXCEPT ![l] = p]
  /\ r.rf.busy = [acc.rf.busy EXCEPT ![p] = acc.rf.busy[p] + 1]

\* ... when a flag shares the register before,
InitShares(r, acc, l, p) ==
  l \in Flag => p = acc.last /\ r.rf.free = acc.rf.free /\ r.rf.ok = acc.rf.ok

\* ... and when l takes one off the free list.
InitTakes(r, acc, l, p) ==
  l \notin Flag /\ acc.rf.free[FileOf(l)] # <<>> =>
    /\ p = Last(acc.rf.free[FileOf(l)])
    /\ r.rf.free = Popped(acc.rf.free, FileOf(l))
    /\ r.rf.ok = (acc.rf.ok /\ acc.rf.busy[p] = 0 /\ ~acc.rf.pending[p])

\* Mapping one logical register at reset does one of the two.
LEMMA InitOneIs ==
  ASSUME NEW acc \in InitAccs, NEW l \in Logical, NEW r, r = InitOne(acc, l)
  PROVE  /\ r \in InitAccs
         /\ \E p \in Phys \cup {NoReg} : InitTo(r, acc, l, p) /\ InitShares(r, acc, l, p) /\ InitTakes(r, acc, l, p)
PROOF
  <1> DEFINE f == FileOf(l)
             R == Phys \cup {NoReg}
             base == IF l \in Flag THEN acc.rf ELSE Request(acc.rf, f)
             p == IF l \in Flag THEN acc.last ELSE Requested(acc.rf, f)
             d == [base EXCEPT !.busy[p] = @ + 1, !.rat[l] = p]
  <1>1. acc.rf \in RegFileOver(R) /\ acc.last \in R
    BY InitAccIs
  <1>2. f \in File
    BY DEF File
  <1> HIDE DEF R
  <1>4. p \in R
    <2>1. \A x \in Phys : x \in R
      BY DEF R
    <2> QED BY <1>1, <1>2, <2>1, RequestedIs
  <1>5. /\ base \in RegFileOver(R) /\ base.rat = acc.rf.rat /\ base.pending = acc.rf.pending
        /\ base.top = acc.rf.top /\ base.busy = acc.rf.busy
    <2>1. CASE l \in Flag
      BY <1>1, <2>1
    <2>2. CASE l \notin Flag
      BY <1>1, <1>2, <2>2, RequestIs
    <2> QED BY <2>1, <2>2
  <1>6. r = [rf |-> d, last |-> p]
    BY DEF InitOne
  <1>7. l \notin Flag /\ acc.rf.free[f] # <<>> =>
          /\ p = Last(acc.rf.free[f]) /\ base.free = Popped(acc.rf.free, f)
          /\ base.ok = (acc.rf.ok /\ acc.rf.busy[Last(acc.rf.free[f])] = 0 /\ ~acc.rf.pending[Last(acc.rf.free[f])])
    <2> SUFFICES ASSUME l \notin Flag, acc.rf.free[f] # <<>>
                 PROVE  /\ p = Last(acc.rf.free[f]) /\ base.free = Popped(acc.rf.free, f)
                        /\ base.ok = (acc.rf.ok /\ acc.rf.busy[Last(acc.rf.free[f])] = 0 /\ ~acc.rf.pending[Last(acc.rf.free[f])])
      OBVIOUS
    <2>1. p = Last(acc.rf.free[f])
      BY DEF Requested
    <2>2. base = Request(acc.rf, f)
      OBVIOUS
    <2> HIDE DEF base, p
    <2> QED BY <1>1, <1>2, <2>1, <2>2, RequestIs
  <1>8. l \in Flag => p = acc.last /\ base = acc.rf
    OBVIOUS
  <1> HIDE DEF base, p
  <1>9. /\ d \in RegFileOver(R)
        /\ d.free = base.free /\ d.top = base.top /\ d.ok = base.ok
        /\ d.busy = [base.busy EXCEPT ![p] = base.busy[p] + 1]
        /\ d.pending = base.pending
        /\ d.rat = [base.rat EXCEPT ![l] = p]
    <2>1. Maps(d, base, l, p)
      BY DEF Maps
    <2> HIDE DEF d, f
    <2> QED BY ONLY <1>4, <1>5, <2>1, l \in Logical, MapIs
  <1> HIDE DEF d
  <1>11. r.rf = d /\ r.last = p
    BY <1>6
  <1>12. r \in InitAccs
    BY <1>4, <1>6, <1>9, <1>11, InitAccIs DEF R
  <1>13. InitTo(r, acc, l, p)
    BY ONLY <1>5, <1>9, <1>11 DEF InitTo
  <1>14. InitShares(r, acc, l, p)
    BY <1>8, <1>9, <1>11 DEF InitShares
  <1>15. InitTakes(r, acc, l, p)
    BY <1>7, <1>9, <1>11 DEF InitTakes
  <1> HIDE DEF f
  <1> QED BY <1>4, <1>12, <1>13, <1>14, <1>15 DEF R

\* The registers before any is mapped.
Unmapped ==
  [rat |-> [l \in Logical |-> NoReg],
   free |-> [f \in File |-> [i \in 1..FileSize[f] |-> <<f, i>>]],
   busy |-> [p \in Phys |-> 0], pending |-> [p \in Phys |-> FALSE],
   top |-> 0, ok |-> TRUE]

\* What the loop starts from.
AtReset == [rf |-> Unmapped, last |-> NoReg]

\* All registers are free then.
LEMMA UnmappedIs ==
  /\ AtReset \in InitAccs
  /\ AtReset.rf = Unmapped /\ AtReset.last = NoReg
  /\ \A l \in Logical : Unmapped.rat[l] = NoReg
  /\ \A p \in Phys : Unmapped.busy[p] = 0 /\ Unmapped.pending[p] = FALSE
  /\ Unmapped.top = 0 /\ Unmapped.ok = TRUE
  /\ FreeUnused(Unmapped.busy, Unmapped.free)
  /\ \A f \in File : Len(Unmapped.free[f]) = FileSize[f]
PROOF
  <1>1. \A f \in File : FileSize[f] \in Nat
    BY FilesFit
  <1>2. ASSUME NEW f \in File
        PROVE  /\ \A i \in 1 .. FileSize[f] : <<f, i>> \in Phys /\ FileOf(<<f, i>>) = f
               /\ \A p \in Phys : FileOf(p) = f => \E i \in 1 .. FileSize[f] : p = <<f, i>>
    <2>1. ASSUME NEW i \in 1 .. FileSize[f]
          PROVE  <<f, i>> \in Phys /\ FileOf(<<f, i>>) = f
      <3>1. <<f, i>> \in {f} \X (1 .. FileSize[f])
        OBVIOUS
      <3> QED BY <3>1 DEF Phys, FileOf
    <2>2. ASSUME NEW p \in Phys, FileOf(p) = f
          PROVE  \E i \in 1 .. FileSize[f] : p = <<f, i>>
      <3>1. PICK g \in File : p \in {g} \X (1 .. FileSize[g])
        BY DEF Phys
      <3>2. g = f
        BY <2>2, <3>1 DEF FileOf
      <3>3. p[2] \in 1 .. FileSize[f] /\ p = <<f, p[2]>>
        BY <3>1, <3>2
      <3> QED BY <3>3
    <2> QED BY <2>1, <2>2
  <1> DEFINE s(f) == [i \in 1 .. FileSize[f] |-> <<f, i>>]
  <1>3. ASSUME NEW f \in File
        PROVE  /\ s(f) \in Seq(Phys) /\ Len(s(f)) = FileSize[f] /\ IsInjective(s(f))
               /\ ToSet(s(f)) = {p \in Phys : FileOf(p) = f}
    <2>1. s(f) \in [1 .. FileSize[f] -> Phys]
      BY <1>2
    <2>2. s(f) \in Seq(Phys) /\ Len(s(f)) = FileSize[f]
      BY <1>1, <2>1
    <2>3. IsInjective(s(f))
      <3>1. \A i, j \in 1 .. FileSize[f] : <<f, i>> = <<f, j>> => i = j
        OBVIOUS
      <3> QED BY <3>1 DEF IsInjective
    <2>4. ASSUME NEW p
          PROVE  p \in ToSet(s(f)) <=> p \in Phys /\ FileOf(p) = f
      <3>1. p \in ToSet(s(f)) <=> \E i \in 1 .. FileSize[f] : <<f, i>> = p
        BY DEF ToSet
      <3> QED BY <1>2, <3>1
    <2> HIDE DEF s
    <2> QED BY <2>2, <2>3, <2>4
  <1>4. /\ Unmapped.free = [f \in File |-> s(f)]
        /\ Unmapped.rat = [l \in Logical |-> NoReg] /\ Unmapped.busy = [p \in Phys |-> 0]
        /\ Unmapped.pending = [p \in Phys |-> FALSE] /\ Unmapped.top = 0 /\ Unmapped.ok = TRUE
        /\ HasFields(Unmapped)
    BY DEF Unmapped, HasFields
  <1>5. AtReset.rf = Unmapped /\ AtReset.last = NoReg /\ AtReset = [rf |-> AtReset.rf, last |-> AtReset.last]
    BY DEF AtReset
  <1> HIDE DEF s
  <1>6. FreeUnused(Unmapped.busy, Unmapped.free)
    BY <1>3, <1>4 DEF FreeUnused
  <1>7. Unmapped \in RegFileOver(Phys \cup {NoReg})
    <2>1. 0 \in 0 .. (StackDepth - 1)
      BY NamesFit
    <2>2. Unmapped.free \in [File -> Seq(Phys)]
      BY <1>3, <1>4
    <2>3. Unmapped.rat \in [Logical -> Phys \cup {NoReg}]
      <3>1. NoReg \in Phys \cup {NoReg}
        OBVIOUS
      <3> QED BY ONLY <1>4, <3>1
    <2>4. Unmapped.busy \in [Phys -> Int] /\ Unmapped.pending \in [Phys -> BOOLEAN]
      BY ONLY <1>4
    <2>5. Unmapped.top \in 0 .. (StackDepth - 1) /\ Unmapped.ok \in BOOLEAN
      BY ONLY <1>4, <2>1
    <2> QED BY ONLY <1>4, <2>2, <2>3, <2>4, <2>5, RegFileIs
  <1>8. AtReset \in InitAccs
    BY <1>5, <1>7, InitAccIs
  <1>9. \A f \in File : Len(Unmapped.free[f]) = FileSize[f]
    BY <1>3, <1>4
  <1> QED BY <1>4, <1>5, <1>6, <1>8, <1>9

\* What the loop has between the n logical registers.
InitChain(h, n, q) ==
  /\ h \in [0 .. n -> InitAccs] /\ h[0] = AtReset /\ h[n] = MapAtReset(q)
  /\ \A k \in 1 .. n : h[k] = InitOne(h[k - 1], q[k])

\* The fold over the names goes name by name.
LEMMA InitFold ==
  ASSUME NEW q \in Seq(Logical)
  PROVE  \E h : InitChain(h, Len(q), q)
PROOF
  <1> DEFINE n == Len(q)
             step == [k \in 1 .. n |-> [d \in InitAccs |-> InitOne(d, q[k])]]
             Folds(iter) == iter = [s \in SUBSET (DOMAIN q) |->
               IF s = {} THEN AtReset ELSE InitOne(iter[s \ {Max(s)}], q[Max(s)])]
             f == CHOOSE iter : Folds(iter)
  <1>1. MapAtReset(q) = f[DOMAIN q]
    BY Zenon DEF MapAtReset, AtReset, Unmapped, FoldLeft, MapThenFoldSet
  <1>0. AtReset \in InitAccs
    BY UnmappedIs
  <1>2. n \in Nat /\ DOMAIN q = 1 .. n /\ \A k \in 1 .. n : q[k] \in Logical
    BY LenProperties
  <1>3. step \in [1 .. n -> [InitAccs -> InitAccs]]
    <2>1. \A k \in 1 .. n : \A d \in InitAccs : InitOne(d, q[k]) \in InitAccs
      BY <1>2, InitOneIs
    <2> QED BY <2>1
  <1>4. \A k \in 1 .. n : \A d \in InitAccs : step[k][d] = InitOne(d, q[k])
    OBVIOUS
  <1> HIDE DEF step, n
  <1>5. PICK g : BuiltUp(n, InitAccs, AtReset, step, g)
    BY <1>0, <1>2, <1>3, FromBelow
  <1>6. Folds(g)
    <2>1. ASSUME NEW s \in SUBSET (1 .. n)
          PROVE  g[s] = IF s = {} THEN AtReset ELSE InitOne(g[s \ {Max(s)}], q[Max(s)])
      <3>1. CASE s = {}
        BY <1>5, <3>1 DEF BuiltUp
      <3>2. CASE s # {}
        <4>1. PICK k \in 1 .. n : /\ Max(s) = k /\ s \ {k} \in SUBSET (1 .. (k - 1))
                                  /\ s = (s \ {k}) \cup {k} /\ s \ {k} \in SUBSET (1 .. n)
          BY <1>2, <3>2, TopCut
        <4> DEFINE t == s \ {k}
        <4>2. g[t] \in InitAccs
          BY <1>5, <4>1 DEF BuiltUp
        <4>3. g[t \cup {k}] = step[k][g[t]]
          BY <1>5, <4>1 DEF BuiltUp
        <4>4. g[s] = InitOne(g[t], q[k])
          BY <1>4, <4>1, <4>2, <4>3
        <4> QED BY <1>2, <3>2, <4>1, <4>4
      <3> QED BY <3>1, <3>2
    <2>2. g = [s \in SUBSET (1 .. n) |-> g[s]]
      BY <1>5 DEF BuiltUp
    <2> QED BY <1>2, <2>1, <2>2
  <1>7. Folds(f)
    <2>1. \E iter : Folds(iter)
      BY <1>6
    <2> QED BY <2>1, Zenon
  <1> HIDE DEF f
  <1>70. \A s \in SUBSET (DOMAIN q) : f[s] = IF s = {} THEN AtReset ELSE InitOne(f[s \ {Max(s)}], q[Max(s)])
    BY <1>7
  <1> HIDE DEF Folds
  <1>8. f[{}] = AtReset
    BY <1>70
  <1>9. ASSUME NEW k \in 1 .. n, f[1 .. (k - 1)] \in InitAccs
        PROVE  f[1 .. k] = step[k][f[1 .. (k - 1)]]
    <2>1. Max(1 .. k) = k /\ (1 .. k) \ {k} = 1 .. (k - 1) /\ 1 .. k # {}
      <3>1. k \in Nat /\ k # 0
        BY <1>2
      <3> QED BY <3>1, TopInterval
    <2>2. 1 .. k \in SUBSET (DOMAIN q)
      BY <1>2
    <2>3. f[1 .. k] = InitOne(f[1 .. (k - 1)], q[k])
      BY <1>2, <1>70, <2>1, <2>2
    <2> QED BY <1>4, <1>9, <2>3
  <1>10. Follows(f, n, InitAccs, step)
    BY <1>9 DEF Follows
  <1>11. PICK h : Chain(h, n, InitAccs, AtReset, step) /\ h[n] = f[1 .. n]
    <2>1. n \in Nat
      BY <1>2
    <2>2. Reached(n, InitAccs, AtReset, step, f)
      BY <1>0, <1>3, <1>8, <1>10, <2>1, StepByStep
    <2> QED BY <2>2 DEF Reached
  <1>12. /\ h \in [0 .. n -> InitAccs] /\ h[0] = AtReset
         /\ \A k \in 1 .. n : h[k] = InitOne(h[k - 1], q[k])
    <2>1. ASSUME NEW k \in 1 .. n
          PROVE  h[k] = InitOne(h[k - 1], q[k])
      <3>1. h[k - 1] \in InitAccs /\ h[k] = step[k][h[k - 1]]
        BY <1>2, <1>11 DEF Chain
      <3> QED BY <1>4, <3>1
    <2> QED BY <1>11, <2>1 DEF Chain
  <1>13. InitChain(h, n, q)
    BY <1>1, <1>2, <1>11, <1>12 DEF InitChain
  <1> QED BY <1>13 DEF n

\* One more name taken care of is one fewer left.
LEMMA LeftStep ==
  ASSUME NEW outs \in Seq(Logical), NEW k \in 1 .. Len(outs), NEW f
  PROVE  /\ Cardinality(Left(outs, k, f)) \in Nat /\ Cardinality(Left(outs, k - 1, f)) \in Nat
         /\ IF outs[k] \notin Flag /\ FileOf(outs[k]) = f
            THEN Cardinality(Left(outs, k - 1, f)) = Cardinality(Left(outs, k, f)) + 1
            ELSE Cardinality(Left(outs, k - 1, f)) = Cardinality(Left(outs, k, f))
PROOF
  <1>1. /\ Len(outs) \in Nat /\ DOMAIN outs = 1 .. Len(outs) /\ k \in Nat /\ k - 1 \in Nat
        /\ k \in ((k - 1) + 1) .. Len(outs)
    BY LenProperties
  <1>2. /\ IsFiniteSet(Left(outs, k, f)) /\ Cardinality(Left(outs, k, f)) \in Nat
        /\ Cardinality(Left(outs, k - 1, f)) \in Nat
    BY <1>1, LeftFinite
  <1>3. IF outs[k] \notin Flag /\ FileOf(outs[k]) = f
        THEN Left(outs, k - 1, f) = Left(outs, k, f) \cup {k} /\ k \notin Left(outs, k, f)
        ELSE Left(outs, k - 1, f) = Left(outs, k, f)
    BY <1>1 DEF Left
  <1> QED BY <1>2, <1>3, FS_AddElement

\* The first k names.
Names(k) == {Deps[j] : j \in 1 .. k}

\* What the loop has once the first k logical registers are mapped.
Started(acc, k) ==
  /\ acc.rf.ok /\ acc.rf.top = 0 /\ \A p \in Phys : acc.rf.pending[p] = FALSE
  /\ \A l \in Names(k) : acc.rf.rat[l] \in Phys
  /\ \A l \in Logical \ Names(k) : acc.rf.rat[l] = NoReg
  /\ FreeUnused(acc.rf.busy, acc.rf.free)
  /\ \A p \in Phys : acc.rf.busy[p] = Cardinality(MappedTo(acc.rf.rat, p))
  /\ k # 0 => acc.last \in Phys /\ acc.rf.busy[acc.last] > 0
  /\ \A f \in File : Cardinality(Left(Deps, k, f)) <= Len(acc.rf.free[f])

\* So it is before the first,
LEMMA StartAtNone ==
  Started(AtReset, 0)
PROOF
  <1>1. /\ AtReset \in InitAccs /\ AtReset.rf = Unmapped
        /\ \A l \in Logical : Unmapped.rat[l] = NoReg
        /\ \A p \in Phys : Unmapped.busy[p] = 0 /\ Unmapped.pending[p] = FALSE
        /\ Unmapped.top = 0 /\ Unmapped.ok = TRUE
        /\ FreeUnused(Unmapped.busy, Unmapped.free)
        /\ \A f \in File : Len(Unmapped.free[f]) = FileSize[f]
    BY UnmappedIs
  <1>2. Names(0) = {}
    BY DEF Names
  <1>3. \A p \in Phys : Unmapped.busy[p] = Cardinality(MappedTo(Unmapped.rat, p))
    <2> TAKE p \in Phys
    <2>1. MappedTo(Unmapped.rat, p) = {}
      BY <1>1, FileFacts DEF MappedTo
    <2> QED BY <1>1, <2>1, FS_EmptySet
  <1>4. ASSUME NEW f \in File
        PROVE  Cardinality(Left(Deps, 0, f)) <= FileSize[f]
    <2> DEFINE A == Left(Deps, 0, f)
               B == {l \in Logical : FileOf(l) = f}
               g == [j \in A |-> Deps[j]]
    <2>1. Deps \in Seq(Logical) /\ IsInjective(Deps) /\ Len(Deps) \in Nat /\ DOMAIN Deps = 1 .. Len(Deps)
      BY NamesFit, LenProperties
    <2>2. A \subseteq DOMAIN Deps /\ \A j \in A : FileOf(Deps[j]) = f
      BY <2>1 DEF Left
    <2>3. \A j \in A : Deps[j] \in B
      BY <2>1, <2>2, ElementOfSeq
    <2>4. \A i, j \in A : Deps[i] = Deps[j] => i = j
      BY <2>1, <2>2 DEF IsInjective
    <2>5. IsFiniteSet(B)
      BY LogicalFinite, FS_Subset
    <2> HIDE DEF A, B
    <2>6. g \in Injection(A, B)
      <3>1. DOMAIN g = A /\ g \in [A -> B] /\ \A i \in A : g[i] = Deps[i]
        BY <2>3
      <3> HIDE DEF g
      <3>2. IsInjective(g)
        BY <2>4, <3>1 DEF IsInjective
      <3> QED BY <3>1, <3>2, Zenon DEF Injection
    <2>7. Cardinality(A) <= Cardinality(B) /\ Cardinality(B) \in Nat
      BY <2>5, <2>6, FS_Injection, FS_CardinalityType
    <2>8. FileSize[f] >= Cardinality(B) + MaxOutputs /\ MaxOutputs \in Nat /\ FileSize[f] \in Nat
      BY FilesFit DEF B
    <2>9. Cardinality(A) \in Nat
      BY <2>1, LeftFinite DEF A
    <2> QED BY <2>7, <2>8, <2>9 DEF A
  <1> QED BY <1>1, <1>2, <1>3, <1>4 DEF Started

\* ... and after each: FilesFit leaves a free register for every name.
LEMMA StartStep ==
  ASSUME NEW k \in 1 .. Len(Deps), NEW acc \in InitAccs, Started(acc, k - 1),
         NEW r, r = InitOne(acc, Deps[k])
  PROVE  Started(r, k)
PROOF
  <1> DEFINE l == Deps[k]
             f == FileOf(l)
             rf == acc.rf
             free2 == r.rf.free
  <1>1. /\ Deps \in Seq(Logical) /\ IsInjective(Deps) /\ Len(Deps) \in Nat /\ DOMAIN Deps = 1 .. Len(Deps)
        /\ l \in Logical /\ f \in File /\ k \in Nat
    BY NamesFit, LenProperties, ElementOfSeq DEF File
  <1>2. /\ rf.rat \in [Logical -> Phys \cup {NoReg}] /\ rf.free \in [File -> Seq(Phys)]
        /\ rf.busy \in [Phys -> Int] /\ rf.pending \in [Phys -> BOOLEAN]
    BY InitAccIs, RegFileIs
  <1>3. Names(k) = Names(k - 1) \cup {l} /\ l \notin Names(k - 1)
    <2>1. \A j \in 1 .. (k - 1) : Deps[j] # l
      BY <1>1 DEF IsInjective
    <2>2. 1 .. k = (1 .. (k - 1)) \cup {k}
      BY <1>1
    <2> QED BY <2>1, <2>2 DEF Names
  <1>4. /\ r \in InitAccs
        /\ \E p \in Phys \cup {NoReg} : InitTo(r, acc, l, p) /\ InitShares(r, acc, l, p) /\ InitTakes(r, acc, l, p)
    BY <1>1, InitOneIs
  <1>5. PICK p \in Phys \cup {NoReg} : InitTo(r, acc, l, p) /\ InitShares(r, acc, l, p) /\ InitTakes(r, acc, l, p)
    BY <1>4
  <1>6. free2 \in [File -> Seq(Phys)]
    BY <1>4, InitAccIs, RegFileIs
  <1>7. /\ rf.ok /\ rf.top = 0 /\ \A q \in Phys : rf.pending[q] = FALSE
        /\ \A m \in Names(k - 1) : rf.rat[m] \in Phys
        /\ \A m \in Logical \ Names(k - 1) : rf.rat[m] = NoReg
        /\ FreeUnused(rf.busy, rf.free)
        /\ \A q \in Phys : rf.busy[q] = Cardinality(MappedTo(rf.rat, q))
        /\ k - 1 # 0 => acc.last \in Phys /\ rf.busy[acc.last] > 0
        /\ \A g \in File : Cardinality(Left(Deps, k - 1, g)) <= Len(rf.free[g])
    BY DEF Started
  <1>8. /\ p \in Phys /\ Takes(free2, rf.free, p) /\ r.rf.ok
        /\ \A g \in File : Cardinality(Left(Deps, k, g)) <= Len(free2[g])
    <2>1. CASE l \in Flag
      <3>1. k # 1
        BY <2>1, NamesFit
      <3>2. p = acc.last /\ free2 = rf.free /\ r.rf.ok = rf.ok
        BY <1>5, <2>1 DEF InitShares
      <3>3. p \in Phys /\ rf.busy[p] # 0
        BY <1>1, <1>7, <3>1, <3>2
      <3>4. Takes(rf.free, rf.free, p)
        BY <1>7, <3>3 DEF Takes, FreeUnused
      <3>5. \A g \in File : Cardinality(Left(Deps, k, g)) = Cardinality(Left(Deps, k - 1, g))
        BY <1>1, <2>1, LeftStep
      <3> QED BY <1>7, <3>2, <3>3, <3>4, <3>5
    <2>2. CASE l \notin Flag
      <3>0. rf.free[f] \in Seq(Phys) /\ Len(rf.free[f]) \in Nat
        BY <1>1, <1>2, LenProperties
      <3>1. /\ Cardinality(Left(Deps, k, f)) \in Nat
            /\ Cardinality(Left(Deps, k - 1, f)) = Cardinality(Left(Deps, k, f)) + 1
        BY <1>1, <2>2, LeftStep
      <3>2. Cardinality(Left(Deps, k - 1, f)) <= Len(rf.free[f])
        BY <1>1, <1>7
      <3>3. rf.free[f] # <<>>
        <4>1. Len(rf.free[f]) # 0
          <5> HIDE DEF f, rf
          <5> QED BY <3>0, <3>1, <3>2
        <4> QED BY <3>0, <4>1, EmptySeq
      <3>4. /\ p = Last(rf.free[f]) /\ free2 = Popped(rf.free, f)
            /\ r.rf.ok = (rf.ok /\ rf.busy[p] = 0 /\ ~rf.pending[p])
        BY <1>5, <2>2, <3>3 DEF InitTakes
      <3>5. p \in Phys /\ rf.busy[p] = 0 /\ Takes(free2, rf.free, p)
        <4> HIDE DEF f, rf, free2
        <4> QED BY <1>1, <1>2, <1>7, <3>3, <3>4, PoppedTakes
      <3>6. r.rf.ok
        BY <1>7, <3>4, <3>5
      <3>7. ASSUME NEW g \in File
            PROVE  Cardinality(Left(Deps, k, g)) <= Len(free2[g])
        <4>1. CASE g = f
          <5>1. Len(Front(rf.free[f])) = Len(rf.free[f]) - 1
            BY <3>0, <3>3, FrontLast
          <5>2. free2[g] = Front(rf.free[f])
            BY <1>1, <1>2, <3>4, <4>1 DEF Popped
          <5> HIDE DEF f, rf, free2
          <5> QED BY <3>0, <3>1, <3>2, <4>1, <5>1, <5>2
        <4>2. CASE g # f
          <5>1. free2[g] = rf.free[g]
            BY <1>1, <1>2, <3>4, <4>2 DEF Popped
          <5>2. Cardinality(Left(Deps, k, g)) = Cardinality(Left(Deps, k - 1, g))
            BY <1>1, <4>2, LeftStep
          <5> QED BY <1>7, <5>1, <5>2
        <4> QED BY <4>1, <4>2
      <3> QED BY <3>5, <3>6, <3>7
    <2> QED BY <2>1, <2>2
  <1>9. /\ r.last = p /\ r.rf.top = 0 /\ r.rf.pending = rf.pending
        /\ r.rf.rat = [rf.rat EXCEPT ![l] = p]
        /\ r.rf.busy = [rf.busy EXCEPT ![p] = rf.busy[p] + 1]
    BY <1>5, <1>7 DEF InitTo
  <1>10. \A q \in Phys : Cardinality(MappedTo(rf.rat, q)) \in Nat
    BY MappedFinite
  <1>11. FreeUnused(r.rf.busy, free2)
    <2>1. rf.busy[p] >= 0
      BY <1>7, <1>8, <1>10
    <2>2. rf.busy \in [Phys -> Int] /\ FreeUnused(rf.busy, rf.free) /\ p \in Phys /\ Takes(free2, rf.free, p)
      BY <1>2, <1>7, <1>8
    <2> HIDE DEF free2, rf, l, f
    <2>3. FreeUnused([rf.busy EXCEPT ![p] = rf.busy[p] + 1], free2)
      BY ONLY <2>1, <2>2, FreeTaken
    <2> QED BY ONLY <1>9, <2>3
  <1>12. ASSUME NEW q \in Phys
         PROVE  r.rf.busy[q] = Cardinality(MappedTo(r.rf.rat, q))
    <2>1. Remaps(r.rf.rat, rf.rat, l, p)
      BY <1>1, <1>2, <1>9 DEF Remaps
    <2>2. Cardinality(MappedTo(r.rf.rat, q)) + One(rf.rat[l], q) = Cardinality(MappedTo(rf.rat, q)) + One(p, q)
      BY <1>1, <2>1, MappedCount
    <2>3. One(rf.rat[l], q) = 0
      BY <1>1, <1>3, <1>7, FileFacts DEF One
    <2>4. r.rf.busy[q] = rf.busy[q] + One(p, q)
      <3> HIDE DEF rf
      <3> QED BY <1>2, <1>8, <1>9 DEF One
    <2>5. Cardinality(MappedTo(r.rf.rat, q)) \in Nat /\ rf.busy[q] = Cardinality(MappedTo(rf.rat, q))
      BY <1>7, MappedFinite
    <2> HIDE DEF rf, l, f, free2
    <2> QED BY <1>10, <2>2, <2>3, <2>4, <2>5
  <1>13. r.rf.busy[p] > 0
    <2>1. rf.busy[p] >= 0 /\ r.rf.busy[p] = rf.busy[p] + 1
      <3> HIDE DEF rf
      <3> QED BY <1>2, <1>7, <1>8, <1>9, <1>10
    <2> QED BY <1>2, <1>8, <2>1
  <1>14. /\ \A m \in Names(k) : r.rf.rat[m] \in Phys
         /\ \A m \in Logical \ Names(k) : r.rf.rat[m] = NoReg
    <2>1. Names(k) \subseteq Logical
      BY <1>1, ElementOfSeq DEF Names
    <2> HIDE DEF l, rf
    <2> QED BY <1>1, <1>2, <1>3, <1>7, <1>8, <1>9, <2>1
  <1> QED BY <1>7, <1>8, <1>9, <1>11, <1>12, <1>13, <1>14 DEF Started

\* No uop is renamed.
EmptyLog == [w \in {} |-> w]

\* At reset every register is accounted for and none is awaited.
LEMMA InitBooks ==
  /\ Books(InitRegFile, EmptyLog)
  /\ InitRegFile.top = 0
  /\ \A p \in Phys : ~InitRegFile.pending[p]
PROOF
  <1> DEFINE n == Len(Deps)
  <1>1. Deps \in Seq(Logical) /\ n \in Nat /\ DOMAIN Deps = 1 .. n
    BY NamesFit, LenProperties
  <1>2. PICK h : InitChain(h, n, Deps)
    BY <1>1, InitFold
  <1>3. /\ h \in [0 .. n -> InitAccs] /\ h[0] = AtReset /\ h[n] = MapAtReset(Deps)
        /\ \A k \in 1 .. n : h[k] = InitOne(h[k - 1], Deps[k])
    BY <1>2 DEF InitChain
  <1> DEFINE S == {k \in 0 .. n : Started(h[k], k)}
  <1>4. 0 \in S
    BY <1>1, <1>3, StartAtNone
  <1>5. ASSUME NEW k \in 1 .. n, k - 1 \in S
        PROVE  k \in S
    <2>1. h[k - 1] \in InitAccs /\ Started(h[k - 1], k - 1) /\ h[k] = InitOne(h[k - 1], Deps[k])
      BY <1>1, <1>3, <1>5
    <2>2. Started(h[k], k)
      BY <1>1, <2>1, StartStep
    <2> QED BY <1>1, <2>2
  <1> HIDE DEF S, n
  <1>6. n \in S
    <2>1. n \in Nat /\ 0 \in S /\ \A k \in 1 .. n : k - 1 \in S => k \in S
      BY <1>1, <1>4, <1>5
    <2>2. \A k \in 0 .. n : k \in S
      BY ONLY <2>1, UpTo
    <2> QED BY <1>1, <2>2
  <1> DEFINE r == InitRegFile
  <1>70. InitRegFile = h[n].rf
    BY <1>3, Zenon DEF InitRegFile, n
  <1> HIDE DEF r
  <1>7. h[n] \in InitAccs /\ Started(h[n], n) /\ h[n].rf = r
    BY <1>1, <1>3, <1>6, <1>70 DEF S, r
  <1>8. /\ HasFields(r) /\ r.rat \in [Logical -> Phys \cup {NoReg}] /\ r.free \in [File -> Seq(Phys)]
        /\ r.busy \in [Phys -> Int] /\ r.pending \in [Phys -> BOOLEAN] /\ r.top \in 0 .. (StackDepth - 1)
        /\ r.ok \in BOOLEAN
    BY <1>7, InitAccIs, RegFileIs
  <1>9. /\ r.ok /\ r.top = 0 /\ \A p \in Phys : r.pending[p] = FALSE
        /\ \A l \in Names(n) : r.rat[l] \in Phys
        /\ FreeUnused(r.busy, r.free)
        /\ \A p \in Phys : r.busy[p] = Cardinality(MappedTo(r.rat, p))
    BY <1>7 DEF Started
  <1>10. Names(n) = Logical
    BY <1>1 DEF Names, Logical, ToSet, n
  <1>11. r.rat \in [Logical -> Phys]
    BY <1>8, <1>9, <1>10
  <1>12. r \in RegFiles
    BY <1>8, <1>11, RegFileIs DEF RegFiles
  <1>13. DOMAIN EmptyLog = {} /\ IsLog(EmptyLog)
    <2>1. DOMAIN EmptyLog = {} /\ EmptyLog = [w \in DOMAIN EmptyLog |-> EmptyLog[w]]
      BY DEF EmptyLog
    <2> QED BY <2>1, FS_EmptySet DEF IsLog
  <1>14. \A p : Cardinality(KeptBy(EmptyLog, p)) = 0
    <2>1. \A p : KeptBy(EmptyLog, p) = {}
      BY <1>13 DEF KeptBy
    <2> QED BY <2>1, FS_EmptySet
  <1>15. BusyCounted(r.rat, r.busy, EmptyLog)
    <2>1. ASSUME NEW p \in Phys
          PROVE  r.busy[p] = Cardinality(MappedTo(r.rat, p)) + Cardinality(KeptBy(EmptyLog, p))
      BY <1>9, <1>14, MappedFinite
    <2> QED BY <2>1 DEF BusyCounted
  <1>16. Logged(r.rat, r.busy, r.free, EmptyLog)
    BY <1>9, <1>13, <1>15 DEF Logged, Linked, OwnRegisters
  <1> QED BY <1>9, <1>12, <1>16 DEF Books, r
=============================================================================
