--------------------------- MODULE PipelineProofs ---------------------------
(***************************************************************************)
(* Proofs about the x86 pipeline, for every program of micro-instructions  *)
(* and every size of its structures: its queues, its speculation, and the  *)
(* physical registers of the uops in flight.                               *)
(***************************************************************************)
EXTENDS Pipeline, RegFileProofs

(***************************************************************************)
(* The queues: an inductive invariant                                      *)
(***************************************************************************)

\* Program order: ids go up from fetch to commit.
Increasing(q) == \A i, j \in DOMAIN q : i < j => q[i] < q[j]

\* The fields of struct x86_uop_t, whatever its registers.
Fields(i, o, oo) ==
  [uinst : Uinst, mop_index : Nat, specmode : BOOLEAN, mispredicted : BOOLEAN,
   in_event_queue : BOOLEAN, completed : BOOLEAN, syscall_ready : BOOLEAN,
   ph_idep : {i}, ph_odep : {o}, ph_oodep : {oo}]

\* A uop of the program: one of the micro-instructions of an instruction,
\* mispredicted only if it is a branch.
IsUop(r) ==
  /\ r \in Fields(r.ph_idep, r.ph_odep, r.ph_oodep)
  /\ \E inst \in Insts : r.uinst \in ToSet(inst)
  /\ r.mispredicted => r.uinst.op = "ctrl"

\* Uops that were issued and have not been written back.
Running == memory \cup event_queue
\* Uops that were dispatched and not issued.
Waiting == iq \cup lq \cup sq
\* Uops that were fetched and not dispatched.
FrontEnd == ToSet(uop_queue) \cup ToSet(fetch_queue)

\* Uops are numbered as they are fetched, and have their fields.
UopsTyped ==
  /\ fetched \in 0 .. MaxUops /\ DOMAIN uop \subseteq 1 .. fetched
  /\ uop = [u \in DOMAIN uop |-> uop[u]]
  /\ \A u \in DOMAIN uop : IsUop(uop[u])
  /\ wrong_path \in BOOLEAN /\ recover_kind \in RecoverKinds

\* Every queue is in program order, and the ROB is older than the uop queue,
\* and that than the fetch queue.
QueuesOrdered ==
  /\ rob \in Seq(Nat) /\ uop_queue \in Seq(Nat) /\ fetch_queue \in Seq(Nat)
  /\ Increasing(rob) /\ Increasing(uop_queue) /\ Increasing(fetch_queue)
  /\ \A u \in ToSet(rob) : \A v \in FrontEnd : u < v
  /\ \A u \in ToSet(uop_queue) : \A v \in ToSet(fetch_queue) : u < v

\* A uop waits in the queue of its kind and nowhere else; what runs is in the
\* ROB, or is left of the wrong path that a recovery squashed.
Issuing ==
  /\ Waiting \subseteq ToSet(rob) /\ Waiting \cap Running = {} /\ memory \cap event_queue = {}
  /\ \A u \in lq : Op(u) = "load"
  /\ \A u \in sq : Op(u) = "store"
  /\ \A u \in iq : ~IsMem(u)
  /\ \A u \in memory : IsMem(u)
  /\ \A u \in Running : u \in ToSet(rob) \/ uop[u].specmode
  /\ Running \cap FrontEnd = {}

\* in_event_queue says that a uop runs, and only a uop in the ROB that neither
\* waits nor runs has completed.
Flags ==
  /\ \A u \in DOMAIN uop : uop[u].in_event_queue <=> u \in Running
  /\ \A u \in DOMAIN uop : uop[u].completed => u \in ToSet(rob) \ (Waiting \cup Running)

\* The mispredicted branches of the program that no recovery has followed yet.
Pending ==
  {u \in Queued \union event_queue : /\ uop[u].mispredicted /\ ~uop[u].specmode
                                     /\ recover_kind = "writeback" => ~uop[u].completed}

\* The core fetches the wrong path behind just one such branch, and specmode
\* marks what is younger than it.
Speculation ==
  /\ wrong_path <=> Pending # {}
  /\ \A a, b \in Pending : a = b
  /\ \A u \in Queued : uop[u].specmode <=> \E b \in Pending : b < u

\* The inductive invariant of the pipeline's queues.
CoreInv == UopsTyped /\ QueuesOrdered /\ Issuing /\ Flags /\ UopsAccounted /\ Speculation

(***************************************************************************)
(* Sequences                                                               *)
(***************************************************************************)

\* Queues whose members increase: without the head, with one more, one behind
\* another, and cut in two.
LEMMA SortedTail ==
  ASSUME NEW q \in Seq(Nat), Increasing(q), q # <<>>
  PROVE  /\ Tail(q) \in Seq(Nat) /\ Increasing(Tail(q))
         /\ Head(q) \in ToSet(q) /\ ToSet(Tail(q)) = ToSet(q) \ {Head(q)}
         /\ \A u \in ToSet(Tail(q)) : Head(q) < u
PROOF
  <1>1. /\ Tail(q) \in Seq(Nat) /\ Len(Tail(q)) = Len(q) - 1 /\ Len(q) \in Nat \ {0}
        /\ \A i \in 1 .. (Len(q) - 1) : Tail(q)[i] = q[i + 1]
        /\ Head(q) = q[1]
    OBVIOUS
  <1>2. DOMAIN q = 1 .. Len(q) /\ DOMAIN Tail(q) = 1 .. (Len(q) - 1)
    BY <1>1
  <1>3. Increasing(Tail(q))
    BY <1>1, <1>2 DEF Increasing
  <1>4. \A i \in 2 .. Len(q) : q[1] < q[i] /\ q[i] = Tail(q)[i - 1] /\ i - 1 \in 1 .. (Len(q) - 1)
    BY <1>1, <1>2 DEF Increasing
  <1>5. \A i \in DOMAIN q : q[i] \in Nat
    BY <1>2
  <1>6. ToSet(Tail(q)) = ToSet(q) \ {Head(q)}
    <2>1. ASSUME NEW u \in ToSet(Tail(q))
          PROVE  u \in ToSet(q) \ {Head(q)} /\ Head(q) < u
      <3>1. PICK i \in 1 .. (Len(q) - 1) : u = Tail(q)[i]
        BY <1>2 DEF ToSet
      <3>2. i + 1 \in 2 .. Len(q) /\ u = q[i + 1]
        BY <1>1, <3>1
      <3> QED BY <1>1, <1>2, <1>4, <1>5, <3>2 DEF ToSet
    <2>2. ASSUME NEW u \in ToSet(q), u # Head(q)
          PROVE  u \in ToSet(Tail(q))
      <3>1. PICK i \in 1 .. Len(q) : u = q[i]
        BY <1>2 DEF ToSet
      <3>2. i \in 2 .. Len(q)
        BY <1>1, <2>2, <3>1
      <3> QED BY <1>2, <1>4, <3>1, <3>2 DEF ToSet
    <2> QED BY <2>1, <2>2
  <1>7. \A u \in ToSet(Tail(q)) : Head(q) < u
    <2>1. ASSUME NEW u \in ToSet(Tail(q))
          PROVE  Head(q) < u
      <3>1. PICK i \in 1 .. (Len(q) - 1) : u = Tail(q)[i]
        BY <1>2 DEF ToSet
      <3>2. i + 1 \in 2 .. Len(q) /\ u = q[i + 1]
        BY <1>1, <3>1
      <3> QED BY <1>1, <1>4, <3>2
    <2> QED BY <2>1
  <1>8. Head(q) \in ToSet(q)
    BY <1>1, <1>2 DEF ToSet
  <1> QED BY <1>1, <1>3, <1>6, <1>7, <1>8

\* One queue behind another.
LEMMA SortedConcat ==
  ASSUME NEW q \in Seq(Nat), NEW r \in Seq(Nat), Increasing(q), Increasing(r),
         \A u \in ToSet(q) : \A v \in ToSet(r) : u < v
  PROVE  /\ q \o r \in Seq(Nat) /\ Increasing(q \o r)
         /\ ToSet(q \o r) = ToSet(q) \cup ToSet(r)
PROOF
  <1> DEFINE s == q \o r
  <1>1. /\ s \in Seq(Nat) /\ Len(s) = Len(q) + Len(r) /\ Len(q) \in Nat /\ Len(r) \in Nat
        /\ \A i \in 1 .. Len(q) : s[i] = q[i]
        /\ \A i \in 1 .. Len(r) : s[Len(q) + i] = r[i]
    OBVIOUS
  <1>2. DOMAIN q = 1 .. Len(q) /\ DOMAIN r = 1 .. Len(r) /\ DOMAIN s = 1 .. (Len(q) + Len(r))
    BY <1>1
  <1> HIDE DEF s
  <1>3. \A i \in DOMAIN s : \/ i \in DOMAIN q /\ s[i] = q[i]
                            \/ i - Len(q) \in DOMAIN r /\ s[i] = r[i - Len(q)]
    <2>1. \A i \in DOMAIN s : i > Len(q) => i - Len(q) \in 1 .. Len(r) /\ i = Len(q) + (i - Len(q))
      BY <1>1, <1>2
    <2> QED BY <1>1, <1>2, <2>1
  <1>4. Increasing(s)
    <2>1. SUFFICES ASSUME NEW i \in DOMAIN s, NEW j \in DOMAIN s, i < j
                   PROVE  s[i] < s[j]
      BY DEF Increasing
    <2>2. CASE i \in DOMAIN q /\ s[i] = q[i]
      <3>1. CASE j \in DOMAIN q /\ s[j] = q[j]
        BY <2>1, <2>2, <3>1 DEF Increasing
      <3>2. CASE j - Len(q) \in DOMAIN r /\ s[j] = r[j - Len(q)]
        BY <2>2, <3>2 DEF ToSet
      <3> QED BY <1>3, <3>1, <3>2
    <2>3. CASE i - Len(q) \in DOMAIN r /\ s[i] = r[i - Len(q)]
      <3>1. j - Len(q) \in DOMAIN r /\ s[j] = r[j - Len(q)] /\ i - Len(q) < j - Len(q)
        <4>1. i > Len(q) /\ j > Len(q)
          BY <1>1, <1>2, <2>1, <2>3
        <4> QED BY <1>1, <1>2, <1>3, <2>1, <4>1
      <3> QED BY <2>3, <3>1 DEF Increasing
    <2> QED BY <1>3, <2>2, <2>3
  <1>5. ToSet(s) = ToSet(q) \cup ToSet(r)
    <2>1. ToSet(s) \subseteq ToSet(q) \cup ToSet(r)
      BY <1>3 DEF ToSet
    <2>2. \A i \in DOMAIN q : i \in DOMAIN s /\ q[i] = s[i]
      BY <1>1, <1>2
    <2>3. \A i \in DOMAIN r : Len(q) + i \in DOMAIN s /\ r[i] = s[Len(q) + i]
      BY <1>1, <1>2
    <2>4. ToSet(q) \cup ToSet(r) \subseteq ToSet(s)
      BY <2>2, <2>3 DEF ToSet
    <2> QED BY <2>1, <2>4
  <1> QED BY <1>1, <1>4, <1>5 DEF s

\* A member more.
LEMMA SortedAppend ==
  ASSUME NEW q \in Seq(Nat), NEW u \in Nat, Increasing(q), \A v \in ToSet(q) : v < u
  PROVE  /\ Append(q, u) \in Seq(Nat) /\ Increasing(Append(q, u))
         /\ ToSet(Append(q, u)) = ToSet(q) \cup {u}
PROOF
  <1>1. /\ Append(q, u) \in Seq(Nat) /\ Len(Append(q, u)) = Len(q) + 1 /\ Len(q) \in Nat
        /\ \A i \in 1 .. Len(q) : Append(q, u)[i] = q[i]
        /\ Append(q, u)[Len(q) + 1] = u
    OBVIOUS
  <1>2. DOMAIN q = 1 .. Len(q) /\ DOMAIN Append(q, u) = 1 .. (Len(q) + 1)
    BY <1>1
  <1>3. ToSet(Append(q, u)) = ToSet(q) \cup {u}
    <2>1. ToSet(Append(q, u)) \subseteq ToSet(q) \cup {u}
      <3>1. \A i \in 1 .. (Len(q) + 1) : i = Len(q) + 1 \/ i \in 1 .. Len(q)
        BY <1>1
      <3> QED BY <1>1, <1>2, <3>1 DEF ToSet
    <2>2. ToSet(q) \cup {u} \subseteq ToSet(Append(q, u))
      <3>1. Len(q) + 1 \in DOMAIN Append(q, u) /\ \A i \in DOMAIN q : i \in DOMAIN Append(q, u)
        BY <1>1, <1>2
      <3> QED BY <1>1, <1>2, <3>1 DEF ToSet
    <2> QED BY <2>1, <2>2
  <1>4. Increasing(Append(q, u))
    <2>1. \A i \in DOMAIN q : q[i] < u
      BY DEF ToSet
    <2>2. SUFFICES ASSUME NEW i \in DOMAIN Append(q, u), NEW j \in DOMAIN Append(q, u), i < j
                   PROVE  Append(q, u)[i] < Append(q, u)[j]
      BY DEF Increasing
    <2>3. i \in DOMAIN q /\ Append(q, u)[i] = q[i]
      BY <1>1, <1>2, <2>2
    <2>4. CASE j \in DOMAIN q
      BY <1>1, <1>2, <2>2, <2>3, <2>4 DEF Increasing
    <2>5. CASE j = Len(q) + 1
      BY <1>1, <2>1, <2>3, <2>5
    <2> QED BY <1>1, <1>2, <2>4, <2>5
  <1> QED BY <1>1, <1>3, <1>4

\* A queue in two.
LEMMA SortedCut ==
  ASSUME NEW q \in Seq(Nat), Increasing(q), NEW n \in 0 .. Len(q)
  PROVE  LET a == SubSeq(q, 1, n)
             b == SubSeq(q, n + 1, Len(q))
         IN /\ a \in Seq(Nat) /\ Increasing(a) /\ Len(a) = n
            /\ b \in Seq(Nat) /\ Increasing(b)
            /\ ToSet(a) \cup ToSet(b) = ToSet(q)
            /\ ToSet(a) = {q[i] : i \in 1 .. n}
            /\ ToSet(b) = {q[i] : i \in (n + 1) .. Len(q)}
            /\ \A u \in ToSet(a) : \A v \in ToSet(b) : u < v
PROOF
  <1> DEFINE a == SubSeq(q, 1, n)
             b == SubSeq(q, n + 1, Len(q))
  <1>1. Len(q) \in Nat /\ DOMAIN q = 1 .. Len(q) /\ n \in Nat /\ n <= Len(q)
    OBVIOUS
  <1>2. a \in Seq(Nat) /\ Len(a) = n /\ \A i \in 1 .. n : a[i] = q[i]
    BY <1>1
  <1>3. b \in Seq(Nat) /\ Len(b) = Len(q) - n /\ \A i \in 1 .. (Len(q) - n) : b[i] = q[n + i]
    <2>1. \A i \in (n + 1) .. Len(q) : q[i] \in Nat
      BY <1>1
    <2>2. /\ b \in Seq(Nat) /\ Len(b) = IF n + 1 <= Len(q) THEN Len(q) - (n + 1) + 1 ELSE 0
          /\ \A i \in 1 .. (Len(q) - (n + 1) + 1) : b[i] = q[(n + 1) + i - 1]
      BY <1>1, <2>1, SubSeqProperties
    <2>3. Len(q) - (n + 1) + 1 = Len(q) - n /\ \A i \in 1 .. (Len(q) - n) : (n + 1) + i - 1 = n + i
      BY <1>1
    <2>4. (n + 1 <= Len(q) => Len(q) - (n + 1) + 1 = Len(q) - n) /\ (~(n + 1 <= Len(q)) => Len(q) - n = 0)
      <3>1. \A m \in Nat : n <= m => (~(n + 1 <= m) => m - n = 0) /\ m - (n + 1) + 1 = m - n
        BY <1>1
      <3> QED BY <1>1, <3>1
    <2> HIDE DEF b
    <2>5. Len(b) = Len(q) - n
      BY <2>2, <2>4
    <2>6. \A i \in 1 .. (Len(q) - n) : b[i] = q[n + i]
      BY <2>2, <2>3
    <2>7. b \in Seq(Nat)
      BY <2>2
    <2> QED BY <2>5, <2>6, <2>7
  <1>4. DOMAIN a = 1 .. n /\ DOMAIN b = 1 .. (Len(q) - n)
    <2> HIDE DEF a, b
    <2> QED BY <1>1, <1>2, <1>3
  <1> HIDE DEF a, b
  <1>5. Increasing(a) /\ Increasing(b)
    <2>1. Increasing(a)
      BY <1>1, <1>2, <1>4 DEF Increasing
    <2>2. ASSUME NEW i \in DOMAIN b, NEW j \in DOMAIN b, i < j
          PROVE  b[i] < b[j]
      <3>1. n + i \in DOMAIN q /\ n + j \in DOMAIN q /\ n + i < n + j
        BY <1>1, <1>4, <2>2
      <3>2. b[i] = q[n + i] /\ b[j] = q[n + j]
        BY <1>3, <1>4
      <3> QED BY <3>1, <3>2 DEF Increasing
    <2> QED BY <2>1, <2>2 DEF Increasing
  <1>6. ToSet(a) = {q[i] : i \in 1 .. n}
    BY <1>2, <1>4 DEF ToSet
  <1>7. ToSet(b) = {q[i] : i \in (n + 1) .. Len(q)}
    <2>1. \A i \in (n + 1) .. Len(q) : i - n \in 1 .. (Len(q) - n) /\ n + (i - n) = i
      BY <1>1
    <2>2. \A i \in 1 .. (Len(q) - n) : n + i \in (n + 1) .. Len(q)
      BY <1>1
    <2>3. ToSet(b) = {b[i] : i \in 1 .. (Len(q) - n)}
      BY <1>4 DEF ToSet
    <2>4. ASSUME NEW u \in ToSet(b)
          PROVE  u \in {q[i] : i \in (n + 1) .. Len(q)}
      BY <1>3, <2>2, <2>3
    <2>5. ASSUME NEW i \in (n + 1) .. Len(q)
          PROVE  q[i] \in ToSet(b)
      <3>1. i - n \in 1 .. (Len(q) - n) /\ q[i] = b[i - n]
        BY <1>3, <2>1
      <3> QED BY <2>3, <3>1
    <2> QED BY <2>4, <2>5
  <1>8. ToSet(a) \cup ToSet(b) = ToSet(q)
    <2>1. ToSet(q) = {q[i] : i \in 1 .. Len(q)}
      BY <1>1 DEF ToSet
    <2>2. (1 .. n) \cup ((n + 1) .. Len(q)) = 1 .. Len(q)
      BY <1>1
    <2> QED BY <1>6, <1>7, <2>1, <2>2
  <1>9. \A u \in ToSet(a) : \A v \in ToSet(b) : u < v
    BY <1>1, <1>6, <1>7 DEF Increasing
  <1> QED BY <1>2, <1>3, <1>5, <1>6, <1>7, <1>8, <1>9 DEF a, b

\* When what follows a uop of the wrong path is of the wrong path too, trimming
\* a queue leaves what is not, and cuts the rest off its end.
LEMMA TrimmedFacts ==
  ASSUME NEW q \in Seq(Nat), Increasing(q),
         \A u \in ToSet(q) : uop[u].specmode \in BOOLEAN,
         \A u, v \in ToSet(q) : u < v /\ uop[u].specmode => uop[v].specmode
  PROVE  \E n \in 0 .. Len(q) :
           /\ Trimmed(q) = SubSeq(q, 1, n)
           /\ \A i \in 1 .. n : ~uop[q[i]].specmode
           /\ \A i \in (n + 1) .. Len(q) : uop[q[i]].specmode
PROOF
  <1> DEFINE good == {i \in DOMAIN q : ~uop[q[i]].specmode}
             T == {i \in 1 .. (Len(q) + 1) : i = Len(q) + 1 \/ uop[q[i]].specmode}
  <1>1. Len(q) \in Nat /\ DOMAIN q = 1 .. Len(q) /\ \A i \in DOMAIN q : q[i] \in ToSet(q)
    BY DEF ToSet
  <1>2. PICK x \in T : \A y \in T : x <= y
    <2>1. T \subseteq Nat /\ Len(q) + 1 \in T
      BY <1>1
    <2> HIDE DEF T
    <2> QED BY <2>1, LeastNat
  <1>3. x - 1 \in 0 .. Len(q) /\ x \in Nat
    BY <1>1, <1>2
  <1>4. ASSUME NEW i \in 1 .. (x - 1)
        PROVE  ~uop[q[i]].specmode
    <2>1. i \in 1 .. (Len(q) + 1) /\ i # Len(q) + 1 /\ i \notin T
      BY <1>1, <1>2, <1>3
    <2> QED BY <2>1
  <1>5. ASSUME NEW i \in ((x - 1) + 1) .. Len(q)
        PROVE  uop[q[i]].specmode
    <2>1. i \in DOMAIN q /\ x <= i /\ x \in DOMAIN q
      BY <1>1, <1>3
    <2>2. uop[q[x]].specmode
      BY <1>1, <1>2, <2>1
    <2>3. CASE x < i
      <3>1. q[x] < q[i]
        BY <2>1, <2>3 DEF Increasing
      <3> QED BY <1>1, <2>1, <2>2, <3>1
    <2>4. CASE x = i
      BY <2>2, <2>4
    <2> QED BY <2>1, <1>3, <2>3, <2>4
  <1>6. Max({0} \cup good) = x - 1
    <2>1. \A i \in good : i <= x - 1 /\ i \in Int
      BY <1>1, <1>3, <1>5
    <2>2. x - 1 \in {0} \cup good
      BY <1>1, <1>3, <1>4
    <2>3. x - 1 \in Int /\ 0 <= x - 1
      BY <1>3
    <2> HIDE DEF good
    <2>4. {0} \cup good \subseteq Int /\ \A i \in {0} \cup good : i <= x - 1
      BY <2>1, <2>3
    <2> QED BY <2>2, <2>3, <2>4, MaxOfTop
  <1> DEFINE n == x - 1
  <1>7. Trimmed(q) = SubSeq(q, 1, n)
    BY <1>6 DEF Trimmed
  <1> QED BY <1>3, <1>4, <1>5, <1>7

(***************************************************************************)
(* Tables of uops                                                          *)
(***************************************************************************)

\* What a uop keeps all its life.
Like(r, s) ==
  /\ IsUop(r) /\ r.uinst = s.uinst /\ r.mop_index = s.mop_index
  /\ r.specmode = s.specmode /\ r.mispredicted = s.mispredicted

\* Setting a flag of a uop leaves the rest.
LEMMA UopFlag ==
  ASSUME NEW r, IsUop(r)
  PROVE  /\ LET s == [r EXCEPT !.in_event_queue = TRUE] IN Like(s, r) /\ s.in_event_queue = TRUE /\ s.completed = r.completed
         /\ LET s == [r EXCEPT !.in_event_queue = FALSE] IN Like(s, r) /\ s.in_event_queue = FALSE /\ s.completed = r.completed
         /\ LET s == [r EXCEPT !.completed = TRUE] IN Like(s, r) /\ s.in_event_queue = r.in_event_queue /\ s.completed = TRUE
         /\ LET s == [r EXCEPT !.syscall_ready = TRUE] IN Like(s, r) /\ s.in_event_queue = r.in_event_queue /\ s.completed = r.completed
PROOF
  <1>1. /\ r = [uinst |-> r.uinst, mop_index |-> r.mop_index, specmode |-> r.specmode,
                mispredicted |-> r.mispredicted, in_event_queue |-> r.in_event_queue,
                completed |-> r.completed, syscall_ready |-> r.syscall_ready,
                ph_idep |-> r.ph_idep, ph_odep |-> r.ph_odep, ph_oodep |-> r.ph_oodep]
        /\ r.uinst \in Uinst /\ r.mop_index \in Nat
        /\ {r.specmode, r.mispredicted, r.in_event_queue, r.completed, r.syscall_ready} \subseteq BOOLEAN
        /\ \E inst \in Insts : r.uinst \in ToSet(inst)
        /\ r.mispredicted => r.uinst.op = "ctrl"
    BY DEF IsUop, Fields
  <1>2. \A s : /\ s = [uinst |-> r.uinst, mop_index |-> r.mop_index, specmode |-> r.specmode,
                        mispredicted |-> r.mispredicted, in_event_queue |-> s.in_event_queue,
                        completed |-> s.completed, syscall_ready |-> s.syscall_ready,
                        ph_idep |-> s.ph_idep, ph_odep |-> s.ph_odep, ph_oodep |-> s.ph_oodep]
               /\ {s.in_event_queue, s.completed, s.syscall_ready} \subseteq BOOLEAN
               => Like(s, r)
    BY <1>1 DEF Like, IsUop, Fields
  <1>3. ASSUME NEW b \in BOOLEAN
        PROVE  LET s == [r EXCEPT !.in_event_queue = b] IN Like(s, r) /\ s.in_event_queue = b /\ s.completed = r.completed
    BY <1>1, <1>2
  <1>4. ASSUME NEW b \in BOOLEAN
        PROVE  LET s == [r EXCEPT !.completed = b] IN Like(s, r) /\ s.in_event_queue = r.in_event_queue /\ s.completed = b
    BY <1>1, <1>2
  <1>5. ASSUME NEW b \in BOOLEAN
        PROVE  LET s == [r EXCEPT !.syscall_ready = b] IN Like(s, r) /\ s.in_event_queue = r.in_event_queue /\ s.completed = r.completed
    BY <1>1, <1>2
  <1>6. TRUE \in BOOLEAN /\ FALSE \in BOOLEAN
    OBVIOUS
  <1> QED BY <1>3, <1>4, <1>5, <1>6, Zenon

\* ... and so does giving it registers,
LEMMA UopRegs ==
  ASSUME NEW r, IsUop(r), NEW x
  PROVE  /\ LET s == [r EXCEPT !.ph_idep = x] IN Like(s, r) /\ s.in_event_queue = r.in_event_queue /\ s.completed = r.completed
         /\ LET s == [r EXCEPT !.ph_odep = x] IN Like(s, r) /\ s.in_event_queue = r.in_event_queue /\ s.completed = r.completed
         /\ LET s == [r EXCEPT !.ph_oodep = x] IN Like(s, r) /\ s.in_event_queue = r.in_event_queue /\ s.completed = r.completed
PROOF
  <1>1. /\ r = [uinst |-> r.uinst, mop_index |-> r.mop_index, specmode |-> r.specmode,
                mispredicted |-> r.mispredicted, in_event_queue |-> r.in_event_queue,
                completed |-> r.completed, syscall_ready |-> r.syscall_ready,
                ph_idep |-> r.ph_idep, ph_odep |-> r.ph_odep, ph_oodep |-> r.ph_oodep]
        /\ r.uinst \in Uinst /\ r.mop_index \in Nat
        /\ {r.specmode, r.mispredicted, r.in_event_queue, r.completed, r.syscall_ready} \subseteq BOOLEAN
        /\ \E inst \in Insts : r.uinst \in ToSet(inst)
        /\ r.mispredicted => r.uinst.op = "ctrl"
    BY DEF IsUop, Fields
  <1>2. \A s : /\ s = [uinst |-> r.uinst, mop_index |-> r.mop_index, specmode |-> r.specmode,
                        mispredicted |-> r.mispredicted, in_event_queue |-> s.in_event_queue,
                        completed |-> s.completed, syscall_ready |-> s.syscall_ready,
                        ph_idep |-> s.ph_idep, ph_odep |-> s.ph_odep, ph_oodep |-> s.ph_oodep]
               /\ {s.in_event_queue, s.completed, s.syscall_ready} \subseteq BOOLEAN
               => Like(s, r)
    BY <1>1 DEF Like, IsUop, Fields
  <1>3. LET s == [r EXCEPT !.ph_idep = x] IN Like(s, r) /\ s.in_event_queue = r.in_event_queue /\ s.completed = r.completed
    BY <1>1, <1>2
  <1>4. LET s == [r EXCEPT !.ph_odep = x] IN Like(s, r) /\ s.in_event_queue = r.in_event_queue /\ s.completed = r.completed
    BY <1>1, <1>2
  <1>5. LET s == [r EXCEPT !.ph_oodep = x] IN Like(s, r) /\ s.in_event_queue = r.in_event_queue /\ s.completed = r.completed
    BY <1>1, <1>2
  <1> QED BY <1>3, <1>4, <1>5

\* ... and completing it.
LEMMA UopCompletes ==
  ASSUME NEW r, IsUop(r)
  PROVE  LET s == [[r EXCEPT !.in_event_queue = FALSE] EXCEPT !.completed = TRUE] IN
           Like(s, r) /\ s.in_event_queue = FALSE /\ s.completed = TRUE
PROOF
  <1>0. \A x, y, z : Like(x, y) => IsUop(x) /\ (Like(y, z) => Like(x, z))
    BY DEF Like
  <1> DEFINE t == [r EXCEPT !.in_event_queue = FALSE]
             s == [t EXCEPT !.completed = TRUE]
  <1>1. IsUop(t) /\ Like(t, r) /\ t.in_event_queue = FALSE
    BY <1>0, UopFlag
  <1> HIDE DEF t
  <1>2. Like(s, t) /\ s.in_event_queue = t.in_event_queue /\ s.completed = TRUE
    BY <1>1, UopFlag
  <1> HIDE DEF s
  <1>3. Like(s, r) /\ s.in_event_queue = FALSE /\ s.completed = TRUE
    BY <1>0, <1>1, <1>2
  <1> QED BY <1>3 DEF s, t

\* A table whose uops are what they were.
Alike(f, g) ==
  /\ f = [u \in DOMAIN f |-> f[u]] /\ DOMAIN f = DOMAIN g
  /\ \A u \in DOMAIN g : Like(f[u], g[u])

\* The uop u starts to run,
Marked(f, g, u) == f = [g EXCEPT ![u].in_event_queue = TRUE]
\* ... completes,
Done(f, g, u) == f = [g EXCEPT ![u].in_event_queue = FALSE, ![u].completed = TRUE]
\* ... or has its system call done.
Trapped(f, g, u) == f = [g EXCEPT ![u].syscall_ready = TRUE]

\* Starting a uop changes its in_event_queue flag alone,
LEMMA UopMarked ==
  ASSUME NEW g, g = [v \in DOMAIN g |-> g[v]], \A v \in DOMAIN g : IsUop(g[v]),
         NEW u \in DOMAIN g, NEW f, Marked(f, g, u)
  PROVE  /\ Alike(f, g)
         /\ \A v \in DOMAIN g : /\ f[v].in_event_queue <=> (g[v].in_event_queue \/ v = u)
                                /\ f[v].completed = g[v].completed
PROOF
  <1>1. \A r : IsUop(r) => Like(r, r) /\ r.in_event_queue \in BOOLEAN /\ r.completed \in BOOLEAN
    BY DEF Like, IsUop, Fields
  <1> DEFINE s == [g[u] EXCEPT !.in_event_queue = TRUE]
  <1>2. Like(s, g[u]) /\ s.in_event_queue = TRUE /\ s.completed = g[u].completed
    BY UopFlag
  <1>3. f = [g EXCEPT ![u] = s]
    BY DEF Marked
  <1> HIDE DEF s
  <1> QED BY <1>1, <1>2, <1>3 DEF Alike

\* ... completing it changes two flags,
LEMMA UopDone ==
  ASSUME NEW g, g = [v \in DOMAIN g |-> g[v]], \A v \in DOMAIN g : IsUop(g[v]),
         NEW u \in DOMAIN g, NEW f, Done(f, g, u)
  PROVE  /\ Alike(f, g)
         /\ \A v \in DOMAIN g : /\ f[v].in_event_queue <=> (g[v].in_event_queue /\ v # u)
                                /\ f[v].completed <=> (g[v].completed \/ v = u)
PROOF
  <1>1. \A r : IsUop(r) => Like(r, r) /\ r.in_event_queue \in BOOLEAN /\ r.completed \in BOOLEAN
    BY DEF Like, IsUop, Fields
  <1> DEFINE s == [[g[u] EXCEPT !.in_event_queue = FALSE] EXCEPT !.completed = TRUE]
  <1>2. Like(s, g[u]) /\ s.in_event_queue = FALSE /\ s.completed = TRUE
    BY UopCompletes
  <1>3. f = [g EXCEPT ![u] = s]
    BY DEF Done
  <1> HIDE DEF s
  <1> QED BY <1>1, <1>2, <1>3 DEF Alike

\* ... and a system call neither of these.
LEMMA UopTrapped ==
  ASSUME NEW g, g = [v \in DOMAIN g |-> g[v]], \A v \in DOMAIN g : IsUop(g[v]),
         NEW u \in DOMAIN g, NEW f, Trapped(f, g, u)
  PROVE  /\ Alike(f, g)
         /\ \A v \in DOMAIN g : f[v].in_event_queue = g[v].in_event_queue /\ f[v].completed = g[v].completed
PROOF
  <1>1. \A r : IsUop(r) => Like(r, r) /\ r.in_event_queue \in BOOLEAN /\ r.completed \in BOOLEAN
    BY DEF Like, IsUop, Fields
  <1> DEFINE s == [g[u] EXCEPT !.syscall_ready = TRUE]
  <1>2. Like(s, g[u]) /\ s.in_event_queue = g[u].in_event_queue /\ s.completed = g[u].completed
    BY UopFlag
  <1>3. f = [g EXCEPT ![u] = s]
    BY DEF Trapped
  <1> HIDE DEF s
  <1> QED BY <1>1, <1>2, <1>3 DEF Alike

\* A uop takes the registers n has for it.
Mapped(f, g, u, n) ==
  f = [g EXCEPT ![u].ph_idep = n.ph_idep, ![u].ph_odep = n.ph_odep, ![u].ph_oodep = n.ph_oodep]

\* Neither do the registers.
LEMMA UopMapped ==
  ASSUME NEW g, g = [v \in DOMAIN g |-> g[v]], \A v \in DOMAIN g : IsUop(g[v]),
         NEW u \in DOMAIN g, NEW n, NEW f, Mapped(f, g, u, n)
  PROVE  /\ Alike(f, g)
         /\ \A v \in DOMAIN g : f[v].in_event_queue = g[v].in_event_queue /\ f[v].completed = g[v].completed
PROOF
  <1>1. \A r : IsUop(r) => Like(r, r) /\ r.in_event_queue \in BOOLEAN /\ r.completed \in BOOLEAN
    BY DEF Like, IsUop, Fields
  <1>2. \A x, y, z : Like(x, y) => IsUop(x) /\ (Like(y, z) => Like(x, z))
    BY DEF Like
  <1> DEFINE t == [g[u] EXCEPT !.ph_idep = n.ph_idep]
             w == [t EXCEPT !.ph_odep = n.ph_odep]
             s == [w EXCEPT !.ph_oodep = n.ph_oodep]
  <1>3. Like(t, g[u]) /\ t.in_event_queue = g[u].in_event_queue /\ t.completed = g[u].completed
    BY UopRegs
  <1> HIDE DEF t
  <1>4. IsUop(t)
    BY <1>2, <1>3
  <1>5. Like(w, t) /\ w.in_event_queue = t.in_event_queue /\ w.completed = t.completed
    BY <1>4, UopRegs
  <1> HIDE DEF w
  <1>6. IsUop(w)
    BY <1>2, <1>5
  <1>7. Like(s, w) /\ s.in_event_queue = w.in_event_queue /\ s.completed = w.completed
    BY <1>6, UopRegs
  <1> HIDE DEF s
  <1>8. Like(s, g[u]) /\ s.in_event_queue = g[u].in_event_queue /\ s.completed = g[u].completed
    BY <1>2, <1>3, <1>5, <1>7
  <1>9. f = [g EXCEPT ![u] = s]
    BY DEF s, w, t, Mapped
  <1> QED BY <1>1, <1>8, <1>9 DEF Alike

(***************************************************************************)
(* The queues: steps                                                       *)
(***************************************************************************)

\* What is behind a uop of the wrong path is of the wrong path.
LEMMA WrongPathGoesOn ==
  ASSUME CoreInv, NEW u \in Queued, NEW v \in Queued, u < v, uop[u].specmode
  PROVE  uop[v].specmode
PROOF
  <1>1. PICK b \in Pending : b < u
    BY DEF CoreInv, Speculation
  <1>2. b \in Nat /\ u \in Nat /\ v \in Nat
    BY DEF CoreInv, UopsTyped, UopsAccounted, Pending
  <1>3. b < v
    BY <1>1, <1>2
  <1> QED BY <1>1, <1>3 DEF CoreInv, Speculation

\* The uops in being are those in the queues and those running.
LEMMA CoreFacts ==
  ASSUME CoreInv
  PROVE  /\ Queued = ToSet(rob) \cup FrontEnd
         /\ DOMAIN uop = Queued \cup Running /\ DOMAIN uop \subseteq Nat
         /\ Pending \subseteq ToSet(rob) \cup FrontEnd
         /\ \A u \in DOMAIN uop : uop[u].specmode \in BOOLEAN /\ uop[u].completed \in BOOLEAN
                                  /\ uop[u].in_event_queue \in BOOLEAN /\ uop[u].mispredicted \in BOOLEAN
         /\ \A u \in ToSet(rob) : u \notin FrontEnd
PROOF
  <1>1. Queued = ToSet(rob) \cup FrontEnd
    BY DEF CoreInv, Issuing, Waiting, Queued, FrontEnd
  <1>2. DOMAIN uop = Queued \cup Running /\ DOMAIN uop \subseteq Nat
    BY DEF CoreInv, UopsAccounted, Running, UopsTyped
  <1>3. Pending \subseteq ToSet(rob) \cup FrontEnd
    BY <1>1 DEF CoreInv, Pending, Issuing, Running
  <1>4. \A u \in DOMAIN uop : uop[u].specmode \in BOOLEAN /\ uop[u].completed \in BOOLEAN
                              /\ uop[u].in_event_queue \in BOOLEAN /\ uop[u].mispredicted \in BOOLEAN
    BY DEF CoreInv, UopsTyped, IsUop, Fields
  <1>5. \A u \in ToSet(rob) : u \notin FrontEnd
    BY <1>1, <1>2 DEF CoreInv, QueuesOrdered
  <1> QED BY <1>1, <1>2, <1>3, <1>4, <1>5

\* A queue, trimmed, keeps its uops of the program.
LEMMA TrimmedQueue ==
  ASSUME CoreInv, NEW q \in Seq(Nat), Increasing(q), ToSet(q) \subseteq Queued
  PROVE  /\ Trimmed(q) \in Seq(Nat) /\ Increasing(Trimmed(q))
         /\ ToSet(Trimmed(q)) = {u \in ToSet(q) : ~uop[u].specmode}
         /\ \E n \in 0 .. Len(q) :
              /\ Trimmed(q) = SubSeq(q, 1, n) /\ Len(Trimmed(q)) = n
              /\ \A i \in 1 .. n : ~uop[q[i]].specmode
              /\ \A i \in (n + 1) .. Len(q) : uop[q[i]].specmode
PROOF
  <1>1. \A u \in ToSet(q) : uop[u].specmode \in BOOLEAN
    BY CoreFacts
  <1>2. \A u, v \in ToSet(q) : u < v /\ uop[u].specmode => uop[v].specmode
    BY WrongPathGoesOn
  <1>3. PICK n \in 0 .. Len(q) : /\ Trimmed(q) = SubSeq(q, 1, n)
                                 /\ \A i \in 1 .. n : ~uop[q[i]].specmode
                                 /\ \A i \in (n + 1) .. Len(q) : uop[q[i]].specmode
    BY <1>1, <1>2, TrimmedFacts
  <1>4. /\ Trimmed(q) \in Seq(Nat) /\ Increasing(Trimmed(q)) /\ Len(Trimmed(q)) = n
        /\ ToSet(Trimmed(q)) = {q[i] : i \in 1 .. n}
        /\ ToSet(Trimmed(q)) \cup {q[i] : i \in (n + 1) .. Len(q)} = ToSet(q)
    BY <1>3, SortedCut
  <1>5. ToSet(Trimmed(q)) = {u \in ToSet(q) : ~uop[u].specmode}
    BY <1>3, <1>4
  <1> QED BY <1>3, <1>4, <1>5

\* What a recovery leaves of the uops and the structures.
LEMMA RecoverEffect ==
  ASSUME CoreInv, NEW f, NEW rf, NEW order, NEW events, NEW done,
         Recover(f, rf, order, events, done),
         order \in Seq(Nat), Increasing(order), ToSet(order) \subseteq ToSet(rob),
         ToSet(rob) \ {done} \subseteq ToSet(order),
         Alike(f, uop), events \subseteq event_queue, done \in ToSet(rob) \ (Waiting \cup memory \cup events),
         \A v \in DOMAIN uop : f[v].in_event_queue <=> v \in memory \cup events,
         ~uop[done].specmode, event_queue \subseteq events \cup {done}, memory' = memory
  PROVE  /\ rob' \in Seq(Nat) /\ uop_queue' \in Seq(Nat) /\ fetch_queue' \in Seq(Nat)
         /\ Increasing(rob') /\ Increasing(uop_queue') /\ Increasing(fetch_queue')
         /\ ToSet(rob') = {u \in ToSet(order) : ~uop[u].specmode}
         /\ ToSet(uop_queue') = {u \in ToSet(uop_queue) : ~uop[u].specmode}
         /\ ToSet(fetch_queue') = {u \in ToSet(fetch_queue) : ~uop[u].specmode}
         /\ iq' = {u \in iq : ~uop[u].specmode} /\ lq' = {u \in lq : ~uop[u].specmode}
         /\ sq' = {u \in sq : ~uop[u].specmode}
         /\ event_queue' = {u \in events : ~uop[u].specmode}
         /\ wrong_path' = FALSE
         /\ uop' = [u \in DOMAIN uop' |-> uop'[u]]
         /\ DOMAIN uop' = ToSet(rob') \cup ToSet(uop_queue') \cup ToSet(fetch_queue') \cup memory \cup event_queue'
         /\ \A u \in DOMAIN uop' : /\ u \in DOMAIN uop /\ Like(uop'[u], uop[u])
                                   /\ uop'[u].completed = f[u].completed
                                   /\ uop'[u].in_event_queue <=> u \in memory \cup event_queue'
PROOF
  <1> DEFINE spec == {u \in DOMAIN f : f[u].specmode}
             gone == [u \in DOMAIN f |-> IF u \in events \cap spec
                                        THEN [f[u] EXCEPT !.in_event_queue = FALSE] ELSE f[u]]
             S == {done} \cup ((Queued \cup events) \cap spec)
             keep == {u \in DOMAIN gone : u \in S => u \in Queued' \/ gone[u].in_event_queue}
  <1>1. /\ Queued = ToSet(rob) \cup FrontEnd
        /\ DOMAIN uop = Queued \cup Running /\ DOMAIN uop \subseteq Nat
        /\ \A u \in DOMAIN uop : uop[u].specmode \in BOOLEAN
    BY CoreFacts
  <1>2. DOMAIN f = DOMAIN uop /\ \A u \in DOMAIN uop : Like(f[u], uop[u]) /\ f[u].specmode = uop[u].specmode
    BY DEF Alike, Like
  <1>3. spec = {u \in DOMAIN uop : uop[u].specmode}
    BY <1>2
  <1>4. /\ fetch_queue' = Trimmed(fetch_queue) /\ uop_queue' = Trimmed(uop_queue) /\ rob' = Trimmed(order)
        /\ iq' = iq \ spec /\ lq' = lq \ spec /\ sq' = sq \ spec
        /\ event_queue' = events \ spec /\ wrong_path' = FALSE
        /\ uop' = Restrict(gone, keep)
    BY DEF Recover, FreeIfNotQueued
  <1>5. /\ rob' \in Seq(Nat) /\ Increasing(rob') /\ ToSet(rob') = {u \in ToSet(order) : ~uop[u].specmode}
    <2>1. ToSet(order) \subseteq Queued
      BY <1>1
    <2> QED BY <1>4, <2>1, TrimmedQueue
  <1>6. /\ uop_queue' \in Seq(Nat) /\ Increasing(uop_queue')
        /\ ToSet(uop_queue') = {u \in ToSet(uop_queue) : ~uop[u].specmode}
    <2>1. ToSet(uop_queue) \subseteq Queued /\ uop_queue \in Seq(Nat) /\ Increasing(uop_queue)
      BY <1>1 DEF FrontEnd, CoreInv, QueuesOrdered
    <2> QED BY <1>4, <2>1, TrimmedQueue
  <1>7. /\ fetch_queue' \in Seq(Nat) /\ Increasing(fetch_queue')
        /\ ToSet(fetch_queue') = {u \in ToSet(fetch_queue) : ~uop[u].specmode}
    <2>1. ToSet(fetch_queue) \subseteq Queued /\ fetch_queue \in Seq(Nat) /\ Increasing(fetch_queue)
      BY <1>1 DEF FrontEnd, CoreInv, QueuesOrdered
    <2> QED BY <1>4, <2>1, TrimmedQueue
  <1>8. /\ Waiting \subseteq ToSet(rob) /\ Waiting \subseteq DOMAIN uop /\ events \subseteq DOMAIN uop
    BY <1>1 DEF CoreInv, Issuing, Running
  <1>9. /\ iq' = {u \in iq : ~uop[u].specmode} /\ lq' = {u \in lq : ~uop[u].specmode}
        /\ sq' = {u \in sq : ~uop[u].specmode} /\ event_queue' = {u \in events : ~uop[u].specmode}
    BY <1>3, <1>4, <1>8 DEF Waiting
  <1>10. Queued' = ToSet(rob') \cup ToSet(uop_queue') \cup ToSet(fetch_queue')
    <2>1. Queued' = ToSet(rob') \cup ToSet(uop_queue') \cup ToSet(fetch_queue') \cup iq' \cup lq' \cup sq'
      BY DEF Queued
    <2>2. iq' \cup lq' \cup sq' \subseteq ToSet(rob')
      BY <1>5, <1>8, <1>9 DEF Waiting
    <2> QED BY <2>1, <2>2
  <1>11. ASSUME NEW u \in DOMAIN uop
         PROVE  /\ Like(gone[u], uop[u]) /\ gone[u].completed = f[u].completed
                /\ gone[u].in_event_queue <=> (u \in memory \/ (u \in events /\ ~uop[u].specmode))
    <2>1. IsUop(f[u])
      BY <1>2 DEF Like
    <2>2. \A u1 \in memory : u1 \notin events
      BY DEF CoreInv, Issuing
    <2>3. CASE u \in events \cap spec
      <3>1. gone[u] = [f[u] EXCEPT !.in_event_queue = FALSE]
        BY <1>2, <2>3
      <3> DEFINE r == [f[u] EXCEPT !.in_event_queue = FALSE]
      <3>2. Like(r, f[u]) /\ r.in_event_queue = FALSE /\ r.completed = f[u].completed
        BY <2>1, UopFlag
      <3> HIDE DEF r
      <3>3. gone[u] = r
        BY <3>1 DEF r
      <3> HIDE DEF gone
      <3> QED BY <1>2, <1>3, <2>2, <2>3, <3>2, <3>3 DEF Like
    <2>4. CASE u \notin events \cap spec
      <3>1. gone[u] = f[u]
        BY <1>2, <2>4
      <3> HIDE DEF gone
      <3> QED BY <1>2, <1>3, <2>4, <3>1
    <2> QED BY <2>3, <2>4
  <1>12. DOMAIN gone = DOMAIN uop
    BY <1>2
  <1> HIDE DEF gone
  <1>13. keep = Queued' \cup memory \cup event_queue'
    <2>1. ASSUME NEW u \in keep
          PROVE  u \in Queued' \cup memory \cup event_queue'
      <3>1. u \in DOMAIN uop
        BY <1>12
      <3>2. CASE u \in S
        BY <1>9, <1>11, <3>1, <3>2
      <3>3. CASE u \notin S
        <4>1. u # done /\ (u \in Queued \cup events => ~uop[u].specmode)
          BY <1>3, <3>1, <3>3
        <4>2. u \in Queued \cup memory \cup events
          BY <1>1, <3>1, <4>1 DEF Running
        <4>3. CASE u \in Queued
          BY <1>1, <1>5, <1>6, <1>7, <1>10, <4>1, <4>3 DEF FrontEnd
        <4> QED BY <1>9, <4>1, <4>2, <4>3
      <3> QED BY <3>2, <3>3
    <2>2. ASSUME NEW u \in Queued' \cup memory \cup event_queue'
          PROVE  u \in keep
      <3>1. u \in DOMAIN uop
        BY <1>1, <1>5, <1>6, <1>7, <1>8, <1>9, <1>10 DEF Running, FrontEnd
      <3> QED BY <1>9, <1>11, <1>12, <3>1
    <2> QED BY <2>1, <2>2
  <1>14. uop' = [u \in keep |-> gone[u]] /\ keep \subseteq DOMAIN uop
    BY <1>4, <1>12 DEF Restrict
  <1> HIDE DEF keep
  <1>15. uop' = [u \in DOMAIN uop' |-> uop'[u]] /\ DOMAIN uop' = keep
    BY <1>14
  <1>16. ASSUME NEW u \in DOMAIN uop'
         PROVE  /\ u \in DOMAIN uop /\ Like(uop'[u], uop[u])
                /\ uop'[u].completed = f[u].completed
                /\ uop'[u].in_event_queue <=> u \in memory \cup event_queue'
    BY <1>9, <1>11, <1>14, <1>15
  <1> QED BY <1>4, <1>5, <1>6, <1>7, <1>9, <1>10, <1>13, <1>15, <1>16

\* CoreInv holds at reset.
LEMMA CoreInit == Init => CoreInv
PROOF
  <1> SUFFICES ASSUME Init PROVE CoreInv
    OBVIOUS
  <1>1. DOMAIN uop = {} /\ uop = <<>> /\ rob = <<>> /\ uop_queue = <<>> /\ fetch_queue = <<>>
        /\ ToSet(rob) = {} /\ ToSet(uop_queue) = {} /\ ToSet(fetch_queue) = {} /\ fetched = 0
        /\ iq = {} /\ lq = {} /\ sq = {} /\ memory = {} /\ event_queue = {}
        /\ wrong_path = FALSE /\ recover_kind \in RecoverKinds
    BY DEF Init, ToSet
  <1>2. Queued = {} /\ Running = {} /\ Waiting = {} /\ FrontEnd = {} /\ Pending = {}
    BY <1>1 DEF Queued, Running, Waiting, FrontEnd, Pending
  <1>3. UopsTyped
    <2>1. uop = [u \in DOMAIN uop |-> uop[u]]
      BY <1>1
    <2>2. MaxUops \in Nat
      BY PipelineConstants
    <2>3. fetched \in 0 .. MaxUops /\ DOMAIN uop \subseteq 1 .. fetched
      BY <1>1, <2>2
    <2>4. wrong_path \in BOOLEAN
      BY <1>1
    <2> QED BY <1>1, <2>1, <2>3, <2>4 DEF UopsTyped
  <1>4. QueuesOrdered
    BY <1>1, <1>2 DEF QueuesOrdered, Increasing
  <1>5. Issuing /\ Flags
    BY <1>1, <1>2 DEF Issuing, Flags
  <1>6. UopsAccounted
    BY <1>1, <1>2 DEF UopsAccounted
  <1>7. Speculation
    BY <1>1, <1>2 DEF Speculation
  <1> QED BY <1>3, <1>4, <1>5, <1>6, <1>7 DEF CoreInv

\* The ids of an instruction's uops follow those fetched before.
LEMMA FetchedIds ==
  ASSUME NEW n \in Nat, NEW m \in Nat
  PROVE  LET ids == [k \in 1 .. n |-> m + k] IN
         /\ ids \in Seq(Nat) /\ Increasing(ids) /\ ToSet(ids) = (m + 1) .. (m + n)
PROOF
  <1> DEFINE ids == [k \in 1 .. n |-> m + k]
  <1>1. ids \in Seq(Nat)
    OBVIOUS
  <1>2. Increasing(ids)
    BY DEF Increasing
  <1>3. \A u \in (m + 1) .. (m + n) : u - m \in 1 .. n /\ u = m + (u - m)
    OBVIOUS
  <1>4. ToSet(ids) = (m + 1) .. (m + n)
    BY <1>3 DEF ToSet
  <1> QED BY <1>1, <1>2, <1>4

\* Fetch keeps CoreInv: the uops of an instruction are younger than all, and of
\* the wrong path if the core is on it.
LEMMA CoreFetch ==
  ASSUME CoreInv, NEW inst \in Insts, Fetch(inst)
  PROVE  CoreInv'
PROOF
  <1> DEFINE n == Len(inst)
             ids == [k \in DOMAIN inst |-> fetched + k]
             new == (fetched + 1) .. (fetched + n)
  <1>1. /\ inst \in Seq(Uinst) /\ inst # <<>> /\ n \in Nat \ {0} /\ DOMAIN inst = 1 .. n
        /\ fetched \in Nat /\ MaxUops \in Nat
        /\ \A k \in 1 .. n : inst[k] \in Uinst /\ inst[k] \in ToSet(inst) /\ (inst[k].op = "ctrl" => k = n)
    BY PipelineConstants DEF CoreInv, UopsTyped, ToSet
  <1>2. ids \in Seq(Nat) /\ Increasing(ids) /\ ToSet(ids) = new
    BY <1>1, FetchedIds
  <1>3. PICK mispredicted \in {FALSE, Last(inst).op = "ctrl"} :
          /\ uop' = [u \in DOMAIN uop \union new |->
                       IF u \in DOMAIN uop THEN uop[u] ELSE NewUop(inst, u - fetched, mispredicted)]
          /\ wrong_path' = (wrong_path \/ mispredicted)
    BY <1>2 DEF Fetch
  <1>4. /\ fetched + n <= MaxUops /\ fetched' = fetched + n /\ fetch_queue' = fetch_queue \o ids
        /\ UNCHANGED <<uop_queue, rob, iq, lq, sq, memory, event_queue, recover_kind>>
    BY DEF Fetch
  <1> HIDE DEF ids, n
  <1>5. /\ \A u \in DOMAIN uop : u \in 1 .. fetched
        /\ \A u \in new : /\ u \notin DOMAIN uop /\ u \in Nat /\ u - fetched \in 1 .. n
                          /\ u - fetched - 1 \in Nat /\ u = fetched + (u - fetched)
        /\ \A u \in DOMAIN uop : \A v \in new : u < v
        /\ fetched + n \in new /\ (fetched + n) - fetched = n
    <2>1. \A m \in Nat : \A u \in (m + 1) .. (m + n) : /\ u \in Nat /\ u - m \in 1 .. n /\ u - m - 1 \in Nat
                                                  /\ u = m + (u - m) /\ \A v \in 1 .. m : v < u
      BY <1>1
    <2>2. \A m \in Nat : m + n \in (m + 1) .. (m + n) /\ (m + n) - m = n
      BY <1>1
    <2>3. DOMAIN uop \subseteq 1 .. fetched
      BY DEF CoreInv, UopsTyped
    <2>4. \A u \in new : u \notin 1 .. fetched
      BY <1>1, <2>1
    <2> QED BY <1>1, <2>1, <2>2, <2>3, <2>4
  <1>6. /\ uop' = [u \in DOMAIN uop' |-> uop'[u]] /\ DOMAIN uop' = DOMAIN uop \cup new
        /\ \A u \in DOMAIN uop : uop'[u] = uop[u]
        /\ \A u \in new : uop'[u] = NewUop(inst, u - fetched, mispredicted)
    BY <1>3, <1>5
  <1>7. mispredicted \in BOOLEAN /\ wrong_path \in BOOLEAN
    BY DEF CoreInv, UopsTyped
  <1>8. ASSUME NEW u \in new
        PROVE  LET r == uop'[u] IN
               /\ IsUop(r) /\ r.specmode = wrong_path /\ r.in_event_queue = FALSE /\ r.completed = FALSE
               /\ r.mispredicted <=> mispredicted /\ inst[u - fetched].op = "ctrl"
    <2> DEFINE k == u - fetched
               r == NewUop(inst, k, mispredicted)
    <2>1. k \in 1 .. n /\ k - 1 \in Nat /\ inst[k] \in Uinst /\ inst[k] \in ToSet(inst)
      BY <1>1, <1>5
    <2> HIDE DEF k
    <2>2. r = [uinst |-> inst[k], mop_index |-> k - 1, specmode |-> wrong_path,
               mispredicted |-> mispredicted /\ inst[k].op = "ctrl",
               in_event_queue |-> FALSE, completed |-> FALSE, syscall_ready |-> FALSE,
               ph_idep |-> <<>>, ph_odep |-> <<>>, ph_oodep |-> <<>>]
      BY DEF NewUop
    <2>3. (mispredicted /\ inst[k].op = "ctrl") \in BOOLEAN
      BY <1>7
    <2>4. /\ r.uinst = inst[k] /\ r.mop_index = k - 1 /\ r.specmode = wrong_path
          /\ r.mispredicted = (mispredicted /\ inst[k].op = "ctrl")
          /\ r.in_event_queue = FALSE /\ r.completed = FALSE /\ r.syscall_ready = FALSE
          /\ r.ph_idep = <<>> /\ r.ph_odep = <<>> /\ r.ph_oodep = <<>>
      BY <2>2
    <2>5. r \in Fields(r.ph_idep, r.ph_odep, r.ph_oodep)
      BY <1>7, <2>1, <2>2, <2>3, <2>4 DEF Fields
    <2>6. uop'[u] = r
      BY <1>6 DEF k
    <2> HIDE DEF r
    <2> QED BY <2>1, <2>3, <2>4, <2>5, <2>6 DEF IsUop, k
  <1>9. UopsTyped'
    <2>1. fetched' \in 0 .. MaxUops /\ DOMAIN uop' \subseteq 1 .. fetched'
      BY <1>1, <1>4, <1>5, <1>6
    <2>2. \A u \in DOMAIN uop' : IsUop(uop'[u])
      BY <1>6, <1>8 DEF CoreInv, UopsTyped
    <2>3. wrong_path' \in BOOLEAN
      BY <1>3, <1>7
    <2> QED BY <1>4, <1>6, <2>1, <2>2, <2>3 DEF UopsTyped, CoreInv
  <1>10. /\ Queued = ToSet(rob) \cup FrontEnd /\ DOMAIN uop = Queued \cup Running
         /\ \A u \in DOMAIN uop : uop[u].specmode \in BOOLEAN
    BY CoreFacts
  <1>11. \A u \in DOMAIN uop : \A v \in new : u < v
    BY <1>5
  <1>12. fetch_queue' \in Seq(Nat) /\ Increasing(fetch_queue') /\ ToSet(fetch_queue') = ToSet(fetch_queue) \cup new
    <2>1. fetch_queue \in Seq(Nat) /\ Increasing(fetch_queue) /\ ToSet(fetch_queue) \subseteq DOMAIN uop
      BY <1>10 DEF CoreInv, QueuesOrdered, FrontEnd
    <2> QED BY <1>2, <1>4, <1>11, <2>1, SortedConcat
  <1>13. FrontEnd' = FrontEnd \cup new /\ Running' = Running /\ Waiting' = Waiting
    BY <1>4, <1>12 DEF FrontEnd, Running, Waiting
  <1>14. QueuesOrdered'
    <2>1. ToSet(rob) \subseteq DOMAIN uop /\ ToSet(uop_queue) \subseteq DOMAIN uop
      BY <1>10 DEF FrontEnd
    <2> QED BY <1>4, <1>11, <1>12, <1>13, <2>1 DEF QueuesOrdered, CoreInv
  <1>15. Queued' = Queued \cup new /\ UopsAccounted'
    <2>1. Queued' = Queued \cup new
      BY <1>4, <1>12 DEF Queued
    <2> QED BY <1>4, <1>6, <1>10, <1>13, <2>1 DEF UopsAccounted, Running
  <1>16. Issuing'
    <2>1. ToSet(rob)' = ToSet(rob) /\ Running \subseteq DOMAIN uop /\ Waiting \subseteq DOMAIN uop
      BY <1>4, <1>10 DEF Queued, Waiting
    <2>2. lq \subseteq DOMAIN uop /\ sq \subseteq DOMAIN uop /\ iq \subseteq DOMAIN uop /\ memory \subseteq DOMAIN uop
      BY <2>1 DEF Waiting, Running
    <2> QED BY <1>4, <1>5, <1>6, <1>13, <2>1, <2>2 DEF Issuing, CoreInv, Op, IsMem
  <1>17. Flags'
    <2>1. ToSet(rob)' = ToSet(rob) /\ Running \subseteq DOMAIN uop
      BY <1>4, <1>10
    <2> QED BY <1>5, <1>6, <1>8, <1>13, <2>1 DEF Flags, CoreInv
  <1>18. Speculation'
    <2>1. Pending' = Pending \cup {u \in new : uop'[u].mispredicted /\ ~wrong_path}
      <3>1. Queued' \cup event_queue' = (Queued \cup event_queue) \cup new
        BY <1>4, <1>15
      <3>2. Queued \cup event_queue \subseteq DOMAIN uop
        BY <1>10 DEF Running
      <3> QED BY <1>4, <1>6, <1>8, <3>1, <3>2 DEF Pending
    <2>2. Pending \subseteq DOMAIN uop
      BY <1>10 DEF Pending, Running
    <2>3. CASE wrong_path
      <3>1. Pending' = Pending /\ wrong_path' /\ Pending # {}
        BY <1>3, <2>1, <2>3 DEF CoreInv, Speculation
      <3>2. ASSUME NEW u \in Queued'
            PROVE  uop'[u].specmode <=> \E b \in Pending : b < u
        <4>1. CASE u \in Queued
          BY <1>6, <1>10, <4>1 DEF CoreInv, Speculation
        <4>2. CASE u \in new
          BY <1>8, <1>11, <2>2, <2>3, <3>1, <4>2
        <4> QED BY <1>15, <4>1, <4>2
      <3> QED BY <3>1, <3>2 DEF CoreInv, Speculation
    <2>4. CASE ~wrong_path
      <3>1. Pending = {}
        BY <2>4 DEF CoreInv, Speculation
      <3>2. Pending' = {u \in new : mispredicted /\ inst[u - fetched].op = "ctrl"}
        BY <1>8, <2>1, <2>4, <3>1
      <3>3. \A u \in Pending' : u = fetched + n /\ mispredicted
        <4>1. ASSUME NEW u \in new, inst[u - fetched].op = "ctrl"
              PROVE  u = fetched + n
          <5>1. u - fetched = n
            BY <1>1, <1>5, <4>1
          <5> QED BY <1>5, <5>1
        <4> QED BY <3>2, <4>1
      <3>4. mispredicted => fetched + n \in Pending'
        <4>1. mispredicted => inst[n].op = "ctrl"
          BY <1>1 DEF Last, n
        <4> QED BY <1>5, <3>2, <4>1
      <3>5. wrong_path' <=> Pending' # {}
        BY <1>3, <1>7, <2>4, <3>3, <3>4
      <3>6. ASSUME NEW u \in Queued'
            PROVE  ~uop'[u].specmode /\ ~ \E b \in Pending' : b < u
        <4>1. u \in Nat /\ u <= fetched + n
          <5>1. u \in DOMAIN uop'
            BY <1>6, <1>10, <1>15
          <5> QED BY <1>4, <1>9, <5>1, <1>1 DEF UopsTyped
        <4>2. ~ \E b \in Pending' : b < u
          BY <1>1, <3>3, <4>1
        <4>3. CASE u \in Queued
          BY <1>6, <1>10, <3>1, <4>2, <4>3 DEF CoreInv, Speculation
        <4>4. CASE u \in new
          BY <1>8, <2>4, <4>2, <4>4
        <4> QED BY <1>15, <4>3, <4>4
      <3> QED BY <3>3, <3>5, <3>6 DEF Speculation
    <2> QED BY <1>7, <2>3, <2>4
  <1> QED BY <1>9, <1>14, <1>15, <1>16, <1>17, <1>18 DEF CoreInv

\* Decode moves a uop from one queue to the next.
LEMMA CoreDecode ==
  ASSUME CoreInv, Decode
  PROVE  CoreInv'
PROOF
  <1>1. PICK n \in 0 .. Len(fetch_queue) :
          /\ uop_queue' = uop_queue \o SubSeq(fetch_queue, 1, n)
          /\ fetch_queue' = SubSeq(fetch_queue, n + 1, Len(fetch_queue))
    <2> DEFINE rest == SelectInSubSeq(fetch_queue, 2, Len(fetch_queue), LAMBDA u : uop[u].mop_index = 0)
               n == IF rest = 0 THEN Len(fetch_queue) ELSE rest - 1
    <2>1. rest \in 0 .. Len(fetch_queue)
      <3> DEFINE I == {i \in 2 .. Len(fetch_queue) : uop[fetch_queue[i]].mop_index = 0}
      <3>1. rest = IF I # {} THEN Min(I) ELSE 0
        BY DEF SelectInSubSeq
      <3>2. Len(fetch_queue) \in Nat
        BY DEF CoreInv, QueuesOrdered
      <3>3. CASE I # {}
        <4>1. I \subseteq Nat
          BY <3>2
        <4>2. PICK x \in I : \A y \in I : x <= y
          <5> HIDE DEF I
          <5> QED BY <3>3, <4>1, LeastNat
        <4>3. Min(I) = x
          <5>1. x \in Int /\ I \subseteq Int
            BY <4>1
          <5> HIDE DEF I
          <5> QED BY <4>2, <5>1, MinOfBottom
        <4> HIDE DEF rest
        <4> QED BY <3>1, <3>2, <3>3, <4>2, <4>3
      <3>4. CASE I = {}
        <4> HIDE DEF rest
        <4> QED BY <3>1, <3>2, <3>4
      <3> QED BY <3>3, <3>4
    <2>2. n \in 0 .. Len(fetch_queue)
      <3> HIDE DEF rest
      <3>1. Len(fetch_queue) \in Nat
        BY DEF CoreInv, QueuesOrdered
      <3> QED BY <2>1, <3>1
    <2> QED BY <2>2 DEF Decode
  <1>2. UNCHANGED <<uop, fetched, rob, iq, lq, sq, memory, event_queue, wrong_path, recover_kind>>
    BY DEF Decode
  <1> DEFINE a == SubSeq(fetch_queue, 1, n)
             b == SubSeq(fetch_queue, n + 1, Len(fetch_queue))
  <1>3. /\ a \in Seq(Nat) /\ Increasing(a) /\ b \in Seq(Nat) /\ Increasing(b)
        /\ ToSet(a) \cup ToSet(b) = ToSet(fetch_queue)
        /\ \A u \in ToSet(a) : \A v \in ToSet(b) : u < v
    <2>1. fetch_queue \in Seq(Nat) /\ Increasing(fetch_queue)
      BY DEF CoreInv, QueuesOrdered
    <2> QED BY <2>1, SortedCut
  <1> HIDE DEF a, b
  <1>4. uop_queue \o a \in Seq(Nat) /\ Increasing(uop_queue \o a) /\ ToSet(uop_queue \o a) = ToSet(uop_queue) \cup ToSet(a)
    <2>1. /\ uop_queue \in Seq(Nat) /\ Increasing(uop_queue)
          /\ \A u \in ToSet(uop_queue) : \A v \in ToSet(a) : u < v
      BY <1>3 DEF CoreInv, QueuesOrdered
    <2> QED BY <1>3, <2>1, SortedConcat
  <1>5. uop_queue' = uop_queue \o a /\ fetch_queue' = b
    BY <1>1 DEF a, b
  <1>6. FrontEnd' = FrontEnd
    BY <1>3, <1>4, <1>5 DEF FrontEnd
  <1>7. Queued' = Queued /\ Running' = Running /\ Waiting' = Waiting
    BY <1>2, <1>3, <1>4, <1>5 DEF Queued, Running, Waiting
  <1>8. QueuesOrdered'
    <2>1. \A u \in ToSet(uop_queue') : \A v \in ToSet(fetch_queue') : u < v
      BY <1>3, <1>4, <1>5 DEF CoreInv, QueuesOrdered
    <2> QED BY <1>2, <1>3, <1>4, <1>5, <1>6, <2>1 DEF CoreInv, QueuesOrdered
  <1>9. Issuing' /\ Flags' /\ UopsTyped' /\ UopsAccounted'
    BY <1>2, <1>6, <1>7 DEF CoreInv, Issuing, Flags, Op, IsMem, UopsTyped, UopsAccounted
  <1>10. Speculation'
    <2>1. Pending' = Pending
      BY <1>2, <1>7 DEF Pending
    <2> QED BY <1>2, <1>7, <2>1 DEF CoreInv, Speculation
  <1> QED BY <1>8, <1>9, <1>10 DEF CoreInv

\* The uops a step changes without a branch of the program completing.
LEMMA SpeculationKept ==
  ASSUME CoreInv, Queued' \subseteq Queued,
         \A u \in Queued' \cup event_queue' : u \in DOMAIN uop /\ Like(uop'[u], uop[u]),
         \A u \in Pending : u \in Queued' \cup event_queue',
         \A u \in (Queued' \cup event_queue') \ (Queued \cup event_queue) : ~uop[u].mispredicted \/ uop[u].specmode,
         recover_kind = "writeback" => \A u \in Queued' \cup event_queue' :
           uop[u].mispredicted /\ ~uop[u].specmode => (uop'[u].completed <=> uop[u].completed),
         UNCHANGED <<wrong_path, recover_kind>>
  PROVE  Speculation'
PROOF
  <1>1. Pending' = Pending
    <2>1. \A u \in Queued' \cup event_queue' :
            uop'[u].mispredicted = uop[u].mispredicted /\ uop'[u].specmode = uop[u].specmode
      BY DEF Like
    <2>2. ASSUME NEW u \in Pending'
          PROVE  u \in Pending
      BY <2>1, <2>2 DEF Pending
    <2>3. ASSUME NEW u \in Pending
          PROVE  u \in Pending'
      BY <2>1, <2>3 DEF Pending
    <2> QED BY <2>2, <2>3
  <1>2. \A u \in Queued' : u \in Queued /\ uop'[u].specmode = uop[u].specmode
    BY DEF Like
  <1> QED BY <1>1, <1>2 DEF CoreInv, Speculation

\* What likeness gives.
LEMMA LikeFacts ==
  ASSUME NEW r, NEW s, Like(r, s)
  PROVE  /\ IsUop(r) /\ r.uinst = s.uinst /\ r.specmode = s.specmode
         /\ r.mispredicted = s.mispredicted
PROOF
  BY DEF Like

\* Dispatch puts a uop at the end of the ROB and in the queue of its kind.
LEMMA CoreDispatch ==
  ASSUME CoreInv, Dispatch
  PROVE  CoreInv'
PROOF
  <1> DEFINE u == Head(uop_queue)
  <1> DEFINE new == Rename(regs, uop[u].uinst)
  <1>1. Mapped(uop', uop, u, new)
    BY DEF Dispatch, Mapped
  <1> HIDE DEF new
  <1>2. /\ uop_queue # <<>> /\ uop_queue' = Tail(uop_queue) /\ rob' = Append(rob, u)
        /\ iq' = iq \cup ({u} \ {v \in {u} : IsMem(v)})
        /\ lq' = lq \cup {v \in {u} : Op(v) = "load"} /\ sq' = sq \cup {v \in {u} : Op(v) = "store"}
        /\ UNCHANGED <<fetched, fetch_queue, memory, event_queue, wrong_path, recover_kind>>
    BY DEF Dispatch
  <1>3. /\ uop_queue' \in Seq(Nat) /\ Increasing(uop_queue') /\ u \in ToSet(uop_queue)
        /\ ToSet(uop_queue') = ToSet(uop_queue) \ {u} /\ \A v \in ToSet(uop_queue') : u < v
    <2>1. uop_queue \in Seq(Nat) /\ Increasing(uop_queue)
      BY DEF CoreInv, QueuesOrdered
    <2> QED BY <1>2, <2>1, SortedTail
  <1> HIDE DEF u
  <1>4. /\ Queued = ToSet(rob) \cup FrontEnd /\ DOMAIN uop = Queued \cup Running /\ DOMAIN uop \subseteq Nat
        /\ u \in DOMAIN uop /\ u \in FrontEnd /\ u \notin ToSet(rob)
    BY <1>3, CoreFacts DEF FrontEnd
  <1>5. rob' \in Seq(Nat) /\ Increasing(rob') /\ ToSet(rob') = ToSet(rob) \cup {u}
    <2>1. rob \in Seq(Nat) /\ Increasing(rob) /\ u \in Nat /\ \A v \in ToSet(rob) : v < u
      BY <1>4 DEF CoreInv, QueuesOrdered
    <2> QED BY <1>2, <2>1, SortedAppend
  <1>6. /\ Alike(uop', uop)
        /\ \A v \in DOMAIN uop : uop'[v].in_event_queue = uop[v].in_event_queue /\ uop'[v].completed = uop[v].completed
    <2>1. uop = [v \in DOMAIN uop |-> uop[v]] /\ \A v \in DOMAIN uop : IsUop(uop[v])
      BY DEF CoreInv, UopsTyped
    <2> QED BY <1>1, <1>4, <2>1, UopMapped
  <1>7. u \notin ToSet(fetch_queue) /\ FrontEnd' = FrontEnd \ {u}
    BY <1>2, <1>3, <1>4 DEF CoreInv, QueuesOrdered, FrontEnd
  <1>8. Waiting' = Waiting \cup {u} /\ Running' = Running
    BY <1>2 DEF Waiting, Running, IsMem
  <1>9. Queued' = Queued
    <2>1. Queued' = ToSet(rob') \cup FrontEnd' \cup Waiting'
      BY DEF Queued, FrontEnd, Waiting
    <2>2. Waiting \subseteq ToSet(rob)
      BY DEF CoreInv, Issuing
    <2> QED BY <1>4, <1>5, <1>7, <1>8, <2>1, <2>2
  <1>10. UopsTyped' /\ UopsAccounted'
    BY <1>2, <1>4, <1>6, <1>8, <1>9 DEF CoreInv, UopsTyped, UopsAccounted, Alike, Like, Running
  <1>11. QueuesOrdered'
    <2>1. \A v \in FrontEnd' : u < v
      BY <1>2, <1>3, <1>4 DEF FrontEnd, CoreInv, QueuesOrdered
    <2> QED BY <1>2, <1>3, <1>5, <1>7, <2>1 DEF CoreInv, QueuesOrdered
  <1>12. u \notin Running /\ \A v \in DOMAIN uop : uop'[v].uinst = uop[v].uinst /\ uop'[v].specmode = uop[v].specmode
    BY <1>4, <1>6 DEF CoreInv, Issuing, Alike, Like
  <1>13. Issuing'
    <2>1. Waiting \subseteq DOMAIN uop /\ Running \subseteq DOMAIN uop
      BY <1>4 DEF CoreInv, Issuing
    <2>2. /\ \A v \in lq' : Op(v)' = "load"
          /\ \A v \in sq' : Op(v)' = "store"
          /\ \A v \in iq' : ~IsMem(v)'
          /\ \A v \in memory' : IsMem(v)'
      BY <1>2, <1>4, <1>12, <2>1 DEF CoreInv, Issuing, Op, IsMem, Waiting, Running
    <2>3. Waiting' \subseteq ToSet(rob') /\ Waiting' \cap Running' = {} /\ memory' \cap event_queue' = {}
      BY <1>2, <1>5, <1>8, <1>12 DEF CoreInv, Issuing
    <2>4. \A v \in Running' : v \in ToSet(rob') \/ uop'[v].specmode
      BY <1>5, <1>8, <1>12, <2>1 DEF CoreInv, Issuing
    <2>5. Running' \cap FrontEnd' = {}
      BY <1>7, <1>8 DEF CoreInv, Issuing
    <2> QED BY <2>2, <2>3, <2>4, <2>5 DEF Issuing
  <1>14. Flags'
    <2>1. DOMAIN uop' = DOMAIN uop
      BY <1>6 DEF Alike
    <2>2. ~uop[u].completed
      BY <1>4 DEF CoreInv, Flags
    <2> QED BY <1>5, <1>6, <1>8, <2>1, <2>2 DEF CoreInv, Flags
  <1>15. Speculation'
    <2>1. Queued' \cup event_queue' = Queued \cup event_queue /\ Queued \cup event_queue \subseteq DOMAIN uop
      BY <1>2, <1>4, <1>9 DEF Running
    <2>2. Pending \subseteq Queued \cup event_queue
      BY DEF Pending
    <2> QED BY <1>2, <1>6, <1>9, <2>1, <2>2, SpeculationKept DEF Alike
  <1> QED BY <1>10, <1>11, <1>13, <1>14, <1>15 DEF CoreInv

\* A uop that leaves the queue it waits in starts to run.
LEMMA CoreIssue ==
  ASSUME CoreInv, NEW u \in Waiting,
         uop' = [uop EXCEPT ![u].in_event_queue = TRUE],
         iq' = iq \ {u}, lq' = lq \ {u}, sq' = sq \ {u},
         \/ memory' = memory \cup {u} /\ event_queue' = event_queue /\ u \notin iq
         \/ event_queue' = event_queue \cup {u} /\ memory' = memory,
         UNCHANGED <<fetched, fetch_queue, uop_queue, rob, wrong_path, recover_kind>>
  PROVE  CoreInv'
PROOF
  <1>1. /\ Queued = ToSet(rob) \cup FrontEnd /\ DOMAIN uop = Queued \cup Running
        /\ Waiting \subseteq ToSet(rob) /\ u \in DOMAIN uop /\ u \in ToSet(rob) /\ u \notin FrontEnd
    BY CoreFacts DEF CoreInv, Issuing
  <1>2. /\ Alike(uop', uop)
        /\ \A v \in DOMAIN uop : /\ uop'[v].in_event_queue <=> (uop[v].in_event_queue \/ v = u)
                                 /\ uop'[v].completed = uop[v].completed
    <2>1. uop = [v \in DOMAIN uop |-> uop[v]] /\ \A v \in DOMAIN uop : IsUop(uop[v])
      BY DEF CoreInv, UopsTyped
    <2>2. Marked(uop', uop, u)
      BY DEF Marked
    <2> QED BY <1>1, <2>1, <2>2, UopMarked
  <1>3. DOMAIN uop' = DOMAIN uop /\ \A v \in DOMAIN uop : Like(uop'[v], uop[v]) /\ IsUop(uop'[v])
          /\ uop'[v].uinst = uop[v].uinst /\ uop'[v].specmode = uop[v].specmode
    BY <1>2 DEF Alike, Like
  <1>4. FrontEnd' = FrontEnd /\ Waiting' = Waiting \ {u} /\ Running' = Running \cup {u}
    BY DEF FrontEnd, Waiting, Running
  <1>5. Queued' = Queued
    <2>1. Queued' = ToSet(rob') \cup FrontEnd' \cup Waiting'
      BY DEF Queued, FrontEnd, Waiting
    <2> QED BY <1>1, <1>4, <2>1
  <1>6. UopsTyped' /\ UopsAccounted' /\ QueuesOrdered'
    <2>1. UopsTyped'
      BY <1>2, <1>3 DEF CoreInv, UopsTyped, Alike
    <2>2. UopsAccounted'
      BY <1>1, <1>3, <1>4, <1>5 DEF UopsAccounted, Running
    <2>3. QueuesOrdered'
      BY <1>4 DEF CoreInv, QueuesOrdered
    <2> QED BY <2>1, <2>2, <2>3
  <1>7. Issuing'
    <2>1. u \notin Running /\ (u \notin iq => IsMem(u))
      BY DEF CoreInv, Issuing, Waiting, IsMem
    <2>2. Waiting \subseteq DOMAIN uop /\ Running \subseteq DOMAIN uop
      BY <1>1
    <2>3. /\ \A v \in lq' : Op(v)' = "load"
          /\ \A v \in sq' : Op(v)' = "store"
          /\ \A v \in iq' : ~IsMem(v)'
          /\ \A v \in memory' : IsMem(v)'
      BY <1>1, <1>3, <2>1, <2>2 DEF CoreInv, Issuing, Op, IsMem, Waiting, Running
    <2>4. Waiting' \subseteq ToSet(rob') /\ Waiting' \cap Running' = {} /\ memory' \cap event_queue' = {}
      BY <1>4, <2>1 DEF CoreInv, Issuing, Running
    <2>5. \A v \in Running' : v \in ToSet(rob') \/ uop'[v].specmode
      BY <1>1, <1>3, <1>4, <2>2 DEF CoreInv, Issuing
    <2>6. Running' \cap FrontEnd' = {}
      BY <1>1, <1>4 DEF CoreInv, Issuing
    <2> QED BY <2>3, <2>4, <2>5, <2>6 DEF Issuing
  <1>8. Flags'
    BY <1>1, <1>2, <1>3, <1>4 DEF CoreInv, Flags
  <1>9. Speculation'
    <2>1. /\ Queued' \cup event_queue' \subseteq DOMAIN uop /\ Queued \cup event_queue \subseteq Queued' \cup event_queue'
          /\ Queued' \cup event_queue' \subseteq (Queued \cup event_queue) \cup {u} /\ u \in Queued
      BY <1>1, <1>5 DEF Running
    <2>2. Pending \subseteq Queued \cup event_queue
      BY DEF Pending
    <2> QED BY <1>2, <1>3, <1>5, <2>1, <2>2, SpeculationKept
  <1> QED BY <1>6, <1>7, <1>8, <1>9 DEF CoreInv

\* A memory access that returns moves its uop to the event queue.
LEMMA CoreMemoryReturns ==
  ASSUME CoreInv, NEW u \in memory, MemoryReturns(u)
  PROVE  CoreInv'
PROOF
  <1>1. /\ memory' = memory \ {u} /\ event_queue' = event_queue \cup {u}
        /\ UNCHANGED <<uop, fetched, fetch_queue, uop_queue, rob, iq, lq, sq, wrong_path, recover_kind>>
    BY DEF MemoryReturns
  <1>2. Queued' = Queued /\ Running' = Running /\ Waiting' = Waiting /\ FrontEnd' = FrontEnd
    BY <1>1 DEF Queued, Running, Waiting, FrontEnd
  <1>3. UopsTyped' /\ UopsAccounted' /\ QueuesOrdered' /\ Flags' /\ Issuing'
    BY <1>1, <1>2 DEF CoreInv, UopsTyped, UopsAccounted, QueuesOrdered, Flags, Issuing, Running, Op, IsMem
  <1>4. Speculation'
    <2>1. ~uop[u].mispredicted
      <3>1. IsMem(u) /\ u \in DOMAIN uop
        BY CoreFacts DEF CoreInv, Issuing, Running
      <3>2. IsUop(uop[u])
        BY <3>1 DEF CoreInv, UopsTyped
      <3> QED BY <3>1, <3>2 DEF IsUop, IsMem, Op
    <2>2. Pending' = Pending
      BY <1>1, <1>2, <2>1 DEF Pending
    <2> QED BY <1>1, <1>2, <2>2 DEF CoreInv, Speculation
  <1> QED BY <1>3, <1>4 DEF CoreInv

\* The uop that writeback takes first.
LEMMA OldestFacts ==
  ASSUME CoreInv, event_queue # {}
  PROVE  Oldest \in event_queue /\ \A v \in event_queue : Oldest <= v
PROOF
  <1>1. event_queue \subseteq Nat
    BY CoreFacts DEF Running
  <1>2. PICK x \in event_queue : \A y \in event_queue : x <= y
    BY <1>1, LeastNat
  <1>3. Min(event_queue) = x
    <2>1. event_queue \subseteq Int /\ x \in Int
      BY <1>1
    <2> QED BY <1>2, <2>1, MinOfBottom
  <1> QED BY <1>2, <1>3 DEF Oldest

\* A system call that is done changes its flag alone.
LEMMA CoreTrap ==
  ASSUME CoreInv, Trap
  PROVE  CoreInv'
PROOF
  <1> DEFINE u == Oldest
  <1>1. /\ event_queue # {} /\ uop' = [uop EXCEPT ![u].syscall_ready = TRUE]
        /\ UNCHANGED <<fetched, fetch_queue, uop_queue, rob, iq, lq, sq, memory, event_queue,
                       wrong_path, recover_kind>>
    BY DEF Trap
  <1>2. u \in event_queue /\ u \in DOMAIN uop
    BY <1>1, OldestFacts, CoreFacts DEF Running
  <1> HIDE DEF u
  <1>3. /\ Alike(uop', uop)
        /\ \A v \in DOMAIN uop : uop'[v].in_event_queue = uop[v].in_event_queue /\ uop'[v].completed = uop[v].completed
    <2>1. uop = [v \in DOMAIN uop |-> uop[v]] /\ \A v \in DOMAIN uop : IsUop(uop[v])
      BY DEF CoreInv, UopsTyped
    <2>2. Trapped(uop', uop, u)
      BY <1>1 DEF Trapped
    <2> QED BY <1>2, <2>1, <2>2, UopTrapped
  <1>4. DOMAIN uop' = DOMAIN uop /\ \A v \in DOMAIN uop : Like(uop'[v], uop[v]) /\ IsUop(uop'[v])
          /\ uop'[v].uinst = uop[v].uinst /\ uop'[v].specmode = uop[v].specmode
    BY <1>3 DEF Alike, Like
  <1>5. Queued' = Queued /\ Running' = Running /\ Waiting' = Waiting /\ FrontEnd' = FrontEnd
    BY <1>1 DEF Queued, Running, Waiting, FrontEnd
  <1>6. UopsTyped' /\ UopsAccounted' /\ QueuesOrdered' /\ Flags'
    BY <1>1, <1>3, <1>4, <1>5 DEF CoreInv, UopsTyped, UopsAccounted, QueuesOrdered, Flags, Alike
  <1>7. Issuing'
    <2>1. Waiting \subseteq DOMAIN uop /\ Running \subseteq DOMAIN uop
      BY CoreFacts DEF CoreInv, Issuing
    <2> QED BY <1>1, <1>4, <1>5, <2>1 DEF CoreInv, Issuing, Op, IsMem, Waiting, Running
  <1>8. Speculation'
    <2>1. Queued \cup event_queue \subseteq DOMAIN uop /\ Pending \subseteq Queued \cup event_queue
      BY CoreFacts DEF Running, Pending
    <2> QED BY <1>1, <1>3, <1>4, <1>5, <2>1, SpeculationKept
  <1> QED BY <1>6, <1>7, <1>8 DEF CoreInv

\* A recovery behind the branch done, which is no longer pending then.
LEMMA CoreRecover ==
  ASSUME CoreInv, NEW f, NEW rf, NEW order, NEW events, NEW done,
         Recover(f, rf, order, events, done),
         order \in Seq(Nat), Increasing(order), ToSet(order) \subseteq ToSet(rob),
         ToSet(rob) \ {done} \subseteq ToSet(order),
         Alike(f, uop), events \subseteq event_queue, done \in ToSet(rob) \ (Waiting \cup memory \cup events),
         \A v \in DOMAIN uop : f[v].in_event_queue <=> v \in memory \cup events,
         \A v \in DOMAIN uop : v # done => f[v].completed = uop[v].completed,
         ~uop[done].specmode, event_queue \subseteq events \cup {done},
         Pending = {done}, done \in ToSet(order) => recover_kind = "writeback" /\ f[done].completed,
         UNCHANGED <<fetched, memory, recover_kind>>
  PROVE  CoreInv'
PROOF
  <1>1. /\ rob' \in Seq(Nat) /\ uop_queue' \in Seq(Nat) /\ fetch_queue' \in Seq(Nat)
        /\ Increasing(rob') /\ Increasing(uop_queue') /\ Increasing(fetch_queue')
        /\ ToSet(rob') = {u \in ToSet(order) : ~uop[u].specmode}
        /\ ToSet(uop_queue') = {u \in ToSet(uop_queue) : ~uop[u].specmode}
        /\ ToSet(fetch_queue') = {u \in ToSet(fetch_queue) : ~uop[u].specmode}
        /\ iq' = {u \in iq : ~uop[u].specmode} /\ lq' = {u \in lq : ~uop[u].specmode}
        /\ sq' = {u \in sq : ~uop[u].specmode}
        /\ event_queue' = {u \in events : ~uop[u].specmode}
        /\ wrong_path' = FALSE
        /\ uop' = [u \in DOMAIN uop' |-> uop'[u]]
        /\ DOMAIN uop' = ToSet(rob') \cup ToSet(uop_queue') \cup ToSet(fetch_queue') \cup memory \cup event_queue'
        /\ \A u \in DOMAIN uop' : /\ u \in DOMAIN uop /\ Like(uop'[u], uop[u])
                                  /\ uop'[u].completed = f[u].completed
                                  /\ uop'[u].in_event_queue <=> u \in memory \cup event_queue'
    BY RecoverEffect
  <1>2. /\ FrontEnd' = {u \in FrontEnd : ~uop[u].specmode} /\ Waiting' = {u \in Waiting : ~uop[u].specmode}
        /\ Running' = memory \cup {u \in events : ~uop[u].specmode}
    BY <1>1 DEF FrontEnd, Waiting, Running
  <1>3. Waiting' \subseteq ToSet(rob')
    BY <1>1, <1>2 DEF CoreInv, Issuing
  <1>4. Queued' = ToSet(rob') \cup FrontEnd' /\ DOMAIN uop' = Queued' \cup Running'
    <2>1. Queued' = ToSet(rob') \cup FrontEnd' \cup Waiting'
      BY DEF Queued, FrontEnd, Waiting
    <2>2. Queued' = ToSet(rob') \cup FrontEnd'
      BY <1>3, <2>1
    <2> QED BY <1>1, <2>2 DEF FrontEnd, Running
  <1>5. \A u \in DOMAIN uop' : IsUop(uop'[u]) /\ uop'[u].uinst = uop[u].uinst
          /\ uop'[u].specmode = uop[u].specmode /\ uop'[u].mispredicted = uop[u].mispredicted
    BY <1>1 DEF Like
  <1>6. UopsTyped' /\ UopsAccounted'
    <2>1. DOMAIN uop' \subseteq 1 .. fetched'
      BY <1>1 DEF CoreInv, UopsTyped
    <2> QED BY <1>1, <1>4, <1>5, <2>1 DEF CoreInv, UopsTyped, UopsAccounted, Running
  <1>7. QueuesOrdered'
    BY <1>1, <1>2 DEF CoreInv, QueuesOrdered
  <1>8. Issuing'
    <2>1. Waiting' \subseteq DOMAIN uop' /\ Running' \subseteq DOMAIN uop'
      BY <1>3, <1>4
    <2>2. /\ \A v \in lq' : Op(v)' = "load"
          /\ \A v \in sq' : Op(v)' = "store"
          /\ \A v \in iq' : ~IsMem(v)'
          /\ \A v \in memory' : IsMem(v)'
      <3>1. lq' \subseteq lq /\ sq' \subseteq sq /\ iq' \subseteq iq
        BY <1>1
      <3>2. lq' \subseteq DOMAIN uop' /\ sq' \subseteq DOMAIN uop' /\ iq' \subseteq DOMAIN uop' /\ memory \subseteq DOMAIN uop'
        BY <2>1 DEF Waiting, Running
      <3>3. \A v \in DOMAIN uop' : Op(v)' = Op(v) /\ (IsMem(v)' <=> IsMem(v))
        BY <1>5 DEF Op, IsMem
      <3> QED BY <3>1, <3>2, <3>3 DEF CoreInv, Issuing
    <2>3. Waiting' \cap Running' = {} /\ memory' \cap event_queue' = {}
      BY <1>1, <1>2 DEF CoreInv, Issuing, Running
    <2>4. ASSUME NEW v \in Running'
          PROVE  v \in ToSet(rob') \/ uop'[v].specmode
      <3>1. v \in Running /\ v # done /\ uop'[v].specmode = uop[v].specmode
        BY <1>2, <1>5, <2>1 DEF Running
      <3> QED BY <1>1, <3>1 DEF CoreInv, Issuing
    <2>5. Running' \cap FrontEnd' = {}
      BY <1>2 DEF CoreInv, Issuing, Running
    <2> QED BY <1>3, <2>2, <2>3, <2>4, <2>5 DEF Issuing
  <1>9. Flags'
    <2>1. \A u \in DOMAIN uop' : uop'[u].in_event_queue <=> u \in Running'
      BY <1>1, <1>2
    <2>2. ASSUME NEW u \in DOMAIN uop', uop'[u].completed
          PROVE  u \in ToSet(rob') \ (Waiting' \cup Running')
      <3>1. CASE u = done
        BY <1>1, <1>2, <1>4, <3>1, CoreFacts DEF CoreInv, Issuing
      <3>2. CASE u # done
        <4>1. u \in ToSet(rob) \ (Waiting \cup Running)
          BY <1>1, <2>2, <3>2 DEF CoreInv, Flags
        <4>2. u \notin Waiting' \cup Running' /\ u \notin FrontEnd'
          BY <1>2, <4>1, CoreFacts DEF Running
        <4> QED BY <1>4, <4>1, <4>2
      <3> QED BY <3>1, <3>2
    <2> QED BY <2>1, <2>2 DEF Flags
  <1>10. Speculation'
    <2>1. Pending' = {}
      <3>1. ASSUME NEW v \in Pending'
            PROVE  FALSE
        <4>1. /\ v \in Queued' \cup event_queue' /\ v \in DOMAIN uop'
              /\ uop[v].mispredicted /\ ~uop[v].specmode
              /\ recover_kind = "writeback" => ~f[v].completed
          BY <1>1, <1>4, <1>5, <3>1 DEF Pending, Running
        <4>2. v \in Queued \cup event_queue
          <5>1. ToSet(rob') \cup FrontEnd' \subseteq ToSet(rob) \cup FrontEnd
            BY <1>1, <1>2
          <5> QED BY <1>1, <1>4, <4>1, <5>1, CoreFacts
        <4>3. CASE v = done
          <5>1. v \in ToSet(order)
            <6>1. v \notin FrontEnd' /\ v \notin event_queue'
              BY <1>1, <1>2, <4>3, CoreFacts
            <6> QED BY <1>1, <1>4, <4>1, <6>1
          <5> QED BY <4>1, <4>3, <5>1
        <4>4. CASE v # done
          BY <1>1, <4>1, <4>2, <4>4 DEF Pending
        <4> QED BY <4>3, <4>4
      <3> QED BY <3>1
    <2>2. \A u \in Queued' : ~uop'[u].specmode
      BY <1>1, <1>2, <1>4, <1>5
    <2> QED BY <1>1, <2>1, <2>2 DEF Speculation
  <1> QED BY <1>6, <1>7, <1>8, <1>9, <1>10 DEF CoreInv

\* Writeback completes the oldest uop of the event queue, and recovers when it
\* is the branch pending.
LEMMA CoreWriteback ==
  ASSUME CoreInv, Writeback
  PROVE  CoreInv'
PROOF
  <1> DEFINE u == Oldest
             f == [uop EXCEPT ![u].in_event_queue = FALSE, ![u].completed = TRUE]
             rf == Write(regs, uop[u])
  <1>1. event_queue # {} /\ UNCHANGED <<fetched, memory, recover_kind>>
    BY DEF Writeback
  <1>2. /\ Queued = ToSet(rob) \cup FrontEnd /\ DOMAIN uop = Queued \cup Running
        /\ u \in event_queue /\ u \in DOMAIN uop
    BY <1>1, OldestFacts, CoreFacts DEF Running
  <1>3. /\ Alike(f, uop)
        /\ \A v \in DOMAIN uop : /\ f[v].in_event_queue <=> (uop[v].in_event_queue /\ v # u)
                                 /\ f[v].completed <=> (uop[v].completed \/ v = u)
    <2>1. uop = [v \in DOMAIN uop |-> uop[v]] /\ \A v \in DOMAIN uop : IsUop(uop[v])
      BY DEF CoreInv, UopsTyped
    <2>2. Done(f, uop, u)
      BY DEF Done
    <2> HIDE DEF f
    <2> QED BY <1>2, <2>1, <2>2, UopDone
  <1>4. /\ RecoversAtWriteback(u) => Recover(f, rf, rob, event_queue \ {u}, u)
        /\ ~RecoversAtWriteback(u) =>
              /\ event_queue' = event_queue \ {u} /\ uop' = FreeIfNotQueued(f, {u})
              /\ UNCHANGED <<fetch_queue, uop_queue, rob, iq, lq, sq, wrong_path>>
    BY DEF Writeback
  <1> HIDE DEF f, rf, u
  <1>5. /\ u \notin Waiting /\ u \notin memory /\ u \notin FrontEnd
        /\ u \in ToSet(rob) \/ uop[u].specmode
        /\ \A v \in DOMAIN uop : f[v].in_event_queue <=> v \in memory \cup (event_queue \ {u})
        /\ ~uop[u].completed
    BY <1>2, <1>3 DEF CoreInv, Issuing, Flags, Running
  <1>6. \A v \in DOMAIN uop : uop[v].completed \in BOOLEAN /\ f[v].completed \in BOOLEAN
    <2>1. \A v \in DOMAIN uop : IsUop(f[v])
      BY <1>3 DEF Alike, Like
    <2> QED BY <2>1, CoreFacts DEF IsUop, Fields
  <1>7. CASE RecoversAtWriteback(u)
    <2>1. uop[u].mispredicted /\ ~uop[u].specmode /\ recover_kind = "writeback"
      BY <1>7 DEF RecoversAtWriteback
    <2>2. Pending = {u}
      <3>1. u \in Pending
        BY <1>2, <1>5, <2>1 DEF Pending
      <3> QED BY <3>1 DEF CoreInv, Speculation
    <2>3. rob \in Seq(Nat) /\ Increasing(rob) /\ ToSet(rob) \subseteq ToSet(rob)
      BY DEF CoreInv, QueuesOrdered
    <2>4. \A v \in DOMAIN uop : v # u => f[v].completed = uop[v].completed
      BY <1>3, <1>6
    <2>5. Recover(f, rf, rob, event_queue \ {u}, u)
      BY <1>4, <1>7
    <2>6. /\ ToSet(rob) \ {u} \subseteq ToSet(rob) /\ event_queue \ {u} \subseteq event_queue
          /\ u \in ToSet(rob) \ (Waiting \cup memory \cup (event_queue \ {u}))
          /\ event_queue \subseteq (event_queue \ {u}) \cup {u}
          /\ f[u].completed
      BY <1>2, <1>3, <1>5, <2>1
    <2> DEFINE events == event_queue \ {u}
    <2> HIDE DEF events
    <2> QED BY <1>1, <1>3, <1>5, <2>1, <2>2, <2>3, <2>4, <2>5, <2>6, CoreRecover DEF events
  <1>8. CASE ~RecoversAtWriteback(u)
    <2>1. /\ event_queue' = event_queue \ {u} /\ uop' = FreeIfNotQueued(f, {u})
          /\ UNCHANGED <<fetch_queue, uop_queue, rob, iq, lq, sq, wrong_path>>
      BY <1>4, <1>8
    <2>2. Queued' = Queued /\ Waiting' = Waiting /\ FrontEnd' = FrontEnd /\ Running' = Running \ {u}
      <3>1. Running' = Running \ {u}
        BY <1>1, <1>5, <2>1 DEF Running
      <3> QED BY <2>1, <3>1 DEF Queued, Waiting, FrontEnd
    <2>3. DOMAIN f = DOMAIN uop
      BY <1>3 DEF Alike
    <2>4. /\ uop' = [v \in DOMAIN uop' |-> uop'[v]]
          /\ DOMAIN uop' = {v \in DOMAIN uop : v = u => u \in Queued}
          /\ \A v \in DOMAIN uop' : uop'[v] = f[v]
      <3>1. ~f[u].in_event_queue
        BY <1>2, <1>5
      <3>2. {v \in DOMAIN f : v \in {u} => v \in Queued' \/ f[v].in_event_queue} = {v \in DOMAIN uop : v = u => u \in Queued}
        BY <2>2, <2>3, <3>1
      <3>3. uop' = Restrict(f, {v \in DOMAIN uop : v = u => u \in Queued})
        BY <2>1, <3>2 DEF FreeIfNotQueued
      <3> QED BY <3>3 DEF Restrict
    <2>5. DOMAIN uop' = Queued' \cup Running'
      BY <1>2, <2>2, <2>4
    <2>6. \A v \in DOMAIN uop' : v \in DOMAIN uop /\ Like(uop'[v], uop[v]) /\ IsUop(uop'[v])
            /\ uop'[v].uinst = uop[v].uinst /\ uop'[v].specmode = uop[v].specmode
            /\ uop'[v].mispredicted = uop[v].mispredicted
      BY <1>3, <2>4 DEF Alike, Like
    <2>7. UopsTyped'
      BY <1>1, <2>1, <2>4, <2>6 DEF CoreInv, UopsTyped
    <2>8. UopsAccounted' /\ QueuesOrdered'
      BY <2>1, <2>2, <2>5 DEF CoreInv, UopsAccounted, Running, QueuesOrdered
    <2>9. Issuing'
      <3>1. Waiting' \subseteq DOMAIN uop' /\ Running' \subseteq DOMAIN uop'
        BY <1>2, <1>5, <2>2, <2>5 DEF CoreInv, Issuing
      <3>2. lq' \subseteq DOMAIN uop' /\ sq' \subseteq DOMAIN uop' /\ iq' \subseteq DOMAIN uop' /\ memory \subseteq DOMAIN uop'
        BY <1>1, <3>1 DEF Waiting, Running
      <3>3. \A v \in DOMAIN uop' : Op(v)' = Op(v) /\ (IsMem(v)' <=> IsMem(v))
        BY <2>6 DEF Op, IsMem
      <3>4. /\ \A v \in lq' : Op(v)' = "load"
            /\ \A v \in sq' : Op(v)' = "store"
            /\ \A v \in iq' : ~IsMem(v)'
            /\ \A v \in memory' : IsMem(v)'
        BY <1>1, <2>1, <3>2, <3>3 DEF CoreInv, Issuing
      <3>5. \A v \in Running' : v \in ToSet(rob') \/ uop'[v].specmode
        BY <2>1, <2>2, <2>6, <3>1 DEF CoreInv, Issuing
      <3>6. Waiting' \subseteq ToSet(rob') /\ Waiting' \cap Running' = {} /\ memory' \cap event_queue' = {}
            /\ Running' \cap FrontEnd' = {}
        BY <1>1, <2>1, <2>2 DEF CoreInv, Issuing
      <3> QED BY <3>4, <3>5, <3>6 DEF Issuing
    <2>10. Flags'
      <3>1. \A v \in DOMAIN uop' : uop'[v].in_event_queue <=> v \in Running'
        BY <1>1, <1>5, <2>1, <2>4, <2>6 DEF Running
      <3>2. ASSUME NEW v \in DOMAIN uop', uop'[v].completed
            PROVE  v \in ToSet(rob') \ (Waiting' \cup Running')
        <4>1. CASE v = u
          <5>1. u \in ToSet(rob)
            BY <1>2, <1>5, <2>4, <4>1
          <5> QED BY <1>5, <2>1, <2>2, <4>1, <5>1
        <4>2. CASE v # u
          BY <1>3, <2>1, <2>2, <2>4, <3>2, <4>2 DEF CoreInv, Flags
        <4> QED BY <4>1, <4>2
      <3> QED BY <3>1, <3>2 DEF Flags
    <2>11. Speculation'
      <3>1. Queued' \subseteq Queued /\ \A v \in Queued' \cup event_queue' : v \in DOMAIN uop' /\ v \in Queued \cup event_queue
        BY <2>1, <2>2, <2>5 DEF Running
      <3>2. \A v \in Pending : v \in Queued' \cup event_queue'
        BY <1>5, <1>2, <2>1, <2>2 DEF Pending
      <3>3. ASSUME recover_kind = "writeback", NEW v \in Queued' \cup event_queue',
                   uop[v].mispredicted, ~uop[v].specmode
            PROVE  uop'[v].completed <=> uop[v].completed
        <4>1. v \in DOMAIN uop /\ v \in DOMAIN uop' /\ IsUop(uop[v])
          BY <2>6, <3>1 DEF CoreInv, UopsTyped
        <4>2. v # u
          BY <1>8, <3>3, <4>1 DEF RecoversAtWriteback, IsUop, Op
        <4> QED BY <1>3, <2>4, <4>1, <4>2
      <3> QED BY <1>1, <2>1, <2>6, <3>1, <3>2, <3>3, SpeculationKept
    <2> QED BY <2>7, <2>8, <2>9, <2>10, <2>11 DEF CoreInv
  <1> QED BY <1>7, <1>8

\* The head of the ROB, once completed, is of the program and nowhere else.
LEMMA HeadFacts ==
  ASSUME CoreInv, rob # <<>>
  PROVE  LET u == Head(rob) IN
         /\ Tail(rob) \in Seq(Nat) /\ Increasing(Tail(rob)) /\ ToSet(Tail(rob)) = ToSet(rob) \ {u}
         /\ u \in ToSet(rob) /\ ~uop[u].specmode
         /\ uop[u].completed => u \notin Waiting \cup Running
PROOF
  <1> DEFINE u == Head(rob)
  <1>1. /\ Tail(rob) \in Seq(Nat) /\ Increasing(Tail(rob)) /\ u \in ToSet(rob)
        /\ ToSet(Tail(rob)) = ToSet(rob) \ {u} /\ \A v \in ToSet(Tail(rob)) : u < v
    BY SortedTail DEF CoreInv, QueuesOrdered
  <1> HIDE DEF u
  <1>2. u \in DOMAIN uop /\ u \in Queued /\ DOMAIN uop \subseteq Nat
    BY <1>1, CoreFacts
  <1>3. ~uop[u].specmode
    <2>1. SUFFICES ASSUME NEW b \in Pending, b < u
                   PROVE  FALSE
      BY <1>2, CoreFacts DEF CoreInv, Speculation
    <2>2. b \in ToSet(rob) \cup FrontEnd /\ b \in DOMAIN uop
      BY CoreFacts
    <2>3. u < b \/ u = b
      BY <1>1, <2>2 DEF CoreInv, QueuesOrdered
    <2> QED BY <1>2, <2>1, <2>2, <2>3
  <1>4. uop[u].completed => u \notin Waiting \cup Running
    BY <1>2 DEF CoreInv, Flags
  <1> QED BY <1>1, <1>3, <1>4 DEF u

\* Commit takes the head of the ROB, and recovers when it is the branch
\* pending.
LEMMA CoreCommit ==
  ASSUME CoreInv, Commit
  PROVE  CoreInv'
PROOF
  <1> DEFINE u == Head(rob)
             rf == CommitRegs(regs, uop[u])
  <1>1. /\ rob # <<>> /\ uop[u].completed /\ UNCHANGED <<fetched, memory, recover_kind>>
        /\ RecoversAtCommit(u) => Recover(uop, rf, Tail(rob), event_queue, u)
        /\ ~RecoversAtCommit(u) =>
              /\ rob' = Tail(rob) /\ uop' = FreeIfNotQueued(uop, {u})
              /\ UNCHANGED <<fetch_queue, uop_queue, iq, lq, sq, event_queue, wrong_path>>
    BY DEF Commit
  <1>2. /\ Tail(rob) \in Seq(Nat) /\ Increasing(Tail(rob)) /\ ToSet(Tail(rob)) = ToSet(rob) \ {u}
        /\ u \in ToSet(rob) /\ ~uop[u].specmode
        /\ u \notin Waiting \cup Running
    BY <1>1, HeadFacts
  <1> HIDE DEF u, rf
  <1>3. /\ Queued = ToSet(rob) \cup FrontEnd /\ DOMAIN uop = Queued \cup Running
        /\ u \in DOMAIN uop /\ u \notin FrontEnd
    BY <1>2, CoreFacts
  <1>4. Alike(uop, uop) /\ \A v \in DOMAIN uop : Like(uop[v], uop[v])
    BY DEF Alike, Like, CoreInv, UopsTyped
  <1>5. CASE RecoversAtCommit(u)
    <2>1. uop[u].mispredicted /\ recover_kind = "commit"
      BY <1>5 DEF RecoversAtCommit
    <2>2. Pending = {u}
      <3>1. u \in Pending
        BY <1>2, <1>3, <2>1 DEF Pending
      <3> QED BY <3>1 DEF CoreInv, Speculation
    <2>3. Recover(uop, rf, Tail(rob), event_queue, u)
      BY <1>1, <1>5
    <2>4. /\ ToSet(Tail(rob)) \subseteq ToSet(rob) /\ ToSet(rob) \ {u} \subseteq ToSet(Tail(rob))
          /\ u \in ToSet(rob) \ (Waiting \cup memory \cup event_queue) /\ u \notin ToSet(Tail(rob))
          /\ event_queue \subseteq event_queue /\ event_queue \subseteq event_queue \cup {u}
      BY <1>2 DEF Running
    <2>5. \A v \in DOMAIN uop : uop[v].in_event_queue <=> v \in memory \cup event_queue
      BY DEF CoreInv, Flags, Running
    <2> DEFINE order == Tail(rob)
    <2> HIDE DEF order
    <2> QED BY <1>1, <1>2, <1>4, <2>2, <2>3, <2>4, <2>5, CoreRecover DEF order
  <1>6. CASE ~RecoversAtCommit(u)
    <2>1. /\ rob' = Tail(rob) /\ uop' = FreeIfNotQueued(uop, {u})
          /\ UNCHANGED <<fetch_queue, uop_queue, iq, lq, sq, event_queue, wrong_path>>
      BY <1>1, <1>6
    <2>2. Waiting' = Waiting /\ FrontEnd' = FrontEnd /\ Running' = Running
      BY <1>1, <2>1 DEF Running, Waiting, FrontEnd
    <2>3. Waiting \subseteq ToSet(rob) \ {u}
      BY <1>2 DEF CoreInv, Issuing
    <2>4. Queued' = Queued \ {u}
      <3>1. Queued' = ToSet(rob') \cup FrontEnd' \cup Waiting'
        BY DEF Queued, FrontEnd, Waiting
      <3> QED BY <1>2, <1>3, <2>1, <2>2, <2>3, <3>1
    <2>5. /\ uop' = [v \in DOMAIN uop' |-> uop'[v]]
          /\ DOMAIN uop' = DOMAIN uop \ {u}
          /\ \A v \in DOMAIN uop' : uop'[v] = uop[v]
      <3>1. ~uop[u].in_event_queue
        BY <1>2, <1>3 DEF CoreInv, Flags
      <3>2. {v \in DOMAIN uop : v \in {u} => v \in Queued' \/ uop[v].in_event_queue} = DOMAIN uop \ {u}
        BY <2>4, <3>1
      <3>3. uop' = Restrict(uop, DOMAIN uop \ {u})
        BY <2>1, <3>2 DEF FreeIfNotQueued
      <3> QED BY <3>3 DEF Restrict
    <2>6. DOMAIN uop' = Queued' \cup Running'
      BY <1>2, <1>3, <2>2, <2>4, <2>5
    <2>7. UopsTyped'
      BY <1>1, <2>1, <2>5 DEF CoreInv, UopsTyped
    <2>8. UopsAccounted' /\ QueuesOrdered'
      BY <1>2, <2>1, <2>2, <2>6 DEF CoreInv, UopsAccounted, Running, QueuesOrdered
    <2>9. Issuing'
      <3>1. Waiting' \subseteq DOMAIN uop' /\ Running' \subseteq DOMAIN uop'
        BY <1>2, <1>3, <2>2, <2>3, <2>5
      <3>2. lq' \subseteq DOMAIN uop' /\ sq' \subseteq DOMAIN uop' /\ iq' \subseteq DOMAIN uop' /\ memory \subseteq DOMAIN uop'
        BY <1>1, <3>1 DEF Waiting, Running
      <3>3. \A v \in DOMAIN uop' : Op(v)' = Op(v) /\ (IsMem(v)' <=> IsMem(v))
        BY <2>5 DEF Op, IsMem
      <3>4. /\ \A v \in lq' : Op(v)' = "load"
            /\ \A v \in sq' : Op(v)' = "store"
            /\ \A v \in iq' : ~IsMem(v)'
            /\ \A v \in memory' : IsMem(v)'
        BY <1>1, <2>1, <3>2, <3>3 DEF CoreInv, Issuing
      <3>5. \A v \in Running' : v \in ToSet(rob') \/ uop'[v].specmode
        BY <1>2, <2>1, <2>2, <2>5, <3>1 DEF CoreInv, Issuing
      <3>6. Waiting' \subseteq ToSet(rob') /\ Waiting' \cap Running' = {} /\ memory' \cap event_queue' = {}
            /\ Running' \cap FrontEnd' = {}
        BY <1>1, <1>2, <2>1, <2>2, <2>3 DEF CoreInv, Issuing
      <3> QED BY <3>4, <3>5, <3>6 DEF Issuing
    <2>10. Flags'
      BY <1>2, <2>1, <2>2, <2>5 DEF CoreInv, Flags
    <2>11. Speculation'
      <3>1. Queued' \subseteq Queued /\ \A v \in Queued' \cup event_queue' : v \in DOMAIN uop' /\ v \in Queued \cup event_queue
        BY <2>1, <2>4, <2>6, <2>2 DEF Running
      <3>2. u \notin Pending
        <4>1. IsUop(uop[u]) /\ recover_kind \in RecoverKinds
          BY <1>3 DEF CoreInv, UopsTyped
        <4>2. recover_kind = "writeback" \/ recover_kind = "commit"
          BY <4>1, PipelineConstants
        <4> QED BY <1>1, <1>6, <4>1, <4>2 DEF Pending, RecoversAtCommit, IsUop, Op
      <3>3. \A v \in Pending : v \in Queued' \cup event_queue'
        BY <2>1, <2>4, <3>2 DEF Pending
      <3>4. \A v \in DOMAIN uop' : v \in DOMAIN uop /\ Like(uop'[v], uop[v])
        BY <1>4, <2>5
      <3> QED BY <1>1, <2>1, <2>5, <3>1, <3>3, <3>4, SpeculationKept
    <2> QED BY <2>7, <2>8, <2>9, <2>10, <2>11 DEF CoreInv
  <1> QED BY <1>5, <1>6

\* Every step keeps CoreInv.
LEMMA CoreStep ==
  ASSUME CoreInv, [Next]_vars
  PROVE  CoreInv'
PROOF
  <1>1. CASE Decode
    BY <1>1, CoreDecode
  <1>2. CASE \E u \in memory : MemoryReturns(u)
    BY <1>2, CoreMemoryReturns
  <1>3. CASE Issue
    <2>1. ASSUME NEW u \in iq, IssueIQ(u)
          PROVE  CoreInv'
      <3>1. u \in Waiting /\ lq \ {u} = lq /\ sq \ {u} = sq
        BY <2>1 DEF Waiting, CoreInv, Issuing, IsMem
      <3> QED BY <2>1, <3>1, CoreIssue DEF IssueIQ
    <2>2. ASSUME NEW u \in lq, IssueLQ(u)
          PROVE  CoreInv'
      <3>1. u \in Waiting /\ iq \ {u} = iq /\ sq \ {u} = sq /\ u \notin iq
        BY <2>2 DEF Waiting, CoreInv, Issuing, IsMem
      <3> QED BY <2>2, <3>1, CoreIssue DEF IssueLQ, Access
    <2>3. ASSUME NEW u \in sq, IssueSQ(u)
          PROVE  CoreInv'
      <3>1. u \in Waiting /\ iq \ {u} = iq /\ lq \ {u} = lq /\ u \notin iq
        BY <2>3 DEF Waiting, CoreInv, Issuing, IsMem
      <3> QED BY <2>3, <3>1, CoreIssue DEF IssueSQ, Access
    <2> QED BY <1>3, <2>1, <2>2, <2>3 DEF Issue
  <1>4. CASE Trap
    BY <1>4, CoreTrap
  <1>5. CASE Commit
    BY <1>5, CoreCommit
  <1>6. CASE Writeback
    BY <1>6, CoreWriteback
  <1>7. CASE Dispatch
    BY <1>7, CoreDispatch
  <1>8. CASE \E inst \in Insts : Fetch(inst)
    BY <1>8, CoreFetch
  <1>9. CASE UNCHANGED vars
    <2>1. Queued' = Queued /\ Running' = Running /\ Waiting' = Waiting /\ FrontEnd' = FrontEnd
      BY <1>9 DEF vars, Queued, Running, Waiting, FrontEnd
    <2>2. Pending' = Pending
      BY <1>9, <2>1 DEF vars, Pending
    <2> QED BY <1>9, <2>1, <2>2 DEF vars, CoreInv, UopsTyped, QueuesOrdered, Issuing, Flags,
                                    UopsAccounted, Speculation, Op, IsMem
  <1> QED BY <1>1, <1>2, <1>3, <1>4, <1>5, <1>6, <1>7, <1>8, <1>9 DEF Next, Advance

\* CoreInv holds always: the queues stay in program order, a uop is where its
\* flags say, and the wrong path is what is younger than one branch of the
\* program that is still to be recovered from.
THEOREM CoreAlways == Spec => []CoreInv
PROOF
  BY CoreInit, CoreStep, PTL DEF Spec

\* A set of at most one element.
LEMMA AtMostOne ==
  ASSUME NEW S, \A a, b \in S : a = b
  PROVE  Cardinality(S) <= 1
PROOF
  <1>1. CASE S = {}
    BY <1>1, FS_EmptySet
  <1>2. CASE S # {}
    <2>1. PICK a : S = {a}
      BY <1>2
    <2> QED BY <2>1, FS_Singleton
  <1> QED BY <1>1, <1>2

\* The core is on the wrong path only behind one mispredicted branch in flight,
\* at either stage of recovery.
THEOREM WrongPathAlways == Spec => []WrongPathIsBehindABranch
PROOF
  <1>1. CoreInv => WrongPathIsBehindABranch
    <2> SUFFICES ASSUME CoreInv PROVE WrongPathIsBehindABranch
      OBVIOUS
    <2>1. Cardinality(Pending) <= 1
      BY AtMostOne DEF CoreInv, Speculation
    <2>2. (wrong_path <=> Pending # {}) /\ \A u \in Queued : uop[u].specmode <=> \E b \in Pending : b < u
      BY DEF CoreInv, Speculation
    <2> QED BY <2>1, <2>2 DEF WrongPathIsBehindABranch, Pending
  <1> QED BY <1>1, CoreAlways, PTL

(***************************************************************************)
(* The registers: what accounts for the uops in the ROB                    *)
(***************************************************************************)

\* The log has the outputs of the uops in the ROB, named as they were renamed.
Entered(log, f, order, at) ==
  /\ \A w \in DOMAIN log : w[1] \in ToSet(order)
  /\ \A u \in ToSet(order) : Renamed(f[u]) /\ LogHas(log, u, f[u]) /\ NamedAt(log, u, f[u], at[u])

\* at has the top of the FP stack after each uop in the ROB.
Stacked(top, f, order, at) ==
  \A i \in DOMAIN order :
    /\ at[order[i]] \in 0 .. (StackDepth - 1)
    /\ at[order[i]] = IF i = Len(order) THEN top ELSE TopBefore(at[order[i + 1]], f[order[i + 1]])

\* A register whose value is to come is the output of a uop that will complete.
Awaited(rf, f, order) ==
  \A p \in Phys : rf.pending[p] => \E u \in ToSet(order) : ~f[u].completed /\ p \in ToSet(f[u].ph_odep)

\* The youngest output older than u that renames l.
LastBefore(log, u, l, w) ==
  /\ w \in DOMAIN log /\ w[1] < u /\ log[w].to = l
  /\ \A x \in DOMAIN log : x[1] < u /\ log[x].to = l => x = w \/ Earlier(x, w)

\* A uop reads it.
ReadsLast(log, u, r, top) ==
  \A l \in r.uinst.idep : \A w : LastBefore(log, u, Resolve(l, top), w) => r.ph_idep[l] = log[w].new

\* So do all uops in the ROB.
Reads(log, f, order, at) == \A u \in ToSet(order) : ReadsLast(log, u, f[u], at[u])

\* The register file accounts for the uops in the ROB.
Kept(rf, log, f, order, at) ==
  /\ Books(rf, log)
  /\ Entered(log, f, order, at)
  /\ Stacked(rf.top, f, order, at)
  /\ Awaited(rf, f, order)
  /\ Reads(log, f, order, at)

\* The log without the outputs of a uop that leaves,
LEMMA EnteredWithout ==
  ASSUME NEW log, IsLog(log), NEW f, NEW order, NEW at, Entered(log, f, order, at), NEW i,
         NEW order2, ToSet(order2) = ToSet(order) \ {i}
  PROVE  Entered(Restrict(log, Others(log, i)), f, order2, at)
PROOF
  <1> DEFINE L == Restrict(log, Others(log, i))
  <1>1. DOMAIN L = Others(log, i) /\ \A w \in Others(log, i) : L[w] = log[w]
    BY RestrictedLog DEF Others
  <1> HIDE DEF L
  <1>2. \A w \in DOMAIN L : w[1] \in ToSet(order2)
    BY <1>1 DEF Entered, Others
  <1>3. ASSUME NEW u \in ToSet(order2)
        PROVE  Renamed(f[u]) /\ LogHas(L, u, f[u]) /\ NamedAt(L, u, f[u], at[u])
    <2>1. u \in ToSet(order) /\ u # i
      OBVIOUS
    <2>2. Renamed(f[u]) /\ LogHas(log, u, f[u]) /\ NamedAt(log, u, f[u], at[u])
      BY <2>1 DEF Entered
    <2>3. \A k \in 1 .. Len(f[u].ph_odep) : <<u, k>> \in Others(log, i)
      BY <2>1, <2>2 DEF LogHas, Others
    <2> QED BY <1>1, <2>2, <2>3 DEF LogHas, NamedAt, Others
  <1> QED BY <1>2, <1>3 DEF Entered, L

\* ... and the reads, when it is the oldest or the youngest.
LEMMA ReadsWithout ==
  ASSUME NEW log, IsLog(log), NEW f, NEW order, NEW at, Entered(log, f, order, at), Reads(log, f, order, at),
         NEW i \in Nat, NEW order2, ToSet(order2) = ToSet(order) \ {i}, ToSet(order2) \subseteq Nat,
         (\A v \in ToSet(order2) : i < v) \/ (\A v \in ToSet(order2) : v < i)
  PROVE  Reads(Restrict(log, Others(log, i)), f, order2, at)
PROOF
  <1> DEFINE L == Restrict(log, Others(log, i))
  <1>1. DOMAIN L = Others(log, i) /\ \A w \in Others(log, i) : L[w] = log[w]
    BY RestrictedLog DEF Others
  <1> HIDE DEF L
  <1>2. \A w \in DOMAIN log : w[1] \in ToSet(order)
    BY DEF Entered
  <1>3. ASSUME NEW u \in ToSet(order2), NEW l, NEW w, LastBefore(L, u, l, w)
        PROVE  LastBefore(log, u, l, w) /\ L[w] = log[w]
    <2>1. w \in Others(log, i) /\ w[1] < u /\ L[w] = log[w] /\ log[w].to = l
      BY <1>1, <1>3 DEF LastBefore
    <2>2. w \in DOMAIN log /\ w[1] \in ToSet(order2)
      BY <1>2, <2>1 DEF Others
    <2>3. ASSUME NEW x \in DOMAIN log, x[1] < u, log[x].to = l
          PROVE  x = w \/ Earlier(x, w)
      <3>1. CASE x[1] # i
        BY <1>1, <1>3, <2>3, <3>1 DEF LastBefore, Others
      <3>2. CASE x[1] = i
        <4>1. i < u
          BY <2>3, <3>2
        <4>2. ~(u < i)
          BY <4>1
        <4>3. i < w[1]
          BY <2>2, <4>2
        <4> QED BY <3>2, <4>3 DEF Earlier
      <3> QED BY <3>1, <3>2
    <2> QED BY <2>1, <2>2, <2>3 DEF LastBefore
  <1>4. ASSUME NEW u \in ToSet(order2)
        PROVE  ReadsLast(L, u, f[u], at[u])
    <2>1. ReadsLast(log, u, f[u], at[u])
      BY DEF Reads
    <2> QED BY <1>3, <2>1 DEF ReadsLast
  <1> QED BY <1>4 DEF Reads, L

\* The same with other flags, or once a register is written.
SameRegs(r, s) ==
  r.uinst = s.uinst /\ r.ph_idep = s.ph_idep /\ r.ph_odep = s.ph_odep /\ r.ph_oodep = s.ph_oodep

\* Nothing else matters.
LEMMA KeptLike ==
  ASSUME NEW rf, NEW log, NEW f, NEW order \in Seq(Nat), NEW at, Kept(rf, log, f, order, at),
         NEW r, Books(r, log), r.top = rf.top, NEW g, \A u \in ToSet(order) : SameRegs(g[u], f[u]),
         Awaited(r, g, order)
  PROVE  Kept(r, log, g, order, at)
PROOF
  <1>1. Entered(log, g, order, at)
    <2>1. ASSUME NEW u \in ToSet(order)
          PROVE  Renamed(g[u]) /\ LogHas(log, u, g[u]) /\ NamedAt(log, u, g[u], at[u])
      <3>1. SameRegs(g[u], f[u]) /\ Renamed(f[u]) /\ LogHas(log, u, f[u]) /\ NamedAt(log, u, f[u], at[u])
        BY DEF Kept, Entered
      <3> QED BY <3>1 DEF SameRegs, Renamed, LogHas, NamedAt
    <2> QED BY <2>1 DEF Kept, Entered
  <1>2. Stacked(r.top, g, order, at)
    <2>1. ASSUME NEW i \in DOMAIN order, i # Len(order)
          PROVE  g[order[i + 1]].uinst = f[order[i + 1]].uinst
      <3>1. i + 1 \in DOMAIN order
        BY <2>1, LenProperties
      <3>2. order[i + 1] \in ToSet(order)
        BY <3>1 DEF ToSet
      <3> QED BY <3>2 DEF SameRegs
    <2> QED BY <2>1 DEF Kept, Stacked, TopBefore
  <1>3. Reads(log, g, order, at)
    <2>1. ASSUME NEW u \in ToSet(order)
          PROVE  ReadsLast(log, u, g[u], at[u])
      BY DEF Kept, Reads, ReadsLast, SameRegs
    <2> QED BY <2>1 DEF Reads
  <1> QED BY <1>1, <1>2, <1>3 DEF Kept

\* A uop that completed has no register whose value is to come.
LEMMA CompletedWritten ==
  ASSUME NEW rf, NEW log, NEW f, NEW order \in Seq(Nat), NEW at, Kept(rf, log, f, order, at),
         NEW u \in ToSet(order), f[u].completed
  PROVE  NonePending(rf, f[u])
PROOF
  <1> SUFFICES ASSUME NEW k \in 1 .. Len(f[u].ph_odep), rf.pending[f[u].ph_odep[k]]
               PROVE  FALSE
    BY DEF NonePending
  <1> DEFINE p == f[u].ph_odep[k]
  <1>1. Entered(log, f, order, at) /\ Awaited(rf, f, order) /\ OwnRegisters(log)
    BY DEF Kept, Books, Logged
  <1>2. LogHas(log, u, f[u]) /\ Renamed(f[u])
    BY <1>1 DEF Entered
  <1>3. <<u, k>> \in DOMAIN log /\ log[<<u, k>>].new = p /\ p \in Phys
    BY <1>2, RenamedFacts DEF LogHas
  <1>4. PICK v \in ToSet(order) : ~f[v].completed /\ p \in ToSet(f[v].ph_odep)
    BY <1>1, <1>3 DEF Awaited
  <1>5. LogHas(log, v, f[v]) /\ Renamed(f[v])
    BY <1>1 DEF Entered
  <1>6. PICK j \in 1 .. Len(f[v].ph_odep) : p = f[v].ph_odep[j]
    BY <1>4, <1>5, RenamedFacts DEF ToSet
  <1>7. <<v, j>> \in DOMAIN log /\ log[<<v, j>>].new = p
    BY <1>5, <1>6 DEF LogHas
  <1>8. v = u
    BY <1>1, <1>3, <1>7 DEF OwnRegisters
  <1> QED BY <1>4, <1>8

\* Committing the head of the ROB keeps the account.
LEMMA KeptCommit ==
  ASSUME NEW rf, NEW log, NEW f, NEW order \in Seq(Nat), Increasing(order), order # <<>>, NEW at,
         Kept(rf, log, f, order, at), NEW u, u = Head(order), f[u].specmode = FALSE, f[u].completed,
         NEW r, r = CommitRegs(rf, f[u])
  PROVE  \E log2 : Kept(r, log2, f, Tail(order), at)
PROOF
  <1> DEFINE order2 == Tail(order)
             L == Restrict(log, Others(log, u))
  <1>1. /\ order2 \in Seq(Nat) /\ Increasing(order2) /\ u \in ToSet(order) /\ u \in Nat
        /\ ToSet(order2) = ToSet(order) \ {u} /\ \A v \in ToSet(order2) : u < v
        /\ ToSet(order2) \subseteq Nat
    <2>1. \A s \in Seq(Nat) : ToSet(s) \subseteq Nat
      BY LenProperties, ElementOfSeq DEF ToSet
    <2> QED BY <2>1, SortedTail
  <1>2. /\ Books(rf, log) /\ Entered(log, f, order, at) /\ Stacked(rf.top, f, order, at)
        /\ Awaited(rf, f, order) /\ Reads(log, f, order, at) /\ IsLog(log)
    BY BooksFacts DEF Kept
  <1>3. Renamed(f[u]) /\ LogHas(log, u, f[u])
    BY <1>1, <1>2 DEF Entered
  <1>4. \A w \in DOMAIN log : w[1] >= u
    <2>1. \A w \in DOMAIN log : w[1] \in ToSet(order)
      BY <1>2 DEF Entered
    <2> QED BY <1>1, <2>1
  <1>5. ASSUME NEW p \in Phys, rf.pending[p]
        PROVE  \E v \in ToSet(order2) : ~f[v].completed /\ p \in ToSet(f[v].ph_odep)
    BY <1>1, <1>2, <1>5 DEF Awaited
  <1>6. ASSUME NEW p \in Phys, rf.pending[p]
        PROVE  \E w \in Others(log, u) : log[w].new = p
    <2>1. PICK v \in ToSet(order2) : p \in ToSet(f[v].ph_odep)
      BY <1>5, <1>6
    <2>2. LogHas(log, v, f[v]) /\ Renamed(f[v]) /\ v # u
      BY <1>1, <1>2 DEF Entered
    <2>3. PICK j \in 1 .. Len(f[v].ph_odep) : p = f[v].ph_odep[j]
      BY <2>1, <2>2, RenamedFacts DEF ToSet
    <2>4. <<v, j>> \in Others(log, u) /\ log[<<v, j>>].new = p
      BY <2>2, <2>3 DEF LogHas, Others
    <2> QED BY <2>4
  <1> HIDE DEF order2
  <1>7. Books(r, L) /\ r.pending = rf.pending /\ r.top = rf.top
    <2>1. Committable(rf, log, u, f[u])
      BY <1>1, <1>2, <1>3, <1>4, <1>6 DEF Committable
    <2> QED BY <2>1, CommitUop DEF Released
  <1>8. Entered(L, f, order2, at)
    BY <1>1, <1>2, EnteredWithout
  <1>9. Reads(L, f, order2, at)
    BY <1>1, <1>2, ReadsWithout
  <1>10. Awaited(r, f, order2)
    BY <1>5, <1>7 DEF Awaited
  <1>11. Stacked(r.top, f, order2, at)
    <2>1. /\ DOMAIN order = 1 .. Len(order) /\ Len(order) \in Nat /\ Len(order2) = Len(order) - 1
          /\ DOMAIN order2 = 1 .. Len(order2) /\ \A i \in 1 .. Len(order2) : order2[i] = order[i + 1]
      <3>1. /\ DOMAIN order = 1 .. Len(order) /\ Len(order) \in Nat /\ DOMAIN order2 = 1 .. Len(order2)
        BY <1>1, LenProperties
      <3>2. Len(Tail(order)) = Len(order) - 1 /\ \A i \in 1 .. Len(Tail(order)) : Tail(order)[i] = order[i + 1]
        BY HeadTailProperties
      <3> QED BY <3>1, <3>2 DEF order2
    <2> HIDE DEF order2
    <2>2. ASSUME NEW i \in DOMAIN order2
          PROVE  /\ at[order2[i]] \in 0 .. (StackDepth - 1)
                 /\ at[order2[i]] = IF i = Len(order2) THEN r.top ELSE TopBefore(at[order2[i + 1]], f[order2[i + 1]])
      <3>1. /\ i + 1 \in DOMAIN order /\ order2[i] = order[i + 1] /\ (i = Len(order2) <=> i + 1 = Len(order))
            /\ i # Len(order2) => order2[i + 1] = order[(i + 1) + 1]
        BY <2>1
      <3>2. /\ at[order[i + 1]] \in 0 .. (StackDepth - 1)
            /\ at[order[i + 1]] = IF i + 1 = Len(order) THEN rf.top
                                 ELSE TopBefore(at[order[(i + 1) + 1]], f[order[(i + 1) + 1]])
        BY <1>2, <3>1 DEF Stacked
      <3> QED BY <1>7, <3>1, <3>2
    <2> QED BY <2>2 DEF Stacked
  <1> HIDE DEF L, order2
  <1>12. Kept(r, L, f, order2, at)
    BY <1>7, <1>8, <1>9, <1>10, <1>11 DEF Kept
  <1> QED BY <1>12 DEF order2

\* The youngest uop of the log, i, can be squashed.
Squashable(rf, log, i, u) ==
  /\ Books(rf, log) /\ i \in Nat /\ Renamed(u) /\ u.specmode = TRUE /\ LogHas(log, i, u)
  /\ \A w \in DOMAIN log : w[1] <= i
  /\ NamedAt(log, i, u, rf.top)
  /\ u.completed \in BOOLEAN /\ (u.completed => NonePending(rf, u))

\* What is left of the books.
Squashed(r, rf, log, i, u, top) ==
  /\ Books(r, Restrict(log, Others(log, i)))
  /\ r.top = top
  /\ \A p \in Phys : r.pending[p] => rf.pending[p] /\ p \notin ToSet(u.ph_odep)

\* Squashing it keeps them; a uop that has not completed is written first.
LEMMA SquashUop ==
  ASSUME NEW rf, NEW log, NEW i, NEW u, Squashable(rf, log, i, u),
         NEW top \in 0 .. (StackDepth - 1), top = TopBefore(rf.top, u),
         NEW r, r = Undo(IF u.completed THEN rf ELSE Write(rf, u), u)
  PROVE  Squashed(r, rf, log, i, u, top)
PROOF
  <1> /\ Books(rf, log) /\ i \in Nat /\ Renamed(u) /\ u.specmode = TRUE /\ LogHas(log, i, u)
      /\ \A w \in DOMAIN log : w[1] <= i
      /\ NamedAt(log, i, u, rf.top)
      /\ u.completed \in BOOLEAN /\ (u.completed => NonePending(rf, u))
    BY DEF Squashable
  <1>2. CASE u.completed
    <2>1. r = Undo(rf, u) /\ NonePending(rf, u)
      BY <1>2
    <2>2. Undoable(rf, log, i, u)
      BY <2>1 DEF Undoable
    <2>3. Released(r, rf, log, i, top)
      BY <2>1, <2>2, UndoUop
    <2>4. \A p \in ToSet(u.ph_odep) : ~rf.pending[p]
      BY <2>1, RenamedFacts DEF NonePending, ToSet
    <2> QED BY <2>3, <2>4 DEF Released, Squashed
  <1>3. CASE ~u.completed
    <2> DEFINE d == Write(rf, u)
    <2>1. Books(d, log) /\ d.top = rf.top /\ Written(d, rf, u)
      BY WriteBooks
    <2>2. r = Undo(d, u)
      BY <1>3
    <2> HIDE DEF d
    <2>3. NonePending(d, u)
      <3> SUFFICES ASSUME NEW k \in 1 .. Len(u.ph_odep) PROVE ~d.pending[u.ph_odep[k]]
        BY DEF NonePending
      <3>1. u.ph_odep[k] \in Phys /\ u.ph_odep[k] \in ToSet(u.ph_odep)
        BY RenamedFacts DEF ToSet
      <3> QED BY <2>1, <3>1 DEF Written
    <2>4. Undoable(d, log, i, u) /\ top = TopBefore(d.top, u)
      BY <2>1, <2>3 DEF Undoable
    <2>5. Released(r, d, log, i, top)
      BY <2>2, <2>4, UndoUop
    <2> QED BY <2>1, <2>5 DEF Written, Released, Squashed
  <1> QED BY <1>2, <1>3

\* The ROB without its last uop.
LEMMA SortedFront ==
  ASSUME NEW q \in Seq(Nat), Increasing(q), NEW n \in Nat, Len(q) = n + 1
  PROVE  LET b == SubSeq(q, 1, n)
         IN /\ b \in Seq(Nat) /\ Increasing(b) /\ Len(b) = n
            /\ \A i \in 1 .. n : b[i] = q[i]
            /\ q[n + 1] \in ToSet(q) /\ q[n + 1] \in Nat
            /\ ToSet(b) = ToSet(q) \ {q[n + 1]} /\ ToSet(b) \subseteq Nat
            /\ \A u \in ToSet(b) : u < q[n + 1]
PROOF
  <1> DEFINE b == SubSeq(q, 1, n)
  <1>1. DOMAIN q = 1 .. (n + 1) /\ \A i \in 1 .. (n + 1) : q[i] \in Nat
    BY LenProperties, ElementOfSeq
  <1>2. n \in 0 .. Len(q)
    OBVIOUS
  <1>3. b \in Seq(Nat) /\ Increasing(b) /\ Len(b) = n /\ ToSet(b) = {q[i] : i \in 1 .. n}
    BY <1>2, SortedCut
  <1>4. \A i \in 1 .. n : b[i] = q[i]
    BY <1>3, SubSeqProperties
  <1>5. \A i \in 1 .. n : q[i] < q[n + 1]
    BY <1>1 DEF Increasing
  <1>6. ToSet(q) = {q[i] : i \in 1 .. (n + 1)}
    BY <1>1 DEF ToSet
  <1>7. q[n + 1] \in ToSet(q)
    BY <1>6
  <1>8. ToSet(b) = ToSet(q) \ {q[n + 1]}
    <2>1. \A i \in 1 .. (n + 1) : i \in 1 .. n \/ i = n + 1
      OBVIOUS
    <2>2. \A i \in 1 .. n : q[i] # q[n + 1] /\ i \in 1 .. (n + 1)
      BY <1>1, <1>5
    <2> HIDE DEF b
    <2> QED BY <1>3, <1>6, <2>1, <2>2
  <1>9. \A u \in ToSet(b) : u < q[n + 1] /\ u \in Nat
    BY <1>1, <1>3, <1>5
  <1> QED BY <1>1, <1>3, <1>4, <1>7, <1>8, <1>9

\* Squashing the last uop of the ROB keeps the account.
LEMMA KeptSquash ==
  ASSUME NEW rf, NEW log, NEW f, NEW order \in Seq(Nat), Increasing(order), NEW n \in Nat, Len(order) = n + 1,
         NEW at, Kept(rf, log, f, order, at), NEW u, u = order[n + 1], f[u].specmode = TRUE, f[u].completed \in BOOLEAN,
         NEW r, r = SquashRegs(f, rf, u)
  PROVE  \E log2 : Kept(r, log2, f, SubSeq(order, 1, n), at)
PROOF
  <1> DEFINE order2 == SubSeq(order, 1, n)
             L == Restrict(log, Others(log, u))
             top == TopBefore(rf.top, f[u])
  <1>1. /\ order2 \in Seq(Nat) /\ Increasing(order2) /\ Len(order2) = n /\ u \in ToSet(order) /\ u \in Nat
        /\ \A i \in 1 .. n : order2[i] = order[i]
        /\ ToSet(order2) = ToSet(order) \ {u} /\ \A v \in ToSet(order2) : v < u
        /\ ToSet(order2) \subseteq Nat
    BY SortedFront
  <1>2. /\ Books(rf, log) /\ Entered(log, f, order, at) /\ Stacked(rf.top, f, order, at)
        /\ Awaited(rf, f, order) /\ Reads(log, f, order, at) /\ IsLog(log)
        /\ rf.top \in 0 .. (StackDepth - 1)
    BY BooksFacts DEF Kept
  <1>3. /\ DOMAIN order = 1 .. (n + 1) /\ DOMAIN order2 = 1 .. n /\ n + 1 \in DOMAIN order
    BY <1>1, LenProperties
  <1>4. at[u] = rf.top
    BY <1>2, <1>3 DEF Stacked
  <1>5. Renamed(f[u]) /\ LogHas(log, u, f[u]) /\ NamedAt(log, u, f[u], rf.top)
    BY <1>1, <1>2, <1>4 DEF Entered
  <1>6. \A w \in DOMAIN log : w[1] <= u
    <2>1. \A w \in DOMAIN log : w[1] \in ToSet(order)
      BY <1>2 DEF Entered
    <2> QED BY <1>1, <2>1
  <1>7. f[u].completed => NonePending(rf, f[u])
    BY <1>1, CompletedWritten
  <1>8. top \in 0 .. (StackDepth - 1)
    BY <1>2, ShiftBack DEF TopBefore
  <1>9. r = Undo(IF f[u].completed THEN rf ELSE Write(rf, f[u]), f[u])
    BY DEF SquashRegs
  <1>10. /\ Books(r, L) /\ r.top = top
         /\ \A p \in Phys : r.pending[p] => rf.pending[p] /\ p \notin ToSet(f[u].ph_odep)
    <2>1. Squashable(rf, log, u, f[u])
      BY <1>1, <1>2, <1>5, <1>6, <1>7 DEF Squashable
    <2>2. Squashed(r, rf, log, u, f[u], top)
      BY <1>8, <1>9, <2>1, SquashUop
    <2> QED BY <2>2 DEF Squashed
  <1>11. Entered(L, f, order2, at)
    BY <1>1, <1>2, EnteredWithout
  <1>12. Reads(L, f, order2, at)
    BY <1>1, <1>2, ReadsWithout
  <1>13. Awaited(r, f, order2)
    BY <1>1, <1>2, <1>10 DEF Awaited
  <1> HIDE DEF L, order2
  <1>14. Stacked(r.top, f, order2, at)
    <2>1. ASSUME NEW i \in DOMAIN order2
          PROVE  /\ at[order2[i]] \in 0 .. (StackDepth - 1)
                 /\ at[order2[i]] = IF i = Len(order2) THEN r.top ELSE TopBefore(at[order2[i + 1]], f[order2[i + 1]])
      <3>1. /\ i \in DOMAIN order /\ order2[i] = order[i] /\ i # Len(order) /\ order[n + 1] = u
            /\ i # n => order2[i + 1] = order[i + 1]
        BY <1>1, <1>3
      <3>2. /\ at[order[i]] \in 0 .. (StackDepth - 1)
            /\ at[order[i]] = TopBefore(at[order[i + 1]], f[order[i + 1]])
        BY <1>2, <3>1 DEF Stacked
      <3>3. CASE i = n
        BY <1>1, <1>4, <1>10, <3>1, <3>2, <3>3
      <3>4. CASE i # n
        BY <1>1, <3>1, <3>2, <3>4
      <3> QED BY <3>3, <3>4
    <2> QED BY <2>1 DEF Stacked
  <1>15. Kept(r, L, f, order2, at)
    BY <1>10, <1>11, <1>12, <1>13, <1>14 DEF Kept
  <1> QED BY <1>15 DEF order2

\* A uop whose registers can be taken back.
Squashes(u) == Renamed(u) /\ u.specmode \in BOOLEAN

\* Undoing keeps the types,
LEMMA UndoTyped ==
  ASSUME NEW rf \in RegFiles, NEW u, Squashes(u)
  PROVE  Undo(rf, u) \in RegFiles
PROOF
  <1>1. Renamed(u) /\ u.specmode \in BOOLEAN
    BY DEF Squashes
  <1> DEFINE n == Len(u.ph_odep)
  <1>2. PICK h : UndoChain(h, n, rf, u)
    BY <1>1, UndoFold
  <1>3. n \in Nat
    BY <1>1, RenamedFacts
  <1> DEFINE d == UndoOutputs(rf, u)
             top == (d.top + StackDepth - Shift(u.uinst.op)) % StackDepth
  <1>4. d \in RegFiles
    <2>1. 0 \in 0 .. n
      BY <1>3
    <2> HIDE DEF n
    <2> QED BY <1>2, <2>1 DEF UndoChain
  <1> HIDE DEF d
  <1>5. top \in 0 .. (StackDepth - 1)
    <2>1. d.top \in 0 .. (StackDepth - 1)
      BY <1>4, RegFileIs DEF RegFiles
    <2> QED BY <2>1, ShiftBack
  <1> HIDE DEF top
  <1> QED BY <1>1, <1>4, <1>5, UndoIs DEF d, top

\* ... and so does squashing.
LEMMA SquashTyped ==
  ASSUME NEW rf \in RegFiles, NEW f, NEW u, Squashes(f[u])
  PROVE  SquashRegs(f, rf, u) \in RegFiles
PROOF
  <1> DEFINE d == IF f[u].completed THEN rf ELSE Write(rf, f[u])
  <1>1. Write(rf, f[u]) \in RegFiles
    BY WriteIs
  <1>2. d \in RegFiles
    BY <1>1
  <1>3. SquashRegs(f, rf, u) = Undo(d, f[u])
    BY DEF SquashRegs
  <1> HIDE DEF d
  <1> QED BY <1>2, <1>3, UndoTyped

\* The register files between the uops a recovery squashes.
SquashChain(h, n, f, rf, q) ==
  /\ h \in [0 .. n -> RegFiles] /\ h[n] = rf /\ h[0] = SquashAll(f, rf, q)
  /\ \A k \in 1 .. n : h[k - 1] = SquashRegs(f, h[k], q[k])

\* The fold of a recovery goes uop by uop, from the youngest.
LEMMA SquashFold ==
  ASSUME NEW rf \in RegFiles, NEW uops, NEW q \in Seq(Nat), \A u \in ToSet(q) : Squashes(uops[u])
  PROVE  \E h : SquashChain(h, Len(q), uops, rf, q)
PROOF
  <1> DEFINE n == Len(q)
             step == [k \in 1 .. n |-> [d \in RegFiles |-> SquashRegs(uops, d, q[k])]]
             Folds(iter) == iter = [s \in SUBSET (DOMAIN q) |->
               IF s = {} THEN rf ELSE SquashRegs(uops, iter[s \ {Min(s)}], q[Min(s)])]
             f == CHOOSE iter : Folds(iter)
  <1>1. SquashAll(uops, rf, q) = f[DOMAIN q]
    BY Zenon DEF SquashAll, FoldRight, MapThenFoldSet
  <1>0. rf \in RegFiles
    OBVIOUS
  <1>2. n \in Nat /\ DOMAIN q = 1 .. n /\ \A k \in 1 .. n : q[k] \in ToSet(q)
    BY LenProperties DEF ToSet
  <1>3. step \in [1 .. n -> [RegFiles -> RegFiles]]
    <2>1. ASSUME NEW k \in 1 .. n, NEW d \in RegFiles
          PROVE  SquashRegs(uops, d, q[k]) \in RegFiles
      <3>1. Squashes(uops[q[k]])
        BY <1>2
      <3> QED BY <3>1, SquashTyped
    <2> QED BY <2>1
  <1>4. \A k \in 1 .. n : \A d \in RegFiles : step[k][d] = SquashRegs(uops, d, q[k])
    OBVIOUS
  <1> HIDE DEF step, n
  <1>5. PICK g : BuiltDown(n, RegFiles, rf, step, g)
    BY <1>0, <1>2, <1>3, FromAbove
  <1>6. Folds(g)
    <2>1. ASSUME NEW s \in SUBSET (1 .. n)
          PROVE  g[s] = IF s = {} THEN rf ELSE SquashRegs(uops, g[s \ {Min(s)}], q[Min(s)])
      <3>1. CASE s = {}
        BY <1>5, <3>1 DEF BuiltDown
      <3>2. CASE s # {}
        <4>1. PICK k \in 1 .. n : /\ Min(s) = k /\ s \ {k} \in SUBSET ((k + 1) .. n)
                                  /\ s = (s \ {k}) \cup {k} /\ s \ {k} \in SUBSET (1 .. n)
          BY <1>2, <3>2, BottomCut
        <4> DEFINE t == s \ {k}
        <4>2. g[t] \in RegFiles
          BY <1>5, <4>1 DEF BuiltDown
        <4>3. g[t \cup {k}] = step[k][g[t]]
          BY <1>5, <4>1 DEF BuiltDown
        <4>4. g[s] = SquashRegs(uops, g[t], q[k])
          BY <1>4, <4>1, <4>2, <4>3
        <4> QED BY <1>2, <3>2, <4>1, <4>4
      <3> QED BY <3>1, <3>2
    <2>2. g = [s \in SUBSET (1 .. n) |-> g[s]]
      BY <1>5 DEF BuiltDown
    <2> QED BY <1>2, <2>1, <2>2
  <1>7. Folds(f)
    <2>1. \E iter : Folds(iter)
      BY <1>6
    <2> QED BY <2>1, Zenon
  <1> HIDE DEF f
  <1>70. \A s \in SUBSET (DOMAIN q) : f[s] = IF s = {} THEN rf ELSE SquashRegs(uops, f[s \ {Min(s)}], q[Min(s)])
    BY <1>7
  <1> HIDE DEF Folds
  <1>8. f[{}] = rf
    BY <1>70
  <1>9. ASSUME NEW k \in 1 .. n, f[(k + 1) .. n] \in RegFiles
        PROVE  f[k .. n] = step[k][f[(k + 1) .. n]]
    <2>1. Min(k .. n) = k /\ (k .. n) \ {k} = (k + 1) .. n /\ k .. n # {}
      BY <1>2, BottomInterval
    <2>2. k .. n \in SUBSET (DOMAIN q)
      BY <1>2
    <2>3. f[k .. n] = SquashRegs(uops, f[(k + 1) .. n], q[k])
      BY <1>2, <1>70, <2>1, <2>2
    <2> QED BY <1>4, <1>9, <2>3
  <1>10. FollowsDown(f, n, RegFiles, step)
    BY <1>9 DEF FollowsDown
  <1>11. PICK h : ChainDown(h, n, RegFiles, rf, step) /\ h[0] = f[1 .. n]
    <2>1. n \in Nat
      BY <1>2
    <2>2. ReachedDown(n, RegFiles, rf, step, f)
      BY <1>0, <1>3, <1>8, <1>10, <2>1, StepDown
    <2> QED BY <2>2 DEF ReachedDown
  <1>12. /\ h \in [0 .. n -> RegFiles] /\ h[n] = rf
         /\ \A k \in 1 .. n : h[k - 1] = SquashRegs(uops, h[k], q[k])
    <2>1. ASSUME NEW k \in 1 .. n
          PROVE  h[k - 1] = SquashRegs(uops, h[k], q[k])
      <3>1. h[k] \in RegFiles /\ h[k - 1] = step[k][h[k]]
        BY <1>2, <1>11 DEF ChainDown
      <3> QED BY <1>4, <3>1
    <2> QED BY <1>11, <2>1 DEF ChainDown
  <1>13. SquashChain(h, n, uops, rf, q)
    BY <1>1, <1>2, <1>11, <1>12 DEF SquashChain
  <1> QED BY <1>13 DEF n

\* A prefix of a prefix.
LEMMA FrontOfFront ==
  ASSUME NEW q \in Seq(Nat), NEW k \in Nat, k + 1 <= Len(q)
  PROVE  SubSeq(SubSeq(q, 1, k + 1), 1, k) = SubSeq(q, 1, k)
PROOF
  OBVIOUS

\* The registers of all uops behind the first n of the ROB are taken back.
LEMMA KeptSquashAll ==
  ASSUME NEW rf, NEW log, NEW f, NEW order \in Seq(Nat), Increasing(order), NEW n \in 0 .. Len(order), NEW at,
         Kept(rf, log, f, order, at),
         \A i \in (n + 1) .. Len(order) : f[order[i]].specmode = TRUE /\ f[order[i]].completed \in BOOLEAN
  PROVE  \E log2 : Kept(SquashAll(f, rf, SubSeq(order, n + 1, Len(order))), log2, f, SubSeq(order, 1, n), at)
PROOF
  <1> DEFINE q == SubSeq(order, n + 1, Len(order))
             m == Len(order) - n
             part(k) == SubSeq(order, 1, n + k)
  <1>1. /\ Len(order) \in Nat /\ DOMAIN order = 1 .. Len(order) /\ n \in Nat /\ m \in Nat /\ n + m = Len(order)
        /\ n + 1 \in Nat
    BY LenProperties
  <1>2. q \in Seq(Nat) /\ Len(q) = m /\ \A k \in 1 .. m : q[k] = order[n + k]
    OBVIOUS
  <1>3. DOMAIN q = 1 .. m
    BY <1>2, LenProperties
  <1>4. \A k \in 1 .. m : n + k \in (n + 1) .. Len(order) /\ n + k \in DOMAIN order
    BY <1>1
  <1> HIDE DEF q, m
  <1>5. \A u \in ToSet(q) : Squashes(f[u])
    <2> SUFFICES ASSUME NEW k \in 1 .. m PROVE Squashes(f[q[k]])
      BY <1>3 DEF ToSet
    <2>1. order[n + k] \in ToSet(order) /\ f[order[n + k]].specmode = TRUE
      BY <1>4 DEF ToSet
    <2> QED BY <1>2, <2>1 DEF Kept, Entered, Squashes
  <1>6. rf \in RegFiles
    BY DEF Kept, Books
  <1>7. PICK h : SquashChain(h, m, f, rf, q)
    <2>1. \E h : SquashChain(h, Len(q), f, rf, q)
      BY <1>2, <1>5, <1>6, SquashFold
    <2> QED BY <1>2, <2>1
  <1>8. h[m] = rf /\ h[0] = SquashAll(f, rf, q) /\ \A k \in 1 .. m : h[k - 1] = SquashRegs(f, h[k], q[k])
    BY <1>7 DEF SquashChain
  <1> DEFINE P(k) == \E L : Kept(h[k], L, f, part(k), at)
             T == {j \in 0 .. m : P(m - j)}
  <1>9. 0 \in T
    <2>1. part(m) = order
      <3>1. SubSeq(order, 1, Len(order)) = order
        OBVIOUS
      <3> QED BY <1>1, <3>1
    <2> HIDE DEF part
    <2>2. Kept(h[m], log, f, part(m), at)
      BY <1>8, <2>1
    <2>3. P(m) /\ m - 0 = m /\ 0 \in 0 .. m
      BY <1>1, <2>2
    <2> HIDE DEF P
    <2> QED BY <2>3
  <1>10. ASSUME NEW j \in 1 .. m, j - 1 \in T
         PROVE  j \in T
    <2> DEFINE k == m - (j - 1)
               b == part(k)
    <2>1. k \in 1 .. m /\ m - j = k - 1 /\ k \in Nat /\ n + (k - 1) \in Nat /\ n + k = (n + (k - 1)) + 1
          /\ n + k \in 0 .. Len(order) /\ n + k <= Len(order)
      BY <1>1
    <2>2. P(k)
      BY <1>10
    <2>3. PICK L : Kept(h[k], L, f, b, at)
      BY <2>2
    <2> HIDE DEF k, P
    <2>4. b \in Seq(Nat) /\ Increasing(b) /\ Len(b) = n + k
      BY <2>1, SortedCut
    <2>5. b[n + k] = order[n + k]
      BY <1>1, <2>1
    <2>6. q[k] = b[(n + (k - 1)) + 1] /\ Len(b) = (n + (k - 1)) + 1
      BY <1>2, <2>1, <2>4, <2>5
    <2>7. f[q[k]].specmode = TRUE /\ f[q[k]].completed \in BOOLEAN
      BY <1>2, <1>4, <2>1
    <2>8. h[k - 1] = SquashRegs(f, h[k], q[k])
      BY <1>8, <2>1
    <2>9. SubSeq(b, 1, n + (k - 1)) = part(k - 1)
      BY <2>1, FrontOfFront
    <2> HIDE DEF b, part
    <2>10. \E L2 : Kept(h[k - 1], L2, f, SubSeq(b, 1, n + (k - 1)), at)
      BY <2>1, <2>3, <2>4, <2>6, <2>7, <2>8, KeptSquash
    <2>11. P(k - 1)
      BY <2>9, <2>10 DEF P
    <2> QED BY <2>1, <2>11
  <1> HIDE DEF T
  <1>11. \A j \in 0 .. m : j \in T
    BY ONLY <1>1, <1>9, <1>10, UpTo
  <1>12. P(0)
    <2>1. m \in 0 .. m /\ m - m = 0
      BY <1>1
    <2>2. m \in T
      BY <1>11, <2>1
    <2> HIDE DEF P
    <2> QED BY <2>1, <2>2 DEF T
  <1>13. part(0) = SubSeq(order, 1, n)
    BY <1>1
  <1> HIDE DEF part
  <1> QED BY <1>8, <1>12, <1>13 DEF q

\* r is q with u behind the others.
Behind(r, q, u) ==
  /\ DOMAIN q = 1 .. Len(q) /\ Len(q) \in Nat /\ Len(r) = Len(q) + 1 /\ DOMAIN r = 1 .. Len(r)
  /\ \A i \in 1 .. Len(q) : r[i] = q[i] /\ q[i] \in ToSet(q)
  /\ r[Len(q) + 1] = u /\ ToSet(r) = ToSet(q) \cup {u}

\* A queue with one more.
LEMMA SeqAppended ==
  ASSUME NEW q \in Seq(Nat), NEW u \in Nat, NEW r, r = Append(q, u)
  PROVE  Behind(r, q, u)
PROOF
  <1>1. /\ Len(q) \in Nat /\ Len(r) = Len(q) + 1 /\ r \in Seq(Nat)
        /\ \A i \in 1 .. Len(q) : r[i] = q[i]
        /\ r[Len(q) + 1] = u
    OBVIOUS
  <1>2. DOMAIN q = 1 .. Len(q) /\ DOMAIN r = 1 .. Len(r)
    BY <1>1, LenProperties
  <1>3. \A i \in 1 .. Len(q) : q[i] \in ToSet(q)
    BY <1>2 DEF ToSet
  <1>4. ToSet(r) = ToSet(q) \cup {u}
    <2>1. \A i \in 1 .. (Len(q) + 1) : i \in 1 .. Len(q) \/ i = Len(q) + 1
      BY <1>1
    <2>2. Len(q) + 1 \in 1 .. (Len(q) + 1) /\ \A i \in 1 .. Len(q) : i \in 1 .. (Len(q) + 1)
      BY <1>1
    <2> QED BY <1>1, <1>2, <2>1, <2>2 DEF ToSet
  <1> QED BY <1>1, <1>2, <1>3, <1>4 DEF Behind

\* The uop u comes behind the others, with the registers m has for it.
Joins(g, f, order, u, uinst, m) ==
  /\ \A v \in ToSet(order) : SameRegs(g[v], f[v]) /\ (g[v].completed <=> f[v].completed)
  /\ g[u].uinst = uinst /\ g[u].ph_idep = m.ph_idep /\ g[u].ph_odep = m.ph_odep /\ g[u].ph_oodep = m.ph_oodep
  /\ ~g[u].completed

\* Renaming the next uop keeps the account.
LEMMA KeptRename ==
  ASSUME NEW rf, NEW log, NEW f, NEW order \in Seq(Nat), Increasing(order), NEW at, Kept(rf, log, f, order, at),
         NEW u \in Nat, \A v \in ToSet(order) : v < u,
         NEW uinst \in Uinst, FlagsLast(uinst.odep), CanRename(rf, uinst),
         NEW m, m = Rename(rf, uinst), NEW g, Joins(g, f, order, u, uinst, m)
  PROVE  \E log2, at2 : Kept(m.rf, log2, g, Append(order, u), at2)
PROOF
  <1> DEFINE order2 == Append(order, u)
             top == (rf.top + Shift(uinst.op)) % StackDepth
             at2 == [v \in ToSet(order) \cup {u} |-> IF v = u THEN top ELSE at[v]]
  <1>1. /\ Books(rf, log) /\ Entered(log, f, order, at) /\ Stacked(rf.top, f, order, at)
        /\ Awaited(rf, f, order) /\ Reads(log, f, order, at) /\ IsLog(log)
        /\ rf.top \in 0 .. (StackDepth - 1) /\ Linked(rf.rat, log)
    BY BooksFacts DEF Kept, Books, Logged
  <1>2. /\ DOMAIN order = 1 .. Len(order) /\ Len(order) \in Nat /\ Len(order2) = Len(order) + 1
        /\ DOMAIN order2 = 1 .. Len(order2)
        /\ \A i \in 1 .. Len(order) : order2[i] = order[i] /\ order[i] \in ToSet(order)
        /\ order2[Len(order) + 1] = u /\ ToSet(order2) = ToSet(order) \cup {u}
    <2>1. order2 = Append(order, u) /\ order \in Seq(Nat) /\ u \in Nat
      OBVIOUS
    <2> HIDE DEF order2
    <2>2. Behind(order2, order, u)
      BY <2>1, SeqAppended
    <2> QED BY <2>2 DEF Behind
  <1>3. \A v \in ToSet(order) : v \in Nat /\ v < u /\ v # u
    <2>1. \A v \in ToSet(order) : v \in Nat
      BY <1>2, ElementOfSeq DEF ToSet
    <2> QED BY <2>1
  <1> HIDE DEF order2
  <1>4. \A w \in DOMAIN log : w[1] \in ToSet(order) /\ w[1] < u
    BY <1>1, <1>3 DEF Entered
  <1>5. ASSUME NEW p \in Phys, rf.pending[p]
        PROVE  \E w \in DOMAIN log : log[w].new = p
    <2>1. PICK v \in ToSet(order) : p \in ToSet(f[v].ph_odep)
      BY <1>1, <1>5 DEF Awaited
    <2>2. LogHas(log, v, f[v]) /\ Renamed(f[v])
      BY <1>1 DEF Entered
    <2>3. PICK j \in 1 .. Len(f[v].ph_odep) : p = f[v].ph_odep[j]
      BY <2>1, <2>2, RenamedFacts DEF ToSet
    <2>4. <<v, j>> \in DOMAIN log /\ log[<<v, j>>].new = p
      BY <2>2, <2>3 DEF LogHas
    <2> QED BY <2>4
  <1>6. Renamable(rf, log, u, uinst)
    BY <1>1, <1>4, <1>5 DEF Renamable
  <1>7. top \in 0 .. (StackDepth - 1) /\ TopBefore(top, g[u]) = rf.top
    <2>1. /\ (rf.top + Shift(uinst.op)) % StackDepth \in 0 .. (StackDepth - 1)
          /\ (((rf.top + Shift(uinst.op)) % StackDepth) + StackDepth - Shift(uinst.op)) % StackDepth = rf.top
      BY <1>1, ShiftBack
    <2> QED BY <2>1 DEF TopBefore, Joins
  <1>8. top = (rf.top + Shift(uinst.op)) % StackDepth
    OBVIOUS
  <1> HIDE DEF top
  <1>9. PICK log2 : Enters(m, log2, rf, log, u, uinst, top)
    BY <1>6, <1>7, <1>8, RenameUop
  <1>10. /\ Books(m.rf, log2) /\ Grown(log2, log, u, uinst.odep, m, top) /\ m.rf.top = top
         /\ m.ph_odep \in Seq(Phys) /\ m.ph_oodep \in Seq(Phys)
         /\ Len(m.ph_odep) = Len(uinst.odep) /\ Len(m.ph_oodep) = Len(uinst.odep)
         /\ \A p \in Phys : m.rf.pending[p] => rf.pending[p] \/ p \in ToSet(m.ph_odep)
         /\ m.ph_idep = [l \in uinst.idep |-> rf.rat[Resolve(l, top)]]
    BY <1>9 DEF Enters
  <1>11. /\ g[u].uinst = uinst /\ g[u].ph_idep = m.ph_idep /\ g[u].ph_odep = m.ph_odep
         /\ g[u].ph_oodep = m.ph_oodep /\ ~g[u].completed
         /\ \A v \in ToSet(order) : SameRegs(g[v], f[v]) /\ (g[v].completed <=> f[v].completed)
    BY DEF Joins
  <1>12. /\ at2[u] = top /\ \A v \in ToSet(order) : at2[v] = at[v]
    BY <1>3
  <1> HIDE DEF at2
  <1>13. /\ DOMAIN log2 = DOMAIN log \cup Own(u, Len(uinst.odep))
         /\ \A w \in DOMAIN log : log2[w] = log[w]
         /\ \A k \in 1 .. Len(uinst.odep) : log2[<<u, k>>] =
              [to |-> Resolve(uinst.odep[k], top), new |-> m.ph_odep[k], old |-> m.ph_oodep[k]]
    BY <1>10 DEF Grown
  <1>130. /\ Len(g[u].ph_odep) = Len(uinst.odep)
          /\ \A k \in 1 .. Len(uinst.odep) : /\ log2[<<u, k>>].to = Resolve(uinst.odep[k], top)
                                              /\ log2[<<u, k>>].new = g[u].ph_odep[k]
                                              /\ log2[<<u, k>>].old = g[u].ph_oodep[k]
    <2>1. g[u].ph_odep = m.ph_odep /\ g[u].ph_oodep = m.ph_oodep /\ Len(m.ph_odep) = Len(uinst.odep)
      BY <1>10, <1>11
    <2>2. ASSUME NEW k \in 1 .. Len(uinst.odep)
          PROVE  /\ log2[<<u, k>>].to = Resolve(uinst.odep[k], top)
                 /\ log2[<<u, k>>].new = m.ph_odep[k] /\ log2[<<u, k>>].old = m.ph_oodep[k]
      <3>1. log2[<<u, k>>] = [to |-> Resolve(uinst.odep[k], top), new |-> m.ph_odep[k], old |-> m.ph_oodep[k]]
        BY <1>13
      <3> QED BY ONLY <3>1
    <2> QED BY ONLY <2>1, <2>2
  <1>14. \A w \in DOMAIN log2 : w[1] # u => w \in DOMAIN log
    BY <1>13 DEF Own
  <1>15. Entered(log2, g, order2, at2)
    <2>1. ASSUME NEW w \in DOMAIN log2
          PROVE  w[1] \in ToSet(order2)
      BY <1>2, <1>4, <1>14
    <2>2. ASSUME NEW v \in ToSet(order)
          PROVE  Renamed(g[v]) /\ LogHas(log2, v, g[v]) /\ NamedAt(log2, v, g[v], at2[v])
      <3>1. Renamed(f[v]) /\ LogHas(log, v, f[v]) /\ NamedAt(log, v, f[v], at[v]) /\ SameRegs(g[v], f[v]) /\ v # u
        BY <1>1, <1>3, <1>11 DEF Entered
      <3>2. LogHas(log2, v, g[v])
        BY <1>13, <1>14, <3>1 DEF LogHas, SameRegs
      <3>3. NamedAt(log2, v, g[v], at2[v])
        BY <1>12, <1>13, <3>1 DEF LogHas, NamedAt, SameRegs
      <3>4. Renamed(g[v])
        BY <3>1 DEF Renamed, SameRegs
      <3> QED BY <3>2, <3>3, <3>4
    <2>3. Renamed(g[u])
      BY <1>10, <1>11 DEF Renamed
    <2>4. LogHas(log2, u, g[u])
      <3>1. ASSUME NEW w \in DOMAIN log2, w[1] = u
            PROVE  w[2] \in 1 .. Len(g[u].ph_odep)
        <4>1. w \in Own(u, Len(uinst.odep))
          BY <1>4, <1>3, <1>13, <3>1
        <4> QED BY <1>10, <1>11, <4>1 DEF Own
      <3>2. \A k \in 1 .. Len(g[u].ph_odep) : <<u, k>> \in DOMAIN log2
        BY <1>10, <1>11, <1>13 DEF Own
      <3>3. \A k \in 1 .. Len(g[u].ph_odep) : /\ log2[<<u, k>>].new = g[u].ph_odep[k]
                                              /\ log2[<<u, k>>].old = g[u].ph_oodep[k]
        BY <1>130
      <3> QED BY <3>1, <3>2, <3>3 DEF LogHas
    <2>5. NamedAt(log2, u, g[u], at2[u])
      BY <1>11, <1>12, <1>130 DEF NamedAt
    <2> QED BY <1>2, <2>1, <2>2, <2>3, <2>4, <2>5 DEF Entered
  <1>16. Stacked(m.rf.top, g, order2, at2)
    <2>1. ASSUME NEW i \in DOMAIN order2
          PROVE  /\ at2[order2[i]] \in 0 .. (StackDepth - 1)
                 /\ at2[order2[i]] = IF i = Len(order2) THEN m.rf.top
                                    ELSE TopBefore(at2[order2[i + 1]], g[order2[i + 1]])
      <3>1. CASE i = Len(order) + 1
        BY <1>2, <1>7, <1>10, <1>12, <3>1
      <3>2. CASE i # Len(order) + 1
        <4>1. i \in DOMAIN order /\ order2[i] = order[i] /\ order[i] \in ToSet(order) /\ i # Len(order2)
          BY <1>2, <3>2
        <4>2. /\ at[order[i]] \in 0 .. (StackDepth - 1)
              /\ at[order[i]] = IF i = Len(order) THEN rf.top ELSE TopBefore(at[order[i + 1]], f[order[i + 1]])
          BY <1>1, <4>1 DEF Stacked
        <4>3. at2[order2[i]] = at[order[i]]
          BY <1>12, <4>1
        <4>4. CASE i = Len(order)
          <5>1. order2[i + 1] = u
            BY <1>2, <4>4
          <5> QED BY <1>7, <1>12, <4>1, <4>2, <4>3, <4>4, <5>1
        <4>5. CASE i # Len(order)
          <5>1. i + 1 \in 1 .. Len(order)
            BY <1>2, <4>1, <4>5
          <5>2. order2[i + 1] = order[i + 1] /\ order[i + 1] \in ToSet(order)
            BY <1>2, <5>1
          <5>3. TopBefore(at2[order2[i + 1]], g[order2[i + 1]]) = TopBefore(at[order[i + 1]], f[order[i + 1]])
            BY <1>11, <1>12, <5>2 DEF TopBefore, SameRegs
          <5> QED BY <4>1, <4>2, <4>3, <4>5, <5>3
        <4> QED BY <4>4, <4>5
      <3> QED BY <3>1, <3>2
    <2> QED BY <2>1 DEF Stacked
  <1>17. Awaited(m.rf, g, order2)
    <2> SUFFICES ASSUME NEW p \in Phys, m.rf.pending[p]
                 PROVE  \E v \in ToSet(order2) : ~g[v].completed /\ p \in ToSet(g[v].ph_odep)
      BY DEF Awaited
    <2>1. CASE p \in ToSet(m.ph_odep)
      BY <1>2, <1>11, <2>1
    <2>2. CASE rf.pending[p]
      <3>1. PICK v \in ToSet(order) : ~f[v].completed /\ p \in ToSet(f[v].ph_odep)
        BY <1>1, <2>2 DEF Awaited
      <3> QED BY <1>2, <1>11, <3>1 DEF SameRegs
    <2> QED BY <1>10, <2>1, <2>2
  <1>18. Reads(log2, g, order2, at2)
    <2>1. ASSUME NEW v \in ToSet(order2), NEW l, NEW w, LastBefore(log2, v, l, w)
          PROVE  LastBefore(log, v, l, w) /\ log2[w] = log[w]
      <3>1. w \in DOMAIN log
        <4>1. w \in DOMAIN log2 /\ w[1] < v /\ v <= u /\ v \in Nat
          BY <1>2, <1>3, <2>1 DEF LastBefore
        <4>2. w[1] # u
          BY <4>1
        <4> QED BY <1>14, <4>1, <4>2
      <3> QED BY <1>13, <2>1, <3>1 DEF LastBefore
    <2>2. ASSUME NEW v \in ToSet(order)
          PROVE  ReadsLast(log2, v, g[v], at2[v])
      <3>1. ReadsLast(log, v, f[v], at[v]) /\ SameRegs(g[v], f[v]) /\ v \in ToSet(order2)
        BY <1>1, <1>2, <1>11 DEF Reads
      <3> QED BY <1>12, <2>1, <3>1 DEF ReadsLast, SameRegs
    <2>3. ReadsLast(log2, u, g[u], at2[u])
      <3> SUFFICES ASSUME NEW l \in uinst.idep, NEW w, LastBefore(log2, u, Resolve(l, top), w)
                   PROVE  g[u].ph_idep[l] = log2[w].new
        BY <1>11, <1>12 DEF ReadsLast
      <3> DEFINE to == Resolve(l, top)
      <3>1. LastBefore(log, u, to, w) /\ log2[w] = log[w]
        BY <1>2, <2>1
      <3> HIDE DEF to
      <3>2. w \in DOMAIN log /\ log[w].to = to /\ \A x \in DOMAIN log : log[x].to = to => x = w \/ Earlier(x, w)
        BY <1>4, <3>1 DEF LastBefore
      <3>3. After(log, w) = {}
        <4>1. DOMAIN log \subseteq OutputIds
          BY <1>1 DEF IsLog
        <4>2. ASSUME NEW x \in DOMAIN log, Earlier(w, x), log[x].to = log[w].to
              PROVE  FALSE
          <5>1. x = w \/ Earlier(x, w)
            BY <3>2, <4>2
          <5> QED BY <3>2, <4>1, <4>2, <5>1, EarlierOrder
        <4> QED BY <4>2 DEF After
      <3>4. rf.rat[to] = log[w].new
        BY <1>1, <3>2, <3>3 DEF Linked
      <3>5. g[u].ph_idep[l] = rf.rat[to]
        BY <1>10, <1>11 DEF to
      <3> QED BY <3>1, <3>4, <3>5
    <2> QED BY <1>2, <2>2, <2>3 DEF Reads
  <1>19. Kept(m.rf, log2, g, order2, at2)
    BY <1>10, <1>15, <1>16, <1>17, <1>18 DEF Kept
  <1> QED BY <1>19 DEF order2

(***************************************************************************)
(* The registers: steps                                                    *)
(***************************************************************************)

\* The registers a uop got, none before it is renamed.
PhSeqs(r) == r.ph_odep \in Seq(Phys) /\ r.ph_oodep \in Seq(Phys)
\* So it is for all uops.
PhTyped == \A u \in DOMAIN uop : PhSeqs(uop[u])
\* Some log and some history of the FP stack account for the registers.
RegsKept == \E log, at : Kept(regs, log, uop, rob, at)
\* The inductive invariant of the pipeline's registers.
RegsInv == CoreInv /\ PhTyped /\ RegsKept

\* Flags are not registers.
LEMMA SameFlags ==
  ASSUME NEW r, IsUop(r), NEW b
  PROVE  /\ SameRegs([r EXCEPT !.in_event_queue = b], r)
         /\ SameRegs([r EXCEPT !.completed = b], r)
         /\ SameRegs([r EXCEPT !.syscall_ready = b], r)
PROOF
  <1>1. r = [uinst |-> r.uinst, mop_index |-> r.mop_index, specmode |-> r.specmode,
             mispredicted |-> r.mispredicted, in_event_queue |-> r.in_event_queue,
             completed |-> r.completed, syscall_ready |-> r.syscall_ready,
             ph_idep |-> r.ph_idep, ph_odep |-> r.ph_odep, ph_oodep |-> r.ph_oodep]
    BY DEF IsUop, Fields
  <1>2. SameRegs([r EXCEPT !.in_event_queue = b], r)
    BY <1>1 DEF SameRegs
  <1>3. SameRegs([r EXCEPT !.completed = b], r)
    BY <1>1 DEF SameRegs
  <1>4. SameRegs([r EXCEPT !.syscall_ready = b], r)
    BY <1>1 DEF SameRegs
  <1> QED BY <1>2, <1>3, <1>4

\* Having the same registers is transitive.
LEMMA SameRegsOrder ==
  /\ \A r : SameRegs(r, r)
  /\ \A r, s, t : SameRegs(r, s) /\ SameRegs(s, t) => SameRegs(r, t)
  /\ \A r, s : SameRegs(r, s) /\ PhSeqs(s) => PhSeqs(r)
PROOF
  BY DEF SameRegs, PhSeqs

\* A table of uops with the registers they had.
KeepRegs(f, g) == \A v \in DOMAIN g : SameRegs(f[v], g[v])

\* Starting a uop leaves the registers,
LEMMA MarkedRegs ==
  ASSUME NEW g, \A v \in DOMAIN g : IsUop(g[v]), NEW u \in DOMAIN g, NEW f, Marked(f, g, u)
  PROVE  KeepRegs(f, g)
PROOF
  <1> DEFINE s == [g[u] EXCEPT !.in_event_queue = TRUE]
  <1>1. SameRegs(s, g[u])
    BY SameFlags
  <1>2. f = [g EXCEPT ![u] = s]
    BY DEF Marked
  <1> HIDE DEF s
  <1> QED BY <1>1, <1>2, SameRegsOrder DEF KeepRegs

\* ... and so does a system call,
LEMMA TrappedRegs ==
  ASSUME NEW g, \A v \in DOMAIN g : IsUop(g[v]), NEW u \in DOMAIN g, NEW f, Trapped(f, g, u)
  PROVE  KeepRegs(f, g)
PROOF
  <1> DEFINE s == [g[u] EXCEPT !.syscall_ready = TRUE]
  <1>1. SameRegs(s, g[u])
    BY SameFlags
  <1>2. f = [g EXCEPT ![u] = s]
    BY DEF Trapped
  <1> HIDE DEF s
  <1> QED BY <1>1, <1>2, SameRegsOrder DEF KeepRegs

\* ... and completing.
LEMMA DoneRegs ==
  ASSUME NEW g, \A v \in DOMAIN g : IsUop(g[v]), NEW u \in DOMAIN g, NEW f, Done(f, g, u)
  PROVE  KeepRegs(f, g)
PROOF
  <1> DEFINE t == [g[u] EXCEPT !.in_event_queue = FALSE]
             s == [t EXCEPT !.completed = TRUE]
  <1>1. SameRegs(t, g[u]) /\ Like(t, g[u])
    BY SameFlags, UopFlag
  <1> HIDE DEF t
  <1>2. IsUop(t)
    BY <1>1 DEF Like
  <1>3. SameRegs(s, t)
    BY <1>2, SameFlags
  <1> HIDE DEF s
  <1>4. f = [g EXCEPT ![u] = s]
    BY DEF Done, s, t
  <1> QED BY <1>1, <1>3, <1>4, SameRegsOrder DEF KeepRegs

\* A uop that is renamed has the registers it got, the others theirs.
LEMMA MappedRegs ==
  ASSUME NEW g, \A v \in DOMAIN g : IsUop(g[v]), NEW u \in DOMAIN g, NEW n, NEW f, Mapped(f, g, u, n)
  PROVE  /\ \A v \in DOMAIN g \ {u} : SameRegs(f[v], g[v])
         /\ f[u].uinst = g[u].uinst
         /\ f[u].ph_idep = n.ph_idep /\ f[u].ph_odep = n.ph_odep /\ f[u].ph_oodep = n.ph_oodep
PROOF
  <1> DEFINE r == g[u]
             s == [[[r EXCEPT !.ph_idep = n.ph_idep] EXCEPT !.ph_odep = n.ph_odep] EXCEPT !.ph_oodep = n.ph_oodep]
  <1>1. r = [uinst |-> r.uinst, mop_index |-> r.mop_index, specmode |-> r.specmode,
             mispredicted |-> r.mispredicted, in_event_queue |-> r.in_event_queue,
             completed |-> r.completed, syscall_ready |-> r.syscall_ready,
             ph_idep |-> r.ph_idep, ph_odep |-> r.ph_odep, ph_oodep |-> r.ph_oodep]
    BY DEF IsUop, Fields
  <1>2. f = [g EXCEPT ![u] = s]
    BY DEF Mapped
  <1> HIDE DEF r
  <1>3. s.uinst = r.uinst /\ s.ph_idep = n.ph_idep /\ s.ph_odep = n.ph_odep /\ s.ph_oodep = n.ph_oodep
    BY <1>1
  <1> HIDE DEF s
  <1>4. f[u] = s /\ \A v \in DOMAIN g \ {u} : f[v] = g[v]
    BY <1>2
  <1> QED BY <1>3, <1>4, SameRegsOrder DEF r

\* The registers of the ROB are what they were.
LEMMA KeptStill ==
  ASSUME RegsInv, rob' = rob, regs' = regs,
         \A v \in ToSet(rob) : SameRegs(uop'[v], uop[v]) /\ (uop'[v].completed <=> uop[v].completed)
  PROVE  RegsKept'
PROOF
  <1>1. PICK log, at : Kept(regs, log, uop, rob, at)
    BY DEF RegsInv, RegsKept
  <1>2. Books(regs, log) /\ Awaited(regs, uop, rob) /\ rob \in Seq(Nat)
    BY <1>1 DEF Kept, RegsInv, CoreInv, QueuesOrdered
  <1>3. Awaited(regs, uop', rob)
    BY <1>2 DEF Awaited, SameRegs
  <1>4. Kept(regs, log, uop', rob, at)
    <2>1. \A v \in ToSet(rob) : SameRegs(uop'[v], uop[v])
      OBVIOUS
    <2> QED BY <1>1, <1>2, <1>3, <2>1, KeptLike
  <1>5. Kept(regs', log, uop', rob', at)
    BY <1>4
  <1> QED BY <1>5 DEF RegsKept

\* RegsInv holds at reset.
LEMMA RegsInit == Init => RegsInv
PROOF
  <1> SUFFICES ASSUME Init PROVE RegsInv
    OBVIOUS
  <1>1. CoreInv /\ uop = <<>> /\ rob = <<>> /\ regs = InitRegFile /\ ToSet(rob) = {} /\ DOMAIN uop = {} /\ DOMAIN rob = {}
    BY CoreInit DEF Init, ToSet
  <1>2. Books(regs, EmptyLog) /\ regs.top = 0 /\ \A p \in Phys : ~regs.pending[p]
    BY <1>1, InitBooks
  <1>3. DOMAIN EmptyLog = {}
    BY DEF EmptyLog
  <1>4. Kept(regs, EmptyLog, uop, rob, <<>>)
    BY <1>1, <1>2, <1>3 DEF Kept, Entered, Stacked, Awaited, Reads
  <1> QED BY <1>1, <1>4 DEF RegsInv, PhTyped, RegsKept

\* A recovery takes the registers of the wrong path back.
LEMMA RecoverKept ==
  ASSUME CoreInv, NEW f, NEW rf, NEW order, NEW events, NEW done,
         Recover(f, rf, order, events, done),
         order \in Seq(Nat), Increasing(order), ToSet(order) \subseteq ToSet(rob),
         ToSet(rob) \ {done} \subseteq ToSet(order),
         Alike(f, uop), events \subseteq event_queue, done \in ToSet(rob) \ (Waiting \cup memory \cup events),
         \A v \in DOMAIN uop : f[v].in_event_queue <=> v \in memory \cup events,
         ~uop[done].specmode, event_queue \subseteq events \cup {done}, memory' = memory,
         \A v \in DOMAIN uop : PhSeqs(f[v]),
         NEW log, NEW at, Kept(rf, log, f, order, at)
  PROVE  RegsKept' /\ PhTyped'
PROOF
  <1>1. /\ rob' \in Seq(Nat)
        /\ DOMAIN uop' = ToSet(rob') \cup ToSet(uop_queue') \cup ToSet(fetch_queue') \cup memory \cup event_queue'
        /\ \A u \in DOMAIN uop' : u \in DOMAIN uop /\ uop'[u].completed = f[u].completed
    BY RecoverEffect
  <1> DEFINE spec == {u \in DOMAIN f : f[u].specmode}
             gone == [u \in DOMAIN f |-> IF u \in events \cap spec
                                        THEN [f[u] EXCEPT !.in_event_queue = FALSE] ELSE f[u]]
             S == {done} \cup ((Queued \cup events) \cap spec)
             keep == {u \in DOMAIN gone : u \in S => u \in Queued' \/ gone[u].in_event_queue}
  <1>2. /\ uop' = Restrict(gone, keep) /\ rob' = Trimmed(order)
        /\ regs' = SquashAll(f, rf, SubSeq(order, Len(Trimmed(order)) + 1, Len(order)))
    BY DEF Recover, FreeIfNotQueued
  <1>3. DOMAIN f = DOMAIN uop /\ \A v \in DOMAIN uop : IsUop(f[v]) /\ f[v].specmode = uop[v].specmode
    BY DEF Alike, Like
  <1>4. ASSUME NEW u \in DOMAIN f
        PROVE  SameRegs(gone[u], f[u])
    <2>1. CASE u \in events \cap spec
      <3>1. gone[u] = [f[u] EXCEPT !.in_event_queue = FALSE]
        BY <2>1
      <3> DEFINE r == [f[u] EXCEPT !.in_event_queue = FALSE]
      <3>2. SameRegs(r, f[u])
        BY <1>3, SameFlags
      <3>3. gone[u] = r
        BY <3>1
      <3> HIDE DEF gone, r
      <3> QED BY <3>2, <3>3
    <2>2. CASE u \notin events \cap spec
      <3>1. gone[u] = f[u]
        BY <2>2
      <3> HIDE DEF gone
      <3> QED BY <3>1, SameRegsOrder
    <2> QED BY <2>1, <2>2
  <1>5. DOMAIN gone = DOMAIN f
    OBVIOUS
  <1> HIDE DEF gone, spec, S
  <1>6. uop' = [u \in keep |-> gone[u]] /\ keep \subseteq DOMAIN f
    BY <1>2, <1>5 DEF Restrict
  <1> HIDE DEF keep
  <1>7. \A u \in DOMAIN uop' : u \in DOMAIN uop /\ SameRegs(uop'[u], f[u])
    BY <1>3, <1>4, <1>6
  <1>8. PhTyped'
    <2>1. \A u \in DOMAIN uop' : PhSeqs(uop'[u])
      BY <1>7, SameRegsOrder
    <2> QED BY <2>1 DEF PhTyped
  <1>9. ToSet(order) \subseteq Queued /\ ToSet(order) \subseteq DOMAIN uop
    BY CoreFacts
  <1>10. PICK n \in 0 .. Len(order) :
           /\ Trimmed(order) = SubSeq(order, 1, n) /\ Len(Trimmed(order)) = n
           /\ \A i \in (n + 1) .. Len(order) : uop[order[i]].specmode
    BY <1>9, TrimmedQueue
  <1>11. \A i \in (n + 1) .. Len(order) : f[order[i]].specmode = TRUE /\ f[order[i]].completed \in BOOLEAN
    <2> TAKE i \in (n + 1) .. Len(order)
    <2>1. n \in Nat /\ Len(order) \in Nat /\ DOMAIN order = 1 .. Len(order)
      BY <1>10, LenProperties
    <2>2. i \in DOMAIN order
      BY <2>1
    <2>3. order[i] \in ToSet(order)
      BY <2>2 DEF ToSet
    <2>4. uop[order[i]].specmode = TRUE
      BY <1>9, <1>10, <2>3, CoreFacts
    <2>5. IsUop(f[order[i]]) /\ f[order[i]].specmode = uop[order[i]].specmode
      BY <1>3, <1>9, <2>3
    <2> QED BY <2>4, <2>5 DEF IsUop, Fields
  <1>12. PICK log2 : Kept(SquashAll(f, rf, SubSeq(order, n + 1, Len(order))), log2, f, SubSeq(order, 1, n), at)
    BY <1>11, KeptSquashAll
  <1>13. Kept(regs', log2, f, rob', at)
    BY <1>2, <1>10, <1>12
  <1>14. \A u \in ToSet(rob') : SameRegs(uop'[u], f[u]) /\ uop'[u].completed = f[u].completed
    BY <1>1, <1>7
  <1>15. Awaited(regs', uop', rob')
    <2>1. Awaited(regs', f, rob')
      BY <1>13 DEF Kept
    <2> QED BY <1>14, <2>1 DEF Awaited, SameRegs
  <1>16. Books(regs', log2)
    BY <1>13 DEF Kept
  <1>17. Kept(regs', log2, uop', rob', at)
    <2>1. \A u \in ToSet(rob') : SameRegs(uop'[u], f[u])
      BY <1>14
    <2> QED BY <1>1, <1>13, <1>15, <1>16, <2>1, KeptLike
  <1> QED BY <1>8, <1>17 DEF RegsKept

\* The micro-instruction of a uop is one PipelineConstants speaks of.
LEMMA UinstFacts ==
  ASSUME NEW r, IsUop(r)
  PROVE  r.uinst \in Uinst /\ FlagsLast(r.uinst.odep) /\ Len(r.uinst.odep) <= MaxOutputs
PROOF
  <1>1. PICK inst \in Insts : r.uinst \in ToSet(inst)
    BY DEF IsUop
  <1>2. PICK k \in DOMAIN inst : r.uinst = inst[k]
    BY <1>1 DEF ToSet
  <1>3. r.uinst \in Uinst
    BY DEF IsUop, Fields
  <1> QED BY <1>2, <1>3, PipelineConstants DEF FlagsLast

\* Dispatch renames a uop.
LEMMA RegsDispatch ==
  ASSUME RegsInv, Dispatch
  PROVE  RegsKept' /\ PhTyped'
PROOF
  <1> DEFINE u == Head(uop_queue)
             uinst == uop[u].uinst
             new == Rename(regs, uinst)
  <1>1. /\ Mapped(uop', uop, u, new) /\ regs' = new.rf /\ rob' = Append(rob, u) /\ uop_queue # <<>>
        /\ CanRename(regs, uinst)
    BY DEF Dispatch, Mapped, CanDispatch
  <1> HIDE DEF new
  <1>2. u \in ToSet(uop_queue) /\ u \in FrontEnd /\ u \in DOMAIN uop /\ u \in Nat /\ u \notin ToSet(rob)
    <2>1. uop_queue \in Seq(Nat) /\ Increasing(uop_queue) /\ CoreInv
      BY DEF RegsInv, CoreInv, QueuesOrdered
    <2>2. u \in ToSet(uop_queue)
      BY <1>1, <2>1, SortedTail
    <2> HIDE DEF u
    <2> QED BY <2>1, <2>2, CoreFacts DEF FrontEnd
  <1> HIDE DEF u
  <1>3. CoreInv /\ PhTyped /\ rob \in Seq(Nat) /\ Increasing(rob) /\ \A v \in ToSet(rob) : v < u /\ v \in DOMAIN uop
    BY <1>2, CoreFacts DEF RegsInv, CoreInv, QueuesOrdered
  <1>4. \A v \in DOMAIN uop : IsUop(uop[v])
    BY <1>3 DEF CoreInv, UopsTyped
  <1>5. /\ DOMAIN uop' = DOMAIN uop
        /\ \A v \in DOMAIN uop : uop'[v].completed = uop[v].completed
    <2>1. uop = [v \in DOMAIN uop |-> uop[v]]
      BY <1>3 DEF CoreInv, UopsTyped
    <2> QED BY <1>1, <1>2, <1>4, <2>1, UopMapped DEF Alike
  <1>6. /\ \A v \in DOMAIN uop \ {u} : SameRegs(uop'[v], uop[v])
        /\ uop'[u].uinst = uinst
        /\ uop'[u].ph_idep = new.ph_idep /\ uop'[u].ph_odep = new.ph_odep /\ uop'[u].ph_oodep = new.ph_oodep
    BY <1>1, <1>2, <1>4, MappedRegs
  <1>7. ~uop'[u].completed
    BY <1>2, <1>3, <1>5 DEF CoreInv, Flags
  <1>8. Joins(uop', uop, rob, u, uinst, new)
    <2>1. \A v \in ToSet(rob) : SameRegs(uop'[v], uop[v]) /\ (uop'[v].completed <=> uop[v].completed)
      BY <1>2, <1>3, <1>5, <1>6
    <2> QED BY <1>6, <1>7, <2>1 DEF Joins
  <1>9. uinst \in Uinst /\ FlagsLast(uinst.odep)
    BY <1>2, <1>4, UinstFacts
  <1>10. PICK log, at : Kept(regs, log, uop, rob, at)
    BY DEF RegsInv, RegsKept
  <1>11. PICK log2, at2 : Kept(new.rf, log2, uop', Append(rob, u), at2)
    <2>1. new = Rename(regs, uinst)
      BY DEF new
    <2>2. \A v \in ToSet(rob) : v < u
      BY <1>3
    <2> HIDE DEF uinst
    <2> QED BY <1>1, <1>2, <1>3, <1>8, <1>9, <1>10, <2>1, <2>2, KeptRename
  <1>12. RegsKept'
    <2>1. Kept(regs', log2, uop', rob', at2)
      BY <1>1, <1>11
    <2> QED BY <2>1 DEF RegsKept
  <1>13. PhSeqs(uop'[u])
    <2>1. u \in ToSet(Append(rob, u))
      <3>1. Behind(Append(rob, u), rob, u)
        BY <1>2, <1>3, SeqAppended
      <3> QED BY <3>1 DEF Behind
    <2>2. Renamed(uop'[u])
      BY <1>11, <2>1 DEF Kept, Entered
    <2> QED BY <2>2 DEF Renamed, PhSeqs
  <1>14. \A v \in DOMAIN uop' : PhSeqs(uop'[v])
    <2> TAKE v \in DOMAIN uop'
    <2>1. CASE v = u
      BY <1>13, <2>1
    <2>2. CASE v # u
      BY <1>3, <1>5, <1>6, <2>2, SameRegsOrder DEF PhTyped
    <2> QED BY <2>1, <2>2
  <1> QED BY <1>12, <1>14 DEF PhTyped

\* Writing the registers of a uop that completes.
LEMMA KeptWrite ==
  ASSUME NEW rf, NEW log, NEW f, NEW order \in Seq(Nat), NEW at, Kept(rf, log, f, order, at),
         NEW u, NEW g, \A v \in ToSet(order) : SameRegs(g[v], f[v]),
         \A v \in ToSet(order) : v # u => (g[v].completed <=> f[v].completed),
         NEW r, r = Write(rf, f[u])
  PROVE  Kept(r, log, g, order, at)
PROOF
  <1>1. Books(rf, log) /\ Awaited(rf, f, order)
    BY DEF Kept
  <1>2. Books(r, log) /\ r.top = rf.top /\ Written(r, rf, f[u])
    BY <1>1, WriteBooks
  <1>3. Awaited(r, g, order)
    <2> SUFFICES ASSUME NEW p \in Phys, r.pending[p]
                 PROVE  \E v \in ToSet(order) : ~g[v].completed /\ p \in ToSet(g[v].ph_odep)
      BY DEF Awaited
    <2>1. rf.pending[p] /\ p \notin ToSet(f[u].ph_odep)
      BY <1>2 DEF Written
    <2>2. PICK v \in ToSet(order) : ~f[v].completed /\ p \in ToSet(f[v].ph_odep)
      BY <1>1, <2>1 DEF Awaited
    <2>3. v # u
      BY <2>1, <2>2
    <2>4. ~g[v].completed /\ g[v].ph_odep = f[v].ph_odep
      BY <2>3, <2>2 DEF SameRegs
    <2> QED BY <2>2, <2>4
  <1> QED BY <1>2, <1>3, KeptLike

\* Writeback writes the registers of a uop, and a recovery squashes others.
LEMMA RegsWriteback ==
  ASSUME RegsInv, Writeback
  PROVE  RegsKept' /\ PhTyped'
PROOF
  <1> DEFINE u == Oldest
             f == [uop EXCEPT ![u].in_event_queue = FALSE, ![u].completed = TRUE]
             rf == Write(regs, uop[u])
  <1>0. CoreInv /\ PhTyped /\ rob \in Seq(Nat) /\ Increasing(rob)
    BY DEF RegsInv, CoreInv, QueuesOrdered
  <1>1. event_queue # {} /\ memory' = memory
    BY DEF Writeback
  <1>2. u \in event_queue /\ u \in DOMAIN uop /\ ToSet(rob) \subseteq DOMAIN uop
    BY <1>0, <1>1, OldestFacts, CoreFacts DEF Running
  <1>3. \A v \in DOMAIN uop : IsUop(uop[v])
    BY <1>0 DEF CoreInv, UopsTyped
  <1>4. /\ Alike(f, uop) /\ KeepRegs(f, uop)
        /\ \A v \in DOMAIN uop : /\ f[v].in_event_queue <=> (uop[v].in_event_queue /\ v # u)
                                 /\ f[v].completed <=> (uop[v].completed \/ v = u)
    <2>1. uop = [v \in DOMAIN uop |-> uop[v]]
      BY <1>0 DEF CoreInv, UopsTyped
    <2>2. Done(f, uop, u)
      BY DEF Done
    <2> HIDE DEF f
    <2> QED BY <1>2, <1>3, <2>1, <2>2, UopDone, DoneRegs
  <1>5. /\ RecoversAtWriteback(u) => Recover(f, rf, rob, event_queue \ {u}, u)
        /\ ~RecoversAtWriteback(u) =>
              event_queue' = event_queue \ {u} /\ uop' = FreeIfNotQueued(f, {u}) /\ rob' = rob /\ regs' = rf
              /\ UNCHANGED <<fetch_queue, uop_queue, iq, lq, sq>>
    BY DEF Writeback
  <1>6. PICK log, at : Kept(regs, log, uop, rob, at)
    BY DEF RegsInv, RegsKept
  <1>7. rf = Write(regs, uop[u])
    OBVIOUS
  <1> HIDE DEF f, rf, u
  <1>8. Kept(rf, log, f, rob, at)
    <2>1. \A v \in ToSet(rob) : SameRegs(f[v], uop[v])
      BY <1>2, <1>4 DEF KeepRegs
    <2>2. \A v \in ToSet(rob) : v # u => (f[v].completed <=> uop[v].completed)
      BY <1>2, <1>4
    <2> QED BY <1>0, <1>6, <1>7, <2>1, <2>2, KeptWrite
  <1>9. \A v \in DOMAIN uop : PhSeqs(f[v])
    BY <1>0, <1>4, SameRegsOrder DEF PhTyped, KeepRegs
  <1>10. /\ u \notin Waiting /\ u \notin memory
         /\ u \in ToSet(rob) \/ uop[u].specmode
         /\ \A v \in DOMAIN uop : f[v].in_event_queue <=> v \in memory \cup (event_queue \ {u})
    BY <1>0, <1>2, <1>4 DEF CoreInv, Issuing, Flags, Running
  <1>11. CASE RecoversAtWriteback(u)
    <2>1. ~uop[u].specmode
      BY <1>11 DEF RecoversAtWriteback
    <2>2. Recover(f, rf, rob, event_queue \ {u}, u)
      BY <1>5, <1>11
    <2>3. /\ ToSet(rob) \ {u} \subseteq ToSet(rob) /\ event_queue \ {u} \subseteq event_queue
          /\ ToSet(rob) \subseteq ToSet(rob)
          /\ u \in ToSet(rob) \ (Waiting \cup memory \cup (event_queue \ {u}))
          /\ event_queue \subseteq (event_queue \ {u}) \cup {u}
      BY <1>2, <1>10, <2>1
    <2> DEFINE events == event_queue \ {u}
    <2> HIDE DEF events
    <2> QED BY <1>0, <1>1, <1>4, <1>8, <1>9, <1>10, <2>1, <2>2, <2>3, RecoverKept DEF events
  <1>12. CASE ~RecoversAtWriteback(u)
    <2>1. /\ event_queue' = event_queue \ {u} /\ uop' = FreeIfNotQueued(f, {u}) /\ rob' = rob /\ regs' = rf
          /\ UNCHANGED <<fetch_queue, uop_queue, iq, lq, sq>>
      BY <1>5, <1>12
    <2>2. Queued' = Queued /\ ToSet(rob) \subseteq Queued
      BY <2>1 DEF Queued
    <2> DEFINE keep == {v \in DOMAIN f : v \in {u} => v \in Queued' \/ f[v].in_event_queue}
    <2>3. uop' = [v \in keep |-> f[v]] /\ ToSet(rob) \subseteq keep /\ keep \subseteq DOMAIN uop
      <3>1. uop' = Restrict(f, keep)
        BY <2>1 DEF FreeIfNotQueued
      <3>2. DOMAIN f = DOMAIN uop
        BY <1>4 DEF Alike
      <3> QED BY <1>2, <2>2, <3>1, <3>2 DEF Restrict
    <2> HIDE DEF keep
    <2>4. \A v \in DOMAIN uop' : v \in DOMAIN uop /\ uop'[v] = f[v]
      BY <2>3
    <2>5. PhTyped'
      BY <1>9, <2>4 DEF PhTyped
    <2>6. Kept(rf, log, uop', rob, at)
      <3>1. \A v \in ToSet(rob) : uop'[v] = f[v]
        BY <2>3
      <3>2. Books(rf, log) /\ Awaited(rf, f, rob)
        BY <1>8 DEF Kept
      <3>3. Awaited(rf, uop', rob)
        BY <3>1, <3>2 DEF Awaited
      <3>4. \A v \in ToSet(rob) : SameRegs(uop'[v], f[v])
        BY <3>1, SameRegsOrder
      <3> QED BY <1>0, <1>8, <3>2, <3>3, <3>4, KeptLike
    <2>7. Kept(regs', log, uop', rob', at)
      BY <2>1, <2>6
    <2> QED BY <2>5, <2>7 DEF RegsKept
  <1> QED BY <1>11, <1>12

\* Commit lets go of what the head of the ROB kept, and a recovery squashes
\* others.
LEMMA RegsCommit ==
  ASSUME RegsInv, Commit
  PROVE  RegsKept' /\ PhTyped'
PROOF
  <1> DEFINE u == Head(rob)
             rf == CommitRegs(regs, uop[u])
  <1>0. CoreInv /\ PhTyped /\ rob \in Seq(Nat) /\ Increasing(rob)
    BY DEF RegsInv, CoreInv, QueuesOrdered
  <1>1. /\ rob # <<>> /\ uop[u].completed /\ memory' = memory
        /\ RecoversAtCommit(u) => Recover(uop, rf, Tail(rob), event_queue, u)
        /\ ~RecoversAtCommit(u) =>
              /\ rob' = Tail(rob) /\ uop' = FreeIfNotQueued(uop, {u}) /\ regs' = rf
              /\ UNCHANGED <<fetch_queue, uop_queue, iq, lq, sq, event_queue>>
    BY DEF Commit
  <1>2. /\ Tail(rob) \in Seq(Nat) /\ Increasing(Tail(rob)) /\ ToSet(Tail(rob)) = ToSet(rob) \ {u}
        /\ u \in ToSet(rob) /\ ~uop[u].specmode
        /\ u \notin Waiting \cup Running
    BY <1>0, <1>1, HeadFacts
  <1>3. PICK log, at : Kept(regs, log, uop, rob, at)
    BY DEF RegsInv, RegsKept
  <1>4. u = Head(rob) /\ rf = CommitRegs(regs, uop[u])
    OBVIOUS
  <1> HIDE DEF u, rf
  <1>5. /\ Queued = ToSet(rob) \cup FrontEnd /\ ToSet(rob) \subseteq DOMAIN uop /\ u \in DOMAIN uop
        /\ uop[u].specmode = FALSE
    BY <1>0, <1>2, CoreFacts
  <1>6. PICK log2 : Kept(rf, log2, uop, Tail(rob), at)
    BY <1>0, <1>1, <1>3, <1>4, <1>5, KeptCommit
  <1>7. \A v \in DOMAIN uop : PhSeqs(uop[v])
    BY <1>0 DEF PhTyped
  <1>8. CASE RecoversAtCommit(u)
    <2>1. Recover(uop, rf, Tail(rob), event_queue, u)
      BY <1>1, <1>8
    <2>2. Alike(uop, uop)
      BY <1>0 DEF Alike, Like, CoreInv, UopsTyped
    <2>3. /\ ToSet(Tail(rob)) \subseteq ToSet(rob) /\ ToSet(rob) \ {u} \subseteq ToSet(Tail(rob))
          /\ u \in ToSet(rob) \ (Waiting \cup memory \cup event_queue)
          /\ event_queue \subseteq event_queue /\ event_queue \subseteq event_queue \cup {u}
      BY <1>2 DEF Running
    <2>4. \A v \in DOMAIN uop : uop[v].in_event_queue <=> v \in memory \cup event_queue
      BY <1>0 DEF CoreInv, Flags, Running
    <2> DEFINE order == Tail(rob)
    <2> HIDE DEF order
    <2> QED BY <1>0, <1>1, <1>2, <1>6, <1>7, <2>1, <2>2, <2>3, <2>4, RecoverKept DEF order
  <1>9. CASE ~RecoversAtCommit(u)
    <2>1. /\ rob' = Tail(rob) /\ uop' = FreeIfNotQueued(uop, {u}) /\ regs' = rf
          /\ UNCHANGED <<fetch_queue, uop_queue, iq, lq, sq, event_queue>>
      BY <1>1, <1>9
    <2> DEFINE keep == {v \in DOMAIN uop : v \in {u} => v \in Queued' \/ uop[v].in_event_queue}
    <2>2. uop' = [v \in keep |-> uop[v]] /\ ToSet(rob') \subseteq keep /\ keep \subseteq DOMAIN uop
      <3>1. uop' = Restrict(uop, keep)
        BY <2>1 DEF FreeIfNotQueued
      <3> QED BY <1>2, <1>5, <2>1, <3>1 DEF Restrict
    <2> HIDE DEF keep
    <2>3. \A v \in DOMAIN uop' : v \in DOMAIN uop /\ uop'[v] = uop[v]
      BY <2>2
    <2>4. PhTyped'
      BY <1>7, <2>3 DEF PhTyped
    <2>5. Kept(rf, log2, uop', Tail(rob), at)
      <3>1. \A v \in ToSet(Tail(rob)) : uop'[v] = uop[v]
        BY <2>1, <2>2
      <3>2. Books(rf, log2) /\ Awaited(rf, uop, Tail(rob))
        BY <1>6 DEF Kept
      <3>3. Awaited(rf, uop', Tail(rob))
        BY <3>1, <3>2 DEF Awaited
      <3>4. \A v \in ToSet(Tail(rob)) : SameRegs(uop'[v], uop[v])
        BY <3>1, SameRegsOrder
      <3> QED BY <1>2, <1>6, <3>2, <3>3, <3>4, KeptLike
    <2>6. Kept(regs', log2, uop', rob', at)
      BY <2>1, <2>5
    <2> QED BY <2>4, <2>6 DEF RegsKept
  <1> QED BY <1>8, <1>9

\* A step that leaves the registers and the ROB alone.
LEMMA RegsStill ==
  ASSUME RegsInv, rob' = rob, regs' = regs, KeepRegs(uop', uop), DOMAIN uop' = DOMAIN uop,
         \A v \in DOMAIN uop : uop'[v].completed = uop[v].completed
  PROVE  RegsKept' /\ PhTyped'
PROOF
  <1>1. ToSet(rob) \subseteq DOMAIN uop
    BY CoreFacts DEF RegsInv
  <1>2. PhTyped'
    BY SameRegsOrder DEF RegsInv, PhTyped, KeepRegs
  <1>3. \A v \in ToSet(rob) : SameRegs(uop'[v], uop[v]) /\ (uop'[v].completed <=> uop[v].completed)
    BY <1>1 DEF KeepRegs
  <1> QED BY <1>2, <1>3, KeptStill

\* A step that leaves the uops alone, too.
LEMMA SameUops ==
  ASSUME RegsInv, rob' = rob, regs' = regs, uop' = uop
  PROVE  RegsKept' /\ PhTyped'
PROOF
  <1>1. KeepRegs(uop', uop)
    BY SameRegsOrder DEF KeepRegs
  <1> QED BY <1>1, RegsStill

\* A uop that starts to run.
LEMMA RegsMarked ==
  ASSUME RegsInv, rob' = rob, regs' = regs, NEW u \in Waiting, Marked(uop', uop, u)
  PROVE  RegsKept' /\ PhTyped'
PROOF
  <1>1. u \in DOMAIN uop
    BY CoreFacts DEF RegsInv, Queued, Waiting
  <1>2. uop = [v \in DOMAIN uop |-> uop[v]] /\ \A v \in DOMAIN uop : IsUop(uop[v])
    BY DEF RegsInv, CoreInv, UopsTyped
  <1>3. KeepRegs(uop', uop)
    BY <1>1, <1>2, MarkedRegs
  <1>4. Alike(uop', uop) /\ \A v \in DOMAIN uop : uop'[v].completed = uop[v].completed
    BY <1>1, <1>2, UopMarked
  <1> QED BY <1>3, <1>4, RegsStill DEF Alike

\* A system call.
LEMMA RegsTrap ==
  ASSUME RegsInv, Trap
  PROVE  RegsKept' /\ PhTyped'
PROOF
  <1> DEFINE u == Oldest
  <1>1. event_queue # {} /\ Trapped(uop', uop, u) /\ rob' = rob /\ regs' = regs
    BY DEF Trap, Trapped
  <1>2. u \in DOMAIN uop
    BY <1>1, OldestFacts, CoreFacts DEF Running, RegsInv
  <1> HIDE DEF u
  <1>3. uop = [v \in DOMAIN uop |-> uop[v]] /\ \A v \in DOMAIN uop : IsUop(uop[v])
    BY DEF RegsInv, CoreInv, UopsTyped
  <1>4. KeepRegs(uop', uop)
    BY <1>1, <1>2, <1>3, TrappedRegs
  <1>5. Alike(uop', uop) /\ \A v \in DOMAIN uop : uop'[v].completed = uop[v].completed
    BY <1>1, <1>2, <1>3, UopTrapped
  <1> QED BY <1>1, <1>4, <1>5, RegsStill DEF Alike

\* Fetch brings uops that have no registers yet.
LEMMA RegsFetch ==
  ASSUME RegsInv, NEW inst \in Insts, Fetch(inst)
  PROVE  RegsKept' /\ PhTyped'
PROOF
  <1> DEFINE ids == [k \in DOMAIN inst |-> fetched + k]
  <1>1. PICK mispredicted \in {FALSE, Last(inst).op = "ctrl"} :
          uop' = [u \in DOMAIN uop \union ToSet(ids) |->
                    IF u \in DOMAIN uop THEN uop[u] ELSE NewUop(inst, u - fetched, mispredicted)]
    BY DEF Fetch
  <1>2. rob' = rob /\ regs' = regs
    BY DEF Fetch
  <1> HIDE DEF ids
  <1>3. \A v \in DOMAIN uop : uop'[v] = uop[v]
    BY <1>1
  <1>4. ToSet(rob) \subseteq DOMAIN uop
    BY CoreFacts DEF RegsInv
  <1>5. \A k, m : PhSeqs(NewUop(inst, k, m))
    BY DEF NewUop, PhSeqs
  <1>6. PhTyped'
    <2>1. \A v \in DOMAIN uop' : PhSeqs(uop'[v])
      BY <1>1, <1>5 DEF RegsInv, PhTyped
    <2> QED BY <2>1 DEF PhTyped
  <1>7. \A v \in ToSet(rob) : SameRegs(uop'[v], uop[v]) /\ (uop'[v].completed <=> uop[v].completed)
    BY <1>3, <1>4, SameRegsOrder
  <1> QED BY <1>2, <1>6, <1>7, KeptStill

\* Every step keeps RegsInv.
LEMMA RegsStep ==
  ASSUME RegsInv, [Next]_vars
  PROVE  RegsInv'
PROOF
  <1>1. CoreInv'
    BY CoreStep DEF RegsInv
  <1>2. RegsKept' /\ PhTyped'
    <2>1. CASE Decode
      BY <2>1, SameUops DEF Decode
    <2>2. CASE \E u \in memory : MemoryReturns(u)
      BY <2>2, SameUops DEF MemoryReturns
    <2>3. CASE Issue
      <3>1. ASSUME NEW u \in iq, IssueIQ(u)
            PROVE  RegsKept' /\ PhTyped'
        BY <3>1, RegsMarked DEF IssueIQ, Waiting, Marked
      <3>2. ASSUME NEW u \in lq, IssueLQ(u)
            PROVE  RegsKept' /\ PhTyped'
        BY <3>2, RegsMarked DEF IssueLQ, Access, Waiting, Marked
      <3>3. ASSUME NEW u \in sq, IssueSQ(u)
            PROVE  RegsKept' /\ PhTyped'
        BY <3>3, RegsMarked DEF IssueSQ, Access, Waiting, Marked
      <3> QED BY <2>3, <3>1, <3>2, <3>3 DEF Issue
    <2>4. CASE Trap
      BY <2>4, RegsTrap
    <2>5. CASE Commit
      BY <2>5, RegsCommit
    <2>6. CASE Writeback
      BY <2>6, RegsWriteback
    <2>7. CASE Dispatch
      BY <2>7, RegsDispatch
    <2>8. CASE \E inst \in Insts : Fetch(inst)
      BY <2>8, RegsFetch
    <2>9. CASE UNCHANGED vars
      BY <2>9, SameUops DEF vars
    <2> QED BY <2>1, <2>2, <2>3, <2>4, <2>5, <2>6, <2>7, <2>8, <2>9 DEF Next, Advance
  <1> QED BY <1>1, <1>2 DEF RegsInv

\* RegsInv holds always: the registers are what the renamings of the uops in
\* the ROB, in program order, make of them.
THEOREM RegsAlways == Spec => []RegsInv
PROOF
  BY RegsInit, RegsStep, PTL DEF Spec

\* The outputs of the uops in the ROB that keep p.
KeptInRob(p) ==
  {w \in ToSet(rob) \X (1..MaxOutputs) :
     w[2] \in DOMAIN uop[w[1]].ph_oodep /\ uop[w[1]].ph_oodep[w[2]] = p}

\* The log read off the ROB.
LEMMA LogOfRob ==
  ASSUME RegsInv, NEW log, NEW at, Kept(regs, log, uop, rob, at)
  PROVE  /\ DOMAIN log \subseteq ToSet(rob) \X (1 .. MaxOutputs)
         /\ \A u \in ToSet(rob) : \A k \in 1 .. MaxOutputs :
              <<u, k>> \in DOMAIN log <=> k \in DOMAIN uop[u].ph_oodep
         /\ \A u \in ToSet(rob) : DOMAIN uop[u].ph_odep = DOMAIN uop[u].ph_oodep
         /\ \A w \in DOMAIN log : /\ log[w].new = uop[w[1]].ph_odep[w[2]]
                                  /\ log[w].old = uop[w[1]].ph_oodep[w[2]]
                                  /\ log[w].to = Resolve(uop[w[1]].uinst.odep[w[2]], at[w[1]])
                                  /\ w[1] \in ToSet(rob) /\ w[2] \in DOMAIN uop[w[1]].ph_oodep
                                  /\ w = <<w[1], w[2]>>
PROOF
  <1>1. Entered(log, uop, rob, at) /\ DOMAIN log \subseteq OutputIds
    BY DEF Kept, Books, Logged, IsLog
  <1>2. ASSUME NEW u \in ToSet(rob)
        PROVE  /\ LogHas(log, u, uop[u]) /\ NamedAt(log, u, uop[u], at[u])
               /\ Len(uop[u].ph_odep) \in Nat /\ Len(uop[u].ph_odep) <= MaxOutputs
               /\ DOMAIN uop[u].ph_odep = 1 .. Len(uop[u].ph_odep)
               /\ DOMAIN uop[u].ph_oodep = 1 .. Len(uop[u].ph_odep)
    <2>1. u \in DOMAIN uop /\ IsUop(uop[u])
      BY CoreFacts DEF RegsInv, CoreInv, UopsTyped
    <2>2. Renamed(uop[u]) /\ LogHas(log, u, uop[u]) /\ NamedAt(log, u, uop[u], at[u])
      BY <1>1 DEF Entered
    <2>3. Len(uop[u].ph_odep) = Len(uop[u].uinst.odep)
      BY <2>2 DEF Renamed
    <2> QED BY <2>1, <2>2, <2>3, UinstFacts, RenamedFacts
  <1>3. MaxOutputs \in Nat
    BY FilesFit
  <1>4. ASSUME NEW w \in DOMAIN log
        PROVE  /\ w = <<w[1], w[2]>> /\ w[1] \in ToSet(rob) /\ w[2] \in 1 .. MaxOutputs
               /\ w[2] \in 1 .. Len(uop[w[1]].ph_odep)
    <2>1. w = <<w[1], w[2]>> /\ w[1] \in ToSet(rob)
      BY <1>1, OutputIdFacts DEF Entered
    <2>2. w[2] \in 1 .. Len(uop[w[1]].ph_odep)
      BY <1>2, <2>1 DEF LogHas
    <2> QED BY <1>2, <1>3, <2>1, <2>2
  <1>5. ASSUME NEW u \in ToSet(rob), NEW k \in 1 .. MaxOutputs
        PROVE  <<u, k>> \in DOMAIN log <=> k \in DOMAIN uop[u].ph_oodep
    <2>1. <<u, k>>[1] = u /\ <<u, k>>[2] = k
      OBVIOUS
    <2>2. <<u, k>> \in DOMAIN log => k \in 1 .. Len(uop[u].ph_odep)
      BY <1>4, <2>1
    <2>3. k \in 1 .. Len(uop[u].ph_odep) => <<u, k>> \in DOMAIN log
      BY <1>2 DEF LogHas
    <2> QED BY <1>2, <2>2, <2>3
  <1>6. ASSUME NEW w \in DOMAIN log
        PROVE  /\ log[w].new = uop[w[1]].ph_odep[w[2]]
               /\ log[w].old = uop[w[1]].ph_oodep[w[2]]
               /\ log[w].to = Resolve(uop[w[1]].uinst.odep[w[2]], at[w[1]])
    BY <1>2, <1>4 DEF LogHas, NamedAt
  <1>7. DOMAIN log \subseteq ToSet(rob) \X (1 .. MaxOutputs)
    <2> SUFFICES ASSUME NEW w \in DOMAIN log PROVE w \in ToSet(rob) \X (1 .. MaxOutputs)
      OBVIOUS
    <2> QED BY <1>4
  <1> QED BY <1>2, <1>4, <1>5, <1>6, <1>7

\* It keeps what the uops in the ROB keep.
LEMMA KeptByIs ==
  ASSUME RegsInv, NEW log, NEW at, Kept(regs, log, uop, rob, at), NEW p
  PROVE  KeptBy(log, p) = KeptInRob(p)
PROOF
  <1> SUFFICES ASSUME NEW w
               PROVE  w \in KeptBy(log, p) <=> w \in KeptInRob(p)
    OBVIOUS
  <1>1. w \in KeptBy(log, p) => w \in KeptInRob(p)
    BY LogOfRob DEF KeptBy, KeptInRob
  <1>2. ASSUME w \in KeptInRob(p)
        PROVE  w \in KeptBy(log, p)
    <2>1. /\ w \in ToSet(rob) \X (1 .. MaxOutputs) /\ w[2] \in DOMAIN uop[w[1]].ph_oodep
          /\ uop[w[1]].ph_oodep[w[2]] = p
      BY <1>2 DEF KeptInRob
    <2>2. w = <<w[1], w[2]>> /\ w[1] \in ToSet(rob) /\ w[2] \in 1 .. MaxOutputs
      BY <2>1
    <2>3. w \in DOMAIN log
      BY <2>1, <2>2, LogOfRob
    <2>4. log[w].old = p
      BY <2>1, <2>3, LogOfRob
    <2> QED BY <2>3, <2>4 DEF KeptBy
  <1> QED BY <1>1, <1>2

\* busy_count is the number of names mapped to a register and of uops in the
\* ROB that keep it, and the free lists have the registers that are not busy,
\* each once: none leaks and none is handed out twice, through any sequence of
\* renamings, commits and squashes.
THEOREM RegistersAlwaysAccounted == Spec => []RegistersAccounted
PROOF
  <1>1. RegsInv => RegistersAccounted
    <2> SUFFICES ASSUME RegsInv PROVE RegistersAccounted
      OBVIOUS
    <2>1. PICK log, at : Kept(regs, log, uop, rob, at)
      BY DEF RegsInv, RegsKept
    <2>2. /\ BusyCounted(regs.rat, regs.busy, log) /\ FreeUnused(regs.busy, regs.free)
          /\ Awaited(regs, uop, rob)
      BY <2>1 DEF Kept, Books, Logged
    <2>3. ASSUME NEW p \in Phys
          PROVE  regs.busy[p] = Cardinality({l \in Logical : regs.rat[l] = p})
                   + Cardinality({w \in ToSet(rob) \X (1..MaxOutputs) :
                        w[2] \in DOMAIN uop[w[1]].ph_oodep /\ uop[w[1]].ph_oodep[w[2]] = p})
      <3>1. KeptBy(log, p) = KeptInRob(p)
        BY <2>1, KeptByIs
      <3>2. regs.busy[p] = Cardinality(MappedTo(regs.rat, p)) + Cardinality(KeptInRob(p))
        BY <2>2, <3>1 DEF BusyCounted
      <3> QED BY <3>2 DEF MappedTo, KeptInRob
    <2> QED BY <2>2, <2>3 DEF RegistersAccounted, FreeUnused, Awaited
  <1> QED BY <1>1, RegsAlways, PTL

\* No assertion, panic or "cannot happen" of the register file fails: a request
\* finds a free register, what is let go was busy and is not awaited, only the
\* program commits and only the wrong path is undone.
THEOREM HandlersNeverAbort == Spec => []HandlersDoNotAbort
PROOF
  <1>1. RegsInv => HandlersDoNotAbort
    <2> SUFFICES ASSUME RegsInv PROVE HandlersDoNotAbort
      OBVIOUS
    <2>0. CoreInv /\ PhTyped
      BY DEF RegsInv
    <2>1. PICK log, at : Kept(regs, log, uop, rob, at)
      BY DEF RegsInv, RegsKept
    <2>2. /\ BusyCounted(regs.rat, regs.busy, log) /\ FreeUnused(regs.busy, regs.free)
          /\ regs \in RegFiles /\ regs.ok /\ IsLog(log)
      BY <2>1 DEF Kept, Books, Logged
    <2>3. /\ regs.rat \in [Logical -> Phys] /\ regs.busy \in [Phys -> Int]
          /\ regs.pending \in [Phys -> BOOLEAN] /\ regs.top \in 0 .. (StackDepth - 1)
      BY <2>2, RegFileIs DEF RegFiles
    <2>4. regs.busy \in [Phys -> Nat]
      <3>1. ASSUME NEW p \in Phys
            PROVE  regs.busy[p] \in Nat
        <4>1. Cardinality(MappedTo(regs.rat, p)) \in Nat /\ Cardinality(KeptBy(log, p)) \in Nat
          BY <2>2, MappedFinite, KeptFinite DEF IsLog
        <4> QED BY <2>2, <4>1 DEF BusyCounted
      <3> QED BY <2>3, <3>1
    <2>5. \A f \in File : ToSet(regs.free[f]) \subseteq {p \in Phys : FileOf(p) = f}
      BY <2>2 DEF FreeUnused
    <2>6. ASSUME NEW u \in DOMAIN uop
          PROVE  /\ \E inst \in Insts : uop[u].uinst \in ToSet(inst)
                 /\ {uop[u].specmode, uop[u].mispredicted, uop[u].in_event_queue, uop[u].completed,
                     uop[u].syscall_ready} \subseteq BOOLEAN
                 /\ ToSet(uop[u].ph_odep) \union ToSet(uop[u].ph_oodep) \subseteq Phys
      <3>1. IsUop(uop[u]) /\ PhSeqs(uop[u])
        BY <2>0 DEF CoreInv, UopsTyped, PhTyped
      <3>2. \A q \in Seq(Phys) : ToSet(q) \subseteq Phys
        BY DEF ToSet
      <3> QED BY <3>1, <3>2 DEF IsUop, Fields, PhSeqs
    <2>7. TypeOK
      BY <2>0, <2>3, <2>4, <2>5, <2>6 DEF TypeOK, CoreInv, UopsTyped
    <2>8. sq \subseteq ToSet(rob)
      BY <2>0 DEF CoreInv, Issuing, Waiting
    <2>9. rob # <<>> => ~(uop[Head(rob)].completed /\ uop[Head(rob)].specmode)
      BY <2>0, HeadFacts
    <2>10. \A u \in event_queue : ~uop[u].completed
      BY <2>0, CoreFacts DEF CoreInv, Flags, Running
    <2> QED BY <2>0, <2>2, <2>7, <2>8, <2>9, <2>10 DEF HandlersDoNotAbort, CoreInv
  <1> QED BY <1>1, RegsAlways, PTL

(***************************************************************************)
(* Renaming follows the program                                            *)
(***************************************************************************)

\* The top of the FP stack before the uops in q, last to first, were renamed.
TopBehind(q) == FoldLeft(LAMBDA top, u : (top + StackDepth - Shift(Op(u))) % StackDepth, regs.top, q)

\* One step of it.
StepBack(top, u) == (top + StackDepth - Shift(Op(u))) % StackDepth

\* The tops of the FP stack.
Tops == 0 .. (StackDepth - 1)

\* The tops in between.
TopChain(h, n, q) ==
  /\ h \in [0 .. n -> Tops] /\ h[0] = regs.top /\ h[n] = TopBehind(q)
  /\ \A k \in 1 .. n : h[k] = StepBack(h[k - 1], q[k])

\* The fold over the uops goes uop by uop.
LEMMA TopFold ==
  ASSUME regs.top \in 0 .. (StackDepth - 1), NEW q \in Seq(Nat)
  PROVE  \E h : TopChain(h, Len(q), q)
PROOF
  <1> DEFINE n == Len(q)
             step == [k \in 1 .. n |-> [d \in Tops |-> StepBack(d, q[k])]]
             Folds(iter) == iter = [s \in SUBSET (DOMAIN q) |->
               IF s = {} THEN regs.top ELSE StepBack(iter[s \ {Max(s)}], q[Max(s)])]
             f == CHOOSE iter : Folds(iter)
  <1>1. TopBehind(q) = f[DOMAIN q]
    BY Zenon DEF TopBehind, StepBack, FoldLeft, MapThenFoldSet
  <1>0. regs.top \in Tops
    BY DEF Tops
  <1>2. n \in Nat /\ DOMAIN q = 1 .. n
    BY LenProperties
  <1>3. step \in [1 .. n -> [Tops -> Tops]]
    <2>1. \A k \in 1 .. n : \A d \in Tops : StepBack(d, q[k]) \in Tops
      BY ShiftBack DEF Tops, StepBack
    <2> QED BY <2>1
  <1>4. \A k \in 1 .. n : \A d \in Tops : step[k][d] = StepBack(d, q[k])
    OBVIOUS
  <1> HIDE DEF step, n
  <1>5. PICK g : BuiltUp(n, Tops, regs.top, step, g)
    BY <1>0, <1>2, <1>3, FromBelow
  <1>6. Folds(g)
    <2>1. ASSUME NEW s \in SUBSET (1 .. n)
          PROVE  g[s] = IF s = {} THEN regs.top ELSE StepBack(g[s \ {Max(s)}], q[Max(s)])
      <3>1. CASE s = {}
        BY <1>5, <3>1 DEF BuiltUp
      <3>2. CASE s # {}
        <4>1. PICK k \in 1 .. n : /\ Max(s) = k /\ s \ {k} \in SUBSET (1 .. (k - 1))
                                  /\ s = (s \ {k}) \cup {k} /\ s \ {k} \in SUBSET (1 .. n)
          BY <1>2, <3>2, TopCut
        <4> DEFINE t == s \ {k}
        <4>2. g[t] \in Tops
          BY <1>5, <4>1 DEF BuiltUp
        <4>3. g[t \cup {k}] = step[k][g[t]]
          BY <1>5, <4>1 DEF BuiltUp
        <4>4. g[s] = StepBack(g[t], q[k])
          BY <1>4, <4>1, <4>2, <4>3
        <4> QED BY <1>2, <3>2, <4>1, <4>4
      <3> QED BY <3>1, <3>2
    <2>2. g = [s \in SUBSET (1 .. n) |-> g[s]]
      BY <1>5 DEF BuiltUp
    <2> QED BY <1>2, <2>1, <2>2
  <1>7. Folds(f)
    <2>1. \E iter : Folds(iter)
      BY <1>6
    <2> QED BY <2>1, Zenon
  <1> HIDE DEF f
  <1>70. \A s \in SUBSET (DOMAIN q) : f[s] = IF s = {} THEN regs.top ELSE StepBack(f[s \ {Max(s)}], q[Max(s)])
    BY <1>7
  <1> HIDE DEF Folds
  <1>8. f[{}] = regs.top
    BY <1>70
  <1>9. ASSUME NEW k \in 1 .. n, f[1 .. (k - 1)] \in Tops
        PROVE  f[1 .. k] = step[k][f[1 .. (k - 1)]]
    <2>1. Max(1 .. k) = k /\ (1 .. k) \ {k} = 1 .. (k - 1) /\ 1 .. k # {}
      <3>1. k \in Nat /\ k # 0
        BY <1>2
      <3> QED BY <3>1, TopInterval
    <2>2. 1 .. k \in SUBSET (DOMAIN q)
      BY <1>2
    <2>3. f[1 .. k] = StepBack(f[1 .. (k - 1)], q[k])
      BY <1>2, <1>70, <2>1, <2>2
    <2> QED BY <1>4, <1>9, <2>3
  <1>10. Follows(f, n, Tops, step)
    BY <1>9 DEF Follows
  <1>11. PICK h : Chain(h, n, Tops, regs.top, step) /\ h[n] = f[1 .. n]
    <2>1. n \in Nat
      BY <1>2
    <2>2. Reached(n, Tops, regs.top, step, f)
      BY <1>0, <1>3, <1>8, <1>10, <2>1, StepByStep
    <2> QED BY <2>2 DEF Reached
  <1>12. /\ h \in [0 .. n -> Tops] /\ h[0] = regs.top
         /\ \A k \in 1 .. n : h[k] = StepBack(h[k - 1], q[k])
    <2>1. h \in [0 .. n -> Tops] /\ h[0] = regs.top /\ \A k \in 1 .. n : h[k] = step[k][h[k - 1]]
      BY <1>11 DEF Chain
    <2>2. ASSUME NEW k \in 1 .. n
          PROVE  h[k] = StepBack(h[k - 1], q[k])
      <3>1. k - 1 \in 0 .. n
        BY <1>2
      <3>2. h[k - 1] \in Tops
        BY <2>1, <3>1
      <3>3. step[k][h[k - 1]] = StepBack(h[k - 1], q[k])
        BY <1>4, <3>2
      <3> QED BY <2>1, <3>3
    <2> QED BY <2>1, <2>2
  <1>13. TopChain(h, n, q)
    BY <1>1, <1>2, <1>11, <1>12 DEF TopChain
  <1> QED BY <1>13 DEF n

\* The end of a queue.
LEMMA TailFrom ==
  ASSUME NEW order \in Seq(Nat), NEW i \in Nat, NEW m \in Nat, i + m = Len(order)
  PROVE  LET t == SubSeq(order, i + 1, Len(order))
         IN t \in Seq(Nat) /\ Len(t) = m /\ \A k \in 1 .. m : t[k] = order[i + k]
PROOF
  <1>1. Len(order) \in Nat /\ i + 1 \in Nat
    OBVIOUS
  <1> QED BY <1>1

\* q has the m members of order behind the first i, last to first.
Mirrors(q, order, i, m, n) ==
  q \in Seq(Nat) /\ Len(q) = m /\ \A k \in 1 .. m : q[k] = order[n + 1 - k]

\* It is what TopAfter goes through.
LEMMA ReversedTail ==
  ASSUME NEW order \in Seq(Nat), NEW i \in Nat, NEW m \in Nat, NEW n \in Nat, n = Len(order), i + m = n,
         NEW q, q = Reverse(SubSeq(order, i + 1, Len(order)))
  PROVE  Mirrors(q, order, i, m, n)
PROOF
  <1> DEFINE t == SubSeq(order, i + 1, Len(order))
  <1>1. t \in Seq(Nat) /\ Len(t) = m /\ \A k \in 1 .. m : t[k] = order[i + k]
    BY TailFrom
  <1>2. q = [k \in 1 .. m |-> t[(m - k) + 1]]
    BY <1>1, Zenon DEF Reverse, t
  <1> HIDE DEF t
  <1>3. DOMAIN t = 1 .. m
    BY <1>1, LenProperties
  <1>4. ASSUME NEW k \in 1 .. m
        PROVE  q[k] = order[n + 1 - k] /\ q[k] \in Nat
    <2>1. (m - k) + 1 \in 1 .. m /\ i + ((m - k) + 1) = n + 1 - k
      OBVIOUS
    <2>2. t[(m - k) + 1] = order[i + ((m - k) + 1)] /\ t[(m - k) + 1] \in Nat
      BY <1>1, <1>3, <2>1
    <2> QED BY <1>2, <2>1, <2>2
  <1>5. q \in Seq(Nat) /\ Len(q) = m
    BY <1>2, <1>4
  <1> QED BY <1>4, <1>5 DEF Mirrors

\* The top the model computes for a place in the ROB is the one its uop was
\* renamed at.
LEMMA TopAfterIs ==
  ASSUME RegsInv, NEW log, NEW at, Kept(regs, log, uop, rob, at), NEW i \in DOMAIN rob
  PROVE  TopAfter(i) = at[rob[i]]
PROOF
  <1> DEFINE q == Reverse(SubSeq(rob, i + 1, Len(rob)))
  <1>1. PICK N \in Nat : N = Len(rob) /\ DOMAIN rob = 1 .. N /\ rob \in Seq(Nat)
    BY LenProperties DEF RegsInv, CoreInv, QueuesOrdered
  <1>12. PICK m \in Nat : i + m = N
    <2>1. N - i \in Nat /\ i + (N - i) = N
      BY <1>1
    <2> QED BY <2>1
  <1>13. i \in Nat /\ i \in 1 .. N
    BY <1>1
  <1>2. regs.top \in 0 .. (StackDepth - 1) /\ Stacked(regs.top, uop, rob, at)
    BY BooksFacts DEF Kept
  <1>3. q \in Seq(Nat) /\ Len(q) = m /\ \A k \in 1 .. m : q[k] = rob[N + 1 - k]
    <2>1. q = Reverse(SubSeq(rob, i + 1, Len(rob)))
      OBVIOUS
    <2> HIDE DEF q
    <2>2. Mirrors(q, rob, i, m, N)
      BY <1>1, <1>12, <1>13, <2>1, ReversedTail
    <2> QED BY <2>2 DEF Mirrors
  <1>4. TopAfter(i) = TopBehind(q)
    BY Zenon DEF TopAfter, TopBehind
  <1> HIDE DEF q
  <1>5. PICK h : TopChain(h, m, q)
    <2>1. \E h : TopChain(h, Len(q), q)
      BY <1>2, <1>3, TopFold
    <2> QED BY <1>3, <2>1
  <1>6. /\ h[0] = regs.top /\ h[m] = TopAfter(i)
        /\ \A k \in 1 .. m : h[k] = StepBack(h[k - 1], q[k])
    BY <1>4, <1>5 DEF TopChain
  <1> DEFINE P(k) == h[k] = at[rob[N - k]]
             S == {k \in 0 .. m : P(k)}
  <1>7. \A j \in 1 .. N : at[rob[j]] = IF j = N THEN regs.top ELSE TopBefore(at[rob[j + 1]], uop[rob[j + 1]])
    BY <1>1, <1>2 DEF Stacked
  <1>8. P(0)
    <2>1. N - 0 = N /\ N \in 1 .. N
      BY <1>13
    <2>2. at[rob[N]] = regs.top
      BY <1>7, <2>1
    <2> QED BY <1>6, <2>1, <2>2
  <1>9. ASSUME NEW k \in 1 .. m, P(k - 1)
        PROVE  P(k)
    <2>1. N - k \in 1 .. N /\ N - k # N /\ (N - k) + 1 = N + 1 - k /\ N - (k - 1) = N + 1 - k
      BY <1>12, <1>13
    <2>2. h[k - 1] = at[rob[N + 1 - k]]
      BY <1>9, <2>1
    <2>3. h[k] = StepBack(h[k - 1], q[k])
      BY <1>6
    <2>4. q[k] = rob[N + 1 - k]
      BY <1>3
    <2>5. at[rob[N - k]] = TopBefore(at[rob[N + 1 - k]], uop[rob[N + 1 - k]])
      BY <1>7, <2>1
    <2>6. h[k] = at[rob[N - k]]
      BY <2>2, <2>3, <2>4, <2>5 DEF TopBefore, StepBack, Op
    <2> QED BY <2>6
  <1> HIDE DEF P
  <1>10. 0 \in S /\ \A k \in 1 .. m : k - 1 \in S => k \in S
    <2>1. ASSUME NEW k \in 1 .. m, k - 1 \in S
          PROVE  k \in S
      <3>1. P(k - 1) /\ k \in 0 .. m
        BY <2>1
      <3> QED BY <1>9, <3>1
    <2>2. 0 \in S
      BY <1>8
    <2> QED BY <2>1, <2>2
  <1>11. P(m)
    <2>1. m \in Nat
      OBVIOUS
    <2> HIDE DEF S
    <2>2. \A k \in 0 .. m : k \in S
      BY ONLY <1>10, <2>1, UpTo
    <2>3. m \in S
      BY <2>1, <2>2
    <2> QED BY <2>3 DEF S
  <1>14. N - m = i
    BY <1>12, <1>13
  <1> QED BY <1>6, <1>11, <1>14 DEF P

\* Outputs of uops in the ROB, by place; the log has them by uop.
Places == (DOMAIN rob) \X (1 .. MaxOutputs)
\* The name of a place in the log.
LogId(w) == <<rob[w[1]], w[2]>>

\* A place is a uop in the ROB and the number of an output.
LEMMA PlaceFacts ==
  ASSUME RegsInv, NEW w \in Places
  PROVE  /\ w = <<w[1], w[2]>> /\ w[1] \in DOMAIN rob /\ w[1] \in Nat /\ w[2] \in Nat /\ w[2] \in 1 .. MaxOutputs
         /\ rob[w[1]] \in ToSet(rob) /\ rob[w[1]] \in Nat
         /\ LogId(w)[1] = rob[w[1]] /\ LogId(w)[2] = w[2]
PROOF
  <1>1. rob \in Seq(Nat) /\ DOMAIN rob = 1 .. Len(rob) /\ Len(rob) \in Nat /\ MaxOutputs \in Nat
    BY LenProperties, FilesFit DEF RegsInv, CoreInv, QueuesOrdered
  <1>2. w = <<w[1], w[2]>> /\ w[1] \in DOMAIN rob /\ w[2] \in 1 .. MaxOutputs
    BY DEF Places
  <1>3. rob[w[1]] \in ToSet(rob) /\ rob[w[1]] \in Nat
    BY <1>1, <1>2 DEF ToSet
  <1>4. LogId(w)[1] = rob[w[1]] /\ LogId(w)[2] = w[2]
    BY DEF LogId
  <1> QED BY <1>1, <1>2, <1>3, <1>4

\* The ROB is in the order of the ids.
LEMMA PlaceOrder ==
  ASSUME RegsInv, NEW i \in DOMAIN rob, NEW j \in DOMAIN rob
  PROVE  /\ rob[i] \in Nat /\ rob[j] \in Nat /\ i \in Nat /\ j \in Nat
         /\ i < j <=> rob[i] < rob[j]
         /\ i = j <=> rob[i] = rob[j]
PROOF
  <1>1. rob \in Seq(Nat) /\ DOMAIN rob = 1 .. Len(rob) /\ Len(rob) \in Nat /\ Increasing(rob)
    BY LenProperties DEF RegsInv, CoreInv, QueuesOrdered
  <1>2. rob[i] \in Nat /\ rob[j] \in Nat /\ i \in Nat /\ j \in Nat
    BY <1>1
  <1>3. (i < j => rob[i] < rob[j]) /\ (j < i => rob[j] < rob[i])
    BY <1>1 DEF Increasing
  <1> QED BY <1>2, <1>3

\* The two orders are the same.
LEMMA BeforeIs ==
  ASSUME RegsInv, NEW v \in Places, NEW w \in Places
  PROVE  /\ Before(v, w) => Earlier(LogId(v), LogId(w))
         /\ Earlier(LogId(v), LogId(w)) => Before(v, w)
         /\ ~(Before(v, w) /\ Before(w, v))
         /\ ~Before(v, v)
         /\ v[1] < w[1] => rob[v[1]] < rob[w[1]]
         /\ rob[v[1]] < rob[w[1]] => v[1] < w[1]
PROOF
  <1>1. v[1] \in DOMAIN rob /\ w[1] \in DOMAIN rob /\ v[2] \in Nat /\ w[2] \in Nat
        /\ LogId(v)[1] = rob[v[1]] /\ LogId(v)[2] = v[2]
        /\ LogId(w)[1] = rob[w[1]] /\ LogId(w)[2] = w[2]
    BY PlaceFacts
  <1>2. /\ v[1] \in Nat /\ w[1] \in Nat
        /\ v[1] < w[1] <=> rob[v[1]] < rob[w[1]]
        /\ v[1] = w[1] <=> rob[v[1]] = rob[w[1]]
    BY <1>1, PlaceOrder
  <1> QED BY <1>1, <1>2 DEF Before, Earlier

\* A set of outputs has a last one.
LEMMA LastOutput ==
  ASSUME RegsInv, NEW W, W \subseteq Places, W # {}
  PROVE  /\ LastOf(W) \in W
         /\ \A v \in W : v = LastOf(W) \/ Before(v, LastOf(W))
PROOF
  <1>1. PICK n \in Nat : DOMAIN rob = 1 .. n
    BY LenProperties DEF RegsInv, CoreInv, QueuesOrdered
  <1>2. MaxOutputs \in Nat
    BY FilesFit
  <1>3. \A w \in W : w = <<w[1], w[2]>> /\ w[1] \in 1 .. n /\ w[2] \in 1 .. MaxOutputs
    BY <1>1, PlaceFacts
  <1> DEFINE s == {w[1] : w \in W}
  <1>4. PICK i \in s : \A j \in s : j <= i
    <2>1. s \in SUBSET (1 .. n) /\ s # {}
      BY <1>3
    <2> HIDE DEF s
    <2> QED BY <2>1, TopOf
  <1> DEFINE V == {w \in W : w[1] = i}
             t == {w[2] : w \in V}
  <1>5. PICK k \in t : \A j \in t : j <= k
    <2>1. t \in SUBSET (1 .. MaxOutputs) /\ t # {}
      BY <1>3, <1>4
    <2> HIDE DEF t
    <2> QED BY <1>2, <2>1, TopOf
  <1>6. PICK w \in W : w[1] = i /\ w[2] = k
    BY <1>5
  <1>7. ASSUME NEW v \in W, v # w
        PROVE  Before(v, w)
    <2>1. v[1] <= i /\ (v[1] = i => v[2] <= k)
      BY <1>4, <1>5
    <2>2. /\ v = <<v[1], v[2]>> /\ w = <<w[1], w[2]>>
          /\ v[1] \in Nat /\ w[1] \in Nat /\ v[2] \in Nat /\ w[2] \in Nat
      BY <1>3
    <2>3. v[1] # w[1] \/ v[2] # w[2]
      BY <1>7, <2>2
    <2> QED BY <1>6, <2>1, <2>2, <2>3 DEF Before
  <1>8. \E x \in W : \A v \in W \ {x} : Before(v, x)
    BY <1>7
  <1> HIDE DEF s, t, V
  <1>9. LastOf(W) \in W /\ \A v \in W \ {LastOf(W)} : Before(v, LastOf(W))
    BY <1>8, Zenon DEF LastOf
  <1> QED BY <1>9

\* What an output is in the log.
LEMMA WriterIs ==
  ASSUME RegsInv, NEW log, NEW at, Kept(regs, log, uop, rob, at), NEW l, NEW w
  PROVE  w \in Writers(l) <=> w \in Places /\ LogId(w) \in DOMAIN log /\ log[LogId(w)].to = l
PROOF
  <1>1. ASSUME w \in Places
        PROVE  /\ LogId(w) \in DOMAIN log <=> w[2] \in DOMAIN uop[rob[w[1]]].ph_odep
               /\ LogId(w) \in DOMAIN log =>
                    log[LogId(w)].to = Resolve(uop[rob[w[1]]].uinst.odep[w[2]], TopAfter(w[1]))
    <2>1. /\ w[1] \in DOMAIN rob /\ rob[w[1]] \in ToSet(rob) /\ w[2] \in 1 .. MaxOutputs
          /\ LogId(w)[1] = rob[w[1]] /\ LogId(w)[2] = w[2] /\ LogId(w) = <<rob[w[1]], w[2]>>
      BY <1>1, PlaceFacts DEF LogId
    <2>2. TopAfter(w[1]) = at[rob[w[1]]]
      BY <2>1, TopAfterIs
    <2>3. <<rob[w[1]], w[2]>> \in DOMAIN log <=> w[2] \in DOMAIN uop[rob[w[1]]].ph_odep
      BY <2>1, LogOfRob
    <2>4. LogId(w) \in DOMAIN log =>
            log[LogId(w)].to = Resolve(uop[LogId(w)[1]].uinst.odep[LogId(w)[2]], at[LogId(w)[1]])
      BY LogOfRob
    <2> QED BY <2>1, <2>2, <2>3, <2>4
  <1>2. w \in Writers(l) <=> /\ w \in Places /\ w[2] \in DOMAIN uop[rob[w[1]]].ph_odep
                             /\ Resolve(uop[rob[w[1]]].uinst.odep[w[2]], TopAfter(w[1])) = l
    BY DEF Writers, Places
  <1> QED BY <1>1, <1>2

\* The registers of an output.
LEMMA OutputIs ==
  ASSUME RegsInv, NEW log, NEW at, Kept(regs, log, uop, rob, at), NEW w \in Places, LogId(w) \in DOMAIN log
  PROVE  log[LogId(w)].new = Output(w) /\ log[LogId(w)].old = uop[rob[w[1]]].ph_oodep[w[2]]
PROOF
  <1>1. LogId(w)[1] = rob[w[1]] /\ LogId(w)[2] = w[2]
    BY PlaceFacts
  <1>2. /\ log[LogId(w)].new = uop[LogId(w)[1]].ph_odep[LogId(w)[2]]
        /\ log[LogId(w)].old = uop[LogId(w)[1]].ph_oodep[LogId(w)[2]]
    BY LogOfRob
  <1> QED BY <1>1, <1>2 DEF Output

\* Every output of the log has its place.
LEMMA PlaceOfLog ==
  ASSUME RegsInv, NEW log, NEW at, Kept(regs, log, uop, rob, at), NEW x \in DOMAIN log
  PROVE  \E w \in Places : LogId(w) = x
PROOF
  <1>1. x[1] \in ToSet(rob) /\ x = <<x[1], x[2]>> /\ x[2] \in 1 .. MaxOutputs
    BY LogOfRob
  <1>2. PICK i \in DOMAIN rob : rob[i] = x[1]
    BY <1>1 DEF ToSet
  <1>3. <<i, x[2]>> \in Places /\ LogId(<<i, x[2]>>) = x
    BY <1>1, <1>2 DEF Places, LogId
  <1> QED BY <1>3

\* The map names the youngest output.
LEMMA MapNamesLast ==
  ASSUME RegsInv, NEW log, NEW at, Kept(regs, log, uop, rob, at), NEW l \in Logical, Writers(l) # {}
  PROVE  regs.rat[l] = Output(LastOf(Writers(l)))
PROOF
  <1> DEFINE W == Writers(l)
             w == LastOf(W)
             x == LogId(w)
  <1>1. W \subseteq Places
    BY DEF Writers, Places
  <1>2. w \in W /\ \A v \in W : v = w \/ Before(v, w)
    BY <1>1, LastOutput
  <1> HIDE DEF w
  <1>3. w \in Places /\ x \in DOMAIN log /\ log[x].to = l
    BY <1>2, WriterIs
  <1>4. ASSUME NEW y \in After(log, x)
        PROVE  FALSE
    <2>1. y \in DOMAIN log /\ Earlier(x, y) /\ log[y].to = l
      BY <1>3 DEF After
    <2>2. PICK v \in Places : LogId(v) = y
      BY <2>1, PlaceOfLog
    <2>3. v \in W
      BY <2>1, <2>2, WriterIs
    <2>4. Before(w, v)
      BY <1>3, <2>1, <2>2, BeforeIs
    <2> QED BY <1>2, <1>3, <2>2, <2>3, <2>4, BeforeIs
  <1>5. Linked(regs.rat, log)
    BY DEF Kept, Books, Logged
  <1>6. regs.rat[l] = log[x].new
    BY <1>3, <1>4, <1>5 DEF Linked
  <1> QED BY <1>3, <1>6, OutputIs DEF w

\* An output keeps its predecessor.
Older(l, w) == {v \in Writers(l) : Before(v, w)}

\* ... which is the output before.
LEMMA KeepsPredecessor ==
  ASSUME RegsInv, NEW log, NEW at, Kept(regs, log, uop, rob, at), NEW l, NEW w \in Writers(l), Older(l, w) # {}
  PROVE  uop[rob[w[1]]].ph_oodep[w[2]] = Output(LastOf(Older(l, w)))
PROOF
  <1> DEFINE W == Older(l, w)
             p == LastOf(W)
             x == LogId(w)
             y == LogId(p)
  <1>1. W \subseteq Places
    BY DEF Writers, Places, Older
  <1>2. p \in W /\ \A v \in W : v = p \/ Before(v, p)
    BY <1>1, LastOutput
  <1> HIDE DEF p
  <1>3. w \in Places /\ x \in DOMAIN log /\ log[x].to = l
    BY WriterIs
  <1>4. p \in Places /\ y \in DOMAIN log /\ log[y].to = l /\ Before(p, w)
    BY <1>2, WriterIs DEF Older
  <1>5. x \in After(log, y)
    BY <1>3, <1>4, BeforeIs DEF After
  <1>6. NextKeeps(log, y)
    BY <1>4, <1>5 DEF Kept, Books, Logged, Linked
  <1>7. PICK z \in After(log, y) : log[z].old = log[y].new /\ \A x2 \in After(log, y) : x2 = z \/ Earlier(z, x2)
    BY <1>6 DEF NextKeeps
  <1>8. z = x
    <2> SUFFICES ASSUME z # x PROVE FALSE
      OBVIOUS
    <2>1. Earlier(z, x) /\ Earlier(y, z) /\ z \in DOMAIN log /\ log[z].to = l
      BY <1>4, <1>5, <1>7 DEF After
    <2>2. PICK v \in Places : LogId(v) = z
      BY <2>1, PlaceOfLog
    <2>3. v \in Writers(l)
      BY <2>1, <2>2, WriterIs
    <2>4. Before(v, w) /\ Before(p, v)
      BY <1>3, <1>4, <2>1, <2>2, BeforeIs
    <2>5. v \in W
      BY <2>3, <2>4 DEF Older
    <2> QED BY <1>2, <1>4, <2>2, <2>4, <2>5, BeforeIs
  <1>9. log[x].old = log[y].new
    BY <1>7, <1>8
  <1> QED BY <1>3, <1>4, <1>9, OutputIs DEF p

\* A uop reads the youngest older output.
LEMMA ReadsYoungest ==
  ASSUME RegsInv, NEW log, NEW at, Kept(regs, log, uop, rob, at), NEW i \in DOMAIN rob,
         NEW l \in uop[rob[i]].uinst.idep, NEW r, r = Resolve(l, TopAfter(i)), WritersBefore(r, i) # {}
  PROVE  uop[rob[i]].ph_idep[l] = Output(LastOf(WritersBefore(r, i)))
PROOF
  <1> DEFINE W == WritersBefore(r, i)
             p == LastOf(W)
             y == LogId(p)
  <1>1. W \subseteq Places
    BY DEF Writers, Places, WritersBefore
  <1>2. p \in W /\ \A v \in W : v = p \/ Before(v, p)
    BY <1>1, LastOutput
  <1> HIDE DEF p
  <1>3. p \in Places /\ y \in DOMAIN log /\ log[y].to = r /\ p[1] < i
    BY <1>2, WriterIs DEF WritersBefore
  <1>4. /\ y[1] = rob[p[1]] /\ p[1] \in DOMAIN rob
        /\ y[1] < rob[i]
    <2>1. y[1] = rob[p[1]] /\ p[1] \in DOMAIN rob
      BY <1>3, PlaceFacts
    <2> QED BY <1>3, <2>1, PlaceOrder
  <1>5. ASSUME NEW x \in DOMAIN log, x[1] < rob[i], log[x].to = r
        PROVE  x = y \/ Earlier(x, y)
    <2>1. PICK v \in Places : LogId(v) = x
      BY PlaceOfLog
    <2>2. v[1] \in DOMAIN rob /\ x[1] = rob[v[1]]
      BY <2>1, PlaceFacts
    <2>3. v[1] < i
      BY <1>5, <2>2, PlaceOrder
    <2>4. v \in W
      BY <1>5, <2>1, <2>3, WriterIs DEF WritersBefore
    <2>5. v = p \/ Before(v, p)
      BY <1>2, <2>4
    <2> QED BY <1>3, <2>1, <2>5, BeforeIs
  <1>6. LastBefore(log, rob[i], r, y)
    BY <1>3, <1>4, <1>5 DEF LastBefore
  <1>7. ReadsLast(log, rob[i], uop[rob[i]], at[rob[i]])
    <2>1. rob[i] \in ToSet(rob)
      BY DEF ToSet
    <2> QED BY <2>1 DEF Kept, Reads
  <1>8. TopAfter(i) = at[rob[i]]
    BY TopAfterIs
  <1>9. uop[rob[i]].ph_idep[l] = log[y].new
    BY <1>6, <1>7, <1>8 DEF ReadsLast
  <1> QED BY <1>3, <1>9, OutputIs DEF p

\* The map names the youngest output of each register in the ROB, every output
\* keeps the one before, and a uop reads the youngest output older than it:
\* renaming follows program order through squashes and moves of the FP stack.
THEOREM RenamingAlwaysFollows == Spec => []RenamingFollowsProgram
PROOF
  <1>1. RegsInv => RenamingFollowsProgram
    <2> SUFFICES ASSUME RegsInv PROVE RenamingFollowsProgram
      OBVIOUS
    <2>1. PICK log, at : Kept(regs, log, uop, rob, at)
      BY DEF RegsInv, RegsKept
    <2>2. ASSUME NEW l \in Logical
          PROVE  LET W == Writers(l) IN
                 /\ W # {} => regs.rat[l] = Output(LastOf(W))
                 /\ \A w \in W : LET older == {v \in W : Before(v, w)} IN
                      older # {} => uop[rob[w[1]]].ph_oodep[w[2]] = Output(LastOf(older))
      <3>1. Writers(l) # {} => regs.rat[l] = Output(LastOf(Writers(l)))
        BY <2>1, MapNamesLast
      <3>2. ASSUME NEW w \in Writers(l)
            PROVE  Older(l, w) # {} => uop[rob[w[1]]].ph_oodep[w[2]] = Output(LastOf(Older(l, w)))
        BY <2>1, KeepsPredecessor
      <3> QED BY <3>1, <3>2 DEF Older
    <2>3. ASSUME NEW i \in DOMAIN rob, NEW l \in uop[rob[i]].uinst.idep
          PROVE  LET W == WritersBefore(Resolve(l, TopAfter(i)), i) IN
                   W # {} => uop[rob[i]].ph_idep[l] = Output(LastOf(W))
      BY <2>1, ReadsYoungest
    <2> QED BY <2>2, <2>3 DEF RenamingFollowsProgram
  <1> QED BY <1>1, RegsAlways, PTL

(***************************************************************************)
(* The right path: the core in order                                       *)
(***************************************************************************)

\* A member of a queue joins the path unless it is of the wrong one.
Passes(uops, path, u) == IF uops[u].specmode THEN path ELSE Append(path, u)

\* The path a queue holds.
PathOf(uops, q) ==
  FoldLeft(LAMBDA path, u : IF uops[u].specmode THEN path ELSE Append(path, u), <<>>, q)

\* The paths of its first members.
PathChain(h, n, uops, q) ==
  /\ h \in [0 .. n -> Seq(Nat)] /\ h[0] = << >> /\ h[n] = PathOf(uops, q)
  /\ \A k \in 1 .. n : h[k] = Passes(uops, h[k - 1], q[k])

\* The fold over the queue goes member by member.
LEMMA PathFold ==
  ASSUME NEW uops, NEW q \in Seq(Nat)
  PROVE  \E h : PathChain(h, Len(q), uops, q)
PROOF
  <1> DEFINE n == Len(q)
             step == [k \in 1 .. n |-> [d \in Seq(Nat) |-> Passes(uops, d, q[k])]]
             Folds(iter) == iter = [s \in SUBSET (DOMAIN q) |->
               IF s = {} THEN << >> ELSE Passes(uops, iter[s \ {Max(s)}], q[Max(s)])]
             f == CHOOSE iter : Folds(iter)
  <1>1. PathOf(uops, q) = f[DOMAIN q]
    BY Zenon DEF PathOf, Passes, FoldLeft, MapThenFoldSet
  <1>0. << >> \in Seq(Nat)
    OBVIOUS
  <1>2. n \in Nat /\ DOMAIN q = 1 .. n
    BY LenProperties
  <1>20. \A k \in 1 .. n : q[k] \in Nat
    BY <1>2, ElementOfSeq
  <1>3. step \in [1 .. n -> [Seq(Nat) -> Seq(Nat)]]
    <2>1. \A k \in 1 .. n : \A d \in Seq(Nat) : Passes(uops, d, q[k]) \in Seq(Nat)
      BY <1>20 DEF Passes
    <2> QED BY <2>1
  <1>4. \A k \in 1 .. n : \A d \in Seq(Nat) : step[k][d] = Passes(uops, d, q[k])
    OBVIOUS
  <1> HIDE DEF step, n
  <1>5. PICK g : BuiltUp(n, Seq(Nat), << >>, step, g)
    BY <1>0, <1>2, <1>3, FromBelow
  <1>6. Folds(g)
    <2>1. ASSUME NEW s \in SUBSET (1 .. n)
          PROVE  g[s] = IF s = {} THEN << >> ELSE Passes(uops, g[s \ {Max(s)}], q[Max(s)])
      <3>1. CASE s = {}
        BY <1>5, <3>1 DEF BuiltUp
      <3>2. CASE s # {}
        <4>1. PICK k \in 1 .. n : /\ Max(s) = k /\ s \ {k} \in SUBSET (1 .. (k - 1))
                                  /\ s = (s \ {k}) \cup {k} /\ s \ {k} \in SUBSET (1 .. n)
          BY <1>2, <3>2, TopCut
        <4> DEFINE t == s \ {k}
        <4>2. g[t] \in Seq(Nat)
          BY <1>5, <4>1 DEF BuiltUp
        <4>3. g[t \cup {k}] = step[k][g[t]]
          BY <1>5, <4>1 DEF BuiltUp
        <4>4. g[s] = Passes(uops, g[t], q[k])
          BY <1>4, <4>1, <4>2, <4>3
        <4> QED BY <1>2, <3>2, <4>1, <4>4
      <3> QED BY <3>1, <3>2
    <2>2. g = [s \in SUBSET (1 .. n) |-> g[s]]
      BY <1>5 DEF BuiltUp
    <2> QED BY <1>2, <2>1, <2>2
  <1>7. Folds(f)
    <2>1. \E iter : Folds(iter)
      BY <1>6
    <2> QED BY <2>1, Zenon
  <1> HIDE DEF f
  <1>70. \A s \in SUBSET (DOMAIN q) : f[s] = IF s = {} THEN << >> ELSE Passes(uops, f[s \ {Max(s)}], q[Max(s)])
    BY <1>7
  <1> HIDE DEF Folds
  <1>8. f[{}] = << >>
    BY <1>70
  <1>9. ASSUME NEW k \in 1 .. n, f[1 .. (k - 1)] \in Seq(Nat)
        PROVE  f[1 .. k] = step[k][f[1 .. (k - 1)]]
    <2>1. Max(1 .. k) = k /\ (1 .. k) \ {k} = 1 .. (k - 1) /\ 1 .. k # {}
      <3>1. k \in Nat /\ k # 0
        BY <1>2
      <3> QED BY <3>1, TopInterval
    <2>2. 1 .. k \in SUBSET (DOMAIN q)
      BY <1>2
    <2>3. f[1 .. k] = Passes(uops, f[1 .. (k - 1)], q[k])
      BY <1>2, <1>70, <2>1, <2>2
    <2> QED BY <1>4, <1>9, <2>3
  <1>10. Follows(f, n, Seq(Nat), step)
    BY <1>9 DEF Follows
  <1>11. PICK h : Chain(h, n, Seq(Nat), << >>, step) /\ h[n] = f[1 .. n]
    <2>1. n \in Nat
      BY <1>2
    <2>2. Reached(n, Seq(Nat), << >>, step, f)
      BY <1>0, <1>3, <1>8, <1>10, <2>1, StepByStep
    <2> QED BY <2>2 DEF Reached
  <1>12. /\ h \in [0 .. n -> Seq(Nat)] /\ h[0] = << >>
         /\ \A k \in 1 .. n : h[k] = Passes(uops, h[k - 1], q[k])
    <2>1. h \in [0 .. n -> Seq(Nat)] /\ h[0] = << >> /\ \A k \in 1 .. n : h[k] = step[k][h[k - 1]]
      BY <1>11 DEF Chain
    <2>2. ASSUME NEW k \in 1 .. n
          PROVE  h[k] = Passes(uops, h[k - 1], q[k])
      <3>1. k - 1 \in 0 .. n
        BY <1>2
      <3>2. h[k - 1] \in Seq(Nat)
        BY <2>1, <3>1
      <3>3. step[k][h[k - 1]] = Passes(uops, h[k - 1], q[k])
        BY <1>4, <3>2
      <3> QED BY <2>1, <3>3
    <2> QED BY <2>1, <2>2
  <1>13. PathChain(h, n, uops, q)
    BY <1>1, <1>2, <1>11, <1>12 DEF PathChain
  <1> QED BY <1>13 DEF n

\* The path is the queue without the wrong path.
LEMMA PathIs ==
  ASSUME NEW uops, NEW q \in Seq(Nat), Increasing(q), NEW r, r = PathOf(uops, q)
  PROVE  /\ r \in Seq(Nat) /\ Increasing(r)
         /\ ToSet(r) = {u \in ToSet(q) : ~uops[u].specmode}
PROOF
  <1>1. PICK h : PathChain(h, Len(q), uops, q)
    BY PathFold
  <1> DEFINE n == Len(q)
             Right(k) == {u \in {q[i] : i \in 1 .. k} : ~uops[u].specmode}
             S == {k \in 0 .. n : Increasing(h[k]) /\ ToSet(h[k]) = Right(k)}
  <1>2. /\ n \in Nat /\ DOMAIN q = 1 .. n /\ \A k \in 1 .. n : q[k] \in Nat
        /\ \A i, j \in 1 .. n : i < j => q[i] < q[j]
    BY LenProperties, ElementOfSeq DEF Increasing
  <1>3. /\ h \in [0 .. n -> Seq(Nat)] /\ h[0] = << >> /\ h[n] = r
        /\ \A k \in 1 .. n : h[k] = Passes(uops, h[k - 1], q[k])
    BY <1>1 DEF PathChain
  <1> HIDE DEF n
  <1>4. 0 \in S
    BY <1>2, <1>3 DEF Increasing, ToSet
  <1>5. ASSUME NEW k \in 1 .. n, k - 1 \in S
        PROVE  k \in S
    <2> DEFINE p == h[k - 1]
               u == q[k]
    <2>1. /\ p \in Seq(Nat) /\ Increasing(p) /\ ToSet(p) = Right(k - 1) /\ u \in Nat
          /\ h[k] = Passes(uops, p, u) /\ k \in 0 .. n
      <3>1. k - 1 \in 0 .. n /\ Increasing(p) /\ ToSet(p) = Right(k - 1)
        BY <1>5
      <3>2. p \in Seq(Nat)
        BY <1>3, <3>1
      <3>3. u \in Nat /\ k \in 0 .. n
        BY <1>2
      <3>4. h[k] = Passes(uops, p, u)
        BY <1>3
      <3> QED BY <3>1, <3>2, <3>3, <3>4
    <2>2. {q[i] : i \in 1 .. k} = {q[i] : i \in 1 .. (k - 1)} \cup {u}
      <3>1. 1 .. k = (1 .. (k - 1)) \cup {k}
        BY <1>2
      <3> QED BY <3>1
    <2>3. \A v \in Right(k - 1) : v < u
      <3>1. \A i \in 1 .. (k - 1) : i \in 1 .. n /\ i < k
        BY <1>2
      <3>2. \A i \in 1 .. (k - 1) : q[i] < u
        BY <1>2, <3>1
      <3> QED BY <3>2
    <2> HIDE DEF p, u
    <2>4. CASE uops[u].specmode
      <3>1. h[k] = p /\ Right(k) = Right(k - 1)
        BY <2>1, <2>2, <2>4 DEF Passes
      <3> QED BY <2>1, <3>1
    <2>5. CASE ~uops[u].specmode
      <3>1. h[k] = Append(p, u) /\ Right(k) = Right(k - 1) \cup {u}
        BY <2>1, <2>2, <2>5 DEF Passes
      <3>2. Increasing(Append(p, u)) /\ ToSet(Append(p, u)) = ToSet(p) \cup {u}
        BY <2>1, <2>3, SortedAppend
      <3> QED BY <2>1, <3>1, <3>2
    <2> QED BY <2>4, <2>5
  <1> HIDE DEF S
  <1>6. n \in S
    <2>1. \A k \in 0 .. n : k \in S
      BY <1>2, <1>4, <1>5, UpTo
    <2> QED BY <1>2, <2>1
  <1>7. Right(n) = {u \in ToSet(q) : ~uops[u].specmode}
    BY <1>2 DEF ToSet
  <1> QED BY <1>2, <1>3, <1>6, <1>7 DEF S

\* A set of numbers is in order in one way only.
LEMMA SortedSame ==
  ASSUME NEW a \in Seq(Nat), NEW b \in Seq(Nat), Increasing(a), Increasing(b), ToSet(a) = ToSet(b)
  PROVE  a = b
PROOF
  <1> DEFINE m == Len(a)
             n == Len(b)
             S == {k \in Nat : \A i \in 1 .. k : i \in 1 .. m /\ i \in 1 .. n => a[i] = b[i]}
  <1>1. /\ m \in Nat /\ n \in Nat /\ a \in [1 .. m -> Nat] /\ b \in [1 .. n -> Nat]
        /\ DOMAIN a = 1 .. m /\ DOMAIN b = 1 .. n
    BY LenProperties, SeqDef
  <1>2. /\ \A i, j \in 1 .. m : i < j => a[i] < a[j]
        /\ \A i, j \in 1 .. n : i < j => b[i] < b[j]
        /\ \A i \in 1 .. m : \E j \in 1 .. n : a[i] = b[j]
        /\ \A i \in 1 .. n : \E j \in 1 .. m : b[i] = a[j]
    BY <1>1 DEF Increasing, ToSet
  <1> HIDE DEF m, n
  <1>3. ASSUME NEW k \in Nat, \A i \in 1 .. k : i \in 1 .. m /\ i \in 1 .. n => a[i] = b[i],
               k + 1 \in 1 .. m, k + 1 \in 1 .. n
        PROVE  a[k + 1] = b[k + 1]
    <2>1. PICK j \in 1 .. n : a[k + 1] = b[j]
      BY <1>2, <1>3
    <2>2. PICK i \in 1 .. m : b[k + 1] = a[i]
      BY <1>2, <1>3
    <2>3. j >= k + 1
      <3>1. SUFFICES ASSUME j < k + 1 PROVE FALSE
        BY <1>1
      <3>2. j \in 1 .. k /\ j \in 1 .. m
        BY <1>1, <1>3, <3>1
      <3>3. a[j] = a[k + 1] /\ a[j] < a[k + 1] /\ a[j] \in Nat
        BY <1>1, <1>2, <1>3, <2>1, <3>1, <3>2
      <3> QED BY <3>3
    <2>4. i >= k + 1
      <3>1. SUFFICES ASSUME i < k + 1 PROVE FALSE
        BY <1>1
      <3>2. i \in 1 .. k /\ i \in 1 .. n
        BY <1>1, <1>3, <3>1
      <3>3. b[i] = b[k + 1] /\ b[i] < b[k + 1] /\ b[i] \in Nat
        BY <1>1, <1>2, <1>3, <2>2, <3>1, <3>2
      <3> QED BY <3>3
    <2>5. b[k + 1] <= a[k + 1] /\ a[k + 1] <= b[k + 1]
      <3>1. j = k + 1 \/ k + 1 < j
        BY <1>1, <2>3
      <3>2. i = k + 1 \/ k + 1 < i
        BY <1>1, <2>4
      <3>3. a[k + 1] \in Nat /\ b[k + 1] \in Nat
        BY <1>1, <1>3
      <3>4. b[k + 1] <= b[j]
        <4>1. b[j] \in Nat /\ (k + 1 < j => b[k + 1] < b[j])
          BY <1>1, <1>2, <1>3
        <4> QED BY <3>1, <3>3, <4>1
      <3>5. a[k + 1] <= a[i]
        <4>1. a[i] \in Nat /\ (k + 1 < i => a[k + 1] < a[i])
          BY <1>1, <1>2, <1>3
        <4> QED BY <3>2, <3>3, <4>1
      <3> QED BY <2>1, <2>2, <3>4, <3>5
    <2> QED BY <1>1, <1>3, <2>5
  <1>4. ASSUME NEW c \in Nat
        PROVE  \A k \in 0 .. c : k \in S
    <2>1. 0 \in S
      OBVIOUS
    <2>2. ASSUME NEW k \in 1 .. c, k - 1 \in S
          PROVE  k \in S
      <3>1. k - 1 \in Nat /\ (k - 1) + 1 = k /\ k \in Nat
        OBVIOUS
      <3>2. k \in 1 .. m /\ k \in 1 .. n => a[k] = b[k]
        BY <1>3, <2>2, <3>1
      <3>3. \A i \in 1 .. k : i \in 1 .. (k - 1) \/ i = k
        OBVIOUS
      <3> QED BY <2>2, <3>1, <3>2, <3>3
    <2> HIDE DEF S
    <2> QED BY <2>1, <2>2, UpTo
  <1>5. \A i \in Nat : i \in 1 .. m /\ i \in 1 .. n => a[i] = b[i]
    <2>1. ASSUME NEW i \in Nat, i \in 1 .. m, i \in 1 .. n
          PROVE  a[i] = b[i]
      <3>1. i \in 0 .. i /\ i \in 1 .. i
        BY <2>1
      <3>2. i \in S
        BY <1>4, <3>1
      <3> QED BY <2>1, <3>1, <3>2
    <2> QED BY <2>1
  <1> HIDE DEF S
  <1>6. m = n
    <2>1. ASSUME m < n PROVE FALSE
      <3>1. m + 1 \in 1 .. n
        BY <1>1, <2>1
      <3>2. PICK j \in 1 .. m : b[m + 1] = a[j]
        BY <1>2, <3>1
      <3>3. j \in Nat /\ j \in 1 .. n /\ j < m + 1
        BY <1>1, <2>1
      <3>4. a[j] = b[j] /\ b[j] < b[m + 1] /\ b[j] \in Nat
        BY <1>1, <1>2, <1>5, <3>1, <3>3
      <3> QED BY <3>2, <3>4
    <2>2. ASSUME n < m PROVE FALSE
      <3>1. n + 1 \in 1 .. m
        BY <1>1, <2>2
      <3>2. PICK j \in 1 .. n : a[n + 1] = b[j]
        BY <1>2, <3>1
      <3>3. j \in Nat /\ j \in 1 .. m /\ j < n + 1
        BY <1>1, <2>2
      <3>4. a[j] = b[j] /\ a[j] < a[n + 1] /\ a[j] \in Nat
        BY <1>1, <1>2, <1>5, <3>1, <3>3
      <3> QED BY <3>2, <3>4
    <2> QED BY <1>1, <2>1, <2>2
  <1>7. \A i \in 1 .. m : a[i] = b[i]
    BY <1>1, <1>5, <1>6
  <1> QED BY <1>1, <1>6, <1>7

\* The uops of the program that are in flight.
RightUops == {u \in DOMAIN uop : ~uop[u].specmode}

\* Three queues of uops, each and together oldest first.
InAge(q, r, s) ==
  /\ q \in Seq(Nat) /\ r \in Seq(Nat) /\ s \in Seq(Nat)
  /\ Increasing(q) /\ Increasing(r) /\ Increasing(s)
  /\ \A u \in ToSet(q) : \A v \in ToSet(r) \cup ToSet(s) : u < v
  /\ \A u \in ToSet(r) : \A v \in ToSet(s) : u < v

\* The uops of S that are of the program, in order.
InProgramOrder(path, uops, S) ==
  path \in Seq(Nat) /\ Increasing(path) /\ ToSet(path) = {u \in S : ~uops[u].specmode}

\* The path in three queues is their uops of the program, in order.
LEMMA PathOfThree ==
  ASSUME NEW uops, NEW q, NEW r, NEW s, InAge(q, r, s), NEW path, path = PathOf(uops, q \o r \o s)
  PROVE  InProgramOrder(path, uops, ToSet(q) \cup ToSet(r) \cup ToSet(s))
PROOF
  <1>0. /\ q \in Seq(Nat) /\ r \in Seq(Nat) /\ s \in Seq(Nat)
        /\ Increasing(q) /\ Increasing(r) /\ Increasing(s)
        /\ \A u \in ToSet(q) : \A v \in ToSet(r) \cup ToSet(s) : u < v
        /\ \A u \in ToSet(r) : \A v \in ToSet(s) : u < v
    BY DEF InAge
  <1>1. /\ q \o r \in Seq(Nat) /\ Increasing(q \o r) /\ ToSet(q \o r) = ToSet(q) \cup ToSet(r)
    BY <1>0, SortedConcat
  <1> DEFINE t == q \o r
  <1> HIDE DEF t
  <1>2. /\ t \in Seq(Nat) /\ Increasing(t) /\ ToSet(t) = ToSet(q) \cup ToSet(r)
    BY <1>1 DEF t
  <1>3. /\ t \o s \in Seq(Nat) /\ Increasing(t \o s) /\ ToSet(t \o s) = ToSet(t) \cup ToSet(s)
    <2>1. \A u \in ToSet(t) : \A v \in ToSet(s) : u < v
      BY <1>0, <1>2
    <2> QED BY <1>0, <1>2, <2>1, SortedConcat
  <1> DEFINE w == t \o s
  <1>4. path = PathOf(uops, w)
    BY DEF t
  <1> HIDE DEF w
  <1>5. w \in Seq(Nat) /\ Increasing(w) /\ ToSet(w) = ToSet(t) \cup ToSet(s)
    BY <1>3 DEF w
  <1>6. /\ path \in Seq(Nat) /\ Increasing(path)
        /\ ToSet(path) = {u \in ToSet(w) : ~uops[u].specmode}
    BY <1>4, <1>5, PathIs
  <1> QED BY <1>2, <1>5, <1>6 DEF InProgramOrder

\* The right path is the uops of the program in flight, in program order.
RightPathOrdered ==
  RightPath \in Seq(Nat) /\ Increasing(RightPath) /\ ToSet(RightPath) = RightUops

\* It is so whenever the queues are in order.
LEMMA RightPathIs == CoreInv => RightPathOrdered
PROOF
  <1> SUFFICES ASSUME CoreInv PROVE RightPathOrdered
    OBVIOUS
  <1>1. InAge(rob, uop_queue, fetch_queue)
    BY DEF CoreInv, QueuesOrdered, FrontEnd, InAge
  <1>2. RightPath = PathOf(uop, rob \o uop_queue \o fetch_queue)
    BY DEF RightPath, PathOf
  <1> DEFINE path == RightPath
  <1> HIDE DEF path
  <1>3. InProgramOrder(path, uop, ToSet(rob) \cup ToSet(uop_queue) \cup ToSet(fetch_queue))
    <2>1. path = PathOf(uop, rob \o uop_queue \o fetch_queue)
      BY <1>2 DEF path
    <2> QED BY <1>1, <2>1, PathOfThree
  <1>4. RightUops = {u \in ToSet(rob) \cup FrontEnd : ~uop[u].specmode}
    BY CoreFacts DEF CoreInv, Issuing, RightUops
  <1>5. ToSet(path) = RightUops
    BY <1>3, <1>4 DEF FrontEnd, InProgramOrder
  <1> QED BY <1>3, <1>5 DEF RightPathOrdered, InProgramOrder, path

\* A step that leaves the uops of the program leaves the right path.
LEMMA RightPathStays ==
  ASSUME RightPathOrdered, RightPathOrdered', RightUops' = RightUops
  PROVE  RightPath' = RightPath
PROOF
  BY SortedSame DEF RightPathOrdered

\* Changes of the uops that run, complete or are renamed keep the path.
LEMMA RightAlike ==
  ASSUME Alike(uop', uop)
  PROVE  RightUops' = RightUops
PROOF
  BY DEF Alike, Like, RightUops

\* The path loses the uops that are freed.
LEMMA RightFreed ==
  ASSUME NEW f, DOMAIN f = DOMAIN uop, \A u \in DOMAIN uop : f[u].specmode = uop[u].specmode,
         NEW S, uop' = FreeIfNotQueued(f, S)
  PROVE  \A u : u \in RightUops' <=> /\ u \in RightUops
                                     /\ u \in S => u \in Queued' \/ f[u].in_event_queue
PROOF
  <1> DEFINE D == {u \in DOMAIN f : u \in S => u \in Queued' \/ f[u].in_event_queue}
  <1>1. uop' = [u \in D |-> f[u]]
    BY DEF FreeIfNotQueued, Restrict
  <1>2. DOMAIN uop' = D /\ \A u \in D : uop'[u] = f[u]
    BY <1>1
  <1>3. \A u : u \in D <=> u \in DOMAIN uop /\ (u \in S => u \in Queued' \/ f[u].in_event_queue)
    OBVIOUS
  <1> HIDE DEF D
  <1> QED BY <1>2, <1>3 DEF RightUops

\* A recovery takes none of them but the uop the stage has done with.
LEMMA RightRecover ==
  ASSUME CoreInv, NEW f, NEW rf, NEW order, NEW events, NEW done,
         Recover(f, rf, order, events, done),
         Alike(f, uop), done \in DOMAIN uop, ~uop[done].specmode, ~f[done].in_event_queue
  PROVE  \A u : u \in RightUops' <=> u \in RightUops /\ (u = done => done \in Queued')
PROOF
  <1> DEFINE spec == {u \in DOMAIN f : f[u].specmode}
             gone == [u \in DOMAIN f |-> IF u \in events \intersect spec
                                         THEN [f[u] EXCEPT !.in_event_queue = FALSE] ELSE f[u]]
             S == {done} \union ((Queued \union events) \intersect spec)
  <1>1. DOMAIN f = DOMAIN uop /\ \A u \in DOMAIN uop : IsUop(f[u]) /\ f[u].specmode = uop[u].specmode
    BY DEF Alike, Like
  <1>2. DOMAIN gone = DOMAIN uop /\ gone[done] = f[done]
    BY <1>1
  <1>3. \A u \in DOMAIN uop : gone[u].specmode = uop[u].specmode
    <2>1. ASSUME NEW u \in DOMAIN uop
          PROVE  gone[u].specmode = uop[u].specmode
      <3>1. [f[u] EXCEPT !.in_event_queue = FALSE].specmode = f[u].specmode
        BY <1>1, UopFlag DEF Like
      <3> QED BY <1>1, <3>1
    <2> QED BY <2>1
  <1>4. uop' = FreeIfNotQueued(gone, S)
    BY DEF Recover
  <1>5. \A u : u \in S <=> u = done \/ (u \in Queued \cup events /\ u \in DOMAIN uop /\ uop[u].specmode)
    BY <1>1
  <1> HIDE DEF gone, S
  <1>6. \A u : u \in RightUops' <=> /\ u \in RightUops
                                    /\ u \in S => u \in Queued' \/ gone[u].in_event_queue
    BY <1>2, <1>3, <1>4, RightFreed
  <1> QED BY <1>2, <1>5, <1>6 DEF RightUops

\* A step of the specification of a core in order, or none.
InOrderStep == [Ref!Next]_<<fetched, RightPath>>

\* What a step does not take from the uops of the program it keeps in order.
LEMMA RightKept ==
  ASSUME RightPathOrdered, RightPathOrdered', RightUops' = RightUops, fetched' = fetched
  PROVE  InOrderStep
PROOF
  BY RightPathStays DEF InOrderStep

\* Fetch puts the uops of an instruction behind, or none on the wrong path.
LEMMA RightFetch ==
  ASSUME CoreInv, RightPathOrdered, RightPathOrdered', NEW inst \in Insts, Fetch(inst)
  PROVE  InOrderStep
PROOF
  <1> DEFINE n == Len(inst)
             ids == [k \in 1 .. n |-> fetched + k]
             new == (fetched + 1) .. (fetched + n)
  <1>1. /\ inst \in Seq(Uinst) /\ inst # <<>> /\ n \in Nat \ {0} /\ DOMAIN inst = 1 .. n
        /\ fetched \in Nat /\ MaxUops \in Nat /\ DOMAIN uop \subseteq 1 .. fetched
    BY PipelineConstants DEF CoreInv, UopsTyped
  <1>2. ids \in Seq(Nat) /\ Increasing(ids) /\ ToSet(ids) = new
    BY <1>1, FetchedIds
  <1>3. PICK mispredicted \in {FALSE, Last(inst).op = "ctrl"} :
          uop' = [u \in DOMAIN uop \union new |->
                    IF u \in DOMAIN uop THEN uop[u] ELSE NewUop(inst, u - fetched, mispredicted)]
    BY <1>1, <1>2 DEF Fetch
  <1>4. fetched + n <= MaxUops /\ fetched' = fetched + n
    BY DEF Fetch
  <1>5. n \in 1 .. (MaxUops - fetched)
    BY <1>1, <1>4
  <1>6. \A u \in new : u \notin DOMAIN uop /\ \A v \in DOMAIN uop : v < u
    BY <1>1
  <1> HIDE DEF n, ids, new
  <1>7. \A u \in new : NewUop(inst, u - fetched, mispredicted).specmode = wrong_path
    BY DEF NewUop
  <1>8. RightUops' = RightUops \cup {u \in new : ~wrong_path}
    <2>1. /\ DOMAIN uop' = DOMAIN uop \cup new /\ \A u \in DOMAIN uop : uop'[u] = uop[u]
          /\ \A u \in new : uop'[u].specmode = wrong_path
      BY <1>3, <1>6, <1>7
    <2> QED BY <2>1 DEF RightUops
  <1>9. CASE wrong_path
    <2>1. RightPath' = RightPath
      BY <1>8, <1>9, RightPathStays
    <2> QED BY <1>4, <1>5, <2>1 DEF InOrderStep, Ref!Next, Ref!Enter
  <1>10. CASE ~wrong_path
    <2>1. RightPath \in Seq(Nat) /\ Increasing(RightPath) /\ ToSet(RightPath) = RightUops
      BY DEF RightPathOrdered
    <2>2. \A u \in ToSet(RightPath) : \A v \in ToSet(ids) : u < v
      BY <1>2, <1>6, <2>1 DEF RightUops
    <2>3. /\ RightPath \o ids \in Seq(Nat) /\ Increasing(RightPath \o ids)
          /\ ToSet(RightPath \o ids) = RightUops \cup new
      BY <1>2, <2>1, <2>2, SortedConcat
    <2>4. RightPath' \in Seq(Nat) /\ Increasing(RightPath') /\ ToSet(RightPath') = RightUops \cup new
      BY <1>8, <1>10 DEF RightPathOrdered
    <2>5. RightPath' = RightPath \o ids
      BY <2>3, <2>4, SortedSame
    <2> QED BY <1>4, <1>5, <2>5 DEF InOrderStep, Ref!Next, Ref!Enter, ids
  <1> QED BY <1>9, <1>10

\* The oldest uop of the program leaves.
LEMMA RightRetires ==
  ASSUME RightPathOrdered, RightPathOrdered', NEW u \in RightUops, \A v \in RightUops : u <= v,
         RightUops' = RightUops \ {u}, fetched' = fetched
  PROVE  InOrderStep
PROOF
  <1>1. RightPath \in Seq(Nat) /\ Increasing(RightPath) /\ ToSet(RightPath) = RightUops
    BY DEF RightPathOrdered
  <1>2. RightPath # <<>>
    BY <1>1 DEF ToSet
  <1>3. /\ Tail(RightPath) \in Seq(Nat) /\ Increasing(Tail(RightPath)) /\ Head(RightPath) \in RightUops
        /\ ToSet(Tail(RightPath)) = RightUops \ {Head(RightPath)}
        /\ \A v \in ToSet(Tail(RightPath)) : Head(RightPath) < v
    BY <1>1, <1>2, SortedTail
  <1>4. Head(RightPath) = u
    <2>1. RightUops \subseteq Nat
      BY <1>1 DEF ToSet
    <2>2. Head(RightPath) # u => Head(RightPath) < u /\ u <= Head(RightPath)
      BY <1>3
    <2> QED BY <1>3, <2>1, <2>2
  <1>5. RightPath' = Tail(RightPath)
    BY <1>3, <1>4, SortedSame DEF RightPathOrdered
  <1> QED BY <1>2, <1>5 DEF InOrderStep, Ref!Next, Ref!Retire

\* Commit retires the head of the ROB, which is the oldest of the program.
LEMMA RightCommit ==
  ASSUME CoreInv, CoreInv', RightPathOrdered, RightPathOrdered', Commit
  PROVE  InOrderStep
PROOF
  <1> DEFINE u == Head(rob)
             rf == CommitRegs(regs, uop[u])
             order == Tail(rob)
  <1>1. /\ rob # <<>> /\ uop[u].completed /\ fetched' = fetched
        /\ RecoversAtCommit(u) => Recover(uop, rf, order, event_queue, u)
        /\ ~RecoversAtCommit(u) =>
              /\ rob' = order /\ uop' = FreeIfNotQueued(uop, {u})
              /\ UNCHANGED <<fetch_queue, uop_queue>>
    BY DEF Commit
  <1>2. /\ order \in Seq(Nat) /\ Increasing(order) /\ ToSet(order) = ToSet(rob) \ {u}
        /\ u \in ToSet(rob) /\ ~uop[u].specmode /\ u \notin Waiting \cup Running
    BY <1>1, HeadFacts
  <1>3. /\ Queued = ToSet(rob) \cup FrontEnd /\ DOMAIN uop = Queued \cup Running /\ DOMAIN uop \subseteq Nat
        /\ u \in DOMAIN uop /\ u \notin FrontEnd
    BY <1>2, CoreFacts
  <1>4. \A v \in RightUops : u <= v
    <2>1. \A v \in ToSet(order) : u < v
      BY <1>1, SortedTail DEF CoreInv, QueuesOrdered
    <2>2. \A v \in FrontEnd : u < v
      BY <1>2 DEF CoreInv, QueuesOrdered
    <2>3. \A v \in RightUops : v \in ToSet(rob) \cup FrontEnd
      BY <1>3 DEF CoreInv, Issuing, RightUops
    <2> QED BY <1>2, <1>3, <2>1, <2>2, <2>3
  <1>5. /\ uop = [v \in DOMAIN uop |-> uop[v]] /\ \A v \in DOMAIN uop : IsUop(uop[v])
        /\ ~uop[u].in_event_queue
    BY <1>2, <1>3 DEF CoreInv, UopsTyped, Flags
  <1>6. Queued' = ToSet(rob') \cup ToSet(uop_queue') \cup ToSet(fetch_queue')
    BY DEF Queued, CoreInv, Issuing, Waiting
  <1> HIDE DEF u, rf, order
  <1>7. ToSet(rob') \subseteq ToSet(order) /\ ToSet(uop_queue') \subseteq FrontEnd /\ ToSet(fetch_queue') \subseteq FrontEnd
    <2>1. CASE RecoversAtCommit(u)
      <3>1. rob' = Trimmed(order) /\ uop_queue' = Trimmed(uop_queue) /\ fetch_queue' = Trimmed(fetch_queue)
        BY <1>1, <2>1 DEF Recover
      <3>2. /\ uop_queue \in Seq(Nat) /\ Increasing(uop_queue) /\ ToSet(uop_queue) \subseteq Queued
            /\ fetch_queue \in Seq(Nat) /\ Increasing(fetch_queue) /\ ToSet(fetch_queue) \subseteq Queued
            /\ ToSet(order) \subseteq Queued
        BY <1>2, <1>3 DEF CoreInv, QueuesOrdered, FrontEnd
      <3>3. ToSet(rob') = {v \in ToSet(order) : ~uop[v].specmode}
        BY <1>2, <3>1, <3>2, TrimmedQueue
      <3>4. ToSet(uop_queue') = {v \in ToSet(uop_queue) : ~uop[v].specmode}
        BY <3>1, <3>2, TrimmedQueue
      <3>5. ToSet(fetch_queue') = {v \in ToSet(fetch_queue) : ~uop[v].specmode}
        BY <3>1, <3>2, TrimmedQueue
      <3> QED BY <3>3, <3>4, <3>5 DEF FrontEnd
    <2>2. CASE ~RecoversAtCommit(u)
      BY <1>1, <2>2 DEF FrontEnd
    <2> QED BY <2>1, <2>2
  <1>8. u \notin Queued'
    BY <1>2, <1>3, <1>6, <1>7
  <1>9. \A v : v \in RightUops' <=> v \in RightUops /\ v # u
    <2>1. CASE RecoversAtCommit(u)
      <3>1. Recover(uop, rf, order, event_queue, u)
        BY <1>1, <2>1
      <3>2. Alike(uop, uop)
        BY <1>5 DEF Alike, Like
      <3>3. \A v : v \in RightUops' <=> v \in RightUops /\ (v = u => u \in Queued')
        BY <1>2, <1>3, <1>5, <3>1, <3>2, RightRecover
      <3> QED BY <1>8, <3>3
    <2>2. CASE ~RecoversAtCommit(u)
      <3>1. uop' = FreeIfNotQueued(uop, {u})
        BY <1>1, <2>2
      <3>2. \A v : v \in RightUops' <=> /\ v \in RightUops
                                        /\ v \in {u} => v \in Queued' \/ uop[v].in_event_queue
        BY <3>1, RightFreed
      <3> QED BY <1>5, <1>8, <3>2
    <2> QED BY <2>1, <2>2
  <1>10. u \in RightUops /\ RightUops' = RightUops \ {u}
    BY <1>2, <1>3, <1>9 DEF RightUops
  <1> QED BY <1>1, <1>4, <1>10, RightRetires

\* Writeback takes no uop of the program, even when it recovers.
LEMMA RightWriteback ==
  ASSUME CoreInv, RightPathOrdered, RightPathOrdered', Writeback
  PROVE  InOrderStep
PROOF
  <1> DEFINE u == Oldest
             f == [uop EXCEPT ![u].in_event_queue = FALSE, ![u].completed = TRUE]
             rf == Write(regs, uop[u])
             events == event_queue \ {u}
  <1>1. /\ event_queue # {} /\ fetched' = fetched
        /\ RecoversAtWriteback(u) => Recover(f, rf, rob, events, u)
        /\ ~RecoversAtWriteback(u) => uop' = FreeIfNotQueued(f, {u}) /\ Queued' = Queued
    BY DEF Writeback, Queued
  <1>2. u \in event_queue /\ u \in DOMAIN uop /\ DOMAIN uop = Queued \cup Running /\ Queued = ToSet(rob) \cup FrontEnd
    BY <1>1, OldestFacts, CoreFacts DEF Running
  <1> HIDE DEF u, rf, events
  <1>3. /\ Alike(f, uop) /\ ~f[u].in_event_queue
    <2>1. uop = [v \in DOMAIN uop |-> uop[v]] /\ \A v \in DOMAIN uop : IsUop(uop[v])
      BY DEF CoreInv, UopsTyped
    <2>2. Done(f, uop, u)
      BY DEF Done
    <2> HIDE DEF f
    <2> QED BY <1>2, <2>1, <2>2, UopDone
  <1> HIDE DEF f
  <1>4. DOMAIN f = DOMAIN uop /\ \A v \in DOMAIN uop : f[v].specmode = uop[v].specmode
    BY <1>3 DEF Alike, Like
  <1>5. uop[u].specmode \/ u \in ToSet(rob)
    BY <1>2 DEF CoreInv, Issuing, Running
  <1>6. RightUops' = RightUops
    <2>1. CASE RecoversAtWriteback(u)
      <3>1. Recover(f, rf, rob, events, u) /\ ~uop[u].specmode /\ rob' = Trimmed(rob)
        BY <1>1, <2>1 DEF RecoversAtWriteback, Recover
      <3>2. ToSet(rob') = {v \in ToSet(rob) : ~uop[v].specmode}
        BY <1>2, <3>1, TrimmedQueue DEF CoreInv, QueuesOrdered
      <3>3. u \in Queued'
        BY <1>5, <3>1, <3>2 DEF Queued
      <3>4. \A v : v \in RightUops' <=> v \in RightUops /\ (v = u => u \in Queued')
        BY <1>2, <1>3, <3>1, RightRecover
      <3> QED BY <3>3, <3>4
    <2>2. CASE ~RecoversAtWriteback(u)
      <3>1. \A v : v \in RightUops' <=> /\ v \in RightUops
                                        /\ v \in {u} => v \in Queued' \/ f[v].in_event_queue
        BY <1>1, <1>4, <2>2, RightFreed
      <3>2. \A v \in RightUops : v \in {u} => v \in Queued'
        BY <1>1, <1>2, <1>5, <2>2 DEF RightUops
      <3> QED BY <3>1, <3>2
    <2> QED BY <2>1, <2>2
  <1> QED BY <1>1, <1>6, RightKept

\* Every step is one of a core in order, or none.
LEMMA RightStep ==
  ASSUME CoreInv, CoreInv', RightPathOrdered, RightPathOrdered', [Next]_vars
  PROVE  InOrderStep
PROOF
  <1>1. uop = [v \in DOMAIN uop |-> uop[v]] /\ \A v \in DOMAIN uop : IsUop(uop[v])
    BY DEF CoreInv, UopsTyped
  <1>2. CASE Decode \/ (\E u \in memory : MemoryReturns(u)) \/ UNCHANGED vars
    <2>1. uop' = uop /\ fetched' = fetched
      BY <1>2 DEF Decode, MemoryReturns, vars
    <2>2. RightUops' = RightUops
      BY <2>1 DEF RightUops
    <2> QED BY <2>1, <2>2, RightKept
  <1>3. CASE Issue
    <2>1. PICK u \in Waiting : Marked(uop', uop, u) /\ fetched' = fetched
      BY <1>3 DEF Issue, IssueIQ, IssueLQ, IssueSQ, Access, Waiting, Marked
    <2>2. u \in DOMAIN uop
      BY CoreFacts DEF CoreInv, Issuing
    <2>3. Alike(uop', uop)
      BY <1>1, <2>1, <2>2, UopMarked
    <2> QED BY <2>1, <2>3, RightAlike, RightKept
  <1>4. CASE Trap
    <2> DEFINE u == Oldest
    <2>1. event_queue # {} /\ Trapped(uop', uop, u) /\ fetched' = fetched
      BY <1>4 DEF Trap, Trapped
    <2>2. u \in DOMAIN uop
      BY <2>1, OldestFacts, CoreFacts DEF Running
    <2> HIDE DEF u
    <2>3. Alike(uop', uop)
      BY <1>1, <2>1, <2>2, UopTrapped
    <2> QED BY <2>1, <2>3, RightAlike, RightKept
  <1>5. CASE Dispatch
    <2> DEFINE u == Head(uop_queue)
               new == Rename(regs, uop[u].uinst)
    <2>1. uop_queue # <<>> /\ Mapped(uop', uop, u, new) /\ fetched' = fetched
      BY <1>5 DEF Dispatch, Mapped
    <2>2. u \in DOMAIN uop
      BY <2>1, SortedTail, CoreFacts DEF CoreInv, QueuesOrdered, FrontEnd
    <2> HIDE DEF u, new
    <2>3. Alike(uop', uop)
      BY <1>1, <2>1, <2>2, UopMapped
    <2> QED BY <2>1, <2>3, RightAlike, RightKept
  <1>6. CASE Commit
    BY <1>6, RightCommit
  <1>7. CASE Writeback
    BY <1>7, RightWriteback
  <1>8. CASE \E inst \in Insts : Fetch(inst)
    BY <1>8, RightFetch
  <1> QED BY <1>2, <1>3, <1>4, <1>5, <1>6, <1>7, <1>8 DEF Next, Advance

\* Speculation and execution out of order cannot be told from the outside: what
\* enters on the right path stays, and leaves in program order, whatever the
\* core recovers from and whenever uops complete.
THEOREM PipelineIsInOrder == Spec => RetiresInOrder
PROOF
  <1>1. Init => Ref!Init
    <2> SUFFICES ASSUME Init PROVE Ref!Init
      OBVIOUS
    <2>1. fetched = 0 /\ DOMAIN uop = {}
      BY DEF Init
    <2>2. RightPath \in Seq(Nat) /\ Increasing(RightPath) /\ ToSet(RightPath) = {}
      BY <2>1, CoreInit, RightPathIs DEF RightPathOrdered, RightUops
    <2>3. RightPath = <<>>
      <3>1. <<>> \in Seq(Nat) /\ Increasing(<<>>) /\ ToSet(<<>>) = {}
        BY DEF Increasing, ToSet
      <3> QED BY <2>2, <3>1, SortedSame
    <2> QED BY <2>1, <2>3 DEF Ref!Init
  <1>2. CoreInv /\ CoreInv' /\ RightPathOrdered /\ RightPathOrdered' /\ [Next]_vars => InOrderStep
    BY RightStep
  <1>3. InOrderStep <=> [Ref!Next]_<<fetched, RightPath>>
    BY DEF InOrderStep
  <1>4. Spec => Ref!Init /\ [][Ref!Next]_<<fetched, RightPath>>
    BY <1>1, <1>2, <1>3, CoreAlways, RightPathIs, PTL DEF Spec
  <1> QED BY <1>4 DEF RetiresInOrder, Ref!Spec
=============================================================================
