---------------------------- MODULE Signals_proofs ----------------------------
(***************************************************************************)
(* Proofs about Signals, for any set of threads and signal numbers and any *)
(* depth of handlers within handlers.  The masks that matter are those the *)
(* calls under way will restore: what a delivery loop still has to visit   *)
(* is not in the mask it goes back to, in whatever order the threads'      *)
(* calls come back; and as long as they come back innermost first, the     *)
(* outermost call that restores a mask goes back to a clean one.           *)
(***************************************************************************)
EXTENDS Signals, SequenceTheorems, FiniteSetTheorems, TLAPS

\* Calls that may be under way: no handler's loop goes back to a mask that has the handler's
\* signal in it, or one that the loop will visit.
Sound(calls, mask) ==
  /\ calls \in Seq(Frames)
  /\ mask \in SUBSET Sigs
  /\ \A i \in 1 .. Len(calls) :
       calls[i].kind = "handler" => calls[i].old \cap (calls[i].todo \cup {calls[i].sig}) = {}

\* The first n of some calls leave the mask as they find it when they come back.
OnlyPauses(calls, n) == \A i \in 1 .. n : calls[i].kind = "pause"

\* The mask that is left when calls have come back innermost first, "mask" being in force: the
\* one that the outermost call puts back that puts one back.
Clean(calls, mask) ==
  /\ \A i \in 1 .. Len(calls) :
       OnlyPauses(calls, i - 1) /\ calls[i].kind # "pause" => calls[i].old \cap Uncatchable = {}
  /\ OnlyPauses(calls, Len(calls)) => mask \cap Uncatchable = {}

IInv == /\ TypeOK
        /\ Sound(stack, blocked)
        /\ ~crossed /\ ~exited => Clean(stack, blocked)

-----------------------------------------------------------------------------
(* Helpers *)

\* A set of naturals that is not empty has a least element.
LEMMA MinOfNaturals ==
  ASSUME NEW S \in SUBSET Nat, S # {}
  PROVE  Min(S) \in S /\ \A x \in S : Min(S) <= x
<1> DEFINE R == StrictSubsetOrdering(Nat)
           Upto == {0 .. k : k \in S}
<1>1. IsWellFoundedOn(R, FiniteSubsetsOf(Nat))
  BY FS_StrictSubsetOrderingWellFounded
<1>2. Upto \subseteq FiniteSubsetsOf(Nat) /\ Upto # {}
  <2>1. ASSUME NEW k \in S PROVE 0 .. k \in FiniteSubsetsOf(Nat)
    <3>1. IsFiniteSet(0 .. k)
      BY FS_Interval
    <3> QED BY <3>1 DEF FiniteSubsetsOf
  <2> QED BY <2>1
<1>3. \E u \in Upto : \A v \in Upto : <<v, u>> \notin R
  <2> HIDE DEF R, Upto
  <2> QED BY <1>1, <1>2, WFMin
<1>4. PICK m \in S : \A y \in S : <<0 .. y, 0 .. m>> \notin R
  BY <1>3
<1>5. ASSUME NEW y \in S, y < m PROVE FALSE
  <2>1. 0 .. y \subseteq 0 .. m /\ m \in 0 .. m /\ m \notin 0 .. y
    BY <1>5
  <2>2. <<0 .. y, 0 .. m>> \in R
    BY <2>1 DEF StrictSubsetOrdering
  <2> QED BY <1>4, <2>2
<1>6. \A y \in S : m <= y
  BY <1>5
<1> QED BY <1>6 DEF Min

\* A set of numbers from 1 to n that is not empty has a greatest element.
LEMMA MaxUpTo ==
  ASSUME NEW n \in Nat, NEW S \in SUBSET (1 .. n), S # {}
  PROVE  Max(S) \in S
<1> DEFINE T == {n - k : k \in S}
<1>1. T \in SUBSET Nat /\ T # {}
  <2>1. ASSUME NEW k \in S PROVE n - k \in Nat
    <3>1. k \in 1 .. n
      OBVIOUS
    <3> QED BY <3>1
  <2>2. PICK k \in S : TRUE
    OBVIOUS
  <2>3. n - k \in T
    OBVIOUS
  <2> QED BY <2>1, <2>3
<1>2. Min(T) \in T /\ \A x \in T : Min(T) <= x
  <2> HIDE DEF T
  <2> QED BY <1>1, MinOfNaturals
<1>3. PICK k \in S : Min(T) = n - k
  BY <1>2
<1>4. ASSUME NEW y \in S PROVE k >= y
  <2>1. n - y \in T
    OBVIOUS
  <2>2. n - k <= n - y
    BY <1>2, <1>3, <2>1
  <2> QED BY <2>2
<1> QED BY <1>3, <1>4 DEF Max

\* The innermost call of a thread is one of the calls.
LEMMA InnermostIsOne ==
  ASSUME NEW t, NEW calls \in Seq(Frames)
  PROVE  Innermost(t, calls) \in 0 .. Len(calls)
<1> DEFINE I == {i \in 1 .. Len(calls) : calls[i].thread = t}
<1>1. Innermost(t, calls) = IF I # {} THEN Max(I) ELSE 0
  BY DEF Innermost, SelectLastInSeq
<1>2. Len(calls) \in Nat /\ I \in SUBSET (1 .. Len(calls))
  OBVIOUS
<1> HIDE DEF I
<1>3. I # {} => Max(I) \in I
  BY <1>2, MaxUpTo
<1>4. CASE I = {}
  BY <1>1, <1>2, <1>4
<1>5. CASE I # {}
  <2>1. Innermost(t, calls) \in I
    BY <1>1, <1>3, <1>5
  <2>2. \A i \in 1 .. Len(calls) : i \in 0 .. Len(calls)
    BY <1>2
  <2> QED BY <1>2, <2>1, <2>2
<1> QED BY <1>4, <1>5

\* To mark the innermost call of a thread changes no mask and no handler's frame.
LEMMA Marking ==
  ASSUME NEW t, NEW calls \in Seq(Frames)
  PROVE  /\ MarkRan(t, calls) \in Seq(Frames)
         /\ Len(MarkRan(t, calls)) = Len(calls)
         /\ \A i \in 1 .. Len(calls) :
              /\ MarkRan(t, calls)[i].kind = calls[i].kind
              /\ MarkRan(t, calls)[i].old = calls[i].old
              /\ calls[i].kind = "handler" => MarkRan(t, calls)[i] = calls[i]
<1> DEFINE n == Innermost(t, calls)
<1>1. n \in 0 .. Len(calls)
  BY InnermostIsOne
<1> HIDE DEF n
<1>2. CASE n # 0 /\ calls[n].kind # "handler"
  <2> DEFINE f == [calls[n] EXCEPT !.ran = TRUE]
  <2>1. n \in 1 .. Len(calls)
    BY <1>1, <1>2
  <2>2. calls[n] \in [kind : {"pause", "sigsuspend"}, thread : Threads, old : SUBSET Sigs,
                      ran : BOOLEAN]
    BY <1>2, <2>1 DEF Frames
  <2>3. f \in Frames /\ f.kind = calls[n].kind /\ f.old = calls[n].old
    BY <2>2 DEF Frames
  <2>4. MarkRan(t, calls) = [calls EXCEPT ![n] = f]
    BY <1>2 DEF MarkRan, n
  <2> HIDE DEF f
  <2> QED BY <1>2, <2>1, <2>3, <2>4, ExceptSeq
<1>3. CASE ~(n # 0 /\ calls[n].kind # "handler")
  BY <1>3 DEF MarkRan, n
<1> QED BY <1>2, <1>3

\* A marked call changes nothing of what the invariant says.
LEMMA MarkedSound ==
  ASSUME NEW t, NEW calls, NEW mask, Sound(calls, mask)
  PROVE  /\ Sound(MarkRan(t, calls), mask)
         /\ Clean(calls, mask) => Clean(MarkRan(t, calls), mask)
<1>1. /\ MarkRan(t, calls) \in Seq(Frames)
      /\ Len(MarkRan(t, calls)) = Len(calls)
      /\ \A i \in 1 .. Len(calls) :
           /\ MarkRan(t, calls)[i].kind = calls[i].kind
           /\ MarkRan(t, calls)[i].old = calls[i].old
           /\ calls[i].kind = "handler" => MarkRan(t, calls)[i] = calls[i]
  BY Marking DEF Sound
<1> DEFINE marked == MarkRan(t, calls)
<1> HIDE DEF marked
<1>2. Sound(marked, mask)
  BY <1>1 DEF Sound, marked
<1>3. ASSUME Clean(calls, mask) PROVE Clean(marked, mask)
  <2>1. Len(calls) \in Nat
    BY DEF Sound
  <2>2. \A n \in 0 .. Len(calls) : OnlyPauses(marked, n) <=> OnlyPauses(calls, n)
    BY <1>1, <2>1 DEF OnlyPauses, marked
  <2>3. ASSUME NEW i \in 1 .. Len(marked), OnlyPauses(marked, i - 1), marked[i].kind # "pause"
        PROVE  marked[i].old \cap Uncatchable = {}
    <3>1. i \in 1 .. Len(calls) /\ i - 1 \in 0 .. Len(calls)
      BY <1>1, <2>1 DEF marked
    <3>2. OnlyPauses(calls, i - 1) /\ calls[i].kind # "pause"
      BY <1>1, <2>2, <2>3, <3>1 DEF marked
    <3>3. marked[i].old = calls[i].old
      BY <1>1, <3>1 DEF marked
    <3> QED BY <1>3, <3>1, <3>2, <3>3 DEF Clean
  <2>4. OnlyPauses(marked, Len(marked)) => mask \cap Uncatchable = {}
    BY <1>1, <1>3, <2>1, <2>2 DEF Clean, marked
  <2> QED BY <2>3, <2>4 DEF Clean
<1> QED BY <1>2, <1>3 DEF marked

\* A frame on top of sound calls. A pause changes no mask.
LEMMA Pushing ==
  ASSUME NEW calls, NEW mask, Sound(calls, mask),
         NEW f \in Frames, f.old = mask,
         f.kind = "handler" => f.old \cap (f.todo \cup {f.sig}) = {},
         NEW newMask \in SUBSET Sigs, f.kind = "pause" => newMask = mask
  PROVE  /\ Sound(Append(calls, f), newMask)
         /\ Clean(calls, mask) => Clean(Append(calls, f), newMask)
<1> DEFINE n == Len(calls)
           longer == Append(calls, f)
<1>1. calls \in Seq(Frames) /\ n \in Nat
  BY DEF Sound
<1>2. /\ longer \in Seq(Frames)
      /\ Len(longer) = n + 1
      /\ \A i \in 1 .. n : longer[i] = calls[i]
      /\ longer[n + 1] = f
  BY <1>1, AppendProperties
<1> HIDE DEF longer
<1>3. Sound(longer, newMask)
  BY <1>1, <1>2 DEF Sound
<1>4. ASSUME Clean(calls, mask) PROVE Clean(longer, newMask)
  <2>1. \A k \in 0 .. n : OnlyPauses(longer, k) <=> OnlyPauses(calls, k)
    BY <1>1, <1>2 DEF OnlyPauses
  <2>2. ASSUME NEW i \in 1 .. n + 1, OnlyPauses(longer, i - 1), longer[i].kind # "pause"
        PROVE  longer[i].old \cap Uncatchable = {}
    <3>1. OnlyPauses(calls, i - 1)
      BY <1>1, <2>1, <2>2
    <3>2. CASE i = n + 1
      <4>1. OnlyPauses(calls, n)
        BY <1>1, <3>1, <3>2
      <4> QED BY <1>2, <1>4, <3>2, <4>1 DEF Clean
    <3>3. CASE i # n + 1
      <4>1. i \in 1 .. n
        BY <1>1, <3>3
      <4> QED BY <1>2, <1>4, <2>2, <3>1, <4>1 DEF Clean
    <3> QED BY <3>2, <3>3
  <2>3. ASSUME OnlyPauses(longer, n + 1) PROVE newMask \cap Uncatchable = {}
    <3>1. f.kind = "pause" /\ OnlyPauses(longer, n)
      BY <1>1, <1>2, <2>3 DEF OnlyPauses
    <3>2. OnlyPauses(calls, n)
      BY <1>1, <2>1, <3>1
    <3> QED BY <1>4, <3>1, <3>2 DEF Clean
  <2> QED BY <1>2, <2>2, <2>3 DEF Clean
<1> QED BY <1>3, <1>4 DEF longer

\* The calls that are left when one of them has come back.
LEMMA Removing ==
  ASSUME NEW calls \in Seq(Frames), NEW k \in 1 .. Len(calls)
  PROVE  /\ RemoveAt(calls, k) \in Seq(Frames)
         /\ Len(RemoveAt(calls, k)) = Len(calls) - 1
         /\ \A i \in 1 .. Len(calls) - 1 :
              RemoveAt(calls, k)[i] = IF i < k THEN calls[i] ELSE calls[i + 1]
<1> DEFINE n == Len(calls)
           before == SubSeq(calls, 1, k - 1)
           after == SubSeq(calls, k + 1, n)
<1>1. n \in Nat /\ \A i \in 1 .. n : calls[i] \in Frames
  OBVIOUS
<1>2. /\ before \in Seq(Frames)
      /\ Len(before) = k - 1
      /\ \A i \in 1 .. k - 1 : before[i] = calls[i]
  <2> DEFINE m == k - 1
  <2>1. m \in Nat /\ \A i \in 1 .. m : calls[i] \in Frames
    BY <1>1
  <2> HIDE DEF m
  <2>2. /\ SubSeq(calls, 1, m) \in Seq(Frames)
        /\ Len(SubSeq(calls, 1, m)) = IF 1 <= m THEN m - 1 + 1 ELSE 0
        /\ \A i \in 1 .. m - 1 + 1 : SubSeq(calls, 1, m)[i] = calls[1 + i - 1]
    BY <2>1, SubSeqProperties
  <2>3. /\ Len(SubSeq(calls, 1, m)) = m
        /\ \A i \in 1 .. m : SubSeq(calls, 1, m)[i] = calls[i]
    BY <2>1, <2>2
  <2> QED BY <2>2, <2>3 DEF m
<1>3. /\ after \in Seq(Frames)
      /\ Len(after) = n - k
      /\ \A i \in 1 .. n - k : after[i] = calls[k + i]
  <2> DEFINE m == k + 1
  <2>1. m \in Int /\ \A i \in m .. n : calls[i] \in Frames
    BY <1>1
  <2> HIDE DEF m
  <2>2. /\ SubSeq(calls, m, n) \in Seq(Frames)
        /\ Len(SubSeq(calls, m, n)) = IF m <= n THEN n - m + 1 ELSE 0
        /\ \A i \in 1 .. n - m + 1 : SubSeq(calls, m, n)[i] = calls[m + i - 1]
    BY <1>1, <2>1, SubSeqProperties
  <2>3. m = k + 1
    BY DEF m
  <2>4. Len(SubSeq(calls, m, n)) = n - k
    BY <1>1, <2>2, <2>3
  <2>5. \A i \in 1 .. n - k : SubSeq(calls, m, n)[i] = calls[k + i]
    BY <1>1, <2>2, <2>3
  <2> QED BY <2>2, <2>4, <2>5 DEF m
<1> HIDE DEF before, after
<1>4. RemoveAt(calls, k) = before \o after
  BY DEF RemoveAt, before, after
<1>5. /\ before \o after \in Seq(Frames)
      /\ Len(before \o after) = Len(before) + Len(after)
      /\ \A i \in 1 .. Len(before) + Len(after) :
           (before \o after)[i] = IF i <= Len(before) THEN before[i] ELSE after[i - Len(before)]
  BY <1>2, <1>3, ConcatProperties
<1> DEFINE left == before \o after
<1> HIDE DEF left
<1>6. \A i \in 1 .. n - 1 : left[i] = IF i < k THEN calls[i] ELSE calls[i + 1]
  <2>1. ASSUME NEW i \in 1 .. n - 1, i < k PROVE left[i] = calls[i]
    BY <1>1, <1>2, <1>3, <1>5, <2>1 DEF left
  <2>2. ASSUME NEW i \in 1 .. n - 1, ~(i < k) PROVE left[i] = calls[i + 1]
    <3>1. left[i] = after[i - (k - 1)]
      BY <1>1, <1>2, <1>3, <1>5, <2>2 DEF left
    <3>2. i - (k - 1) \in 1 .. n - k
      BY <1>1, <2>2
    <3>3. after[i - (k - 1)] = calls[k + (i - (k - 1))]
      BY <1>3, <3>2
    <3>4. k + (i - (k - 1)) = i + 1
      BY <1>1
    <3> QED BY <3>1, <3>3, <3>4
  <2> QED BY <2>1, <2>2
<1>7. Len(left) = n - 1
  BY <1>1, <1>2, <1>3, <1>5 DEF left
<1> QED BY <1>4, <1>5, <1>6, <1>7 DEF left

\* What the end of the innermost call of a thread leaves: "mask" is the one it found when it
\* began or, after a pause, the one in force.
LEMMA Popping ==
  ASSUME IInv, NEW t, Innermost(t, stack) # 0,
         NEW mask, mask = IF Top(t).kind = "pause" THEN blocked ELSE Top(t).old
  PROVE  /\ Top(t) \in Frames
         /\ Innermost(t, stack) \in 1 .. Len(stack)
         /\ Sound(Without(t), mask)
         /\ ComesBack(t) /\ ~crossed' /\ ~exited => Clean(Without(t), mask)
<1> DEFINE n == Len(stack)
           k == Innermost(t, stack)
           left == Without(t)
<1>1. stack \in Seq(Frames) /\ n \in Nat /\ k \in 1 .. n
  <2>1. stack \in Seq(Frames) /\ n \in Nat
    BY DEF IInv, Sound
  <2>2. k \in 0 .. n
    BY <2>1, InnermostIsOne
  <2> QED BY <2>1, <2>2
<1>2. Top(t) = stack[k] /\ left = RemoveAt(stack, k)
  BY DEF Top, Without
<1>3. /\ left \in Seq(Frames)
      /\ Len(left) = n - 1
      /\ \A i \in 1 .. n - 1 : left[i] = IF i < k THEN stack[i] ELSE stack[i + 1]
  BY <1>1, <1>2, Removing
<1>4. ComesBack(t) /\ ~crossed' => ~crossed /\ k = n
  BY DEF ComesBack
<1> HIDE DEF k, left
<1>5. Top(t) \in Frames
  BY <1>1, <1>2
<1>6. mask \in SUBSET Sigs
  BY <1>5 DEF Frames, IInv, Sound
<1>7. Sound(left, mask)
  <2>1. ASSUME NEW i \in 1 .. n - 1
        PROVE  \E j \in 1 .. n : left[i] = stack[j]
    BY <1>1, <1>3
  <2>2. \A j \in 1 .. n : stack[j].kind = "handler"
                            => stack[j].old \cap (stack[j].todo \cup {stack[j].sig}) = {}
    BY DEF IInv, Sound
  <2>3. ASSUME NEW i \in 1 .. n - 1, left[i].kind = "handler"
        PROVE  left[i].old \cap (left[i].todo \cup {left[i].sig}) = {}
    <3>1. PICK j \in 1 .. n : left[i] = stack[j]
      BY <2>1
    <3> QED BY <2>2, <2>3, <3>1
  <2> QED BY <1>3, <1>6, <2>3 DEF Sound
<1>8. ASSUME ~crossed, k = n, ~exited PROVE Clean(left, mask)
  <2>1. Clean(stack, blocked)
    BY <1>8 DEF IInv
  <2>2. \A i \in 1 .. n - 1 : left[i] = stack[i]
    BY <1>1, <1>3, <1>8
  <2>3. \A i \in 0 .. n - 1 : OnlyPauses(left, i) <=> OnlyPauses(stack, i)
    BY <1>1, <2>2 DEF OnlyPauses
  <2>4. ASSUME NEW i \in 1 .. n - 1, OnlyPauses(left, i - 1), left[i].kind # "pause"
        PROVE  left[i].old \cap Uncatchable = {}
    <3>1. OnlyPauses(stack, i - 1) /\ i \in 1 .. n
      BY <1>1, <2>3, <2>4
    <3> QED BY <2>1, <2>2, <2>4, <3>1 DEF Clean
  <2>5. ASSUME OnlyPauses(left, n - 1) PROVE mask \cap Uncatchable = {}
    <3>1. OnlyPauses(stack, n - 1)
      BY <1>1, <2>3, <2>5
    <3>2. CASE stack[n].kind = "pause"
      <4>1. OnlyPauses(stack, n)
        BY <1>1, <3>1, <3>2 DEF OnlyPauses
      <4> QED BY <1>2, <1>8, <2>1, <3>2, <4>1 DEF Clean
    <3>3. CASE stack[n].kind # "pause"
      BY <1>1, <1>2, <1>8, <2>1, <3>1, <3>3 DEF Clean
    <3> QED BY <3>2, <3>3
  <2> QED BY <1>3, <2>4, <2>5 DEF Clean
<1> QED BY <1>1, <1>4, <1>5, <1>7, <1>8 DEF k, left

-----------------------------------------------------------------------------
(* Delivery *)

\* The delivery loop, over signals that its mask does not block, leaves sound calls, and clean
\* ones if it began so.
LEMMA Delivery ==
  ASSUME TypeOK, NEW t \in Threads, NEW pend \in SUBSET Sigs,
         NEW calls, NEW mask, Sound(calls, mask),
         NEW todo \in SUBSET (Sigs \ mask),
         DeliverFrom(t, pend, mask, todo, calls)
  PROVE  /\ pending' \in SUBSET Sigs
         /\ exited' \in BOOLEAN
         /\ ~exited' => ~exited
         /\ Sound(stack', blocked')
         /\ Clean(calls, mask) /\ ~exited' => Clean(stack', blocked')
<1> DEFINE visited == {i \in todo : i <= LastSignal}
           stops == {i \in visited : \/ action[i].handler = "user"
                                     \/ action[i].handler = "DFL" /\ i \in Fatal}
           s == Min(stops)
           later == {i \in visited : i > s}
           frame == [kind |-> "handler", thread |-> t, sig |-> s, old |-> mask, todo |-> later]
<1> USE SigsAssumption
<1>1. CASE stops = {}
  <2>1. /\ pending' = pend \ visited
        /\ blocked' = mask /\ stack' = calls
        /\ UNCHANGED exited
    BY <1>1 DEF DeliverFrom
  <2>2. exited \in BOOLEAN
    BY DEF TypeOK
  <2> HIDE DEF visited
  <2> QED BY <2>1, <2>2
<1>2. CASE stops # {} /\ action[s].handler = "DFL"
  <2>1. /\ pending' = pend \ {i \in visited : i <= s}
        /\ exited' = TRUE /\ blocked' = mask /\ stack' = <<>>
    BY <1>2 DEF DeliverFrom
  <2>2. Sound(stack', blocked')
    BY <2>1, EmptySeq DEF Sound
  <2> QED BY <2>1, <2>2
<1>3. CASE stops # {} /\ action[s].handler # "DFL"
  <2>1. s \in stops
    BY <1>3, MinOfNaturals
  <2>2. /\ pending' = pend \ {i \in visited : i <= s}
        /\ blocked' = HandlerMask(s, mask)
        /\ stack' = Append(MarkRan(t, calls), frame)
        /\ UNCHANGED exited
    BY <1>3 DEF DeliverFrom
  <2> HIDE DEF s
  <2>3. s \in todo /\ later \subseteq todo /\ s \notin later
    BY <2>1
  <2> HIDE DEF later
  <2>4. HandlerMask(s, mask) \in SUBSET Sigs
    <3>1. s \in Sigs /\ mask \in SUBSET Sigs
      BY <2>3 DEF Sound
    <3>2. action[s].mask \in SUBSET Sigs
      BY <3>1 DEF TypeOK
    <3> QED BY <3>1, <3>2 DEF HandlerMask
  <2>5. /\ frame \in Frames /\ frame.old = mask /\ frame.kind = "handler"
        /\ frame.old \cap (frame.todo \cup {frame.sig}) = {}
    BY <2>3 DEF Frames, Sound
  <2>6. /\ Sound(MarkRan(t, calls), mask)
        /\ Clean(calls, mask) => Clean(MarkRan(t, calls), mask)
    BY MarkedSound
  <2> HIDE DEF frame
  <2>7. /\ Sound(stack', blocked')
        /\ Clean(calls, mask) => Clean(stack', blocked')
    BY <2>2, <2>4, <2>5, <2>6, Pushing
  <2> QED BY <2>2, <2>7 DEF TypeOK
<1> QED BY <1>1, <1>2, <1>3

\* posix9_signal_process, called from sound calls.
LEMMA Processing ==
  ASSUME TypeOK, NEW t \in Threads, NEW pend \in SUBSET Sigs,
         NEW calls, NEW mask, Sound(calls, mask),
         Process(t, pend, calls, mask)
  PROVE  /\ pending' \in SUBSET Sigs
         /\ exited' \in BOOLEAN
         /\ ~exited' => ~exited
         /\ action' = action
         /\ alarm_installed' \in BOOLEAN
         /\ Sound(stack', blocked')
         /\ Clean(calls, mask) /\ ~exited' => Clean(stack', blocked')
<1>1. PICK cmd \in SUBSET {INT} :
        /\ DeliverFrom(t, pend \cup cmd, mask, (pend \cup cmd) \ mask, calls)
        /\ UNCHANGED action
        /\ Written \/ UNCHANGED alarm_installed
  BY DEF Process
<1> DEFINE found == pend \cup cmd
<1>2. found \in SUBSET Sigs /\ found \ mask \in SUBSET (Sigs \ mask)
  BY SigsAssumption
<1> HIDE DEF found
<1>3. /\ pending' \in SUBSET Sigs
      /\ exited' \in BOOLEAN
      /\ ~exited' => ~exited
      /\ Sound(stack', blocked')
      /\ Clean(calls, mask) /\ ~exited' => Clean(stack', blocked')
  <2>1. DeliverFrom(t, found, mask, found \ mask, calls)
    BY <1>1 DEF found
  <2> QED BY <1>2, <2>1, Delivery
<1> QED BY <1>1, <1>3 DEF Written, TypeOK

-----------------------------------------------------------------------------
(* The invariant *)

\* At the start nothing is under way and nothing is blocked.
LEMMA InitSound == Init => IInv
<1> SUFFICES ASSUME Init PROVE IInv
  OBVIOUS
<1>1. stack = <<>> /\ stack \in Seq(Frames)
  BY EmptySeq DEF Init
<1>2. Sound(stack, blocked) /\ Clean(stack, blocked)
  BY <1>1 DEF Init, Sound, Clean
<1>3. TypeOK
  BY <1>1, SigsAssumption DEF Init, TypeOK, Handlers
<1> QED BY <1>2, <1>3 DEF IInv

\* What TypeOK says of the dispositions.
Dispositions(actions) ==
  /\ actions \in [Sigs -> [handler : Handlers, mask : SUBSET Sigs,
                           flags : SUBSET {"NODEFER", "RESETHAND"}]]
  /\ \A s \in Uncatchable : actions[s].handler = "DFL"

\* A new handler is a disposition, if it is the default one or its signal can be caught.
LEMMA DispositionChange ==
  ASSUME NEW actions, Dispositions(actions), NEW s \in Sigs, NEW h \in Handlers,
         s \in Uncatchable => h = "DFL"
  PROVE  Dispositions([actions EXCEPT ![s].handler = h])
<1> DEFINE changed == [actions EXCEPT ![s].handler = h]
<1>1. changed = [actions EXCEPT ![s] = [actions[s] EXCEPT !.handler = h]]
  BY DEF Dispositions
<1>2. [actions[s] EXCEPT !.handler = h]
        \in [handler : Handlers, mask : SUBSET Sigs, flags : SUBSET {"NODEFER", "RESETHAND"}]
  BY DEF Dispositions
<1>3. changed[s].handler = h
  BY <1>1 DEF Dispositions
<1>4. \A i \in Uncatchable \ {s} : changed[i] = actions[i]
  BY <1>1 DEF Dispositions
<1> QED BY <1>1, <1>2, <1>3, <1>4, SigsAssumption DEF Dispositions

\* A handler that returns, and the rest of the loop that called it.
LEMMA ReturnSound ==
  ASSUME IInv, NEW t \in Threads, HandlerReturns(t)
  PROVE  IInv'
<1>1. /\ ~exited
      /\ Innermost(t, stack) # 0
      /\ Top(t).kind = "handler"
      /\ ComesBack(t)
      /\ DeliverFrom(t, pending, Top(t).old, Top(t).todo, Without(t))
      /\ action' = IF "RESETHAND" \in action[Top(t).sig].flags
                     THEN [action EXCEPT ![Top(t).sig].handler = "DFL"]
                     ELSE action
      /\ alarm_installed' \in BOOLEAN
  BY DEF HandlerReturns, Within, Written, IInv, TypeOK
<1>2. /\ Top(t) \in Frames
      /\ Innermost(t, stack) \in 1 .. Len(stack)
      /\ Sound(Without(t), Top(t).old)
      /\ ~crossed' => Clean(Without(t), Top(t).old)
  <2> DEFINE mask == IF Top(t).kind = "pause" THEN blocked ELSE Top(t).old
  <2>1. mask = Top(t).old
    BY <1>1
  <2> HIDE DEF mask
  <2>2. mask = IF Top(t).kind = "pause" THEN blocked ELSE Top(t).old
    BY DEF mask
  <2> QED BY <1>1, <2>1, <2>2, Popping
<1>3. Top(t).sig \in Sigs /\ Top(t).todo \in SUBSET (Sigs \ Top(t).old)
  <2>1. Top(t).sig \in Sigs /\ Top(t).todo \in SUBSET Sigs
    BY <1>1, <1>2 DEF Frames
  <2>2. Top(t).old \cap Top(t).todo = {}
    BY <1>1, <1>2 DEF IInv, Sound, Top
  <2> QED BY <2>1, <2>2
<1>4. /\ pending' \in SUBSET Sigs
      /\ exited' \in BOOLEAN
      /\ Sound(stack', blocked')
      /\ Clean(Without(t), Top(t).old) /\ ~exited' => Clean(stack', blocked')
  BY <1>1, <1>2, <1>3, Delivery DEF IInv, TypeOK
<1>5. Dispositions(action')
  <2>1. Dispositions(action)
    BY DEF IInv, TypeOK, Dispositions
  <2>2. Dispositions([action EXCEPT ![Top(t).sig].handler = "DFL"])
    BY <1>3, <2>1, DispositionChange DEF Handlers
  <2> QED BY <1>1, <2>1, <2>2
<1>6. crossed' \in BOOLEAN
  BY <1>1 DEF ComesBack, IInv, TypeOK
<1>7. TypeOK'
  BY <1>1, <1>4, <1>5, <1>6 DEF TypeOK, Sound, Dispositions
<1> QED BY <1>2, <1>4, <1>7 DEF IInv

\* A step of posix9_signal_process that no call comes back with.
LEMMA PollSound ==
  ASSUME IInv, NEW t \in Threads, NEW pend \in SUBSET Sigs,
         Process(t, pend, stack, blocked), UNCHANGED crossed
  PROVE  IInv'
<1>1. TypeOK /\ Sound(stack, blocked)
  BY DEF IInv
<1>2. /\ pending' \in SUBSET Sigs
      /\ exited' \in BOOLEAN
      /\ ~exited' => ~exited
      /\ action' = action
      /\ alarm_installed' \in BOOLEAN
      /\ Sound(stack', blocked')
      /\ Clean(stack, blocked) /\ ~exited' => Clean(stack', blocked')
  BY <1>1, Processing
<1>3. TypeOK'
  BY <1>1, <1>2 DEF TypeOK, Sound
<1> QED BY <1>2, <1>3 DEF IInv

\* A wait that ends.
LEMMA WaitSound ==
  ASSUME IInv, NEW t \in Threads, WaitEnds(t)
  PROVE  IInv'
<1> DEFINE mask == IF Top(t).kind = "pause" THEN blocked ELSE Top(t).old
<1> HIDE DEF mask
<1>1. /\ ~exited
      /\ Innermost(t, stack) # 0
      /\ ComesBack(t)
      /\ Process(t, pending, Without(t), mask)
  BY DEF WaitEnds, Within, mask
<1>2. TypeOK /\ pending \in SUBSET Sigs
  BY DEF IInv, TypeOK
<1>3. /\ Sound(Without(t), mask)
      /\ ~crossed' => Clean(Without(t), mask)
  <2>1. mask = IF Top(t).kind = "pause" THEN blocked ELSE Top(t).old
    BY DEF mask
  <2> QED BY <1>1, <2>1, Popping
<1>4. /\ pending' \in SUBSET Sigs
      /\ exited' \in BOOLEAN
      /\ action' = action
      /\ alarm_installed' \in BOOLEAN
      /\ Sound(stack', blocked')
      /\ Clean(Without(t), mask) /\ ~exited' => Clean(stack', blocked')
  BY <1>1, <1>2, <1>3, Processing
<1>5. crossed' \in BOOLEAN
  BY <1>1 DEF ComesBack, IInv, TypeOK
<1>6. TypeOK'
  BY <1>2, <1>4, <1>5 DEF TypeOK, Sound
<1> QED BY <1>3, <1>4, <1>6 DEF IInv

\* A call of pause or sigsuspend: the mask it will restore is the one in force.
LEMMA EnterSound ==
  ASSUME IInv, NEW t \in Threads, NEW kind \in {"pause", "sigsuspend"},
         NEW mask \in SUBSET Sigs, kind = "pause" => mask = blocked, Enter(t, kind, mask)
  PROVE  IInv'
<1>1. UNCHANGED crossed
  BY DEF Enter
<1>2. CASE pending \subseteq mask
  <2> DEFINE f == [kind |-> kind, thread |-> t, old |-> blocked, ran |-> FALSE]
  <2>1. f \in Frames /\ f.old = blocked /\ f.kind # "handler" /\ f.kind = kind
    BY DEF Frames, IInv, Sound
  <2>2. /\ stack' = Append(stack, f) /\ blocked' = mask
        /\ UNCHANGED <<pending, action, alarm_installed, exited>>
    BY <1>2 DEF Enter
  <2> HIDE DEF f
  <2>3. Sound(stack, blocked)
    BY DEF IInv
  <2>4. /\ Sound(stack', blocked')
        /\ Clean(stack, blocked) => Clean(stack', blocked')
    BY <2>1, <2>2, <2>3, Pushing
  <2>5. TypeOK'
    BY <1>1, <2>2, <2>4 DEF IInv, TypeOK, Sound
  <2> QED BY <1>1, <2>2, <2>4, <2>5 DEF IInv
<1>3. CASE ~(pending \subseteq mask)
  <2>1. Process(t, pending, stack, blocked)
    BY <1>3 DEF Enter
  <2>2. pending \in SUBSET Sigs
    BY DEF IInv, TypeOK
  <2> QED BY <1>1, <2>1, <2>2, PollSound
<1> QED BY <1>2, <1>3

\* An action that leaves the calls under way and the mask as they are.
LEMMA CallsAndMaskKept ==
  ASSUME IInv, TypeOK', UNCHANGED <<blocked, stack, exited, crossed>>
  PROVE  IInv'
BY DEF IInv, Sound, Clean, OnlyPauses

\* Whatever program code calls.
LEMMA CallSound ==
  ASSUME IInv, NEW t \in Threads, Call(t)
  PROVE  IInv'
<1> USE SigsAssumption
<1>1. TypeOK /\ pending \in SUBSET Sigs /\ blocked \in SUBSET Sigs
  BY DEF IInv, TypeOK
<1>2. CASE Poll(t)
  BY <1>1, <1>2, PollSound DEF Poll
<1>3. CASE Alarm \/ \E s \in Sigs : Raise(s)
  <2>1. TypeOK' /\ UNCHANGED <<blocked, stack, exited, crossed>>
    BY <1>1, <1>3 DEF TypeOK, Alarm, Raise, Written
  <2> QED BY <2>1, CallsAndMaskKept
<1>4. CASE Pause(t)
  BY <1>1, <1>4, EnterSound DEF Pause
<1>5. ASSUME NEW mask \in Masks, Sigsuspend(t, mask)
      PROVE  IInv'
  <2>1. mask \in SUBSET Sigs
    OBVIOUS
  <2> QED BY <1>5, <2>1, EnterSound DEF Sigsuspend
<1>6. ASSUME NEW s \in Sigs, NEW h \in Handlers, Signal(s, h)
      PROVE  IInv'
  <2>1. Dispositions(action)
    BY <1>1 DEF TypeOK, Dispositions
  <2>2. Dispositions(action')
    BY <1>6, <2>1, DispositionChange DEF Signal
  <2>3. TypeOK' /\ UNCHANGED <<blocked, stack, exited, crossed>>
    BY <1>1, <1>6, <2>2 DEF TypeOK, Signal, Dispositions
  <2> QED BY <2>3, CallsAndMaskKept
<1>7. ASSUME NEW s \in Sigs, NEW h \in Handlers, NEW act \in Actions, Sigaction(s, h, act)
      PROVE  IInv'
  <2>1. TypeOK' /\ UNCHANGED <<blocked, stack, exited, crossed>>
    BY <1>1, <1>7 DEF TypeOK, Sigaction
  <2> QED BY <2>1, CallsAndMaskKept
<1>8. ASSUME NEW mask \in Masks, NEW how \in {"SIG_BLOCK", "SIG_UNBLOCK", "SIG_SETMASK"},
             Sigprocmask(how, mask)
      PROVE  IInv'
  <2>1. /\ blocked' \in SUBSET Sigs /\ blocked' \cap Uncatchable = {}
        /\ UNCHANGED <<pending, action, alarm_installed, stack, exited, crossed>>
    BY <1>1, <1>8 DEF Sigprocmask, Unblockable
  <2>2. TypeOK' /\ Sound(stack', blocked')
    BY <1>1, <2>1 DEF IInv, TypeOK, Sound
  <2>3. Clean(stack, blocked) => Clean(stack', blocked')
    BY <2>1 DEF Clean, OnlyPauses
  <2> QED BY <2>1, <2>2, <2>3 DEF IInv
<1> QED BY <1>2, <1>3, <1>4, <1>5, <1>6, <1>7, <1>8 DEF Call

\* The invariant is inductive.
LEMMA Step == IInv /\ [Next]_vars => IInv'
<1> SUFFICES ASSUME IInv, [Next]_vars PROVE IInv'
  OBVIOUS
<1>1. CASE AlarmFires
  <2>1. TypeOK' /\ UNCHANGED <<blocked, stack, exited, crossed>>
    BY <1>1, SigsAssumption DEF IInv, TypeOK, AlarmFires, AlarmPosted
  <2> QED BY <2>1, CallsAndMaskKept
<1>2. ASSUME NEW t \in Threads, Call(t) PROVE IInv'
  BY <1>2, CallSound
<1>3. ASSUME NEW t \in Threads, HandlerReturns(t) PROVE IInv'
  BY <1>3, ReturnSound
<1>4. ASSUME NEW t \in Threads, WaitGoesOn(t) PROVE IInv'
  <2>1. \E pend \in SUBSET Sigs : Process(t, pend, stack, blocked)
    BY <1>4, SigsAssumption DEF WaitGoesOn, IInv, TypeOK
  <2>2. UNCHANGED crossed
    BY <1>4 DEF WaitGoesOn
  <2> QED BY <2>1, <2>2, PollSound
<1>5. ASSUME NEW t \in Threads, WaitEnds(t) PROVE IInv'
  BY <1>5, WaitSound
<1>6. CASE UNCHANGED vars
  <2>1. TypeOK' /\ UNCHANGED <<blocked, stack, exited, crossed>>
    BY <1>6 DEF vars, IInv, TypeOK
  <2> QED BY <2>1, CallsAndMaskKept
<1> QED BY <1>1, <1>2, <1>3, <1>4, <1>5, <1>6 DEF Next

\* The conjunction holds in every state.
LEMMA Invariance == Spec => []IInv
  BY InitSound, Step, PTL DEF Spec

-----------------------------------------------------------------------------
(* The theorems *)

\* Masks, dispositions and the calls under way in all threads keep their types, and SIGKILL and
\* SIGSTOP their default action, through handlers within handlers of any depth.
THEOREM TypeCorrect == Spec => []TypeOK
<1>1. IInv => TypeOK
  BY DEF IInv
<1> QED BY <1>1, Invariance, PTL

\* No delivery loop starts a handler, or will go on to one, for a signal that its mask blocks:
\* however deep the handlers are nested, whatever they and other threads do to masks and
\* dispositions, and in whatever order the threads' calls come back.
THEOREM BlockedStaysUndelivered == Spec => []NeverDeliverBlocked
<1>1. IInv => NeverDeliverBlocked
  BY DEF IInv, Sound, NeverDeliverBlocked, HandlerFrames
<1> QED BY <1>1, Invariance, PTL

\* When no call is under way in any thread SIGKILL and SIGSTOP are not blocked, although sa_mask
\* and sigsuspend's mask are taken as they are, if the calls have come back innermost first.
\* While calls are under way, or when two threads' calls have crossed, nothing is said: then main
\* code may run with SIGKILL blocked.
THEOREM KillIsUnblocked == Spec => []KillIsUnblockedAgain
<1>1. ASSUME IInv PROVE KillIsUnblockedAgain
  <2>1. ASSUME stack = <<>>, ~exited, ~crossed PROVE blocked \cap Uncatchable = {}
    <3>1. Clean(<<>>, blocked)
      BY <1>1, <2>1 DEF IInv
    <3>2. OnlyPauses(<<>>, Len(<<>>))
      BY EmptySeq DEF OnlyPauses
    <3> QED BY <3>1, <3>2 DEF Clean
  <2> QED BY <2>1 DEF KillIsUnblockedAgain
<1> QED BY <1>1, Invariance, PTL
=============================================================================
