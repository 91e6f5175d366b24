----------------------------- MODULE Names_proofs -----------------------------
(***************************************************************************)
(* Proofs about Environment and about the streams of Directories, for      *)
(* variables, limits, names and nodes of any number.  In the environment a *)
(* string is only ever added, behind all others, so that nothing a pointer *)
(* leads to changes, and the table has one pointer for a name.  In a       *)
(* directory, the entries that a stream has passed are those that come     *)
(* before its index.  The last part is about Paths: where translated paths *)
(* lead.                                                                   *)
(***************************************************************************)
EXTENDS MCNames, SequenceTheorems, FiniteSetTheorems, TLAPS

(* The environment *)

\* A table as a call finds it: strings do not overlap and end before the free storage, and no
\* name has two pointers.
SoundEnv(env) ==
  /\ env = [vars |-> env.vars, storage |-> env.storage, used |-> env.used]
  /\ env.storage \in [DOMAIN env.storage -> String]
  /\ DOMAIN env.storage \subseteq Nat
  /\ env.vars \in Seq(DOMAIN env.storage)
  /\ Len(env.vars) < MaxEnvVars
  /\ env.used \in 0 .. MaxEnvSize - 1
  /\ \A at \in DOMAIN env.storage : at + SizeOf(env.storage[at]) <= env.used
  /\ \A at, b \in DOMAIN env.storage : at < b => at + SizeOf(env.storage[at]) <= b
  /\ \A i, j \in 1 .. Len(env.vars) :
       env.storage[env.vars[i]].name = env.storage[env.vars[j]].name => i = j

\* What getenv has returned is a string of the table's storage.
HeldIn(env) == \A h \in held : h.at \in DOMAIN env.storage /\ h.string = env.storage[h.at]

\* Nothing is kept before the first call.
NotYet == ~env_initialized => environment = <<<<>>, <<>>, 0, FALSE, {}>>

EnvInv == /\ env_initialized \in BOOLEAN
          /\ NotYet
          /\ SoundEnv(init_environment)
          /\ HeldIn(init_environment)

-----------------------------------------------------------------------------
(* Helpers *)

\* A set of naturals that is not empty has a least element.
LEMMA MinOfNaturals ==
  ASSUME NEW S \in SUBSET Nat, S # {}
  PROVE  Min(S) \in S /\ \A x \in S : Min(S) <= x
<1> DEFINE R == StrictSubsetOrdering(Nat)
           Upto == {0 .. k : k \in S}
<1>1. IsWellFoundedOn(R, FiniteSubsetsOf(Nat))
  BY FS_StrictSubsetOrderingWellFounded
<1>2. Upto \subseteq FiniteSubsetsOf(Nat) /\ Upto # {}
  <2>1. ASSUME NEW k \in S PROVE 0 .. k \in FiniteSubsetsOf(Nat)
    <3>1. IsFiniteSet(0 .. k)
      BY FS_Interval
    <3> QED BY <3>1 DEF FiniteSubsetsOf
  <2> QED BY <2>1
<1>3. \E u \in Upto : \A v \in Upto : <<v, u>> \notin R
  <2> HIDE DEF R, Upto
  <2> QED BY <1>1, <1>2, WFMin
<1>4. PICK m \in S : \A y \in S : <<0 .. y, 0 .. m>> \notin R
  BY <1>3
<1>5. ASSUME NEW y \in S, y < m PROVE FALSE
  <2>1. 0 .. y \subseteq 0 .. m /\ m \in 0 .. m /\ m \notin 0 .. y
    BY <1>5
  <2>2. <<0 .. y, 0 .. m>> \in R
    BY <2>1 DEF StrictSubsetOrdering
  <2> QED BY <1>4, <2>2
<1>6. \A y \in S : m <= y
  BY <1>5
<1> QED BY <1>6 DEF Min

\* Induction from a to n, over a set.
LEMMA Induction ==
  ASSUME NEW a \in Nat, NEW n \in Nat, NEW S,
         a \in S, \A k \in a + 1 .. n : k - 1 \in S => k \in S
  PROVE  \A k \in a .. n : k \in S
<1> DEFINE Bad == {k \in a .. n : k \notin S}
<1> SUFFICES ASSUME Bad # {} PROVE FALSE
  OBVIOUS
<1>1. Bad \in SUBSET Nat
  OBVIOUS
<1> DEFINE m == Min(Bad)
<1>2. m \in Bad /\ \A k \in Bad : m <= k
  <2> HIDE DEF Bad
  <2> QED BY <1>1, MinOfNaturals
<1> HIDE DEF m
<1>3. m \in a + 1 .. n /\ m - 1 \in a .. n /\ ~(m <= m - 1)
  BY <1>2
<1>4. m - 1 \in S
  BY <1>2, <1>3
<1> QED BY <1>2, <1>3, <1>4

\* What SelectInSeq finds, if it finds anything.
LEMMA Selected ==
  ASSUME NEW n \in Nat, NEW I \in SUBSET (1 .. n),
         NEW k, k = IF I # {} THEN Min(I) ELSE 0
  PROVE  \/ k = 0 /\ I = {}
         \/ k \in I
<1>1. I \in SUBSET Nat
  OBVIOUS
<1> QED BY <1>1, MinOfNaturals

\* A sequence without its i-th element.
LEMMA Removed ==
  ASSUME NEW S, NEW s \in Seq(S), NEW i \in 1 .. Len(s)
  PROVE  /\ RemoveAt(s, i) \in Seq(S)
         /\ Len(RemoveAt(s, i)) = Len(s) - 1
         /\ \A j \in 1 .. Len(s) - 1 : RemoveAt(s, i)[j] = IF j < i THEN s[j] ELSE s[j + 1]
<1> DEFINE n == Len(s)
           before == SubSeq(s, 1, i - 1)
           after == SubSeq(s, i + 1, n)
<1>1. n \in Nat /\ i \in Int /\ \A j \in 1 .. n : s[j] \in S
  BY LenProperties, ElementOfSeq
<1>2. /\ before \in Seq(S)
      /\ Len(before) = i - 1
      /\ \A j \in 1 .. i - 1 : before[j] = s[j]
  <2>1. \A j \in 1 .. i - 1 : s[j] \in S
    BY <1>1
  <2> HIDE DEF n
  <2> QED BY <1>1, <2>1, SubSeqProperties
<1>3. /\ after \in Seq(S)
      /\ Len(after) = n - i
      /\ \A j \in 1 .. n - i : after[j] = s[i + j]
  <2>1. \A j \in i + 1 .. n : s[j] \in S
    BY <1>1
  <2>2. /\ after \in Seq(S)
        /\ Len(after) = IF i + 1 <= n THEN n - (i + 1) + 1 ELSE 0
        /\ \A j \in 1 .. n - (i + 1) + 1 : after[j] = s[i + 1 + j - 1]
    <3>1. i + 1 \in Int /\ n \in Int
      BY <1>1
    <3> HIDE DEF n
    <3> QED BY <2>1, <3>1, SubSeqProperties
  <2> QED BY <1>1, <2>2
<1>4. RemoveAt(s, i) = before \o after
  BY DEF RemoveAt
<1> HIDE DEF n, before, after
<1>5. /\ before \o after \in Seq(S)
      /\ Len(before \o after) = (i - 1) + (n - i)
      /\ \A j \in 1 .. (i - 1) + (n - i) :
           (before \o after)[j] = IF j <= i - 1 THEN before[j] ELSE after[j - (i - 1)]
  <2>1. before \in Seq(S) /\ Len(before) = i - 1 /\ after \in Seq(S) /\ Len(after) = n - i
    BY <1>2, <1>3
  <2>2. /\ before \o after \in Seq(S)
        /\ Len(before \o after) = Len(before) + Len(after)
        /\ \A j \in 1 .. Len(before) + Len(after) :
             (before \o after)[j] = IF j <= Len(before) THEN before[j] ELSE after[j - Len(before)]
    BY <2>1, ConcatProperties
  <2> QED BY <2>1, <2>2
<1>6. (i - 1) + (n - i) = n - 1
  BY <1>1
<1>7. ASSUME NEW j \in 1 .. n - 1
      PROVE  (before \o after)[j] = IF j < i THEN s[j] ELSE s[j + 1]
  <2>1. CASE j < i
    BY <1>1, <1>2, <1>5, <1>6, <2>1
  <2>2. CASE ~(j < i)
    <3>1. j - (i - 1) \in 1 .. n - i /\ i + (j - (i - 1)) = j + 1 /\ ~(j <= i - 1)
      BY <1>1, <2>2
    <3> QED BY <1>3, <1>5, <1>6, <2>2, <3>1
  <2> QED BY <2>1, <2>2
<1> QED BY <1>4, <1>5, <1>6, <1>7 DEF n

-----------------------------------------------------------------------------
(* The defaults *)

Places == 1 .. Len(default_env) + 1

\* Where the first k places are, if there are such.
PlacesUpTo(g, k) ==
  /\ g \in [1 .. k -> Nat]
  /\ \A i \in 1 .. k : g[i] = IF i = 1 THEN 0 ELSE g[i - 1] + SizeOf(default_env[i - 1])

\* Every default takes room.
LEMMA DefaultSize ==
  /\ Len(default_env) \in Nat
  /\ \A i \in 1 .. Len(default_env) :
       default_env[i] \in String /\ SizeOf(default_env[i]) \in Nat \ {0}
<1>1. default_env \in Seq(String)
  BY EnvironmentAssumption
<1>2. Len(default_env) \in Nat /\ \A i \in 1 .. Len(default_env) : default_env[i] \in String
  BY <1>1, LenProperties, ElementOfSeq
<1> QED BY <1>2, EnvironmentAssumption

\* The definition of DefaultAt has a meaning: there is such a function.
LEMMA DefaultPlaces == PlacesUpTo(DefaultAt, Len(default_env) + 1)
<1> DEFINE n == Len(default_env) + 1
           After(at, i) == at + SizeOf(default_env[i - 1])
           Good == {k \in 1 .. n : \E g : PlacesUpTo(g, k)}
           Typed == {k \in 1 .. n : DefaultAt[k] \in Nat}
<1>1. n \in Nat /\ n >= 1 /\ \A i \in 2 .. n : SizeOf(default_env[i - 1]) \in Nat
  BY DefaultSize
<1>2. 1 \in Good
  <2>1. PlacesUpTo([i \in 1 .. 1 |-> 0], 1)
    BY DEF PlacesUpTo
  <2> QED BY <1>1, <2>1
<1>3. ASSUME NEW k \in 1 + 1 .. n, k - 1 \in Good PROVE k \in Good
  <2>1. PICK g : PlacesUpTo(g, k - 1)
    BY <1>3
  <2> DEFINE f == [i \in 1 .. k |-> IF i = k THEN After(g[k - 1], k) ELSE g[i]]
  <2>2. \A i \in 1 .. k - 1 : g[i] \in Nat
    BY <1>3, <2>1 DEF PlacesUpTo
  <2>3. f \in [1 .. k -> Nat]
    BY <1>1, <1>3, <2>2
  <2>4. ASSUME NEW i \in 1 .. k
        PROVE  f[i] = IF i = 1 THEN 0 ELSE f[i - 1] + SizeOf(default_env[i - 1])
    <3>1. CASE i = k
      BY <1>1, <1>3, <3>1
    <3>2. CASE i # k
      <4>1. i \in 1 .. k - 1
        BY <1>3, <3>2
      <4>2. g[i] = IF i = 1 THEN 0 ELSE g[i - 1] + SizeOf(default_env[i - 1])
        BY <2>1, <4>1 DEF PlacesUpTo
      <4>3. f[i] = g[i] /\ (i # 1 => f[i - 1] = g[i - 1])
        BY <1>3, <3>2, <4>1
      <4> HIDE DEF f
      <4> QED BY <4>2, <4>3
    <3> QED BY <3>1, <3>2
  <2>5. PlacesUpTo(f, k)
    BY <2>3, <2>4 DEF PlacesUpTo
  <2> HIDE DEF f
  <2> QED BY <1>1, <1>3, <2>5
<1>4. n \in Good
  <2> HIDE DEF Good, n
  <2>1. \A k \in 1 .. n : k \in Good
    BY <1>1, <1>2, <1>3, Induction
  <2> QED BY <1>1, <2>1
<1>5. PICK g : PlacesUpTo(g, n)
  BY <1>4
<1>6. g = [i \in 1 .. n |-> IF i = 1 THEN 0 ELSE g[i - 1] + SizeOf(default_env[i - 1])]
  BY <1>5 DEF PlacesUpTo
<1>7. DefaultAt = [i \in 1 .. n |->
                     IF i = 1 THEN 0 ELSE DefaultAt[i - 1] + SizeOf(default_env[i - 1])]
  BY <1>6 DEF DefaultAt
<1> HIDE DEF Good
<1>8. \A k \in 1 .. n : DefaultAt[k] = IF k = 1 THEN 0
                                       ELSE DefaultAt[k - 1] + SizeOf(default_env[k - 1])
  <2> HIDE DEF n
  <2> QED BY <1>7
<1>9. \A k \in 1 .. n : k \in Typed
  <2>1. 1 \in Typed
    BY <1>1, <1>8
  <2>2. ASSUME NEW k \in 1 + 1 .. n, k - 1 \in Typed PROVE k \in Typed
    BY <1>1, <1>8, <2>2
  <2> HIDE DEF Typed
  <2> QED BY <1>1, <2>1, <2>2, Induction
<1>10. DefaultAt \in [1 .. n -> Nat]
  <2>1. \A k \in 1 .. n : DefaultAt[k] \in Nat
    BY <1>9
  <2> HIDE DEF n
  <2> QED BY <1>7, <2>1
<1> QED BY <1>8, <1>10 DEF PlacesUpTo

\* Each default ends where the next begins, or before.
LEMMA DefaultsApart ==
  \A i \in 1 .. Len(default_env), j \in Places :
    i < j => DefaultAt[i] + SizeOf(default_env[i]) <= DefaultAt[j]
<1> SUFFICES ASSUME NEW i \in 1 .. Len(default_env)
             PROVE  \A j \in Places : i < j => DefaultAt[i] + SizeOf(default_env[i]) <= DefaultAt[j]
  OBVIOUS
<1> DEFINE n == Len(default_env)
           Good == {j \in Places : DefaultAt[i] + SizeOf(default_env[i]) <= DefaultAt[j]}
<1>1. n \in Nat /\ \A k \in 1 .. n : SizeOf(default_env[k]) \in Nat
  BY DefaultSize
<1>2. \A k \in Places : /\ DefaultAt[k] \in Nat
                        /\ DefaultAt[k] = IF k = 1 THEN 0
                                          ELSE DefaultAt[k - 1] + SizeOf(default_env[k - 1])
  BY DefaultPlaces DEF PlacesUpTo, Places
<1>3. i + 1 \in Good
  <2>1. /\ i \in Places /\ i + 1 \in Places /\ i + 1 # 1 /\ (i + 1) - 1 = i
        /\ SizeOf(default_env[i]) \in Nat
    BY <1>1 DEF Places
  <2> QED BY <1>2, <2>1
<1>4. ASSUME NEW j \in (i + 1) + 1 .. n + 1, j - 1 \in Good PROVE j \in Good
  <2>1. /\ i \in Places /\ j \in Places /\ j - 1 \in Places /\ j # 1
        /\ SizeOf(default_env[i]) \in Nat /\ SizeOf(default_env[j - 1]) \in Nat
    BY <1>1 DEF Places
  <2>2. /\ DefaultAt[i] \in Nat /\ DefaultAt[j - 1] \in Nat
        /\ DefaultAt[j] = DefaultAt[j - 1] + SizeOf(default_env[j - 1])
    BY <1>2, <2>1
  <2> QED BY <1>4, <2>1, <2>2
<1>5. \A j \in i + 1 .. n + 1 : j \in Good
  <2>1. i + 1 \in Nat /\ n + 1 \in Nat
    BY <1>1
  <2> HIDE DEF Good, n
  <2> QED BY <1>3, <1>4, <2>1, Induction
<1> QED BY <1>1, <1>5 DEF Places

\* What init_environment makes is a sound table of the defaults, in their order.
LEMMA DefaultsSound ==
  ASSUME env_initialized = FALSE
  PROVE  /\ SoundEnv(init_environment)
         /\ Len(init_environment.vars) = Len(default_env)
         /\ \A i \in 1 .. Len(default_env) :
              init_environment.storage[init_environment.vars[i]] = default_env[i]
<1> DEFINE n == Len(default_env)
           vs == [i \in 1 .. n |-> DefaultAt[i]]
           ats == {DefaultAt[i] : i \in 1 .. n}
           st == [at \in ats |-> default_env[CHOOSE i \in 1 .. n : DefaultAt[i] = at]]
           env == init_environment
<1>1. env = [vars |-> vs, storage |-> st, used |-> DefaultAt[n + 1]]
  BY DEF init_environment
<1>2. /\ n \in Nat /\ n < MaxEnvVars
      /\ DefaultAt[n + 1] < MaxEnvSize
      /\ \A i \in 1 .. n : default_env[i] \in String /\ SizeOf(default_env[i]) \in Nat \ {0}
  BY DefaultSize, EnvironmentAssumption
<1>3. \A i \in 1 .. n : /\ i \in Places
                        /\ DefaultAt[i] \in Nat
                        /\ DefaultAt[i] + SizeOf(default_env[i]) <= DefaultAt[n + 1]
  <2>1. \A i \in Places : DefaultAt[i] \in Nat
    BY DefaultPlaces DEF PlacesUpTo, Places
  <2>2. n + 1 \in Places /\ \A i \in 1 .. n : i \in Places /\ i < n + 1
    BY <1>2 DEF Places
  <2> QED BY <2>1, <2>2, DefaultsApart
<1>4. DefaultAt[n + 1] \in Nat
  BY <1>2, DefaultPlaces DEF PlacesUpTo
<1>5. \A i, j \in 1 .. n : DefaultAt[i] = DefaultAt[j] => i = j
  <2>1. ASSUME NEW i \in 1 .. n, NEW j \in 1 .. n, i < j PROVE DefaultAt[i] # DefaultAt[j]
    <3>1. DefaultAt[i] + SizeOf(default_env[i]) <= DefaultAt[j]
      BY <1>3, <2>1, DefaultsApart
    <3>2. DefaultAt[i] \in Nat /\ DefaultAt[j] \in Nat /\ SizeOf(default_env[i]) \in Nat \ {0}
      BY <1>2, <1>3
    <3> QED BY <3>1, <3>2
  <2> SUFFICES ASSUME NEW i \in 1 .. n, NEW j \in 1 .. n, DefaultAt[i] = DefaultAt[j]
               PROVE  i = j
    OBVIOUS
  <2>2. ~(i < j) /\ ~(j < i)
    BY <2>1
  <2> QED BY <1>2, <2>2
<1>6. \A i \in 1 .. n : DefaultAt[i] \in ats /\ st[DefaultAt[i]] = default_env[i]
  <2> SUFFICES ASSUME NEW i \in 1 .. n PROVE st[DefaultAt[i]] = default_env[i]
    OBVIOUS
  <2> DEFINE k == CHOOSE k \in 1 .. n : DefaultAt[k] = DefaultAt[i]
  <2>1. k = i
    BY <1>5
  <2> QED BY <2>1
<1>7. \A i \in 1 .. n : vs[i] = DefaultAt[i]
  OBVIOUS
<1>8. \A at \in ats : \E i \in 1 .. n : at = DefaultAt[i]
  OBVIOUS
<1>9. vs \in Seq(ats) /\ Len(vs) = n /\ DOMAIN st = ats
  <2>1. vs \in Seq(ats)
    BY <1>2, <1>6, IsASeq
  <2> QED BY <1>2, <2>1, LenProperties
<1>10. st \in [ats -> String]
  <2>1. \A at \in ats : st[at] \in String
    BY <1>2, <1>6, <1>8
  <2> QED BY <2>1
<1> HIDE DEF vs, st, ats, n
<1>11. /\ env.vars = vs /\ env.storage = st /\ env.used = DefaultAt[n + 1]
       /\ env = [vars |-> env.vars, storage |-> env.storage, used |-> env.used]
  BY <1>1
<1> HIDE DEF env
<1>12. \A i, j \in 1 .. n : st[vs[i]].name = st[vs[j]].name => i = j
  <2>1. \A i \in 1 .. n : st[vs[i]] = default_env[i]
    BY <1>6, <1>7
  <2>2. \A i, j \in 1 .. n : default_env[i].name = default_env[j].name => i = j
    BY EnvironmentAssumption DEF n
  <2> QED BY <2>1, <2>2
<1>13. \A at \in ats : at \in Nat /\ at + SizeOf(st[at]) <= DefaultAt[n + 1]
  BY <1>3, <1>6, <1>8
<1>14. \A at, b \in ats : at < b => at + SizeOf(st[at]) <= b
  <2> SUFFICES ASSUME NEW at \in ats, NEW b \in ats, at < b PROVE at + SizeOf(st[at]) <= b
    OBVIOUS
  <2>1. PICK i \in 1 .. n : at = DefaultAt[i]
    BY <1>8
  <2>2. PICK j \in 1 .. n : b = DefaultAt[j]
    BY <1>8
  <2>3. ~(j < i)
    <3> SUFFICES ASSUME j < i PROVE FALSE
      OBVIOUS
    <3>1. DefaultAt[j] + SizeOf(default_env[j]) <= DefaultAt[i]
      BY <1>3, DefaultsApart DEF n
    <3> QED BY <1>2, <1>3, <2>1, <2>2, <3>1
  <2>4. i < j
    BY <1>2, <1>3, <2>1, <2>2, <2>3
  <2>5. DefaultAt[i] + SizeOf(default_env[i]) <= DefaultAt[j]
    BY <1>3, <2>4, DefaultsApart DEF n
  <2> QED BY <1>6, <2>1, <2>2, <2>5
<1>15. SoundEnv(env)
  <2>1. DefaultAt[n + 1] \in 0 .. MaxEnvSize - 1
    BY <1>2, <1>4, EnvironmentAssumption
  <2> QED BY <1>2, <1>9, <1>10, <1>11, <1>12, <1>13, <1>14, <2>1 DEF SoundEnv
<1>16. \A i \in 1 .. n : env.storage[env.vars[i]] = default_env[i]
  BY <1>6, <1>7, <1>11
<1> QED BY <1>9, <1>11, <1>15, <1>16 DEF n, env

-----------------------------------------------------------------------------
(* What a call finds, writes and removes *)

\* The name a pointer of the table leads to.
NameAt(env, i) == env.storage[env.vars[i]].name

\* A pointer of this name, and if there is none, none of the name is in the table.
LEMMA FoundIs ==
  ASSUME NEW env, SoundEnv(env), NEW name
  PROVE  \/ /\ Found(env, name) = 0
            /\ \A i \in 1 .. Len(env.vars) : NameAt(env, i) # name
         \/ /\ Found(env, name) \in 1 .. Len(env.vars)
            /\ NameAt(env, Found(env, name)) = name
<1> DEFINE I == {i \in 1 .. Len(env.vars) : env.storage[env.vars[i]].name = name}
<1>1. Found(env, name) = IF I # {} THEN Min(I) ELSE 0
  BY DEF Found, SelectInSeq
<1>2. Len(env.vars) \in Nat
  BY LenProperties DEF SoundEnv
<1>3. I \in SUBSET (1 .. Len(env.vars))
  OBVIOUS
<1>4. \/ Found(env, name) = 0 /\ I = {}
      \/ Found(env, name) \in I
  <2> HIDE DEF I
  <2> QED BY <1>1, <1>2, <1>3, Selected
<1> QED BY <1>4 DEF NameAt

\* A string is written behind all others, and the i-th pointer, or a new one, is set to it.
LEMMA WrittenIsSound ==
  ASSUME NEW env, SoundEnv(env), NEW string \in String, NEW i \in 1 .. Len(env.vars) + 1,
         i = Len(env.vars) + 1 => Len(env.vars) < MaxEnvVars - 1,
         env.used + SizeOf(string) < MaxEnvSize,
         \A j \in 1 .. Len(env.vars) : NameAt(env, j) = string.name => j = i
  PROVE  LET new == Written(env, i, string) IN
           /\ SoundEnv(new)
           /\ Len(new.vars) = IF i = Len(env.vars) + 1 THEN i ELSE Len(env.vars)
           /\ \A at \in DOMAIN env.storage : at \in DOMAIN new.storage
                                             /\ new.storage[at] = env.storage[at]
           /\ new.storage[new.vars[i]] = string
           /\ \A j \in 1 .. Len(env.vars) : j # i => new.vars[j] = env.vars[j]
<1> DEFINE new == Written(env, i, string)
           n == Len(env.vars)
           vs == new.vars
           st == new.storage
           old == env.storage
           u == env.used
<1>1. /\ n \in Nat /\ DOMAIN env.vars = 1 .. n
      /\ \A j \in 1 .. n : env.vars[j] \in DOMAIN old
  BY LenProperties, ElementOfSeq DEF SoundEnv
<1>2. /\ u \in Nat /\ u \notin DOMAIN old /\ u + SizeOf(string) < MaxEnvSize
      /\ SizeOf(string) \in Nat \ {0}
      /\ \A at \in DOMAIN old : /\ at \in Nat /\ old[at] \in String
                                /\ SizeOf(old[at]) \in Nat \ {0}
                                /\ at + SizeOf(old[at]) <= u
  <2>1. \A at \in DOMAIN old : at \in Nat /\ old[at] \in String /\ at + SizeOf(old[at]) <= u
    BY DEF SoundEnv
  <2>2. \A x \in String : SizeOf(x) \in Nat \ {0}
    BY EnvironmentAssumption
  <2>3. u \in Nat
    BY EnvironmentAssumption DEF SoundEnv
  <2> QED BY <2>1, <2>2, <2>3
<1>3. /\ DOMAIN st = DOMAIN old \cup {u}
      /\ st[u] = string
      /\ \A at \in DOMAIN old : st[at] = old[at]
  BY <1>2 DEF Written
<1>4. new.used = u + SizeOf(string)
      /\ new = [vars |-> new.vars, storage |-> new.storage, used |-> new.used]
  BY DEF Written
<1>5. /\ vs \in Seq(DOMAIN st)
      /\ Len(vs) = IF i = n + 1 THEN n + 1 ELSE n
      /\ vs[i] = u
      /\ \A j \in 1 .. n : j # i => vs[j] = env.vars[j]
  <2>1. env.vars \in Seq(DOMAIN st)
    <3>1. env.vars \in Seq(DOMAIN old) /\ DOMAIN old \subseteq DOMAIN st
      BY <1>3 DEF SoundEnv
    <3> HIDE DEF st
    <3> QED BY <3>1, SeqMonotonic
  <2>2. u \in DOMAIN st
    BY <1>3
  <2>3. CASE i = n + 1
    <3>1. vs = Append(env.vars, u)
      BY <1>1, <2>3 DEF Written
    <3> HIDE DEF vs, st
    <3> QED BY <1>1, <2>1, <2>2, <2>3, <3>1, AppendProperties
  <2>4. CASE i # n + 1
    <3>1. vs = [env.vars EXCEPT ![i] = u] /\ i \in 1 .. n
      BY <1>1, <2>4 DEF Written
    <3> HIDE DEF vs, st
    <3> QED BY <1>1, <2>1, <2>2, <2>4, <3>1, ExceptSeq
  <2> QED BY <2>3, <2>4
<1> HIDE DEF new, vs, st, old, u
<1>6. st \in [DOMAIN st -> String] /\ DOMAIN st \subseteq Nat
  <2>1. \A at \in DOMAIN st : at \in Nat /\ st[at] \in String
    BY <1>2, <1>3
  <2>2. st = [at \in DOMAIN st |-> st[at]]
    BY DEF st, new, Written
  <2> QED BY <2>1, <2>2
<1>7. \A at \in DOMAIN st : at + SizeOf(st[at]) <= u + SizeOf(string)
  BY <1>2, <1>3
<1>8. \A at, b \in DOMAIN st : at < b => at + SizeOf(st[at]) <= b
  <2>1. \A at, b \in DOMAIN old : at < b => at + SizeOf(old[at]) <= b
    BY DEF old, SoundEnv
  <2> SUFFICES ASSUME NEW at \in DOMAIN st, NEW b \in DOMAIN st, at < b
               PROVE  at + SizeOf(st[at]) <= b
    OBVIOUS
  <2>2. CASE b = u
    BY <1>2, <1>3, <2>2
  <2>3. CASE b # u
    <3>1. b \in DOMAIN old /\ b + SizeOf(old[b]) <= u
      BY <1>2, <1>3, <2>3
    <3>2. at # u
      BY <1>2, <3>1
    <3> QED BY <1>3, <2>1, <3>1, <3>2
  <2> QED BY <2>2, <2>3
<1>9. \A j, k \in 1 .. Len(vs) : st[vs[j]].name = st[vs[k]].name => j = k
  <2>1. \A j \in 1 .. Len(vs) : j # i => j \in 1 .. n /\ st[vs[j]].name = NameAt(env, j)
    BY <1>1, <1>3, <1>5 DEF NameAt, old
  <2>2. st[vs[i]].name = string.name
    BY <1>3, <1>5
  <2>3. \A j, k \in 1 .. n : NameAt(env, j) = NameAt(env, k) => j = k
    BY DEF SoundEnv, NameAt
  <2> QED BY <2>1, <2>2, <2>3
<1>10. Len(vs) < MaxEnvVars
  BY <1>1, <1>5, EnvironmentAssumption DEF SoundEnv
<1>11. SoundEnv(new)
  <2>1. new.used \in 0 .. MaxEnvSize - 1
    BY <1>2, <1>4, EnvironmentAssumption
  <2> QED BY <1>4, <1>5, <1>6, <1>7, <1>8, <1>9, <1>10, <2>1 DEF SoundEnv, vs, st
<1> QED BY <1>3, <1>5, <1>11 DEF new, vs, st, old

\* A pointer is taken out, and the strings stay.
LEMMA RemovalIsSound ==
  ASSUME NEW env, SoundEnv(env), NEW i \in 1 .. Len(env.vars)
  PROVE  LET new == [env EXCEPT !.vars = RemoveAt(@, i)] IN
           /\ SoundEnv(new)
           /\ new.storage = env.storage
           /\ Len(new.vars) = Len(env.vars) - 1
           /\ \A j \in 1 .. Len(env.vars) - 1 :
                new.vars[j] = IF j < i THEN env.vars[j] ELSE env.vars[j + 1]
<1> DEFINE new == [env EXCEPT !.vars = RemoveAt(@, i)]
           vs == RemoveAt(env.vars, i)
           n == Len(env.vars)
<1>1. env = [vars |-> env.vars, storage |-> env.storage, used |-> env.used]
  BY DEF SoundEnv
<1>2. new = [vars |-> vs, storage |-> env.storage, used |-> env.used]
  BY <1>1
<1>3. /\ vs \in Seq(DOMAIN env.storage)
      /\ Len(vs) = n - 1
      /\ \A j \in 1 .. n - 1 : vs[j] = IF j < i THEN env.vars[j] ELSE env.vars[j + 1]
  BY Removed DEF SoundEnv
<1>4. n \in Nat
  BY LenProperties DEF SoundEnv
<1> HIDE DEF new, vs
<1>5. /\ new.vars = vs /\ new.storage = env.storage /\ new.used = env.used
      /\ new = [vars |-> new.vars, storage |-> new.storage, used |-> new.used]
  BY <1>2
<1>6. ASSUME NEW j \in 1 .. n - 1, NEW k \in 1 .. n - 1,
             env.storage[vs[j]].name = env.storage[vs[k]].name
      PROVE  j = k
  <2> DEFINE was(m) == IF m < i THEN m ELSE m + 1
  <2>1. \A m \in 1 .. n - 1 : was(m) \in 1 .. n /\ vs[m] = env.vars[was(m)]
    BY <1>3, <1>4
  <2>2. was(j) = was(k)
    <3> DEFINE a == was(j)
               b == was(k)
    <3>1. a \in 1 .. n /\ b \in 1 .. n /\ vs[j] = env.vars[a] /\ vs[k] = env.vars[b]
      BY <2>1
    <3> HIDE DEF a, b, was
    <3>2. env.storage[env.vars[a]].name = env.storage[env.vars[b]].name
      BY <1>6, <3>1
    <3>3. a = b
      BY <3>1, <3>2 DEF SoundEnv
    <3> QED BY <3>3 DEF a, b
  <2> QED BY <1>4, <2>2
<1>7. SoundEnv(new)
  <2>1. n - 1 < MaxEnvVars
    BY <1>4, EnvironmentAssumption DEF SoundEnv
  <2> QED BY <1>3, <1>5, <1>6, <2>1 DEF SoundEnv
<1> QED BY <1>3, <1>5, <1>7 DEF new

-----------------------------------------------------------------------------
(* The calls of the environment *)

\* What a call makes of the table, the next one finds.
LEMMA Settled ==
  ASSUME NEW env, SoundEnv(env), Becomes(env)
  PROVE  init_environment' = env /\ env_initialized' = TRUE
<1>1. init_environment' = [vars |-> env.vars, storage |-> env.storage, used |-> env.used]
  BY DEF Becomes, init_environment
<1>2. env = [vars |-> env.vars, storage |-> env.storage, used |-> env.used]
  BY DEF SoundEnv
<1> QED BY <1>1, <1>2 DEF Becomes

\* Nothing is kept before the first call, and the defaults fit.
LEMMA EnvInvInit == EnvInit => EnvInv
<1> SUFFICES ASSUME EnvInit PROVE EnvInv
  OBVIOUS
<1>1. env_initialized = FALSE /\ held = {} /\ environment = <<<<>>, <<>>, 0, FALSE, {}>>
  BY DEF EnvInit, environment
<1>2. SoundEnv(init_environment)
  BY <1>1, DefaultsSound
<1> QED BY <1>1, <1>2 DEF EnvInv, NotYet, HeldIn

\* A call that leaves a sound table, with every string where it was, keeps the invariant.
LEMMA StringsStay ==
  ASSUME EnvInv, NEW env, SoundEnv(env), Becomes(env), UNCHANGED held,
         \A at \in DOMAIN init_environment.storage :
           at \in DOMAIN env.storage /\ env.storage[at] = init_environment.storage[at]
  PROVE  EnvInv'
<1>1. init_environment' = env /\ env_initialized' = TRUE
  BY Settled
<1>2. SoundEnv(init_environment)'
  <2>1. SoundEnv(init_environment')
    BY <1>1
  <2> QED BY <2>1 DEF SoundEnv
<1>3. \A h \in held' : /\ h.at \in DOMAIN env.storage
                       /\ h.string = env.storage[h.at]
  BY DEF EnvInv, HeldIn
<1>4. HeldIn(init_environment)'
  BY <1>1, <1>3 DEF HeldIn
<1>5. NotYet'
  BY <1>1 DEF NotYet
<1> QED BY <1>1, <1>2, <1>4, <1>5 DEF EnvInv

\* What a call of setenv may do: nothing, or write a string to which the only pointer of its name,
\* or else a new one, is set.
LEMMA SetenvCases ==
  ASSUME EnvInv, NEW string \in String, NEW overwrite \in BOOLEAN, setenv(string, overwrite)
  PROVE  LET env == init_environment IN
           \/ Becomes(env)
           \/ \E i \in 1 .. Len(env.vars) + 1 :
                /\ Becomes(Written(env, i, string))
                /\ i = Len(env.vars) + 1 => Len(env.vars) < MaxEnvVars - 1
                /\ env.used + SizeOf(string) < MaxEnvSize
                /\ i # Len(env.vars) + 1 => overwrite /\ NameAt(env, i) = string.name
                /\ \A j \in 1 .. Len(env.vars) : NameAt(env, j) = string.name => j = i
<1> DEFINE env == init_environment
           n == Len(env.vars)
           f == Found(env, string.name)
<1>1. SoundEnv(env)
  BY DEF EnvInv
<1> SUFFICES ASSUME ~Becomes(env)
             PROVE  \E i \in 1 .. n + 1 :
                      /\ Becomes(Written(env, i, string))
                      /\ i = n + 1 => n < MaxEnvVars - 1
                      /\ env.used + SizeOf(string) < MaxEnvSize
                      /\ i # n + 1 => overwrite /\ NameAt(env, i) = string.name
                      /\ \A j \in 1 .. n : NameAt(env, j) = string.name => j = i
  OBVIOUS
<1>2. /\ f # 0 => overwrite
      /\ f = 0 => n < MaxEnvVars - 1
      /\ env.used + SizeOf(string) < MaxEnvSize
      /\ Becomes(Written(env, IF f = 0 THEN n + 1 ELSE f, string))
  BY DEF setenv, HasRoom
<1> HIDE DEF env, f
<1>3. \/ f = 0 /\ \A j \in 1 .. n : NameAt(env, j) # string.name
      \/ f \in 1 .. n /\ NameAt(env, f) = string.name
  BY <1>1, FoundIs DEF f
<1>4. n \in Nat
  BY <1>1, LenProperties DEF SoundEnv
<1>5. CASE f = 0 /\ \A j \in 1 .. n : NameAt(env, j) # string.name
  BY <1>2, <1>4, <1>5
<1>6. CASE f \in 1 .. n /\ NameAt(env, f) = string.name
  <2>1. \A j \in 1 .. n : NameAt(env, j) = string.name => j = f
    BY <1>1, <1>6 DEF SoundEnv, NameAt
  <2> QED BY <1>2, <1>4, <1>6, <2>1
<1> QED BY <1>3, <1>5, <1>6

\* The invariant holds after every call.
LEMMA EnvInvStep == ASSUME EnvInv, [EnvNext]_environment PROVE EnvInv'
<1> DEFINE env == init_environment
<1>1. SoundEnv(env)
  BY DEF EnvInv
<1> HIDE DEF env
<1>2. ASSUME Becomes(env), UNCHANGED held PROVE EnvInv'
  BY <1>1, <1>2, StringsStay DEF env
<1>3. ASSUME NEW name \in EnvNames, getenv(name) PROVE EnvInv'
  <2> DEFINE i == Found(env, name)
  <2>1. Becomes(env)
    BY <1>3 DEF getenv, env
  <2>2. init_environment' = env /\ env_initialized' = TRUE
    BY <1>1, <2>1, Settled
  <2>3. \/ held' = held
        \/ i # 0 /\ held' = {[at |-> env.vars[i], string |-> env.storage[env.vars[i]]]}
    BY <1>3 DEF getenv, env
  <2>4. CASE held' = held
    BY <1>2, <2>1, <2>4
  <2>5. CASE i # 0 /\ held' = {[at |-> env.vars[i], string |-> env.storage[env.vars[i]]]}
    <3>1. i \in 1 .. Len(env.vars)
      BY <1>1, <2>5, FoundIs
    <3>2. env.vars[i] \in DOMAIN env.storage
      BY <1>1, <3>1, ElementOfSeq DEF SoundEnv
    <3>3. \A h \in held' : h.at \in DOMAIN env.storage /\ h.string = env.storage[h.at]
      BY <2>5, <3>2
    <3>4. HeldIn(init_environment)'
      BY <2>2, <3>3 DEF HeldIn
    <3>5. SoundEnv(init_environment)'
      <4>1. SoundEnv(init_environment')
        BY <1>1, <2>2
      <4> QED BY <4>1 DEF SoundEnv
    <3> QED BY <2>2, <3>4, <3>5 DEF EnvInv, NotYet
  <2> QED BY <2>3, <2>4, <2>5
<1>4. ASSUME NEW string \in String, NEW overwrite \in BOOLEAN, setenv(string, overwrite)
      PROVE  EnvInv'
  <2>1. UNCHANGED held
    BY <1>4 DEF setenv
  <2>2. ASSUME NEW i \in 1 .. Len(env.vars) + 1,
               Becomes(Written(env, i, string)),
               i = Len(env.vars) + 1 => Len(env.vars) < MaxEnvVars - 1,
               env.used + SizeOf(string) < MaxEnvSize,
               \A j \in 1 .. Len(env.vars) : NameAt(env, j) = string.name => j = i
        PROVE  EnvInv'
    <3> DEFINE new == Written(env, i, string)
    <3>1. /\ SoundEnv(new)
          /\ \A at \in DOMAIN env.storage : /\ at \in DOMAIN new.storage
                                            /\ new.storage[at] = env.storage[at]
      BY <1>1, <2>2, WrittenIsSound
    <3> HIDE DEF new
    <3>2. Becomes(new)
      BY <2>2 DEF new
    <3> QED BY <2>1, <3>1, <3>2, StringsStay DEF env
  <2>3. \/ Becomes(env)
        \/ \E i \in 1 .. Len(env.vars) + 1 :
             /\ Becomes(Written(env, i, string))
             /\ i = Len(env.vars) + 1 => Len(env.vars) < MaxEnvVars - 1
             /\ env.used + SizeOf(string) < MaxEnvSize
             /\ \A j \in 1 .. Len(env.vars) : NameAt(env, j) = string.name => j = i
    BY <1>4, SetenvCases DEF env
  <2> QED BY <1>2, <2>1, <2>2, <2>3
<1>5. ASSUME NEW name \in EnvNames, unsetenv(name) PROVE EnvInv'
  <2> DEFINE i == Found(env, name)
             new == [env EXCEPT !.vars = RemoveAt(@, i)]
  <2>1. UNCHANGED held /\ Becomes(IF i = 0 THEN env ELSE new)
    BY <1>5 DEF unsetenv, env
  <2>2. CASE i = 0
    BY <1>2, <2>1, <2>2
  <2>3. CASE i # 0
    <3>1. i \in 1 .. Len(env.vars)
      BY <1>1, <2>3, FoundIs
    <3>2. SoundEnv(new) /\ new.storage = env.storage
      BY <1>1, <3>1, RemovalIsSound
    <3> HIDE DEF new, i
    <3> QED BY <2>1, <2>3, <3>2, StringsStay DEF env
  <2> QED BY <2>2, <2>3
<1>6. CASE UNCHANGED environment
  <2>1. /\ init_environment' = init_environment
        /\ held' = held /\ env_initialized' = env_initialized
        /\ environment' = environment
    BY <1>6 DEF environment, init_environment
  <2>2. NotYet'
    BY <2>1 DEF EnvInv, NotYet
  <2>3. SoundEnv(init_environment)'
    <3>1. SoundEnv(init_environment')
      BY <2>1 DEF EnvInv
    <3> QED BY <3>1 DEF SoundEnv
  <2>4. HeldIn(init_environment)'
    BY <2>1 DEF EnvInv, HeldIn
  <2> QED BY <2>1, <2>2, <2>3, <2>4 DEF EnvInv
<1> QED BY <1>3, <1>4, <1>5, <1>6 DEF EnvNext, putenv

\* The invariant of the table holds in every state.
LEMMA EnvInvariance == EnvSpec => []EnvInv
<1> QED BY EnvInvInit, EnvInvStep, PTL DEF EnvSpec

\* The table as it is, before the first call and after.
LEMMA EnvNow ==
  ASSUME EnvInv
  PROVE  IF env_initialized
           THEN /\ SoundEnv([vars |-> env_vars, storage |-> env_storage, used |-> env_used])
                /\ HeldIn([vars |-> env_vars, storage |-> env_storage, used |-> env_used])
           ELSE environment = <<<<>>, <<>>, 0, FALSE, {}>>
BY DEF EnvInv, NotYet, init_environment

\* The types that are in it, before the first call and after.
LEMMA EnvInvTypes == EnvInv => EnvTypeOK
<1> SUFFICES ASSUME EnvInv PROVE EnvTypeOK
  OBVIOUS
<1>1. env_initialized \in BOOLEAN
  BY DEF EnvInv
<1>2. CASE env_initialized
  <2> DEFINE env == [vars |-> env_vars, storage |-> env_storage, used |-> env_used]
  <2>1. SoundEnv(env) /\ HeldIn(env)
    BY <1>2, EnvNow
  <2>2. env.vars = env_vars /\ env.storage = env_storage /\ env.used = env_used
    OBVIOUS
  <2> HIDE DEF env
  <2> QED BY <1>1, <2>1, <2>2 DEF EnvTypeOK, SoundEnv, HeldIn
<1>3. CASE ~env_initialized
  <2>1. env_vars = <<>> /\ env_storage = <<>> /\ env_used = 0 /\ held = {}
    BY <1>3, EnvNow DEF environment
  <2>2. <<>> \in Seq(DOMAIN env_storage) /\ Len(<<>>) = 0
    BY EmptySeq
  <2>3. DOMAIN <<>> = {} /\ <<>> \in [{} -> String]
    OBVIOUS
  <2>4. 0 < MaxEnvVars /\ 0 \in 0 .. MaxEnvSize - 1
    <3>1. DefaultAt[Len(default_env) + 1] \in Nat /\ Len(default_env) \in Nat
      BY DefaultPlaces, DefaultSize DEF PlacesUpTo
    <3> QED BY <3>1, EnvironmentAssumption
  <2> QED BY <1>1, <2>1, <2>2, <2>3, <2>4 DEF EnvTypeOK
<1> QED BY <1>1, <1>2, <1>3

\* The table keeps its NULL and the storage its size, with any number of calls and names.
THEOREM EnvTypeCorrect == EnvSpec => []EnvTypeOK
BY EnvInvTypes, EnvInvariance, PTL

\* What getenv has returned keeps what it said: no later call of setenv, putenv or unsetenv
\* writes over the string, or into it.
THEOREM WhatWasReturnedStays == EnvSpec => []HeldStays
<1>1. EnvInv => HeldStays
  <2> SUFFICES ASSUME EnvInv PROVE HeldStays
    OBVIOUS
  <2>1. CASE env_initialized
    <3> DEFINE env == [vars |-> env_vars, storage |-> env_storage, used |-> env_used]
    <3>1. SoundEnv(env) /\ HeldIn(env)
      BY <2>1, EnvNow
    <3>2. env.storage = env_storage
      OBVIOUS
    <3> HIDE DEF env
    <3>3. ASSUME NEW h \in held, NEW at \in DOMAIN env_storage, at > h.at
          PROVE  at >= h.at + SizeOf(h.string)
      <4>1. h.at \in DOMAIN env_storage /\ h.string = env_storage[h.at] /\ h.string \in String
        BY <3>1, <3>2 DEF SoundEnv, HeldIn
      <4>2. h.at \in Nat /\ at \in Nat /\ SizeOf(h.string) \in Nat
        BY <3>1, <3>2, <4>1, EnvironmentAssumption DEF SoundEnv
      <4>3. h.at < at
        BY <3>3, <4>2
      <4>4. h.at + SizeOf(env_storage[h.at]) <= at
        BY <3>1, <3>2, <4>1, <4>3 DEF SoundEnv
      <4> QED BY <4>1, <4>2, <4>4
    <3> QED BY <3>1, <3>2, <3>3 DEF HeldIn, HeldStays
  <2>2. CASE ~env_initialized
    BY <2>2, EnvNow DEF environment, HeldStays
  <2> QED BY <2>1, <2>2 DEF EnvInv
<1> QED BY <1>1, EnvInvariance, PTL

-----------------------------------------------------------------------------
(* The map that the table stands for *)

\* The map has the names of the pointers, each with the value that its pointer leads to.
LEMMA ValueIs ==
  ASSUME NEW env, SoundEnv(env)
  PROVE  /\ Value(env) = [name \in DOMAIN Value(env) |-> Value(env)[name]]
         /\ DOMAIN Value(env) = {NameAt(env, j) : j \in 1 .. Len(env.vars)}
         /\ \A j \in 1 .. Len(env.vars) :
              Value(env)[NameAt(env, j)] = env.storage[env.vars[j]].value
<1> DEFINE D == {env.storage[at].name : at \in Range(env.vars)}
           F(name) == env.storage[env.vars[Found(env, name)]].value
<1>1. Value(env) = [name \in D |-> F(name)]
  BY DEF Value
<1>2. Range(env.vars) = {env.vars[j] : j \in 1 .. Len(env.vars)}
  <2>1. DOMAIN env.vars = 1 .. Len(env.vars)
    BY LenProperties DEF SoundEnv
  <2> QED BY <2>1 DEF Range
<1>3. D = {NameAt(env, j) : j \in 1 .. Len(env.vars)}
  BY <1>2 DEF NameAt
<1>4. ASSUME NEW j \in 1 .. Len(env.vars)
      PROVE  Found(env, NameAt(env, j)) = j
  <2> DEFINE k == Found(env, NameAt(env, j))
  <2>1. k \in 1 .. Len(env.vars) /\ NameAt(env, k) = NameAt(env, j)
    BY FoundIs
  <2> HIDE DEF k
  <2>2. k = j
    BY <2>1 DEF SoundEnv, NameAt
  <2> QED BY <2>2 DEF k
<1>5. \A j \in 1 .. Len(env.vars) : F(NameAt(env, j)) = env.storage[env.vars[j]].value
  BY <1>4
<1> HIDE DEF D, F
<1>6. DOMAIN Value(env) = D /\ \A name \in D : Value(env)[name] = F(name)
  BY <1>1
<1> QED BY <1>1, <1>3, <1>5, <1>6

\* A string that is written changes the map for its name alone.
LEMMA WrittenSets ==
  ASSUME NEW env, SoundEnv(env), NEW string \in String, NEW i \in 1 .. Len(env.vars) + 1,
         i = Len(env.vars) + 1 => Len(env.vars) < MaxEnvVars - 1,
         env.used + SizeOf(string) < MaxEnvSize,
         i # Len(env.vars) + 1 => NameAt(env, i) = string.name,
         \A j \in 1 .. Len(env.vars) : NameAt(env, j) = string.name => j = i
  PROVE  Value(Written(env, i, string)) =
           [n \in DOMAIN Value(env) \cup {string.name} |->
              IF n = string.name THEN string.value ELSE Value(env)[n]]
<1> DEFINE new == Written(env, i, string)
           n == Len(env.vars)
           m == Len(new.vars)
           val == Value(env)
           after == Value(new)
<1>1. /\ SoundEnv(new)
      /\ m = IF i = n + 1 THEN i ELSE n
      /\ \A at \in DOMAIN env.storage : at \in DOMAIN new.storage
                                        /\ new.storage[at] = env.storage[at]
      /\ new.storage[new.vars[i]] = string
      /\ \A j \in 1 .. n : j # i => new.vars[j] = env.vars[j]
  BY WrittenIsSound
<1>2. n \in Nat /\ \A j \in 1 .. n : env.vars[j] \in DOMAIN env.storage
  BY LenProperties, ElementOfSeq DEF SoundEnv
<1>3. i \in 1 .. m /\ NameAt(new, i) = string.name
  BY <1>1, <1>2 DEF NameAt
<1>4. \A j \in 1 .. m : j # i =>
        /\ j \in 1 .. n
        /\ new.storage[new.vars[j]] = env.storage[env.vars[j]]
        /\ NameAt(new, j) = NameAt(env, j)
        /\ NameAt(env, j) # string.name
  <2> SUFFICES ASSUME NEW j \in 1 .. m, j # i
               PROVE  /\ j \in 1 .. n
                      /\ new.storage[new.vars[j]] = env.storage[env.vars[j]]
                      /\ NameAt(env, j) # string.name
    BY DEF NameAt
  <2>1. j \in 1 .. n
    BY <1>1, <1>2
  <2> QED BY <1>1, <1>2, <2>1
<1>5. /\ val = [x \in DOMAIN val |-> val[x]]
      /\ DOMAIN val = {NameAt(env, j) : j \in 1 .. n}
      /\ \A j \in 1 .. n : val[NameAt(env, j)] = env.storage[env.vars[j]].value
  BY ValueIs
<1> HIDE DEF new
<1>6. /\ after = [x \in DOMAIN after |-> after[x]]
      /\ DOMAIN after = {NameAt(new, j) : j \in 1 .. m}
      /\ \A j \in 1 .. m : after[NameAt(new, j)] = new.storage[new.vars[j]].value
  BY <1>1, ValueIs
<1> HIDE DEF val, after, m
<1>7. DOMAIN after = DOMAIN val \cup {string.name}
  <2>1. ASSUME NEW x \in DOMAIN after PROVE x \in DOMAIN val \cup {string.name}
    <3>1. PICK j \in 1 .. m : x = NameAt(new, j)
      BY <1>6
    <3> QED BY <1>3, <1>4, <1>5, <3>1
  <2>2. string.name \in DOMAIN after
    BY <1>3, <1>6
  <2>3. ASSUME NEW x \in DOMAIN val PROVE x \in DOMAIN after
    <3>1. PICK j \in 1 .. n : x = NameAt(env, j)
      BY <1>5
    <3>2. CASE j = i
      <4>1. i # n + 1
        BY <1>2, <3>2
      <4> QED BY <2>2, <3>1, <3>2, <4>1
    <3>3. CASE j # i
      <4>1. j \in 1 .. m
        BY <1>1, <1>2, <3>3 DEF m
      <4> QED BY <1>4, <1>6, <3>1, <3>3, <4>1
    <3> QED BY <3>2, <3>3
  <2> QED BY <2>1, <2>2, <2>3
<1>8. ASSUME NEW x \in DOMAIN after
      PROVE  after[x] = IF x = string.name THEN string.value ELSE val[x]
  <2>1. PICK j \in 1 .. m : x = NameAt(new, j)
    BY <1>6
  <2>2. CASE j = i
    BY <1>1, <1>3, <1>6, <2>1, <2>2
  <2>3. CASE j # i
    <3>1. /\ j \in 1 .. n
          /\ x = NameAt(env, j) /\ x # string.name
          /\ new.storage[new.vars[j]] = env.storage[env.vars[j]]
      BY <1>4, <2>1, <2>3
    <3>2. after[x] = new.storage[new.vars[j]].value
      BY <1>6, <2>1
    <3>3. val[x] = env.storage[env.vars[j]].value
      BY <1>5, <3>1
    <3> QED BY <3>1, <3>2, <3>3
  <2> QED BY <2>2, <2>3
<1>9. after = [x \in DOMAIN val \cup {string.name} |->
                 IF x = string.name THEN string.value ELSE val[x]]
  BY <1>6, <1>7, <1>8
<1> QED BY <1>9 DEF new, val, after

\* A pointer that is removed takes its name out of the map, and no other.
LEMMA RemovalUnsets ==
  ASSUME NEW env, SoundEnv(env), NEW i \in 1 .. Len(env.vars)
  PROVE  Value([env EXCEPT !.vars = RemoveAt(@, i)]) =
           Restrict(Value(env), DOMAIN Value(env) \ {NameAt(env, i)})
<1> DEFINE new == [env EXCEPT !.vars = RemoveAt(@, i)]
           n == Len(env.vars)
           val == Value(env)
           after == Value(new)
<1>1. /\ SoundEnv(new)
      /\ new.storage = env.storage
      /\ Len(new.vars) = n - 1
      /\ \A j \in 1 .. n - 1 : new.vars[j] = IF j < i THEN env.vars[j] ELSE env.vars[j + 1]
  BY RemovalIsSound
<1> HIDE DEF new
<1>2. n \in Nat
  BY LenProperties DEF SoundEnv
<1>3. /\ val = [x \in DOMAIN val |-> val[x]]
      /\ DOMAIN val = {NameAt(env, j) : j \in 1 .. n}
      /\ \A j \in 1 .. n : val[NameAt(env, j)] = env.storage[env.vars[j]].value
  BY ValueIs
<1>4. /\ after = [x \in DOMAIN after |-> after[x]]
      /\ DOMAIN after = {NameAt(new, j) : j \in 1 .. n - 1}
      /\ \A j \in 1 .. n - 1 : after[NameAt(new, j)] = new.storage[new.vars[j]].value
  BY <1>1, ValueIs
<1> DEFINE was(j) == IF j < i THEN j ELSE j + 1
<1>5. \A j \in 1 .. n - 1 : /\ was(j) \in 1 .. n \ {i}
                            /\ new.vars[j] = env.vars[was(j)]
  BY <1>1, <1>2
<1>6. \A j \in 1 .. n - 1 : /\ NameAt(new, j) = NameAt(env, was(j))
                            /\ new.storage[new.vars[j]] = env.storage[env.vars[was(j)]]
  <2> HIDE DEF was
  <2> QED BY <1>1, <1>5 DEF NameAt
<1>7. \A k \in 1 .. n \ {i} : \E j \in 1 .. n - 1 : k = was(j)
  <2> SUFFICES ASSUME NEW k \in 1 .. n \ {i} PROVE \E j \in 1 .. n - 1 : k = was(j)
    OBVIOUS
  <2>1. CASE k < i
    BY <1>2, <2>1
  <2>2. CASE ~(k < i)
    <3>1. k - 1 \in 1 .. n - 1 /\ ~(k - 1 < i) /\ k = (k - 1) + 1
      BY <1>2, <2>2
    <3> QED BY <3>1
  <2> QED BY <2>1, <2>2
<1> HIDE DEF was
<1>8. \A k \in 1 .. n : NameAt(env, k) = NameAt(env, i) => k = i
  BY DEF SoundEnv, NameAt
<1> HIDE DEF val, after
<1>9. DOMAIN after = DOMAIN val \ {NameAt(env, i)}
  <2>1. ASSUME NEW x \in DOMAIN after PROVE x \in DOMAIN val \ {NameAt(env, i)}
    <3>1. PICK j \in 1 .. n - 1 : x = NameAt(new, j)
      BY <1>4
    <3>2. x = NameAt(env, was(j)) /\ was(j) \in 1 .. n \ {i}
      BY <1>5, <1>6, <3>1
    <3> QED BY <1>3, <1>8, <3>2
  <2>2. ASSUME NEW x \in DOMAIN val \ {NameAt(env, i)} PROVE x \in DOMAIN after
    <3>1. PICK k \in 1 .. n : x = NameAt(env, k)
      BY <1>3
    <3>2. PICK j \in 1 .. n - 1 : k = was(j)
      BY <1>7, <3>1
    <3> QED BY <1>4, <1>6, <3>1, <3>2
  <2> QED BY <2>1, <2>2
<1>10. ASSUME NEW x \in DOMAIN after PROVE after[x] = val[x]
  <2>1. PICK j \in 1 .. n - 1 : x = NameAt(new, j)
    BY <1>4
  <2>2. x = NameAt(env, was(j)) /\ was(j) \in 1 .. n
    BY <1>5, <1>6, <2>1
  <2> QED BY SMTT(40), <1>3, <1>4, <1>6, <2>1, <2>2
<1>11. after = Restrict(val, DOMAIN val \ {NameAt(env, i)})
  BY <1>4, <1>9, <1>10 DEF Restrict
<1> QED BY <1>11 DEF new, val, after

\* The first table stands for the defaults.
LEMMA DefaultValue ==
  ASSUME env_initialized = FALSE
  PROVE  Value(init_environment) = DefaultMap
<1> DEFINE env == init_environment
           n == Len(default_env)
           val == Value(env)
           names == {string.name : string \in Range(default_env)}
           Of(name) == (CHOOSE string \in Range(default_env) : string.name = name).value
<1>1. /\ SoundEnv(env) /\ Len(env.vars) = n
      /\ \A i \in 1 .. n : env.storage[env.vars[i]] = default_env[i]
  BY DefaultsSound
<1> HIDE DEF env
<1>2. /\ val = [x \in DOMAIN val |-> val[x]]
      /\ DOMAIN val = {NameAt(env, j) : j \in 1 .. n}
      /\ \A j \in 1 .. n : val[NameAt(env, j)] = env.storage[env.vars[j]].value
  BY <1>1, ValueIs
<1>3. Range(default_env) = {default_env[i] : i \in 1 .. n}
  <2>1. default_env \in Seq(String)
    BY EnvironmentAssumption
  <2>2. DOMAIN default_env = 1 .. n
    BY <2>1, LenProperties
  <2> QED BY <2>2 DEF Range
<1>4. \A i \in 1 .. n : NameAt(env, i) = default_env[i].name
                        /\ val[default_env[i].name] = default_env[i].value
  BY <1>1, <1>2 DEF NameAt
<1>5. \A i \in 1 .. n : Of(default_env[i].name) = default_env[i].value
  <2> SUFFICES ASSUME NEW i \in 1 .. n
               PROVE  (CHOOSE string \in Range(default_env) : string.name = default_env[i].name)
                        = default_env[i]
    OBVIOUS
  <2>1. default_env[i] \in Range(default_env)
    BY <1>3
  <2>2. ASSUME NEW string \in Range(default_env), string.name = default_env[i].name
        PROVE  string = default_env[i]
    <3>1. PICK j \in 1 .. n : string = default_env[j]
      BY <1>3
    <3>2. j = i
      BY <2>2, <3>1, EnvironmentAssumption
    <3> QED BY <3>1, <3>2
  <2> QED BY <2>1, <2>2
<1>6. DefaultMap = [name \in names |-> Of(name)]
  BY DEF DefaultMap
<1> HIDE DEF val, Of
<1>7. DOMAIN val = names
  BY <1>2, <1>3, <1>4
<1>8. \A x \in names : val[x] = Of(x)
  BY <1>3, <1>4, <1>5
<1> HIDE DEF names
<1>9. val = DefaultMap
  BY <1>2, <1>6, <1>7, <1>8
<1> QED BY <1>9 DEF val, env

\* The table is a map: each call of setenv, putenv or unsetenv changes what it stands for by one
\* name, or not at all, and getenv never; what init_environment does is not seen.
THEOREM EnvironmentIsMap == EnvSpec => ImplementsEnvMap
<1>1. EnvInit => Map!Init
  BY DefaultValue DEF EnvInit, Map!Init
<1>2. EnvInv /\ [EnvNext]_environment => [Map!Next]_(Value(init_environment))
  <2> SUFFICES ASSUME EnvInv, [EnvNext]_environment
               PROVE  Map!Next \/ Value(init_environment)' = Value(init_environment)
    BY DEF Map!Next
  <2> DEFINE env == init_environment
  <2>1. SoundEnv(env)
    BY DEF EnvInv
  <2>2. ASSUME NEW e, init_environment' = e
        PROVE  Value(init_environment)' = Value(e)
    BY <2>2 DEF Value, Found, SelectInSeq
  <2> HIDE DEF env
  <2>3. ASSUME NEW new, SoundEnv(new), Becomes(new)
        PROVE  Value(init_environment)' = Value(new)
    BY <2>2, <2>3, Settled
  <2>4. ASSUME NEW name \in EnvNames, getenv(name)
        PROVE  Value(init_environment)' = Value(init_environment)
    <3>1. Becomes(env)
      BY <2>4 DEF getenv, env
    <3> QED BY <2>1, <2>3, <3>1 DEF env
  <2>5. ASSUME NEW string \in String, NEW overwrite \in BOOLEAN, setenv(string, overwrite)
        PROVE  Map!Next \/ Value(init_environment)' = Value(init_environment)
    <3>1. CASE Becomes(env)
      BY <2>1, <2>3, <3>1 DEF env
    <3>2. ASSUME NEW i \in 1 .. Len(env.vars) + 1,
                 Becomes(Written(env, i, string)),
                 i = Len(env.vars) + 1 => Len(env.vars) < MaxEnvVars - 1,
                 env.used + SizeOf(string) < MaxEnvSize,
                 i # Len(env.vars) + 1 => overwrite /\ NameAt(env, i) = string.name,
                 \A j \in 1 .. Len(env.vars) : NameAt(env, j) = string.name => j = i
          PROVE  Map!Next
      <4> DEFINE new == Written(env, i, string)
      <4>1. SoundEnv(new)
        BY <2>1, <3>2, WrittenIsSound
      <4>2. Value(new) = [n \in DOMAIN Value(env) \cup {string.name} |->
                            IF n = string.name THEN string.value ELSE Value(env)[n]]
        BY <2>1, <3>2, WrittenSets, ZenonT(60)
      <4>3. overwrite \/ string.name \notin DOMAIN Value(env)
        <5>1. CASE overwrite
          BY <5>1
        <5>2. CASE ~overwrite
          <6>1. i = Len(env.vars) + 1
            BY <3>2, <5>2
          <6>2. Len(env.vars) \in Nat
            BY <2>1, LenProperties DEF SoundEnv
          <6>3. \A j \in 1 .. Len(env.vars) : NameAt(env, j) # string.name
            BY <3>2, <6>1, <6>2
          <6>4. DOMAIN Value(env) = {NameAt(env, j) : j \in 1 .. Len(env.vars)}
            BY <2>1, ValueIs
          <6> QED BY <6>3, <6>4
        <5> QED BY <5>1, <5>2
      <4> HIDE DEF new
      <4>4. Becomes(new)
        BY <3>2 DEF new
      <4>5. Value(init_environment)' = Value(new)
        BY <2>3, <4>1, <4>4
      <4>6. string.name \in EnvNames /\ string.value \in EnvValues
        BY DEF String
      <4>7. Map!Set(string.name, string.value, overwrite)
        BY <4>2, <4>3, <4>5 DEF Map!Set, env
      <4> QED BY <4>6, <4>7 DEF Map!Next
    <3>3. \/ Becomes(env)
          \/ \E i \in 1 .. Len(env.vars) + 1 :
               /\ Becomes(Written(env, i, string))
               /\ i = Len(env.vars) + 1 => Len(env.vars) < MaxEnvVars - 1
               /\ env.used + SizeOf(string) < MaxEnvSize
               /\ i # Len(env.vars) + 1 => overwrite /\ NameAt(env, i) = string.name
               /\ \A j \in 1 .. Len(env.vars) : NameAt(env, j) = string.name => j = i
      BY <2>5, SetenvCases DEF env
    <3> QED BY <3>1, <3>2, <3>3
  <2>6. ASSUME NEW name \in EnvNames, unsetenv(name)
        PROVE  Map!Next \/ Value(init_environment)' = Value(init_environment)
    <3> DEFINE i == Found(env, name)
               new == [env EXCEPT !.vars = RemoveAt(@, i)]
    <3>1. Becomes(IF i = 0 THEN env ELSE new)
      BY <2>6 DEF unsetenv, env
    <3>2. CASE i = 0
      BY <2>1, <2>3, <3>1, <3>2 DEF env
    <3>3. CASE i # 0
      <4>1. i \in 1 .. Len(env.vars) /\ NameAt(env, i) = name
        BY <2>1, <3>3, FoundIs
      <4>2. SoundEnv(new)
        BY <2>1, <4>1, RemovalIsSound
      <4>3. Value(new) = Restrict(Value(env), DOMAIN Value(env) \ {NameAt(env, i)})
        BY <2>1, <4>1, RemovalUnsets
      <4> HIDE DEF new, i
      <4>4. Becomes(new)
        BY <3>1, <3>3
      <4>5. Value(init_environment)' = Value(new)
        BY <2>3, <4>2, <4>4
      <4>6. Map!Unset(name)
        BY <4>1, <4>3, <4>5 DEF Map!Unset, Map!Restrict, Restrict, env
      <4> QED BY <4>6 DEF Map!Next
    <3> QED BY <3>2, <3>3
  <2>7. CASE UNCHANGED environment
    <3>1. init_environment' = init_environment
      BY <2>7 DEF environment, init_environment
    <3> QED BY <2>2, <3>1
  <2> QED BY <2>4, <2>5, <2>6, <2>7 DEF EnvNext, putenv
<1> QED BY <1>1, <1>2, EnvInvariance, PTL DEF EnvSpec, ImplementsEnvMap, Map!Spec

-----------------------------------------------------------------------------
(* The Macintosh paths *)

Macs == Names \cup {":"}

\* Where the loop over the parts stands, and a turn of it.
LoopState == [mac : Seq(Macs), atSlash : BOOLEAN]

Turn(so, part) ==
  IF so.atSlash /\ part = ".."
    THEN [mac |-> so.mac \o <<":", ":">>, atSlash |-> FALSE]
    ELSE [mac |-> so.mac \o (IF so.atSlash THEN <<":">> ELSE <<>>) \o <<part>>, atSlash |-> TRUE]

\* f says where the loop stands after each of the first k parts.
Loop(f, parts, slash, k) ==
  /\ f \in [0 .. k -> LoopState]
  /\ f[0] = [mac |-> <<>>, atSlash |-> slash]
  /\ \A i \in 1 .. k : f[i] = Turn(f[i - 1], parts[i])

\* A turn of the loop leaves a path of names and colons.
LEMMA TurnType ==
  ASSUME NEW so \in LoopState, NEW part \in Names
  PROVE  Turn(so, part) \in LoopState
<1>1. /\ so.mac \in Seq(Macs)
      /\ <<":", ":">> \in Seq(Macs) /\ <<":">> \in Seq(Macs) /\ <<>> \in Seq(Macs)
      /\ <<part>> \in Seq(Macs)
  BY DEF Macs, LoopState
<1>2. \A p, q \in Seq(Macs) : p \o q \in Seq(Macs)
  BY ConcatProperties
<1>3. /\ so.mac \o <<":", ":">> \in Seq(Macs)
      /\ so.mac \o <<":">> \o <<part>> \in Seq(Macs)
      /\ so.mac \o <<>> \o <<part>> \in Seq(Macs)
  BY <1>1, <1>2
<1> QED BY <1>3 DEF Turn, LoopState

\* The loop of posix9_path_to_mac, turn by turn.
LEMMA PartsIsLoop ==
  ASSUME NEW parts \in Seq(Names), NEW slash \in BOOLEAN
  PROVE  \E f : /\ Loop(f, parts, slash, Len(parts))
                /\ Parts(parts, slash) = f[Len(parts)].mac
<1> DEFINE n == Len(parts)
           start == [mac |-> <<>>, atSlash |-> slash]
           Good == {k \in 0 .. n : \E f : Loop(f, parts, slash, k)}
<1>1. n \in Nat /\ \A i \in 1 .. n : parts[i] \in Names
  BY LenProperties, ElementOfSeq
<1>2. start \in LoopState
  BY EmptySeq DEF LoopState
<1>3. 0 \in Good
  <2>1. Loop([i \in 0 .. 0 |-> start], parts, slash, 0)
    BY <1>2 DEF Loop
  <2> QED BY <1>1, <2>1
<1>4. ASSUME NEW k \in 0 + 1 .. n, k - 1 \in Good PROVE k \in Good
  <2>1. PICK g : Loop(g, parts, slash, k - 1)
    BY <1>4
  <2> DEFINE f == [i \in 0 .. k |-> IF i = k THEN Turn(g[k - 1], parts[k]) ELSE g[i]]
  <2>2. \A i \in 0 .. k - 1 : g[i] \in LoopState
    BY <1>4, <2>1 DEF Loop
  <2>3. Turn(g[k - 1], parts[k]) \in LoopState
    BY <1>1, <1>4, <2>2, TurnType
  <2>4. f \in [0 .. k -> LoopState]
    <3> QED BY <1>4, <2>2, <2>3
  <2>5. f[0] = start
    BY <1>4, <2>1 DEF Loop
  <2>6. ASSUME NEW i \in 1 .. k PROVE f[i] = Turn(f[i - 1], parts[i])
    <3>1. f[i - 1] = g[i - 1]
      BY <1>4
    <3>2. CASE i = k
      <4>1. f[i] = Turn(g[k - 1], parts[k])
        BY <1>4, <3>2
      <4> QED BY <3>1, <3>2, <4>1
    <3>3. CASE i # k
      <4>1. f[i] = g[i] /\ i \in 1 .. k - 1
        BY <1>4, <3>3
      <4> HIDE DEF f
      <4> QED BY <2>1, <3>1, <4>1 DEF Loop
    <3> QED BY <3>2, <3>3
  <2>7. Loop(f, parts, slash, k)
    BY <2>4, <2>5, <2>6 DEF Loop
  <2> HIDE DEF f
  <2> QED BY <1>1, <1>4, <2>7
<1>5. n \in Good
  <2> HIDE DEF Good, n
  <2>1. \A k \in 0 .. n : k \in Good
    BY <1>1, <1>3, <1>4, Induction
  <2> QED BY <1>1, <2>1
<1>6. PICK g : Loop(g, parts, slash, n)
  BY <1>5
<1> DEFINE Eq(h) == h = [i \in 0 .. n |-> IF i = 0 THEN start ELSE Turn(h[i - 1], parts[i])]
<1>7. Eq(g)
  BY <1>1, <1>6 DEF Loop
<1> DEFINE f == CHOOSE h : Eq(h)
<1>8. Eq(f)
  <2> HIDE DEF Eq
  <2> QED BY <1>7
<1>9. Parts(parts, slash) = f[n].mac
  BY DEF Parts, Turn
<1> HIDE DEF f, Good
<1>10. f[0] = start /\ \A i \in 1 .. n : f[i] = Turn(f[i - 1], parts[i])
  BY <1>1, <1>8
<1> DEFINE Typed == {k \in 0 .. n : f[k] \in LoopState}
<1>11. \A k \in 0 .. n : k \in Typed
  <2>1. 0 \in Typed
    BY <1>1, <1>2, <1>10
  <2>2. ASSUME NEW k \in 0 + 1 .. n, k - 1 \in Typed PROVE k \in Typed
    <3>1. k \in 1 .. n /\ k \in 0 .. n /\ f[k - 1] \in LoopState /\ parts[k] \in Names
      BY <1>1, <2>2
    <3>2. Turn(f[k - 1], parts[k]) \in LoopState
      BY <3>1, TurnType
    <3> QED BY <1>10, <3>1, <3>2
  <2> HIDE DEF Typed, n
  <2> QED BY <1>1, <2>1, <2>2, Induction
<1>12. Loop(f, parts, slash, n)
  <2>1. \A k \in 0 .. n : f[k] \in LoopState
    BY <1>11
  <2>2. f \in [0 .. n -> LoopState]
    <3> HIDE DEF n
    <3> QED BY <1>8, <2>1
  <2> QED BY <1>10, <2>2 DEF Loop
<1> QED BY <1>9, <1>12

\* And so does the loop.
LEMMA PartsType ==
  ASSUME NEW parts \in Seq(Names), NEW slash \in BOOLEAN
  PROVE  Parts(parts, slash) \in Seq(Macs)
<1>1. PICK f : /\ Loop(f, parts, slash, Len(parts))
               /\ Parts(parts, slash) = f[Len(parts)].mac
  BY PartsIsLoop
<1>2. Len(parts) \in Nat
  BY LenProperties
<1> QED BY <1>1, <1>2 DEF Loop, LoopState

\* Every slash a colon, which is what the other translation does.
LEMMA PartsLiteralType ==
  ASSUME NEW parts \in Seq(Names), NEW slash \in BOOLEAN
  PROVE  PartsLiteral(parts, slash) \in Seq(Macs)
<1> DEFINE n == Len(parts)
           at(i) == IF i % 2 = 1 THEN ":" ELSE parts[i \div 2]
           joined == [i \in 1 .. 2 * n |-> at(i)]
<1>1. n \in Nat /\ \A i \in 1 .. n : parts[i] \in Names
  BY LenProperties, ElementOfSeq
<1>2. \A i \in 1 .. 2 * n : at(i) \in Macs
  <2> SUFFICES ASSUME NEW i \in 1 .. 2 * n, i % 2 # 1 PROVE parts[i \div 2] \in Macs
    BY DEF Macs
  <2>1. i \div 2 \in 1 .. n
    BY <1>1
  <2> QED BY <1>1, <2>1 DEF Macs
<1>3. joined \in Seq(Macs)
  <2> HIDE DEF at
  <2>1. 2 * n \in Nat
    BY <1>1
  <2> HIDE DEF n
  <2> QED BY <1>2, <2>1, IsASeq
<1>4. CASE slash \/ parts = <<>>
  BY <1>3, <1>4 DEF PartsLiteral
<1>5. CASE ~(slash \/ parts = <<>>)
  <2>1. PartsLiteral(parts, slash) = Tail(joined)
    BY <1>5 DEF PartsLiteral
  <2>2. n # 0
    BY <1>5, EmptySeq
  <2>3. joined # <<>>
    <3>1. DOMAIN joined = 1 .. 2 * n /\ 1 \in DOMAIN joined
      BY <1>1, <2>2
    <3> HIDE DEF joined
    <3>2. DOMAIN <<>> = {}
      OBVIOUS
    <3> QED BY <3>1, <3>2
  <2> HIDE DEF joined
  <2> QED BY <1>3, <2>1, <2>3, HeadTailProperties
<1> QED BY <1>4, <1>5

\* A path whose last colon is taken away is a path.
LEMMA TrimmedType == ASSUME NEW path \in Seq(Macs) PROVE Trimmed(path) \in Seq(Macs)
<1>1. Len(path) \in Nat /\ \A i \in 1 .. Len(path) - 1 : path[i] \in Macs
  BY LenProperties, ElementOfSeq
<1>2. SubSeq(path, 1, Len(path) - 1) \in Seq(Macs)
  BY <1>1, SubSeqProperties
<1> QED BY <1>2 DEF Trimmed, Front

\* Both translations give sequences of names and colons.
LEMMA MacPathType ==
  ASSUME NEW p \in AllPaths
  PROVE  MacPath[p] \in Seq(Macs) /\ BasicPath[p] \in Seq(Macs)
<1>1. p.start \in {"here", "root", "volume"} /\ p.parts \in Seq(Names)
  BY DirectoryAssumption
<1>2. \A q, r \in Seq(Macs) : q \o r \in Seq(Macs)
  BY ConcatProperties
<1>3. /\ <<Volume>> \in Seq(Macs) /\ <<Volume, ":">> \in Seq(Macs)
      /\ <<":">> \in Seq(Macs) /\ <<":", ":">> \in Seq(Macs) /\ <<>> \in Seq(Macs)
  BY PathAssumption DEF Macs
<1>4. \A slash \in BOOLEAN : /\ Parts(p.parts, slash) \in Seq(Macs)
                             /\ PartsLiteral(p.parts, slash) \in Seq(Macs)
  BY <1>1, PartsType, PartsLiteralType
<1>5. p.parts # <<>> => Parts(Tail(p.parts), FALSE) \in Seq(Macs)
  <2>1. p.parts # <<>> => Tail(p.parts) \in Seq(Names)
    BY <1>1, HeadTailProperties
  <2> QED BY <2>1, PartsType
<1>6. posix9_path_to_mac(p) \in Seq(Macs)
  <2>1. CASE p.start = "volume"
    <3>1. posix9_path_to_mac(p) = Trimmed(<<Volume>> \o Parts(p.parts, TRUE))
      BY <2>1 DEF posix9_path_to_mac, Relative
    <3>2. <<Volume>> \o Parts(p.parts, TRUE) \in Seq(Macs)
      BY <1>2, <1>3, <1>4
    <3> QED BY <3>1, <3>2, TrimmedType
  <2>2. CASE p.start = "root"
    <3>1. posix9_path_to_mac(p) = Trimmed(<<Volume, ":">> \o Parts(p.parts, FALSE))
      BY <2>2 DEF posix9_path_to_mac, Relative
    <3>2. <<Volume, ":">> \o Parts(p.parts, FALSE) \in Seq(Macs)
      BY <1>2, <1>3, <1>4
    <3> QED BY <3>1, <3>2, TrimmedType
  <2>3. CASE Relative(p)
    <3> DEFINE path == IF p.parts = <<>> THEN <<>>
                       ELSE IF p.parts[1] = "." THEN <<":">> \o Parts(Tail(p.parts), FALSE)
                       ELSE IF p.parts[1] = ".."
                         THEN <<":", ":">> \o Parts(Tail(p.parts), FALSE)
                       ELSE <<":">> \o Parts(p.parts, FALSE)
    <3>1. path \in Seq(Macs)
      BY <1>2, <1>3, <1>4, <1>5
    <3>2. posix9_path_to_mac(p) = Trimmed(path)
      BY <2>3 DEF posix9_path_to_mac, Relative
    <3> HIDE DEF path
    <3> QED BY <3>1, <3>2, TrimmedType
  <2> QED BY <1>1, <2>1, <2>2, <2>3 DEF Relative
<1>7. path_to_fsspec_basic(p) \in Seq(Macs)
  BY <1>1, <1>2, <1>3, <1>4 DEF path_to_fsspec_basic, Relative
<1> QED BY <1>6, <1>7 DEF MacPath, BasicPath

-----------------------------------------------------------------------------
(* Paths without dots *)

\* The first k parts, with a colon before each.
Joined(parts, k) == [i \in 1 .. 2 * k |-> IF i % 2 = 1 THEN ":" ELSE parts[i \div 2]]

\* One more part is one more colon and a name.
LEMMA JoinedGrows ==
  ASSUME NEW parts \in Seq(Names), NEW k \in 1 .. Len(parts)
  PROVE  /\ Joined(parts, k - 1) \in Seq(Macs) /\ Joined(parts, k) \in Seq(Macs)
         /\ Len(Joined(parts, k)) = 2 * k /\ Joined(parts, k)[2 * k] = parts[k]
         /\ Joined(parts, k) = (Joined(parts, k - 1) \o <<":">>) \o <<parts[k]>>
<1> DEFINE n == Len(parts)
           at(i) == IF i % 2 = 1 THEN ":" ELSE parts[i \div 2]
           before == Joined(parts, k - 1)
           after == Joined(parts, k)
           added == (before \o <<":">>) \o <<parts[k]>>
<1>1. n \in Nat /\ \A i \in 1 .. n : parts[i] \in Names
  BY LenProperties, ElementOfSeq
<1>2. k \in Nat \ {0} /\ k <= n /\ parts[k] \in Names
  BY <1>1
<1>3. \A i \in 1 .. 2 * k : at(i) \in Macs
  <2> SUFFICES ASSUME NEW i \in 1 .. 2 * k, i % 2 # 1 PROVE parts[i \div 2] \in Macs
    BY DEF Macs
  <2>1. i \div 2 \in 1 .. n
    BY <1>1, <1>2
  <2> QED BY <1>1, <2>1 DEF Macs
<1>4. ASSUME NEW m \in {k - 1, k}
      PROVE  /\ Joined(parts, m) \in Seq(Macs) /\ Len(Joined(parts, m)) = 2 * m
             /\ \A i \in 1 .. 2 * m : Joined(parts, m)[i] = at(i)
  <2>1. 2 * m \in Nat /\ 2 * m <= 2 * k
    BY <1>2
  <2>2. Joined(parts, m) = [i \in 1 .. 2 * m |-> at(i)]
    BY DEF Joined
  <2> HIDE DEF at
  <2>3. \A i \in 1 .. 2 * m : at(i) \in Macs
    BY <1>2, <1>3, <2>1
  <2> DEFINE size == 2 * m
  <2>4. size \in Nat /\ \A i \in 1 .. size : at(i) \in Macs
    BY <2>1, <2>3
  <2> HIDE DEF size
  <2>5. [i \in 1 .. size |-> at(i)] \in Seq(Macs)
    BY <2>4, IsASeq
  <2>6. Len([i \in 1 .. size |-> at(i)]) = size
    BY <2>4
  <2> QED BY <2>2, <2>5, <2>6 DEF size
<1>5. /\ before \in Seq(Macs) /\ Len(before) = 2 * (k - 1)
      /\ \A i \in 1 .. 2 * (k - 1) : before[i] = at(i)
  BY <1>4
<1>6. after \in Seq(Macs) /\ Len(after) = 2 * k /\ \A i \in 1 .. 2 * k : after[i] = at(i)
  BY <1>4
<1> HIDE DEF before, after
<1>7. /\ <<":">> \in Seq(Macs) /\ Len(<<":">>) = 1 /\ <<":">>[1] = ":"
      /\ <<parts[k]>> \in Seq(Macs) /\ Len(<<parts[k]>>) = 1 /\ <<parts[k]>>[1] = parts[k]
  BY <1>2 DEF Macs
<1> DEFINE colon == <<":">>
           name == <<parts[k]>>
           more == before \o colon
<1>8. /\ colon \in Seq(Macs) /\ Len(colon) = 1 /\ colon[1] = ":"
      /\ name \in Seq(Macs) /\ Len(name) = 1 /\ name[1] = parts[k]
  BY <1>7
<1>9. added = more \o name
  OBVIOUS
<1> HIDE DEF added, colon, name
<1>10. /\ more \in Seq(Macs) /\ Len(more) = 2 * k - 1
       /\ \A i \in 1 .. 2 * k - 1 : more[i] = IF i <= 2 * k - 2 THEN before[i] ELSE ":"
  <2>1. /\ more \in Seq(Macs) /\ Len(more) = Len(before) + Len(colon)
        /\ \A i \in 1 .. Len(before) + Len(colon) :
             more[i] = IF i <= Len(before) THEN before[i] ELSE colon[i - Len(before)]
    BY <1>5, <1>8, ConcatProperties
  <2> HIDE DEF more
  <2>2. ASSUME NEW i \in 1 .. 2 * k - 1
        PROVE  more[i] = IF i <= 2 * k - 2 THEN before[i] ELSE ":"
    <3>1. CASE i <= 2 * k - 2
      BY <1>2, <1>5, <1>8, <2>1, <3>1
    <3>2. CASE ~(i <= 2 * k - 2)
      <4>1. i - Len(before) = 1
        BY <1>2, <1>5, <3>2
      <4>2. more[i] = colon[i - Len(before)]
        BY <1>2, <1>5, <1>8, <2>1, <3>2
      <4> QED BY <1>8, <3>2, <4>1, <4>2
    <3> QED BY <3>1, <3>2
  <2> QED BY <1>2, <1>5, <1>8, <2>1, <2>2
<1> HIDE DEF more
<1>11. /\ added \in Seq(Macs) /\ Len(added) = 2 * k
       /\ \A i \in 1 .. 2 * k : added[i] = IF i <= 2 * k - 1 THEN more[i] ELSE parts[k]
  <2>1. /\ added \in Seq(Macs) /\ Len(added) = Len(more) + Len(name)
        /\ \A i \in 1 .. Len(more) + Len(name) :
             added[i] = IF i <= Len(more) THEN more[i] ELSE name[i - Len(more)]
    BY <1>8, <1>9, <1>10, ConcatProperties
  <2>2. ASSUME NEW i \in 1 .. 2 * k
        PROVE  added[i] = IF i <= 2 * k - 1 THEN more[i] ELSE parts[k]
    <3>1. CASE i <= 2 * k - 1
      BY <1>2, <1>8, <1>10, <2>1, <3>1
    <3>2. CASE ~(i <= 2 * k - 1)
      <4>1. i - Len(more) = 1
        BY <1>2, <1>10, <3>2
      <4>2. added[i] = name[i - Len(more)]
        BY <1>2, <1>8, <1>10, <2>1, <3>2
      <4> QED BY <1>8, <3>2, <4>1, <4>2
    <3> QED BY <3>1, <3>2
  <2> QED BY <1>2, <1>8, <1>10, <2>1, <2>2
<1>12. ASSUME NEW i \in 1 .. 2 * k PROVE after[i] = added[i]
  <2>1. CASE i <= 2 * k - 2
    <3> HIDE DEF at
    <3>1. i \in 1 .. 2 * (k - 1) /\ i \in 1 .. 2 * k - 1 /\ i <= 2 * k - 1
      BY <1>2, <2>1
    <3>2. before[i] = at(i) /\ after[i] = at(i)
      BY <1>5, <1>6, <3>1
    <3>3. added[i] = before[i]
      BY <1>10, <1>11, <2>1, <3>1
    <3> QED BY <3>2, <3>3
  <2>2. CASE i = 2 * k - 1
    <3>1. i % 2 = 1
      BY <1>2, <2>2
    <3>2. added[i] = ":"
      BY <1>2, <1>10, <1>11, <2>2
    <3> QED BY <1>6, <3>1, <3>2
  <2>3. CASE i = 2 * k
    <3>1. i % 2 # 1 /\ i \div 2 = k
      BY <1>2, <2>3
    <3>2. added[i] = parts[k]
      BY <1>2, <1>11, <2>3
    <3> QED BY <1>6, <3>1, <3>2
  <2> QED BY <1>2, <2>1, <2>2, <2>3
<1>13. after = added
  BY <1>6, <1>11, <1>12, SeqEqual
<1>14. after[2 * k] = parts[k]
  BY <1>2, <1>11, <1>12
<1> QED BY <1>5, <1>6, <1>13, <1>14 DEF before, after, added

\* A turn of the loop at a slash, when the part is no dots: a colon and the part.
LEMMA DotFreeTurn ==
  ASSUME NEW first \in Seq(Macs), NEW so \in LoopState, so.atSlash,
         NEW part \in Names \ Dots
  PROVE  /\ first \o Turn(so, part).mac = ((first \o so.mac) \o <<":">>) \o <<part>>
         /\ Turn(so, part).atSlash
<1> DEFINE mac == so.mac
           colon == <<":">>
           name == <<part>>
           more == mac \o colon
<1>1. mac \in Seq(Macs) /\ colon \in Seq(Macs) /\ name \in Seq(Macs)
  BY DEF Macs, LoopState
<1>2. Turn(so, part) = [mac |-> more \o name, atSlash |-> TRUE]
  BY DEF Turn, Dots
<1> HIDE DEF mac, colon, name
<1>3. more \in Seq(Macs)
  BY <1>1, ConcatProperties, SMTT(40)
<1>4. (first \o mac) \o colon = first \o more
  BY <1>1, ConcatAssociative, SMTT(40)
<1> HIDE DEF more
<1>5. (first \o more) \o name = first \o (more \o name)
  BY <1>1, <1>3, ConcatAssociative, SMTT(40)
<1>6. Turn(so, part).mac = more \o name /\ Turn(so, part).atSlash
  BY <1>2
<1> QED BY <1>4, <1>5, <1>6 DEF mac, colon, name

\* Without dots the loop of posix9_path_to_mac does nothing but put the colons in.
LEMMA DotFreeParts ==
  ASSUME NEW parts \in Seq(Names), parts # <<>>, NEW slash \in BOOLEAN,
         \A i \in 1 .. Len(parts) : parts[i] \notin Dots
  PROVE  (IF slash THEN <<>> ELSE <<":">>) \o Parts(parts, slash) = Joined(parts, Len(parts))
<1> DEFINE n == Len(parts)
           first == IF slash THEN <<>> ELSE <<":">>
<1>1. n \in Nat \ {0} /\ \A i \in 1 .. n : parts[i] \in Names /\ parts[i] # ".."
  BY LenProperties, ElementOfSeq, EmptySeq DEF Dots
<1>2. PICK f : Loop(f, parts, slash, n) /\ Parts(parts, slash) = f[n].mac
  BY PartsIsLoop
<1>3. /\ \A i \in 0 .. n : f[i].mac \in Seq(Macs)
      /\ f[0] = [mac |-> <<>>, atSlash |-> slash]
      /\ \A i \in 1 .. n : f[i] = Turn(f[i - 1], parts[i])
  BY <1>2 DEF Loop, LoopState
<1>4. <<>> \in Seq(Macs) /\ <<":">> \in Seq(Macs) /\ first \in Seq(Macs)
  <2>1. <<>> \in Seq(Macs) /\ <<":">> \in Seq(Macs)
    BY DEF Macs
  <2>2. first = <<>> \/ first = <<":">>
    OBVIOUS
  <2> QED BY <2>1, <2>2
<1>5. \A i \in 1 .. n : <<parts[i]>> \in Seq(Macs)
  BY <1>1, SMTT(40) DEF Macs
<1>7. \A p \in Seq(Macs) : p \o <<>> = p /\ <<>> \o p = p
  BY ConcatEmptySeq
<1>8. ASSUME NEW k \in 1 .. n
      PROVE  Turn(f[k - 1], parts[k]) =
               [mac |-> f[k - 1].mac \o (IF f[k - 1].atSlash THEN <<":">> ELSE <<>>)
                          \o <<parts[k]>>,
                atSlash |-> TRUE]
  BY <1>1 DEF Turn
<1> DEFINE Good == {k \in 1 .. n : f[k].atSlash /\ first \o f[k].mac = Joined(parts, k)}
<1>9. 1 \in Good
  <2>1. 1 \in 1 .. n /\ 1 - 1 = 0 /\ 2 * 0 = 0
    BY <1>1
  <2>2. f[1].mac = <<>> \o (IF slash THEN <<":">> ELSE <<>>) \o <<parts[1]>> /\ f[1].atSlash
    <3>1. f[1] = Turn(f[0], parts[1])
      BY <1>3, <2>1
    <3>2. Turn(f[0], parts[1]) =
            [mac |-> f[0].mac \o (IF f[0].atSlash THEN <<":">> ELSE <<>>) \o <<parts[1]>>,
             atSlash |-> TRUE]
      BY <1>8, <2>1
    <3>3. f[0].mac = <<>> /\ f[0].atSlash = slash
      BY <1>3
    <3>4. /\ f[1].mac = f[0].mac \o (IF f[0].atSlash THEN <<":">> ELSE <<>>) \o <<parts[1]>>
          /\ f[1].atSlash
      <4> DEFINE m == f[0].mac \o (IF f[0].atSlash THEN <<":">> ELSE <<>>) \o <<parts[1]>>
      <4>1. f[1] = [mac |-> m, atSlash |-> TRUE]
        BY <3>1, <3>2
      <4> HIDE DEF m
      <4>2. f[1].mac = m /\ f[1].atSlash
        BY <4>1
      <4> QED BY <4>2 DEF m
    <3>5. CASE slash
      BY <3>3, <3>4, <3>5
    <3>6. CASE ~slash
      BY <3>3, <3>4, <3>6
    <3> QED BY <3>5, <3>6
  <2>3. f[1].mac = (IF slash THEN <<":">> ELSE <<>>) \o <<parts[1]>> /\ f[1].atSlash
    BY <1>4, <1>7, <2>2
  <2>4. first \o f[1].mac = <<":">> \o <<parts[1]>>
    <3>1. <<":">> \o <<parts[1]>> \in Seq(Macs) /\ <<parts[1]>> \in Seq(Macs)
      BY <1>4, <1>5, <2>1, ConcatProperties
    <3>2. CASE slash
      BY <1>7, <2>3, <3>1, <3>2
    <3>3. CASE ~slash
      BY <1>7, <2>3, <3>1, <3>3
    <3> QED BY <3>2, <3>3
  <2>5. Joined(parts, 0) = <<>>
    <3>1. Joined(parts, 0) = [i \in 1 .. 0 |-> IF i % 2 = 1 THEN ":" ELSE parts[i \div 2]]
      BY <2>1 DEF Joined
    <3> QED BY <3>1
  <2>6. Joined(parts, 1) = (Joined(parts, 0) \o <<":">>) \o <<parts[1]>>
    BY <2>1, JoinedGrows
  <2> QED BY <1>4, <1>7, <2>1, <2>3, <2>4, <2>5, <2>6
<1>10. ASSUME NEW k \in 1 + 1 .. n, k - 1 \in Good PROVE k \in Good
  <2>1. k \in 1 .. n /\ k - 1 \in 1 .. n /\ k - 1 \in 0 .. n
    BY <1>1, <1>10
  <2>2. f[k - 1].atSlash /\ first \o f[k - 1].mac = Joined(parts, k - 1)
    BY <1>10
  <2>3. f[k - 1] \in LoopState /\ parts[k] \in Names \ Dots
    BY <1>1, <1>2, <2>1 DEF Loop
  <2>4. /\ first \o Turn(f[k - 1], parts[k]).mac =
             ((first \o f[k - 1].mac) \o <<":">>) \o <<parts[k]>>
        /\ Turn(f[k - 1], parts[k]).atSlash
    BY <1>4, <2>2, <2>3, DotFreeTurn
  <2>5. f[k] = Turn(f[k - 1], parts[k])
    BY <1>3, <2>1
  <2>6. Joined(parts, k) = (Joined(parts, k - 1) \o <<":">>) \o <<parts[k]>>
    BY <2>1, JoinedGrows
  <2> HIDE DEF first
  <2>7. f[k].atSlash /\ first \o f[k].mac = Joined(parts, k)
    BY <2>2, <2>4, <2>5, <2>6
  <2> QED BY <2>1, <2>7
<1>11. n \in Good
  <2> HIDE DEF Good, n
  <2>1. 1 \in Nat /\ n \in Nat
    BY <1>1
  <2>2. \A k \in 1 .. n : k \in Good
    BY <1>9, <1>10, <2>1, Induction
  <2> QED BY <1>1, <2>2
<1> QED BY <1>2, <1>11

\* A path that ends in a name is not trimmed.
LEMMA NotTrimmed ==
  ASSUME NEW path \in Seq(Macs), path[Len(path)] \in Names
  PROVE  Trimmed(path) = path
  BY PathAssumption DEF Trimmed, Last

\* Both translations of a path without dots are one.
LEMMA TranslationsAgree ==
  ASSUME NEW p \in AllPaths, p.start # "root", p.parts # <<>>, Range(p.parts) \cap Dots = {}
  PROVE  MacPath[p] = BasicPath[p]
<1> DEFINE n == Len(p.parts)
           joined == Joined(p.parts, n)
<1>1. p.start \in {"here", "volume"} /\ p.parts \in Seq(Names)
  BY DirectoryAssumption
<1>2. n \in Nat \ {0} /\ n \in 1 .. n /\ \A i \in 1 .. n : p.parts[i] \in Names
  BY <1>1, LenProperties, ElementOfSeq, EmptySeq
<1>3. \A i \in 1 .. n : p.parts[i] \notin Dots
  BY <1>1, <1>2 DEF Range
<1>4. joined \in Seq(Macs) /\ Len(joined) = 2 * n /\ joined[2 * n] \in Names
  BY <1>1, <1>2, JoinedGrows
<1>5. PartsLiteral(p.parts, TRUE) = joined
  BY DEF PartsLiteral, Joined
<1>6. <<":">> \o Parts(p.parts, FALSE) = joined
  BY <1>1, <1>3, DotFreeParts
<1>7. Parts(p.parts, TRUE) = joined
  <2>1. <<>> \o Parts(p.parts, TRUE) = joined
    BY <1>1, <1>3, DotFreeParts
  <2> QED BY <1>1, <2>1, PartsType, ConcatEmptySeq
<1> HIDE DEF joined
<1>8. CASE p.start = "here"
  <2>1. p.parts[1] # "." /\ p.parts[1] # ".."
    BY <1>2, <1>3 DEF Dots
  <2>2. posix9_path_to_mac(p) = Trimmed(<<":">> \o Parts(p.parts, FALSE))
    BY <1>8, <2>1 DEF posix9_path_to_mac, Relative
  <2>3. Trimmed(joined) = joined
    BY <1>4, NotTrimmed
  <2>4. path_to_fsspec_basic(p) = joined
    BY <1>5, <1>8 DEF path_to_fsspec_basic, Relative
  <2> QED BY <1>6, <2>2, <2>3, <2>4 DEF MacPath, BasicPath
<1>9. CASE p.start = "volume"
  <2> DEFINE path == <<Volume>> \o joined
  <2>1. <<Volume>> \in Seq(Macs) /\ Len(<<Volume>>) = 1
    BY PathAssumption DEF Macs
  <2>2. /\ path \in Seq(Macs) /\ Len(path) = 1 + 2 * n
        /\ \A i \in 1 .. 1 + 2 * n :
             path[i] = IF i <= 1 THEN <<Volume>>[i] ELSE joined[i - 1]
    BY <1>4, <2>1, ConcatProperties, SMTT(40)
  <2>3. posix9_path_to_mac(p) = Trimmed(path)
    BY <1>7, <1>9 DEF posix9_path_to_mac, Relative
  <2>4. path_to_fsspec_basic(p) = path
    BY <1>5, <1>9 DEF path_to_fsspec_basic, Relative
  <2> HIDE DEF path
  <2>5. path[Len(path)] = joined[2 * n]
    BY <1>2, <2>2
  <2>6. Trimmed(path) = path
    BY <1>4, <2>2, <2>5, NotTrimmed
  <2> QED BY <2>3, <2>4, <2>6 DEF MacPath, BasicPath
<1> QED BY <1>1, <1>8, <1>9

-----------------------------------------------------------------------------
(* The catalog *)

\* A catalog of files and directories, each of them in a directory.
SoundCatalog(cat) ==
  /\ \E items \in SUBSET Nodes : cat \in [items -> Item]
  /\ \A n \in DOMAIN cat : IsDir(cat, cat[n].parent)

\* No two entries of a directory have one name.
Siblings(cat) ==
  \A m, n \in DOMAIN cat :
    cat[m].parent = cat[n].parent /\ cat[m].name = cat[n].name => m = n

\* The parts of TypeOK that are about the streams and about the current directory.
StreamsType ==
  /\ dir_pool \in [Streams -> Stream]
  /\ \A s \in Streams : dir_pool[s].index <= Cardinality(Nodes) + 1
  /\ seen \in [Streams -> SUBSET Nodes] /\ since \in [Streams -> SUBSET Nodes]
  /\ changes \in [Streams -> SUBSET {"created", "deleted"}]

HereType == here \in Nodes \cup {Root} /\ cwd_mac \in Seq(Macs)

FlagsType ==
  cwd_initialized \in BOOLEAN /\ given \in BOOLEAN /\ overwritten \in BOOLEAN

\* What is common to the three ways in which a call changes the catalog: in directory d, to n.
ChangedIn(d, n) ==
  \/ \E name \in Names, isDir \in BOOLEAN :
       /\ IsDir(catalog, d)
       /\ n \in Nodes \ DOMAIN catalog /\ \A s \in Streams : n # dir_pool[s].dirID
       /\ \A c \in Children(catalog, d) : catalog[c].name # name
       /\ catalog' = [m \in DOMAIN catalog \cup {n} |->
                        IF m = n THEN [parent |-> d, name |-> name, isDir |-> isDir]
                                 ELSE catalog[m]]
       /\ Changed(d, {"created"}, n)
  \/ /\ n \in DOMAIN catalog /\ d = catalog[n].parent
     /\ Children(catalog, n) = {}
     /\ catalog' = Restrict(catalog, DOMAIN catalog \ {n})
     /\ Changed(d, {"deleted"}, n)
  \/ \E name \in Names :
       /\ n \in DOMAIN catalog /\ d = catalog[n].parent
       /\ \A c \in Children(catalog, d) : catalog[c].name # name
       /\ catalog' = [catalog EXCEPT ![n].name = name]
       /\ Changed(d, {"created", "deleted"}, n)

\* Every entry of a catalog has a parent and a name.
LEMMA CatalogDomain ==
  ASSUME NEW cat, SoundCatalog(cat)
  PROVE  /\ DOMAIN cat \subseteq Nodes
         /\ cat \in [DOMAIN cat -> Item]
         /\ \A n \in DOMAIN cat : cat[n] \in Item /\ cat[n].parent \in Nodes \cup {Root}
                                                  /\ cat[n].name \in Names
<1>1. PICK items \in SUBSET Nodes : cat \in [items -> Item]
  BY DEF SoundCatalog
<1>2. DOMAIN cat = items /\ \A n \in items : cat[n] \in Item
  BY <1>1
<1> QED BY <1>1, <1>2 DEF Item

\* A directory that is found to have no child of a name has none.
LEMMA NoChild ==
  ASSUME NEW cat, SoundCatalog(cat), NEW d, NEW name, Child(cat, d, name) = NoNode
  PROVE  \A c \in Children(cat, d) : cat[c].name # name
<1> DEFINE found == {c \in Children(cat, d) : cat[c].name = name}
<1> SUFFICES ASSUME found # {} PROVE FALSE
  OBVIOUS
<1>1. Child(cat, d, name) = CHOOSE c \in found : TRUE
  BY DEF Child
<1>2. Child(cat, d, name) \in found
  BY <1>1
<1>3. Child(cat, d, name) \in Nodes
  BY <1>2, CatalogDomain DEF Children
<1> QED BY <1>3, PathAssumption DEF NoNode

\* What follows the last colon of a path is a name.
LEMMA AfterLastSep ==
  ASSUME NEW path \in Seq(Macs),
         Len(SubSeq(path, LastSep(path) + 1, Len(path))) = 1
  PROVE  SubSeq(path, LastSep(path) + 1, Len(path))[1] \in Names
<1> DEFINE n == Len(path)
           I == {i \in 1 .. n : path[i] = ":"}
           l == LastSep(path)
<1>1. n \in Nat /\ \A i \in 1 .. n : path[i] \in Macs
  BY LenProperties, ElementOfSeq
<1>2. l = IF I # {} THEN Max(I) ELSE 0
  BY DEF LastSep, SelectLastInSeq
<1>3. I \in SUBSET (1 .. n)
  OBVIOUS
<1> HIDE DEF l
<1>4. l \in 0 .. n /\ \A i \in I : i <= l
  <2> HIDE DEF n, I
  <2>1. CASE I = {}
    <3>1. l = 0
      BY <1>2, <2>1
    <3> QED BY <1>1, <2>1, <3>1 DEF n
  <2>2. CASE I # {}
    <3> DEFINE J == {n - i : i \in I}
    <3>1. J \in SUBSET Nat /\ J # {}
      BY <1>1, <1>3, <2>2 DEF n
    <3>2. Min(J) \in J /\ \A j \in J : Min(J) <= j
      <4> HIDE DEF J
      <4> QED BY <3>1, MinOfNaturals
    <3>3. PICK m \in I : Min(J) = n - m
      BY <3>2
    <3>4. \A i \in I : i <= m
      <4> SUFFICES ASSUME NEW i \in I PROVE i <= m
        OBVIOUS
      <4>1. n - m <= n - i
        BY <3>2, <3>3
      <4> QED BY <1>1, <1>3, <4>1 DEF n
    <3>5. Max(I) \in I /\ \A i \in I : i <= Max(I)
      BY <3>4 DEF Max
    <3>6. l = Max(I)
      BY <1>2, <2>2
    <3>7. l \in I
      BY <3>5, <3>6
    <3>8. l \in 0 .. n
      BY <1>1, <1>3, <3>7 DEF n
    <3> QED BY <3>5, <3>6, <3>8
  <2> QED BY <2>1, <2>2
<1>5. \A i \in l + 1 .. n : path[i] \in Names
  <2> SUFFICES ASSUME NEW i \in l + 1 .. n PROVE path[i] # ":"
    BY <1>1, <1>4 DEF Macs
  <2>1. i \notin I
    BY <1>1, <1>4
  <2> QED BY <1>1, <1>4, <2>1
<1>6. SubSeq(path, l + 1, n) \in Seq(Names)
  <2>1. l + 1 \in Int /\ n \in Int
    BY <1>1, <1>4
  <2> HIDE DEF n
  <2> QED BY <1>5, <2>1, SubSeqProperties
<1> DEFINE dirname == SubSeq(path, l + 1, n)
<1>7. Len(dirname) = 1
  BY DEF l
<1> HIDE DEF dirname
<1>8. dirname[1] \in Names
  <2>1. dirname \in Seq(Names)
    BY <1>6 DEF dirname
  <2>2. 1 \in 1 .. Len(dirname)
    BY <1>7
  <2> QED BY <2>1, <2>2, ElementOfSeq
<1> QED BY <1>8 DEF dirname, l

\* A path of names that does not end in a colon ends in a name.
LEMMA LastIsName ==
  ASSUME NEW path \in Seq(Macs), path # <<>>, Last(path) # ":"
  PROVE  Last(path) \in Names
<1>1. Len(path) \in Nat \ {0}
  BY EmptySeq
<1>2. Last(path) \in Macs
  BY <1>1, ElementOfSeq DEF Last
<1> QED BY <1>2 DEF Macs

\* The last chdir was by a whole path without dots, that still holds, and cwd_mac is still that.
named == given /\ ~overwritten

\* If the current directory's path still holds, it is the one there was, and n is not on it.
Spares(n) ==
  named' => /\ named /\ UNCHANGED <<here, cwd_mac>>
            /\ n \in DOMAIN catalog => ~Through(n)

\* A new entry is what ChangedIn says.
LEMMA CreateChanges ==
  ASSUME SoundCatalog(catalog), NEW d, NEW name \in Names, NEW isDir \in BOOLEAN,
         Create(d, name, isDir)
  PROVE  \E n \in Nodes \ DOMAIN catalog : ChangedIn(d, n)
<1>1. \A c \in Children(catalog, d) : catalog[c].name # name
  BY NoChild DEF Create
<1>2. PICK n \in Nodes \ DOMAIN catalog :
        /\ Fresh(n)
        /\ catalog' = [m \in DOMAIN catalog \cup {n} |->
                         IF m = n THEN [parent |-> d, name |-> name, isDir |-> isDir]
                                  ELSE catalog[m]]
        /\ Changed(d, {"created"}, n)
  BY DEF Create, Fresh
<1>3. ChangedIn(d, n)
  BY <1>1, <1>2 DEF Create, Fresh, ChangedIn
<1> QED BY <1>3

\* Each call that changes the catalog changes it in one of the three ways, and the current
\* directory's path no longer holds if it leads through what the call deletes or renames.
LEMMA CallChanges ==
  ASSUME SoundCatalog(catalog), NEW p \in AllPaths,
         \/ Mkdir(p) \/ CreateFile(p) \/ Rmdir(p) \/ Unlink(p)
         \/ \E new \in AllPaths : Rename(p, new)
  PROVE  \E d, n : ChangedIn(d, n) /\ Spares(n)
<1>1. p \in AllPaths
  BY DirectoryAssumption
<1>2. ASSUME Mkdir(p) PROVE \E d, n : ChangedIn(d, n) /\ Spares(n)
  <2> DEFINE path == MacPath[p]
             dirname == SubSeq(path, LastSep(path) + 1, Len(path))
             parent == Resolve(catalog, here, SubSeq(path, 1, LastSep(path) - 1))
  <2>1. path \in Seq(Macs)
    BY <1>1, MacPathType
  <2>2. Len(dirname) = 1 /\ Create(parent, dirname[1], TRUE)
    BY <1>2 DEF Mkdir
  <2> HIDE DEF path
  <2>3. dirname[1] \in Names
    BY <2>1, <2>2, AfterLastSep
  <2>4. named' => named /\ UNCHANGED <<here, cwd_mac>>
    BY <1>2 DEF Mkdir, Translate, init_cwd, Initialized, named
  <2> HIDE DEF dirname, parent
  <2>5. PICK n \in Nodes \ DOMAIN catalog : ChangedIn(parent, n)
    BY <2>2, <2>3, CreateChanges
  <2> QED BY <2>4, <2>5 DEF Spares
<1>3. ASSUME CreateFile(p) PROVE \E d, n : ChangedIn(d, n) /\ Spares(n)
  <2> DEFINE path == BasicPath[p]
             parent == Resolve(catalog, here, Front(path))
  <2>1. path \in Seq(Macs)
    BY <1>1, MacPathType
  <2>2. path # <<>> /\ Last(path) # ":" /\ Create(parent, Last(path), FALSE)
    BY <1>3 DEF CreateFile
  <2> HIDE DEF path, parent
  <2>3. Last(path) \in Names
    BY <2>1, <2>2, LastIsName
  <2>4. named' => named /\ UNCHANGED <<here, cwd_mac>>
    BY <1>3 DEF CreateFile, cwd, named
  <2>5. PICK n \in Nodes \ DOMAIN catalog : ChangedIn(parent, n)
    BY <2>2, <2>3, CreateChanges
  <2> QED BY <2>4, <2>5 DEF Spares
<1>4. ASSUME NEW n, Delete(n) PROVE ChangedIn(catalog[n].parent, n)
  BY <1>4 DEF Delete, ChangedIn
<1>5. ASSUME Rmdir(p) \/ Unlink(p) PROVE \E d, n : ChangedIn(d, n) /\ Spares(n)
  <2>1. CASE Rmdir(p)
    <3>1. Delete(Full(p)) /\ Spares(Full(p))
      BY <2>1 DEF Rmdir, Spares, Initialized, named
    <3> QED BY <1>4, <3>1
  <2>2. CASE Unlink(p)
    <3>1. Delete(Basic(p)) /\ Spares(Basic(p))
      BY <2>2 DEF Unlink, Spares, named
    <3> QED BY <1>4, <3>1
  <2> QED BY <1>5, <2>1, <2>2
<1>6. ASSUME NEW new \in AllPaths, Rename(p, new) PROVE \E d, n : ChangedIn(d, n) /\ Spares(n)
  <2> DEFINE n == Basic(p)
             name == LastPart(new)
  <2>1. /\ n \in DOMAIN catalog
        /\ Child(catalog, catalog[n].parent, name) = NoNode
        /\ catalog' = [catalog EXCEPT ![n].name = name]
        /\ Changed(catalog[n].parent, {"created", "deleted"}, n)
        /\ Spares(n)
    BY <1>6 DEF Rename, Spares, named
  <2>2. name \in Names
    <3>1. new.parts \in Seq(Names)
      BY DirectoryAssumption
    <3>2. CASE new.parts = <<>>
      BY <3>2, PathAssumption DEF LastPart
    <3>3. CASE new.parts # <<>>
      <4>1. Len(new.parts) \in Nat \ {0}
        BY <3>1, <3>3, EmptySeq
      <4> QED BY <3>1, <3>3, <4>1, ElementOfSeq DEF LastPart, Last
    <3> QED BY <3>2, <3>3
  <2> HIDE DEF n, name
  <2>3. \A c \in Children(catalog, catalog[n].parent) : catalog[c].name # name
    BY <2>1, NoChild
  <2>4. ChangedIn(catalog[n].parent, n)
    BY <2>1, <2>2, <2>3 DEF ChangedIn
  <2> QED BY <2>1, <2>4
<1> QED BY <1>2, <1>3, <1>5, <1>6

\* The catalog stays sound, and names stay different.
LEMMA CatalogStaysSound ==
  ASSUME SoundCatalog(catalog), Siblings(catalog), NEW d, NEW n, ChangedIn(d, n)
  PROVE  SoundCatalog(catalog') /\ Siblings(catalog')
<1> DEFINE D == DOMAIN catalog
<1>1. /\ D \subseteq Nodes /\ catalog \in [D -> Item]
      /\ \A m \in D : /\ catalog[m] \in Item
                      /\ catalog[m].parent \in Nodes \cup {Root}
                      /\ catalog[m].name \in Names
  BY CatalogDomain
<1>2. \A m \in D : catalog[m].parent = Root \/ (/\ catalog[m].parent \in D
                                                /\ catalog[catalog[m].parent].isDir)
  BY DEF SoundCatalog, IsDir
<1>3. ASSUME NEW name \in Names, NEW isDir \in BOOLEAN,
             IsDir(catalog, d), n \in Nodes \ D,
             \A c \in Children(catalog, d) : catalog[c].name # name,
             catalog' = [m \in D \cup {n} |->
                           IF m = n THEN [parent |-> d, name |-> name, isDir |-> isDir]
                                    ELSE catalog[m]]
      PROVE  SoundCatalog(catalog') /\ Siblings(catalog')
  <2> DEFINE item == [parent |-> d, name |-> name, isDir |-> isDir]
  <2>1. d = Root \/ (d \in D /\ catalog[d].isDir)
    BY <1>3 DEF IsDir
  <2>2. item \in Item
    BY <1>1, <2>1 DEF Item
  <2>3. item.parent = d /\ item.name = name
    OBVIOUS
  <2> HIDE DEF item
  <2>4. /\ DOMAIN catalog' = D \cup {n} /\ D \cup {n} \in SUBSET Nodes
        /\ catalog'[n] = item /\ \A m \in D : catalog'[m] = catalog[m]
    BY <1>1, <1>3 DEF item
  <2>5. catalog' \in [D \cup {n} -> Item]
    BY <1>1, <1>3, <2>2 DEF item
  <2>6. \A m \in DOMAIN catalog' : IsDir(catalog', catalog'[m].parent)
    BY <1>2, <2>1, <2>3, <2>4 DEF IsDir
  <2>7. SoundCatalog(catalog')
    BY <2>4, <2>5, <2>6 DEF SoundCatalog
  <2>8. Siblings(catalog')
    BY <1>3, <2>3, <2>4 DEF Siblings, Children
  <2> QED BY <2>7, <2>8
<1>4. ASSUME n \in D, Children(catalog, n) = {},
             catalog' = Restrict(catalog, D \ {n})
      PROVE  SoundCatalog(catalog') /\ Siblings(catalog')
  <2>1. /\ DOMAIN catalog' = D \ {n} /\ D \ {n} \in SUBSET Nodes
        /\ \A m \in D \ {n} : catalog'[m] = catalog[m]
        /\ catalog' \in [D \ {n} -> Item]
    BY <1>1, <1>4 DEF Restrict
  <2>2. \A m \in D : catalog[m].parent # n
    BY <1>4 DEF Children
  <2>3. \A m \in DOMAIN catalog' : IsDir(catalog', catalog'[m].parent)
    BY <1>2, <2>1, <2>2 DEF IsDir
  <2> QED BY <2>1, <2>3 DEF SoundCatalog, Siblings
<1>5. ASSUME NEW name \in Names, n \in D, d = catalog[n].parent,
             \A c \in Children(catalog, d) : catalog[c].name # name,
             catalog' = [catalog EXCEPT ![n].name = name]
      PROVE  SoundCatalog(catalog') /\ Siblings(catalog')
  <2> DEFINE item == [catalog[n] EXCEPT !.name = name]
  <2>1. /\ item \in Item /\ item.parent = d /\ item.name = name
        /\ item.isDir = catalog[n].isDir
    BY <1>1, <1>5 DEF Item
  <2>2. /\ DOMAIN catalog' = D
        /\ catalog'[n] = item /\ \A m \in D \ {n} : catalog'[m] = catalog[m]
    BY <1>1, <1>5
  <2> HIDE DEF item
  <2>3. catalog' \in [D -> Item]
    <3>1. \A m \in D : catalog'[m] \in Item
      BY <1>1, <2>1, <2>2
    <3>2. catalog' = [m \in D |-> catalog'[m]]
      BY <1>5
    <3> QED BY <3>1, <3>2
  <2>4. \A m \in D : catalog'[m].parent = catalog[m].parent
                     /\ catalog'[m].isDir = catalog[m].isDir
    BY <1>5, <2>1, <2>2
  <2>5. \A m \in DOMAIN catalog' : IsDir(catalog', catalog'[m].parent)
    BY <1>2, <2>2, <2>4 DEF IsDir
  <2>6. SoundCatalog(catalog')
    BY <1>1, <2>2, <2>3, <2>5 DEF SoundCatalog
  <2>7. Siblings(catalog')
    BY <1>5, <2>1, <2>2, <2>4 DEF Siblings, Children
  <2> QED BY <2>6, <2>7
<1> HIDE DEF D
<1> QED BY <1>3, <1>4, <1>5 DEF ChangedIn, D

-----------------------------------------------------------------------------
(* Places in a directory *)

RankOf(name) == SelectInSeq(NameOrder, LAMBDA other : other = name)

\* An entry, and those of its directory that come before it.
UpTo(cat, n) ==
  {c \in Children(cat, cat[n].parent) : RankOf(cat[c].name) <= RankOf(cat[n].name)}

PlaceIn(cat, n) == Cardinality(UpTo(cat, n))

\* HFS sorts every name, and no two alike.
LEMMA RankIs ==
  ASSUME NEW name \in Names
  PROVE  RankOf(name) \in Nat /\ NameOrder[RankOf(name)] = name
<1> DEFINE I == {i \in 1 .. Len(NameOrder) : NameOrder[i] = name}
<1>1. Len(NameOrder) \in Nat
  BY DirectoryAssumption, LenProperties
<1>2. I \in SUBSET Nat /\ I # {}
  <2>1. PICK i \in 1 .. Len(NameOrder) : NameOrder[i] = name
    BY DirectoryAssumption
  <2> QED BY <1>1, <2>1
<1>3. RankOf(name) = IF I # {} THEN Min(I) ELSE 0
  BY DEF RankOf, SelectInSeq
<1>4. RankOf(name) \in I
  <2> HIDE DEF I
  <2> QED BY <1>2, <1>3, MinOfNaturals
<1> QED BY <1>1, <1>4

\* Places count from one, and there are no more of them than there are nodes.
LEMMA PlaceType ==
  ASSUME NEW cat, SoundCatalog(cat), NEW n \in DOMAIN cat
  PROVE  /\ IsFiniteSet(UpTo(cat, n)) /\ n \in UpTo(cat, n)
         /\ PlaceIn(cat, n) \in 1 .. Cardinality(Nodes)
<1>1. cat[n].name \in Names /\ DOMAIN cat \subseteq Nodes
  BY CatalogDomain
<1>2. n \in UpTo(cat, n)
  BY <1>1, RankIs DEF UpTo, Children
<1>3. UpTo(cat, n) \in SUBSET Nodes /\ IsFiniteSet(Nodes)
  BY <1>1, PathAssumption DEF UpTo, Children
<1>4. IsFiniteSet(UpTo(cat, n)) /\ PlaceIn(cat, n) <= Cardinality(Nodes)
  BY <1>3, FS_Subset DEF PlaceIn
<1>5. PlaceIn(cat, n) \in Nat /\ Cardinality(Nodes) \in Nat
  BY <1>3, <1>4, FS_CardinalityType DEF PlaceIn
<1>6. PlaceIn(cat, n) # 0
  BY <1>2, <1>4, FS_EmptySet DEF PlaceIn
<1> QED BY <1>2, <1>4, <1>5, <1>6

\* Two entries of a directory have different places.
LEMMA PlaceUnique ==
  ASSUME NEW cat, SoundCatalog(cat), Siblings(cat), NEW d,
         NEW m \in Children(cat, d), NEW n \in Children(cat, d),
         PlaceIn(cat, m) = PlaceIn(cat, n)
  PROVE  m = n
<1>1. /\ m \in DOMAIN cat /\ n \in DOMAIN cat
      /\ cat[m].parent = d /\ cat[n].parent = d
      /\ cat[m].name \in Names /\ cat[n].name \in Names
  BY CatalogDomain DEF Children
<1> DEFINE rm == RankOf(cat[m].name)
           rn == RankOf(cat[n].name)
<1>2. /\ rm \in Nat /\ NameOrder[rm] = cat[m].name
      /\ rn \in Nat /\ NameOrder[rn] = cat[n].name
  BY <1>1, RankIs
<1>3. \A c \in Children(cat, d) : RankOf(cat[c].name) \in Nat
  BY CatalogDomain, RankIs DEF Children
<1>4. /\ UpTo(cat, m) = {c \in Children(cat, d) : RankOf(cat[c].name) <= rm}
      /\ UpTo(cat, n) = {c \in Children(cat, d) : RankOf(cat[c].name) <= rn}
  BY <1>1 DEF UpTo
<1>5. /\ IsFiniteSet(UpTo(cat, m)) /\ m \in UpTo(cat, m)
      /\ IsFiniteSet(UpTo(cat, n)) /\ n \in UpTo(cat, n)
  BY <1>1, PlaceType
<1>6. rm <= rn => UpTo(cat, m) \subseteq UpTo(cat, n)
  <2> HIDE DEF rm, rn
  <2> QED BY <1>2, <1>3, <1>4
<1>7. rn <= rm => UpTo(cat, n) \subseteq UpTo(cat, m)
  <2> HIDE DEF rm, rn
  <2> QED BY <1>2, <1>3, <1>4
<1>8. UpTo(cat, m) = UpTo(cat, n)
  <2>1. rm <= rn \/ rn <= rm
    BY <1>2
  <2> QED BY <1>5, <1>6, <1>7, <2>1, FS_Subset DEF PlaceIn
<1>9. rn <= rm /\ rm <= rn
  BY <1>4, <1>5, <1>8
<1>10. cat[m].name = cat[n].name
  <2> HIDE DEF rm, rn
  <2> QED BY <1>2, <1>9
<1> QED BY <1>1, <1>10 DEF Siblings

\* With more entries in the directory, none comes earlier.
LEMMA PlaceGrows ==
  ASSUME NEW a, SoundCatalog(a), NEW b, SoundCatalog(b), NEW d,
         Children(a, d) \subseteq Children(b, d),
         \A c \in Children(a, d) : a[c] = b[c],
         NEW n \in Children(a, d)
  PROVE  PlaceIn(a, n) <= PlaceIn(b, n)
<1>1. n \in DOMAIN b /\ a[n].parent = d /\ b[n].parent = d /\ a[n].name = b[n].name
  BY DEF Children
<1>2. UpTo(a, n) \in SUBSET UpTo(b, n)
  BY <1>1 DEF UpTo
<1>3. IsFiniteSet(UpTo(b, n))
  BY <1>1, PlaceType
<1> QED BY <1>2, <1>3, FS_Subset DEF PlaceIn

\* With the same entries, all keep their places.
LEMMA PlaceStays ==
  ASSUME NEW a, NEW b, NEW d, Children(a, d) = Children(b, d),
         \A c \in Children(a, d) : a[c] = b[c],
         NEW n \in Children(a, d)
  PROVE  PlaceIn(a, n) = PlaceIn(b, n)
<1>1. a[n].parent = d /\ b[n].parent = d /\ a[n].name = b[n].name
  BY DEF Children
<1>2. UpTo(a, n) = UpTo(b, n)
  BY <1>1 DEF UpTo
<1> QED BY <1>2 DEF PlaceIn

-----------------------------------------------------------------------------
(* A stream and a change of the catalog *)

\* What a stream has returned is what comes before its index: all of it, if nothing has been
\* deleted, and nothing else, if nothing has been created.
Follows(cat, stream, returned, there, change) ==
  stream.inUse =>
    /\ there \subseteq Children(cat, stream.dirID)
    /\ "created" \notin change =>
         \A n \in Children(cat, stream.dirID) : PlaceIn(cat, n) >= stream.index => n \notin returned
    /\ "deleted" \notin change =>
         \A n \in there : PlaceIn(cat, n) < stream.index => n \in returned

\* The directories a call leaves alone are as before.
LEMMA ElsewhereSame ==
  ASSUME SoundCatalog(catalog), NEW d, NEW n, ChangedIn(d, n), NEW e, e # d
  PROVE  /\ Children(catalog', e) = Children(catalog, e)
         /\ \A c \in Children(catalog, e) : catalog'[c] = catalog[c]
<1> DEFINE D == DOMAIN catalog
<1>1. ASSUME NEW name, NEW isDir, n \notin D,
             catalog' = [m \in D \cup {n} |->
                           IF m = n THEN [parent |-> d, name |-> name, isDir |-> isDir]
                                    ELSE catalog[m]]
      PROVE  /\ Children(catalog', e) = Children(catalog, e)
             /\ \A c \in Children(catalog, e) : catalog'[c] = catalog[c]
  <2>1. /\ DOMAIN catalog' = D \cup {n} /\ catalog'[n].parent = d
        /\ \A m \in D : catalog'[m] = catalog[m]
    BY <1>1
  <2> QED BY <1>1, <2>1 DEF Children
<1>2. ASSUME n \in D, d = catalog[n].parent, catalog' = Restrict(catalog, D \ {n})
      PROVE  /\ Children(catalog', e) = Children(catalog, e)
             /\ \A c \in Children(catalog, e) : catalog'[c] = catalog[c]
  <2>1. DOMAIN catalog' = D \ {n} /\ \A m \in D \ {n} : catalog'[m] = catalog[m]
    BY <1>2 DEF Restrict
  <2> QED BY <1>2, <2>1 DEF Children
<1>3. ASSUME NEW name, n \in D, d = catalog[n].parent,
             catalog' = [catalog EXCEPT ![n].name = name]
      PROVE  /\ Children(catalog', e) = Children(catalog, e)
             /\ \A c \in Children(catalog, e) : catalog'[c] = catalog[c]
  <2>1. catalog[n] \in Item
    BY <1>3, CatalogDomain
  <2>2. /\ DOMAIN catalog' = D /\ catalog'[n].parent = d
        /\ \A m \in D \ {n} : catalog'[m] = catalog[m]
    BY <1>3, <2>1 DEF Item
  <2> QED BY <1>3, <2>2 DEF Children
<1> HIDE DEF D
<1> QED BY <1>1, <1>2, <1>3 DEF ChangedIn, D

\* In its own directory a call adds an entry, takes one away, or says that it has done both.
LEMMA HereChanges ==
  ASSUME SoundCatalog(catalog), NEW d, NEW n, ChangedIn(d, n)
  PROVE  \/ /\ Changed(d, {"created"}, n)
            /\ n \notin DOMAIN catalog
            /\ Children(catalog, d) \subseteq Children(catalog', d)
            /\ \A c \in Children(catalog, d) : catalog[c] = catalog'[c]
         \/ /\ Changed(d, {"deleted"}, n)
            /\ n \notin DOMAIN catalog'
            /\ Children(catalog', d) \subseteq Children(catalog, d)
            /\ Children(catalog, d) \ {n} \subseteq Children(catalog', d)
            /\ \A c \in Children(catalog', d) : catalog'[c] = catalog[c]
         \/ Changed(d, {"created", "deleted"}, n) /\ Children(catalog', d) = Children(catalog, d)
<1> DEFINE D == DOMAIN catalog
<1>1. ASSUME NEW name, NEW isDir, n \notin D,
             catalog' = [m \in D \cup {n} |->
                           IF m = n THEN [parent |-> d, name |-> name, isDir |-> isDir]
                                    ELSE catalog[m]]
      PROVE  /\ Children(catalog, d) \subseteq Children(catalog', d)
             /\ \A c \in Children(catalog, d) : catalog[c] = catalog'[c]
  <2>1. DOMAIN catalog' = D \cup {n} /\ \A m \in D : catalog'[m] = catalog[m]
    BY <1>1
  <2> QED BY <1>1, <2>1 DEF Children
<1>2. ASSUME n \in D, catalog' = Restrict(catalog, D \ {n})
      PROVE  /\ n \notin DOMAIN catalog'
             /\ Children(catalog', d) \subseteq Children(catalog, d)
             /\ Children(catalog, d) \ {n} \subseteq Children(catalog', d)
             /\ \A c \in Children(catalog', d) : catalog'[c] = catalog[c]
  <2>1. DOMAIN catalog' = D \ {n} /\ \A m \in D \ {n} : catalog'[m] = catalog[m]
    BY <1>2 DEF Restrict
  <2> QED BY <1>2, <2>1 DEF Children
<1>3. ASSUME NEW name, n \in D, d = catalog[n].parent,
             catalog' = [catalog EXCEPT ![n].name = name]
      PROVE  Children(catalog', d) = Children(catalog, d)
  <2>1. catalog[n] \in Item
    BY <1>3, CatalogDomain
  <2>2. /\ DOMAIN catalog' = D /\ catalog'[n].parent = d
        /\ \A m \in D \ {n} : catalog'[m] = catalog[m]
    BY <1>3, <2>1 DEF Item
  <2> QED BY <1>3, <2>2 DEF Children
<1>4. CASE \E name \in Names, isDir \in BOOLEAN :
             /\ n \notin D
             /\ catalog' = [m \in D \cup {n} |->
                              IF m = n THEN [parent |-> d, name |-> name, isDir |-> isDir]
                                       ELSE catalog[m]]
             /\ Changed(d, {"created"}, n)
  <2>1. PICK name \in Names, isDir \in BOOLEAN :
          /\ n \notin D
          /\ catalog' = [m \in D \cup {n} |->
                           IF m = n THEN [parent |-> d, name |-> name, isDir |-> isDir]
                                    ELSE catalog[m]]
          /\ Changed(d, {"created"}, n)
    BY <1>4, Zenon
  <2>2. /\ Children(catalog, d) \subseteq Children(catalog', d)
        /\ \A c \in Children(catalog, d) : catalog[c] = catalog'[c]
    BY <1>1, <2>1
  <2> QED BY <2>1, <2>2
<1>5. CASE /\ n \in D
           /\ catalog' = Restrict(catalog, D \ {n})
           /\ Changed(d, {"deleted"}, n)
  <2> HIDE DEF D
  <2> QED BY <1>2, <1>5
<1>6. CASE \E name \in Names :
             /\ n \in D /\ d = catalog[n].parent
             /\ catalog' = [catalog EXCEPT ![n].name = name]
             /\ Changed(d, {"created", "deleted"}, n)
  <2> HIDE DEF D
  <2> QED BY <1>3, <1>6
<1> QED BY <1>4, <1>5, <1>6 DEF ChangedIn

\* What a change in d does to the history of a stream.
LEMMA HistoryIs ==
  ASSUME NEW d, NEW change, NEW n, Changed(d, change, n), NEW s \in Streams
  PROVE  /\ dir_pool'[s] = dir_pool[s]
         /\ dir_pool[s].dirID = d => /\ since'[s] = since[s] \ {n} /\ seen'[s] = seen[s] \ {n}
                                     /\ dir_pool[s].inUse => changes'[s] = changes[s] \cup change
         /\ dir_pool[s].dirID # d => /\ since'[s] = since[s] /\ seen'[s] = seen[s]
                                     /\ changes'[s] = changes[s]
  BY DEF Changed

\* A stream follows its directory through every change of the catalog.
LEMMA FollowsChange ==
  ASSUME SoundCatalog(catalog), SoundCatalog(catalog'), StreamsType,
         NEW d, NEW n, ChangedIn(d, n), NEW s \in Streams,
         Follows(catalog, dir_pool[s], seen[s], since[s], changes[s])
  PROVE  Follows(catalog', dir_pool'[s], seen'[s], since'[s], changes'[s])
<1> DEFINE e == dir_pool[s].dirID
           index == dir_pool[s].index
<1>1. PICK change : Changed(d, change, n)
  BY DEF ChangedIn
<1>2. dir_pool'[s] = dir_pool[s]
  BY <1>1, HistoryIs
<1> SUFFICES ASSUME dir_pool[s].inUse
             PROVE  Follows(catalog', dir_pool'[s], seen'[s], since'[s], changes'[s])
  BY <1>2 DEF Follows
<1>3. /\ since[s] \subseteq Children(catalog, e)
      /\ "created" \notin changes[s] =>
           \A c \in Children(catalog, e) : PlaceIn(catalog, c) >= index => c \notin seen[s]
      /\ "deleted" \notin changes[s] =>
           \A c \in since[s] : PlaceIn(catalog, c) < index => c \in seen[s]
  BY DEF Follows
<1>4. index \in Nat
  BY DEF StreamsType, Stream
<1>5. /\ \A c \in Children(catalog, e) : PlaceIn(catalog, c) \in Nat
      /\ \A c \in Children(catalog', e) : PlaceIn(catalog', c) \in Nat
  BY PlaceType DEF Children
<1>6. CASE e # d
  <2>1. /\ Children(catalog', e) = Children(catalog, e)
        /\ \A c \in Children(catalog, e) : catalog'[c] = catalog[c]
    BY <1>6, ElsewhereSame
  <2>2. \A c \in Children(catalog, e) : PlaceIn(catalog', c) = PlaceIn(catalog, c)
    BY <2>1, PlaceStays
  <2>3. since'[s] = since[s] /\ seen'[s] = seen[s] /\ changes'[s] = changes[s]
    BY <1>1, <1>6, HistoryIs
  <2> QED BY <1>2, <1>3, <2>1, <2>2, <2>3 DEF Follows
<1>7. CASE e = d
  <2>1. ASSUME Changed(d, {"created"}, n), n \notin DOMAIN catalog,
               Children(catalog, d) \subseteq Children(catalog', d),
               \A c \in Children(catalog, d) : catalog[c] = catalog'[c]
        PROVE  Follows(catalog', dir_pool'[s], seen'[s], since'[s], changes'[s])
    <3>1. /\ since'[s] = since[s] \ {n} /\ seen'[s] = seen[s] \ {n}
          /\ changes'[s] = changes[s] \cup {"created"}
      BY <1>7, <2>1, HistoryIs
    <3>2. \A c \in Children(catalog, e) : PlaceIn(catalog, c) <= PlaceIn(catalog', c)
      BY <1>7, <2>1, PlaceGrows
    <3>3. \A c \in since'[s] : c \in since[s] /\ c # n /\ c \in Children(catalog, e)
                                /\ c \in Children(catalog', e)
      BY <1>3, <1>7, <2>1, <3>1
    <3>4. ASSUME "deleted" \notin changes'[s], NEW c \in since'[s], PlaceIn(catalog', c) < index
          PROVE  c \in seen'[s]
      <4>1. PlaceIn(catalog, c) < index
        BY <1>4, <1>5, <3>2, <3>3, <3>4
      <4> QED BY <1>3, <3>1, <3>3, <3>4, <4>1
    <3> QED BY <1>2, <3>1, <3>3, <3>4 DEF Follows
  <2>2. ASSUME Changed(d, {"deleted"}, n), n \notin DOMAIN catalog',
               Children(catalog', d) \subseteq Children(catalog, d),
               \A c \in Children(catalog', d) : catalog'[c] = catalog[c],
               Children(catalog, d) \ {n} \subseteq Children(catalog', d)
        PROVE  Follows(catalog', dir_pool'[s], seen'[s], since'[s], changes'[s])
    <3>1. /\ since'[s] = since[s] \ {n} /\ seen'[s] = seen[s] \ {n}
          /\ changes'[s] = changes[s] \cup {"deleted"}
      BY <1>7, <2>2, HistoryIs
    <3>2. \A c \in Children(catalog', e) : PlaceIn(catalog', c) <= PlaceIn(catalog, c)
      BY <1>7, <2>2, PlaceGrows
    <3>3. since'[s] \subseteq Children(catalog', e)
      BY <1>3, <1>7, <2>2, <3>1
    <3>4. ASSUME "created" \notin changes'[s], NEW c \in Children(catalog', e),
                 PlaceIn(catalog', c) >= index
          PROVE  c \notin seen'[s]
      <4>1. c \in Children(catalog, e)
        BY <1>7, <2>2, <3>4
      <4>2. PlaceIn(catalog, c) >= index
        BY <1>4, <1>5, <3>2, <3>4, <4>1
      <4> QED BY <1>3, <3>1, <3>4, <4>1, <4>2
    <3> QED BY <1>2, <3>1, <3>3, <3>4 DEF Follows
  <2>3. ASSUME Changed(d, {"created", "deleted"}, n),
               Children(catalog', d) = Children(catalog, d)
        PROVE  Follows(catalog', dir_pool'[s], seen'[s], since'[s], changes'[s])
    <3>1. /\ since'[s] = since[s] \ {n} /\ seen'[s] = seen[s] \ {n}
          /\ changes'[s] = changes[s] \cup {"created", "deleted"}
      BY <1>7, <2>3, HistoryIs
    <3> QED BY <1>2, <1>3, <1>7, <2>3, <3>1 DEF Follows
  <2> QED BY <2>1, <2>2, <2>3, HereChanges
<1> QED BY <1>6, <1>7

-----------------------------------------------------------------------------
(* The streams: an inductive invariant *)

DirInv ==
  /\ SoundCatalog(catalog) /\ StreamsType /\ HereType /\ FlagsType
  /\ Siblings(catalog)
  /\ \A s \in Streams : Follows(catalog, dir_pool[s], seen[s], since[s], changes[s])

\* The program starts without a stream, in a catalog of one directory at most.
LEMMA DirInvInit == Init => DirInv
<1> SUFFICES ASSUME Init PROVE DirInv
  OBVIOUS
<1>1. SoundCatalog(catalog) /\ Siblings(catalog) /\ here \in Nodes \cup {Root}
  <2>1. CASE catalog = <<>> /\ here = Root
    <3>1. DOMAIN catalog = {}
      BY <2>1
    <3>2. catalog \in [{} -> Item]
      BY <2>1
    <3> QED BY <2>1, <3>1, <3>2 DEF SoundCatalog, Siblings
  <2>2. ASSUME NEW n \in Nodes, NEW name \in Names,
               catalog = [m \in {n} |-> [parent |-> Root, name |-> name, isDir |-> TRUE]],
               here = n
        PROVE  SoundCatalog(catalog) /\ Siblings(catalog) /\ here \in Nodes \cup {Root}
    <3>1. DOMAIN catalog = {n} /\ catalog[n].parent = Root
      BY <2>2
    <3>2. catalog \in [{n} -> Item]
      BY <2>2 DEF Item
    <3> QED BY <2>2, <3>1, <3>2 DEF SoundCatalog, Siblings, IsDir
  <2> QED BY <2>1, <2>2 DEF Init
<1>2. HereType /\ FlagsType
  <2>1. <<>> \in Seq(Macs)
    OBVIOUS
  <2> QED BY <1>1, <2>1 DEF Init, HereType, FlagsType
<1>3. StreamsType
  <2>1. Cardinality(Nodes) \in Nat
    BY PathAssumption, FS_CardinalityType
  <2> QED BY <2>1 DEF Init, StreamsType, Stream
<1>4. ASSUME NEW s \in Streams
      PROVE  Follows(catalog, dir_pool[s], seen[s], since[s], changes[s])
  BY <1>4 DEF Init, Follows
<1> QED BY <1>1, <1>2, <1>3, <1>4 DEF DirInv

\* What a change of the catalog does to the streams keeps their types.
LEMMA ChangeStreamsType ==
  ASSUME StreamsType, NEW d, NEW n, ChangedIn(d, n)
  PROVE  StreamsType'
<1>1. PICK change \in SUBSET {"created", "deleted"} : Changed(d, change, n)
  BY DEF ChangedIn
<1>2. dir_pool' = dir_pool
  BY <1>1 DEF Changed
<1>3. seen' \in [Streams -> SUBSET Nodes] /\ since' \in [Streams -> SUBSET Nodes]
  BY <1>1 DEF Changed, StreamsType
<1>4. changes' \in [Streams -> SUBSET {"created", "deleted"}]
  <2>1. \A s \in Streams : changes[s] \cup change \in SUBSET {"created", "deleted"}
    BY DEF StreamsType
  <2> QED BY <1>1, <2>1 DEF Changed, StreamsType
<1> QED BY <1>2, <1>3, <1>4 DEF StreamsType

\* A change of the catalog keeps what there is to keep but for the current directory.
LEMMA ChangeKeeps ==
  ASSUME DirInv, NEW d, NEW n, ChangedIn(d, n), HereType', FlagsType'
  PROVE  DirInv'
<1>1. SoundCatalog(catalog') /\ Siblings(catalog')
  BY CatalogStaysSound DEF DirInv
<1>2. StreamsType'
  BY ChangeStreamsType DEF DirInv
<1>3. ASSUME NEW s \in Streams
      PROVE  Follows(catalog', dir_pool'[s], seen'[s], since'[s], changes'[s])
  BY <1>1, FollowsChange DEF DirInv
<1> QED BY <1>1, <1>2, <1>3 DEF DirInv

\* A path that leads to a directory leads to a node or to the root.
LEMMA DirIsNode ==
  ASSUME SoundCatalog(catalog), NEW d, IsDir(catalog, d)
  PROVE  d \in Nodes \cup {Root}
  BY CatalogDomain DEF IsDir

\* A translation leaves the current directory's path a path, and its flags flags.
LEMMA TranslateTypes ==
  ASSUME HereType, FlagsType, here' \in Nodes \cup {Root},
         \/ init_cwd
         \/ \E p \in AllPaths : Translate(p)
         \/ UNCHANGED <<cwd_mac, cwd_initialized, given, overwritten>>
  PROVE  HereType' /\ FlagsType'
<1>1. <<Volume>> \in Seq(Macs)
  BY PathAssumption DEF Macs
<1>2. init_cwd \/ UNCHANGED <<cwd_mac, cwd_initialized, given, overwritten>>
  BY DEF Translate
<1>3. cwd_mac' \in Seq(Macs)
  BY <1>1, <1>2 DEF init_cwd, Initialized, HereType
<1>4. cwd_initialized' \in BOOLEAN
  BY <1>2 DEF init_cwd, FlagsType
<1>5. given' \in BOOLEAN /\ overwritten' \in BOOLEAN
  BY <1>2, Zenon DEF init_cwd, FlagsType
<1> QED BY <1>3, <1>4, <1>5 DEF HereType, FlagsType

\* The calls that change the catalog leave the default directory, and its path a path.
LEMMA CallTypes ==
  ASSUME HereType, FlagsType, NEW p \in AllPaths,
         \/ Mkdir(p) \/ CreateFile(p) \/ Rmdir(p) \/ Unlink(p)
         \/ \E new \in AllPaths : Rename(p, new)
  PROVE  HereType' /\ FlagsType'
<1>1. p \in AllPaths
  BY DirectoryAssumption
<1>2. CASE Mkdir(p)
  <2>1. Translate(p) /\ here' = here
    BY <1>2 DEF Mkdir
  <2> QED BY <1>1, <2>1, TranslateTypes DEF HereType
<1>3. CASE CreateFile(p)
  BY <1>3, TranslateTypes DEF CreateFile, cwd, HereType
<1>4. CASE Rmdir(p)
  <2>1. <<Volume>> \in Seq(Macs)
    BY PathAssumption DEF Macs
  <2>2. cwd_mac' \in Seq(Macs) /\ here' = here
    BY <1>4, <2>1 DEF Rmdir, Initialized, HereType
  <2>3. cwd_initialized' \in BOOLEAN
    BY <1>4 DEF Rmdir, FlagsType
  <2>4. given' \in BOOLEAN /\ overwritten' \in BOOLEAN
    BY <1>4, Zenon DEF Rmdir
  <2> QED BY <2>2, <2>3, <2>4 DEF HereType, FlagsType
<1>5. CASE Unlink(p)
  <2>1. UNCHANGED <<here, cwd_mac, cwd_initialized, overwritten>>
    BY <1>5 DEF Unlink
  <2>2. given' \in BOOLEAN
    BY <1>5, Zenon DEF Unlink
  <2> QED BY <2>1, <2>2 DEF HereType, FlagsType
<1>6. ASSUME NEW new \in AllPaths, Rename(p, new)
      PROVE  HereType' /\ FlagsType'
  <2>1. UNCHANGED <<here, cwd_mac, cwd_initialized, overwritten>>
    BY <1>6 DEF Rename
  <2>2. given' \in BOOLEAN
    BY <1>6, Zenon DEF Rename
  <2> QED BY <2>1, <2>2 DEF HereType, FlagsType
<1> QED BY <1>2, <1>3, <1>4, <1>5, <1>6

\* A stream that is opened or rewound has returned nothing, and nothing comes before its index.
LEMMA StartedFollows ==
  ASSUME SoundCatalog(catalog), NEW stream, stream.index = 1
  PROVE  Follows(catalog, stream, {}, Children(catalog, stream.dirID), {})
<1>1. \A n \in Children(catalog, stream.dirID) : PlaceIn(catalog, n) \in Nat \ {0}
  BY PlaceType DEF Children
<1> QED BY <1>1 DEF Follows

\* What stands in the model for a place is the place in the catalog.
LEMMA PlaceNow ==
  /\ \A n : Place(n) = PlaceIn(catalog, n)
  /\ \A s \in Streams : Listed(s) = Children(catalog, dir_pool[s].dirID)
  BY DEF Place, Rank, PlaceIn, UpTo, RankOf, Listed

\* What a call on one stream has to keep: that stream, and the types.
LEMMA StreamKeeps ==
  ASSUME DirInv, NEW s \in Streams, NEW stream \in Stream,
         stream.index <= Cardinality(Nodes) + 1,
         NEW returned \in SUBSET Nodes, NEW there \in SUBSET Nodes,
         NEW change \in SUBSET {"created", "deleted"},
         dir_pool' = [dir_pool EXCEPT ![s] = stream],
         seen' = [seen EXCEPT ![s] = returned],
         since' = [since EXCEPT ![s] = there],
         changes' = [changes EXCEPT ![s] = change],
         Follows(catalog, stream, returned, there, change),
         UNCHANGED catalog, HereType', FlagsType'
  PROVE  DirInv'
<1>1. StreamsType'
  BY DEF DirInv, StreamsType
<1>2. ASSUME NEW other \in Streams
      PROVE  Follows(catalog', dir_pool'[other], seen'[other], since'[other], changes'[other])
  <2>1. CASE other = s
    <3>1. /\ dir_pool'[other] = stream /\ seen'[other] = returned
          /\ since'[other] = there /\ changes'[other] = change
      BY <2>1 DEF DirInv, StreamsType
    <3> QED BY <3>1
  <2>2. CASE other # s
    <3>1. /\ dir_pool'[other] = dir_pool[other] /\ seen'[other] = seen[other]
          /\ since'[other] = since[other] /\ changes'[other] = changes[other]
      BY <1>2, <2>2 DEF DirInv, StreamsType
    <3> QED BY <3>1 DEF DirInv
  <2> QED BY <2>1, <2>2
<1> QED BY <1>1, <1>2 DEF DirInv

\* A call that leaves the catalog and the streams has only the current directory to keep.
LEMMA CwdKeeps ==
  ASSUME DirInv, UNCHANGED <<catalog, streams>>, HereType', FlagsType'
  PROVE  DirInv'
<1>1. StreamsType'
  BY DEF streams, DirInv, StreamsType
<1>2. ASSUME NEW s \in Streams
      PROVE  Follows(catalog', dir_pool'[s], seen'[s], since'[s], changes'[s])
  BY DEF streams, DirInv
<1> QED BY <1>1, <1>2 DEF DirInv

\* A call by a path of any program's, or by another that the translations are asked for.
AllCalls == \/ \E p \in AllPaths :
                 \/ Mkdir(p) \/ CreateFile(p) \/ Rmdir(p) \/ Unlink(p)
                 \/ \E new \in AllPaths : Rename(p, new)
                 \/ \E s \in Streams : opendir(p, s)
                 \/ Chdir(p)
            \/ \E s \in Streams : readdir(s) \/ rewinddir(s) \/ closedir(s)
            \/ Getcwd

\* The calls that programs make are some of them.
LEMMA CallsAreAll == [Next]_vars => [AllCalls]_vars
BY DirectoryAssumption DEF Next, Call, AllCalls

\* Every call keeps the invariant.
LEMMA DirInvStep == ASSUME DirInv, [AllCalls]_vars PROVE DirInv'
<1>1. /\ SoundCatalog(catalog) /\ StreamsType /\ HereType /\ FlagsType
      /\ \A s \in Streams : Follows(catalog, dir_pool[s], seen[s], since[s], changes[s])
  BY DEF DirInv
<1>2. DOMAIN catalog \subseteq Nodes /\ \A d : Children(catalog, d) \subseteq Nodes
  BY <1>1, CatalogDomain DEF Children
<1>3. UNCHANGED cwd => HereType' /\ FlagsType'
  BY <1>1 DEF cwd, HereType, FlagsType
<1>4. Cardinality(Nodes) \in Nat
  BY PathAssumption, FS_CardinalityType
<1>5. ASSUME NEW p \in AllPaths,
             \/ Mkdir(p) \/ CreateFile(p) \/ Rmdir(p) \/ Unlink(p)
             \/ \E new \in AllPaths : Rename(p, new)
      PROVE  DirInv'
  <2>1. PICK d, n : ChangedIn(d, n)
    BY <1>1, <1>5, CallChanges
  <2>2. HereType' /\ FlagsType'
    BY <1>1, <1>5, CallTypes
  <2> QED BY <2>1, <2>2, ChangeKeeps
<1>6. ASSUME NEW p \in AllPaths, NEW s \in Streams, opendir(p, s) PROVE DirInv'
  <2> DEFINE d == Full(p)
             stream == [inUse |-> TRUE, dirID |-> d, index |-> 1]
  <2>1. d \in Nodes \cup {Root}
    BY <1>1, <1>6, DirIsNode DEF opendir
  <2>2. /\ dir_pool' = [dir_pool EXCEPT ![s] = stream]
        /\ seen' = [seen EXCEPT ![s] = {}]
        /\ since' = [since EXCEPT ![s] = Children(catalog, d)]
        /\ changes' = [changes EXCEPT ![s] = {}]
        /\ Translate(p) /\ UNCHANGED <<catalog, here>>
    BY <1>6 DEF opendir, Started
  <2> HIDE DEF d
  <2>3. stream \in Stream /\ stream.index = 1 /\ stream.dirID = d
    BY <2>1 DEF Stream
  <2>4. HereType' /\ FlagsType'
    <3>1. p \in AllPaths /\ here' \in Nodes \cup {Root}
      BY <1>1, <2>2, DirectoryAssumption DEF HereType
    <3> QED BY <1>1, <2>2, <3>1, TranslateTypes
  <2>5. 1 <= Cardinality(Nodes) + 1
    BY <1>4
  <2> HIDE DEF stream
  <2>6. Follows(catalog, stream, {}, Children(catalog, d), {})
    BY <1>1, <2>3, StartedFollows
  <2> QED BY <1>2, <2>2, <2>3, <2>4, <2>5, <2>6, StreamKeeps
<1>7. ASSUME NEW p \in AllPaths, Chdir(p) PROVE DirInv'
  <2>1. here' \in Nodes \cup {Root}
    BY <1>1, <1>7, DirIsNode DEF Chdir
  <2>2. cwd_mac' \in Seq(Macs)
    BY <1>7, DirectoryAssumption, MacPathType DEF Chdir
  <2>3. cwd_initialized' \in BOOLEAN
    BY <1>1, <1>7 DEF Chdir, FlagsType
  <2>4. given' \in BOOLEAN /\ overwritten' \in BOOLEAN
    BY <1>7, Zenon DEF Chdir
  <2>5. UNCHANGED <<catalog, streams>>
    BY <1>7 DEF Chdir
  <2> QED BY <2>1, <2>2, <2>3, <2>4, <2>5, CwdKeeps DEF HereType, FlagsType
<1>8. ASSUME NEW s \in Streams, readdir(s) PROVE DirInv'
  <2> DEFINE d == dir_pool[s].dirID
             index == dir_pool[s].index
             stream == [dir_pool[s] EXCEPT !.index = index + 1]
  <2>1. PICK n \in Children(catalog, d) :
          PlaceIn(catalog, n) = index /\ seen' = [seen EXCEPT ![s] = seen[s] \cup {n}]
    BY <1>8, PlaceNow DEF readdir
  <2>2. /\ dir_pool[s].inUse /\ dir_pool' = [dir_pool EXCEPT ![s] = stream]
        /\ UNCHANGED <<catalog, cwd, since, changes>>
    BY <1>8 DEF readdir
  <2>3. n \in DOMAIN catalog /\ index \in 1 .. Cardinality(Nodes)
    BY <1>1, <2>1, PlaceType DEF Children
  <2>4. /\ dir_pool[s] \in Stream /\ seen[s] \in SUBSET Nodes /\ since[s] \in SUBSET Nodes
        /\ changes[s] \in SUBSET {"created", "deleted"}
        /\ since' = [since EXCEPT ![s] = since[s]]
        /\ changes' = [changes EXCEPT ![s] = changes[s]]
    BY <1>1, <2>2 DEF StreamsType
  <2>5. /\ stream \in Stream /\ stream.index = index + 1 /\ stream.dirID = d
        /\ stream.inUse = dir_pool[s].inUse
    BY <2>3, <2>4 DEF Stream
  <2>6. Follows(catalog, dir_pool[s], seen[s], since[s], changes[s])
    BY <1>1
  <2>7. \A m \in Children(catalog, d) : PlaceIn(catalog, m) \in Nat
    BY <1>1, PlaceType DEF Children
  <2> HIDE DEF stream
  <2>8. Follows(catalog, stream, seen[s] \cup {n}, since[s], changes[s])
    <3>1. /\ since[s] \subseteq Children(catalog, d)
          /\ "created" \notin changes[s] =>
               \A m \in Children(catalog, d) : PlaceIn(catalog, m) >= index => m \notin seen[s]
          /\ "deleted" \notin changes[s] =>
               \A m \in since[s] : PlaceIn(catalog, m) < index => m \in seen[s]
      BY <2>2, <2>6 DEF Follows
    <3>2. ASSUME "created" \notin changes[s], NEW m \in Children(catalog, d),
                 PlaceIn(catalog, m) >= index + 1
          PROVE  m \notin seen[s] \cup {n}
      <4>1. PlaceIn(catalog, m) >= index /\ PlaceIn(catalog, m) # index
        BY <2>3, <2>7, <3>2
      <4> QED BY <2>1, <3>1, <3>2, <4>1
    <3>3. ASSUME "deleted" \notin changes[s], NEW m \in since[s],
                 PlaceIn(catalog, m) < index + 1
          PROVE  m \in seen[s] \cup {n}
      <4>1. m \in Children(catalog, d)
        BY <3>1
      <4>2. PlaceIn(catalog, m) < index \/ PlaceIn(catalog, m) = index
        BY <2>3, <2>7, <3>3, <4>1
      <4>3. PlaceIn(catalog, m) = index => m = n
        BY <1>1, <2>1, <4>1, PlaceUnique DEF DirInv
      <4> QED BY <3>1, <3>3, <4>2, <4>3
    <3> QED BY <2>5, <3>1, <3>2, <3>3 DEF Follows
  <2>9. HereType' /\ FlagsType'
    BY <1>3, <2>2
  <2>10. stream.index <= Cardinality(Nodes) + 1
    BY <1>4, <2>3, <2>5
  <2>11. seen[s] \cup {n} \in SUBSET Nodes
    BY <1>2, <2>3, <2>4
  <2> HIDE DEF d, index
  <2> QED BY <2>1, <2>2, <2>4, <2>5, <2>8, <2>9, <2>10, <2>11, StreamKeeps
<1>9. ASSUME NEW s \in Streams, rewinddir(s) PROVE DirInv'
  <2> DEFINE d == dir_pool[s].dirID
             stream == [dir_pool[s] EXCEPT !.index = 1]
  <2>1. /\ dir_pool' = [dir_pool EXCEPT ![s] = stream]
        /\ seen' = [seen EXCEPT ![s] = {}]
        /\ since' = [since EXCEPT ![s] = Children(catalog, d)]
        /\ changes' = [changes EXCEPT ![s] = {}]
        /\ UNCHANGED <<catalog, cwd>>
    BY <1>9 DEF rewinddir, Started
  <2>2. dir_pool[s] \in Stream
    BY <1>1 DEF StreamsType
  <2>3. stream \in Stream /\ stream.index = 1 /\ stream.dirID = d
    BY <2>2 DEF Stream
  <2>4. HereType' /\ FlagsType'
    BY <1>3, <2>1
  <2>5. 1 <= Cardinality(Nodes) + 1
    BY <1>4
  <2> HIDE DEF stream, d
  <2>6. Follows(catalog, stream, {}, Children(catalog, d), {})
    BY <1>1, <2>3, StartedFollows
  <2> QED BY <1>2, <2>1, <2>3, <2>4, <2>5, <2>6, StreamKeeps
<1>10. ASSUME NEW s \in Streams, closedir(s) PROVE DirInv'
  <2> DEFINE stream == [inUse |-> FALSE, dirID |-> Root, index |-> 1]
  <2>1. /\ dir_pool' = [dir_pool EXCEPT ![s] = stream]
        /\ seen' = [seen EXCEPT ![s] = {}]
        /\ since' = [since EXCEPT ![s] = {}]
        /\ changes' = [changes EXCEPT ![s] = {}]
        /\ UNCHANGED <<catalog, cwd>>
    BY <1>10 DEF closedir
  <2>2. stream \in Stream /\ stream.index = 1 /\ ~stream.inUse
    BY DEF Stream
  <2>3. HereType' /\ FlagsType'
    BY <1>3, <2>1
  <2>4. 1 <= Cardinality(Nodes) + 1
    BY <1>4
  <2> HIDE DEF stream
  <2>5. Follows(catalog, stream, {}, {}, {})
    BY <2>2 DEF Follows
  <2> QED BY <2>1, <2>2, <2>3, <2>4, <2>5, StreamKeeps
<1>11. CASE Getcwd
  <2>1. HereType' /\ FlagsType'
    <3>1. here' \in Nodes \cup {Root} /\ init_cwd
      BY <1>1, <1>11 DEF Getcwd, HereType
    <3> QED BY <1>1, <3>1, TranslateTypes
  <2> QED BY <1>11, <2>1, CwdKeeps DEF Getcwd
<1>12. CASE UNCHANGED vars
  <2>1. UNCHANGED <<catalog, streams>> /\ UNCHANGED cwd
    BY <1>12 DEF vars
  <2> QED BY <1>3, <2>1, CwdKeeps
<1> QED BY <1>5, <1>6, <1>7, <1>8, <1>9, <1>10, <1>11, <1>12 DEF AllCalls

\* The invariant of the streams holds in every state.
LEMMA DirInvariance == Spec => []DirInv
  BY DirInvInit, DirInvStep, CallsAreAll, PTL DEF Spec

\* It has the types in it.
LEMMA DirInvTypes == DirInv => TypeOK
BY DEF DirInv, SoundCatalog, StreamsType, HereType, FlagsType, TypeOK, Macs

\* The types of the catalog, the streams and the current directory: a stream's index never
\* passes the place after the last of its entries.
THEOREM DirTypeCorrect == Spec => []TypeOK
BY DirInvTypes, DirInvariance, PTL

\* readdir returns no entry a second time, as long as none is created or renamed meanwhile.
THEOREM NoneTwice == Spec => []NoEntryTwice
<1>1. DirInv => NoEntryTwice
  BY PlaceNow DEF DirInv, Follows, NoEntryTwice
<1> QED BY <1>1, DirInvariance, PTL

\* readdir leaves no entry out, as long as none is deleted or renamed meanwhile.
THEOREM NoneMissed == Spec => []NoEntryMissed
<1>1. DirInv => NoEntryMissed
  BY PlaceNow DEF DirInv, Follows, NoEntryMissed
<1> QED BY <1>1, DirInvariance, PTL

-----------------------------------------------------------------------------
(* The two translations *)

\* Whatever is in the catalog, open, stat, unlink and rename see, by a path without dots that
\* does not lean on the default volume, what opendir, mkdir, rmdir and chdir see by it.
THEOREM CallsSeeOneFile == Spec => []TranslatorsAgree
<1>1. TranslatorsAgree
  BY TranslationsAgree DEF TranslatorsAgree, Basic, Full
<1> QED BY <1>1, PTL

-----------------------------------------------------------------------------
(* Walks through a catalog *)

\* What a walk can come to: a node, the root, or nothing.
Ends == Nodes \cup {Root, NoNode}

\* A turn of Walk, and one of Meant.
Step(cat, n, path, i) ==
  IF path[i] # ":" THEN Child(cat, n, path[i])
  ELSE IF i > 1 /\ path[i - 1] # ":" THEN n
  ELSE Parent(cat, n)

Go(cat, n, part) ==
  IF part = "." THEN n
  ELSE IF part = ".." THEN Parent(cat, n)
  ELSE Child(cat, n, part)

\* From an end, every turn comes to an end.
LEMMA StepType ==
  ASSUME NEW cat, SoundCatalog(cat), NEW n \in Ends
  PROVE  /\ Parent(cat, n) \in Ends
         /\ \A name : Child(cat, n, name) \in Ends
         /\ \A path, i : Step(cat, n, path, i) \in Ends
         /\ \A part : Go(cat, n, part) \in Ends
<1>1. Parent(cat, n) \in Ends
  BY CatalogDomain DEF Parent, Ends
<1>2. ASSUME NEW name PROVE Child(cat, n, name) \in Ends
  <2> DEFINE found == {c \in Children(cat, n) : cat[c].name = name}
  <2>1. CASE found = {}
    BY <2>1 DEF Child, Ends
  <2>2. CASE found # {}
    <3>1. Child(cat, n, name) = CHOOSE c \in found : TRUE
      BY <2>2 DEF Child
    <3>2. Child(cat, n, name) \in found
      BY <2>2, <3>1
    <3> QED BY <3>2, CatalogDomain DEF Children, Ends
  <2> QED BY <2>1, <2>2
<1> QED BY <1>1, <1>2 DEF Step, Go

\* g has what is computed in S, turn i by F[i], after each of the first k turns.
Turns(F, S, start, k, g) ==
  /\ g \in [0 .. k -> S]
  /\ g[0] = start
  /\ \A i \in 1 .. k : g[i] = F[i][g[i - 1]]

\* What is computed turn by turn has a value after each turn.
LEMMA LoopExists ==
  ASSUME NEW n \in Nat, NEW S, NEW start \in S, NEW F \in [1 .. n -> [S -> S]]
  PROVE  \E g : Turns(F, S, start, n, g)
<1> DEFINE Good == {k \in 0 .. n : \E g : Turns(F, S, start, k, g)}
<1>1. 0 \in Good
  <2>1. Turns(F, S, start, 0, [i \in 0 .. 0 |-> start])
    BY DEF Turns
  <2> QED BY <2>1
<1>2. ASSUME NEW k \in 0 + 1 .. n, k - 1 \in Good PROVE k \in Good
  <2>1. PICK g : Turns(F, S, start, k - 1, g)
    BY <1>2
  <2> DEFINE h == [i \in 0 .. k |-> IF i = k THEN F[k][g[k - 1]] ELSE g[i]]
  <2>2. \A i \in 0 .. k - 1 : g[i] \in S
    BY <1>2, <2>1 DEF Turns
  <2>3. F[k][g[k - 1]] \in S
    <3>1. g[k - 1] \in S /\ k \in 1 .. n /\ F[k] \in [S -> S]
      BY <1>2, <2>2
    <3> QED BY <3>1
  <2>4. h \in [0 .. k -> S]
    BY <1>2, <2>2, <2>3
  <2>5. h[0] = start
    BY <1>2, <2>1 DEF Turns
  <2>6. ASSUME NEW i \in 1 .. k PROVE h[i] = F[i][h[i - 1]]
    <3>1. h[i - 1] = g[i - 1]
      BY <1>2
    <3>2. CASE i = k
      <4>1. h[i] = F[k][g[k - 1]]
        BY <1>2, <3>2
      <4> QED BY <3>1, <3>2, <4>1
    <3>3. CASE i # k
      <4>1. h[i] = g[i] /\ i \in 1 .. k - 1
        BY <1>2, <3>3
      <4> HIDE DEF h
      <4> QED BY <2>1, <3>1, <4>1 DEF Turns
    <3> QED BY <3>2, <3>3
  <2>7. Turns(F, S, start, k, h)
    BY <2>4, <2>5, <2>6 DEF Turns
  <2> HIDE DEF h
  <2> QED BY <1>2, <2>7
<1>3. n \in Good
  <2> HIDE DEF Good
  <2>1. \A k \in 0 .. n : k \in Good
    BY <1>1, <1>2, Induction
  <2> QED BY <2>1
<1> QED BY <1>3

\* The File Manager's way along a path, token by token.
WalkIs(cat, start, path, f) ==
  /\ f[0] = start
  /\ \A i \in 1 .. Len(path) : f[i] = Step(cat, f[i - 1], path, i)
  /\ Walk(cat, start, path) = f[Len(path)]

\* Walk, token by token.
LEMMA WalkIsLoop ==
  ASSUME NEW cat, SoundCatalog(cat), NEW start \in Ends, NEW path \in Seq(Macs)
  PROVE  \E f : WalkIs(cat, start, path, f)
<1> DEFINE n == Len(path)
           F == [i \in 1 .. n |-> [m \in Ends |-> Step(cat, m, path, i)]]
           Eq(h) == h = [i \in 0 .. n |-> IF i = 0 THEN start ELSE Step(cat, h[i - 1], path, i)]
<1>1. n \in Nat
  BY LenProperties
<1>2. F \in [1 .. n -> [Ends -> Ends]]
  BY StepType
<1>3. \A m \in Ends, i \in 1 .. n : F[i][m] = Step(cat, m, path, i)
  OBVIOUS
<1> HIDE DEF F
<1>4. PICK g : Turns(F, Ends, start, n, g)
  <2> HIDE DEF n
  <2> QED BY <1>1, <1>2, LoopExists
<1>5. \A i \in 1 .. n : g[i] = Step(cat, g[i - 1], path, i)
  <2> SUFFICES ASSUME NEW i \in 1 .. n PROVE g[i] = Step(cat, g[i - 1], path, i)
    OBVIOUS
  <2>1. g[i - 1] \in Ends
    BY <1>1, <1>4 DEF Turns
  <2> QED BY <1>3, <1>4, <2>1 DEF Turns
<1>6. Eq(g)
  <2> HIDE DEF n
  <2> QED BY <1>1, <1>4, <1>5 DEF Turns
<1> DEFINE f == CHOOSE h : Eq(h)
<1>7. Eq(f)
  <2> HIDE DEF Eq
  <2> QED BY <1>6
<1>8. Walk(cat, start, path) = f[n]
  BY DEF Walk, Step
<1> HIDE DEF f
<1>9. f[0] = start /\ \A i \in 1 .. n : f[i] = Step(cat, f[i - 1], path, i)
  <2> HIDE DEF n
  <2> QED BY <1>1, <1>7
<1> QED BY <1>8, <1>9 DEF WalkIs

\* A path as the calls have it.
Posix(p) == p.start \in {"here", "root", "volume"} /\ p.parts \in Seq(Names)

\* What POSIX means, part by part.
MeantIs(cat, dir, p, f) ==
  /\ f[0] = IF Relative(p) THEN dir ELSE Root
  /\ \A i \in 1 .. Len(p.parts) : f[i] = Go(cat, f[i - 1], p.parts[i])
  /\ \A i \in 0 .. Len(p.parts) : f[i] \in Ends
  /\ Meant(cat, dir, p) = f[Len(p.parts)]

\* Meant, part by part.
LEMMA MeantIsLoop ==
  ASSUME NEW cat, SoundCatalog(cat), NEW dir \in Ends, NEW p, Posix(p)
  PROVE  \E f : MeantIs(cat, dir, p, f)
<1> DEFINE n == Len(p.parts)
           start == IF Relative(p) THEN dir ELSE Root
           F == [i \in 1 .. n |-> [m \in Ends |-> Go(cat, m, p.parts[i])]]
           Eq(h) == h = [i \in 0 .. n |-> IF i = 0 THEN start ELSE Go(cat, h[i - 1], p.parts[i])]
<1>1. n \in Nat /\ p.parts \in Seq(Names)
  BY LenProperties DEF Posix
<1>2. F \in [1 .. n -> [Ends -> Ends]]
  BY StepType
<1>3. \A m \in Ends, i \in 1 .. n : F[i][m] = Go(cat, m, p.parts[i])
  OBVIOUS
<1>4. start \in Ends
  BY DEF Ends
<1> HIDE DEF F
<1>5. PICK g : Turns(F, Ends, start, n, g)
  <2> HIDE DEF n, start
  <2> QED BY <1>1, <1>2, <1>4, LoopExists
<1>6. \A i \in 1 .. n : g[i] = Go(cat, g[i - 1], p.parts[i])
  <2> SUFFICES ASSUME NEW i \in 1 .. n PROVE g[i] = Go(cat, g[i - 1], p.parts[i])
    OBVIOUS
  <2>1. g[i - 1] \in Ends
    <3>1. g \in [0 .. n -> Ends]
      BY <1>5 DEF Turns
    <3>2. i - 1 \in 0 .. n
      BY <1>1
    <3> QED BY <3>1, <3>2
  <2> QED BY <1>3, <1>5, <2>1 DEF Turns
<1>7. Eq(g)
  <2> HIDE DEF n, start
  <2> QED BY <1>1, <1>5, <1>6 DEF Turns
<1> DEFINE f == CHOOSE h : Eq(h)
<1>8. Eq(f)
  <2> HIDE DEF Eq
  <2> QED BY <1>7
<1>9. Meant(cat, dir, p) = f[n]
  BY DEF Meant, Go
<1> HIDE DEF f
<1>10. f[0] = start /\ \A i \in 1 .. n : f[i] = Go(cat, f[i - 1], p.parts[i])
  <2> HIDE DEF n, start
  <2> QED BY <1>1, <1>8
<1>11. \A i \in 0 .. n : f[i] \in Ends
  <2> DEFINE Good == {i \in 0 .. n : f[i] \in Ends}
  <2>1. 0 \in Good
    BY <1>1, <1>4, <1>10
  <2>2. ASSUME NEW i \in 0 + 1 .. n, i - 1 \in Good PROVE i \in Good
    <3>1. i \in 1 .. n /\ i \in 0 .. n /\ f[i - 1] \in Ends
      BY <1>1, <2>2
    <3>2. Go(cat, f[i - 1], p.parts[i]) \in Ends
      BY <3>1, StepType
    <3> QED BY <1>10, <3>1, <3>2
  <2>3. \A i \in 0 .. n : i \in Good
    <3> HIDE DEF Good, n
    <3> QED BY <1>1, <2>1, <2>2, Induction
  <2> QED BY <2>3
<1> QED BY <1>9, <1>10, <1>11 DEF MeantIs

\* A walk without a step stays, and one more token is one more step.
LEMMA WalkMore ==
  ASSUME NEW cat, SoundCatalog(cat), NEW start \in Ends, NEW path \in Seq(Macs), NEW token \in Macs
  PROVE  /\ Walk(cat, start, <<>>) = start
         /\ token # ":" =>
              Walk(cat, start, path \o <<token>>) = Child(cat, Walk(cat, start, path), token)
         /\ token = ":" /\ path # <<>> /\ path[Len(path)] # ":" =>
              Walk(cat, start, path \o <<token>>) = Walk(cat, start, path)
         /\ token = ":" /\ (path = <<>> \/ path[Len(path)] = ":") =>
              Walk(cat, start, path \o <<token>>) = Parent(cat, Walk(cat, start, path))
<1> DEFINE n == Len(path)
           longer == path \o <<token>>
<1>1. n \in Nat /\ (path = <<>> <=> n = 0) /\ <<token>> \in Seq(Macs) /\ Len(<<token>>) = 1
  BY LenProperties, EmptySeq
<1>2. /\ longer \in Seq(Macs) /\ Len(longer) = n + 1
      /\ \A i \in 1 .. n : longer[i] = path[i]
      /\ longer[n + 1] = token
  <2>1. /\ longer \in Seq(Macs) /\ Len(longer) = n + 1
        /\ \A i \in 1 .. n + 1 : longer[i] = IF i <= n THEN path[i] ELSE <<token>>[i - n]
    BY <1>1, ConcatProperties
  <2> HIDE DEF longer, n
  <2>2. (n + 1) - n = 1
    BY <1>1
  <2>3. longer[n + 1] = <<token>>[1]
    BY <1>1, <2>1, <2>2
  <2> QED BY <1>1, <2>1, <2>3
<1> HIDE DEF longer
<1>3. PICK f : WalkIs(cat, start, path, f)
  BY WalkIsLoop
<1>4. PICK g : WalkIs(cat, start, longer, g)
  BY <1>2, WalkIsLoop
<1>5. \A i \in 0 .. n : g[i] = f[i]
  <2> DEFINE Good == {i \in 0 .. n : g[i] = f[i]}
  <2>1. 0 \in Good
    BY <1>1, <1>3, <1>4 DEF WalkIs
  <2>2. ASSUME NEW i \in 0 + 1 .. n, i - 1 \in Good PROVE i \in Good
    <3>1. i \in 1 .. n /\ i \in 0 .. n /\ i \in 1 .. n + 1 /\ g[i - 1] = f[i - 1]
      BY <1>1, <2>2
    <3>2. Step(cat, g[i - 1], longer, i) = Step(cat, f[i - 1], path, i)
      <4>1. longer[i] = path[i]
        BY <1>2, <3>1
      <4>2. i > 1 => longer[i - 1] = path[i - 1]
        BY <1>1, <1>2, <3>1
      <4> QED BY <3>1, <4>1, <4>2 DEF Step
    <3> QED BY <1>2, <1>3, <1>4, <3>1, <3>2 DEF WalkIs
  <2>3. \A i \in 0 .. n : i \in Good
    <3> HIDE DEF Good, n
    <3> QED BY <1>1, <2>1, <2>2, Induction
  <2> QED BY <2>3
<1>6. Walk(cat, start, longer) = Step(cat, Walk(cat, start, path), longer, n + 1)
  <2>1. n \in 0 .. n /\ n + 1 \in 1 .. n + 1 /\ (n + 1) - 1 = n
    BY <1>1
  <2>2. Walk(cat, start, longer) = g[n + 1] /\ Walk(cat, start, path) = f[n]
    BY <1>2, <1>3, <1>4 DEF WalkIs
  <2>3. g[n + 1] = Step(cat, g[n], longer, n + 1)
    BY <1>2, <1>4, <2>1 DEF WalkIs
  <2> QED BY <1>5, <2>1, <2>2, <2>3
<1>7. (n + 1 > 1 <=> path # <<>>) /\ (n + 1) - 1 = n /\ (path # <<>> => longer[n] = path[n])
  BY <1>1, <1>2
<1>8. Walk(cat, start, <<>>) = start
  <2>1. <<>> \in Seq(Macs) /\ Len(<<>>) = 0
    BY EmptySeq
  <2>2. PICK h : WalkIs(cat, start, <<>>, h)
    BY <2>1, WalkIsLoop
  <2> QED BY <2>1, <2>2 DEF WalkIs
<1>9. Walk(cat, start, longer) =
        IF token # ":" THEN Child(cat, Walk(cat, start, path), token)
        ELSE IF path # <<>> /\ path[n] # ":" THEN Walk(cat, start, path)
        ELSE Parent(cat, Walk(cat, start, path))
  BY <1>2, <1>6, <1>7 DEF Step
<1> QED BY <1>8, <1>9 DEF longer

\* The same, each for itself.  Without a token the walk stays.
LEMMA WalkNone ==
  ASSUME NEW cat, SoundCatalog(cat), NEW start \in Ends
  PROVE  Walk(cat, start, <<>>) = start
<1>1. <<>> \in Seq(Macs) /\ ":" \in Macs
  BY EmptySeq DEF Macs
<1> QED BY <1>1, WalkMore, Zenon

\* A name leads to the child that has it.
LEMMA WalkName ==
  ASSUME NEW cat, SoundCatalog(cat), NEW start \in Ends, NEW path \in Seq(Macs),
         NEW token \in Macs, token # ":"
  PROVE  Walk(cat, start, path \o <<token>>) = Child(cat, Walk(cat, start, path), token)
  BY WalkMore, Zenon

\* A colon after a name only separates.
LEMMA WalkOver ==
  ASSUME NEW cat, SoundCatalog(cat), NEW start \in Ends, NEW path \in Seq(Macs),
         path # <<>>, path[Len(path)] # ":"
  PROVE  Walk(cat, start, path \o <<":">>) = Walk(cat, start, path)
<1>1. ":" \in Macs
  BY DEF Macs
<1> QED BY <1>1, WalkMore, Zenon

\* Any other goes up.
LEMMA WalkUp ==
  ASSUME NEW cat, SoundCatalog(cat), NEW start \in Ends, NEW path \in Seq(Macs),
         path = <<>> \/ path[Len(path)] = ":"
  PROVE  Walk(cat, start, path \o <<":">>) = Parent(cat, Walk(cat, start, path))
<1>1. ":" \in Macs
  BY DEF Macs
<1> QED BY <1>1, WalkMore, Zenon

\* A path that the end of the translation leaves as it is.
Kept(mac) ==
  Len(mac) > 0 /\ (mac[Len(mac)] # ":" \/ (Len(mac) > 1 /\ mac[Len(mac) - 1] = ":"))

\* A path that ends in a name: a colon that follows only separates.
AtName(path) == path # <<>> /\ path[Len(path)] # ":"

\* One more token on a path.
LEMMA OneMore ==
  ASSUME NEW path \in Seq(Macs), NEW token \in Macs
  PROVE  /\ path \o <<token>> \in Seq(Macs)
         /\ Len(path) \in Nat /\ Len(path \o <<token>>) = Len(path) + 1
         /\ (path \o <<token>>)[Len(path) + 1] = token
         /\ \A i \in 1 .. Len(path) : (path \o <<token>>)[i] = path[i]
         /\ \A pre \in Seq(Macs) : pre \o (path \o <<token>>) = (pre \o path) \o <<token>>
<1>1. Append(path, token) = path \o <<token>> /\ Len(path) \in Nat /\ <<token>> \in Seq(Macs)
  BY AppendIsConcat, LenProperties
<1>2. ASSUME NEW pre \in Seq(Macs)
      PROVE  pre \o (path \o <<token>>) = (pre \o path) \o <<token>>
  BY <1>1, ConcatAssociative
<1> QED BY <1>1, <1>2, AppendProperties

\* Two more colons are one, and one.
LEMMA TwoColons ==
  ASSUME NEW path \in Seq(Macs)
  PROVE  path \o <<":", ":">> = (path \o <<":">>) \o <<":">>
<1>1. <<":">> \in Seq(Macs) /\ <<":", ":">> = <<":">> \o <<":">>
  BY DEF Macs
<1> QED BY <1>1, ConcatAssociative

\* One turn of the loop is one part of the way: a name to go to, or two colons to go up.
LEMMA TurnWalks ==
  ASSUME NEW cat, SoundCatalog(cat), NEW start \in Ends, NEW pre \in Seq(Macs),
         NEW so \in LoopState, NEW part \in Names \ {"."},
         part = ".." => so.atSlash,
         so.atSlash => AtName(pre \o so.mac)
  PROVE  /\ Walk(cat, start, pre \o Turn(so, part).mac) =
              Go(cat, Walk(cat, start, pre \o so.mac), part)
         /\ Turn(so, part).atSlash <=> part # ".."
         /\ Turn(so, part).atSlash => AtName(pre \o Turn(so, part).mac)
         /\ Kept(Turn(so, part).mac)
<1> DEFINE mac == so.mac
           colon == <<":">>
           name == <<part>>
           w == pre \o mac
           wc == w \o colon
<1>1. /\ mac \in Seq(Macs) /\ ":" \in Macs /\ part \in Macs /\ part # ":"
  BY PathAssumption DEF LoopState, Macs
<1> HIDE DEF mac
<1>2. w \in Seq(Macs)
  BY <1>1, ConcatProperties
<1> HIDE DEF w
<1>3. CASE part = ".."
  <2> DEFINE mc == mac \o colon
             mcc == mc \o colon
             wcc == wc \o colon
  <2>1. so.atSlash /\ AtName(w)
    BY <1>3 DEF mac, w
  <2>2. mc \in Seq(Macs) /\ wc \in Seq(Macs) /\ pre \o mc = wc
    BY <1>1, <1>2, OneMore DEF w
  <2>3. pre \o mcc = wcc
    <3> HIDE DEF mc, wc
    <3>1. mc \in Seq(Macs) /\ pre \o mc = wc
      BY <2>2
    <3>2. pre \o (mc \o <<":">>) = (pre \o mc) \o <<":">>
      BY <1>1, <3>1, OneMore
    <3> QED BY <3>1, <3>2
  <2>4. Turn(so, part).mac = mcc /\ ~Turn(so, part).atSlash
    <3>1. Turn(so, part) = [mac |-> mac \o <<":", ":">>, atSlash |-> FALSE]
      BY <1>3, <2>1 DEF Turn, mac
    <3>2. mac \o <<":", ":">> = mcc
      BY <1>1, TwoColons
    <3> HIDE DEF mcc
    <3> QED BY <3>1, <3>2
  <2>5. Walk(cat, start, wc) = Walk(cat, start, w)
    BY <1>2, <2>1, WalkOver DEF AtName
  <2>6. wc # <<>> /\ wc[Len(wc)] = ":"
    <3>1. Len(wc) = Len(w) + 1 /\ wc[Len(w) + 1] = ":" /\ Len(w) \in Nat
      BY <1>1, <1>2, OneMore
    <3> HIDE DEF wc
    <3> QED BY <2>2, <3>1, EmptySeq
  <2>7. Walk(cat, start, wcc) = Parent(cat, Walk(cat, start, wc))
    <3> HIDE DEF wc
    <3> QED BY <2>2, <2>6, WalkUp
  <2>8. Kept(mcc)
    <3>1. Len(mc) = Len(mac) + 1 /\ mc[Len(mac) + 1] = ":" /\ Len(mac) \in Nat
      BY <1>1, OneMore
    <3> HIDE DEF mc
    <3>2. Len(mcc) = Len(mc) + 1 /\ \A i \in 1 .. Len(mc) : mcc[i] = mc[i]
      BY <1>1, <2>2, OneMore
    <3> HIDE DEF mcc
    <3>3. Len(mcc) > 1 /\ Len(mcc) - 1 = Len(mac) + 1 /\ Len(mac) + 1 \in 1 .. Len(mc)
      BY <3>1, <3>2
    <3>4. mcc[Len(mcc) - 1] = ":"
      BY <3>1, <3>2, <3>3
    <3> QED BY <3>3, <3>4 DEF Kept
  <2>9. Go(cat, Walk(cat, start, w), part) = Parent(cat, Walk(cat, start, w))
    BY <1>3 DEF Go
  <2>10. w = pre \o so.mac
    BY DEF w, mac
  <2> HIDE DEF mc, mcc, wc, wcc
  <2> QED BY <1>3, <2>3, <2>4, <2>5, <2>7, <2>8, <2>9, <2>10
<1>4. CASE part # ".."
  <2> DEFINE before == IF so.atSlash THEN mac \o colon ELSE mac
             after == before \o name
             there == IF so.atSlash THEN wc ELSE w
             v == there \o name
  <2>1. before \in Seq(Macs) /\ there \in Seq(Macs) /\ pre \o before = there
    <3>1. CASE so.atSlash
      <4>1. mac \o colon \in Seq(Macs) /\ wc \in Seq(Macs) /\ pre \o (mac \o colon) = wc
        BY <1>1, <1>2, OneMore DEF w
      <4> QED BY <3>1, <4>1
    <3>2. CASE ~so.atSlash
      BY <1>1, <1>2, <3>2 DEF w
    <3> QED BY <3>1, <3>2
  <2>2. Turn(so, part).mac = after /\ Turn(so, part).atSlash
    <3>1. Turn(so, part) = [mac |-> after, atSlash |-> TRUE]
      <4>1. CASE so.atSlash
        BY <1>4, <4>1 DEF Turn, mac
      <4>2. CASE ~so.atSlash
        <5>1. mac \o <<>> = mac
          BY <1>1, ConcatEmptySeq
        <5> QED BY <1>4, <4>2, <5>1 DEF Turn, mac
      <4> QED BY <4>1, <4>2
    <3> HIDE DEF after
    <3> QED BY <3>1
  <2>3. Walk(cat, start, there) = Walk(cat, start, w)
    <3>1. CASE so.atSlash
      <4>1. AtName(w)
        BY <3>1 DEF w, mac
      <4>2. w # <<>> /\ w[Len(w)] # ":"
        BY <4>1 DEF AtName
      <4>3. Walk(cat, start, w \o <<":">>) = Walk(cat, start, w)
        BY <1>2, <4>2, WalkOver
      <4> QED BY <3>1, <4>3
    <3>2. CASE ~so.atSlash
      BY <3>2
    <3> QED BY <3>1, <3>2
  <2> HIDE DEF before, there
  <2>4. pre \o after = v
    <3>1. part \in Macs /\ before \in Seq(Macs)
      BY <1>1, <2>1
    <3>2. pre \o (before \o name) = (pre \o before) \o name
      BY <3>1, OneMore
    <3> QED BY <2>1, <3>2
  <2>5. Walk(cat, start, v) = Child(cat, Walk(cat, start, there), part)
    <3>1. part \in Macs /\ part # ":" /\ there \in Seq(Macs)
      BY <1>1, <2>1
    <3>2. Walk(cat, start, there \o <<part>>) = Child(cat, Walk(cat, start, there), part)
      BY <3>1, WalkName
    <3> QED BY <3>2
  <2>6. AtName(v)
    <3>1. /\ v \in Seq(Macs) /\ Len(there) \in Nat
          /\ Len(v) = Len(there) + 1 /\ v[Len(there) + 1] = part
      BY <1>1, <2>1, OneMore
    <3> HIDE DEF v
    <3>2. v # <<>>
      BY <3>1, EmptySeq
    <3> QED BY <1>1, <3>1, <3>2 DEF AtName
  <2>7. Kept(after)
    <3>1. Len(before) \in Nat /\ Len(after) = Len(before) + 1 /\ after[Len(before) + 1] = part
      BY <1>1, <2>1, OneMore
    <3> HIDE DEF after
    <3> QED BY <1>1, <3>1 DEF Kept
  <2>8. Go(cat, Walk(cat, start, w), part) = Child(cat, Walk(cat, start, w), part)
    BY <1>4 DEF Go
  <2>9. w = pre \o so.mac
    BY DEF w, mac
  <2> HIDE DEF after, v
  <2> QED BY <1>4, <2>2, <2>3, <2>4, <2>5, <2>6, <2>7, <2>8, <2>9
<1> QED BY <1>3, <1>4

\* The parts that follow a start: no ".", and no ".." but after a name.
Core(parts) ==
  \A i \in 1 .. Len(parts) :
    /\ parts[i] # "."
    /\ parts[i] = ".." => i > 1 /\ parts[i - 1] # ".."

\* After k parts the path, behind pre, leads to where; the loop is at a slash after a name.
OnTheWay(cat, start, pre, so, parts, k, where) ==
  /\ Walk(cat, start, pre \o so.mac) = where
  /\ so.atSlash => AtName(pre \o so.mac)
  /\ so.atSlash <=> k > 0 /\ parts[k] # ".."
  /\ k > 0 => Kept(so.mac)

\* m is where the parts lead, one by one.
Way(cat, parts, m) == \A i \in 1 .. Len(parts) : m[i] = Go(cat, m[i - 1], parts[i])

\* The loop's path leads, behind any other, from where that one leads, by the parts.
LEMMA CoreWalk ==
  ASSUME NEW cat, SoundCatalog(cat), NEW start \in Ends, NEW pre \in Seq(Macs),
         NEW parts \in Seq(Names), Core(parts),
         NEW m, Walk(cat, start, pre) = m[0], Way(cat, parts, m)
  PROVE  /\ Walk(cat, start, pre \o Parts(parts, FALSE)) = m[Len(parts)]
         /\ parts # <<>> => Kept(Parts(parts, FALSE))
<1> DEFINE n == Len(parts)
<1>1. n \in Nat /\ (parts # <<>> => n > 0) /\ \A i \in 1 .. n : parts[i] \in Names
  BY LenProperties, ElementOfSeq, EmptySeq
<1>2. PICK f : Loop(f, parts, FALSE, n) /\ Parts(parts, FALSE) = f[n].mac
  BY PartsIsLoop
<1> DEFINE Good == {k \in 0 .. n : OnTheWay(cat, start, pre, f[k], parts, k, m[k])}
<1>3. 0 \in Good
  <2>1. f[0].mac = <<>> /\ ~f[0].atSlash
    <3>1. f[0] = [mac |-> <<>>, atSlash |-> FALSE]
      BY <1>2 DEF Loop
    <3> QED BY <3>1
  <2>2. pre \o <<>> = pre
    BY ConcatEmptySeq
  <2>3. OnTheWay(cat, start, pre, f[0], parts, 0, m[0])
    BY <2>1, <2>2 DEF OnTheWay
  <2> QED BY <1>1, <2>3
<1>4. ASSUME NEW k \in 0 + 1 .. n, k - 1 \in Good PROVE k \in Good
  <2>1. k \in 1 .. n /\ k \in 0 .. n /\ k > 0 /\ k - 1 \in 0 .. n
    BY <1>1, <1>4
  <2>2. OnTheWay(cat, start, pre, f[k - 1], parts, k - 1, m[k - 1])
    BY <1>4
  <2>3. f[k - 1] \in LoopState /\ f[k] = Turn(f[k - 1], parts[k])
    BY <1>2, <2>1 DEF Loop
  <2>4. parts[k] \in Names \ {"."} /\ (parts[k] = ".." => f[k - 1].atSlash)
    <3>1. parts[k] \in Names /\ parts[k] # "." /\ (parts[k] = ".." => k > 1 /\ parts[k - 1] # "..")
      BY <1>1, <2>1 DEF Core
    <3>2. k > 1 => k - 1 > 0
      BY <2>1
    <3> QED BY <2>2, <3>1, <3>2 DEF OnTheWay
  <2>5. f[k - 1].atSlash => AtName(pre \o f[k - 1].mac)
    BY <2>2 DEF OnTheWay
  <2>6. /\ Walk(cat, start, pre \o f[k].mac) =
             Go(cat, Walk(cat, start, pre \o f[k - 1].mac), parts[k])
        /\ f[k].atSlash <=> parts[k] # ".."
        /\ f[k].atSlash => AtName(pre \o f[k].mac)
        /\ Kept(f[k].mac)
    BY <2>3, <2>4, <2>5, TurnWalks
  <2>7. Walk(cat, start, pre \o f[k - 1].mac) = m[k - 1] /\ m[k] = Go(cat, m[k - 1], parts[k])
    BY <2>1, <2>2 DEF OnTheWay, Way
  <2>8. OnTheWay(cat, start, pre, f[k], parts, k, m[k])
    BY <2>1, <2>6, <2>7, Zenon DEF OnTheWay
  <2> QED BY <2>1, <2>8
<1>5. n \in Good
  <2> HIDE DEF Good, n
  <2>1. \A k \in 0 .. n : k \in Good
    BY <1>1, <1>3, <1>4, Induction
  <2> QED BY <1>1, <2>1
<1>6. OnTheWay(cat, start, pre, f[n], parts, n, m[n])
  BY <1>5
<1> HIDE DEF Good
<1> QED BY <1>1, <1>2, <1>6 DEF OnTheWay

\* A turn behind a colon.
LEMMA TurnShift ==
  ASSUME NEW so \in LoopState, NEW behind \in LoopState, NEW part \in Names,
         behind.mac = <<":">> \o so.mac, behind.atSlash = so.atSlash
  PROVE  /\ Turn(behind, part).mac = <<":">> \o Turn(so, part).mac
         /\ Turn(behind, part).atSlash = Turn(so, part).atSlash
<1> DEFINE mac == so.mac
           colon == <<":">>
           back == behind.mac
<1>1. /\ mac \in Seq(Macs) /\ back \in Seq(Macs)
      /\ ":" \in Macs /\ part \in Macs /\ colon \in Seq(Macs)
  BY DEF LoopState, Macs
<1>2. back = colon \o mac
  OBVIOUS
<1> DEFINE mc == mac \o colon
           bc == back \o colon
<1>3. mc \in Seq(Macs) /\ bc \in Seq(Macs) /\ colon \o mc = bc
  <2> HIDE DEF mac, back
  <2>1. mac \o <<":">> \in Seq(Macs) /\ back \o <<":">> \in Seq(Macs)
    BY <1>1, OneMore
  <2>2. colon \o (mac \o <<":">>) = (colon \o mac) \o <<":">>
    BY <1>1, OneMore
  <2> QED BY <1>2, <2>1, <2>2
<1>4. CASE so.atSlash /\ part = ".."
  <2> DEFINE mcc == mc \o <<":">>
             bcc == bc \o <<":">>
  <2>1. Turn(so, part) = [mac |-> mac \o <<":", ":">>, atSlash |-> FALSE]
    BY <1>4 DEF Turn
  <2>2. Turn(behind, part) = [mac |-> back \o <<":", ":">>, atSlash |-> FALSE]
    BY <1>4 DEF Turn
  <2> HIDE DEF mac, back
  <2>3. mac \o <<":", ":">> = mcc /\ back \o <<":", ":">> = bcc
    BY <1>1, TwoColons
  <2>4. colon \o mcc = bcc
    <3> HIDE DEF mc, bc, colon
    <3>1. mc \in Seq(Macs) /\ colon \o mc = bc
      BY <1>3
    <3>2. ":" \in Macs /\ colon \in Seq(Macs)
      BY <1>1
    <3>3. colon \o (mc \o <<":">>) = (colon \o mc) \o <<":">>
      BY <3>1, <3>2, OneMore, Zenon
    <3> QED BY <3>1, <3>3
  <2> HIDE DEF mcc, bcc
  <2>5. Turn(so, part).mac = mcc /\ Turn(behind, part).mac = bcc
    BY <2>1, <2>2, <2>3
  <2>6. Turn(so, part).atSlash = FALSE /\ Turn(behind, part).atSlash = FALSE
    BY <2>1, <2>2
  <2> QED BY <2>4, <2>5, <2>6
<1>5. CASE ~(so.atSlash /\ part = "..")
  <2> DEFINE a == IF so.atSlash THEN mc ELSE mac
             b == IF so.atSlash THEN bc ELSE back
             an == a \o <<part>>
             bn == b \o <<part>>
  <2>1. Turn(so, part) = [mac |-> an, atSlash |-> TRUE]
    <3>1. mac \o <<>> = mac
      BY <1>1, ConcatEmptySeq
    <3>2. CASE so.atSlash
      BY <1>5, <3>2 DEF Turn
    <3>3. CASE ~so.atSlash
      BY <1>5, <3>1, <3>3 DEF Turn
    <3> QED BY <3>2, <3>3
  <2>2. Turn(behind, part) = [mac |-> bn, atSlash |-> TRUE]
    <3>1. back \o <<>> = back
      BY <1>1, ConcatEmptySeq
    <3>2. CASE so.atSlash
      BY <1>5, <3>2 DEF Turn
    <3>3. CASE ~so.atSlash
      BY <1>5, <3>1, <3>3 DEF Turn
    <3> QED BY <3>2, <3>3
  <2> HIDE DEF mc, bc, mac, back
  <2>3. a \in Seq(Macs) /\ colon \o a = b
    BY <1>1, <1>2, <1>3
  <2> HIDE DEF a, b
  <2>4. colon \o an = bn
    <3>1. colon \o (a \o <<part>>) = (colon \o a) \o <<part>>
      BY <1>1, <2>3, OneMore
    <3> QED BY <2>3, <3>1
  <2> HIDE DEF an, bn
  <2>5. Turn(so, part).mac = an /\ Turn(behind, part).mac = bn
    BY <2>1, <2>2
  <2>6. Turn(so, part).atSlash = TRUE /\ Turn(behind, part).atSlash = TRUE
    BY <2>1, <2>2
  <2> QED BY <2>4, <2>5, <2>6
<1> QED BY <1>4, <1>5

\* A slash before the parts is a colon before their path, unless they start with "..".
LEMMA SlashFirst ==
  ASSUME NEW parts \in Seq(Names), parts # <<>>, parts[1] # ".."
  PROVE  Parts(parts, TRUE) = <<":">> \o Parts(parts, FALSE)
<1> DEFINE n == Len(parts)
<1>1. n \in Nat \ {0} /\ \A i \in 1 .. n : parts[i] \in Names
  BY LenProperties, ElementOfSeq, EmptySeq
<1>2. PICK f : Loop(f, parts, FALSE, n) /\ Parts(parts, FALSE) = f[n].mac
  BY PartsIsLoop
<1>3. PICK g : Loop(g, parts, TRUE, n) /\ Parts(parts, TRUE) = g[n].mac
  BY PartsIsLoop
<1> DEFINE Good == {k \in 1 .. n : g[k].mac = <<":">> \o f[k].mac /\ g[k].atSlash = f[k].atSlash}
<1>4. 1 \in Good
  <2>1. 1 \in 1 .. n /\ 1 - 1 = 0
    BY <1>1
  <2>2. f[1] = Turn(f[0], parts[1]) /\ f[0] = [mac |-> <<>>, atSlash |-> FALSE]
    BY <1>2, <2>1 DEF Loop
  <2>3. g[1] = Turn(g[0], parts[1]) /\ g[0] = [mac |-> <<>>, atSlash |-> TRUE]
    BY <1>3, <2>1 DEF Loop
  <2> DEFINE name == <<parts[1]>>
             colon == <<":">>
             e == <<>>
  <2>4. f[1] = [mac |-> e \o e \o name, atSlash |-> TRUE]
    <3>1. f[0].mac = <<>> /\ ~f[0].atSlash
      BY <2>2
    <3> QED BY <2>2, <3>1 DEF Turn
  <2>5. g[1] = [mac |-> e \o colon \o name, atSlash |-> TRUE]
    <3>1. g[0].mac = <<>> /\ g[0].atSlash
      BY <2>3
    <3> QED BY <2>3, <3>1 DEF Turn
  <2>6. e \in Seq(Macs) /\ colon \in Seq(Macs) /\ name \in Seq(Macs)
    BY <1>1, <2>1 DEF Macs
  <2>7. e \o e = e /\ e \o colon = colon /\ e \o name = name
    BY <2>6, ConcatEmptySeq
  <2> HIDE DEF name, colon, e
  <2>8. f[1] = [mac |-> name, atSlash |-> TRUE]
    BY <2>4, <2>7
  <2>9. g[1] = [mac |-> colon \o name, atSlash |-> TRUE]
    BY <2>5, <2>7
  <2>10. f[1].mac = name /\ f[1].atSlash
    BY <2>8
  <2>11. g[1].mac = colon \o name /\ g[1].atSlash
    BY <2>9
  <2>12. f[1].atSlash \in BOOLEAN /\ g[1].atSlash \in BOOLEAN
    BY <1>2, <1>3, <2>1 DEF Loop, LoopState
  <2>13. g[1].mac = colon \o f[1].mac
    BY <2>10, <2>11
  <2>14. g[1].atSlash = f[1].atSlash
    BY <2>10, <2>11, <2>12
  <2> QED BY <2>1, <2>13, <2>14 DEF colon
<1>5. ASSUME NEW k \in 1 + 1 .. n, k - 1 \in Good PROVE k \in Good
  <2>1. k \in 1 .. n /\ k - 1 \in 0 .. n
    BY <1>1, <1>5
  <2>2. f[k - 1] \in LoopState /\ f[k] = Turn(f[k - 1], parts[k])
    BY <1>2, <2>1 DEF Loop
  <2>3. g[k - 1] \in LoopState /\ g[k] = Turn(g[k - 1], parts[k])
    BY <1>3, <2>1 DEF Loop
  <2>4. parts[k] \in Names
    BY <1>1, <2>1
  <2>5. g[k - 1].mac = <<":">> \o f[k - 1].mac /\ g[k - 1].atSlash = f[k - 1].atSlash
    BY <1>5
  <2>6. /\ Turn(g[k - 1], parts[k]).mac = <<":">> \o Turn(f[k - 1], parts[k]).mac
        /\ Turn(g[k - 1], parts[k]).atSlash = Turn(f[k - 1], parts[k]).atSlash
    BY <2>2, <2>3, <2>4, <2>5, TurnShift
  <2>7. g[k].mac = <<":">> \o f[k].mac /\ g[k].atSlash = f[k].atSlash
    BY <2>2, <2>3, <2>6
  <2> QED BY <2>1, <2>7
<1>6. n \in Good
  <2> HIDE DEF Good, n
  <2>1. \A k \in 1 .. n : k \in Good
    <3>1. 1 \in Nat /\ n \in Nat
      BY <1>1
    <3> QED BY <1>4, <1>5, <3>1, Induction
  <2> QED BY <1>1, <2>1
<1>7. g[n].mac = <<":">> \o f[n].mac
  BY <1>6
<1> QED BY <1>2, <1>3, <1>7

\* What is kept is kept behind anything.
LEMMA KeptIs ==
  ASSUME NEW path \in Seq(Macs), Kept(path)
  PROVE  /\ Trimmed(path) = path
         /\ \A pre \in Seq(Macs) : Kept(pre \o path)
<1>1. Trimmed(path) = path
  BY DEF Trimmed, Last, Kept
<1>2. ASSUME NEW pre \in Seq(Macs) PROVE Kept(pre \o path)
  <2> DEFINE more == pre \o path
             a == Len(pre)
             b == Len(path)
  <2>1. a \in Nat /\ b \in Nat /\ b > 0
    BY LenProperties DEF Kept
  <2>2. /\ Len(more) = a + b
        /\ \A i \in 1 .. a + b : more[i] = IF i <= a THEN pre[i] ELSE path[i - a]
    BY ConcatProperties
  <2> HIDE DEF more, a
  <2>3. ASSUME NEW i \in 1 .. b PROVE more[a + i] = path[i]
    <3> HIDE DEF b
    <3>1. a + i \in 1 .. a + b /\ ~(a + i <= a) /\ (a + i) - a = i
      BY <2>1
    <3>2. more[a + i] = path[(a + i) - a]
      BY <2>2, <3>1
    <3> QED BY <3>1, <3>2
  <2>4. more[a + b] = path[b]
    <3> HIDE DEF b
    <3>1. b \in 1 .. b
      BY <2>1
    <3> QED BY <2>3, <3>1
  <2>5. b > 1 => more[(a + b) - 1] = path[b - 1]
    <3> HIDE DEF b
    <3>1. b > 1 => b - 1 \in 1 .. b /\ a + (b - 1) = (a + b) - 1
      BY <2>1
    <3> QED BY <2>3, <3>1
  <2>6. Kept(path)
    OBVIOUS
  <2>7. path[b] # ":" \/ (b > 1 /\ path[b - 1] = ":")
    BY <2>6 DEF Kept
  <2> HIDE DEF b
  <2>8. Len(more) > 0 /\ (b > 1 => Len(more) > 1)
    BY <2>1, <2>2
  <2>9. Kept(more)
    BY <2>2, <2>4, <2>5, <2>7, <2>8 DEF Kept
  <2> QED BY <2>9 DEF more
<1> QED BY <1>1, <1>2

\* A path that starts with a colon is walked from here.
LEMMA ColonPath ==
  ASSUME NEW q \in Seq(Macs), NEW cat, NEW dir
  PROVE  Resolve(cat, dir, <<":">> \o q) = Walk(cat, dir, q)
<1> DEFINE path == <<":">> \o q
<1>1. <<":">> \in Seq(Macs) /\ Len(<<":">>) = 1 /\ <<":">>[1] = ":"
  BY DEF Macs
<1>2. /\ path \in Seq(Macs) /\ Len(path) = 1 + Len(q) /\ Len(q) \in Nat
      /\ path[1] = ":" /\ \A i \in 1 .. Len(q) : path[i + 1] = q[i]
  <2>1. /\ path \in Seq(Macs) /\ Len(path) = 1 + Len(q) /\ Len(q) \in Nat
        /\ \A i \in 1 .. 1 + Len(q) : path[i] = IF i <= 1 THEN <<":">>[i] ELSE q[i - 1]
    BY <1>1, ConcatProperties, LenProperties
  <2> HIDE DEF path
  <2>2. path[1] = <<":">>[1]
    BY <2>1
  <2>3. ASSUME NEW i \in 1 .. Len(q) PROVE path[i + 1] = q[i]
    <3>1. i + 1 \in 1 .. 1 + Len(q) /\ ~(i + 1 <= 1) /\ (i + 1) - 1 = i
      BY <2>1
    <3> QED BY <2>1, <3>1
  <2> QED BY <1>1, <2>1, <2>2, <2>3
<1> HIDE DEF path
<1>3. path # <<>>
  BY <1>2, EmptySeq
<1>4. Tail(path) \in Seq(Macs) /\ Len(Tail(path)) = Len(q)
  BY <1>2, <1>3, HeadTailProperties
<1>5. \A i \in 1 .. Len(q) : Tail(path)[i] = q[i]
  BY <1>2, <1>3, HeadTailProperties
<1>6. Tail(path) = q
  BY <1>4, <1>5, SeqEqual
<1>7. Resolve(cat, dir, path) = Walk(cat, dir, q)
  BY <1>2, <1>3, <1>6 DEF Resolve
<1> QED BY <1>7 DEF path

\* A path that starts with the volume's name and a colon is walked from the root.
LEMMA VolumePath ==
  ASSUME NEW q \in Seq(Macs), NEW cat, NEW dir
  PROVE  Resolve(cat, dir, <<Volume, ":">> \o q) = Walk(cat, Root, q)
<1> DEFINE path == <<Volume, ":">> \o q
           head == <<Volume, ":">>
<1>1. head \in Seq(Macs) /\ Len(head) = 2 /\ head[1] = Volume
  BY PathAssumption DEF Macs
<1>2. Len(q) \in Nat /\ path = head \o q
  BY LenProperties
<1> HIDE DEF head, path
<1>3. /\ path \in Seq(Macs) /\ Len(path) = 2 + Len(q)
      /\ \A i \in 1 .. 2 + Len(q) : path[i] = IF i <= 2 THEN head[i] ELSE q[i - 2]
  <2>1. /\ head \o q \in Seq(Macs) /\ Len(head \o q) = Len(head) + Len(q)
        /\ \A i \in 1 .. Len(head) + Len(q) :
             (head \o q)[i] = IF i <= Len(head) THEN head[i] ELSE q[i - Len(head)]
    BY <1>1, ConcatProperties
  <2> QED BY <1>1, <1>2, <2>1
<1>4. path[1] = Volume /\ Volume # ":" /\ path # <<>> /\ Len(path) # 1
  <2>1. 1 \in 1 .. 2 + Len(q) /\ 1 <= 2 /\ Len(path) # 1 /\ Len(path) # 0
    BY <1>2, <1>3
  <2>2. path[1] = head[1]
    BY <1>3, <2>1
  <2>3. Volume # ":"
    BY PathAssumption
  <2>4. path # <<>>
    BY <2>1, EmptySeq
  <2> QED BY <1>1, <2>1, <2>2, <2>3, <2>4
<1>5. SubSeq(path, 3, Len(path)) = q
  <2> DEFINE rest == SubSeq(path, 3, Len(path))
  <2>1. /\ rest \in Seq(Macs) /\ Len(rest) = Len(q)
        /\ \A i \in 1 .. Len(q) : rest[i] = path[i + 2]
    <3>1. \A i \in 3 .. Len(path) : path[i] \in Macs
      BY <1>2, <1>3, ElementOfSeq
    <3>2. /\ rest \in Seq(Macs)
          /\ Len(rest) = IF 3 <= Len(path) THEN Len(path) - 3 + 1 ELSE 0
          /\ \A i \in 1 .. Len(path) - 3 + 1 : rest[i] = path[3 + i - 1]
      BY <1>2, <1>3, <3>1, SubSeqProperties
    <3> HIDE DEF rest
    <3>3. Len(rest) = Len(q)
      BY <1>2, <1>3, <3>2
    <3>4. ASSUME NEW i \in 1 .. Len(q) PROVE rest[i] = path[i + 2]
      <4>1. i \in 1 .. Len(path) - 3 + 1 /\ 3 + i - 1 = i + 2
        BY <1>2, <1>3
      <4> QED BY <3>2, <4>1
    <3> QED BY <3>2, <3>3, <3>4
  <2> HIDE DEF rest
  <2>2. ASSUME NEW i \in 1 .. Len(q) PROVE rest[i] = q[i]
    <3>1. i + 2 \in 1 .. 2 + Len(q) /\ ~(i + 2 <= 2) /\ (i + 2) - 2 = i
      BY <1>2
    <3>2. path[i + 2] = q[i]
      BY <1>3, <3>1
    <3> QED BY <2>1, <3>2
  <2>3. rest = q
    BY <2>1, <2>2, SeqEqual
  <2> QED BY <2>3 DEF rest
<1>6. Resolve(cat, dir, path) = Walk(cat, Root, q)
  BY <1>4, <1>5 DEF Resolve
<1> QED BY <1>6 DEF path

\* A relative path leads where what follows its first colon leads.
LEMMA BehindColon ==
  ASSUME NEW q \in Seq(Macs), q = <<>> \/ q = <<":">> \/ Kept(q), NEW cat, NEW dir
  PROVE  Resolve(cat, dir, Trimmed(<<":">> \o q)) = Walk(cat, dir, q)
<1>1. <<":">> \in Seq(Macs) /\ <<":", ":">> = <<":">> \o <<":">>
  BY DEF Macs
<1>2. Trimmed(<<":">> \o q) = <<":">> \o q
  <2>1. CASE q = <<>>
    <3>1. <<":">> \o q = <<":">>
      BY <1>1, <2>1, ConcatEmptySeq
    <3>2. Trimmed(<<":">>) = <<":">>
      BY DEF Trimmed
    <3> QED BY <3>1, <3>2
  <2>2. CASE q = <<":">>
    <3>1. <<":">> \o q = <<":", ":">>
      BY <1>1, <2>2
    <3>2. Trimmed(<<":", ":">>) = <<":", ":">>
      BY DEF Trimmed
    <3> QED BY <3>1, <3>2
  <2>3. CASE Kept(q)
    <3>1. Kept(<<":">> \o q)
      BY <1>1, <2>3, KeptIs
    <3>2. <<":">> \o q \in Seq(Macs)
      BY <1>1, ConcatProperties
    <3> QED BY <3>1, <3>2, KeptIs
  <2> QED BY <2>1, <2>2, <2>3
<1> QED BY <1>2, ColonPath

\* What follows the start of a path that the translation gets right.
LEMMA PlainIsCore ==
  ASSUME NEW p, Posix(p), Plain(p), p.parts # <<>>
  PROVE  /\ p.parts[1] \notin Dots => Core(p.parts)
         /\ p.parts[1] \in Dots => Relative(p) /\ Core(Tail(p.parts))
<1> DEFINE parts == p.parts
           n == Len(parts)
           rest == Tail(parts)
<1>1. parts \in Seq(Names) /\ n \in Nat \ {0} /\ 1 \in 1 .. n
  <2>1. parts \in Seq(Names)
    BY DEF Posix
  <2>2. n \in Nat /\ n # 0
    BY <2>1, LenProperties, EmptySeq
  <2> QED BY <2>1, <2>2
<1>2. \A i \in 1 .. n :
        /\ parts[i] = "." => i = 1 /\ Relative(p)
        /\ parts[i] = ".." => IF i = 1 THEN Relative(p) ELSE parts[i - 1] \notin Dots
  BY DEF Plain
<1>3. /\ rest \in Seq(Names) /\ Len(rest) = n - 1
      /\ \A i \in 1 .. n - 1 : rest[i] = parts[i + 1]
  BY <1>1, HeadTailProperties
<1> HIDE DEF rest, parts
<1>4. ASSUME parts[1] \notin Dots, NEW i \in 1 .. n
      PROVE  /\ parts[i] # "."
             /\ parts[i] = ".." => i > 1 /\ parts[i - 1] # ".."
  BY <1>1, <1>2, <1>4 DEF Dots
<1>5. ASSUME parts[1] \in Dots, NEW i \in 1 .. n - 1
      PROVE  /\ rest[i] # "."
             /\ rest[i] = ".." => i > 1 /\ rest[i - 1] # ".."
  <2>1. i + 1 \in 1 .. n /\ i + 1 # 1 /\ (i + 1) - 1 = i /\ rest[i] = parts[i + 1]
    BY <1>1, <1>3
  <2>2. rest[i] # "." /\ (rest[i] = ".." => parts[i] \notin Dots)
    BY <1>2, <2>1
  <2>3. parts[i] \notin Dots => i > 1
    BY <1>5
  <2>4. i > 1 => i - 1 \in 1 .. n - 1 /\ (i - 1) + 1 = i
    BY <1>1
  <2>5. i > 1 => rest[i - 1] = parts[i]
    BY <1>3, <2>4
  <2> QED BY <2>2, <2>3, <2>5 DEF Dots
<1>6. parts[1] \in Dots => Relative(p)
  BY <1>1, <1>2 DEF Dots
<1>7. parts[1] \notin Dots => Core(parts)
  BY <1>4 DEF Core
<1>8. parts[1] \in Dots => Core(rest)
  BY <1>3, <1>5 DEF Core
<1> QED BY <1>6, <1>7, <1>8 DEF rest, parts

\* A path that the translation gets right leads to what is meant, in every catalog.
LEMMA TranslationIs ==
  ASSUME NEW cat, SoundCatalog(cat), NEW dir \in Ends, NEW p, Posix(p), Plain(p)
  PROVE  Resolve(cat, dir, posix9_path_to_mac(p)) = Meant(cat, dir, p)
<1> DEFINE parts == p.parts
           n == Len(parts)
           rest == Tail(parts)
           tail == Parts(rest, FALSE)
           whole == Parts(parts, FALSE)
<1>1. /\ parts \in Seq(Names) /\ n \in Nat /\ p.start \in {"here", "root", "volume"}
      /\ (parts = <<>> <=> n = 0)
  BY LenProperties, EmptySeq DEF Posix
<1>2. PICK f : MeantIs(cat, dir, p, f)
  BY MeantIsLoop
<1>3. /\ f[0] = IF Relative(p) THEN dir ELSE Root
      /\ \A i \in 1 .. n : f[i] = Go(cat, f[i - 1], parts[i])
      /\ Meant(cat, dir, p) = f[n]
  BY <1>2 DEF MeantIs
<1>4. whole \in Seq(Macs) /\ Root \in Ends
  BY <1>1, PartsType DEF Ends
<1>5. <<>> \in Seq(Macs) /\ <<":">> \in Seq(Macs)
  BY DEF Macs
<1>6. ASSUME parts # <<>>, parts[1] \notin Dots, NEW start \in Ends, start = f[0]
      PROVE  Walk(cat, start, whole) = f[n] /\ Kept(whole)
  <2>1. Core(parts)
    BY <1>6, PlainIsCore
  <2>2. Walk(cat, start, <<>>) = f[0]
    BY <1>6, WalkNone
  <2>3. Walk(cat, start, <<>> \o whole) = f[n] /\ Kept(whole)
    <3>1. parts \in Seq(Names) /\ Way(cat, parts, f)
      BY <1>1, <1>3 DEF Way
    <3> HIDE DEF parts
    <3>2. Walk(cat, start, <<>> \o whole) = f[n] /\ (parts # <<>> => Kept(whole))
      BY <1>5, <2>1, <2>2, <3>1, CoreWalk
    <3> QED BY <1>6, <3>2
  <2>4. <<>> \o whole = whole
    BY <1>4, ConcatEmptySeq
  <2> QED BY <2>3, <2>4
<1>7. ASSUME parts # <<>>, parts[1] \in Dots,
             NEW pre \in Seq(Macs), Walk(cat, dir, pre) = f[1]
      PROVE  /\ tail \in Seq(Macs) /\ (tail = <<>> \/ Kept(tail))
             /\ Walk(cat, dir, pre \o tail) = f[n]
  <2>1. /\ rest \in Seq(Names) /\ Len(rest) = n - 1
        /\ \A i \in 1 .. n - 1 : rest[i] = parts[i + 1]
    BY <1>1, <1>7, HeadTailProperties
  <2>2. Core(rest) /\ Relative(p)
    BY <1>7, PlainIsCore
  <2> DEFINE m == [i \in 0 .. n - 1 |-> f[i + 1]]
  <2>3. n > 0 /\ m[0] = f[1] /\ m[n - 1] = f[n]
    BY <1>1, <1>7
  <2>4. ASSUME NEW i \in 1 .. n - 1 PROVE m[i] = Go(cat, m[i - 1], rest[i])
    <3>1. m[i] = f[i + 1] /\ m[i - 1] = f[i]
      BY <1>1
    <3>2. i + 1 \in 1 .. n /\ (i + 1) - 1 = i
      BY <1>1
    <3> HIDE DEF m
    <3>3. f[i + 1] = Go(cat, f[i], parts[i + 1])
      BY <1>3, <3>2
    <3> QED BY <2>1, <3>1, <3>3
  <2> HIDE DEF m, rest
  <2>5. tail \in Seq(Macs)
    BY <2>1, PartsType
  <2>6. Walk(cat, dir, pre \o tail) = f[n] /\ (rest # <<>> => Kept(tail))
    <3>1. Walk(cat, dir, pre) = m[0] /\ Way(cat, rest, m)
      BY <1>7, <2>1, <2>3, <2>4 DEF Way
    <3>2. Walk(cat, dir, pre \o tail) = m[Len(rest)] /\ (rest # <<>> => Kept(tail))
      BY <1>7, <2>1, <2>2, <3>1, CoreWalk
    <3> QED BY <2>1, <2>3, <3>2
  <2>7. rest = <<>> => tail = <<>>
    <3> SUFFICES ASSUME rest = <<>> PROVE tail = <<>>
      OBVIOUS
    <3>1. PICK g : Loop(g, rest, FALSE, Len(rest)) /\ tail = g[Len(rest)].mac
      BY <2>1, PartsIsLoop
    <3>2. Len(rest) = 0
      BY EmptySeq
    <3>3. g[0] = [mac |-> <<>>, atSlash |-> FALSE]
      BY <3>1 DEF Loop
    <3>4. g[0].mac = <<>>
      BY <3>3
    <3> QED BY <3>1, <3>2, <3>4
  <2> QED BY <2>5, <2>6, <2>7
<1>8. CASE p.start = "here" /\ parts = <<>>
  <2>1. posix9_path_to_mac(p) = Trimmed(<<>>)
    BY <1>8 DEF posix9_path_to_mac, Relative
  <2>2. Trimmed(<<>>) = <<>>
    BY EmptySeq DEF Trimmed
  <2>3. Resolve(cat, dir, posix9_path_to_mac(p)) = dir
    BY <1>1, <2>1, <2>2 DEF Resolve
  <2>4. Meant(cat, dir, p) = dir
    BY <1>1, <1>3, <1>8 DEF Relative
  <2> QED BY <2>3, <2>4
<1>9. CASE p.start = "here" /\ parts # <<>> /\ parts[1] = "."
  <2>1. posix9_path_to_mac(p) = Trimmed(<<":">> \o tail)
    BY <1>9 DEF posix9_path_to_mac, Relative
  <2>2. f[1] = dir
    <3>1. 1 \in 1 .. n /\ 1 - 1 = 0
      BY <1>1, <1>9
    <3>2. f[0] = dir
      BY <1>3, <1>9 DEF Relative
    <3>3. f[1] = Go(cat, f[0], parts[1])
      BY <1>3, <3>1
    <3> QED BY <1>9, <3>2, <3>3 DEF Go
  <2>3. Walk(cat, dir, <<>>) = f[1]
    BY <2>2, WalkNone
  <2>4. parts[1] \in Dots
    BY <1>9 DEF Dots
  <2>5. /\ tail \in Seq(Macs) /\ (tail = <<>> \/ Kept(tail))
        /\ Walk(cat, dir, <<>> \o tail) = f[n]
    BY <1>5, <1>7, <1>9, <2>3, <2>4
  <2>6. <<>> \o tail = tail
    BY <2>5, ConcatEmptySeq
  <2> HIDE DEF tail
  <2>7. Resolve(cat, dir, Trimmed(<<":">> \o tail)) = Walk(cat, dir, tail)
    BY <2>5, BehindColon
  <2> QED BY <1>1, <1>3, <2>1, <2>5, <2>6, <2>7
<1>10. CASE p.start = "here" /\ parts # <<>> /\ parts[1] = ".."
  <2> DEFINE q == <<":">> \o tail
  <2>1. posix9_path_to_mac(p) = Trimmed(<<":", ":">> \o tail)
    BY <1>10 DEF posix9_path_to_mac, Relative
  <2>2. f[1] = Parent(cat, dir)
    <3>1. 1 \in 1 .. n /\ 1 - 1 = 0
      BY <1>1, <1>10
    <3>2. f[0] = dir
      BY <1>3, <1>10 DEF Relative
    <3>3. f[1] = Go(cat, f[0], parts[1])
      BY <1>3, <3>1
    <3> QED BY <1>10, <3>2, <3>3 DEF Go
  <2>3. Walk(cat, dir, <<":">>) = f[1]
    <3>1. ":" \in Macs /\ <<>> \o <<":">> = <<":">>
      BY <1>5, ConcatEmptySeq DEF Macs
    <3>2. Walk(cat, dir, <<>> \o <<":">>) = Parent(cat, Walk(cat, dir, <<>>))
      BY <1>5, WalkUp
    <3>3. Walk(cat, dir, <<>>) = dir
      BY WalkNone
    <3> QED BY <2>2, <3>1, <3>2, <3>3
  <2>4. parts[1] \in Dots
    BY <1>10 DEF Dots
  <2>5. /\ tail \in Seq(Macs) /\ (tail = <<>> \/ Kept(tail))
        /\ Walk(cat, dir, q) = f[n]
    BY <1>5, <1>7, <1>10, <2>3, <2>4
  <2> HIDE DEF tail
  <2>6. q \in Seq(Macs) /\ <<":", ":">> \o tail = <<":">> \o q
    <3>1. <<":", ":">> = <<":">> \o <<":">>
      BY <1>5
    <3>2. (<<":">> \o <<":">>) \o tail = <<":">> \o (<<":">> \o tail)
      BY <1>5, <2>5, ConcatAssociative
    <3>3. <<":">> \o tail \in Seq(Macs)
      BY <1>5, <2>5, ConcatProperties
    <3> QED BY <3>1, <3>2, <3>3
  <2>7. q = <<":">> \/ Kept(q)
    <3>1. tail = <<>> => q = <<":">>
      BY <1>5, ConcatEmptySeq
    <3>2. Kept(tail) => Kept(q)
      BY <1>5, <2>5, KeptIs
    <3> QED BY <2>5, <3>1, <3>2
  <2> HIDE DEF q
  <2>8. Resolve(cat, dir, Trimmed(<<":">> \o q)) = Walk(cat, dir, q)
    BY <2>6, <2>7, BehindColon
  <2> QED BY <1>1, <1>3, <2>1, <2>5, <2>6, <2>8
<1>11. CASE p.start = "here" /\ parts # <<>> /\ parts[1] \notin Dots
  <2>1. posix9_path_to_mac(p) = Trimmed(<<":">> \o whole)
    BY <1>11 DEF posix9_path_to_mac, Relative, Dots
  <2>2. f[0] = dir
    BY <1>3, <1>11 DEF Relative
  <2>3. Walk(cat, dir, whole) = f[n] /\ Kept(whole)
    BY <1>6, <1>11, <2>2
  <2> HIDE DEF whole
  <2>4. Resolve(cat, dir, Trimmed(<<":">> \o whole)) = Walk(cat, dir, whole)
    BY <1>4, <2>3, BehindColon
  <2> QED BY <1>1, <1>3, <2>1, <2>3, <2>4
<1>12. CASE p.start \in {"root", "volume"}
  <2>1. ~Relative(p) /\ parts # <<>>
    BY <1>12 DEF Plain, Relative
  <2>2. parts[1] \notin Dots
    BY <2>1, PlainIsCore
  <2>3. f[0] = Root
    BY <1>3, <2>1
  <2>4. Walk(cat, Root, whole) = f[n] /\ Kept(whole)
    BY <1>4, <1>6, <2>1, <2>2, <2>3
  <2>5. <<Volume>> \in Seq(Macs) /\ <<Volume, ":">> \in Seq(Macs)
        /\ <<Volume, ":">> = <<Volume>> \o <<":">>
    BY PathAssumption DEF Macs
  <2>6. posix9_path_to_mac(p) = Trimmed(<<Volume, ":">> \o whole)
    <3>1. CASE p.start = "root"
      BY <3>1 DEF posix9_path_to_mac, Relative
    <3>2. CASE p.start = "volume"
      <4>1. posix9_path_to_mac(p) = Trimmed(<<Volume>> \o Parts(parts, TRUE))
        BY <3>2 DEF posix9_path_to_mac, Relative
      <4>2. Parts(parts, TRUE) = <<":">> \o whole
        BY <1>1, <2>1, <2>2, SlashFirst DEF Dots
      <4> HIDE DEF whole
      <4>3. <<Volume>> \o (<<":">> \o whole) = (<<Volume>> \o <<":">>) \o whole
        BY <1>4, <1>5, <2>5, ConcatAssociative
      <4> QED BY <2>5, <4>1, <4>2, <4>3
    <3> QED BY <1>12, <3>1, <3>2
  <2> HIDE DEF whole
  <2> DEFINE path == <<Volume, ":">> \o whole
  <2>7. path \in Seq(Macs) /\ Kept(path)
    BY <1>4, <2>4, <2>5, KeptIs, ConcatProperties
  <2>8. Resolve(cat, dir, path) = Walk(cat, Root, whole)
    BY <1>4, VolumePath
  <2> HIDE DEF path
  <2>9. Trimmed(path) = path
    BY <2>7, KeptIs
  <2> QED BY <1>1, <1>3, <2>4, <2>6, <2>8, <2>9 DEF path
<1> QED BY <1>1, <1>8, <1>9, <1>10, <1>11, <1>12 DEF Dots

\* Through whatever is in the catalog, and from every current directory, the Macintosh path of
\* posix9_path_to_mac leads to the file that POSIX means by a path without the dots it is wrong for.
THEOREM TranslationIsRight == Spec => []TranslationMeans
<1>1. DirInv => TranslationMeans
  <2> SUFFICES ASSUME DirInv, NEW p \in AllPaths, Plain(p)
               PROVE  Full(p) = Meant(catalog, here, p)
    BY DEF TranslationMeans
  <2>1. SoundCatalog(catalog) /\ here \in Ends
    BY DEF DirInv, HereType, Ends
  <2>2. Posix(p) /\ MacPath[p] = posix9_path_to_mac(p)
    BY DirectoryAssumption DEF Posix, MacPath
  <2> QED BY <2>1, <2>2, TranslationIs DEF Full
<1> QED BY <1>1, DirInvariance, PTL

-----------------------------------------------------------------------------
(* Where paths without dots lead *)

DotFree(parts) == parts # <<>> /\ \A i \in 1 .. Len(parts) : parts[i] \notin Dots

\* What comes before the colons and names of a translated path.
First(p) == IF Relative(p) THEN <<>> ELSE <<Volume>>

\* The first parts are joined like all of them.
LEMMA JoinedPrefix ==
  ASSUME NEW parts \in Seq(Names), NEW i \in 1 .. Len(parts)
  PROVE  /\ SubSeq(parts, 1, i) \in Seq(Names) /\ Len(SubSeq(parts, 1, i)) = i
         /\ \A j \in 1 .. i : SubSeq(parts, 1, i)[j] = parts[j]
         /\ Joined(SubSeq(parts, 1, i), i) = Joined(parts, i)
<1> DEFINE n == Len(parts)
           some == SubSeq(parts, 1, i)
<1>1. n \in Nat /\ \A j \in 1 .. n : parts[j] \in Names
  BY LenProperties, ElementOfSeq
<1>2. some \in Seq(Names) /\ Len(some) = i /\ \A j \in 1 .. i : some[j] = parts[j]
  <2>1. \A j \in 1 .. i : parts[j] \in Names
    BY <1>1
  <2>2. /\ some \in Seq(Names)
        /\ Len(some) = IF 1 <= i THEN i - 1 + 1 ELSE 0
        /\ \A j \in 1 .. i - 1 + 1 : some[j] = parts[1 + j - 1]
    BY <2>1, SubSeqProperties
  <2> HIDE DEF some
  <2>3. Len(some) = i
    BY <1>1, <2>2
  <2>4. ASSUME NEW j \in 1 .. i PROVE some[j] = parts[j]
    <3>1. j \in 1 .. i - 1 + 1 /\ 1 + j - 1 = j
      BY <1>1
    <3> QED BY <2>2, <3>1
  <2> QED BY <2>2, <2>3, <2>4
<1> HIDE DEF some
<1>3. ASSUME NEW j \in 1 .. 2 * i, j % 2 # 1 PROVE some[j \div 2] = parts[j \div 2]
  <2>1. j \div 2 \in 1 .. i
    BY <1>1, <1>3
  <2> QED BY <1>2, <2>1
<1>4. Joined(some, i) = Joined(parts, i)
  BY <1>3 DEF Joined
<1> QED BY <1>2, <1>4 DEF some

\* The Macintosh path of a path without dots.
LEMMA DotFreeIs ==
  ASSUME NEW p, Posix(p), DotFree(p.parts)
  PROVE  posix9_path_to_mac(p) = First(p) \o Joined(p.parts, Len(p.parts))
<1> DEFINE n == Len(p.parts)
           joined == Joined(p.parts, n)
           whole == Parts(p.parts, FALSE)
<1>1. p.parts \in Seq(Names) /\ n \in Nat \ {0} /\ n \in 1 .. n /\ 1 \in 1 .. n /\ p.parts # <<>>
  BY LenProperties, EmptySeq DEF Posix, DotFree
<1>2. /\ \A i \in 1 .. n : p.parts[i] \notin Dots
      /\ p.parts[1] # "." /\ p.parts[1] # ".." /\ p.parts[n] \in Names
  BY <1>1, ElementOfSeq DEF DotFree, Dots
<1>3. joined \in Seq(Macs) /\ Len(joined) = 2 * n /\ joined[2 * n] \in Names
  BY <1>1, <1>2, JoinedGrows
<1>4. <<":">> \o whole = joined /\ whole \in Seq(Macs)
  BY <1>1, <1>2, DotFreeParts, PartsType
<1>5. Kept(joined)
  <2>1. joined[2 * n] # ":"
    BY <1>3, PathAssumption
  <2> QED BY <1>1, <1>3, <2>1 DEF Kept
<1>6. Parts(p.parts, TRUE) = joined
  BY <1>1, <1>2, <1>4, SlashFirst
<1>7. /\ <<Volume>> \in Seq(Macs) /\ <<Volume, ":">> = <<Volume>> \o <<":">>
      /\ <<":">> \in Seq(Macs) /\ <<>> \in Seq(Macs)
  BY PathAssumption DEF Macs
<1>8. posix9_path_to_mac(p) = Trimmed(First(p) \o joined)
  <2>1. CASE Relative(p)
    <3>1. posix9_path_to_mac(p) = Trimmed(<<":">> \o whole)
      BY <1>1, <1>2, <2>1 DEF posix9_path_to_mac, Relative
    <3>2. <<>> \o joined = joined
      BY <1>3, ConcatEmptySeq
    <3> QED BY <1>4, <2>1, <3>1, <3>2 DEF First
  <2>2. CASE p.start = "volume"
    <3>1. posix9_path_to_mac(p) = Trimmed(<<Volume>> \o Parts(p.parts, TRUE))
      BY <2>2 DEF posix9_path_to_mac, Relative
    <3>2. First(p) = <<Volume>>
      BY <2>2 DEF First, Relative
    <3> QED BY <1>6, <3>1, <3>2
  <2>3. CASE p.start = "root"
    <3>1. posix9_path_to_mac(p) = Trimmed(<<Volume, ":">> \o whole)
      BY <2>3 DEF posix9_path_to_mac, Relative
    <3>2. First(p) = <<Volume>>
      BY <2>3 DEF First, Relative
    <3> HIDE DEF whole, joined
    <3>3. <<Volume>> \o (<<":">> \o whole) = (<<Volume>> \o <<":">>) \o whole
      BY <1>4, <1>7, ConcatAssociative
    <3> QED BY <1>4, <1>7, <3>1, <3>2, <3>3
  <2> QED BY <2>1, <2>2, <2>3 DEF Posix, Relative
<1> HIDE DEF joined
<1>9. First(p) \in Seq(Macs)
  BY <1>7 DEF First
<1>10. Kept(First(p) \o joined) /\ First(p) \o joined \in Seq(Macs)
  BY <1>3, <1>5, <1>9, KeptIs, ConcatProperties
<1>11. Trimmed(First(p) \o joined) = First(p) \o joined
  BY <1>10, KeptIs
<1> QED BY <1>8, <1>11 DEF joined

\* The first parts of a path lead to where the way by all of them comes after as many.
LEMMA PrefixLeads ==
  ASSUME NEW cat, SoundCatalog(cat), NEW dir \in Ends, NEW p, Posix(p), DotFree(p.parts),
         NEW f, MeantIs(cat, dir, p, f),
         NEW i \in 0 .. Len(p.parts), i = 0 => Relative(p)
  PROVE  Resolve(cat, dir, First(p) \o Joined(p.parts, i)) = f[i]
<1>1. p.parts \in Seq(Names) /\ Len(p.parts) \in Nat
  BY LenProperties DEF Posix
<1>2. CASE i = 0
  <2>1. Joined(p.parts, 0) = <<>>
    <3>1. 2 * 0 = 0
      OBVIOUS
    <3>2. Joined(p.parts, 0) = [j \in 1 .. 0 |-> IF j % 2 = 1 THEN ":" ELSE p.parts[j \div 2]]
      BY <3>1 DEF Joined
    <3> QED BY <3>2
  <2>2. First(p) = <<>> /\ <<>> \o <<>> = <<>>
    BY <1>2 DEF First
  <2>3. f[0] = dir
    BY <1>2 DEF MeantIs
  <2>4. Resolve(cat, dir, <<>>) = dir
    BY DEF Resolve
  <2> QED BY <1>2, <2>1, <2>2, <2>3, <2>4
<1>3. CASE i # 0
  <2> DEFINE some == SubSeq(p.parts, 1, i)
             q == Path(p.start, some)
  <2>1. i \in 1 .. Len(p.parts)
    BY <1>1, <1>3
  <2>2. /\ some \in Seq(Names) /\ Len(some) = i
        /\ \A j \in 1 .. i : some[j] = p.parts[j]
        /\ Joined(some, i) = Joined(p.parts, i)
    BY <1>1, <2>1, JoinedPrefix
  <2> HIDE DEF some
  <2>3. q.start = p.start /\ q.parts = some
    BY DEF Path
  <2> HIDE DEF q
  <2>4. Posix(q) /\ First(q) = First(p) /\ Relative(q) = Relative(p)
    BY <2>2, <2>3 DEF Posix, First, Relative
  <2>5. DotFree(some)
    <3>1. some # <<>>
      BY <1>3, <2>2, EmptySeq
    <3>2. ASSUME NEW j \in 1 .. i PROVE some[j] \notin Dots
      <4>1. j \in 1 .. Len(p.parts)
        BY <1>1, <2>1
      <4> QED BY <2>2, <4>1 DEF DotFree
    <3> QED BY <2>2, <3>1, <3>2 DEF DotFree
  <2>6. Plain(q)
    BY <2>3, <2>5 DEF DotFree, Plain, Dots
  <2>7. posix9_path_to_mac(q) = First(p) \o Joined(p.parts, i)
    <3>1. posix9_path_to_mac(q) = First(q) \o Joined(q.parts, Len(q.parts))
      BY <2>3, <2>4, <2>5, DotFreeIs
    <3> QED BY <2>2, <2>3, <2>4, <3>1
  <2>8. Resolve(cat, dir, posix9_path_to_mac(q)) = Meant(cat, dir, q)
    BY <2>4, <2>6, TranslationIs
  <2>9. PICK g : MeantIs(cat, dir, q, g)
    BY <2>4, MeantIsLoop
  <2>10. g[i] = f[i]
    <3> DEFINE Good == {j \in 0 .. i : g[j] = f[j]}
    <3>1. 0 \in Good
      <4>1. 0 \in 0 .. i
        BY <2>1
      <4>2. g[0] = f[0]
        BY <2>4, <2>9 DEF MeantIs
      <4> QED BY <4>1, <4>2
    <3>2. ASSUME NEW j \in 0 + 1 .. i, j - 1 \in Good PROVE j \in Good
      <4>1. j \in 1 .. i /\ j \in 0 .. i /\ j \in 1 .. Len(p.parts) /\ g[j - 1] = f[j - 1]
        BY <1>1, <2>1, <3>2
      <4>2. g[j] = Go(cat, g[j - 1], some[j])
        BY <2>2, <2>3, <2>9, <4>1 DEF MeantIs
      <4>3. f[j] = Go(cat, f[j - 1], p.parts[j])
        BY <4>1 DEF MeantIs
      <4> QED BY <2>2, <4>1, <4>2, <4>3
    <3>3. \A j \in 0 .. i : j \in Good
      <4> HIDE DEF Good
      <4>1. 0 \in Nat /\ i \in Nat
        BY <2>1
      <4> QED BY <3>1, <3>2, <4>1, Induction
    <3>4. i \in 0 .. i
      BY <2>1
    <3> QED BY <3>3, <3>4
  <2>11. Meant(cat, dir, q) = g[i]
    BY <2>2, <2>3, <2>9 DEF MeantIs
  <2> QED BY <2>7, <2>8, <2>10, <2>11
<1> QED BY <1>2, <1>3

-----------------------------------------------------------------------------
(* A path without dots while the catalog changes *)

\* The child of a name is in the catalog, under that name; and what is under a name is the child.
LEMMA ChildIs ==
  ASSUME NEW cat, SoundCatalog(cat)
  PROVE  /\ \A m, name : Child(cat, m, name) # NoNode =>
              /\ Child(cat, m, name) \in Children(cat, m)
              /\ cat[Child(cat, m, name)].name = name
         /\ Siblings(cat) => \A c \in DOMAIN cat : Child(cat, cat[c].parent, cat[c].name) = c
<1>1. ASSUME NEW m, NEW name, Child(cat, m, name) # NoNode
      PROVE  /\ Child(cat, m, name) \in Children(cat, m)
             /\ cat[Child(cat, m, name)].name = name
  <2> DEFINE found == {c \in Children(cat, m) : cat[c].name = name}
  <2>1. found # {} /\ Child(cat, m, name) = CHOOSE c \in found : TRUE
    BY <1>1 DEF Child
  <2>2. Child(cat, m, name) \in found
    BY <2>1
  <2> QED BY <2>2
<1>2. ASSUME Siblings(cat), NEW c \in DOMAIN cat
      PROVE  Child(cat, cat[c].parent, cat[c].name) = c
  <2> DEFINE found == {b \in Children(cat, cat[c].parent) : cat[b].name = cat[c].name}
  <2>1. found = {c}
    BY <1>2 DEF Siblings, Children
  <2>2. Child(cat, cat[c].parent, cat[c].name) = CHOOSE b \in found : TRUE
    BY <2>1 DEF Child
  <2> QED BY <2>1, <2>2
<1> QED BY <1>1, <1>2

\* In nothing there is nothing.
LEMMA NothingIn ==
  ASSUME NEW cat, SoundCatalog(cat), NEW name
  PROVE  Child(cat, NoNode, name) = NoNode
<1>1. Children(cat, NoNode) = {}
  BY CatalogDomain, PathAssumption DEF Children, NoNode, Root
<1> QED BY <1>1 DEF Child

\* What a change adds, takes away or renames is all that it changes.
LEMMA OthersStay ==
  ASSUME SoundCatalog(catalog), NEW d, NEW n, ChangedIn(d, n), NEW c \in DOMAIN catalog, c # n
  PROVE  c \in DOMAIN catalog' /\ catalog'[c] = catalog[c]
<1> DEFINE D == DOMAIN catalog
<1>1. CASE \E item : catalog' = [m \in D \cup {n} |-> IF m = n THEN item ELSE catalog[m]]
  BY <1>1
<1>2. CASE catalog' = Restrict(catalog, D \ {n})
  BY <1>2 DEF Restrict
<1>3. CASE \E name \in Names : catalog' = [catalog EXCEPT ![n].name = name]
  BY <1>3
<1> QED BY <1>1, <1>2, <1>3 DEF ChangedIn

\* The first k steps of a way do not come to n.
Avoids(f, k, n) == n \notin DOMAIN catalog \/ \A i \in 1 .. k : f[i] # n

\* A way by names that does not come to n is the same after n has changed.
LEMMA WayStays ==
  ASSUME SoundCatalog(catalog), Siblings(catalog), NEW d, NEW n, ChangedIn(d, n),
         NEW dir, NEW p, Posix(p), DotFree(p.parts),
         NEW k \in 0 .. Len(p.parts),
         NEW f, MeantIs(catalog, dir, p, f), f[k] # NoNode,
         Avoids(f, k, n),
         NEW g, MeantIs(catalog', dir, p, g)
  PROVE  g[k] = f[k]
<1>1. p.parts \in Seq(Names) /\ Len(p.parts) \in Nat /\ k \in Nat
  BY LenProperties DEF Posix
<1>2. ASSUME NEW i \in 1 .. k
      PROVE  /\ f[i] = Child(catalog, f[i - 1], p.parts[i])
             /\ g[i] = Child(catalog', g[i - 1], p.parts[i])
  <2>1. i \in 1 .. Len(p.parts)
    BY <1>1
  <2> QED BY <2>1 DEF MeantIs, Go, DotFree, Dots
<1>3. \A i \in 0 .. k : f[i] # NoNode
  <2> DEFINE Good == {j \in 0 .. k : f[k - j] # NoNode}
  <2>1. 0 \in Good
    BY <1>1
  <2>2. ASSUME NEW j \in 0 + 1 .. k, j - 1 \in Good PROVE j \in Good
    <3>1. k - (j - 1) \in 1 .. k /\ (k - (j - 1)) - 1 = k - j /\ j \in 0 .. k
      BY <1>1
    <3>2. f[k - (j - 1)] # NoNode
      BY <2>2
    <3>3. f[k - (j - 1)] = Child(catalog, f[k - j], p.parts[k - (j - 1)])
      BY <1>2, <3>1
    <3>4. f[k - j] # NoNode
      BY <3>2, <3>3, NothingIn
    <3> QED BY <3>1, <3>4
  <2>3. \A j \in 0 .. k : j \in Good
    <3> HIDE DEF Good
    <3>1. 0 \in Nat
      OBVIOUS
    <3> QED BY <1>1, <2>1, <2>2, <3>1, Induction
  <2>4. ASSUME NEW i \in 0 .. k PROVE f[i] # NoNode
    <3>1. k - i \in 0 .. k /\ k - (k - i) = i
      BY <1>1
    <3>2. k - i \in Good
      BY <2>3, <3>1
    <3> QED BY <3>1, <3>2
  <2> QED BY <2>4
<1>4. SoundCatalog(catalog') /\ Siblings(catalog')
  BY CatalogStaysSound
<1> DEFINE Same == {i \in 0 .. k : g[i] = f[i]}
<1>5. 0 \in Same
  BY <1>1 DEF MeantIs
<1>6. ASSUME NEW i \in 0 + 1 .. k, i - 1 \in Same PROVE i \in Same
  <2>1. i \in 1 .. k /\ i \in 0 .. k /\ g[i - 1] = f[i - 1]
    BY <1>1, <1>6
  <2> DEFINE c == f[i]
             m == f[i - 1]
             name == p.parts[i]
  <2>2. c = Child(catalog, m, name) /\ c # NoNode
    BY <1>2, <1>3, <2>1
  <2>3. g[i] = Child(catalog', m, name)
    BY <1>2, <2>1
  <2> HIDE DEF c, m, name
  <2>4. c \in Children(catalog, m) /\ catalog[c].name = name
    BY <2>2, ChildIs
  <2>5. c \in DOMAIN catalog /\ catalog[c].parent = m
    BY <2>4 DEF Children
  <2>6. c # n
    BY <2>1, <2>5 DEF c, Avoids
  <2>7. c \in DOMAIN catalog' /\ catalog'[c] = catalog[c]
    BY <2>5, <2>6, OthersStay
  <2>8. Child(catalog', catalog'[c].parent, catalog'[c].name) = c
    BY <1>4, <2>7, ChildIs
  <2>9. g[i] = c
    BY <2>3, <2>4, <2>5, <2>7, <2>8
  <2> QED BY <2>1, <2>9 DEF c
<1>7. k \in Same
  <2> HIDE DEF Same
  <2>1. 0 \in Nat /\ k \in 0 .. k
    BY <1>1
  <2>2. \A i \in 0 .. k : i \in Same
    BY <1>1, <1>5, <1>6, <2>1, Induction
  <2> QED BY <2>1, <2>2
<1> QED BY <1>7

\* A path that is another, a colon and a name.
IsCut(path, q, name) ==
  /\ path \in Seq(Macs) /\ Len(path) = Len(q) + 2
  /\ path[Len(q) + 2] = name /\ path[Len(q) + 1] = ":"
  /\ \A i \in 1 .. Len(q) : path[i] = q[i]

\* Where mkdir cuts it.
LEMMA Cut ==
  ASSUME NEW q \in Seq(Macs), NEW name \in Names, NEW path, IsCut(path, q, name)
  PROVE  /\ SubSeq(path, 1, LastSep(path) - 1) = q
         /\ SubSeq(path, LastSep(path) + 1, Len(path))[1] = name
         /\ Len(SubSeq(path, LastSep(path) + 1, Len(path))) = 1
<1> DEFINE n == Len(q)
<1>1. /\ n \in Nat /\ name # ":" /\ name \in Macs
      /\ path \in Seq(Macs) /\ Len(path) = n + 2 /\ path[n + 2] = name /\ path[n + 1] = ":"
      /\ \A i \in 1 .. n : path[i] = q[i]
  BY LenProperties, PathAssumption DEF Macs, IsCut
<1>2. \A i \in 1 .. n + 2 : path[i] \in Macs
  BY <1>1, ElementOfSeq
<1>3. n = Len(q)
  OBVIOUS
<1> HIDE DEF n
<1>4. LastSep(path) = n + 1
  <2> DEFINE I == {i \in 1 .. Len(path) : path[i] = ":"}
  <2>1. n + 1 \in I
    BY <1>1
  <2>2. \A i \in I : i <= n + 1 /\ i \in Nat
    BY <1>1
  <2>3. LastSep(path) = Max(I)
    BY <2>1 DEF LastSep, SelectLastInSeq
  <2> HIDE DEF I
  <2>4. Max(I) \in I /\ \A i \in I : Max(I) >= i
    BY <2>1, <2>2 DEF Max
  <2> QED BY <1>1, <2>1, <2>2, <2>3, <2>4
<1>5. SubSeq(path, 1, n) = q
  <2>1. \A i \in 1 .. n : path[i] \in Macs
    BY <1>1, <1>2
  <2>2. /\ SubSeq(path, 1, n) \in Seq(Macs)
        /\ Len(SubSeq(path, 1, n)) = IF 1 <= n THEN n - 1 + 1 ELSE 0
        /\ \A i \in 1 .. n - 1 + 1 : SubSeq(path, 1, n)[i] = path[1 + i - 1]
    BY <1>1, <2>1, SubSeqProperties
  <2>3. Len(SubSeq(path, 1, n)) = n
    BY <1>1, <2>2
  <2>4. ASSUME NEW i \in 1 .. n PROVE SubSeq(path, 1, n)[i] = q[i]
    <3>1. i \in 1 .. n - 1 + 1 /\ 1 + i - 1 = i
      BY <1>1
    <3> QED BY <1>1, <2>2, <3>1
  <2> QED BY <1>3, <2>2, <2>3, <2>4, SeqEqual
<1>6. /\ SubSeq(path, (n + 1) + 1, n + 2)[1] = name
      /\ Len(SubSeq(path, (n + 1) + 1, n + 2)) = 1
  <2> DEFINE m == n + 2
  <2>1. /\ m \in Int /\ (n + 1) + 1 = m /\ 1 \in 1 .. m - m + 1 /\ m + 1 - 1 = m
        /\ m <= m /\ m - m + 1 = 1
    BY <1>1
  <2>2. \A i \in m .. m : path[i] \in Macs
    BY <1>1
  <2>3. path[m] = name
    BY <1>1
  <2> HIDE DEF m
  <2>4. /\ \A i \in 1 .. m - m + 1 : SubSeq(path, m, m)[i] = path[m + i - 1]
        /\ Len(SubSeq(path, m, m)) = IF m <= m THEN m - m + 1 ELSE 0
    BY <2>1, <2>2, SubSeqProperties
  <2>5. SubSeq(path, m, m)[1] = name /\ Len(SubSeq(path, m, m)) = 1
    BY <2>1, <2>3, <2>4
  <2> QED BY <2>1, <2>5 DEF m
<1>7. (n + 1) - 1 = n
  BY <1>1
<1> QED BY <1>1, <1>4, <1>5, <1>6, <1>7

\* A path that ends in a colon and a name: its parent and the name.
LEMMA CutAtLast ==
  ASSUME NEW q \in Seq(Macs), NEW name \in Names, NEW path
  PROVE  path = (q \o <<":">>) \o <<name>> =>
           /\ SubSeq(path, 1, LastSep(path) - 1) = q
           /\ SubSeq(path, LastSep(path) + 1, Len(path))[1] = name
<1> DEFINE n == Len(q)
           more == q \o <<":">>
<1>1. ":" \in Macs /\ name \in Macs /\ name # ":"
  BY PathAssumption DEF Macs
<1>2. /\ more \in Seq(Macs) /\ n \in Nat /\ Len(more) = n + 1 /\ more[n + 1] = ":"
      /\ \A i \in 1 .. n : more[i] = q[i]
  BY <1>1, OneMore
<1> HIDE DEF more
<1>3. ASSUME path = (q \o <<":">>) \o <<name>>
      PROVE  /\ path \in Seq(Macs) /\ Len(path) = n + 2 /\ path[n + 2] = name
             /\ \A i \in 1 .. n + 1 : path[i] = more[i]
  <2>1. /\ path \in Seq(Macs) /\ Len(path) = Len(more) + 1 /\ path[Len(more) + 1] = name
        /\ \A i \in 1 .. Len(more) : path[i] = more[i]
    BY <1>1, <1>2, <1>3, OneMore DEF more
  <2>2. (n + 1) + 1 = n + 2
    BY <1>2
  <2> QED BY <1>2, <2>1, <2>2
<1>4. ASSUME path = (q \o <<":">>) \o <<name>>
      PROVE  IsCut(path, q, name)
  <2>1. path[n + 1] = more[n + 1] /\ \A i \in 1 .. n : path[i] = more[i]
    BY <1>2, <1>3, <1>4
  <2>2. more[n + 1] = ":" /\ n = Len(q) /\ \A i \in 1 .. n : more[i] = q[i]
    BY <1>2
  <2>3. path \in Seq(Macs) /\ Len(path) = n + 2 /\ path[n + 2] = name
    BY <1>3, <1>4
  <2> HIDE DEF more
  <2>4. path[n + 1] = ":" /\ \A i \in 1 .. n : path[i] = q[i]
    BY <2>1, <2>2
  <2> HIDE DEF n
  <2>5. path[Len(q) + 1] = ":" /\ \A i \in 1 .. Len(q) : path[i] = q[i]
    BY <2>2, <2>4
  <2>6. Len(path) = Len(q) + 2 /\ path[Len(q) + 2] = name
    BY <2>2, <2>3
  <2> QED BY <2>3, <2>5, <2>6, Zenon DEF IsCut
<1>5. IsCut(path, q, name) =>
        /\ SubSeq(path, 1, LastSep(path) - 1) = q
        /\ SubSeq(path, LastSep(path) + 1, Len(path))[1] = name
  BY Cut
<1> QED BY <1>4, <1>5, Zenon

\* The path of a path's parts up to the last is its Macintosh path, but for a colon and the name.
LEMMA LastJoined ==
  ASSUME NEW p, Posix(p), DotFree(p.parts), NEW n, n = Len(p.parts)
  PROVE  /\ First(p) \o Joined(p.parts, n - 1) \in Seq(Macs)
         /\ posix9_path_to_mac(p) =
              ((First(p) \o Joined(p.parts, n - 1)) \o <<":">>) \o <<p.parts[n]>>
<1> DEFINE before == Joined(p.parts, n - 1)
           first == First(p)
           colon == <<":">>
           name == <<p.parts[n]>>
           bc == before \o colon
<1>1. p.parts \in Seq(Names) /\ n \in 1 .. Len(p.parts)
  <2>1. p.parts \in Seq(Names) /\ p.parts # <<>>
    BY DEF Posix, DotFree
  <2> QED BY <2>1, LenProperties, EmptySeq
<1>2. p.parts[n] \in Macs /\ ":" \in Macs /\ first \in Seq(Macs)
  <2>1. <<>> \in Seq(Macs) /\ <<Volume>> \in Seq(Macs)
    BY PathAssumption DEF Macs
  <2>2. p.parts[n] \in Names
    BY <1>1, ElementOfSeq
  <2> QED BY <2>1, <2>2 DEF Macs, First
<1>3. before \in Seq(Macs) /\ Joined(p.parts, n) = bc \o name
  BY <1>1, JoinedGrows
<1>4. posix9_path_to_mac(p) = first \o Joined(p.parts, n)
  BY DotFreeIs
<1> HIDE DEF before, first
<1>5. bc \in Seq(Macs) /\ first \o bc = (first \o before) \o colon
  BY <1>2, <1>3, OneMore
<1>6. first \o before \in Seq(Macs)
  BY <1>2, <1>3, ConcatProperties
<1> HIDE DEF bc
<1>7. first \o (bc \o name) = (first \o bc) \o name
  BY <1>2, <1>5, OneMore
<1> HIDE DEF colon, name
<1>8. posix9_path_to_mac(p) = ((first \o before) \o colon) \o name
  BY <1>3, <1>4, <1>5, <1>7
<1> QED BY <1>6, <1>8 DEF before, first, colon, name

\* mkdir makes what the path names, where it names it.
LEMMA MkdirMakes ==
  ASSUME DirInv, NEW p \in CallPaths, DotFree(p.parts), ~Relative(p) => Len(p.parts) > 1, Mkdir(p)
  PROVE  /\ Meant(catalog, here, p) = NoNode
         /\ IsDir(catalog', Meant(catalog', here, p))
<1> DEFINE n == Len(p.parts)
           name == p.parts[n]
           q == First(p) \o Joined(p.parts, n - 1)
           parent == Resolve(catalog, here, q)
<1>1. /\ SoundCatalog(catalog) /\ Siblings(catalog) /\ here \in Ends
      /\ Posix(p) /\ MacPath[p] = posix9_path_to_mac(p)
  BY DirectoryAssumption DEF DirInv, HereType, Ends, Posix, MacPath
<1>2. n \in Nat \ {0} /\ n - 1 \in 0 .. n /\ n \in 1 .. n /\ name \in Names /\ name \notin Dots
  <2>1. p.parts \in Seq(Names) /\ p.parts # <<>>
    BY <1>1 DEF Posix, DotFree
  <2>2. n \in Nat \ {0}
    BY <2>1, LenProperties, EmptySeq
  <2>3. n - 1 \in 0 .. n /\ n \in 1 .. n
    BY <2>2
  <2> QED BY <2>1, <2>2, <2>3, ElementOfSeq DEF DotFree
<1>3. Create(parent, name, TRUE)
  <2> DEFINE path == MacPath[p]
  <2>1. q \in Seq(Macs) /\ path = (q \o <<":">>) \o <<name>>
    BY <1>1, LastJoined
  <2> HIDE DEF path, q, name
  <2>2. /\ SubSeq(path, 1, LastSep(path) - 1) = q
        /\ SubSeq(path, LastSep(path) + 1, Len(path))[1] = name
    BY <1>2, <2>1, CutAtLast
  <2>3. Create(Resolve(catalog, here, SubSeq(path, 1, LastSep(path) - 1)),
               SubSeq(path, LastSep(path) + 1, Len(path))[1], TRUE)
    BY DEF Mkdir, path
  <2> QED BY <2>2, <2>3
<1>4. PICK f : MeantIs(catalog, here, p, f)
  BY <1>1, MeantIsLoop
<1>5. parent = f[n - 1]
  <2>1. n - 1 = 0 => Relative(p)
    BY <1>2
  <2> QED BY <1>1, <1>2, <1>4, <2>1, PrefixLeads
<1>6. ASSUME NEW cat, NEW g, MeantIs(cat, here, p, g)
      PROVE  Meant(cat, here, p) = Child(cat, g[n - 1], name)
  <2>1. Meant(cat, here, p) = g[n] /\ g[n] = Go(cat, g[n - 1], name)
    BY <1>2, <1>6 DEF MeantIs
  <2> QED BY <1>2, <2>1 DEF Go, Dots
<1> HIDE DEF q, name, parent
<1>7. IsDir(catalog, parent) /\ Child(catalog, parent, name) = NoNode
  BY <1>3 DEF Create
<1>8. Meant(catalog, here, p) = NoNode
  BY <1>4, <1>5, <1>6, <1>7
<1>9. PICK m \in Nodes :
        /\ Fresh(m)
        /\ catalog' = [c \in DOMAIN catalog \cup {m} |->
                         IF c = m THEN [parent |-> parent, name |-> name, isDir |-> TRUE]
                                  ELSE catalog[c]]
        /\ Changed(parent, {"created"}, m)
  BY <1>3 DEF Create
<1>10. ChangedIn(parent, m)
  <2>1. \A c \in Children(catalog, parent) : catalog[c].name # name
    BY <1>1, <1>7, NoChild
  <2> QED BY <1>2, <1>7, <1>9, <2>1 DEF Fresh, ChangedIn
<1>11. SoundCatalog(catalog') /\ Siblings(catalog')
  BY <1>1, <1>10, CatalogStaysSound
<1>12. PICK g : MeantIs(catalog', here, p, g)
  BY <1>1, <1>11, MeantIsLoop
<1>13. g[n - 1] = parent
  <2>1. parent # NoNode
    <3>1. parent \in Nodes \cup {Root}
      BY <1>1, <1>7, DirIsNode
    <3> QED BY <3>1, PathAssumption DEF NoNode, Root
  <2> DEFINE k == n - 1
  <2>2. Avoids(f, k, m)
    BY <1>9 DEF Fresh, Avoids
  <2>3. k \in 0 .. Len(p.parts) /\ f[k] # NoNode
    BY <1>2, <1>5, <2>1
  <2> HIDE DEF k
  <2>4. g[k] = f[k]
    BY <1>1, <1>4, <1>10, <1>12, <2>2, <2>3, WayStays
  <2> QED BY <1>5, <2>4 DEF k
<1>14. /\ m \in DOMAIN catalog' /\ catalog'[m].parent = parent /\ catalog'[m].name = name
       /\ catalog'[m].isDir
  <2> DEFINE item == [parent |-> parent, name |-> name, isDir |-> TRUE]
  <2>1. item.parent = parent /\ item.name = name /\ item.isDir
    OBVIOUS
  <2>2. m \in DOMAIN catalog' /\ catalog'[m] = item
    BY <1>9
  <2> HIDE DEF item
  <2> QED BY <2>1, <2>2
<1>15. Meant(catalog', here, p) = m
  <2>1. Child(catalog', catalog'[m].parent, catalog'[m].name) = m
    BY <1>11, <1>14, ChildIs
  <2> QED BY <1>6, <1>12, <1>13, <1>14, <2>1
<1> QED BY <1>8, <1>14, <1>15 DEF IsDir

\* mkdir makes the directory that its path names, for a path without dots that does not name an
\* entry of the root from "/": what posix9_path_to_mac gives is cut at its last colon.
THEOREM MkdirIsRight == Spec => MkdirWhereNamed
<1>1. ASSUME DirInv, NEW p \in CallPaths, Range(p.parts) \cap Dots = {}, p.parts # <<>>,
             ~Relative(p) => Len(p.parts) > 1, Mkdir(p)
      PROVE  /\ Meant(catalog, here, p) = NoNode
             /\ IsDir(catalog', Meant(catalog', here, p))
  <2>1. DotFree(p.parts)
    <3>1. DOMAIN p.parts = 1 .. Len(p.parts)
      BY DirectoryAssumption, LenProperties
    <3> QED BY <1>1, <3>1 DEF DotFree, Range
  <2> QED BY <1>1, <2>1, MkdirMakes
<1>2. DirInv => [\A p \in CallPaths :
                   (/\ Range(p.parts) \cap Dots = {}
                    /\ p.parts # <<>> /\ (~Relative(p) => Len(p.parts) > 1)
                    /\ Mkdir(p))
                     => /\ Meant(catalog, here, p) = NoNode
                        /\ IsDir(catalog', Meant(catalog', here, p))]_vars
  BY <1>1
<1> QED BY <1>2, DirInvariance, PTL DEF MkdirWhereNamed

-----------------------------------------------------------------------------
(* The current directory's path *)

\* The path of the volume's name and the first parts.
Whole(parts, i) == <<Volume>> \o Joined(parts, i)

\* It is the volume's name, with a colon and a name for each part behind it.
LEMMA WholeIs ==
  ASSUME NEW parts \in Seq(Names), NEW i \in 1 .. Len(parts)
  PROVE  /\ Joined(parts, i) \in Seq(Macs) /\ Len(Joined(parts, i)) = 2 * i
         /\ Whole(parts, i) \in Seq(Macs) /\ Len(Whole(parts, i)) = 2 * i + 1
         /\ Whole(parts, i)[1] = Volume
         /\ \A j \in 1 .. 2 * i : Whole(parts, i)[j + 1] = Joined(parts, i)[j]
<1> DEFINE joined == Joined(parts, i)
           whole == Whole(parts, i)
           first == <<Volume>>
<1>1. joined \in Seq(Macs) /\ Len(joined) = 2 * i /\ i \in Nat \ {0}
  <2>1. i \in Nat \ {0}
    BY LenProperties
  <2>2. joined \in Seq(Macs) /\ Len(joined) = 2 * i
    BY JoinedGrows
  <2> QED BY <2>1, <2>2
<1>2. first \in Seq(Macs) /\ Len(first) = 1 /\ first[1] = Volume
  BY PathAssumption DEF Macs
<1>3. whole = first \o joined
  BY DEF Whole
<1> HIDE DEF joined, whole, first
<1>4. /\ first \o joined \in Seq(Macs) /\ Len(first \o joined) = Len(first) + Len(joined)
      /\ \A j \in 1 .. Len(first) + Len(joined) :
           (first \o joined)[j] = IF j <= Len(first) THEN first[j] ELSE joined[j - Len(first)]
  BY <1>1, <1>2, ConcatProperties
<1>5. /\ whole \in Seq(Macs) /\ Len(whole) = 2 * i + 1
      /\ \A j \in 1 .. 2 * i + 1 : whole[j] = IF j <= 1 THEN first[j] ELSE joined[j - 1]
  BY <1>1, <1>2, <1>3, <1>4
<1>6. whole[1] = Volume
  BY <1>1, <1>2, <1>5
<1>7. ASSUME NEW j \in 1 .. 2 * i PROVE whole[j + 1] = joined[j]
  <2>1. j + 1 \in 1 .. 2 * i + 1 /\ ~(j + 1 <= 1) /\ (j + 1) - 1 = j
    BY <1>1
  <2> QED BY <1>5, <2>1
<1> QED BY <1>1, <1>5, <1>6, <1>7 DEF joined, whole

\* The beginnings of such a path are such paths.
LEMMA WholePrefix ==
  ASSUME NEW parts \in Seq(Names), parts # <<>>, NEW i \in 1 .. Len(parts)
  PROVE  /\ 2 * i + 1 \in 1 .. Len(Whole(parts, Len(parts)))
         /\ SubSeq(Whole(parts, Len(parts)), 1, 2 * i + 1) = Whole(parts, i)
<1> DEFINE n == Len(parts)
           all == Whole(parts, n)
           some == Whole(parts, i)
           cut == SubSeq(all, 1, 2 * i + 1)
<1>1. n \in Nat /\ n \in 1 .. n /\ i \in Nat \ {0} /\ i <= n
  BY LenProperties, EmptySeq
<1>2. /\ all \in Seq(Macs) /\ Len(all) = 2 * n + 1 /\ all[1] = Volume
      /\ \A j \in 1 .. 2 * n : all[j + 1] = Joined(parts, n)[j]
  BY <1>1, WholeIs
<1>3. /\ some \in Seq(Macs) /\ Len(some) = 2 * i + 1 /\ some[1] = Volume
      /\ \A j \in 1 .. 2 * i : some[j + 1] = Joined(parts, i)[j]
  BY WholeIs
<1>4. \A j \in 1 .. 2 * i : j \in 1 .. 2 * n /\ Joined(parts, i)[j] = Joined(parts, n)[j]
  BY <1>1 DEF Joined
<1> HIDE DEF all, some, n
<1>5. \A j \in 1 .. 2 * i + 1 : all[j] = some[j] /\ all[j] \in Macs
  <2> SUFFICES ASSUME NEW j \in 1 .. 2 * i + 1 PROVE all[j] = some[j] /\ some[j] \in Macs
    OBVIOUS
  <2>1. some[j] \in Macs
    BY <1>3, ElementOfSeq
  <2>2. CASE j = 1
    BY <1>2, <1>3, <2>1, <2>2
  <2>3. CASE j # 1
    <3> DEFINE k == j - 1
    <3>1. k \in 1 .. 2 * i /\ j = k + 1
      BY <1>1, <2>3
    <3> HIDE DEF k
    <3> QED BY <1>2, <1>3, <1>4, <2>1, <3>1
  <2> QED BY <2>2, <2>3
<1> DEFINE m == 2 * i + 1
<1>6. m \in Int /\ 1 <= m /\ m - 1 + 1 = m /\ m <= 2 * n + 1 /\ \A j \in 1 .. m : 1 + j - 1 = j
  BY <1>1
<1>7. Len(some) = m /\ \A j \in 1 .. m : all[j] = some[j] /\ all[j] \in Macs
  BY <1>3, <1>5
<1> HIDE DEF m
<1>8. SubSeq(all, 1, m) = some
  <2>1. /\ SubSeq(all, 1, m) \in Seq(Macs)
        /\ Len(SubSeq(all, 1, m)) = IF 1 <= m THEN m - 1 + 1 ELSE 0
        /\ \A j \in 1 .. m - 1 + 1 : SubSeq(all, 1, m)[j] = all[1 + j - 1]
    BY <1>6, <1>7, SubSeqProperties
  <2>2. Len(SubSeq(all, 1, m)) = m /\ \A j \in 1 .. m : SubSeq(all, 1, m)[j] = all[j]
    BY <1>6, <2>1
  <2> QED BY <1>3, <1>7, <2>1, <2>2, SeqEqual
<1>9. m \in 1 .. Len(all)
  BY <1>2, <1>6
<1> QED BY <1>8, <1>9 DEF m, all, some, n

\* A turn of the second loop of posix9_path_from_mac, from the end to the start.
PartsTurn(path, from, i) ==
  IF i > Len(path) THEN <<>>
  ELSE IF i <= Len(path) /\ path[i] # ":" THEN <<path[i]>> \o from[i + 1]
  ELSE IF i = Len(path) \/ (i + 1 <= Len(path) /\ path[i + 1] # ":") THEN from[i + 1]
  ELSE IF i + 2 <= Len(path) /\ path[i + 2] # ":" THEN <<"garbled">> \o from[i + 3]
  ELSE <<"..">> \o from[i + 2]

\* The parts from the k-th on.
LEMMA PartsFrom ==
  ASSUME NEW parts \in Seq(Names)
  PROVE  /\ SubSeq(parts, 1, Len(parts)) = parts
         /\ SubSeq(parts, Len(parts) + 1, Len(parts)) = <<>>
         /\ \A k \in 1 .. Len(parts) :
              SubSeq(parts, k, Len(parts)) = <<parts[k]>> \o SubSeq(parts, k + 1, Len(parts))
<1> DEFINE n == Len(parts)
<1>1. n \in Nat /\ \A i \in 1 .. n : parts[i] \in Names
  BY LenProperties, ElementOfSeq
<1>2. n = Len(parts)
  OBVIOUS
<1> HIDE DEF n
<1>3. ASSUME NEW k \in 1 .. n + 1
      PROVE  /\ SubSeq(parts, k, n) \in Seq(Names) /\ Len(SubSeq(parts, k, n)) = n - k + 1
             /\ \A i \in 1 .. n - k + 1 : SubSeq(parts, k, n)[i] = parts[k + i - 1]
  <2>1. k \in Int /\ n \in Int /\ \A i \in k .. n : parts[i] \in Names
    BY <1>1
  <2>2. /\ SubSeq(parts, k, n) \in Seq(Names)
        /\ Len(SubSeq(parts, k, n)) = IF k <= n THEN n - k + 1 ELSE 0
        /\ \A i \in 1 .. n - k + 1 : SubSeq(parts, k, n)[i] = parts[k + i - 1]
    BY <2>1, SubSeqProperties
  <2>3. ~(k <= n) => n - k + 1 = 0
    BY <1>1
  <2> QED BY <2>2, <2>3
<1>4. SubSeq(parts, 1, n) = parts
  <2>1. 1 \in 1 .. n + 1 /\ n - 1 + 1 = n /\ \A i \in 1 .. n : 1 + i - 1 = i
    BY <1>1
  <2>2. /\ SubSeq(parts, 1, n) \in Seq(Names) /\ Len(SubSeq(parts, 1, n)) = n
        /\ \A i \in 1 .. n : SubSeq(parts, 1, n)[i] = parts[i]
    BY <1>3, <2>1
  <2> QED BY <1>2, <2>2, SeqEqual
<1>5. SubSeq(parts, n + 1, n) = <<>>
  <2>1. n + 1 \in 1 .. n + 1 /\ n - (n + 1) + 1 = 0
    BY <1>1
  <2>2. SubSeq(parts, n + 1, n) \in Seq(Names) /\ Len(SubSeq(parts, n + 1, n)) = 0
    BY <1>3, <2>1
  <2> QED BY <2>2, EmptySeq
<1>6. ASSUME NEW k \in 1 .. n
      PROVE  SubSeq(parts, k, n) = <<parts[k]>> \o SubSeq(parts, k + 1, n)
  <2> DEFINE long == SubSeq(parts, k, n)
             short == SubSeq(parts, k + 1, n)
             name == <<parts[k]>>
             both == name \o short
             l == n - k
  <2>1. /\ k \in 1 .. n + 1 /\ k + 1 \in 1 .. n + 1
        /\ n - (k + 1) + 1 = l /\ n - k + 1 = l + 1 /\ l \in Nat
    BY <1>1
  <2>2. /\ long \in Seq(Names) /\ Len(long) = l + 1
        /\ \A i \in 1 .. l + 1 : long[i] = parts[k + i - 1]
    BY <1>3, <2>1
  <2>3. /\ short \in Seq(Names) /\ Len(short) = l
        /\ \A i \in 1 .. l : short[i] = parts[(k + 1) + i - 1]
    BY <1>3, <2>1
  <2>4. name \in Seq(Names) /\ Len(name) = 1 /\ name[1] = parts[k]
    BY <1>1
  <2> HIDE DEF long, short, name, l
  <2>5. /\ both \in Seq(Names) /\ Len(both) = Len(name) + Len(short)
        /\ \A i \in 1 .. Len(name) + Len(short) :
             both[i] = IF i <= Len(name) THEN name[i] ELSE short[i - Len(name)]
    BY <2>3, <2>4, ConcatProperties
  <2> HIDE DEF both
  <2>6. Len(both) = l + 1
    BY <2>1, <2>3, <2>4, <2>5
  <2>7. ASSUME NEW i \in 1 .. l + 1 PROVE both[i] = long[i]
    <3>1. i \in 1 .. Len(name) + Len(short) /\ (i <= Len(name) <=> i = 1) /\ i - Len(name) = i - 1
      BY <2>1, <2>3, <2>4
    <3>2. CASE i = 1
      <4>1. k + 1 - 1 = k /\ 1 \in 1 .. l + 1
        BY <1>1, <2>1
      <4> QED BY <2>2, <2>4, <2>5, <3>1, <3>2, <4>1
    <3>3. CASE i # 1
      <4>1. i - 1 \in 1 .. l /\ (k + 1) + (i - 1) - 1 = k + i - 1
        BY <1>1, <2>1, <3>3
      <4>2. both[i] = short[i - 1]
        BY <2>5, <3>1, <3>3
      <4>3. short[i - 1] = parts[(k + 1) + (i - 1) - 1]
        BY <2>3, <4>1
      <4>4. long[i] = parts[k + i - 1]
        BY <2>2
      <4> QED BY <4>1, <4>2, <4>3, <4>4
    <3> QED BY <3>2, <3>3
  <2>8. both = long
    BY <2>2, <2>5, <2>6, <2>7, SeqEqual
  <2> QED BY <2>8 DEF both, long, short, name
<1> QED BY <1>2, <1>4, <1>5, <1>6

\* The way back gives the parts that a path without dots was made of.
LEMMA PartsBack ==
  ASSUME NEW parts \in Seq(Names), parts # <<>>
  PROVE  PartsOf(Joined(parts, Len(parts))) = parts
<1> DEFINE n == Len(parts)
           path == Joined(parts, n)
           l == 2 * n
           Eq(h) == h = [i \in 1 .. Len(path) + 2 |-> PartsTurn(path, h, i)]
           rest(i) == SubSeq(parts, (i + 1) \div 2, n)
<1>1. n \in Nat \ {0} /\ n \in 1 .. n /\ \A k \in 1 .. n : parts[k] \in Names
  BY LenProperties, ElementOfSeq, EmptySeq
<1>2. Len(path) = l
  BY <1>1, JoinedGrows
<1>3. ASSUME NEW k \in 1 .. n
      PROVE  path[2 * k] = parts[k] /\ path[2 * k] # ":" /\ path[2 * k - 1] = ":"
  <2>1. /\ 2 * k \in 1 .. 2 * n /\ (2 * k) % 2 # 1 /\ (2 * k) \div 2 = k
        /\ 2 * k - 1 \in 1 .. 2 * n /\ (2 * k - 1) % 2 = 1
    BY <1>1
  <2>2. path[2 * k] = parts[k] /\ path[2 * k - 1] = ":"
    BY <2>1 DEF Joined
  <2> QED BY <1>1, <2>2, PathAssumption
<1> HIDE DEF path
<1>4. ASSUME NEW h
      PROVE  /\ \A k \in 1 .. n : /\ PartsTurn(path, h, 2 * k) = <<parts[k]>> \o h[2 * k + 1]
                                  /\ PartsTurn(path, h, 2 * k - 1) = h[2 * k]
             /\ \A i \in {l + 1, l + 2} : PartsTurn(path, h, i) = <<>>
  <2>1. ASSUME NEW k \in 1 .. n
        PROVE  /\ PartsTurn(path, h, 2 * k) = <<parts[k]>> \o h[2 * k + 1]
               /\ PartsTurn(path, h, 2 * k - 1) = h[2 * k]
    <3>1. /\ ~(2 * k > l) /\ 2 * k <= l /\ ~(2 * k - 1 > l) /\ (2 * k - 1) + 1 = 2 * k
      BY <1>1
    <3>2. PartsTurn(path, h, 2 * k) = <<parts[k]>> \o h[2 * k + 1]
      BY <1>2, <1>3, <3>1 DEF PartsTurn
    <3>3. PartsTurn(path, h, 2 * k - 1) = h[2 * k]
      BY <1>2, <1>3, <3>1 DEF PartsTurn
    <3> QED BY <3>2, <3>3
  <2>2. ASSUME NEW i \in {l + 1, l + 2} PROVE PartsTurn(path, h, i) = <<>>
    <3>1. i > l
      BY <1>1
    <3> QED BY <1>2, <3>1 DEF PartsTurn
  <2> QED BY <2>1, <2>2
<1>5. ASSUME NEW k \in 1 .. n
      PROVE  /\ rest(2 * k) = <<parts[k]>> \o rest(2 * k + 1)
             /\ rest(2 * k - 1) = rest(2 * k)
  <2>1. (2 * k + 1) \div 2 = k /\ ((2 * k - 1) + 1) \div 2 = k
    BY <1>1
  <2>2. ((2 * k + 1) + 1) \div 2 = k + 1
    BY <1>1
  <2> QED BY <2>1, <2>2, PartsFrom
<1>6. rest(1) = parts /\ \A i \in {l + 1, l + 2} : rest(i) = <<>>
  <2>1. (1 + 1) \div 2 = 1
    OBVIOUS
  <2>2. ((l + 1) + 1) \div 2 = n + 1
    BY <1>1
  <2>3. ((l + 2) + 1) \div 2 = n + 1
    BY <1>1
  <2> HIDE DEF l
  <2>4. rest(1) = parts
    BY <2>1, PartsFrom
  <2>5. rest(l + 1) = <<>> /\ rest(l + 2) = <<>>
    BY <2>2, <2>3, PartsFrom
  <2> HIDE DEF rest
  <2> QED BY <2>4, <2>5
<1>7. \A i \in 1 .. l + 2 : \/ \E k \in 1 .. n : i = 2 * k \/ i = 2 * k - 1
                            \/ i \in {l + 1, l + 2}
  <2>1. ASSUME NEW i \in 1 .. l PROVE \E k \in 1 .. n : i = 2 * k \/ i = 2 * k - 1
    <3> DEFINE k == (i + 1) \div 2
    <3>1. k \in 1 .. n
      BY <1>1
    <3>2. i = 2 * k \/ i = 2 * k - 1
      BY <1>1
    <3> HIDE DEF k
    <3> QED BY <3>1, <3>2
  <2>2. l \in Nat
    BY <1>1
  <2> HIDE DEF l
  <2>3. \A i \in 1 .. l + 2 : i \in 1 .. l \/ i \in {l + 1, l + 2}
    BY <2>2
  <2> QED BY <2>1, <2>3, Zenon
<1>8. \E h : Eq(h)
  <2> DEFINE h == [i \in 1 .. l + 2 |-> rest(i)]
  <2>1. \A i \in 1 .. l + 2 : h[i] = rest(i)
    OBVIOUS
  <2> HIDE DEF rest
  <2>2. ASSUME NEW i \in 1 .. l + 2 PROVE PartsTurn(path, h, i) = rest(i)
    <3>1. CASE i \in {l + 1, l + 2}
      BY <1>4, <1>6, <3>1
    <3>2. ASSUME NEW k \in 1 .. n, i = 2 * k \/ i = 2 * k - 1
          PROVE  PartsTurn(path, h, i) = rest(i)
      <4>1. 2 * k + 1 \in 1 .. l + 2 /\ 2 * k \in 1 .. l + 2
        BY <1>1
      <4>2. h[2 * k + 1] = rest(2 * k + 1) /\ h[2 * k] = rest(2 * k)
        BY <2>1, <4>1
      <4> HIDE DEF h
      <4> QED BY <1>4, <1>5, <3>2, <4>2
    <3> QED BY <1>7, <3>1, <3>2
  <2>3. h = [i \in 1 .. l + 2 |-> PartsTurn(path, h, i)]
    <3> DEFINE g == [i \in 1 .. l + 2 |-> PartsTurn(path, h, i)]
    <3> HIDE DEF h
    <3>1. \A i \in 1 .. l + 2 : g[i] = rest(i)
      BY <2>2
    <3>2. g = [i \in 1 .. l + 2 |-> rest(i)]
      BY <3>1
    <3> QED BY <3>2 DEF h
  <2>4. Eq(h)
    <3> HIDE DEF h
    <3> QED BY <1>2, <2>3
  <2> QED BY <2>4
<1> DEFINE f == CHOOSE h : Eq(h)
<1>9. Eq(f)
  <2> HIDE DEF Eq
  <2> QED BY <1>8
<1>10. PartsOf(path) = f[1]
  BY DEF PartsOf, PartsTurn
<1> HIDE DEF f
<1>11. \A i \in 1 .. l + 2 : f[i] = PartsTurn(path, f, i)
  <2> HIDE DEF l
  <2> QED BY <1>2, <1>9
<1> HIDE DEF rest, Eq
<1> DEFINE Good == {k \in 0 .. n : f[(l + 1) - 2 * k] = rest((l + 1) - 2 * k)}
<1>12. 0 \in Good
  <2>1. (l + 1) - 2 * 0 = l + 1 /\ l + 1 \in 1 .. l + 2 /\ 0 \in 0 .. n
    BY <1>1
  <2>2. f[l + 1] = rest(l + 1)
    BY <1>4, <1>6, <1>11, <2>1
  <2> QED BY <2>1, <2>2
<1>13. ASSUME NEW k \in 0 + 1 .. n, k - 1 \in Good PROVE k \in Good
  <2> DEFINE j == n + 1 - k
  <2>1. /\ j \in 1 .. n /\ k \in 0 .. n
        /\ (l + 1) - 2 * (k - 1) = 2 * j + 1 /\ (l + 1) - 2 * k = 2 * j - 1
        /\ 2 * j \in 1 .. l + 2 /\ 2 * j - 1 \in 1 .. l + 2
    BY <1>1, <1>13
  <2> HIDE DEF j
  <2>2. f[2 * j + 1] = rest(2 * j + 1)
    BY <1>13, <2>1
  <2>3. f[2 * j] = rest(2 * j)
    <3>1. f[2 * j] = <<parts[j]>> \o f[2 * j + 1]
      BY <1>4, <1>11, <2>1
    <3>2. rest(2 * j) = <<parts[j]>> \o rest(2 * j + 1)
      BY <1>5, <2>1
    <3> QED BY <2>2, <3>1, <3>2
  <2>4. f[2 * j - 1] = rest(2 * j - 1)
    <3>1. f[2 * j - 1] = f[2 * j]
      BY <1>4, <1>11, <2>1
    <3>2. rest(2 * j - 1) = rest(2 * j)
      BY <1>5, <2>1
    <3> QED BY <2>3, <3>1, <3>2
  <2> QED BY <2>1, <2>4
<1>14. n \in Good
  <2> HIDE DEF Good, n
  <2>1. 0 \in Nat /\ n \in 0 .. n
    BY <1>1
  <2>2. \A k \in 0 .. n : k \in Good
    BY <1>1, <1>12, <1>13, <2>1, Induction
  <2> QED BY <2>1, <2>2
<1>15. (l + 1) - 2 * n = 1
  BY <1>1
<1>16. f[1] = rest(1)
  BY <1>14, <1>15
<1> QED BY <1>6, <1>10, <1>16 DEF path

-----------------------------------------------------------------------------
(* The current directory's path: an inductive invariant *)

\* cwd_mac is the Macintosh path of p, a whole path without dots that leads to the current
\* directory.
HoldsBy(p) ==
  /\ ~Relative(p) /\ DotFree(p.parts)
  /\ cwd_mac = MacPath[p]
  /\ Meant(catalog, here, p) = here

CwdHolds == named => \E p \in AllPaths : HoldsBy(p)

\* A whole path without dots starts at the volume, and leads to the same from everywhere.
LEMMA WholePath ==
  ASSUME NEW p, Posix(p), ~Relative(p), DotFree(p.parts)
  PROVE  /\ p.parts \in Seq(Names) /\ Len(p.parts) \in Nat \ {0} /\ p.parts # <<>>
         /\ \A i : First(p) \o Joined(p.parts, i) = Whole(p.parts, i)
         /\ posix9_path_to_mac(p) = Whole(p.parts, Len(p.parts))
         /\ \A cat : \A dir \in Ends : SoundCatalog(cat) =>
              Resolve(cat, dir, posix9_path_to_mac(p)) = Meant(cat, dir, p)
<1>1. p.parts \in Seq(Names) /\ Len(p.parts) \in Nat \ {0} /\ p.parts # <<>>
  BY LenProperties, EmptySeq DEF Posix, DotFree
<1>2. \A i : First(p) \o Joined(p.parts, i) = Whole(p.parts, i)
  BY DEF First, Whole
<1>3. posix9_path_to_mac(p) = Whole(p.parts, Len(p.parts))
  BY <1>2, DotFreeIs
<1>4. ASSUME NEW cat, SoundCatalog(cat), NEW dir \in Ends
      PROVE  Resolve(cat, dir, posix9_path_to_mac(p)) = Meant(cat, dir, p)
  <2>1. PICK f : MeantIs(cat, dir, p, f)
    BY <1>4, MeantIsLoop
  <2>2. Len(p.parts) \in 0 .. Len(p.parts) /\ Len(p.parts) # 0
    BY <1>1
  <2>3. Resolve(cat, dir, First(p) \o Joined(p.parts, Len(p.parts))) = f[Len(p.parts)]
    BY <1>4, <2>1, <2>2, PrefixLeads
  <2>4. Meant(cat, dir, p) = f[Len(p.parts)]
    BY <2>1 DEF MeantIs
  <2> QED BY <1>2, <1>3, <2>3, <2>4
<1> QED BY <1>1, <1>2, <1>3, <1>4

\* What the current directory's path does not lead through is not on the way to it.
LEMMA NotThrough ==
  ASSUME DirInv, NEW p \in AllPaths, HoldsBy(p), NEW f, MeantIs(catalog, here, p, f),
         NEW n, ~Through(n), NEW i \in 1 .. Len(p.parts)
  PROVE  f[i] # n
<1> DEFINE path == Whole(p.parts, Len(p.parts))
           k == 2 * i + 1
<1>1. SoundCatalog(catalog) /\ here \in Ends /\ Posix(p) /\ MacPath[p] = posix9_path_to_mac(p)
  BY DirectoryAssumption DEF DirInv, HereType, Ends, Posix, MacPath
<1>2. /\ p.parts \in Seq(Names) /\ Len(p.parts) \in Nat \ {0} /\ p.parts # <<>>
      /\ cwd_mac = path /\ First(p) \o Joined(p.parts, i) = Whole(p.parts, i)
  BY <1>1, WholePath DEF HoldsBy
<1>3. k \in 1 .. Len(path) /\ SubSeq(path, 1, k) = Whole(p.parts, i)
  BY <1>2, WholePrefix
<1>4. Resolve(catalog, here, Whole(p.parts, i)) = f[i]
  <2>1. i \in 0 .. Len(p.parts) /\ i # 0
    BY <1>2
  <2>2. Resolve(catalog, here, First(p) \o Joined(p.parts, i)) = f[i]
    BY <1>1, <2>1, PrefixLeads DEF HoldsBy
  <2> QED BY <1>2, <2>2
<1> HIDE DEF path, k
<1>5. Resolve(catalog, here, SubSeq(cwd_mac, 1, k)) # n
  BY <1>2, <1>3 DEF Through
<1> QED BY <1>2, <1>3, <1>4, <1>5

\* Nothing is named before the first chdir.
LEMMA CwdHoldsInit == Init => CwdHolds
  BY DEF Init, CwdHolds, named

\* A step that leaves the catalog, the current directory and its path.
LEMMA CwdHoldsKeeps ==
  ASSUME CwdHolds, UNCHANGED <<catalog, here>>, named' => named /\ cwd_mac' = cwd_mac
  PROVE  CwdHolds'
  BY DEF CwdHolds, HoldsBy

\* A call that changes the catalog leaves the way to the current directory, or named falls.
LEMMA CwdHoldsChanges ==
  ASSUME DirInv, CwdHolds, NEW d, NEW n, ChangedIn(d, n), Spares(n)
  PROVE  CwdHolds'
<1> SUFFICES ASSUME named' PROVE \E p \in AllPaths : HoldsBy(p)'
  BY DEF CwdHolds
<1>1. /\ named /\ here' = here /\ cwd_mac' = cwd_mac
      /\ n \in DOMAIN catalog => ~Through(n)
  BY DEF Spares
<1>2. PICK p \in AllPaths : HoldsBy(p)
  BY <1>1 DEF CwdHolds
<1>3. /\ SoundCatalog(catalog) /\ Siblings(catalog)
      /\ SoundCatalog(catalog') /\ Siblings(catalog')
  BY CatalogStaysSound DEF DirInv
<1>4. here \in Ends /\ here # NoNode /\ Posix(p)
  <2>1. here \in Nodes \cup {Root}
    BY DEF DirInv, HereType
  <2>2. here \in Ends /\ here # NoNode
    BY <2>1, PathAssumption DEF Ends, NoNode, Root
  <2>3. Posix(p)
    BY DirectoryAssumption DEF Posix
  <2> QED BY <2>2, <2>3
<1>5. PICK f : MeantIs(catalog, here, p, f)
  BY <1>3, <1>4, MeantIsLoop
<1>6. PICK g : MeantIs(catalog', here, p, g)
  BY <1>3, <1>4, MeantIsLoop
<1> DEFINE k == Len(p.parts)
<1>7. ~Relative(p) /\ DotFree(p.parts) /\ cwd_mac = MacPath[p] /\ Meant(catalog, here, p) = here
  BY <1>2 DEF HoldsBy
<1>8. k \in 0 .. Len(p.parts)
  BY <1>4, LenProperties DEF Posix
<1>9. f[k] = here /\ Meant(catalog', here, p) = g[k]
  BY <1>5, <1>6, <1>7 DEF MeantIs
<1>10. Avoids(f, k, n)
  BY <1>1, <1>2, <1>5, NotThrough DEF Avoids
<1> HIDE DEF k
<1>11. g[k] = f[k]
  <2>1. f[k] # NoNode
    BY <1>4, <1>9
  <2>2. DotFree(p.parts)
    BY <1>7
  <2> QED BY <1>3, <1>4, <1>5, <1>6, <1>8, <1>10, <2>1, <2>2, WayStays
<1>12. Meant(catalog', here', p) = here'
  BY <1>1, <1>9, <1>11
<1>13. HoldsBy(p)'
  BY <1>1, <1>7, <1>12 DEF HoldsBy, MacPath
<1> QED BY <1>13

\* chdir by such a path: it is the path.
LEMMA CwdHoldsChdir ==
  ASSUME DirInv, NEW p \in AllPaths, Chdir(p)
  PROVE  CwdHolds'
<1> SUFFICES ASSUME named' PROVE \E q \in AllPaths : HoldsBy(q)'
  BY DEF CwdHolds
<1>1. /\ p \in AllPaths /\ Posix(p) /\ MacPath[p] = posix9_path_to_mac(p)
      /\ SoundCatalog(catalog) /\ here \in Ends
  BY DirectoryAssumption DEF DirInv, HereType, Ends, Posix, MacPath
<1>2. /\ here' = Resolve(catalog, here, posix9_path_to_mac(p)) /\ IsDir(catalog, here')
      /\ cwd_mac' = MacPath[p] /\ catalog' = catalog
  BY <1>1 DEF Chdir, Full
<1>3. ~Relative(p) /\ DotFree(p.parts)
  <2>1. ~Relative(p) /\ p.parts # <<>> /\ Range(p.parts) \cap Dots = {}
    BY DEF Chdir, named
  <2>2. DOMAIN p.parts = 1 .. Len(p.parts)
    BY <1>1, LenProperties DEF Posix
  <2> QED BY <2>1, <2>2 DEF DotFree, Range
<1>4. here' \in Ends
  BY <1>1, <1>2, DirIsNode DEF Ends
<1> DEFINE path == posix9_path_to_mac(p)
<1>5. Resolve(catalog, here', path) = Resolve(catalog, here, path)
  <2> DEFINE n == Len(p.parts)
  <2>1. p.parts \in Seq(Names) /\ n \in Nat \ {0} /\ path = Whole(p.parts, n)
    BY <1>1, <1>3, WholePath
  <2>2. path \in Seq(Macs) /\ Len(path) = 2 * n + 1 /\ path[1] = Volume
    <3>1. n \in 1 .. n
      BY <2>1
    <3>2. /\ Whole(p.parts, n) \in Seq(Macs) /\ Len(Whole(p.parts, n)) = 2 * n + 1
          /\ Whole(p.parts, n)[1] = Volume
      BY <2>1, <3>1, WholeIs
    <3> HIDE DEF path
    <3> QED BY <2>1, <3>2
  <2> HIDE DEF path, n
  <2>3. path # <<>> /\ Len(path) # 1 /\ path[1] # ":"
    BY <2>1, <2>2, EmptySeq, PathAssumption
  <2> QED BY <2>2, <2>3 DEF Resolve
<1>6. Resolve(catalog, here', path) = Meant(catalog, here', p)
  BY <1>1, <1>3, <1>4, WholePath
<1>7. Meant(catalog', here', p) = here'
  BY <1>2, <1>5, <1>6
<1>8. HoldsBy(p)'
  BY <1>2, <1>3, <1>7 DEF HoldsBy, MacPath
<1> QED BY <1>1, <1>8

\* No other step does anything to it but take named back.
LEMMA CwdHoldsStep == ASSUME DirInv, CwdHolds, [AllCalls]_vars PROVE CwdHolds'
<1>1. ASSUME NEW p \in AllPaths,
             \/ Mkdir(p) \/ CreateFile(p) \/ Rmdir(p) \/ Unlink(p)
             \/ \E new \in AllPaths : Rename(p, new)
      PROVE  CwdHolds'
  <2>1. SoundCatalog(catalog)
    BY DEF DirInv
  <2>2. PICK d, n : ChangedIn(d, n) /\ Spares(n)
    BY <1>1, <2>1, CallChanges
  <2> QED BY <2>2, CwdHoldsChanges
<1>2. ASSUME init_cwd PROVE named' => named /\ cwd_mac' = cwd_mac
  BY <1>2 DEF init_cwd, Initialized, named
<1>3. ASSUME NEW p \in AllPaths, NEW s \in Streams, opendir(p, s) PROVE CwdHolds'
  <2>1. UNCHANGED <<catalog, here>> /\ Translate(p)
    BY <1>3 DEF opendir
  <2>2. named' => named /\ cwd_mac' = cwd_mac
    BY <1>2, <2>1 DEF Translate, named
  <2> QED BY <2>1, <2>2, CwdHoldsKeeps
<1>4. ASSUME NEW p \in AllPaths, Chdir(p) PROVE CwdHolds'
  BY <1>4, CwdHoldsChdir
<1>5. ASSUME NEW s \in Streams, readdir(s) \/ rewinddir(s) \/ closedir(s) PROVE CwdHolds'
  <2>1. UNCHANGED <<catalog, here>> /\ (named' => named /\ cwd_mac' = cwd_mac)
    BY <1>5 DEF readdir, rewinddir, closedir, cwd, named
  <2> QED BY <2>1, CwdHoldsKeeps
<1>6. ASSUME Getcwd PROVE CwdHolds'
  <2>1. UNCHANGED <<catalog, here>> /\ init_cwd
    BY <1>6 DEF Getcwd
  <2> QED BY <1>2, <2>1, CwdHoldsKeeps
<1>7. ASSUME UNCHANGED vars PROVE CwdHolds'
  <2>1. UNCHANGED <<catalog, here>> /\ (named' => named /\ cwd_mac' = cwd_mac)
    BY <1>7 DEF vars, cwd, named
  <2> QED BY <2>1, CwdHoldsKeeps
<1> QED BY <1>1, <1>3, <1>4, <1>5, <1>6, <1>7 DEF AllCalls

\* Once init_cwd has written over it, cwd_mac is the volume's name, and no directory is its own
\* parent: a name in the current directory is never that directory.
VolumeWritten == overwritten => cwd_mac = <<Volume>>
NoLoop == \A n \in DOMAIN catalog : catalog[n].parent # n

\* Before the first chdir nothing has been written over.
LEMMA AsideInit == Init => VolumeWritten /\ NoLoop
<1> SUFFICES ASSUME Init PROVE VolumeWritten /\ NoLoop
  OBVIOUS
<1>1. VolumeWritten
  BY DEF Init, VolumeWritten
<1>2. CASE catalog = <<>>
  BY <1>1, <1>2 DEF NoLoop
<1>3. ASSUME NEW n \in Nodes, NEW name \in Names,
             catalog = [m \in {n} |-> [parent |-> Root, name |-> name, isDir |-> TRUE]]
      PROVE  NoLoop
  BY <1>3, PathAssumption DEF NoLoop, Root
<1> QED BY <1>1, <1>2, <1>3 DEF Init

\* init_cwd writes the volume's name, and chdir alone writes anything else.
LEMMA VolumeStays == ASSUME VolumeWritten, [AllCalls]_vars PROVE VolumeWritten'
<1>1. ASSUME init_cwd \/ UNCHANGED <<cwd_mac, cwd_initialized, given, overwritten>>
      PROVE  VolumeWritten'
  BY <1>1 DEF init_cwd, Initialized, VolumeWritten
<1>2. ASSUME NEW p \in AllPaths, Mkdir(p) \/ \E s \in Streams : opendir(p, s)
      PROVE  VolumeWritten'
  <2>1. Translate(p)
    BY <1>2 DEF Mkdir, opendir
  <2> QED BY <1>1, <2>1 DEF Translate
<1>3. ASSUME NEW p \in AllPaths, Rmdir(p) PROVE VolumeWritten'
  BY <1>3 DEF Rmdir, Initialized, VolumeWritten
<1>4. ASSUME NEW p \in AllPaths, Unlink(p) \/ \E new \in AllPaths : Rename(p, new)
      PROVE  VolumeWritten'
  BY <1>4 DEF Unlink, Rename, VolumeWritten
<1>5. ASSUME NEW p \in AllPaths, Chdir(p) PROVE VolumeWritten'
  BY <1>5 DEF Chdir, VolumeWritten
<1>6. ASSUME \/ \E p \in AllPaths : CreateFile(p)
             \/ \E s \in Streams : readdir(s) \/ rewinddir(s) \/ closedir(s)
             \/ UNCHANGED vars
      PROVE  VolumeWritten'
  BY <1>6 DEF CreateFile, readdir, rewinddir, closedir, vars, cwd, VolumeWritten
<1>7. ASSUME Getcwd PROVE VolumeWritten'
  BY <1>1, <1>7 DEF Getcwd
<1> QED BY <1>2, <1>3, <1>4, <1>5, <1>6, <1>7 DEF AllCalls

\* A new entry's parent was there before it, and an entry keeps its parent.
LEMMA LoopStaysOut == ASSUME DirInv, NoLoop, [AllCalls]_vars PROVE NoLoop'
<1>1. ASSUME NEW d, NEW n, ChangedIn(d, n) PROVE NoLoop'
  <2>1. ASSUME NEW name \in Names, NEW isDir \in BOOLEAN,
               IsDir(catalog, d), n \in Nodes \ DOMAIN catalog,
               catalog' = [m \in DOMAIN catalog \cup {n} |->
                             IF m = n THEN [parent |-> d, name |-> name, isDir |-> isDir]
                                      ELSE catalog[m]]
        PROVE  NoLoop'
    <3>1. d # n
      BY <2>1, PathAssumption DEF IsDir, Root
    <3> QED BY <2>1, <3>1 DEF NoLoop
  <2>2. ASSUME catalog' = Restrict(catalog, DOMAIN catalog \ {n}) PROVE NoLoop'
    BY <2>2 DEF NoLoop, Restrict
  <2>3. ASSUME NEW name, catalog' = [catalog EXCEPT ![n].name = name] PROVE NoLoop'
    <3>1. \A m \in DOMAIN catalog : catalog[m] \in Item
      BY CatalogDomain DEF DirInv
    <3>2. \A m \in DOMAIN catalog : catalog'[m].parent = catalog[m].parent
      BY <2>3, <3>1 DEF Item
    <3> QED BY <2>3, <3>2 DEF NoLoop
  <2> QED BY <1>1, <2>1, <2>2, <2>3 DEF ChangedIn
<1>2. ASSUME NEW p \in AllPaths,
             \/ Mkdir(p) \/ CreateFile(p) \/ Rmdir(p) \/ Unlink(p)
             \/ \E new \in AllPaths : Rename(p, new)
      PROVE  NoLoop'
  <2>1. SoundCatalog(catalog)
    BY DEF DirInv
  <2>2. PICK d, n : ChangedIn(d, n) /\ Spares(n)
    BY <1>2, <2>1, CallChanges
  <2> QED BY <1>1, <2>2
<1>3. ASSUME catalog' = catalog PROVE NoLoop'
  BY <1>3 DEF NoLoop
<1>4. ASSUME \/ \E p \in AllPaths : Chdir(p) \/ \E s \in Streams : opendir(p, s)
             \/ \E s \in Streams : readdir(s) \/ rewinddir(s) \/ closedir(s)
             \/ Getcwd \/ UNCHANGED vars
      PROVE  catalog' = catalog
  BY <1>4 DEF Chdir, opendir, readdir, rewinddir, closedir, Getcwd, vars
<1> QED BY <1>2, <1>3, <1>4 DEF AllCalls

\* The way back and forth of a whole path without dots is that path.
LEMMA ThereAndBack ==
  ASSUME NEW p, Posix(p), ~Relative(p), DotFree(p.parts)
  PROVE  posix9_path_to_mac(posix9_path_from_mac(posix9_path_to_mac(p))) = posix9_path_to_mac(p)
<1> DEFINE n == Len(p.parts)
           path == Whole(p.parts, n)
           joined == Joined(p.parts, n)
           q == Path("volume", p.parts)
<1>1. /\ p.parts \in Seq(Names) /\ n \in Nat \ {0} /\ p.parts # <<>> /\ n \in 1 .. n
      /\ posix9_path_to_mac(p) = path
  BY WholePath
<1>2. /\ joined \in Seq(Macs) /\ Len(joined) = 2 * n
      /\ path \in Seq(Macs) /\ Len(path) = 2 * n + 1 /\ path[1] = Volume
      /\ \A j \in 1 .. 2 * n : path[j + 1] = joined[j]
  BY <1>1, WholeIs
<1>3. PartsOf(joined) = p.parts
  BY <1>1, PartsBack
<1>4. posix9_path_to_mac(q) = path
  <2>1. Posix(q) /\ ~Relative(q) /\ DotFree(q.parts) /\ q.parts = p.parts
    BY <1>1 DEF Posix, Path, Relative
  <2> HIDE DEF q
  <2>2. posix9_path_to_mac(q) = Whole(q.parts, Len(q.parts))
    BY <2>1, WholePath
  <2> QED BY <2>1, <2>2
<1> HIDE DEF path, joined
<1>5. path # <<>> /\ path[1] # ":"
  <2>1. Len(path) # 0
    BY <1>1, <1>2
  <2>2. Volume # ":"
    BY PathAssumption
  <2> HIDE DEF n
  <2> QED BY <1>2, <2>1, <2>2, EmptySeq
<1>6. Tail(path) = joined
  <2> DEFINE tail == Tail(path)
             l == 2 * n
  <2>1. /\ tail \in Seq(Macs) /\ Len(tail) = Len(path) - 1
        /\ \A i \in 1 .. Len(tail) : tail[i] = path[i + 1]
    BY <1>2, <1>5, HeadTailProperties
  <2>2. l + 1 - 1 = l
    BY <1>1
  <2> HIDE DEF tail, l
  <2>3. Len(tail) = l
    BY <1>2, <2>1, <2>2 DEF l
  <2>4. \A i \in 1 .. l : tail[i] = joined[i]
    BY <1>2, <2>1, <2>3 DEF l
  <2>5. tail = joined
    BY <1>2, <2>1, <2>3, <2>4, SeqEqual DEF l
  <2> QED BY <2>5 DEF tail
<1>7. posix9_path_from_mac(path) = q
  BY <1>3, <1>5, <1>6 DEF posix9_path_from_mac
<1> QED BY <1>1, <1>4, <1>7

\* Nothing is made of no part, on either way.
LEMMA NoParts == PartsOf(<<>>) = <<>> /\ Parts(<<>>, TRUE) = <<>>
<1>1. PartsOf(<<>>) = <<>>
  <2> DEFINE Eq(h) == h = [i \in 1 .. Len(<<>>) + 2 |-> PartsTurn(<<>>, h, i)]
  <2>1. Len(<<>>) = 0 /\ 1 \in 1 .. Len(<<>>) + 2
    OBVIOUS
  <2>2. ASSUME NEW h, NEW i \in 1 .. Len(<<>>) + 2 PROVE PartsTurn(<<>>, h, i) = <<>>
    BY <2>1 DEF PartsTurn
  <2>3. Eq([i \in 1 .. Len(<<>>) + 2 |-> <<>>])
    <3> DEFINE e == [i \in 1 .. Len(<<>>) + 2 |-> <<>>]
    <3>1. e = [i \in 1 .. Len(<<>>) + 2 |-> PartsTurn(<<>>, e, i)]
      <4> HIDE DEF e
      <4>1. [i \in 1 .. Len(<<>>) + 2 |-> PartsTurn(<<>>, e, i)]
              = [i \in 1 .. Len(<<>>) + 2 |-> <<>>]
        BY <2>2
      <4> QED BY <4>1 DEF e
    <3> HIDE DEF e
    <3>2. Eq(e)
      BY <3>1
    <3> QED BY <3>2 DEF e
  <2>4. PartsOf(<<>>) = (CHOOSE h : Eq(h))[1]
    BY DEF PartsOf, PartsTurn
  <2>5. Eq(CHOOSE h : Eq(h))
    <3> HIDE DEF Eq
    <3> QED BY <2>3
  <2> DEFINE h == CHOOSE h : Eq(h)
  <2>6. h[1] = PartsTurn(<<>>, h, 1)
    <3> HIDE DEF h
    <3> QED BY <2>1, <2>5 DEF h
  <2> QED BY <2>1, <2>2, <2>4, <2>6
<1>2. Parts(<<>>, TRUE) = <<>>
  <2>1. PICK f : Loop(f, <<>>, TRUE, Len(<<>>)) /\ Parts(<<>>, TRUE) = f[Len(<<>>)].mac
    <3>1. <<>> \in Seq(Names) /\ TRUE \in BOOLEAN
      OBVIOUS
    <3> QED BY <3>1, PartsIsLoop
  <2>2. Len(<<>>) = 0
    OBVIOUS
  <2>3. f[0] = [mac |-> <<>>, atSlash |-> TRUE]
    BY <2>1 DEF Loop
  <2>4. f[0].mac = <<>>
    BY <2>3
  <2> QED BY <2>1, <2>2, <2>4
<1> QED BY <1>1, <1>2

\* There and back, the volume's name is itself.
LEMMA VolumeAndBack ==
  posix9_path_to_mac(posix9_path_from_mac(<<Volume>>)) = <<Volume>>
<1> DEFINE q == Path("volume", <<>>)
<1>1. posix9_path_from_mac(<<Volume>>) = q
  <2>1. Volume # ":" /\ <<Volume>> # <<>> /\ <<Volume>>[1] = Volume /\ Tail(<<Volume>>) = <<>>
    BY PathAssumption
  <2>2. PartsOf(<<>>) = <<>>
    BY NoParts
  <2> QED BY <2>1, <2>2 DEF posix9_path_from_mac
<1>2. q.start = "volume" /\ q.parts = <<>>
  BY DEF Path
<1> HIDE DEF q
<1>3. Parts(q.parts, TRUE) = <<>>
  BY <1>2, NoParts
<1>4. posix9_path_to_mac(q) = Trimmed(<<Volume>> \o <<>>)
  BY <1>2, <1>3 DEF posix9_path_to_mac, Relative
<1>5. <<Volume>> \o <<>> = <<Volume>> /\ ~(Len(<<Volume>>) > 1)
  OBVIOUS
<1> QED BY <1>1, <1>4, <1>5 DEF Trimmed

\* What getcwd gives leads back to the current directory after a chdir by a whole path without
\* dots, however the catalog has changed since, if nothing on that path was renamed or deleted;
\* but it never leads there once init_cwd has written the volume's name over it, which it does
\* when the chdir came before everything that would have run init_cwd.
THEOREM CwdIsRight == Spec => []CwdAgrees
<1> DEFINE back == Resolve(catalog, here, posix9_path_to_mac(posix9_path_from_mac(cwd_mac)))
<1>1. ASSUME DirInv, CwdHolds, named PROVE back = here
  <2>1. PICK p \in AllPaths : HoldsBy(p)
    BY <1>1 DEF CwdHolds
  <2>2. /\ SoundCatalog(catalog) /\ here \in Ends
        /\ Posix(p) /\ MacPath[p] = posix9_path_to_mac(p)
    BY <1>1, DirectoryAssumption DEF DirInv, HereType, Ends, Posix, MacPath
  <2>3. /\ ~Relative(p) /\ DotFree(p.parts)
        /\ cwd_mac = posix9_path_to_mac(p) /\ Meant(catalog, here, p) = here
    BY <2>1, <2>2 DEF HoldsBy
  <2>4. posix9_path_to_mac(posix9_path_from_mac(cwd_mac)) = cwd_mac
    BY <2>2, <2>3, ThereAndBack
  <2>5. Resolve(catalog, here, posix9_path_to_mac(p)) = here
    BY <2>2, <2>3, WholePath
  <2> QED BY <2>3, <2>4, <2>5
<1>2. ASSUME DirInv, VolumeWritten, NoLoop, overwritten PROVE back # here
  <2>1. cwd_mac = <<Volume>>
    BY <1>2 DEF VolumeWritten
  <2>2. back = Resolve(catalog, here, <<Volume>>)
    BY <2>1, VolumeAndBack
  <2> HIDE DEF back
  <2>3. back = Child(catalog, here, Volume)
    <3>1. <<Volume>> # <<>> /\ <<Volume>>[1] # ":" /\ Len(<<Volume>>) = 1
      BY PathAssumption
    <3>2. <<Volume>>[1] = Volume
      OBVIOUS
    <3> QED BY <2>2, <3>1, <3>2 DEF Resolve
  <2>4. here # NoNode
    BY <1>2, PathAssumption DEF DirInv, HereType, NoNode, Root
  <2>5. ASSUME Child(catalog, here, Volume) # NoNode PROVE Child(catalog, here, Volume) # here
    <3>1. Child(catalog, here, Volume) \in Children(catalog, here)
      BY <1>2, <2>5, ChildIs DEF DirInv
    <3> QED BY <1>2, <3>1 DEF Children, NoLoop
  <2> QED BY <2>3, <2>4, <2>5
<1>3. DirInv /\ CwdHolds /\ VolumeWritten /\ NoLoop => CwdAgrees
  <2> HIDE DEF back
  <2> SUFFICES ASSUME DirInv, CwdHolds, VolumeWritten, NoLoop, given
               PROVE  back = here <=> ~overwritten
    BY DEF CwdAgrees, back
  <2>1. CASE overwritten
    BY <1>2, <2>1
  <2>2. CASE ~overwritten
    BY <1>1, <2>2 DEF named
  <2> QED BY <2>1, <2>2
<1>4. Spec => [](CwdHolds /\ VolumeWritten /\ NoLoop)
  <2>1. DirInv /\ CwdHolds /\ [Next]_vars => CwdHolds'
    BY CwdHoldsStep, CallsAreAll
  <2>2. DirInv /\ VolumeWritten /\ NoLoop /\ [Next]_vars => VolumeWritten' /\ NoLoop'
    BY VolumeStays, LoopStaysOut, CallsAreAll
  <2> QED BY <2>1, <2>2, CwdHoldsInit, AsideInit, DirInvariance, PTL DEF Spec
<1> QED BY <1>3, <1>4, DirInvariance, PTL

-----------------------------------------------------------------------------
(* The instance that is checked: either module's calls, with the other left alone *)

\* What the streams are called with, there, are paths like any others.
LEMMA MCStepIsCall ==
  ASSUME [MCNext]_allVars
  PROVE  [AllCalls]_vars /\ [EnvNext]_environment
<1>1. CASE RunPaths
  <2>1. AllCalls
    BY <1>1, DirectoryAssumption DEF RunPaths, AllCalls
  <2> QED BY <1>1, <2>1 DEF RunPaths
<1>2. CASE RunStreams
  <2>1. FilePaths \subseteq AllPaths /\ Here(<<".">>) \in AllPaths
    BY MCAssumption
  <2>2. AllCalls
    BY <1>2, <2>1 DEF RunStreams, AllCalls
  <2> QED BY <1>2, <2>2 DEF RunStreams
<1>3. CASE RunEnvironment
  BY <1>3 DEF RunEnvironment
<1>4. CASE UNCHANGED allVars
  BY <1>4 DEF allVars
<1> QED BY <1>1, <1>2, <1>3, <1>4 DEF MCNext

\* The types of both modules at once: no call of the one touches what the other keeps, and the
\* streams' calls may be by any of the paths that are translated, not only by programs' own.
THEOREM AllTypesCorrect == MCSpec => []AllTypeOK
<1>1. MCInit => DirInv /\ EnvInv
  BY DirInvInit, EnvInvInit DEF MCInit
<1>2. DirInv /\ EnvInv /\ [MCNext]_allVars => DirInv' /\ EnvInv'
  BY MCStepIsCall, DirInvStep, EnvInvStep
<1>3. DirInv /\ EnvInv => AllTypeOK
  BY DirInvTypes, EnvInvTypes DEF AllTypeOK
<1> QED BY <1>1, <1>2, <1>3, PTL DEF MCSpec
=============================================================================
