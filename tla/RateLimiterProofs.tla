------------------------- MODULE RateLimiterProofs -------------------------
(***************************************************************************)
(* For any number of callers, any window and any sub-windows, at every     *)
(* moment of a clean-up: the limiter never holds more permits than         *)
(* configured, its total is the sum of its sub-windows, whoever waits has  *)
(* a cleaner to wake it, and any period one sub-window shorter than the    *)
(* window sees at most the configured permits.                             *)
(*                                                                         *)
(* A sum over a function is the number of its permits, counted one by one  *)
(* (PermitsOf), so that the facts of FiniteSetTheorems apply to it.        *)
(***************************************************************************)
EXTENDS RateLimiter, FiniteSetTheorems, TLAPS

-----------------------------------------------------------------------------
(* Offsets and sub-windows *)

\* A quotient, bracketed.
LEMMA Quotient ==
  ASSUME NEW a \in Nat, NEW b \in Nat, b > 0
  PROVE  a \div b \in Nat /\ b * (a \div b) <= a /\ a < b * (a \div b) + b
  OBVIOUS

\* A later moment, at most k sub-windows away, has an offset at most k above.
LEMMA IndexAdvances ==
  ASSUME NEW a \in Nat, NEW b \in Nat, NEW k \in Nat, b <= a + k * Dist
  PROVE  Index(a) \in Nat /\ Index(b) \in Nat /\ Index(b) <= Index(a) + k
<1> DEFINE p == a \div Dist
           q == b \div Dist
           d == Dist
<1>1. /\ d \in Nat /\ p \in Nat /\ q \in Nat
      /\ a < d * p + d /\ d * q <= b
  BY RateAssumption, Quotient
<1>2. b <= a + k * d
  OBVIOUS
<1> HIDE DEF p, q, d
<1>3. q <= p + k
  <2> SUFFICES ASSUME p + k + 1 <= q PROVE FALSE
    BY <1>1
  <2>1. d * (p + k + 1) <= d * q
    BY <1>1
  <2>2. d * (p + k + 1) = d * p + k * d + d
    BY <1>1
  <2>3. d * p \in Nat /\ k * d \in Nat /\ d * q \in Nat
    BY <1>1
  <2>. QED
    BY <1>1, <1>2, <2>1, <2>2, <2>3
<1>. QED
  BY <1>1, <1>3 DEF Index, p, q

\* A moment within the window has a sub-window that counts it (line 124).
LEMMA MomentHasSlot ==
  ASSUME NEW a \in Nat, a <= WindowsSize
  PROVE  Index(a) \in Slots
<1>1. WindowsSize <= WindowsSize + 0 * Dist /\ a <= WindowsSize + 0 * Dist
  BY RateAssumption
<1>2. Index(a) \in Nat /\ Index(WindowsSize) \in Nat /\ Index(a) <= Index(WindowsSize) + 0
  BY <1>1, IndexAdvances, RateAssumption
<1>. QED
  BY <1>2 DEF Slots

\* The sub-windows fit into the window; the period of BoundedRate is shorter by one.
LEMMA SubWindowsFit ==
  /\ SubWindows * Dist <= WindowsSize
  /\ (SubWindows - 1) * Dist \in Nat
  /\ (SubWindows - 1) * Dist + Dist = SubWindows * Dist
<1>1. SubWindows * (WindowsSize \div SubWindows) <= WindowsSize
  BY RateAssumption, Quotient
<1>2. SubWindows - 1 \in Nat /\ Dist \in Nat /\ SubWindows \in Nat
  BY RateAssumption
<1> DEFINE d == Dist
<1>3. d \in Nat
  BY <1>2
<1> HIDE DEF d
<1>4. (SubWindows - 1) * d \in Nat /\ (SubWindows - 1) * d + d = SubWindows * d
  BY <1>2, <1>3
<1>. QED
  BY <1>1, <1>4 DEF d, Dist

\* Taking a remainder takes away the divisor at least once.
LEMMA Remainder ==
  ASSUME NEW q \in Nat, NEW n \in Nat \ {0}, q >= n
  PROVE  q % n <= q - n
<1>1. q % n = q - n * (q \div n) 
  OBVIOUS
<1> DEFINE r == q \div n
<1>2. r \in Nat /\ q < n * r + n
  BY Quotient
<1>3. q % n = q - n * r
  BY <1>1
<1> HIDE DEF r
<1>4. r # 0
  BY <1>2
<1>5. n * r >= n
  BY <1>2, <1>4
<1>. QED
  BY <1>2, <1>3, <1>5

\* A window that has ended is at an offset no sub-window of it has.
LEMMA OverIndex ==
  ASSUME NEW a \in Nat, a > WindowsSize
  PROVE  Index(a) \in Nat /\ Index(a) >= SubWindows
<1> DEFINE q == a \div Dist
           d == Dist
<1>1. d \in Nat \ {0} /\ q \in Nat /\ a < d * q + d /\ SubWindows \in Nat
  BY RateAssumption, Quotient
<1>2. SubWindows * d <= WindowsSize /\ WindowsSize \in Nat
  BY SubWindowsFit, RateAssumption
<1> HIDE DEF q, d
<1>3. q >= SubWindows
  <2> SUFFICES ASSUME q + 1 <= SubWindows PROVE FALSE
    BY <1>1
  <2>1. d * (q + 1) <= d * SubWindows
    BY <1>1
  <2>2. d * (q + 1) = d * q + d /\ d * SubWindows = SubWindows * d
    BY <1>1
  <2>. QED
    BY <1>1, <1>2, <2>1, <2>2
<1>. QED
  BY <1>1, <1>3 DEF Index, q

\* Cutting a window into sub-windows leaves at least that many slots: every
\* sub-window that a clean-up visits has a count (lines 43, 51, 70 and 136).
LEMMA SubWindowsHaveSlots == 0..SubWindows - 1 \subseteq Slots
<1> DEFINE last == WindowsSize \div Dist
<1>1. Dist \in Nat /\ Dist > 0 /\ SubWindows * Dist <= WindowsSize
  BY RateAssumption, Quotient DEF Dist
<1>2. last \in Nat /\ WindowsSize < Dist * last + Dist
  BY <1>1, RateAssumption, Quotient
<1> HIDE DEF last
<1>3. SubWindows <= last
  <2> SUFFICES ASSUME last < SubWindows PROVE FALSE
    BY <1>2, RateAssumption
  <2>1. last + 1 <= SubWindows
    BY <1>2, RateAssumption
  <2>2. Dist * (last + 1) <= Dist * SubWindows
    BY <1>1, <1>2, <2>1, RateAssumption
  <2>3. Dist * (last + 1) = Dist * last + Dist /\ Dist * SubWindows = SubWindows * Dist
    BY <1>1, <1>2, RateAssumption
  <2>. QED
    BY <1>1, <1>2, <2>2, <2>3, RateAssumption
<1>. QED
  BY <1>2, <1>3, RateAssumption DEF Slots, Index, last

\* The offset at which a clean-up stops names a sub-window (line 136).
LEMMA InvalidInRange ==
  ASSUME NEW diff \in Nat
  PROVE  InvalidUpTo(diff) \in 0..SubWindows - 1
<1>1. diff \div Dist \in Nat
  BY RateAssumption, Quotient
<1> DEFINE q == diff \div Dist
<1> HIDE DEF q
<1>2. q % SubWindows \in 0..SubWindows - 1
  BY <1>1, RateAssumption DEF q
<1>. QED
  BY <1>2 DEF InvalidUpTo, Index, q

\* There are finitely many sub-windows.
LEMMA SlotsFinite == IsFiniteSet(Slots)
<1>1. WindowsSize <= WindowsSize + 0 * Dist
  BY RateAssumption
<1>2. Index(WindowsSize) \in Nat
  BY <1>1, IndexAdvances, RateAssumption
<1>. QED
  BY <1>2, FS_Interval DEF Slots

-----------------------------------------------------------------------------
(* Permits, one by one *)

\* A permit is a place and a number up to the count of the place.
LEMMA PermitsMembers ==
  ASSUME NEW f, NEW S, NEW p
  PROVE  p \in PermitsOf(f, S) <=> \E k \in S : \E j \in 1..f[k] : p = <<k, j>>
  BY DEF PermitsOf

\* Finitely many places count finitely many permits.
LEMMA PermitsFinite ==
  ASSUME NEW S, IsFiniteSet(S), NEW f, \A k \in S : f[k] \in Nat
  PROVE  IsFiniteSet(PermitsOf(f, S)) /\ Cardinality(PermitsOf(f, S)) \in Nat
<1> DEFINE part == [k \in S |-> {k} \X (1..f[k])]
           parts == {{k} \X (1..f[k]) : k \in S}
<1>1. part \in Surjection(S, parts)
  BY DEF Surjection
<1>2. IsFiniteSet(parts)
  BY <1>1, FS_Surjection
<1>3. ASSUME NEW T \in parts PROVE IsFiniteSet(T)
  <2>1. PICK k \in S : T = {k} \X (1..f[k])
    OBVIOUS
  <2>2. f[k] \in Int
    OBVIOUS
  <2>3. IsFiniteSet({k})
    BY FS_Singleton
  <2>4. IsFiniteSet(1..f[k])
    BY <2>2, FS_Interval
  <2>. QED
    BY <2>1, <2>3, <2>4, FS_Product
<1>4. IsFiniteSet(UNION parts)
  BY <1>2, <1>3, FS_UNION
<1>. QED
  BY <1>4, FS_CardinalityType DEF PermitsOf

\* Adding one to the count of a place adds one permit.
LEMMA PermitAdded ==
  ASSUME NEW S, IsFiniteSet(S), NEW f, \A h \in S : f[h] \in Nat,
         NEW k \in S, NEW g, g[k] = f[k] + 1, \A h \in S : h # k => g[h] = f[h]
  PROVE  /\ PermitsOf(g, S) = PermitsOf(f, S) \cup {<<k, f[k] + 1>>}
         /\ <<k, f[k] + 1>> \notin PermitsOf(f, S)
         /\ Cardinality(PermitsOf(g, S)) = Cardinality(PermitsOf(f, S)) + 1
<1>1. /\ f[k] \in Nat /\ g[k] = f[k] + 1
      /\ \A h \in S : h # k => g[h] = f[h]
  OBVIOUS
<1>2. 1..(f[k] + 1) = (1..f[k]) \cup {f[k] + 1} /\ f[k] + 1 \notin 1..f[k]
  BY <1>1
<1>3. PermitsOf(g, S) = PermitsOf(f, S) \cup {<<k, f[k] + 1>>}
  <2>1. ASSUME NEW p \in PermitsOf(g, S) PROVE p \in PermitsOf(f, S) \cup {<<k, f[k] + 1>>}
    <3>0. PICK h \in S : \E j \in 1..g[h] : p = <<h, j>>
      BY PermitsMembers
    <3>1. PICK j \in 1..g[h] : p = <<h, j>>
      BY <3>0
    <3>2. h # k => j \in 1..f[h]
      BY <1>1
    <3>3. h = k => j \in 1..f[h] \/ j = f[k] + 1
      BY <1>1, <1>2
    <3>. QED
      BY <3>1, <3>2, <3>3, PermitsMembers
  <2>2. ASSUME NEW p \in PermitsOf(f, S) PROVE p \in PermitsOf(g, S)
    <3>0. PICK h \in S : \E j \in 1..f[h] : p = <<h, j>>
      BY PermitsMembers
    <3>1. PICK j \in 1..f[h] : p = <<h, j>>
      BY <3>0
    <3>2. j \in 1..g[h]
      BY <1>1, <1>2
    <3>. QED
      BY <3>1, <3>2, PermitsMembers
  <2>3. <<k, f[k] + 1>> \in PermitsOf(g, S)
    BY <1>1, <1>2, PermitsMembers
  <2>. QED
    BY <2>1, <2>2, <2>3
<1>4. <<k, f[k] + 1>> \notin PermitsOf(f, S)
  <2> SUFFICES ASSUME NEW h \in S, NEW j \in 1..f[h], <<k, f[k] + 1>> = <<h, j>> PROVE FALSE
    BY PermitsMembers
  <2>. QED
    BY <1>2
<1>5. IsFiniteSet(PermitsOf(f, S))
  BY PermitsFinite
<1>. QED
  BY <1>3, <1>4, <1>5, FS_AddElement

\* Resetting the count of a place loses as many permits as it counted.
LEMMA PermitsReset ==
  ASSUME NEW S, IsFiniteSet(S), NEW f, \A h \in S : f[h] \in Nat,
         NEW k \in S, NEW g, g[k] = 0, \A h \in S : h # k => g[h] = f[h]
  PROVE  /\ PermitsOf(g, S) = PermitsOf(f, S) \ ({k} \X (1..f[k]))
         /\ Cardinality(PermitsOf(g, S)) = Cardinality(PermitsOf(f, S)) - f[k]
<1> DEFINE lost == {k} \X (1..f[k])
<1>1. /\ f[k] \in Nat /\ g[k] = 0
      /\ \A h \in S : h # k => g[h] = f[h]
  OBVIOUS
<1>2. 1..0 = {}
  OBVIOUS
<1>3. PermitsOf(g, S) = PermitsOf(f, S) \ lost
  <2>1. ASSUME NEW p \in PermitsOf(g, S) PROVE p \in PermitsOf(f, S) \ lost
    <3>0. PICK h \in S : \E j \in 1..g[h] : p = <<h, j>>
      BY PermitsMembers
    <3>1. PICK j \in 1..g[h] : p = <<h, j>>
      BY <3>0
    <3>2. h # k /\ j \in 1..f[h]
      BY <1>1, <1>2
    <3>. QED
      BY <3>1, <3>2, PermitsMembers
  <2>2. ASSUME NEW p \in PermitsOf(f, S), p \notin lost PROVE p \in PermitsOf(g, S)
    <3>0. PICK h \in S : \E j \in 1..f[h] : p = <<h, j>>
      BY PermitsMembers
    <3>1. PICK j \in 1..f[h] : p = <<h, j>>
      BY <3>0
    <3>2. h # k
      BY <2>2, <3>1
    <3>3. j \in 1..g[h]
      BY <1>1, <3>2
    <3>. QED
      BY <3>1, <3>3, PermitsMembers
  <2>. QED
    BY <2>1, <2>2
<1>4. lost \subseteq PermitsOf(f, S)
  BY DEF PermitsOf
<1>5. IsFiniteSet({k}) /\ Cardinality({k}) = 1
  BY FS_Singleton
<1>6. IsFiniteSet(1..f[k]) /\ Cardinality(1..f[k]) = f[k]
  <2>1. 1 \in Int /\ f[k] \in Int /\ (1 > f[k] => f[k] = 0) /\ f[k] - 1 + 1 = f[k]
    BY <1>1
  <2>2. Cardinality(1..f[k]) = IF 1 > f[k] THEN 0 ELSE f[k] - 1 + 1
    BY <2>1, FS_Interval
  <2>. QED
    BY <2>1, <2>2, FS_Interval
<1>7. Cardinality(lost) = f[k]
  <2>1. Cardinality(lost) = Cardinality({k}) * Cardinality(1..f[k])
    BY ONLY <1>5, <1>6, FS_Product, Zenon
  <2>. QED
    BY <1>1, <1>5, <1>6, <2>1
<1>8. IsFiniteSet(PermitsOf(f, S))
  BY PermitsFinite
<1>9. PermitsOf(f, S) \cap lost = lost
  BY <1>4
<1>10. Cardinality(PermitsOf(f, S) \ lost) = Cardinality(PermitsOf(f, S)) - Cardinality(PermitsOf(f, S) \cap lost)
  BY <1>8, FS_Difference
<1>. QED
  BY <1>3, <1>7, <1>9, <1>10

-----------------------------------------------------------------------------
(* The counts, the flag and the cleaner *)

CleanerType ==
  [at : {"none", "due", "cleaning"}, diff : Nat, invalid : 0..SubWindows - 1, i : 0..SubWindows]

\* TypeOK, but for the total, which is kept above zero by CountsAgree.
Typing ==
  /\ elapsed \in Nat
  /\ windows \in [Slots -> Nat]
  /\ totalCount \in Int
  /\ clearFlag \in {0, 1}
  /\ pc \in [Callers -> {"idle", "ready", "waiting"}]
  /\ cleaner \in CleanerType
  /\ granted \in [Ages -> Nat]

\* clearFlag belongs to the cleaner, and callers wait only for it.
FlagOK ==
  /\ clearFlag = 1 <=> cleaner.at # "none"
  /\ \A c \in Callers : pc[c] = "waiting" => clearFlag = 1

\* A cleaner is started for a window that has ended, stops where Expire said, and
\* the clock does not run behind the beginning it will set.
DueOK ==
  /\ cleaner.at # "none" =>
       cleaner.diff > WindowsSize /\ cleaner.invalid = InvalidUpTo(cleaner.diff)
  /\ cleaner.at = "due" => elapsed >= cleaner.diff

IInv == Typing /\ FlagOK /\ DueOK /\ WithinPermits /\ CountsAgree

\* A permit is only granted below the limit, and a clean-up only lowers the count.
LEMMA StepKeeps == IInv /\ [Next]_vars => IInv'
<1> SUFFICES ASSUME IInv, [Next]_vars PROVE IInv'
  OBVIOUS
<1>. USE RateAssumption DEF IInv
<1>0. /\ cleaner.at \in {"none", "due", "cleaning"} /\ cleaner.diff \in Nat
      /\ cleaner.invalid \in 0..SubWindows - 1 /\ cleaner.i \in 0..SubWindows
  BY DEF Typing, CleanerType
<1>1. CASE Tick
  <2>1. granted' \in [Ages -> Nat]
    <3>1. ASSUME NEW a \in Ages PROVE (IF a = 0 THEN 0 ELSE granted[a - 1]) \in Nat
      BY DEF Typing, Ages
    <3>. QED
      BY <1>1, <3>1 DEF Tick
  <2>2. elapsed' = elapsed + 1 /\ UNCHANGED <<windows, totalCount, clearFlag, pc, cleaner>>
    BY <1>1 DEF Tick
  <2>3. Typing'
    BY <2>1, <2>2 DEF Typing, CleanerType
  <2>4. FlagOK' /\ WithinPermits' /\ CountsAgree'
    BY <2>2 DEF FlagOK, WithinPermits, CountsAgree
  <2>5. DueOK'
    BY <2>2, <1>0 DEF DueOK, Typing, InvalidUpTo, Index
  <2>. QED
    BY <2>3, <2>4, <2>5
<1>2. CASE CleanerLocks
  <2>1. /\ elapsed' = elapsed - cleaner.diff /\ cleaner.at = "due"
        /\ cleaner' = [cleaner EXCEPT !.at = "cleaning"]
        /\ UNCHANGED <<windows, totalCount, clearFlag, pc, granted>>
    BY <1>2 DEF CleanerLocks
  <2>2. cleaner' \in CleanerType /\ cleaner'.at = "cleaning"
        /\ cleaner'.diff = cleaner.diff /\ cleaner'.invalid = cleaner.invalid
    BY <2>1 DEF Typing, CleanerType
  <2>3. elapsed' \in Nat
    BY <2>1, <1>0 DEF DueOK, Typing
  <2>4. Typing'
    BY <2>1, <2>2, <2>3 DEF Typing
  <2>5. FlagOK' /\ WithinPermits' /\ CountsAgree'
    BY <2>1, <2>2 DEF FlagOK, WithinPermits, CountsAgree
  <2>6. DueOK'
    BY <2>1, <2>2 DEF DueOK, InvalidUpTo, Index
  <2>. QED
    BY <2>4, <2>5, <2>6
<1>3. CASE CleanWindow
  <2>0. /\ cleaner.at = "cleaning" /\ cleaner.i <= cleaner.invalid
        /\ totalCount' = totalCount - windows[cleaner.i]
        /\ windows' = [windows EXCEPT ![cleaner.i] = 0]
        /\ cleaner' = [cleaner EXCEPT !.i = cleaner.i + 1]
        /\ UNCHANGED <<elapsed, clearFlag, pc, granted>>
    BY <1>3 DEF CleanWindow, ResetCount
  <2>1. cleaner.i \in Slots
    BY <2>0, <1>0, SubWindowsHaveSlots
  <2>2. windows[cleaner.i] \in Nat /\ windows' \in [Slots -> Nat]
    BY <2>0, <2>1 DEF Typing
  <2>3. totalCount' \in Int /\ totalCount' <= Permits
    BY <2>0, <2>2 DEF Typing, WithinPermits
  <2>4. cleaner.i + 1 \in 0..SubWindows
    BY <2>0, <1>0
  <2>5. cleaner' \in CleanerType
    BY <2>0, <2>4 DEF Typing, CleanerType
  <2>6. cleaner'.at = cleaner.at /\ cleaner'.diff = cleaner.diff
        /\ cleaner'.invalid = cleaner.invalid
    BY <2>0 DEF Typing, CleanerType
  <2>7. Typing'
    BY <2>0, <2>2, <2>3, <2>5 DEF Typing
  <2>8. FlagOK'
    BY <2>0, <2>6 DEF FlagOK
  <2>9. DueOK'
    BY <2>0, <2>6 DEF DueOK, InvalidUpTo, Index
  <2>10. CountsAgree'
    <3>1. windows \in [Slots -> Nat]
      BY DEF Typing
    <3> DEFINE k == cleaner.i
    <3> HIDE DEF k
    <3>2. k \in Slots /\ windows' = [windows EXCEPT ![k] = 0]
      BY <2>0, <2>1 DEF k
    <3>3. /\ k \in Slots /\ \A h \in Slots : windows[h] \in Nat
          /\ windows'[k] = 0 /\ \A h \in Slots : h # k => windows'[h] = windows[h]
      BY <3>1, <3>2
    <3>4. Cardinality(PermitsOf(windows', Slots))
            = Cardinality(PermitsOf(windows, Slots)) - windows[k]
      BY <3>3, SlotsFinite, PermitsReset
    <3>. QED
      BY <2>0, <3>4 DEF CountsAgree, k
  <2>. QED
    BY <2>3, <2>7, <2>8, <2>9, <2>10 DEF WithinPermits
<1>4. CASE CleanerDone
  <2>1. /\ clearFlag' = 0 /\ cleaner' = NoCleaner /\ pc' = Broadcast
        /\ UNCHANGED <<elapsed, windows, totalCount, granted>>
    BY <1>4 DEF CleanerDone
  <2>2. cleaner' \in CleanerType /\ cleaner'.at = "none"
    BY <2>1 DEF NoCleaner, CleanerType
  <2>3. pc' \in [Callers -> {"idle", "ready", "waiting"}] /\ \A c \in Callers : pc'[c] # "waiting"
    BY <2>1 DEF Broadcast, Typing
  <2>4. Typing'
    BY <2>1, <2>2, <2>3 DEF Typing
  <2>5. FlagOK'
    BY <2>1, <2>2, <2>3 DEF FlagOK
  <2>6. DueOK' /\ WithinPermits' /\ CountsAgree'
    BY <2>1, <2>2 DEF DueOK, WithinPermits, CountsAgree
  <2>. QED
    BY <2>4, <2>5, <2>6
<1>5. CASE \E c \in Callers : Call(c) \/ Wait(c) \/ Grant(c) \/ Refuse(c) \/ Expire(c)
  <2>. PICK c \in Callers : Call(c) \/ Wait(c) \/ Grant(c) \/ Refuse(c) \/ Expire(c)
    BY <1>5
  <2>1. CASE Call(c)
    BY <2>1 DEF Call, Goto, Typing, CleanerType, FlagOK, DueOK, WithinPermits, CountsAgree, InvalidUpTo, Index
  <2>2. CASE Wait(c)
    BY <2>2 DEF Wait, Goto, Typing, CleanerType, FlagOK, DueOK, WithinPermits, CountsAgree, InvalidUpTo, Index
  <2>3. CASE Grant(c)
    <3>0. /\ windows' = [windows EXCEPT ![Index(elapsed)] = @ + 1]
          /\ granted' = [granted EXCEPT ![0] = @ + 1]
          /\ totalCount' = totalCount + 1 /\ totalCount < Permits
          /\ elapsed <= WindowsSize
          /\ UNCHANGED <<elapsed, clearFlag, cleaner>>
          /\ pc' = [pc EXCEPT ![c] = "idle"]
      BY <2>3 DEF Grant, Goto, HasPermit
    <3>1. Index(elapsed) \in Slots
      BY <3>0, MomentHasSlot DEF Typing
    <3>2. windows \in [Slots -> Nat]
      BY DEF Typing
    <3>. DEFINE slot == Index(elapsed)
    <3>. HIDE DEF slot
    <3>3. windows' \in [Slots -> Nat]
      BY <3>0, <3>1, <3>2 DEF slot
    <3>4. CountsAgree'
      <4>0. /\ slot \in Slots /\ \A h \in Slots : windows[h] \in Nat
            /\ windows'[slot] = windows[slot] + 1
            /\ \A h \in Slots : h # slot => windows'[h] = windows[h]
        BY <3>0, <3>1, <3>2 DEF slot
      <4>1. Cardinality(PermitsOf(windows', Slots)) = Cardinality(PermitsOf(windows, Slots)) + 1
        BY <4>0, SlotsFinite, PermitAdded
      <4>. QED
        BY <3>0, <4>1 DEF CountsAgree
    <3>5. granted' \in [Ages -> Nat]
      <4>1. granted \in [Ages -> Nat]
        BY DEF Typing
      <4>2. ASSUME NEW a \in Ages PROVE granted'[a] \in Nat
        BY <3>0, <4>1
      <4>3. granted' = [a \in Ages |-> granted'[a]]
        BY <3>0, <4>1
      <4>. QED
        BY <4>2, <4>3
    <3>6. pc' \in [Callers -> {"idle", "ready", "waiting"}]
      BY <3>0 DEF Typing
    <3>7. totalCount' \in Int /\ totalCount' <= Permits
      BY <3>0 DEF Typing
    <3>8. Typing'
      BY <3>0, <3>3, <3>5, <3>6, <3>7 DEF Typing
    <3>9. FlagOK' /\ DueOK'
      BY <3>0 DEF FlagOK, DueOK, Typing, InvalidUpTo, Index
    <3>. QED
      BY <3>4, <3>7, <3>8, <3>9 DEF WithinPermits
  <2>4. CASE Refuse(c)
    BY <2>4 DEF Refuse, Goto, Typing, CleanerType, FlagOK, DueOK, WithinPermits, CountsAgree, InvalidUpTo, Index
  <2>5. CASE Expire(c)
    <3>0. /\ elapsed > WindowsSize /\ clearFlag' = 1
          /\ cleaner' = [at |-> "due", diff |-> elapsed, invalid |-> InvalidUpTo(elapsed), i |-> 0]
          /\ UNCHANGED <<elapsed, windows, totalCount, pc, granted>>
      BY <2>5 DEF Expire
    <3>1. InvalidUpTo(elapsed) \in 0..SubWindows - 1
      BY InvalidInRange DEF Typing
    <3>2. 0 \in 0..SubWindows /\ elapsed \in Nat
      BY DEF Typing
    <3>3. cleaner' \in CleanerType
      BY <3>0, <3>1, <3>2 DEF CleanerType
    <3>4. /\ cleaner'.at = "due" /\ cleaner'.diff = elapsed
          /\ cleaner'.invalid = InvalidUpTo(elapsed)
      BY <3>0
    <3>5. Typing'
      BY <3>0, <3>3 DEF Typing
    <3>6. FlagOK'
      BY <3>0, <3>4 DEF FlagOK
    <3>7. DueOK'
      BY <3>0, <3>2, <3>4 DEF DueOK, InvalidUpTo, Index
    <3>8. WithinPermits' /\ CountsAgree'
      BY <3>0 DEF WithinPermits, CountsAgree
    <3>. QED
      BY <3>5, <3>6, <3>7, <3>8
  <2>. QED
    BY <2>1, <2>2, <2>3, <2>4, <2>5
<1>6. CASE UNCHANGED vars
  BY <1>6 DEF vars, Typing, CleanerType, FlagOK, DueOK, WithinPermits, CountsAgree, InvalidUpTo, Index
<1>. QED
  BY <1>1, <1>2, <1>3, <1>4, <1>5, <1>6 DEF Next, Clean

\* An empty limiter satisfies the invariant.
LEMMA InitHolds == Init => IInv
<1> SUFFICES ASSUME Init PROVE IInv
  OBVIOUS
<1>1. Typing
  <2>1. 0 \in 0..SubWindows - 1 /\ 0 \in 0..SubWindows
    BY RateAssumption
  <2>2. cleaner \in CleanerType
    BY <2>1 DEF Init, NoCleaner, CleanerType
  <2>. QED
    BY <2>2 DEF Init, Typing
<1>2. FlagOK /\ DueOK /\ WithinPermits
  BY RateAssumption DEF Init, NoCleaner, FlagOK, DueOK, WithinPermits
<1>3. CountsAgree
  <2>1. \A k \in Slots : windows[k] = 0
    BY DEF Init
  <2>2. PermitsOf(windows, Slots) = {}
    <3> SUFFICES ASSUME NEW p \in PermitsOf(windows, Slots) PROVE FALSE
      OBVIOUS
    <3>1. PICK k \in Slots : \E j \in 1..windows[k] : p = <<k, j>>
      BY PermitsMembers
    <3>. QED
      BY <2>1, <3>1
  <2>. QED
    BY <2>2, FS_EmptySet DEF Init, CountsAgree
<1>. QED
  BY <1>1, <1>2, <1>3 DEF IInv

LEMMA Invariance == Spec => []IInv
  BY InitHolds, StepKeeps, PTL DEF Spec

\* The panic of rateLimiter_test.go:63 is out of reach.
THEOREM WithinPermitsHolds == Spec => []WithinPermits
<1>1. IInv => WithinPermits
  BY DEF IInv
<1>. QED
  BY <1>1, Invariance, PTL

\* A caller in cond.Wait has a cleaner under way, whose broadcast is still to
\* come (lines 114-116 and 130-143).
THEOREM WaitersHaveCleaner ==
  Spec => [](\A c \in Callers : pc[c] = "waiting" => cleaner.at # "none")
<1>1. IInv => \A c \in Callers : pc[c] = "waiting" => cleaner.at # "none"
  BY DEF IInv, FlagOK
<1>. QED
  BY <1>1, Invariance, PTL

\* No count goes below zero: the total is the number of the permits that the
\* sub-windows count (lines 124-127 and 137-139).
THEOREM TypeCorrect == Spec => []TypeOK
<1>1. IInv => TypeOK
  <2> SUFFICES ASSUME IInv PROVE TypeOK
    OBVIOUS
  <2>1. \A k \in Slots : windows[k] \in Nat
    BY DEF IInv, Typing
  <2>2. totalCount \in Nat
    BY <2>1, SlotsFinite, PermitsFinite DEF IInv, CountsAgree
  <2>. QED
    BY <2>2 DEF IInv, Typing, TypeOK, CleanerType
<1>. QED
  BY <1>1, Invariance, PTL

\* The total is the sum of the sub-windows, at every step of a clean-up
\* (lines 124-127 and 137-139).
THEOREM CountsAgreeHolds == Spec => []CountsAgree
<1>1. IInv => CountsAgree
  BY DEF IInv
<1>. QED
  BY <1>1, Invariance, PTL

-----------------------------------------------------------------------------
(* The rate *)

\* The period of BoundedRate.
Recent == 0..(SubWindows - 1) * Dist

RecentPermits == PermitsOf(granted, Recent)
CountedPermits == PermitsOf(windows, Slots)

\* The permit f gives each permit of the period: the sub-window counts it that
\* counted the moment of the grant, if the window has not been moved since; and
\* the clean-up under way leaves it alone.
Backs(f) ==
  \A a \in Recent : \A j \in 1..granted[a] :
    /\ a <= elapsed => elapsed - a <= WindowsSize /\ f[<<a, j>>][1] = Index(elapsed - a)
    /\ cleaner.at = "cleaning" => f[<<a, j>>][1] > cleaner.invalid

\* Every permit granted in the period has a permit of its own that is still counted.
Backed == \E f \in Injection(RecentPermits, CountedPermits) : Backs(f)

\* The period of BoundedRate is shorter than the window, and begins with now.
LEMMA RecentAges == Recent \subseteq Ages /\ 0 \in Recent /\ IsFiniteSet(Recent)
<1> DEFINE span == (SubWindows - 1) * Dist
<1>1. span \in Nat /\ span + Dist <= WindowsSize
  BY SubWindowsFit
<1> HIDE DEF span
<1>2. span \in 0..WindowsSize - 1
  BY <1>1, RateAssumption
<1>3. IsFiniteSet(0..span)
  BY <1>1, FS_Interval
<1>. QED
  BY <1>1, <1>2, <1>3, RateAssumption DEF Recent, Ages, span

\* A permit of the period, and what f gives it.
LEMMA RecentMember ==
  ASSUME NEW f \in Injection(RecentPermits, CountedPermits),
         NEW a \in Recent, NEW j \in 1..granted[a]
  PROVE  <<a, j>> \in RecentPermits /\ f[<<a, j>>] \in CountedPermits
<1>1. <<a, j>> \in RecentPermits
  BY PermitsMembers DEF RecentPermits
<1>. QED
  BY <1>1 DEF Injection

\* Nothing the backing is about changes.
LEMMA BackedSame ==
  ASSUME Backed, UNCHANGED <<elapsed, windows, granted>>,
         cleaner'.at = "cleaning" => cleaner.at = "cleaning" /\ cleaner'.invalid = cleaner.invalid
  PROVE  Backed'
<1>1. PICK f \in Injection(RecentPermits, CountedPermits) : Backs(f)
  BY DEF Backed
<1>2. RecentPermits' = RecentPermits /\ CountedPermits' = CountedPermits
  BY DEF RecentPermits, CountedPermits
<1>3. \A a \in Recent : \A j \in 1..granted'[a] :
        /\ a <= elapsed' => elapsed' - a <= WindowsSize /\ f[<<a, j>>][1] = Index(elapsed' - a)
        /\ cleaner'.at = "cleaning" => f[<<a, j>>][1] > cleaner'.invalid
  BY <1>1 DEF Backs
<1>. QED
  BY <1>2, <1>3 DEF Backed, Backs, Index

\* Time passes: every permit grows older by one, and so does the window.
LEMMA BackedTick ==
  ASSUME IInv, Backed, Tick
  PROVE  Backed'
<1>1. PICK f \in Injection(RecentPermits, CountedPermits) : Backs(f)
  BY DEF Backed
<1>2. /\ elapsed' = elapsed + 1 /\ elapsed \in Nat
      /\ granted' = [a \in Ages |-> IF a = 0 THEN 0 ELSE granted[a - 1]]
      /\ UNCHANGED <<windows, cleaner>>
  BY DEF Tick, IInv, Typing
<1> DEFINE older(p) == <<p[1] - 1, p[2]>>
           g == [p \in RecentPermits' |-> f[older(p)]]
<1>3. ASSUME NEW a \in Recent, NEW j \in 1..granted'[a]
      PROVE  a - 1 \in Recent /\ a - 1 \in Nat /\ a \in Nat /\ j \in 1..granted[a - 1] /\ j \in Int
  <2>1. a \in Ages /\ a \in Nat
    BY RecentAges DEF Recent
  <2>2. granted'[a] = IF a = 0 THEN 0 ELSE granted[a - 1]
    BY <1>2, <2>1
  <2>3. a # 0
    BY <2>2
  <2>. DEFINE span == (SubWindows - 1) * Dist
  <2>4. span \in Nat /\ a \in 0..span
    BY SubWindowsFit DEF Recent
  <2>. HIDE DEF span
  <2>5. a - 1 \in 0..span
    BY <2>1, <2>3, <2>4
  <2>. QED
    BY <2>1, <2>2, <2>3, <2>5 DEF Recent, span
<1>4. \A p \in RecentPermits' : \E a \in Recent : \E j \in 1..granted'[a] : p = <<a, j>>
  BY PermitsMembers DEF RecentPermits
<1>5. ASSUME NEW p \in RecentPermits'
      PROVE  /\ older(p) \in RecentPermits /\ p = <<p[1], p[2]>> /\ p[1] \in Int
             /\ g[p] = f[older(p)] /\ f[older(p)] \in CountedPermits
  <2>1. PICK a \in Recent : \E j \in 1..granted'[a] : p = <<a, j>>
    BY <1>4
  <2>2. PICK j \in 1..granted'[a] : p = <<a, j>>
    BY <2>1
  <2>3. older(p) = <<a - 1, j>> /\ a - 1 \in Recent /\ j \in 1..granted[a - 1] /\ a \in Int
    BY <1>3, <2>2
  <2>. QED
    BY <2>2, <2>3, RecentMember
<1> HIDE DEF g
<1>6. CountedPermits' = CountedPermits
  BY <1>2 DEF CountedPermits
<1>7. g \in [RecentPermits' -> CountedPermits']
  <2>1. g = [p \in RecentPermits' |-> f[older(p)]]
    BY DEF g
  <2>. QED
    BY <1>5, <1>6, <2>1
<1>8. ASSUME NEW p \in RecentPermits', NEW q \in RecentPermits', g[p] = g[q]
      PROVE  p = q
  <2>1. older(p) \in RecentPermits /\ older(q) \in RecentPermits /\ f[older(p)] = f[older(q)]
    BY <1>5, <1>8
  <2>2. \A x, y \in RecentPermits : f[x] = f[y] => x = y
    BY DEF Injection, IsInjective
  <2>3. <<p[1] - 1, p[2]>> = <<q[1] - 1, q[2]>>
    BY <2>1, <2>2
  <2>4. p[1] \in Int /\ q[1] \in Int /\ p = <<p[1], p[2]>> /\ q = <<q[1], q[2]>>
    BY <1>5
  <2>5. p[1] - 1 = q[1] - 1 /\ p[2] = q[2]
    BY <2>3
  <2>6. p[1] = q[1]
    BY <2>4, <2>5
  <2>. QED
    BY <2>4, <2>5, <2>6
<1>9. g \in Injection(RecentPermits', CountedPermits')
  BY <1>7, <1>8 DEF Injection, IsInjective
<1>10. ASSUME NEW a \in Recent, NEW j \in 1..granted'[a]
       PROVE  /\ a <= elapsed' =>
                   elapsed' - a <= WindowsSize /\ g[<<a, j>>][1] = Index(elapsed' - a)
              /\ cleaner'.at = "cleaning" => g[<<a, j>>][1] > cleaner'.invalid
  <2>1. a - 1 \in Recent /\ a - 1 \in Nat /\ a \in Nat /\ j \in 1..granted[a - 1]
    BY <1>3
  <2>2. <<a, j>> \in RecentPermits'
    BY PermitsMembers DEF RecentPermits
  <2>3. g[<<a, j>>] = f[<<a - 1, j>>]
    BY <2>2, <1>5
  <2>4. /\ a - 1 <= elapsed => elapsed - (a - 1) <= WindowsSize /\ f[<<a - 1, j>>][1] = Index(elapsed - (a - 1))
        /\ cleaner.at = "cleaning" => f[<<a - 1, j>>][1] > cleaner.invalid
    BY <1>1, <2>1 DEF Backs
  <2>5. elapsed' - a = elapsed - (a - 1) /\ (a <= elapsed' => a - 1 <= elapsed)
    BY <1>2, <2>1
  <2>. QED
    BY <1>2, <2>3, <2>4, <2>5
<1>. QED
  BY <1>9, <1>10 DEF Backed, Backs, Index
\* A grant is counted at the moment it is made.
LEMMA BackedGrant ==
  ASSUME IInv, Backed, NEW c \in Callers, Grant(c)
  PROVE  Backed'
<1>1. PICK f \in Injection(RecentPermits, CountedPermits) : Backs(f)
  BY DEF Backed
<1>2. /\ windows' = [windows EXCEPT ![Index(elapsed)] = @ + 1]
      /\ granted' = [granted EXCEPT ![0] = @ + 1]
      /\ elapsed <= WindowsSize /\ elapsed \in Nat
      /\ UNCHANGED <<elapsed, cleaner>> /\ cleaner.at # "cleaning"
  BY DEF Grant, Enters, IInv, Typing
<1>3. /\ windows \in [Slots -> Nat] /\ granted \in [Ages -> Nat]
      /\ Index(elapsed) \in Slots
  BY <1>2, MomentHasSlot DEF IInv, Typing
<1> DEFINE slot == Index(elapsed)
           new == <<0, granted[0] + 1>>
           counted == <<slot, windows[slot] + 1>>
           g == [p \in RecentPermits' |-> IF p = new THEN counted ELSE f[p]]
<1> HIDE DEF slot
<1>4. RecentPermits' = RecentPermits \cup {new} /\ new \notin RecentPermits
  <2>1. /\ \A h \in Recent : granted[h] \in Nat
        /\ granted'[0] = granted[0] + 1 /\ \A h \in Recent : h # 0 => granted'[h] = granted[h]
    BY <1>2, <1>3, RecentAges
  <2>. QED
    BY <2>1, RecentAges, PermitAdded DEF RecentPermits
<1>5. CountedPermits' = CountedPermits \cup {counted} /\ counted \notin CountedPermits
  <2>1. slot \in Slots /\ windows' = [windows EXCEPT ![slot] = @ + 1]
    BY <1>2, <1>3 DEF slot
  <2>2. /\ slot \in Slots /\ \A h \in Slots : windows[h] \in Nat
        /\ windows'[slot] = windows[slot] + 1 /\ \A h \in Slots : h # slot => windows'[h] = windows[h]
    BY <1>3, <2>1
  <2>. QED
    BY <2>2, SlotsFinite, PermitAdded DEF CountedPermits
<1>6. f \in [RecentPermits -> CountedPermits] /\ \A x, y \in RecentPermits : f[x] = f[y] => x = y
  BY DEF Injection, IsInjective
<1> HIDE DEF new, counted
<1>7. g \in Injection(RecentPermits', CountedPermits')
  <2>1. g \in [RecentPermits' -> CountedPermits']
    BY <1>4, <1>5, <1>6
  <2>2. ASSUME NEW p \in RecentPermits', NEW q \in RecentPermits', g[p] = g[q]
        PROVE  p = q
    <3>1. CASE p = new \/ q = new
      BY <1>4, <1>5, <1>6, <2>2, <3>1
    <3>2. CASE p # new /\ q # new
      BY <1>4, <1>6, <2>2, <3>2
    <3>. QED
      BY <3>1, <3>2
  <2>. QED
    BY <2>1, <2>2 DEF Injection, IsInjective
<1>8. ASSUME NEW a \in Recent, NEW j \in 1..granted'[a]
      PROVE  /\ a <= elapsed' =>
                  elapsed' - a <= WindowsSize /\ g[<<a, j>>][1] = Index(elapsed' - a)
             /\ cleaner'.at = "cleaning" => g[<<a, j>>][1] > cleaner'.invalid
  <2>1. <<a, j>> \in RecentPermits'
    BY PermitsMembers DEF RecentPermits
  <2>2. CASE <<a, j>> = new
    <3>1. a = 0 /\ g[<<a, j>>] = counted
      BY <2>1, <2>2 DEF new
    <3>2. elapsed' - a = elapsed
      BY <1>2, <3>1
    <3>. QED
      BY <1>2, <3>1, <3>2 DEF counted, slot
  <2>3. CASE <<a, j>> # new
    <3>1. <<a, j>> \in RecentPermits /\ g[<<a, j>>] = f[<<a, j>>]
      BY <1>4, <2>1, <2>3
    <3>2. PICK b \in Recent : \E i \in 1..granted[b] : <<a, j>> = <<b, i>>
      BY <3>1, PermitsMembers DEF RecentPermits
    <3>3. j \in 1..granted[a]
      BY <3>2
    <3>. QED
      BY <1>1, <1>2, <3>1, <3>3 DEF Backs
  <2>. QED
    BY <2>2, <2>3
<1>. QED
  BY <1>7, <1>8 DEF Backed, Backs, Index

\* When a clean-up begins, the permits of the period lie in later sub-windows
\* than the one at which it will stop.
LEMMA BackedLocks ==
  ASSUME IInv, Backed, CleanerLocks
  PROVE  Backed'
<1>1. PICK f \in Injection(RecentPermits, CountedPermits) : Backs(f)
  BY DEF Backed
<1>2. /\ cleaner.at = "due" /\ elapsed' = elapsed - cleaner.diff
      /\ cleaner.diff \in Nat /\ cleaner'.invalid = cleaner.invalid
      /\ UNCHANGED <<windows, granted>>
  BY DEF CleanerLocks, IInv, Typing, CleanerType
<1>3. /\ cleaner.diff > WindowsSize /\ elapsed >= cleaner.diff /\ elapsed \in Nat
      /\ cleaner.invalid = Index(cleaner.diff) % SubWindows
  BY <1>2 DEF IInv, DueOK, InvalidUpTo, Typing
<1> DEFINE diff == cleaner.diff
           span == (SubWindows - 1) * Dist
<1>4. /\ diff \in Nat /\ diff > WindowsSize /\ elapsed >= diff /\ elapsed' = elapsed - diff
      /\ cleaner.invalid = Index(diff) % SubWindows
  BY <1>2, <1>3
<1>5. span \in Nat /\ span + Dist <= WindowsSize /\ WindowsSize \in Nat /\ Dist \in Nat \ {0}
  BY SubWindowsFit, RateAssumption
<1>6. SubWindows \in Nat \ {0} /\ SubWindows - 1 \in Nat
  BY RateAssumption
<1>7. Index(diff) \in Nat /\ Index(diff) >= SubWindows
  BY <1>4, OverIndex
<1> HIDE DEF diff
<1>8. ASSUME NEW a \in Recent, NEW j \in 1..granted[a]
      PROVE  ~(a <= elapsed') /\ f[<<a, j>>][1] > cleaner.invalid
  <2>1. a \in Nat /\ a <= span
    BY <1>5 DEF Recent
  <2>. HIDE DEF span
  <2>2. a <= elapsed
    BY <1>3, <1>4, <1>5, <2>1
  <2>3. elapsed - a <= WindowsSize /\ f[<<a, j>>][1] = Index(elapsed - a) /\ elapsed - a \in Nat
    BY <1>1, <1>3, <2>1, <2>2 DEF Backs
  <2>4. ~(a <= elapsed')
    BY <1>3, <1>4, <1>5, <2>1, <2>3
  <2>5. diff <= (elapsed - a) + span
    BY <1>3, <1>4, <2>1, <1>5
  <2>6. Index(elapsed - a) \in Nat /\ Index(diff) <= Index(elapsed - a) + (SubWindows - 1)
    BY <1>4, <1>6, <2>3, <2>5, IndexAdvances DEF span
  <2>7. Index(diff) % SubWindows <= Index(diff) - SubWindows /\ Index(diff) % SubWindows \in Nat
    BY <1>6, <1>7, Remainder
  <2>. QED
    BY <1>4, <1>6, <1>7, <2>3, <2>4, <2>6, <2>7
<1>9. RecentPermits' = RecentPermits /\ CountedPermits' = CountedPermits
  BY <1>2 DEF RecentPermits, CountedPermits
<1>10. Backs(f)'
  BY <1>2, <1>8 DEF Backs
<1>. QED
  BY <1>9, <1>10 DEF Backed

\* The clean-up takes no permit that backs one of the period.
LEMMA BackedClean ==
  ASSUME IInv, Backed, CleanWindow
  PROVE  Backed'
<1>1. PICK f \in Injection(RecentPermits, CountedPermits) : Backs(f)
  BY DEF Backed
<1> DEFINE k == cleaner.i
<1>2. /\ cleaner.at = "cleaning" /\ k <= cleaner.invalid
      /\ windows' = [windows EXCEPT ![k] = 0]
      /\ cleaner'.at = cleaner.at /\ cleaner'.invalid = cleaner.invalid
      /\ UNCHANGED <<elapsed, granted>>
      /\ windows \in [Slots -> Nat]
      /\ k \in Nat /\ cleaner.invalid \in 0..SubWindows - 1
  BY RateAssumption DEF CleanWindow, ResetCount, IInv, Typing, CleanerType
<1>3. k \in Slots
  BY <1>2, SubWindowsHaveSlots, RateAssumption
<1> HIDE DEF k
<1>4. CountedPermits' = CountedPermits \ ({k} \X (1..windows[k]))
  <2>1. /\ \A h \in Slots : windows[h] \in Nat
        /\ windows'[k] = 0 /\ \A h \in Slots : h # k => windows'[h] = windows[h]
    BY <1>2, <1>3
  <2>. QED
    BY <1>3, <2>1, SlotsFinite, PermitsReset DEF CountedPermits
<1>5. RecentPermits' = RecentPermits
  BY <1>2 DEF RecentPermits
<1>6. ASSUME NEW p \in RecentPermits PROVE f[p] \in CountedPermits'
  <2>1. PICK a \in Recent : \E j \in 1..granted[a] : p = <<a, j>>
    BY PermitsMembers DEF RecentPermits
  <2>2. PICK j \in 1..granted[a] : p = <<a, j>>
    BY <2>1
  <2>3. f[p] \in CountedPermits /\ f[p][1] > cleaner.invalid
    BY <1>1, <1>2, <2>2, RecentMember DEF Backs
  <2>4. f[p][1] # k
    BY <1>2, <2>3
  <2>. QED
    BY <1>4, <2>3, <2>4
<1>7. f \in Injection(RecentPermits', CountedPermits')
  BY <1>5, <1>6 DEF Injection, IsInjective
<1>8. Backs(f)'
  BY <1>1, <1>2 DEF Backs, Index
<1>. QED
  BY <1>7, <1>8 DEF Backed

\* Every step keeps the backing.
LEMMA BackedStep == IInv /\ Backed /\ [Next]_vars => Backed'
<1> SUFFICES ASSUME IInv, Backed, [Next]_vars PROVE Backed'
  OBVIOUS
<1>1. CASE CleanerDone
  BY <1>1, BackedSame DEF CleanerDone, NoCleaner
<1>2. CASE \E c \in Callers : Call(c) \/ Wait(c) \/ Grant(c) \/ Refuse(c) \/ Expire(c)
  BY <1>2, BackedSame, BackedGrant DEF Call, Wait, Refuse, Expire
<1>3. CASE UNCHANGED vars
  BY <1>3, BackedSame DEF vars
<1>. QED
  BY <1>1, <1>2, <1>3, BackedTick, BackedLocks, BackedClean DEF Next, Clean

\* An empty limiter has no permit to back.
LEMMA BackedInit == Init => Backed
<1> SUFFICES ASSUME Init PROVE Backed
  OBVIOUS
<1>1. ASSUME NEW p \in RecentPermits PROVE FALSE
  <2>1. PICK a \in Recent : \E j \in 1..granted[a] : p = <<a, j>>
    BY PermitsMembers DEF RecentPermits
  <2>2. granted[a] = 0
    BY RecentAges DEF Init
  <2>. QED
    BY <2>1, <2>2
<1> DEFINE none == [p \in RecentPermits |-> p]
<1>2. none \in Injection(RecentPermits, CountedPermits)
  BY <1>1 DEF Injection, IsInjective
<1>3. ASSUME NEW a \in Recent, NEW j \in 1..granted[a] PROVE FALSE
  <2>1. <<a, j>> \in RecentPermits
    BY PermitsMembers DEF RecentPermits
  <2>. QED
    BY <1>1, <2>1
<1>4. Backs(none)
  BY <1>3 DEF Backs
<1>. QED
  BY <1>2, <1>4 DEF Backed

\* At most permitsPerWindows permits in any period one sub-window shorter than
\* the window: their backing is counted in totalCount (lines 112-141).
THEOREM BoundedRateHolds == Spec => []BoundedRate
<1>1. IInv /\ Backed => BoundedRate
  <2> SUFFICES ASSUME IInv, Backed PROVE BoundedRate
    OBVIOUS
  <2>1. PICK f \in Injection(RecentPermits, CountedPermits) : TRUE
    BY DEF Backed
  <2>2. IsFiniteSet(CountedPermits) /\ IsFiniteSet(RecentPermits)
    <3>1. \A k \in Slots : windows[k] \in Nat
      BY DEF IInv, Typing
    <3>2. \A a \in Recent : granted[a] \in Nat
      BY RecentAges DEF IInv, Typing
    <3>. QED
      BY <3>1, <3>2, SlotsFinite, RecentAges, PermitsFinite DEF CountedPermits, RecentPermits
  <2>3. /\ Cardinality(RecentPermits) <= Cardinality(CountedPermits)
        /\ Cardinality(RecentPermits) \in Nat /\ Cardinality(CountedPermits) \in Nat
    BY <2>1, <2>2, FS_Injection, FS_CardinalityType
  <2>4. Cardinality(CountedPermits) <= Permits
    BY DEF IInv, CountsAgree, WithinPermits, CountedPermits
  <2>5. GrantedWithin(0..(SubWindows - 1) * Dist) = Cardinality(RecentPermits)
    BY DEF GrantedWithin, RecentPermits, Recent
  <2>. QED
    BY <2>3, <2>4, <2>5, RateAssumption DEF BoundedRate
<1>2. Spec => []Backed
  BY BackedInit, BackedStep, InitHolds, StepKeeps, PTL DEF Spec
<1>. QED
  BY <1>1, <1>2, Invariance, PTL
=============================================================================
