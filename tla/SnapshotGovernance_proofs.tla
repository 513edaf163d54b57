---------------------- MODULE SnapshotGovernance_proofs ----------------------
(***************************************************************************)
(* Theorems about snapshots and votes, and about the register that batches *)
(* and single shares both write, with every call of the money path in      *)
(* between.                                                                *)
(***************************************************************************)
EXTENDS SnapshotGovernance, MoneyPath_proofs

-----------------------------------------------------------------------------
(***************************************************************************)
(* The register along a batch                                              *)
(***************************************************************************)

RegisterBefore(o) == [share |-> share[o], total |-> shareTotal[o], schedule |-> schedule[o]]

\* The register after one more write.
RegisterAfter(o, old, write) ==
  [share |-> [old.share EXCEPT ![write.holder] = write.bps],
   total |-> SubOrZero(old.total, old.share[write.holder]) + write.bps,
   schedule |-> [old.schedule EXCEPT ![write.holder] =
     record_holder_share_transition(@, Len(periods[o]), old.share[write.holder], write.bps)]]

\* reg is the register of o after each of the first n writes of the batch.
Follows(reg, o, batch, n) ==
  reg = [k \in 0 .. n |->
           IF k = 0 THEN RegisterBefore(o) ELSE RegisterAfter(o, reg[k - 1], batch[k])]

LEMMA RegisterIsTheSolution ==
  ASSUME NEW o, NEW batch
  PROVE  Register(o, batch) = CHOOSE reg : Follows(reg, o, batch, Len(batch))
BY DEF Register, Follows, RegisterBefore, RegisterAfter

\* The recursion has a solution.
LEMMA RegisterExists ==
  ASSUME NEW o, NEW batch, NEW n \in Nat
  PROVE  \E reg : Follows(reg, o, batch, n)
<1> DEFINE S == {k \in 0 .. n : \E reg : Follows(reg, o, batch, k)}
<1>1. 0 \in S
  <2> DEFINE reg == [k \in 0 .. 0 |-> RegisterBefore(o)]
  <2>1. Follows(reg, o, batch, 0)
    BY DEF Follows
  <2> QED
    BY <2>1
<1>2. ASSUME NEW k \in 0 .. n - 1, k \in S
      PROVE  k + 1 \in S
  <2>1. PICK old : Follows(old, o, batch, k)
    BY <1>2
  <2> DEFINE reg == [i \in 0 .. k + 1 |->
                       IF i = k + 1 THEN RegisterAfter(o, old[k], batch[k + 1]) ELSE old[i]]
  <2>2. ASSUME NEW i \in 0 .. k + 1
        PROVE  reg[i] = IF i = 0 THEN RegisterBefore(o) ELSE RegisterAfter(o, reg[i - 1], batch[i])
    <3>1. \A j \in 0 .. k : reg[j] = old[j]
      OBVIOUS
    <3>2. CASE i = k + 1
      <4>1. i # 0 /\ i - 1 = k /\ k \in 0 .. k
        BY <3>2
      <4>2. reg[i] = RegisterAfter(o, old[k], batch[i])
        BY <3>2
      <4> HIDE DEF reg
      <4> QED
        BY <3>1, <4>1, <4>2
    <3>3. CASE i # k + 1
      <4>1. i \in 0 .. k /\ reg[i] = old[i]
        BY <3>3
      <4>2. old[i] = IF i = 0 THEN RegisterBefore(o) ELSE RegisterAfter(o, old[i - 1], batch[i])
        BY <2>1, <4>1 DEF Follows
      <4>3. i # 0 => i - 1 \in 0 .. k
        BY <4>1
      <4> HIDE DEF reg
      <4> QED
        BY <3>1, <4>1, <4>2, <4>3
    <3> QED
      BY <3>2, <3>3
  <2>3. reg = [i \in 0 .. k + 1 |-> reg[i]]
    OBVIOUS
  <2> HIDE DEF reg
  <2>4. Follows(reg, o, batch, k + 1)
    BY <2>2, <2>3 DEF Follows
  <2> QED
    BY <2>4
<1> HIDE DEF S
<1>3. n \in S
  BY <1>1, <1>2, CountingUp
<1> QED
  BY <1>3 DEF S

\* What Register computes, write by write.
LEMMA RegisterUnfolds ==
  ASSUME NEW o, NEW batch, Len(batch) \in Nat
  PROVE  /\ Register(o, batch)[0] = RegisterBefore(o)
         /\ \A k \in 1 .. Len(batch) :
              Register(o, batch)[k] = RegisterAfter(o, Register(o, batch)[k - 1], batch[k])
<1> DEFINE reg == Register(o, batch)
<1>1. Follows(reg, o, batch, Len(batch))
  BY RegisterExists, RegisterIsTheSolution
<1> HIDE DEF reg
<1>2. ASSUME NEW k \in 0 .. Len(batch)
      PROVE  reg[k] = IF k = 0 THEN RegisterBefore(o) ELSE RegisterAfter(o, reg[k - 1], batch[k])
  BY <1>1 DEF Follows
<1> QED
  BY <1>2 DEF reg

\* The shares are within 100% each, their total is their sum, and every
\* schedule can price a period.
RegisterOK(reg) ==
  /\ reg.share \in [Holders -> 0..FULL_BPS]
  /\ reg.total \in Nat /\ reg.total = SumFunction(reg.share)
  /\ DOMAIN reg.schedule = Holders
  /\ \A h \in Holders : IsSchedule(reg.schedule[h])

\* One write keeps the register, and the total follows the share: it never
\* falls back to 0, because it covers the share it drops.
LEMMA RegisterAfterOK ==
  ASSUME NEW o, Len(periods[o]) \in 0..MaxPeriods,
         NEW old, RegisterOK(old), NEW write \in Write, write.bps <= FULL_BPS
  PROVE  /\ RegisterOK(RegisterAfter(o, old, write))
         /\ RegisterAfter(o, old, write).total = old.total - old.share[write.holder] + write.bps
<1> DEFINE h == write.holder
           bps == write.bps
           new == RegisterAfter(o, old, write)
           f == old.share
<1>1. h \in Holders /\ bps \in Nat /\ FULL_BPS \in Nat
  BY DEF Write, FULL_BPS
<1>2. bps \in 0..FULL_BPS
  BY <1>1
<1>3. f \in [Holders -> 0..FULL_BPS] /\ old.total = SumFunction(f) /\ old.total \in Nat
  BY DEF RegisterOK
<1>4. f[h] \in 0..FULL_BPS /\ f[h] \in Nat
  BY <1>1, <1>3
<1>5. f[h] <= old.total /\ SumFunction([f EXCEPT ![h] = bps]) = old.total - f[h] + bps
  <2> DEFINE total == old.total
  <2>1. f \in [Holders -> 0..FULL_BPS] /\ total = SumFunction(f)
    BY <1>3
  <2> HIDE DEF f, h, bps, total
  <2>2. f[h] <= total /\ SumFunction([f EXCEPT ![h] = bps]) = total - f[h] + bps
    BY <1>1, <2>1, RegisterSum
  <2> QED
    BY <2>2 DEF total
<1>6. /\ new.share = [f EXCEPT ![h] = bps]
      /\ new.total = SubOrZero(old.total, f[h]) + bps
      /\ new.schedule = [old.schedule EXCEPT ![h] =
           record_holder_share_transition(old.schedule[h], Len(periods[o]), f[h], bps)]
  BY DEF RegisterAfter
<1>7. new.total = old.total - f[h] + bps /\ new.total \in Nat
  BY <1>1, <1>3, <1>4, <1>5, <1>6 DEF SubOrZero
<1>8. new.share \in [Holders -> 0..FULL_BPS]
  BY <1>1, <1>2, <1>3, <1>6
<1>9. DOMAIN new.schedule = Holders /\ \A k \in Holders : IsSchedule(new.schedule[k])
  <2>1. DOMAIN old.schedule = Holders /\ \A k \in Holders : IsSchedule(old.schedule[k])
    BY DEF RegisterOK
  <2> DEFINE sched == record_holder_share_transition(old.schedule[h], Len(periods[o]), f[h], bps)
  <2>2. IsSchedule(sched)
    <3>1. IsSchedule(old.schedule[h])
      BY <1>1, <2>1
    <3> HIDE DEF f, h, bps
    <3> QED
      BY <1>2, <1>4, <3>1, TransitionType
  <2> HIDE DEF sched, new
  <2>3. new.schedule = [old.schedule EXCEPT ![h] = sched]
    BY <1>6 DEF sched
  <2> QED
    BY <1>1, <2>1, <2>2, <2>3
<1> HIDE DEF new, f, h, bps
<1> QED
  BY <1>5, <1>6, <1>7, <1>8, <1>9 DEF RegisterOK, new, f, h, bps

\* The register is in order before the batch and after each of its writes.
LEMMA RegisterAlongBatch ==
  ASSUME TypeOK, RunningTotals, NEW o \in Offerings, NEW batch \in Seq(Write),
         \A k \in DOMAIN batch : batch[k].bps <= FULL_BPS
  PROVE  \A k \in 0 .. Len(batch) : RegisterOK(Register(o, batch)[k])
<1> DEFINE reg == Register(o, batch)
           n == Len(batch)
           S == {k \in 0 .. n : RegisterOK(reg[k])}
<1>1. n \in Nat /\ DOMAIN batch = 1 .. n /\ \A k \in 1 .. n : batch[k] \in Write
  OBVIOUS
<1>2. reg[0] = RegisterBefore(o) /\ \A k \in 1 .. n : reg[k] = RegisterAfter(o, reg[k - 1], batch[k])
  BY <1>1, RegisterUnfolds
<1>3. Len(periods[o]) \in 0..MaxPeriods
  BY PositiveLimits DEF TypeOK, PoolTypeOK
<1> HIDE DEF reg, n
<1>4. 0 \in S
  <2>1. FULL_BPS \in Nat
    BY DEF FULL_BPS
  <2>2. share[o] \in [Holders -> 0..FULL_BPS] /\ shareTotal[o] \in 0..FULL_BPS
    BY DEF TypeOK, RegisterTypeOK
  <2>3. shareTotal[o] \in Nat /\ shareTotal[o] = SumFunction(share[o])
    BY <2>1, <2>2 DEF RunningTotals
  <2>4. DOMAIN schedule[o] = Holders /\ \A h \in Holders : IsSchedule(schedule[o][h])
    BY DEF TypeOK, RegisterTypeOK, SchedulesTypeOK
  <2>5. RegisterOK(RegisterBefore(o))
    BY <2>2, <2>3, <2>4 DEF RegisterOK, RegisterBefore
  <2> QED
    BY <1>1, <1>2, <2>5
<1>5. ASSUME NEW k \in 0 .. n - 1, k \in S
      PROVE  k + 1 \in S
  <2>1. k + 1 \in 1 .. n /\ k + 1 \in 0 .. n /\ k + 1 - 1 = k
    BY <1>1
  <2>2. reg[k + 1] = RegisterAfter(o, reg[k], batch[k + 1])
    BY <1>2, <2>1
  <2>3. batch[k + 1] \in Write /\ batch[k + 1].bps <= FULL_BPS
    BY <1>1, <2>1
  <2>4. RegisterOK(reg[k])
    BY <1>5
  <2>5. RegisterOK(reg[k + 1])
    BY <1>3, <2>2, <2>3, <2>4, RegisterAfterOK
  <2> QED
    BY <2>1, <2>5
<1> HIDE DEF S
<1>6. \A k \in 0 .. n : k \in S
  BY <1>1, <1>4, <1>5, CountingUp
<1> QED
  BY <1>6 DEF S, n, reg

NoRepeats(batch) == \A i, j \in DOMAIN batch : batch[i].holder = batch[j].holder => i = j

\* A batch that names nobody twice moves the total by its differences to the
\* shares before the batch.
LEMMA TotalOfDistinct ==
  ASSUME TypeOK, RunningTotals, NEW o \in Offerings, NEW batch \in Seq(Write),
         \A k \in DOMAIN batch : batch[k].bps <= FULL_BPS, NoRepeats(batch)
  PROVE  LET d == [k \in DOMAIN batch |-> batch[k].bps - share[o][batch[k].holder]]
         IN  /\ Register(o, batch)[Len(batch)].total = shareTotal[o] + SumFunction(d)
             /\ SumFunction(d) \in Int
<1> DEFINE reg == Register(o, batch)
           n == Len(batch)
           d == [k \in DOMAIN batch |-> batch[k].bps - share[o][batch[k].holder]]
           Untouched(k) == \A j \in k + 1 .. n : reg[k].share[batch[j].holder] = share[o][batch[j].holder]
           S == {k \in 0 .. n : /\ reg[k].total = shareTotal[o] + SumFunctionOnSet(d, 1 .. k)
                                /\ Untouched(k)}
<1>1. n \in Nat /\ DOMAIN batch = 1 .. n /\ \A k \in 1 .. n : batch[k] \in Write
  OBVIOUS
<1>2. reg[0] = RegisterBefore(o) /\ \A k \in 1 .. n : reg[k] = RegisterAfter(o, reg[k - 1], batch[k])
  BY <1>1, RegisterUnfolds
<1>3. \A k \in 0 .. n : RegisterOK(reg[k])
  BY RegisterAlongBatch
<1>4. Len(periods[o]) \in 0..MaxPeriods
  BY PositiveLimits DEF TypeOK, PoolTypeOK
<1>5. FULL_BPS \in Nat
  BY DEF FULL_BPS
<1>6. shareTotal[o] \in Int /\ \A h \in Holders : share[o][h] \in Int
  <2>1. share[o] \in [Holders -> 0..FULL_BPS] /\ shareTotal[o] \in 0..FULL_BPS
    BY DEF TypeOK, RegisterTypeOK
  <2> QED
    BY <1>5, <2>1
<1>7. \A k \in 1 .. n : /\ batch[k].holder \in Holders /\ batch[k].bps \in Int
                        /\ d[k] = batch[k].bps - share[o][batch[k].holder] /\ d[k] \in Int
  BY <1>1, <1>6 DEF Write
<1>8. DOMAIN d = 1 .. n
  BY <1>1
<1>9. ASSUME NEW k \in 0 .. n PROVE SumFunctionOnSet(d, 1 .. k) \in Int
  <2>1. IsFiniteSet(1 .. k) /\ \A i \in 1 .. k : d[i] \in Int
    BY <1>1, <1>7, RangeIsFinite
  <2> HIDE DEF d
  <2> QED
    BY <2>1, SumIsInt
<1> HIDE DEF reg, n, d
<1>10. 0 \in S
  <2>1. 1 .. 0 = {}
    OBVIOUS
  <2>2. SumFunctionOnSet(d, 1 .. 0) = 0
    BY <2>1, SumOfNone
  <2>3. Untouched(0) /\ reg[0].total = shareTotal[o]
    BY <1>2 DEF RegisterBefore
  <2> QED
    BY <1>1, <1>6, <2>2, <2>3
<1>11. ASSUME NEW k \in 0 .. n - 1, k \in S
       PROVE  k + 1 \in S
  <2>1. /\ k + 1 \in 1 .. n /\ k + 1 \in 0 .. n /\ k \in 0 .. n /\ k \in Nat
        /\ k + 1 - 1 = k /\ k + 1 \in k + 1 .. n
    BY <1>1
  <2> DEFINE w == batch[k + 1]
  <2>2. w \in Write /\ w.bps <= FULL_BPS
    BY <1>1, <2>1
  <2>3. reg[k + 1] = RegisterAfter(o, reg[k], w)
    BY <1>2, <2>1
  <2>4. Untouched(k) /\ reg[k].total = shareTotal[o] + SumFunctionOnSet(d, 1 .. k)
    BY <1>11
  <2>5. reg[k].share[w.holder] = share[o][w.holder]
    BY <2>1, <2>4
  <2>6. reg[k + 1].total = reg[k].total - share[o][w.holder] + w.bps
    <3>1. RegisterOK(reg[k])
      BY <1>3, <2>1
    <3>2. reg[k + 1].total = reg[k].total - reg[k].share[w.holder] + w.bps
      <4> HIDE DEF w
      <4> QED
        BY <1>4, <2>2, <2>3, <3>1, RegisterAfterOK
    <3> QED
      BY <2>5, <3>2
  <2>7. SumFunctionOnSet(d, 1 .. k + 1) = SumFunctionOnSet(d, 1 .. k) + d[k + 1]
    <3>1. /\ IsFiniteSet(1 .. k) /\ k + 1 \notin 1 .. k
          /\ 1 .. k + 1 = (1 .. k) \cup {k + 1}
      BY <2>1, RangeIsFinite
    <3>2. (\A i \in 1 .. k : d[i] \in Int) /\ d[k + 1] \in Int
      BY <1>1, <1>7, <2>1
    <3>3. SumFunctionOnSet(d, (1 .. k) \cup {k + 1}) = SumFunctionOnSet(d, 1 .. k) + d[k + 1]
      <4> DEFINE A == 1 .. k
                 x == k + 1
      <4>1. /\ IsFiniteSet(A) /\ x \notin A
            /\ (\A i \in A : d[i] \in Int /\ d[i] = d[i]) /\ d[x] \in Int
        BY <3>1, <3>2
      <4> HIDE DEF A, x
      <4>2. SumFunctionOnSet(d, A \cup {x}) = SumFunctionOnSet(d, A) + d[x]
        BY <4>1, SumOfExtension
      <4> QED
        BY <4>2 DEF A, x
    <3> QED
      BY <3>1, <3>3, Zenon
  <2>8. reg[k + 1].total = shareTotal[o] + SumFunctionOnSet(d, 1 .. k + 1)
    <3>1. SumFunctionOnSet(d, 1 .. k) \in Int
      BY <1>9, <2>1
    <3>2. d[k + 1] = w.bps - share[o][w.holder] /\ w.bps \in Int /\ share[o][w.holder] \in Int
      BY <1>6, <1>7, <2>1
    <3> QED
      BY <1>6, <2>4, <2>6, <2>7, <3>1, <3>2
  <2>9. ASSUME NEW j \in k + 1 + 1 .. n
        PROVE  reg[k + 1].share[batch[j].holder] = share[o][batch[j].holder]
    <3>1. j \in 1 .. n /\ j \in k + 1 .. n /\ j # k + 1
      BY <1>1, <2>1
    <3>2. batch[j].holder # w.holder /\ batch[j].holder \in Holders
      BY <1>1, <1>7, <2>1, <3>1 DEF NoRepeats
    <3>3. reg[k + 1].share = [reg[k].share EXCEPT ![w.holder] = w.bps]
      BY <2>3 DEF RegisterAfter
    <3>4. DOMAIN reg[k].share = Holders
      BY <1>3, <2>1 DEF RegisterOK
    <3>5. reg[k + 1].share[batch[j].holder] = reg[k].share[batch[j].holder]
      BY <3>2, <3>3, <3>4
    <3> QED
      BY <2>4, <3>1, <3>5
  <2> QED
    BY <2>1, <2>8, <2>9
<1> HIDE DEF S
<1>12. n \in S
  <2>1. \A k \in 0 .. n : k \in S
    BY <1>1, <1>10, <1>11, CountingUp
  <2> QED
    BY <1>1, <2>1
<1>13. SumFunctionOnSet(d, 1 .. n) \in Int /\ SumFunction(d) = SumFunctionOnSet(d, 1 .. n)
  BY <1>1, <1>8, <1>9 DEF SumFunction
<1>14. reg[n].total = shareTotal[o] + SumFunctionOnSet(d, 1 .. n)
  BY <1>12 DEF S
<1> QED
  BY <1>13, <1>14 DEF reg, n, d

-----------------------------------------------------------------------------
(***************************************************************************)
(* A batch and the register                                                *)
(***************************************************************************)

\* What a successful batch has passed, and what it writes to the register.
LEMMA BatchApplied ==
  ASSUME TypeOK, RunningTotals, NEW o \in Offerings, NEW ref, NEW start, NEW batch \in Batches,
         apply_snapshot_shares(o, ref, start, batch)
  PROVE  LET after == Register(o, batch)[Len(batch)]
         IN  /\ batch \in Seq(Write) /\ Len(batch) \in Nat /\ DOMAIN batch = 1 .. Len(batch)
             /\ \A k \in DOMAIN batch : batch[k] \in Write /\ batch[k].bps <= FULL_BPS
             /\ RegisterOK(after) /\ after.total <= FULL_BPS
             /\ share' = [share EXCEPT ![o] = after.share]
             /\ shareTotal' = [shareTotal EXCEPT ![o] = after.total]
             /\ schedule' = [schedule EXCEPT ![o] = after.schedule]
             /\ sharesIssued' =
                  [sharesIssued EXCEPT ![o] = IssuedAfterBatch(o, batch, after.share)]
<1> DEFINE reg == Register(o, batch)
           n == Len(batch)
<1>1. /\ batch \in Seq(Write) /\ n \in Nat /\ DOMAIN batch = 1 .. n
      /\ \A k \in DOMAIN batch : batch[k] \in Write
  <2>1. batch \in Seq(Write)
    BY SnapshotInputs
  <2> QED
    BY <2>1
<1>2. /\ \A k \in DOMAIN batch : batch[k].bps <= FULL_BPS
      /\ WithinLimit(reg, n)
      /\ share' = [share EXCEPT ![o] = reg[n].share]
      /\ shareTotal' = [shareTotal EXCEPT ![o] = reg[n].total]
      /\ schedule' = [schedule EXCEPT ![o] = reg[n].schedule]
      /\ sharesIssued' = [sharesIssued EXCEPT ![o] = IssuedAfterBatch(o, batch, reg[n].share)]
  BY Zenon DEF apply_snapshot_shares
<1>3. RegisterOK(reg[n])
  <2>1. \A k \in 0 .. n : RegisterOK(reg[k])
    BY <1>1, <1>2, RegisterAlongBatch
  <2> HIDE DEF reg, n
  <2> QED
    BY <1>1, <2>1
<1>4. reg[n].total <= FULL_BPS
  <2>1. CASE n = 0
    <3>1. reg[0] = RegisterBefore(o)
      BY <1>1, RegisterUnfolds
    <3>2. shareTotal[o] \in 0..FULL_BPS
      BY DEF TypeOK, RegisterTypeOK
    <3>3. FULL_BPS \in Nat
      BY DEF FULL_BPS
    <3> HIDE DEF reg, n
    <3> QED
      BY <2>1, <3>1, <3>2, <3>3 DEF RegisterBefore
  <2>2. CASE n # 0
    <3>1. n \in 1 .. n
      BY <1>1, <2>2
    <3> HIDE DEF reg, n
    <3> QED
      BY <1>2, <3>1 DEF WithinLimit
  <2> QED
    BY <2>1, <2>2
<1> HIDE DEF reg, n
<1> QED
  BY <1>1, <1>2, <1>3, <1>4 DEF reg, n

\* A batch keeps the money path well typed.
LEMMA BatchType ==
  ASSUME TypeOK, RunningTotals, NEW o \in Offerings, NEW ref, NEW start, NEW batch \in Batches,
         apply_snapshot_shares(o, ref, start, batch)
  PROVE  TypeOK'
<1> DEFINE after == Register(o, batch)[Len(batch)]
           issued == IssuedAfterBatch(o, batch, after.share)
<1>1. /\ batch \in Seq(Write) /\ DOMAIN batch = 1 .. Len(batch) /\ Len(batch) \in Nat
      /\ \A k \in DOMAIN batch : batch[k] \in Write
      /\ RegisterOK(after) /\ after.total <= FULL_BPS
      /\ share' = [share EXCEPT ![o] = after.share]
      /\ shareTotal' = [shareTotal EXCEPT ![o] = after.total]
      /\ schedule' = [schedule EXCEPT ![o] = after.schedule]
      /\ sharesIssued' = [sharesIssued EXCEPT ![o] = issued]
  BY BatchApplied
<1> HIDE DEF after
<1>2. FULL_BPS \in Nat
  BY DEF FULL_BPS
<1>3. share' \in [Offerings -> [Holders -> 0..FULL_BPS]]
  BY <1>1 DEF RegisterOK, TypeOK, RegisterTypeOK
<1>4. shareTotal' \in [Offerings -> 0..FULL_BPS]
  <2>1. after.total \in 0..FULL_BPS
    BY <1>1, <1>2 DEF RegisterOK
  <2> QED
    BY <1>1, <2>1 DEF TypeOK, RegisterTypeOK
<1>5. issued \in Int
  <2>1. /\ after.share \in [Holders -> 0..FULL_BPS] /\ share[o] \in [Holders -> 0..FULL_BPS]
        /\ sharesIssued[o] \in Int
    BY <1>1 DEF RegisterOK, TypeOK, RegisterTypeOK
  <2>2. \A k \in DOMAIN batch : batch[k].holder \in Holders /\ batch[k].bps \in Int
    BY <1>1 DEF Write
  <2>3. IsFiniteSet(DOMAIN batch)
    BY <1>1, RangeIsFinite
  <2>4. ASSUME NEW f \in [Holders -> 0..FULL_BPS]
        PROVE  SumFunction([k \in DOMAIN batch |-> batch[k].bps - f[batch[k].holder]]) \in Int
    <3> DEFINE d == [k \in DOMAIN batch |-> batch[k].bps - f[batch[k].holder]]
    <3>1. DOMAIN d = DOMAIN batch /\ \A k \in DOMAIN batch : d[k] \in Int
      BY <1>2, <2>2
    <3> HIDE DEF d
    <3>2. SumFunctionOnSet(d, DOMAIN batch) \in Int
      BY <2>3, <3>1, SumIsInt
    <3> QED
      BY <3>1, <3>2 DEF SumFunction, d
  <2>5. CapTotal(o, batch) \in Int
    BY <2>1, <2>4 DEF CapTotal
  <2> QED
    BY <2>1, <2>4, <2>5 DEF IssuedAfterBatch
<1> HIDE DEF issued
<1>6. sharesIssued' \in [Offerings -> Int]
  BY <1>1, <1>5 DEF TypeOK, RegisterTypeOK
<1>7. SchedulesTypeOK'
  <2>1. DOMAIN after.schedule = Holders /\ \A h \in Holders : IsSchedule(after.schedule[h])
    BY <1>1 DEF RegisterOK
  <2>2. /\ DOMAIN schedule = Offerings
        /\ \A q \in Offerings : /\ DOMAIN schedule[q] = Holders
                                /\ \A h \in Holders : IsSchedule(schedule[q][h])
    BY DEF TypeOK, RegisterTypeOK, SchedulesTypeOK
  <2>3. ASSUME NEW q \in Offerings
        PROVE  schedule'[q] = after.schedule \/ schedule'[q] = schedule[q]
    BY <1>1, <2>2
  <2>4. DOMAIN schedule' = Offerings
    BY <1>1, <2>2
  <2> QED
    BY <2>1, <2>2, <2>3, <2>4 DEF SchedulesTypeOK
<1>8. UNCHANGED <<maxShares, now, gateVars, poolVars, vault, configVars, barVars,
                  lastClaimed, redemption, receipts, redeemedOut>>
  BY Zenon DEF apply_snapshot_shares
<1>9. RegisterTypeOK'
  BY <1>3, <1>4, <1>6, <1>7, <1>8 DEF RegisterTypeOK, TypeOK
<1>10. HistoryTypeOK'
  <2>1. lastRaise' = [lastRaise EXCEPT ![o] = Len(periods[o])] \/ lastRaise' = lastRaise
    <3>1. lastRaise \in [Offerings -> Nat]
      BY DEF TypeOK, HistoryTypeOK
    <3>2. lastRaise' = [lastRaise EXCEPT ![o] = Len(periods[o])]
          \/ lastRaise' = [lastRaise EXCEPT ![o] = lastRaise[o]]
      BY Zenon DEF apply_snapshot_shares
    <3> QED
      BY <3>1, <3>2
  <2>2. Len(periods[o]) \in Nat
    BY DEF TypeOK, PoolTypeOK
  <2> QED
    BY <1>8, <2>1, <2>2 DEF TypeOK, HistoryTypeOK
<1> QED
  BY <1>8, <1>9, <1>10 DEF TypeOK, PoolTypeOK, VaultTypeOK, ConfigTypeOK, BarTypeOK, GateTypeOK,
    HolderTypeOK, poolVars, configVars, barVars, gateVars

\* A batch keeps the running totals; the second total follows a batch that is
\* applied under a cap and names nobody twice.
LEMMA BatchTotals ==
  ASSUME TypeOK, RunningTotals, NEW o \in Offerings, NEW ref, NEW start, NEW batch \in Batches,
         apply_snapshot_shares(o, ref, start, batch)
  PROVE  /\ RunningTotals'
         /\ \A q \in Offerings : q # o \/ Followed(o, batch) => IssuedAhead(q)' = IssuedAhead(q)
<1> DEFINE after == Register(o, batch)[Len(batch)]
           issued == IssuedAfterBatch(o, batch, after.share)
<1>1. /\ batch \in Seq(Write)
      /\ \A k \in DOMAIN batch : batch[k].bps <= FULL_BPS
      /\ RegisterOK(after)
      /\ share' = [share EXCEPT ![o] = after.share]
      /\ shareTotal' = [shareTotal EXCEPT ![o] = after.total]
      /\ sharesIssued' = [sharesIssued EXCEPT ![o] = issued]
  BY BatchApplied
<1>2. ASSUME Followed(o, batch)
      PROVE  issued - after.total = sharesIssued[o] - shareTotal[o]
  <2> DEFINE d == [k \in DOMAIN batch |-> batch[k].bps - share[o][batch[k].holder]]
  <2>1. NoRepeats(batch) /\ maxShares[o] > 0
    BY <1>2 DEF Followed, NoRepeats
  <2>2. after.total = shareTotal[o] + SumFunction(d) /\ SumFunction(d) \in Int
    BY <1>1, <2>1, TotalOfDistinct
  <2>3. issued = sharesIssued[o] + SumFunction(d)
    BY <2>1 DEF IssuedAfterBatch, CapTotal
  <2>4. sharesIssued[o] \in Int /\ shareTotal[o] \in Int
    BY DEF TypeOK, RegisterTypeOK
  <2> HIDE DEF d, after, issued
  <2> QED
    BY <2>2, <2>3, <2>4
<1> HIDE DEF after, issued
<1>3. DOMAIN share = Offerings /\ DOMAIN shareTotal = Offerings /\ DOMAIN sharesIssued = Offerings
  BY DEF TypeOK, RegisterTypeOK
<1>4. /\ share'[o] = after.share /\ shareTotal'[o] = after.total /\ sharesIssued'[o] = issued
      /\ \A q \in Offerings \ {o} : /\ share'[q] = share[q] /\ shareTotal'[q] = shareTotal[q]
                                    /\ sharesIssued'[q] = sharesIssued[q]
  BY <1>1, <1>3
<1>5. RunningTotals'
  BY <1>1, <1>4 DEF RunningTotals, RegisterOK
<1> QED
  BY <1>2, <1>4, <1>5 DEF IssuedAhead

-----------------------------------------------------------------------------
(***************************************************************************)
(* Type correctness of the whole                                           *)
(***************************************************************************)

\* The money path stands still.
QuietStep(o) ==
  \/ \E enabled \in SnapshotSettings : set_snapshot_config(o, enabled)
  \/ \E r \in SnapshotRefs, hash \in Hashes : commit_snapshot(o, r, hash)
  \/ GovernanceNext(o)

DepositStep(o) ==
  \E t \in PayTokens, a \in Amounts, p \in 1..MaxPeriods, r \in SnapshotRefs :
    deposit_revenue_with_snapshot(o, t, a, p, r)

BatchStep(o) ==
  \E r \in SnapshotRefs, i \in StartIndexes, b \in Batches : apply_snapshot_shares(o, r, i, b)

MoneyStep == [Next]_vars /\ UNCHANGED <<snapshotVars, governanceVars>>

\* Every step is of one of four kinds.
LEMMA StepKinds ==
  ASSUME [SystemNext]_systemVars
  PROVE  \/ MoneyStep
         \/ \E o \in Offerings : QuietStep(o) \/ DepositStep(o) \/ BatchStep(o)
<1>1. CASE UNCHANGED systemVars
  BY <1>1, Zenon DEF systemVars, MoneyStep
<1>2. CASE MoneyPathNext
  BY <1>2, Zenon DEF MoneyPathNext, MoneyStep
<1>3. ASSUME NEW o \in Offerings, SnapshotNext(o) \/ GovernanceNext(o)
      PROVE  QuietStep(o) \/ DepositStep(o) \/ BatchStep(o)
  BY <1>3, Zenon DEF SnapshotNext, QuietStep, DepositStep, BatchStep
<1> QED
  BY <1>1, <1>2, <1>3, Zenon DEF SystemNext

LEMMA QuietLeavesMoney ==
  ASSUME NEW o, QuietStep(o)
  PROVE  UNCHANGED vars /\ UNCHANGED <<batches, drifted>>
BY Zenon DEF QuietStep, set_snapshot_config, commit_snapshot, GovernanceNext, create_gov_proposal,
  cast_vote, close_gov_proposal, snapshotVars

LEMMA DepositLeavesRegister ==
  ASSUME NEW o, DepositStep(o)
  PROVE  /\ UNCHANGED registerVars
         /\ UNCHANGED <<snapshotConfig, lastCommitRef, entry, slot, slotCount, weight,
                        batches, drifted, governanceVars>>
BY Zenon DEF DepositStep, deposit_revenue_with_snapshot

LEMMA BatchLeavesGovernance ==
  ASSUME NEW o, BatchStep(o)
  PROVE  UNCHANGED <<snapshotConfig, lastSnapshotRef, lastCommitRef, governanceVars>>
<1>1. PICK r \in SnapshotRefs, i \in StartIndexes, b \in Batches :
        apply_snapshot_shares(o, r, i, b)
  BY DEF BatchStep
<1> QED
  BY <1>1, Zenon DEF apply_snapshot_shares

\* Every step keeps the money path well typed and the running totals.
LEMMA MoneyTypeStep ==
  ASSUME TypeOK, RunningTotals, [SystemNext]_systemVars
  PROVE  TypeOK' /\ RunningTotals'
<1>1. ASSUME [Next]_vars
      PROVE  TypeOK' /\ RunningTotals'
  BY <1>1, TypeStep, TotalsStep DEF KeepsTotals
<1>2. ASSUME NEW o \in Offerings, QuietStep(o)
      PROVE  [Next]_vars
  BY <1>2, QuietLeavesMoney
<1>3. ASSUME NEW o \in Offerings, DepositStep(o)
      PROVE  TypeOK' /\ RunningTotals'
  <2>1. PICK t \in PayTokens, a \in Amounts, p \in 1..MaxPeriods, r \in SnapshotRefs :
          deposit_revenue_with_snapshot(o, t, a, p, r)
    BY <1>3 DEF DepositStep
  <2>2. do_deposit_revenue(o, t, a, p) /\ a \in Int /\ p \in Int /\ p <= MaxPeriods
    BY <2>1, InputRanges, PositiveLimits DEF deposit_revenue_with_snapshot
  <2>3. PoolTypeOK' /\ VaultTypeOK'
    BY <2>2, DepositType
  <2>4. UNCHANGED <<registerVars, now, gateVars, configVars, barVars, lastClaimed, redemption,
                    historyVars>>
    BY <2>1, Zenon DEF deposit_revenue_with_snapshot
  <2>5. TypeOK'
    BY <2>3, <2>4 DEF TypeOK, RegisterTypeOK, SchedulesTypeOK, ConfigTypeOK, BarTypeOK,
      GateTypeOK, HolderTypeOK, HistoryTypeOK, registerVars, gateVars, configVars, barVars,
      historyVars
  <2>6. RunningTotals'
    BY <2>4 DEF RunningTotals, registerVars
  <2> QED
    BY <2>5, <2>6
<1>4. ASSUME NEW o \in Offerings, BatchStep(o)
      PROVE  TypeOK' /\ RunningTotals'
  BY <1>4, BatchType, BatchTotals DEF BatchStep
<1> QED
  BY <1>1, <1>2, <1>3, <1>4, StepKinds DEF MoneyStep

\* The votes of a proposal, by voter.
Votes == UNION {[voters -> Ballot] : voters \in SUBSET Holders}

\* The types of proposals and ballots, as those of two sequences of one length.
SequenceTypes ==
  /\ proposal \in [Offerings -> Seq(Proposal)] /\ ballot \in [Offerings -> Seq(Votes)]
  /\ \A o \in Offerings : Len(ballot[o]) = Len(proposal[o])

LEMMA GovernanceTypes == GovernanceTypeOK <=> SequenceTypes
<1> USE DEF SequenceTypes
<1>1. ASSUME GovernanceTypeOK
      PROVE  SequenceTypes
  <2>1. ASSUME NEW o \in Offerings
        PROVE  ballot[o] \in Seq(Votes) /\ Len(ballot[o]) = Len(proposal[o])
    <3>1. proposal[o] \in Seq(Proposal)
      BY <1>1 DEF GovernanceTypeOK
    <3>2. ballot[o] = [id \in DOMAIN proposal[o] |-> ballot[o][id]]
      <4>1. ballot = [q \in Offerings |-> [id \in DOMAIN proposal[q] |-> ballot[q][id]]]
        BY <1>1 DEF GovernanceTypeOK
      <4> QED
        BY <4>1
    <3>3. DOMAIN proposal[o] = 1 .. Len(proposal[o]) /\ Len(proposal[o]) \in Nat
      BY <3>1
    <3>4. ASSUME NEW id \in DOMAIN proposal[o] PROVE ballot[o][id] \in Votes
      BY <1>1 DEF GovernanceTypeOK, Votes
    <3> DEFINE b == ballot[o]
               n == Len(proposal[o])
    <3>5. b \in [1 .. n -> Votes] /\ n \in Nat
      BY <3>2, <3>3, <3>4
    <3> HIDE DEF b, n
    <3>6. b \in Seq(Votes) /\ Len(b) = n
      BY <3>5
    <3> QED
      BY <3>6 DEF b, n
  <2>2. ballot = [o \in Offerings |-> ballot[o]]
    BY <1>1 DEF GovernanceTypeOK
  <2> QED
    BY <1>1, <2>1, <2>2 DEF GovernanceTypeOK
<1>2. ASSUME SequenceTypes
      PROVE  GovernanceTypeOK
  <2>1. ASSUME NEW o \in Offerings
        PROVE  /\ ballot[o] = [id \in DOMAIN proposal[o] |-> ballot[o][id]]
               /\ \A id \in DOMAIN proposal[o] :
                    /\ DOMAIN ballot[o][id] \subseteq Holders
                    /\ ballot[o][id] \in [DOMAIN ballot[o][id] -> Ballot]
    <3>1. proposal[o] \in Seq(Proposal) /\ ballot[o] \in Seq(Votes) /\ Len(ballot[o]) = Len(proposal[o])
      BY <1>2
    <3>2. DOMAIN ballot[o] = DOMAIN proposal[o]
      BY <3>1
    <3>3. ballot[o] = [id \in DOMAIN ballot[o] |-> ballot[o][id]]
      BY <3>1
    <3>4. ASSUME NEW id \in DOMAIN proposal[o]
          PROVE  /\ DOMAIN ballot[o][id] \subseteq Holders
                 /\ ballot[o][id] \in [DOMAIN ballot[o][id] -> Ballot]
      <4>1. ballot[o][id] \in Votes
        BY <3>1, <3>2
      <4>2. PICK voters \in SUBSET Holders : ballot[o][id] \in [voters -> Ballot]
        BY <4>1 DEF Votes
      <4> QED
        BY <4>2
    <3> QED
      BY <3>2, <3>3, <3>4
  <2>2. ballot = [o \in Offerings |-> [id \in DOMAIN proposal[o] |-> ballot[o][id]]]
    BY <1>2, <2>1
  <2> QED
    BY <1>2, <2>1, <2>2 DEF GovernanceTypeOK
<1> QED
  BY <1>1, <1>2

LEMMA GovernanceTypesNext == GovernanceTypeOK' <=> SequenceTypes'
BY GovernanceTypes, PTL

\* Proposals and ballots of an offering are two sequences of one length.
LEMMA ProposalsType ==
  ASSUME GovernanceTypeOK, NEW o \in Offerings
  PROVE  /\ proposal[o] \in Seq(Proposal) /\ ballot[o] \in Seq(Votes)
         /\ DOMAIN ballot[o] = DOMAIN proposal[o]
         /\ \A id \in DOMAIN proposal[o] :
              /\ proposal[o][id] \in Proposal
              /\ DOMAIN ballot[o][id] \in SUBSET Holders
              /\ ballot[o][id] \in [DOMAIN ballot[o][id] -> Ballot]
<1>1. /\ proposal[o] \in Seq(Proposal) /\ ballot[o] \in Seq(Votes)
      /\ Len(ballot[o]) = Len(proposal[o])
  BY GovernanceTypes DEF SequenceTypes
<1>2. DOMAIN ballot[o] = DOMAIN proposal[o]
  BY <1>1
<1>3. ASSUME NEW id \in DOMAIN proposal[o]
      PROVE  /\ proposal[o][id] \in Proposal
             /\ DOMAIN ballot[o][id] \in SUBSET Holders
             /\ ballot[o][id] \in [DOMAIN ballot[o][id] -> Ballot]
  <2>1. proposal[o][id] \in Proposal /\ ballot[o][id] \in Votes
    BY <1>1, <1>2
  <2>2. PICK voters \in SUBSET Holders : ballot[o][id] \in [voters -> Ballot]
    BY <2>1 DEF Votes
  <2> QED
    BY <2>1, <2>2
<1> QED
  BY <1>1, <1>2, <1>3

\* The vote of v on proposal id of o, and nothing else, is recorded.
VoteCast(o, id, v, approve) ==
  LET w == VoteWeight(o, id, v)
      p == proposal[o][id]
      votes == ballot[o][id]
  IN  /\ id \in DOMAIN proposal[o] /\ p.open /\ v \notin DOMAIN votes
      /\ proposal' = [proposal EXCEPT ![o] = [proposal[o] EXCEPT ![id] =
           [p EXCEPT !.yes_weight = IF approve THEN @ + w ELSE @,
                     !.no_weight = IF approve THEN @ ELSE @ + w]]]
      /\ ballot' = [ballot EXCEPT ![o] = [ballot[o] EXCEPT ![id] =
           [u \in DOMAIN votes \cup {v} |->
              IF u = v THEN [approve |-> approve, weight |-> w] ELSE votes[u]]]]

LEMMA VoteIsCast ==
  ASSUME NEW o, NEW id, NEW v, NEW approve, cast_vote(o, id, v, approve)
  PROVE  VoteCast(o, id, v, approve)
BY DEF cast_vote, VoteCast

\* The weight of a voter is a share.
LEMMA VoteWeightType ==
  ASSUME SnapshotTypeOK, GovernanceTypeOK, NEW o \in Offerings, NEW id \in DOMAIN proposal[o],
         NEW v
  PROVE  VoteWeight(o, id, v) \in Nat
<1>1. proposal[o][id].snapshot_id \in SnapshotRefs
  BY ProposalsType DEF Proposal
<1> DEFINE pinned == weight[o][proposal[o][id].snapshot_id]
<1>2. pinned \in [DOMAIN pinned -> 0..FULL_BPS]
  BY <1>1 DEF SnapshotTypeOK
<1>3. FULL_BPS \in Nat
  BY DEF FULL_BPS
<1> HIDE DEF pinned
<1>4. v \in DOMAIN pinned => pinned[v] \in Nat
  BY <1>2, <1>3
<1> QED
  BY <1>4 DEF VoteWeight, pinned

\* A vote keeps the types of proposals and ballots.
LEMMA VoteType ==
  ASSUME SnapshotTypeOK, GovernanceTypeOK, NEW o \in Offerings, NEW id, NEW v \in Holders,
         NEW approve \in BOOLEAN, VoteCast(o, id, v, approve)
  PROVE  GovernanceTypeOK'
<1> DEFINE w == VoteWeight(o, id, v)
           p == proposal[o][id]
           votes == ballot[o][id]
           p2 == [p EXCEPT !.yes_weight = IF approve THEN @ + w ELSE @,
                           !.no_weight = IF approve THEN @ ELSE @ + w]
           votes2 == [u \in DOMAIN votes \cup {v} |->
                        IF u = v THEN [approve |-> approve, weight |-> w] ELSE votes[u]]
<1>1. /\ id \in DOMAIN proposal[o]
      /\ proposal' = [proposal EXCEPT ![o] = [proposal[o] EXCEPT ![id] = p2]]
      /\ ballot' = [ballot EXCEPT ![o] = [ballot[o] EXCEPT ![id] = votes2]]
  BY DEF VoteCast
<1>2. /\ proposal[o] \in Seq(Proposal) /\ ballot[o] \in Seq(Votes)
      /\ DOMAIN ballot[o] = DOMAIN proposal[o]
      /\ p \in Proposal
      /\ DOMAIN votes \in SUBSET Holders /\ votes \in [DOMAIN votes -> Ballot]
  BY <1>1, ProposalsType
<1>3. w \in Nat
  BY <1>1, VoteWeightType
<1> HIDE DEF w, p
<1>4. p2 \in Proposal
  <2>1. p.yes_weight + w \in Nat /\ p.no_weight + w \in Nat
    <3>1. p \in Proposal
      BY <1>2
    <3>2. p.yes_weight \in Nat /\ p.no_weight \in Nat
      BY <3>1 DEF Proposal
    <3> QED
      BY <1>3, <3>2
  <2> DEFINE yes == IF approve THEN p.yes_weight + w ELSE p.yes_weight
             no == IF approve THEN p.no_weight ELSE p.no_weight + w
  <2>2. yes \in Nat /\ no \in Nat
    BY <1>2, <2>1 DEF Proposal
  <2>3. p2 = [p EXCEPT !.yes_weight = yes, !.no_weight = no]
    OBVIOUS
  <2> HIDE DEF yes, no, p2
  <2> QED
    BY <1>2, <2>2, <2>3 DEF Proposal
<1>5. votes2 \in Votes
  <2>1. [approve |-> approve, weight |-> w] \in Ballot
    BY <1>3 DEF Ballot
  <2>2. DOMAIN votes \cup {v} \in SUBSET Holders
    BY <1>2
  <2> HIDE DEF votes
  <2>3. votes2 \in [DOMAIN votes \cup {v} -> Ballot]
    BY <1>2, <2>1
  <2> HIDE DEF votes2
  <2> QED
    BY <2>2, <2>3 DEF Votes
<1> HIDE DEF p2, votes2, votes
<1>6. /\ [proposal[o] EXCEPT ![id] = p2] \in Seq(Proposal)
      /\ Len([proposal[o] EXCEPT ![id] = p2]) = Len(proposal[o])
  BY <1>1, <1>2, <1>4
<1>7. /\ [ballot[o] EXCEPT ![id] = votes2] \in Seq(Votes)
      /\ Len([ballot[o] EXCEPT ![id] = votes2]) = Len(ballot[o])
  BY <1>1, <1>2, <1>5
<1>8. /\ proposal \in [Offerings -> Seq(Proposal)] /\ ballot \in [Offerings -> Seq(Votes)]
      /\ \A q \in Offerings : Len(ballot[q]) = Len(proposal[q])
  BY GovernanceTypes DEF SequenceTypes
<1> DEFINE proposals == [proposal[o] EXCEPT ![id] = p2]
           ballots == [ballot[o] EXCEPT ![id] = votes2]
<1> HIDE DEF proposals, ballots
<1>9. /\ proposal' = [proposal EXCEPT ![o] = proposals]
      /\ ballot' = [ballot EXCEPT ![o] = ballots]
      /\ proposals \in Seq(Proposal) /\ ballots \in Seq(Votes)
      /\ Len(ballots) = Len(proposals)
  BY <1>1, <1>2, <1>6, <1>7, <1>8 DEF proposals, ballots
<1>10. /\ proposal' \in [Offerings -> Seq(Proposal)] /\ ballot' \in [Offerings -> Seq(Votes)]
       /\ \A q \in Offerings : Len(ballot'[q]) = Len(proposal'[q])
  BY <1>8, <1>9
<1> QED
  BY <1>10, GovernanceTypesNext DEF SequenceTypes

\* Every proposal has a ballot, and both stay of their types.
LEMMA GovernanceTypeStep ==
  ASSUME SystemTypeOK, [SystemNext]_systemVars
  PROVE  GovernanceTypeOK'
<1>a. GovernanceTypeOK /\ SnapshotTypeOK
  BY DEF SystemTypeOK
<1>b. /\ proposal \in [Offerings -> Seq(Proposal)] /\ ballot \in [Offerings -> Seq(Votes)]
      /\ \A o \in Offerings : Len(ballot[o]) = Len(proposal[o])
  BY <1>a, GovernanceTypes DEF SequenceTypes
<1>1. ASSUME UNCHANGED governanceVars
      PROVE  GovernanceTypeOK'
  BY <1>a, <1>1 DEF GovernanceTypeOK, governanceVars
<1>2. ASSUME NEW o \in Offerings, create_gov_proposal(o)
      PROVE  GovernanceTypeOK'
  <2> DEFINE p == [snapshot_id |-> lastCommitRef[o], yes_weight |-> 0, no_weight |-> 0,
                   open |-> TRUE, batchesThen |-> batches[o][lastCommitRef[o]]]
  <2>1. /\ proposal' = [proposal EXCEPT ![o] = Append(proposal[o], p)]
        /\ ballot' = [ballot EXCEPT ![o] = Append(ballot[o], Empty)]
        /\ lastCommitRef[o] > 0
    BY <1>2 DEF create_gov_proposal
  <2>2. p \in Proposal
    <3>1. lastCommitRef[o] \in SnapshotRefs
      BY <1>a, <2>1 DEF SnapshotTypeOK
    <3>2. batches[o][lastCommitRef[o]] \in Nat
      BY <1>a, <3>1 DEF SnapshotTypeOK
    <3> QED
      BY <3>1, <3>2 DEF Proposal
  <2>3. Empty \in Votes
    <3>1. Empty \in [{} -> Ballot]
      BY DEF Empty
    <3> QED
      BY <3>1 DEF Votes
  <2> HIDE DEF p
  <2>4. /\ proposal' \in [Offerings -> Seq(Proposal)]
        /\ ballot' \in [Offerings -> Seq(Votes)]
    BY <1>b, <2>1, <2>2, <2>3
  <2>5. ASSUME NEW q \in Offerings PROVE Len(ballot'[q]) = Len(proposal'[q])
    <3>1. /\ proposal[q] \in Seq(Proposal) /\ ballot[q] \in Seq(Votes)
          /\ Len(ballot[q]) = Len(proposal[q])
      BY <1>b
    <3>2. CASE q = o
      <4>1. proposal'[q] = Append(proposal[q], p) /\ ballot'[q] = Append(ballot[q], Empty)
        BY <1>b, <2>1, <3>2
      <4> QED
        BY <2>2, <2>3, <3>1, <4>1
    <3>3. CASE q # o
      BY <1>b, <2>1, <3>1, <3>3
    <3> QED
      BY <3>2, <3>3
  <2> QED
    BY <2>4, <2>5, GovernanceTypesNext DEF SequenceTypes
<1>3. ASSUME NEW o \in Offerings, NEW id, NEW v \in Holders, NEW approve \in BOOLEAN,
             cast_vote(o, id, v, approve)
      PROVE  GovernanceTypeOK'
  <2>1. VoteCast(o, id, v, approve)
    BY <1>3, VoteIsCast
  <2> QED
    BY <1>a, <2>1, VoteType
<1>4. ASSUME NEW o \in Offerings, NEW id, close_gov_proposal(o, id)
      PROVE  GovernanceTypeOK'
  <2>1. /\ id \in DOMAIN proposal[o]
        /\ proposal' = [proposal EXCEPT ![o] = [proposal[o] EXCEPT ![id].open = FALSE]]
        /\ ballot' = ballot
    BY <1>4 DEF close_gov_proposal
  <2> DEFINE p == [proposal[o][id] EXCEPT !.open = FALSE]
             proposals == [proposal[o] EXCEPT ![id] = p]
  <2>2. proposal[o][id] \in Proposal
    BY <1>b, <2>1
  <2>3. p \in Proposal
    BY <2>2 DEF Proposal
  <2>4. proposal' = [proposal EXCEPT ![o] = proposals]
    BY <2>1
  <2> HIDE DEF p
  <2>5. proposals \in Seq(Proposal) /\ Len(proposals) = Len(proposal[o])
    BY <1>b, <2>1, <2>3
  <2> HIDE DEF proposals
  <2>6. SequenceTypes'
    BY <1>b, <2>1, <2>4, <2>5 DEF SequenceTypes
  <2> QED
    BY <2>6, GovernanceTypesNext
<1>5. ASSUME NEW o \in Offerings, QuietStep(o)
      PROVE  GovernanceTypeOK'
  BY <1>1, <1>2, <1>3, <1>4, <1>5, Zenon DEF QuietStep, GovernanceNext, set_snapshot_config,
    commit_snapshot
<1>6. ASSUME NEW o \in Offerings, DepositStep(o) \/ BatchStep(o)
      PROVE  GovernanceTypeOK'
  <2>1. CASE DepositStep(o)
    BY <1>1, <2>1, DepositLeavesRegister
  <2>2. CASE BatchStep(o)
    BY <1>1, <2>2, BatchLeavesGovernance
  <2> QED
    BY <1>6, <2>1, <2>2
<1> QED
  BY <1>1, <1>5, <1>6, StepKinds, Zenon DEF MoneyStep

-----------------------------------------------------------------------------
(***************************************************************************)
(* A batch and its snapshot                                                *)
(***************************************************************************)

\* The last write of a holder the batch names is one of the batch, its own.
LEMMA LastWriteNames ==
  ASSUME NEW batch, Len(batch) \in Nat, DOMAIN batch = 1 .. Len(batch), NEW h \in Named(batch)
  PROVE  \E k \in DOMAIN batch : LastWrite(batch, h) = batch[k] /\ batch[k].holder = h
<1> DEFINE n == Len(batch)
           named == {k \in DOMAIN batch : batch[k].holder = h}
           last == CHOOSE k \in named : \A j \in named : j <= k
<1>1. named # {} /\ named \in SUBSET (0 .. n) /\ n \in Nat
  BY DEF Named
<1> HIDE DEF named, n
<1>2. \E k \in named : \A j \in named : j <= k
  BY <1>1, LargestMember
<1>3. last \in named
  BY <1>2
<1> QED
  BY <1>3 DEF LastWrite, named

\* What a batch adds to the total of its snapshot.
LEMMA AddedBpsType ==
  ASSUME NEW batch, Len(batch) \in Nat, DOMAIN batch = 1 .. Len(batch),
         \A k \in DOMAIN batch : batch[k] \in Write
  PROVE  AddedBps(batch) \in Nat
<1> DEFINE f == [k \in DOMAIN batch |-> batch[k].bps]
<1>1. DOMAIN f = DOMAIN batch /\ \A k \in DOMAIN f : f[k] \in Nat
  BY DEF Write
<1>2. IsFiniteSet(DOMAIN f)
  BY <1>1, RangeIsFinite
<1> HIDE DEF f
<1>3. SumFunctionOnSet(f, DOMAIN f) \in Nat
  BY <1>1, <1>2, SumOfNaturals
<1> QED
  BY <1>3 DEF AddedBps, SumFunction, f

CountAfter(o, ref, start, batch) ==
  IF Len(batch) = 0 THEN slotCount[o][ref] ELSE Highest(slotCount[o][ref], start + Len(batch))

EntryAfter(o, ref, start, batch) ==
  LET old == entry[o][ref]
  IN  [old EXCEPT !.holder_count = Highest(old.holder_count, CountAfter(o, ref, start, batch)),
                  !.total_bps = old.total_bps + AddedBps(batch)]

SlotsAfter(o, ref, start, batch) ==
  [i \in DOMAIN slot[o][ref] \cup (start .. start + Len(batch) - 1) |->
     IF i \in start .. start + Len(batch) - 1 THEN batch[i - start + 1] ELSE slot[o][ref][i]]

WeightsAfter(o, ref, batch) ==
  [h \in DOMAIN weight[o][ref] \cup Named(batch) |->
     IF h \in Named(batch) THEN LastWrite(batch, h).bps ELSE weight[o][ref][h]]

\* What a batch writes to its snapshot, and nothing else of the snapshots.
LEMMA BatchSnapshot ==
  ASSUME SystemTypeOK, NEW o \in Offerings, NEW ref \in SnapshotRefs, NEW start \in StartIndexes,
         NEW batch \in Batches, apply_snapshot_shares(o, ref, start, batch)
  PROVE  /\ start \in Nat /\ Len(batch) \in Nat /\ DOMAIN batch = 1 .. Len(batch)
         /\ \A k \in DOMAIN batch : batch[k] \in Write /\ batch[k].bps <= FULL_BPS
         /\ ref \in DOMAIN entry[o]
         /\ entry' = [entry EXCEPT ![o] = [entry[o] EXCEPT ![ref] = EntryAfter(o, ref, start, batch)]]
         /\ slot' = [slot EXCEPT ![o] = [slot[o] EXCEPT ![ref] = SlotsAfter(o, ref, start, batch)]]
         /\ weight' = [weight EXCEPT ![o] = [weight[o] EXCEPT ![ref] = WeightsAfter(o, ref, batch)]]
         /\ slotCount' = [slotCount EXCEPT ![o] =
              [slotCount[o] EXCEPT ![ref] = CountAfter(o, ref, start, batch)]]
         /\ batches' = [batches EXCEPT ![o] = [batches[o] EXCEPT ![ref] = batches[o][ref] + 1]]
         /\ drifted' = [drifted EXCEPT ![o] = drifted[o] \/ ~Followed(o, batch)]
<1>a. SnapshotTypeOK
  BY DEF SystemTypeOK
<1>1. /\ start \in Nat /\ Len(batch) \in Nat /\ DOMAIN batch = 1 .. Len(batch)
      /\ \A k \in DOMAIN batch : batch[k] \in Write
  <2>1. start \in Nat /\ batch \in Seq(Write)
    BY SnapshotInputs
  <2> QED
    BY <2>1
<1> DEFINE count == IF Len(batch) = 0 THEN slotCount[o][ref]
                    ELSE Highest(slotCount[o][ref], start + Len(batch))
           old == entry[o][ref]
<1>2. /\ ref \in DOMAIN entry[o]
      /\ \A k \in DOMAIN batch : batch[k].bps <= FULL_BPS
      /\ entry' = [entry EXCEPT ![o][ref].holder_count = Highest(@, count),
                                ![o][ref].total_bps = TotalBpsAfter(o, ref, batch)]
      /\ slot' = [slot EXCEPT ![o][ref] = SlotsAfter(o, ref, start, batch)]
      /\ weight' = [weight EXCEPT ![o][ref] = WeightsAfter(o, ref, batch)]
      /\ slotCount' = [slotCount EXCEPT ![o][ref] = count]
      /\ batches' = [batches EXCEPT ![o][ref] = batches[o][ref] + 1]
      /\ drifted' = [drifted EXCEPT ![o] = drifted[o] \/ ~Followed(o, batch)]
  BY Zenon DEF apply_snapshot_shares, SlotsAfter, WeightsAfter
<1>3. entry' = [entry EXCEPT ![o] = [entry[o] EXCEPT ![ref] = EntryAfter(o, ref, start, batch)]]
  <2>1. entry[o] \in [DOMAIN entry[o] -> Entry]
    BY <1>a DEF SnapshotTypeOK
  <2>2. old \in Entry
    BY <1>2, <2>1
  <2>3. entry' = [entry EXCEPT ![o] = [entry[o] EXCEPT ![ref] =
                    [old EXCEPT !.holder_count = Highest(old.holder_count, count),
                                !.total_bps = old.total_bps + AddedBps(batch)]]]
    BY <1>2, <2>2, <1>a DEF TotalBpsAfter, SnapshotTypeOK
  <2> QED
    BY <2>3, Zenon DEF EntryAfter, CountAfter
<1> QED
  BY <1>1, <1>2, <1>3 DEF CountAfter

\* What a batch writes is of its type.
LEMMA BatchSnapshotType ==
  ASSUME SystemTypeOK, NEW o \in Offerings, NEW ref \in SnapshotRefs, NEW start \in StartIndexes,
         NEW batch \in Batches, apply_snapshot_shares(o, ref, start, batch)
  PROVE  /\ CountAfter(o, ref, start, batch) \in Nat
         /\ EntryAfter(o, ref, start, batch) \in Entry
         /\ DOMAIN SlotsAfter(o, ref, start, batch) \subseteq Nat
         /\ \A i \in DOMAIN SlotsAfter(o, ref, start, batch) :
              SlotsAfter(o, ref, start, batch)[i] \in Write
         /\ DOMAIN WeightsAfter(o, ref, batch) \subseteq Holders
         /\ \A h \in DOMAIN WeightsAfter(o, ref, batch) :
              WeightsAfter(o, ref, batch)[h] \in 0..FULL_BPS
<1>a. SnapshotTypeOK
  BY DEF SystemTypeOK
<1>1. /\ start \in Nat /\ Len(batch) \in Nat /\ DOMAIN batch = 1 .. Len(batch)
      /\ \A k \in DOMAIN batch : batch[k] \in Write /\ batch[k].bps <= FULL_BPS
      /\ ref \in DOMAIN entry[o]
  BY BatchSnapshot
<1>2. CountAfter(o, ref, start, batch) \in Nat
  <2>1. slotCount[o][ref] \in Nat
    BY <1>a DEF SnapshotTypeOK
  <2> QED
    BY <1>1, <2>1 DEF CountAfter, Highest
<1>3. EntryAfter(o, ref, start, batch) \in Entry
  <2>1. entry[o][ref] \in Entry
    BY <1>a, <1>1 DEF SnapshotTypeOK
  <2>2. /\ entry[o][ref].hash \in Hashes /\ entry[o][ref].committed_at \in Nat
        /\ entry[o][ref].holder_count \in Nat /\ entry[o][ref].total_bps \in Nat
    BY <2>1 DEF Entry
  <2>3. AddedBps(batch) \in Nat
    BY <1>1, AddedBpsType
  <2>4. /\ Highest(entry[o][ref].holder_count, CountAfter(o, ref, start, batch)) \in Nat
        /\ entry[o][ref].total_bps + AddedBps(batch) \in Nat
    BY <1>2, <2>2, <2>3 DEF Highest
  <2> DEFINE a == Highest(entry[o][ref].holder_count, CountAfter(o, ref, start, batch))
             b == entry[o][ref].total_bps + AddedBps(batch)
             old == entry[o][ref]
  <2> HIDE DEF a, b, old
  <2>5. [old EXCEPT !.holder_count = a, !.total_bps = b] \in Entry
    BY <2>1, <2>4 DEF a, b, old, Entry
  <2> QED
    BY <2>5 DEF EntryAfter, a, b, old
<1>4. /\ DOMAIN slot[o][ref] \subseteq Nat /\ \A i \in DOMAIN slot[o][ref] : slot[o][ref][i] \in Write
      /\ DOMAIN weight[o][ref] \subseteq Holders
      /\ \A h \in DOMAIN weight[o][ref] : weight[o][ref][h] \in 0..FULL_BPS
  BY <1>a DEF SnapshotTypeOK
<1>5. DOMAIN SlotsAfter(o, ref, start, batch) \subseteq Nat
  BY <1>1, <1>4 DEF SlotsAfter
<1>6. ASSUME NEW i \in DOMAIN SlotsAfter(o, ref, start, batch)
      PROVE  SlotsAfter(o, ref, start, batch)[i] \in Write
  <2>1. CASE i \in start .. start + Len(batch) - 1
    <3>1. i - start + 1 \in 1 .. Len(batch)
      BY <1>1, <2>1
    <3> QED
      BY <1>1, <2>1, <3>1 DEF SlotsAfter
  <2>2. CASE i \notin start .. start + Len(batch) - 1
    BY <1>4, <2>2 DEF SlotsAfter
  <2> QED
    BY <2>1, <2>2
<1>7. ASSUME NEW h \in Named(batch)
      PROVE  h \in Holders /\ LastWrite(batch, h).bps \in 0..FULL_BPS
  <2>1. PICK k \in DOMAIN batch : LastWrite(batch, h) = batch[k] /\ batch[k].holder = h
    BY <1>1, LastWriteNames
  <2>2. FULL_BPS \in Nat
    BY DEF FULL_BPS
  <2> QED
    BY <1>1, <2>1, <2>2 DEF Write
<1>8. /\ DOMAIN WeightsAfter(o, ref, batch) \subseteq Holders
      /\ \A h \in DOMAIN WeightsAfter(o, ref, batch) : WeightsAfter(o, ref, batch)[h] \in 0..FULL_BPS
  BY <1>4, <1>7 DEF WeightsAfter
<1> QED
  BY <1>2, <1>3, <1>5, <1>6, <1>8

EntriesAfterCommit(o, ref, hash) ==
  [r \in DOMAIN entry[o] \cup {ref} |->
     IF r = ref
       THEN [hash |-> hash, committed_at |-> now, holder_count |-> 0, total_bps |-> 0]
       ELSE entry[o][r]]

LEMMA CommitWrites ==
  ASSUME NEW o, NEW ref, NEW hash, commit_snapshot(o, ref, hash)
  PROVE  /\ ref > lastCommitRef[o]
         /\ entry' = [entry EXCEPT ![o] = EntriesAfterCommit(o, ref, hash)]
         /\ lastCommitRef' = [lastCommitRef EXCEPT ![o] = ref]
         /\ UNCHANGED <<vars, snapshotConfig, lastSnapshotRef, slot, slotCount, weight,
                        batches, drifted, governanceVars>>
BY Zenon DEF commit_snapshot, NewRef, EntriesAfterCommit

\* Every step keeps the snapshots well typed.
LEMMA SnapshotTypeStep ==
  ASSUME SystemTypeOK, [SystemNext]_systemVars
  PROVE  SnapshotTypeOK'
<1>a. SnapshotTypeOK /\ TypeOK
  BY DEF SystemTypeOK
<1>1. ASSUME UNCHANGED <<entry, slot, slotCount, weight, batches, drifted>>,
             snapshotConfig' \in [Offerings -> BOOLEAN],
             lastSnapshotRef' \in [Offerings -> SnapshotRefs \cup {0}],
             lastCommitRef' \in [Offerings -> SnapshotRefs \cup {0}]
      PROVE  SnapshotTypeOK'
  BY <1>a, <1>1 DEF SnapshotTypeOK
<1>2. ASSUME NEW o \in Offerings, NEW enabled \in SnapshotSettings, set_snapshot_config(o, enabled)
      PROVE  SnapshotTypeOK'
  BY <1>a, <1>1, <1>2, SnapshotInputs DEF set_snapshot_config, SnapshotTypeOK
<1>3. ASSUME NEW o \in Offerings, NEW ref \in SnapshotRefs, NEW hash \in Hashes,
             commit_snapshot(o, ref, hash)
      PROVE  SnapshotTypeOK'
  <2> DEFINE new == EntriesAfterCommit(o, ref, hash)
             rec == [hash |-> hash, committed_at |-> now, holder_count |-> 0, total_bps |-> 0]
  <2>1. rec \in Entry
    BY <1>a DEF Entry, TypeOK, GateTypeOK
  <2>2. DOMAIN entry[o] \subseteq SnapshotRefs /\ entry[o] \in [DOMAIN entry[o] -> Entry]
    BY <1>a DEF SnapshotTypeOK
  <2>3. DOMAIN new \subseteq SnapshotRefs /\ new \in [DOMAIN new -> Entry]
    <3> HIDE DEF rec
    <3>1. new = [r \in DOMAIN entry[o] \cup {ref} |-> IF r = ref THEN rec ELSE entry[o][r]]
      BY DEF EntriesAfterCommit, rec
    <3> HIDE DEF new
    <3> QED
      BY <2>1, <2>2, <3>1
  <2>4. /\ entry' = [entry EXCEPT ![o] = new]
        /\ lastCommitRef' = [lastCommitRef EXCEPT ![o] = ref]
        /\ UNCHANGED <<snapshotConfig, lastSnapshotRef, slot, slotCount, weight, batches, drifted>>
    BY <1>3, CommitWrites
  <2> HIDE DEF new, rec
  <2>5. /\ DOMAIN entry' = Offerings /\ entry'[o] = new
        /\ \A q \in Offerings : q # o => entry'[q] = entry[q]
        /\ lastCommitRef' \in [Offerings -> SnapshotRefs \cup {0}]
    BY <1>a, <2>4 DEF SnapshotTypeOK
  <2>6. \A q \in Offerings :
          entry'[q] \in [DOMAIN entry'[q] -> Entry] /\ DOMAIN entry'[q] \subseteq SnapshotRefs
    <3> TAKE q \in Offerings
    <3>1. CASE q = o
      BY <2>3, <2>5, <3>1
    <3>2. CASE q # o
      BY <1>a, <2>5, <3>2 DEF SnapshotTypeOK
    <3> QED
      BY <3>1, <3>2
  <2> QED
    BY <1>a, <2>4, <2>5, <2>6 DEF SnapshotTypeOK
<1>4. ASSUME NEW o \in Offerings, DepositStep(o)
      PROVE  SnapshotTypeOK'
  <2>1. PICK t \in PayTokens, a \in Amounts, p \in 1..MaxPeriods, r \in SnapshotRefs :
          deposit_revenue_with_snapshot(o, t, a, p, r)
    BY <1>4 DEF DepositStep
  <2>2. /\ lastSnapshotRef' = [lastSnapshotRef EXCEPT ![o] = r]
        /\ UNCHANGED <<snapshotConfig, lastCommitRef, entry, slot, slotCount, weight,
                       batches, drifted>>
    BY <2>1, Zenon DEF deposit_revenue_with_snapshot
  <2> QED
    BY <1>a, <1>1, <2>2 DEF SnapshotTypeOK
<1>5. ASSUME NEW o \in Offerings, BatchStep(o)
      PROVE  SnapshotTypeOK'
  <2>1. PICK ref \in SnapshotRefs, start \in StartIndexes, batch \in Batches :
          apply_snapshot_shares(o, ref, start, batch)
    BY <1>5 DEF BatchStep
  <2> DEFINE newEntry == EntryAfter(o, ref, start, batch)
             newSlots == SlotsAfter(o, ref, start, batch)
             newWeights == WeightsAfter(o, ref, batch)
             newCount == CountAfter(o, ref, start, batch)
  <2>2. /\ ref \in DOMAIN entry[o]
        /\ entry' = [entry EXCEPT ![o] = [entry[o] EXCEPT ![ref] = newEntry]]
        /\ slot' = [slot EXCEPT ![o] = [slot[o] EXCEPT ![ref] = newSlots]]
        /\ weight' = [weight EXCEPT ![o] = [weight[o] EXCEPT ![ref] = newWeights]]
        /\ slotCount' = [slotCount EXCEPT ![o] = [slotCount[o] EXCEPT ![ref] = newCount]]
        /\ batches' = [batches EXCEPT ![o] = [batches[o] EXCEPT ![ref] = batches[o][ref] + 1]]
        /\ drifted' = [drifted EXCEPT ![o] = drifted[o] \/ ~Followed(o, batch)]
    BY <2>1, BatchSnapshot
  <2>3. /\ newCount \in Nat /\ newEntry \in Entry /\ DOMAIN newSlots \subseteq Nat
        /\ \A i \in DOMAIN newSlots : newSlots[i] \in Write
        /\ DOMAIN newWeights \subseteq Holders
        /\ \A h \in DOMAIN newWeights : newWeights[h] \in 0..FULL_BPS
    BY <2>1, BatchSnapshotType
  <2>4. newSlots \in [DOMAIN newSlots -> Write] /\ newWeights \in [DOMAIN newWeights -> 0..FULL_BPS]
    BY <2>3 DEF SlotsAfter, WeightsAfter
  <2>5. UNCHANGED <<snapshotConfig, lastSnapshotRef, lastCommitRef>>
    BY <1>5, BatchLeavesGovernance
  <2> HIDE DEF newEntry, newSlots, newWeights, newCount
  <2>6. /\ slotCount' \in [Offerings -> [SnapshotRefs -> Nat]]
        /\ batches' \in [Offerings -> [SnapshotRefs -> Nat]]
    <3>1. /\ slotCount \in [Offerings -> [SnapshotRefs -> Nat]]
          /\ batches \in [Offerings -> [SnapshotRefs -> Nat]]
      BY <1>a DEF SnapshotTypeOK
    <3>2. batches[o][ref] + 1 \in Nat
      BY <3>1
    <3> QED
      BY <2>2, <2>3, <3>1, <3>2
  <2>7. drifted' \in [Offerings -> BOOLEAN]
    <3>1. drifted \in [Offerings -> BOOLEAN]
      BY <1>a DEF SnapshotTypeOK
    <3>2. (drifted[o] \/ ~Followed(o, batch)) \in BOOLEAN
      OBVIOUS
    <3> QED
      BY <2>2, <3>1, <3>2
  <2>8. /\ DOMAIN entry' = Offerings /\ DOMAIN slot' = Offerings /\ DOMAIN weight' = Offerings
        /\ \A q \in Offerings : q # o => entry'[q] = entry[q] /\ slot'[q] = slot[q] /\ weight'[q] = weight[q]
        /\ entry'[o] = [entry[o] EXCEPT ![ref] = newEntry]
        /\ slot'[o] = [slot[o] EXCEPT ![ref] = newSlots]
        /\ weight'[o] = [weight[o] EXCEPT ![ref] = newWeights]
    BY <1>a, <2>2 DEF SnapshotTypeOK
  <2> DEFINE SlotsOK(s) == DOMAIN s \subseteq Nat /\ s \in [DOMAIN s -> Write]
             WeightsOK(w) == DOMAIN w \subseteq Holders /\ w \in [DOMAIN w -> 0..FULL_BPS]
  <2>9. /\ entry'[o] \in [DOMAIN entry'[o] -> Entry] /\ DOMAIN entry'[o] \subseteq SnapshotRefs
        /\ DOMAIN slot'[o] = SnapshotRefs /\ DOMAIN weight'[o] = SnapshotRefs
        /\ \A r \in SnapshotRefs : SlotsOK(slot'[o][r]) /\ WeightsOK(weight'[o][r])
    <3>1. /\ entry[o] \in [DOMAIN entry[o] -> Entry] /\ DOMAIN entry[o] \subseteq SnapshotRefs
          /\ DOMAIN slot[o] = SnapshotRefs /\ DOMAIN weight[o] = SnapshotRefs
          /\ \A r \in SnapshotRefs : SlotsOK(slot[o][r]) /\ WeightsOK(weight[o][r])
          /\ SlotsOK(newSlots) /\ WeightsOK(newWeights)
      BY <1>a, <2>3, <2>4 DEF SnapshotTypeOK
    <3> HIDE DEF SlotsOK, WeightsOK
    <3> QED
      BY <2>2, <2>3, <2>8, <3>1
  <2>10. ASSUME NEW q \in Offerings
         PROVE  /\ entry'[q] \in [DOMAIN entry'[q] -> Entry] /\ DOMAIN entry'[q] \subseteq SnapshotRefs
                /\ DOMAIN slot'[q] = SnapshotRefs /\ DOMAIN weight'[q] = SnapshotRefs
                /\ \A r \in SnapshotRefs : SlotsOK(slot'[q][r]) /\ WeightsOK(weight'[q][r])
    <3>1. /\ entry[q] \in [DOMAIN entry[q] -> Entry] /\ DOMAIN entry[q] \subseteq SnapshotRefs
          /\ DOMAIN slot[q] = SnapshotRefs /\ DOMAIN weight[q] = SnapshotRefs
          /\ \A r \in SnapshotRefs : SlotsOK(slot[q][r]) /\ WeightsOK(weight[q][r])
      BY <1>a DEF SnapshotTypeOK
    <3> HIDE DEF SlotsOK, WeightsOK
    <3>2. CASE q = o
      BY <2>9, <3>2
    <3>3. CASE q # o
      <4>1. entry'[q] = entry[q] /\ slot'[q] = slot[q] /\ weight'[q] = weight[q]
        BY <2>8, <3>3
      <4> QED
        BY <3>1, <4>1
    <3> QED
      BY <3>2, <3>3
  <2>11. \A q \in Offerings, r \in SnapshotRefs :
           /\ DOMAIN slot'[q][r] \subseteq Nat
           /\ slot'[q][r] \in [DOMAIN slot'[q][r] -> Write]
           /\ DOMAIN weight'[q][r] \subseteq Holders
           /\ weight'[q][r] \in [DOMAIN weight'[q][r] -> 0..FULL_BPS]
    BY <2>10
  <2> HIDE DEF SlotsOK, WeightsOK
  <2>12. /\ snapshotConfig' \in [Offerings -> BOOLEAN]
         /\ lastSnapshotRef' \in [Offerings -> SnapshotRefs \cup {0}]
         /\ lastCommitRef' \in [Offerings -> SnapshotRefs \cup {0}]
    BY <1>a, <2>5 DEF SnapshotTypeOK
  <2> QED
    BY <2>6, <2>7, <2>8, <2>10, <2>11, <2>12, Zenon DEF SnapshotTypeOK
<1>6. ASSUME NEW o \in Offerings, GovernanceNext(o)
      PROVE  UNCHANGED snapshotVars
  BY <1>6, Zenon DEF GovernanceNext, create_gov_proposal, cast_vote, close_gov_proposal
<1>7. ASSUME UNCHANGED snapshotVars
      PROVE  SnapshotTypeOK'
  BY <1>a, <1>7 DEF SnapshotTypeOK, snapshotVars
<1>8. ASSUME NEW o \in Offerings, QuietStep(o)
      PROVE  SnapshotTypeOK'
  BY <1>2, <1>3, <1>6, <1>7, <1>8, Zenon DEF QuietStep
<1> QED
  BY <1>4, <1>5, <1>7, <1>8, StepKinds, Zenon DEF MoneyStep

\* The type invariant and the running totals hold initially.
LEMMA SystemTypeInit ==
  ASSUME SystemInit
  PROVE  SystemTypeOK /\ RunningTotals /\ \A o \in Offerings : IssuedAhead(o) = 0
<1>1. TypeOK
  BY TypeInit DEF SystemInit
<1>2. SnapshotTypeOK
  BY DEF SystemInit, SnapshotTypeOK, Empty
<1>3. GovernanceTypeOK
  <2>1. <<>> \in Seq(Proposal) /\ <<>> = [id \in DOMAIN <<>> |-> <<>>[id]]
    OBVIOUS
  <2> QED
    BY <2>1 DEF SystemInit, GovernanceTypeOK
<1>4. TotalsExact
  BY TotalsInit DEF SystemInit
<1>5. ASSUME NEW o \in Offerings PROVE IssuedAhead(o) = 0
  <2>1. shareTotal[o] \in Int /\ sharesIssued[o] = shareTotal[o]
    BY <1>1, <1>4 DEF TypeOK, RegisterTypeOK, TotalsExact
  <2> QED
    BY <2>1 DEF IssuedAhead
<1> QED
  BY <1>1, <1>2, <1>3, <1>4, <1>5 DEF SystemTypeOK, RunningTotals, TotalsExact

(***************************************************************************)
(* Every reachable state of the whole is well typed, batches included: no  *)
(* batch leaves a share or the total of the shares above 100%, or a        *)
(* schedule that cannot price a period; a committed snapshot has slots and *)
(* weights of its own, and every proposal a ballot.                        *)
(***************************************************************************)
THEOREM SystemTypeCorrect == SystemSpec => [](SystemTypeOK /\ RunningTotals)
<1>1. SystemInit => SystemTypeOK /\ RunningTotals
  BY SystemTypeInit
<1>2. SystemTypeOK /\ RunningTotals /\ [SystemNext]_systemVars => (SystemTypeOK /\ RunningTotals)'
  <2> SUFFICES ASSUME SystemTypeOK, RunningTotals, [SystemNext]_systemVars
               PROVE  (SystemTypeOK /\ RunningTotals)'
    OBVIOUS
  <2>1. TypeOK' /\ RunningTotals'
    BY MoneyTypeStep DEF SystemTypeOK
  <2>2. SnapshotTypeOK' /\ GovernanceTypeOK'
    BY SnapshotTypeStep, GovernanceTypeStep
  <2> QED
    BY <2>1, <2>2 DEF SystemTypeOK
<1> QED
  BY <1>1, <1>2, PTL DEF SystemSpec

\* Every step keeps the second total a batch has not left behind.
LEMMA IssuedStep ==
  ASSUME SystemTypeOK, RunningTotals, SharesAddUp, [SystemNext]_systemVars
  PROVE  \A o \in Offerings : (drifted[o] \/ IssuedAhead(o) = 0)'
<1>a. TypeOK /\ SnapshotTypeOK
  BY DEF SystemTypeOK
<1>1. ASSUME NEW o \in Offerings PROVE drifted[o] \/ IssuedAhead(o) = 0
  <2>1. shareTotal[o] \in Int
    BY <1>a DEF TypeOK, RegisterTypeOK
  <2> QED
    BY <2>1 DEF SharesAddUp, IssuedAhead
<1>2. ASSUME [Next]_vars, UNCHANGED drifted
      PROVE  \A o \in Offerings : (drifted[o] \/ IssuedAhead(o) = 0)'
  <2>1. \A o \in Offerings : IssuedAhead(o)' = IssuedAhead(o)
    BY <1>a, <1>2, TotalsStep DEF KeepsTotals
  <2> QED
    BY <1>1, <1>2, <2>1
<1>3. CASE MoneyStep
  BY <1>2, <1>3 DEF MoneyStep, snapshotVars
<1>4. ASSUME NEW o \in Offerings, QuietStep(o)
      PROVE  \A q \in Offerings : (drifted[q] \/ IssuedAhead(q) = 0)'
  BY <1>2, <1>4, QuietLeavesMoney
<1>5. ASSUME NEW o \in Offerings, DepositStep(o)
      PROVE  \A q \in Offerings : (drifted[q] \/ IssuedAhead(q) = 0)'
  <2>1. UNCHANGED <<shareTotal, sharesIssued, drifted>>
    BY <1>5, DepositLeavesRegister DEF registerVars
  <2> QED
    BY <1>1, <2>1 DEF IssuedAhead
<1>6. ASSUME NEW o \in Offerings, BatchStep(o), NEW q \in Offerings
      PROVE  (drifted[q] \/ IssuedAhead(q) = 0)'
  <2>1. PICK ref \in SnapshotRefs, start \in StartIndexes, batch \in Batches :
          apply_snapshot_shares(o, ref, start, batch)
    BY <1>6 DEF BatchStep
  <2>2. q # o \/ Followed(o, batch) => IssuedAhead(q)' = IssuedAhead(q)
    BY <1>a, <2>1, BatchTotals
  <2>3. drifted' = [drifted EXCEPT ![o] = drifted[o] \/ ~Followed(o, batch)]
    BY <2>1, BatchSnapshot
  <2>4. drifted'[q] <=> drifted[q] \/ (q = o /\ ~Followed(o, batch))
    BY <1>a, <2>3 DEF SnapshotTypeOK
  <2> QED
    BY <1>1, <2>2, <2>4
<1> QED
  BY <1>3, <1>4, <1>5, <1>6, StepKinds

(***************************************************************************)
(* Whatever single shares and batches are written, in any order, and       *)
(* however often a batch names a holder, the running total is the sum of   *)
(* the shares and within 100%, and TotalSharesIssued is that sum until a   *)
(* batch is applied without a cap or names a holder twice.                 *)
(***************************************************************************)
THEOREM SharesAlwaysAddUp == SystemSpec => []SharesAddUp
<1> DEFINE Issued == \A o \in Offerings : drifted[o] \/ IssuedAhead(o) = 0
<1>1. SystemTypeOK /\ RunningTotals => (Issued <=> SharesAddUp)
  <2> SUFFICES ASSUME SystemTypeOK, RunningTotals PROVE Issued <=> SharesAddUp
    OBVIOUS
  <2>1. ASSUME NEW o \in Offerings
        PROVE  /\ shareTotal[o] = SumFunction(share[o])
               /\ shareTotal[o] <= FULL_BPS
               /\ IssuedAhead(o) = 0 <=> sharesIssued[o] = shareTotal[o]
    <3>1. shareTotal[o] \in 0..FULL_BPS /\ sharesIssued[o] \in Int
      BY DEF SystemTypeOK, TypeOK, RegisterTypeOK
    <3>2. FULL_BPS \in Nat
      BY DEF FULL_BPS
    <3> QED
      BY <3>1, <3>2 DEF RunningTotals, IssuedAhead
  <2> QED
    BY <2>1 DEF SharesAddUp
<1>2. SystemInit => SystemTypeOK /\ RunningTotals /\ Issued
  BY SystemTypeInit
<1>3. SystemTypeOK /\ RunningTotals /\ SharesAddUp /\ [SystemNext]_systemVars => Issued'
  BY IssuedStep
<1> HIDE DEF Issued
<1> QED
  BY <1>1, <1>2, <1>3, SystemTypeCorrect, PTL DEF SystemSpec

-----------------------------------------------------------------------------
(***************************************************************************)
(* What was recorded stays                                                 *)
(***************************************************************************)

\* Only commits and batches change what the snapshots say.
LEMMA SnapshotSteps ==
  ASSUME [SystemNext]_systemVars
  PROVE  \/ UNCHANGED <<entry, lastCommitRef, slot, slotCount, weight, batches>>
         \/ \E o \in Offerings, ref \in SnapshotRefs, hash \in Hashes :
              commit_snapshot(o, ref, hash)
         \/ \E o \in Offerings : BatchStep(o)
<1>1. ASSUME NEW o \in Offerings, QuietStep(o)
      PROVE  \/ UNCHANGED <<entry, lastCommitRef, slot, slotCount, weight, batches>>
             \/ \E ref \in SnapshotRefs, hash \in Hashes : commit_snapshot(o, ref, hash)
  <2>1. ASSUME NEW enabled, set_snapshot_config(o, enabled)
        PROVE  UNCHANGED <<entry, lastCommitRef, slot, slotCount, weight, batches>>
    BY <2>1, Zenon DEF set_snapshot_config
  <2>2. ASSUME GovernanceNext(o)
        PROVE  UNCHANGED <<entry, lastCommitRef, slot, slotCount, weight, batches>>
    BY <2>2, Zenon DEF GovernanceNext, create_gov_proposal, cast_vote, close_gov_proposal,
      snapshotVars
  <2> QED
    BY <1>1, <2>1, <2>2, Zenon DEF QuietStep
<1>2. ASSUME NEW o \in Offerings, DepositStep(o)
      PROVE  UNCHANGED <<entry, lastCommitRef, slot, slotCount, weight, batches>>
  BY <1>2, DepositLeavesRegister
<1>3. ASSUME MoneyStep
      PROVE  UNCHANGED <<entry, lastCommitRef, slot, slotCount, weight, batches>>
  BY <1>3, Zenon DEF MoneyStep, snapshotVars
<1> QED
  BY <1>1, <1>2, <1>3, StepKinds, Zenon

\* Only the three calls of the votes change proposals and ballots.
LEMMA GovernanceSteps ==
  ASSUME [SystemNext]_systemVars
  PROVE  \/ UNCHANGED governanceVars
         \/ \E o \in Offerings :
              /\ UNCHANGED snapshotVars
              /\ \/ create_gov_proposal(o)
                 \/ \E id \in 1..MaxProposals, v \in Holders, approve \in BOOLEAN :
                      cast_vote(o, id, v, approve)
                 \/ \E id \in 1..MaxProposals : close_gov_proposal(o, id)
<1>1. ASSUME NEW o \in Offerings, QuietStep(o)
      PROVE  UNCHANGED governanceVars \/ GovernanceNext(o)
  BY <1>1, Zenon DEF QuietStep, set_snapshot_config, commit_snapshot
<1>2. ASSUME NEW o \in Offerings, GovernanceNext(o)
      PROVE  /\ UNCHANGED snapshotVars
             /\ \/ create_gov_proposal(o)
                \/ \E id \in 1..MaxProposals, v \in Holders, approve \in BOOLEAN :
                     cast_vote(o, id, v, approve)
                \/ \E id \in 1..MaxProposals : close_gov_proposal(o, id)
  <2>1. ASSUME create_gov_proposal(o)
        PROVE  UNCHANGED snapshotVars
    BY <2>1, Zenon DEF create_gov_proposal
  <2>2. ASSUME NEW id, NEW v, NEW approve, cast_vote(o, id, v, approve)
        PROVE  UNCHANGED snapshotVars
    BY <2>2, Zenon DEF cast_vote
  <2>3. ASSUME NEW id, close_gov_proposal(o, id)
        PROVE  UNCHANGED snapshotVars
    BY <2>3, Zenon DEF close_gov_proposal
  <2>4. \/ create_gov_proposal(o)
        \/ \E id \in 1..MaxProposals, v \in Holders, approve \in BOOLEAN : cast_vote(o, id, v, approve)
        \/ \E id \in 1..MaxProposals : close_gov_proposal(o, id)
    BY <1>2, Zenon DEF GovernanceNext
  <2> QED
    BY <2>1, <2>2, <2>3, <2>4, Zenon
<1>3. ASSUME NEW o \in Offerings, DepositStep(o) \/ BatchStep(o)
      PROVE  UNCHANGED governanceVars
  BY <1>3, DepositLeavesRegister, BatchLeavesGovernance
<1>4. ASSUME MoneyStep
      PROVE  UNCHANGED governanceVars
  BY <1>4, Zenon DEF MoneyStep
<1> QED
  BY <1>1, <1>2, <1>3, <1>4, StepKinds, Zenon

(***************************************************************************)
(* The last committed reference is committed, and none above it is: this   *)
(* is why a commit never lands on a committed snapshot, and why a proposal *)
(* always pins one.                                                        *)
(***************************************************************************)
RefsCommitted ==
  \A o \in Offerings :
    /\ \A r \in DOMAIN entry[o] : r <= lastCommitRef[o]
    /\ lastCommitRef[o] > 0 => lastCommitRef[o] \in DOMAIN entry[o]

\* A batch leaves the set of the committed snapshots alone.
LEMMA BatchKeepsRefs ==
  ASSUME SystemTypeOK, NEW o \in Offerings, BatchStep(o)
  PROVE  lastCommitRef' = lastCommitRef /\ \A q \in Offerings : DOMAIN entry'[q] = DOMAIN entry[q]
<1>1. PICK ref \in SnapshotRefs, start \in StartIndexes, batch \in Batches :
        apply_snapshot_shares(o, ref, start, batch)
  BY DEF BatchStep
<1> DEFINE new == EntryAfter(o, ref, start, batch)
<1>2. entry' = [entry EXCEPT ![o] = [entry[o] EXCEPT ![ref] = new]]
  BY <1>1, BatchSnapshot
<1>3. DOMAIN entry = Offerings /\ entry[o] \in [DOMAIN entry[o] -> Entry]
  BY DEF SystemTypeOK, SnapshotTypeOK
<1> HIDE DEF new
<1>4. \A q \in Offerings : DOMAIN entry'[q] = DOMAIN entry[q]
  BY <1>2, <1>3
<1> QED
  BY <1>4, BatchLeavesGovernance

LEMMA RefsAreNaturals ==
  ASSUME SystemTypeOK, NEW o \in Offerings
  PROVE  lastCommitRef[o] \in Nat /\ lastSnapshotRef[o] \in Nat
<1>1. \A r \in SnapshotRefs \cup {0} : r \in Nat
  BY SnapshotInputs
<1>2. lastCommitRef[o] \in SnapshotRefs \cup {0} /\ lastSnapshotRef[o] \in SnapshotRefs \cup {0}
  BY DEF SystemTypeOK, SnapshotTypeOK
<1> QED
  BY <1>1, <1>2

LEMMA RefsStep ==
  ASSUME SystemTypeOK, RefsCommitted, [SystemNext]_systemVars
  PROVE  RefsCommitted'
<1>a. /\ DOMAIN entry = Offerings /\ lastCommitRef \in [Offerings -> SnapshotRefs \cup {0}]
      /\ SnapshotRefs \subseteq Nat
      /\ \A o \in Offerings : DOMAIN entry[o] \subseteq SnapshotRefs
  BY SnapshotInputs DEF SystemTypeOK, SnapshotTypeOK
<1>1. ASSUME UNCHANGED <<entry, lastCommitRef>>
      PROVE  RefsCommitted'
  BY <1>1 DEF RefsCommitted
<1>2. ASSUME NEW o \in Offerings, NEW ref \in SnapshotRefs, NEW hash \in Hashes,
             commit_snapshot(o, ref, hash)
      PROVE  RefsCommitted'
  <2> DEFINE new == EntriesAfterCommit(o, ref, hash)
  <2>1. /\ ref > lastCommitRef[o]
        /\ entry' = [entry EXCEPT ![o] = new]
        /\ lastCommitRef' = [lastCommitRef EXCEPT ![o] = ref]
    BY <1>2, CommitWrites
  <2>2. DOMAIN new = DOMAIN entry[o] \cup {ref}
    BY DEF EntriesAfterCommit
  <2> HIDE DEF new
  <2>3. ASSUME NEW q \in Offerings
        PROVE  /\ \A r \in DOMAIN entry'[q] : r <= lastCommitRef'[q]
               /\ lastCommitRef'[q] > 0 => lastCommitRef'[q] \in DOMAIN entry'[q]
    <3>1. CASE q = o
      <4>1. DOMAIN entry'[q] = DOMAIN entry[o] \cup {ref} /\ lastCommitRef'[q] = ref
        BY <1>a, <2>1, <2>2, <3>1
      <4>2. \A r \in DOMAIN entry[o] : r \in Nat /\ r <= lastCommitRef[o]
        BY <1>a DEF RefsCommitted
      <4>3. ref \in Nat /\ lastCommitRef[o] \in Nat
        BY SnapshotInputs, RefsAreNaturals
      <4>4. \A r \in DOMAIN entry[o] : r <= ref
        BY <2>1, <4>2, <4>3
      <4> QED
        BY <4>1, <4>3, <4>4
    <3>2. CASE q # o
      <4>1. entry'[q] = entry[q] /\ lastCommitRef'[q] = lastCommitRef[q]
        BY <1>a, <2>1, <3>2
      <4> QED
        BY <4>1 DEF RefsCommitted
    <3> QED
      BY <3>1, <3>2
  <2> QED
    BY <2>3 DEF RefsCommitted
<1>3. ASSUME NEW o \in Offerings, BatchStep(o)
      PROVE  RefsCommitted'
  BY <1>3, BatchKeepsRefs DEF RefsCommitted
<1> QED
  BY <1>1, <1>2, <1>3, SnapshotSteps

\* Neither reference ever falls.
LEMMA RefsGrow ==
  ASSUME SystemTypeOK, [SystemNext]_systemVars, NEW q \in Offerings
  PROVE  lastCommitRef'[q] >= lastCommitRef[q] /\ lastSnapshotRef'[q] >= lastSnapshotRef[q]
<1>a. /\ lastCommitRef \in [Offerings -> SnapshotRefs \cup {0}]
      /\ lastSnapshotRef \in [Offerings -> SnapshotRefs \cup {0}]
  BY DEF SystemTypeOK, SnapshotTypeOK
<1>b. lastCommitRef[q] \in Nat /\ lastSnapshotRef[q] \in Nat
  BY RefsAreNaturals
<1>1. ASSUME UNCHANGED <<lastCommitRef, lastSnapshotRef>>
      PROVE  lastCommitRef'[q] >= lastCommitRef[q] /\ lastSnapshotRef'[q] >= lastSnapshotRef[q]
  BY <1>b, <1>1
<1>2. ASSUME NEW o \in Offerings, NEW ref, NEW hash, commit_snapshot(o, ref, hash),
             ref \in SnapshotRefs
      PROVE  lastCommitRef'[q] >= lastCommitRef[q] /\ lastSnapshotRef'[q] >= lastSnapshotRef[q]
  <2>1. /\ ref > lastCommitRef[o]
        /\ lastCommitRef' = [lastCommitRef EXCEPT ![o] = ref]
        /\ lastSnapshotRef' = lastSnapshotRef
    BY <1>2, CommitWrites
  <2>2. lastCommitRef'[q] = IF q = o THEN ref ELSE lastCommitRef[q]
    BY <1>a, <2>1
  <2>3. ref \in Nat
    BY <1>2, SnapshotInputs
  <2> QED
    BY <1>b, <2>1, <2>2, <2>3
<1>3. ASSUME NEW o \in Offerings, QuietStep(o)
      PROVE  lastCommitRef'[q] >= lastCommitRef[q] /\ lastSnapshotRef'[q] >= lastSnapshotRef[q]
  <2>1. ASSUME NEW enabled, set_snapshot_config(o, enabled)
        PROVE  UNCHANGED <<lastCommitRef, lastSnapshotRef>>
    BY <2>1, Zenon DEF set_snapshot_config
  <2>2. ASSUME GovernanceNext(o)
        PROVE  UNCHANGED <<lastCommitRef, lastSnapshotRef>>
    BY <2>2, Zenon DEF GovernanceNext, create_gov_proposal, cast_vote, close_gov_proposal,
      snapshotVars
  <2> QED
    BY <1>1, <1>2, <1>3, <2>1, <2>2, Zenon DEF QuietStep
<1>4. ASSUME NEW o \in Offerings, DepositStep(o)
      PROVE  lastCommitRef'[q] >= lastCommitRef[q] /\ lastSnapshotRef'[q] >= lastSnapshotRef[q]
  <2>1. PICK t \in PayTokens, a \in Amounts, p \in 1..MaxPeriods, r \in SnapshotRefs :
          deposit_revenue_with_snapshot(o, t, a, p, r)
    BY <1>4 DEF DepositStep
  <2>2. r > lastSnapshotRef[o] /\ lastSnapshotRef' = [lastSnapshotRef EXCEPT ![o] = r]
    BY <2>1, Zenon DEF deposit_revenue_with_snapshot
  <2>3. lastSnapshotRef'[q] = IF q = o THEN r ELSE lastSnapshotRef[q]
    BY <1>a, <2>2
  <2>4. lastCommitRef' = lastCommitRef
    BY <1>4, DepositLeavesRegister
  <2>5. r \in Nat
    BY SnapshotInputs
  <2> QED
    BY <1>b, <2>2, <2>3, <2>4, <2>5
<1>5. ASSUME NEW o \in Offerings, BatchStep(o)
      PROVE  lastCommitRef'[q] >= lastCommitRef[q] /\ lastSnapshotRef'[q] >= lastSnapshotRef[q]
  BY <1>1, <1>5, BatchLeavesGovernance
<1>6. ASSUME MoneyStep
      PROVE  lastCommitRef'[q] >= lastCommitRef[q] /\ lastSnapshotRef'[q] >= lastSnapshotRef[q]
  BY <1>1, <1>6 DEF MoneyStep, snapshotVars
<1> QED
  BY <1>3, <1>4, <1>5, <1>6, StepKinds

\* A committed snapshot keeps its hash and time, and never counts less.
EntriesKept(o) ==
  \A r \in DOMAIN entry[o] :
    /\ r \in DOMAIN entry'[o]
    /\ entry'[o][r].hash = entry[o][r].hash
    /\ entry'[o][r].committed_at = entry[o][r].committed_at
    /\ entry'[o][r].holder_count >= entry[o][r].holder_count
    /\ entry'[o][r].total_bps >= entry[o][r].total_bps

LEMMA EntriesStep ==
  ASSUME SystemTypeOK, RefsCommitted, [SystemNext]_systemVars, NEW q \in Offerings
  PROVE  EntriesKept(q)
<1>a. DOMAIN entry = Offerings /\ entry[q] \in [DOMAIN entry[q] -> Entry]
  BY DEF SystemTypeOK, SnapshotTypeOK
<1>b. \A r \in DOMAIN entry[q] : entry[q][r].holder_count \in Nat /\ entry[q][r].total_bps \in Nat
  BY <1>a DEF Entry
<1>1. ASSUME \A r \in DOMAIN entry[q] : r \in DOMAIN entry'[q] /\ entry'[q][r] = entry[q][r]
      PROVE  EntriesKept(q)
  BY <1>b, <1>1 DEF EntriesKept
<1>2. ASSUME NEW o \in Offerings, NEW ref \in SnapshotRefs, NEW hash \in Hashes,
             commit_snapshot(o, ref, hash)
      PROVE  EntriesKept(q)
  <2> DEFINE new == EntriesAfterCommit(o, ref, hash)
  <2>1. ref > lastCommitRef[o] /\ entry' = [entry EXCEPT ![o] = new]
    BY <1>2, CommitWrites
  <2>2. ref \notin DOMAIN entry[o]
    <3>1. lastCommitRef[o] \in Nat /\ ref \in Nat
      BY SnapshotInputs, RefsAreNaturals
    <3>2. ~(ref <= lastCommitRef[o])
      BY <2>1, <3>1
    <3> QED
      BY <3>2 DEF RefsCommitted
  <2>3. \A r \in DOMAIN entry[o] : r \in DOMAIN new /\ new[r] = entry[o][r]
    BY <2>2 DEF EntriesAfterCommit
  <2> HIDE DEF new
  <2>4. entry'[q] = IF q = o THEN new ELSE entry[q]
    BY <1>a, <2>1
  <2> QED
    BY <1>1, <2>3, <2>4
<1>3. ASSUME NEW o \in Offerings, BatchStep(o)
      PROVE  EntriesKept(q)
  <2>1. PICK ref \in SnapshotRefs, start \in StartIndexes, batch \in Batches :
          apply_snapshot_shares(o, ref, start, batch)
    BY <1>3 DEF BatchStep
  <2> DEFINE new == EntryAfter(o, ref, start, batch)
             old == entry[o][ref]
  <2>2. /\ ref \in DOMAIN entry[o]
        /\ entry' = [entry EXCEPT ![o] = [entry[o] EXCEPT ![ref] = new]]
        /\ Len(batch) \in Nat /\ DOMAIN batch = 1 .. Len(batch)
        /\ \A k \in DOMAIN batch : batch[k] \in Write
    BY <2>1, BatchSnapshot
  <2>3. /\ new.hash = old.hash /\ new.committed_at = old.committed_at
        /\ new.holder_count >= old.holder_count /\ new.total_bps >= old.total_bps
    <3>1. old \in Entry /\ old.holder_count \in Nat /\ old.total_bps \in Nat
      <4>1. old \in Entry
        BY <2>2 DEF SystemTypeOK, SnapshotTypeOK
      <4> QED
        BY <4>1 DEF Entry
    <3>2. CountAfter(o, ref, start, batch) \in Nat
      BY <2>1, BatchSnapshotType
    <3>3. AddedBps(batch) \in Nat
      BY <2>2, AddedBpsType
    <3> DEFINE a == Highest(old.holder_count, CountAfter(o, ref, start, batch))
               b == old.total_bps + AddedBps(batch)
    <3>4. a >= old.holder_count /\ b >= old.total_bps
      BY <3>1, <3>2, <3>3 DEF Highest
    <3>5. new = [old EXCEPT !.holder_count = a, !.total_bps = b]
      BY DEF EntryAfter
    <3> HIDE DEF new, a, b, old
    <3>6. /\ new.hash = old.hash /\ new.committed_at = old.committed_at
          /\ new.holder_count = a /\ new.total_bps = b
      BY <3>1, <3>5 DEF Entry
    <3> QED
      BY <3>4, <3>6
  <2> HIDE DEF new
  <2>4. ASSUME q = o PROVE EntriesKept(q)
    <3>1. DOMAIN entry'[o] = DOMAIN entry[o] /\ entry'[o][ref] = new
      BY <1>a, <2>2, <2>4
    <3>2. \A r \in DOMAIN entry[o] : r # ref => entry'[o][r] = entry[o][r]
      BY <1>a, <2>2, <2>4
    <3> QED
      BY <1>b, <2>3, <2>4, <3>1, <3>2 DEF EntriesKept
  <2>5. ASSUME q # o PROVE EntriesKept(q)
    <3>1. entry'[q] = entry[q]
      BY <1>a, <2>2, <2>5
    <3> QED
      BY <1>1, <3>1
  <2> QED
    BY <2>4, <2>5
<1> QED
  BY <1>1, <1>2, <1>3, SnapshotSteps

\* A vote stays, a proposal stays on its snapshot, a closed one as it is.
VotesKept(o) ==
  \A id \in DOMAIN proposal[o] :
    /\ id \in DOMAIN proposal'[o]
    /\ proposal'[o][id].snapshot_id = proposal[o][id].snapshot_id
    /\ \A v \in DOMAIN ballot[o][id] :
         v \in DOMAIN ballot'[o][id] /\ ballot'[o][id][v] = ballot[o][id][v]
    /\ ~proposal[o][id].open =>
         proposal'[o][id] = proposal[o][id] /\ ballot'[o][id] = ballot[o][id]

\* A created proposal comes last, with no votes.
LEMMA ProposalCreated ==
  ASSUME SystemTypeOK, NEW o \in Offerings, create_gov_proposal(o)
  PROVE  LET n == Len(proposal[o]) + 1
             new == [snapshot_id |-> lastCommitRef[o], yes_weight |-> 0, no_weight |-> 0,
                     open |-> TRUE, batchesThen |-> batches[o][lastCommitRef[o]]]
         IN  /\ n \notin DOMAIN proposal[o]
             /\ DOMAIN proposal'[o] = DOMAIN proposal[o] \cup {n}
             /\ \A id \in DOMAIN proposal[o] :
                  proposal'[o][id] = proposal[o][id] /\ ballot'[o][id] = ballot[o][id]
             /\ proposal'[o][n] = new /\ ballot'[o][n] = Empty
             /\ \A q \in Offerings : q # o => proposal'[q] = proposal[q] /\ ballot'[q] = ballot[q]
<1> DEFINE n == Len(proposal[o]) + 1
           new == [snapshot_id |-> lastCommitRef[o], yes_weight |-> 0, no_weight |-> 0,
                   open |-> TRUE, batchesThen |-> batches[o][lastCommitRef[o]]]
<1>1. /\ proposal' = [proposal EXCEPT ![o] = Append(proposal[o], new)]
      /\ ballot' = [ballot EXCEPT ![o] = Append(ballot[o], Empty)]
  BY DEF create_gov_proposal
<1>2. /\ proposal \in [Offerings -> Seq(Proposal)] /\ ballot \in [Offerings -> Seq(Votes)]
      /\ Len(ballot[o]) = Len(proposal[o])
  BY GovernanceTypes DEF SystemTypeOK, SequenceTypes
<1> HIDE DEF new
<1>3. /\ proposal'[o] = Append(proposal[o], new) /\ ballot'[o] = Append(ballot[o], Empty)
      /\ \A q \in Offerings : q # o => proposal'[q] = proposal[q] /\ ballot'[q] = ballot[q]
  BY <1>1, <1>2
<1>4. proposal[o] \in Seq(Proposal) /\ ballot[o] \in Seq(Votes) /\ Len(ballot[o]) = Len(proposal[o])
  BY <1>2
<1>5. /\ n \notin DOMAIN proposal[o]
      /\ DOMAIN Append(proposal[o], new) = DOMAIN proposal[o] \cup {n}
  BY <1>4
<1>6. /\ \A id \in DOMAIN proposal[o] : Append(proposal[o], new)[id] = proposal[o][id]
      /\ Append(proposal[o], new)[n] = new
  BY <1>4
<1>7. /\ \A id \in DOMAIN proposal[o] : Append(ballot[o], Empty)[id] = ballot[o][id]
      /\ Append(ballot[o], Empty)[n] = Empty
  BY <1>4
<1> HIDE DEF n
<1> QED
  BY <1>3, <1>5, <1>6, <1>7, Zenon DEF n, new

LEMMA VotesStep ==
  ASSUME SystemTypeOK, [SystemNext]_systemVars, NEW q \in Offerings
  PROVE  VotesKept(q)
<1>a. /\ proposal \in [Offerings -> Seq(Proposal)] /\ ballot \in [Offerings -> Seq(Votes)]
      /\ DOMAIN ballot[q] = DOMAIN proposal[q]
      /\ GovernanceTypeOK /\ SnapshotTypeOK
  BY GovernanceTypes, ProposalsType DEF SystemTypeOK, SequenceTypes
<1>1. ASSUME \A id \in DOMAIN proposal[q] :
               id \in DOMAIN proposal'[q] /\ proposal'[q][id] = proposal[q][id]
               /\ ballot'[q][id] = ballot[q][id]
      PROVE  VotesKept(q)
  BY <1>1 DEF VotesKept
<1>2. ASSUME UNCHANGED governanceVars
      PROVE  VotesKept(q)
  BY <1>1, <1>2 DEF governanceVars
<1>3. ASSUME NEW o \in Offerings, create_gov_proposal(o)
      PROVE  VotesKept(q)
  <2>1. CASE q = o
    BY <1>1, <1>3, <2>1, ProposalCreated
  <2>2. CASE q # o
    BY <1>1, <1>3, <2>2, ProposalCreated
  <2> QED
    BY <2>1, <2>2
<1>4. ASSUME NEW o \in Offerings, NEW id, NEW v, NEW approve, cast_vote(o, id, v, approve)
      PROVE  VotesKept(q)
  <2> DEFINE w == VoteWeight(o, id, v)
             p == proposal[o][id]
             votes == ballot[o][id]
             p2 == [p EXCEPT !.yes_weight = IF approve THEN @ + w ELSE @,
                             !.no_weight = IF approve THEN @ ELSE @ + w]
             votes2 == [u \in DOMAIN votes \cup {v} |->
                          IF u = v THEN [approve |-> approve, weight |-> w] ELSE votes[u]]
  <2>1. /\ id \in DOMAIN proposal[o] /\ p.open /\ v \notin DOMAIN votes
        /\ proposal' = [proposal EXCEPT ![o] = [proposal[o] EXCEPT ![id] = p2]]
        /\ ballot' = [ballot EXCEPT ![o] = [ballot[o] EXCEPT ![id] = votes2]]
    <3>1. VoteCast(o, id, v, approve)
      BY <1>4, VoteIsCast
    <3> QED
      BY <3>1 DEF VoteCast
  <2>2. p \in Proposal /\ DOMAIN ballot[o] = DOMAIN proposal[o]
    BY <1>a, <2>1, ProposalsType
  <2>3. p2.snapshot_id = p.snapshot_id
    BY <2>2 DEF Proposal
  <2>4. \A u \in DOMAIN votes : u \in DOMAIN votes2 /\ votes2[u] = votes[u]
    BY <2>1
  <2> HIDE DEF p2, votes2
  <2>5. ASSUME q = o PROVE VotesKept(q)
    <3>1. /\ DOMAIN proposal'[o] = DOMAIN proposal[o]
          /\ proposal'[o][id] = p2 /\ ballot'[o][id] = votes2
          /\ \A i \in DOMAIN proposal[o] : i # id =>
               proposal'[o][i] = proposal[o][i] /\ ballot'[o][i] = ballot[o][i]
      BY <1>a, <2>1, <2>2
    <3> QED
      BY <2>1, <2>3, <2>4, <2>5, <3>1 DEF VotesKept
  <2>6. ASSUME q # o PROVE VotesKept(q)
    BY <1>1, <1>a, <2>1, <2>6
  <2> QED
    BY <2>5, <2>6
<1>5. ASSUME NEW o \in Offerings, NEW id, close_gov_proposal(o, id)
      PROVE  VotesKept(q)
  <2> DEFINE p2 == [proposal[o][id] EXCEPT !.open = FALSE]
  <2>1. /\ id \in DOMAIN proposal[o] /\ proposal[o][id].open
        /\ proposal' = [proposal EXCEPT ![o] = [proposal[o] EXCEPT ![id] = p2]]
        /\ ballot' = ballot
    BY <1>5 DEF close_gov_proposal
  <2>2. proposal[o][id] \in Proposal
    BY <1>a, <2>1, ProposalsType
  <2>3. p2.snapshot_id = proposal[o][id].snapshot_id
    BY <2>2 DEF Proposal
  <2> HIDE DEF p2
  <2>4. ASSUME q = o PROVE VotesKept(q)
    <3>1. /\ DOMAIN proposal'[o] = DOMAIN proposal[o] /\ proposal'[o][id] = p2
          /\ \A i \in DOMAIN proposal[o] : i # id => proposal'[o][i] = proposal[o][i]
      BY <1>a, <2>1
    <3> QED
      BY <2>1, <2>3, <2>4, <3>1 DEF VotesKept
  <2>5. ASSUME q # o PROVE VotesKept(q)
    BY <1>1, <1>a, <2>1, <2>5
  <2> QED
    BY <2>4, <2>5
<1> QED
  BY <1>2, <1>3, <1>4, <1>5, GovernanceSteps

\* A reference that is committed is always at most the last one.
LEMMA RefsAlwaysCommitted == SystemSpec => [](SystemTypeOK /\ RefsCommitted)
<1>1. SystemInit => RefsCommitted
  BY DEF SystemInit, RefsCommitted, Empty
<1>2. SystemTypeOK /\ RefsCommitted /\ [SystemNext]_systemVars => RefsCommitted'
  BY RefsStep
<1> QED
  BY <1>1, <1>2, SystemTypeCorrect, PTL DEF SystemSpec

(***************************************************************************)
(* What was recorded stays, whatever is called next: a commit always names *)
(* a reference above all committed ones and so overwrites none, and        *)
(* batches, votes and closures only add.                                   *)
(***************************************************************************)
THEOREM RecordsStayFinal == SystemSpec => RecordsAreFinal
<1>1. SystemTypeOK /\ RefsCommitted /\ [SystemNext]_systemVars =>
        \A o \in Offerings :
          /\ get_last_snapshot_ref(o)' >= get_last_snapshot_ref(o)
          /\ EntriesKept(o)
          /\ VotesKept(o)
  <2> SUFFICES ASSUME SystemTypeOK, RefsCommitted, [SystemNext]_systemVars, NEW o \in Offerings
               PROVE  /\ get_last_snapshot_ref(o)' >= get_last_snapshot_ref(o)
                      /\ EntriesKept(o)
                      /\ VotesKept(o)
    OBVIOUS
  <2>1. /\ lastCommitRef'[o] >= lastCommitRef[o] /\ lastSnapshotRef'[o] >= lastSnapshotRef[o]
        /\ lastCommitRef[o] \in Nat /\ lastSnapshotRef[o] \in Nat
    BY RefsGrow, RefsAreNaturals
  <2>2. lastCommitRef'[o] \in Nat /\ lastSnapshotRef'[o] \in Nat
    <3>1. \A r \in SnapshotRefs \cup {0} : r \in Nat
      BY SnapshotInputs
    <3>2. lastCommitRef'[o] \in SnapshotRefs \cup {0} /\ lastSnapshotRef'[o] \in SnapshotRefs \cup {0}
      BY SnapshotTypeStep DEF SnapshotTypeOK
    <3> QED
      BY <3>1, <3>2
  <2>3. get_last_snapshot_ref(o)' >= get_last_snapshot_ref(o)
    BY <2>1, <2>2 DEF get_last_snapshot_ref
  <2> QED
    BY <2>3, EntriesStep, VotesStep
<1> QED
  BY <1>1, RefsAlwaysCommitted, PTL DEF SystemSpec, RecordsAreFinal, EntriesKept, VotesKept

-----------------------------------------------------------------------------
(***************************************************************************)
(* The counts and the total of a snapshot                                  *)
(***************************************************************************)

\* The shares of a list of writes, by slot.
Bps(writes) == [i \in DOMAIN writes |-> writes[i].bps]

\* The slots and the weights of a snapshot are within what its entry says.
Matches(slots, count, weights, e) ==
  /\ \A i \in DOMAIN slots : i < count /\ slots[i].holder \in DOMAIN weights
  /\ e.holder_count = count
  /\ SumFunction(Bps(slots)) <= e.total_bps
  /\ SumFunction(weights) <= e.total_bps

(***************************************************************************)
(* Every committed snapshot matches its entry; of the others nothing is    *)
(* written, so a commit starts from nothing.                               *)
(***************************************************************************)
SnapshotsMatch ==
  \A o \in Offerings, r \in SnapshotRefs :
    IF r \in DOMAIN entry[o]
      THEN Matches(slot[o][r], slotCount[o][r], weight[o][r], entry[o][r])
      ELSE slotCount[o][r] = 0 /\ DOMAIN slot[o][r] = {} /\ DOMAIN weight[o][r] = {}

LEMMA NothingMatches ==
  ASSUME NEW slots, NEW weights, NEW e, DOMAIN slots = {}, DOMAIN weights = {},
         e.holder_count = 0, e.total_bps = 0
  PROVE  Matches(slots, 0, weights, e)
<1>1. SumFunction(weights) = 0
  <2>1. SumFunctionOnSet(weights, {}) = 0
    BY SumOfNone
  <2> QED
    BY <2>1, Zenon DEF SumFunction
<1>2. SumFunction(Bps(slots)) = 0
  <2> DEFINE f == Bps(slots)
  <2>1. DOMAIN f = {}
    BY DEF Bps
  <2> HIDE DEF f
  <2>2. SumFunctionOnSet(f, {}) = 0
    BY SumOfNone
  <2> QED
    BY <2>1, <2>2, Zenon DEF SumFunction, f
<1> QED
  BY <1>1, <1>2 DEF Matches

\* What the slots hold grows by no more than the batch.
LEMMA SlotsAddUp ==
  ASSUME NEW o, NEW ref, NEW start \in Nat, NEW batch, Len(batch) \in Nat,
         DOMAIN batch = 1 .. Len(batch), \A k \in DOMAIN batch : batch[k].bps \in Nat,
         DOMAIN slot[o][ref] \subseteq Nat, IsFiniteSet(DOMAIN slot[o][ref]),
         \A i \in DOMAIN slot[o][ref] : slot[o][ref][i].bps \in Nat
  PROVE  SumFunction(Bps(SlotsAfter(o, ref, start, batch)))
           <= SumFunction(Bps(slot[o][ref])) + AddedBps(batch)
<1> DEFINE n == Len(batch)
           S == DOMAIN slot[o][ref]
           W == start .. start + n - 1
           f == Bps(slot[o][ref])
           g == Bps(SlotsAfter(o, ref, start, batch))
           b == Bps(batch)
           m == [i \in W |-> i - start + 1]
           T == DOMAIN batch
<1>1. /\ DOMAIN f = S /\ DOMAIN g = S \cup W /\ DOMAIN b = T /\ T = 1 .. n /\ n \in Nat
      /\ IsFiniteSet(S) /\ IsFiniteSet(W) /\ IsFiniteSet(T)
      /\ \A i \in S : f[i] \in Nat
      /\ \A k \in T : b[k] \in Nat
  BY RangeIsFinite DEF Bps, SlotsAfter
<1>2. \A i \in S \ W : g[i] = f[i]
  BY DEF Bps, SlotsAfter
<1>3. ASSUME NEW i \in W PROVE m[i] \in T /\ g[i] = b[m[i]]
  <2>1. m[i] = i - start + 1 /\ i - start + 1 \in 1 .. n
    OBVIOUS
  <2>2. SlotsAfter(o, ref, start, batch)[i] = batch[i - start + 1]
    BY DEF SlotsAfter
  <2>3. g[i] = SlotsAfter(o, ref, start, batch)[i].bps
    BY DEF Bps, SlotsAfter
  <2>4. b[i - start + 1] = batch[i - start + 1].bps
    BY <2>1 DEF Bps
  <2> QED
    BY <2>1, <2>2, <2>3, <2>4
<1>4. \A i, j \in W : m[i] = m[j] => i = j
  OBVIOUS
<1>5. AddedBps(batch) = SumFunctionOnSet(b, T)
  BY DEF AddedBps, SumFunction, Bps
<1> HIDE DEF S, W, f, g, b, m, T, n
<1>6. Renames(m, g, b, W)
  BY <1>1, <1>3, <1>4 DEF Renames
<1>7. SumFunctionOnSet(g, W) <= SumFunctionOnSet(b, T)
  BY <1>1, <1>3, <1>6, SumOfRenamedPart
<1>8. \A i \in S \cup W : g[i] \in Nat
  BY <1>1, <1>2, <1>3
<1>9. SumFunctionOnSet(g, S \cup W) <= SumFunctionOnSet(f, S) + SumFunctionOnSet(g, W)
  BY <1>1, <1>2, <1>8, SumOfOverwritten
<1>10. /\ SumFunctionOnSet(g, W) \in Nat /\ SumFunctionOnSet(b, T) \in Nat
       /\ SumFunctionOnSet(f, S) \in Nat /\ SumFunctionOnSet(g, S \cup W) \in Nat
  BY <1>1, <1>8, SumOfNaturals, FS_Union
<1>11. SumFunction(f) = SumFunctionOnSet(f, S) /\ SumFunction(g) = SumFunctionOnSet(g, S \cup W)
  BY <1>1, Zenon DEF SumFunction
<1>12. SumFunction(g) <= SumFunction(f) + AddedBps(batch)
  BY <1>5, <1>7, <1>9, <1>10, <1>11
<1> QED
  BY <1>12 DEF f, g

\* The weight of a holder is that of its last write, so the weights grow by
\* no more than the batch either.
LEMMA WeightsAddUp ==
  ASSUME NEW o, NEW ref, NEW batch, Len(batch) \in Nat,
         DOMAIN batch = 1 .. Len(batch), \A k \in DOMAIN batch : batch[k].bps \in Nat,
         IsFiniteSet(DOMAIN weight[o][ref]), IsFiniteSet(Named(batch)),
         \A h \in DOMAIN weight[o][ref] : weight[o][ref][h] \in Nat
  PROVE  SumFunction(WeightsAfter(o, ref, batch)) <= SumFunction(weight[o][ref]) + AddedBps(batch)
<1> DEFINE S == DOMAIN weight[o][ref]
           W == Named(batch)
           f == weight[o][ref]
           g == WeightsAfter(o, ref, batch)
           b == Bps(batch)
           m == [h \in W |-> CHOOSE k \in DOMAIN batch : LastWrite(batch, h) = batch[k]
                                                         /\ batch[k].holder = h]
           T == DOMAIN batch
<1>1. /\ DOMAIN f = S /\ DOMAIN g = S \cup W /\ DOMAIN b = T
      /\ IsFiniteSet(S) /\ IsFiniteSet(W) /\ IsFiniteSet(T)
      /\ \A i \in S : f[i] \in Nat
      /\ \A k \in T : b[k] \in Nat
  BY RangeIsFinite DEF Bps, WeightsAfter
<1>2. \A i \in S \ W : g[i] = f[i]
  BY DEF WeightsAfter
<1>3. ASSUME NEW h \in W PROVE m[h] \in T /\ g[h] = b[m[h]] /\ batch[m[h]].holder = h
  <2>1. \E k \in DOMAIN batch : LastWrite(batch, h) = batch[k] /\ batch[k].holder = h
    BY LastWriteNames
  <2>2. m[h] \in DOMAIN batch /\ LastWrite(batch, h) = batch[m[h]] /\ batch[m[h]].holder = h
    BY <2>1
  <2>3. g[h] = LastWrite(batch, h).bps
    BY DEF WeightsAfter
  <2>4. b[m[h]] = batch[m[h]].bps
    BY <2>2 DEF Bps
  <2> QED
    BY <2>2, <2>3, <2>4
<1>4. AddedBps(batch) = SumFunctionOnSet(b, T)
  BY DEF AddedBps, SumFunction, Bps
<1> HIDE DEF S, W, f, g, b, m, T
<1>5. \A i, j \in W : m[i] = m[j] => i = j
  BY <1>3
<1>6. Renames(m, g, b, W)
  BY <1>1, <1>3, <1>5 DEF Renames
<1>7. SumFunctionOnSet(g, W) <= SumFunctionOnSet(b, T)
  BY <1>1, <1>3, <1>6, SumOfRenamedPart
<1>8. \A i \in S \cup W : g[i] \in Nat
  BY <1>1, <1>2, <1>3
<1>9. SumFunctionOnSet(g, S \cup W) <= SumFunctionOnSet(f, S) + SumFunctionOnSet(g, W)
  BY <1>1, <1>2, <1>8, SumOfOverwritten
<1>10. /\ SumFunctionOnSet(g, W) \in Nat /\ SumFunctionOnSet(b, T) \in Nat
       /\ SumFunctionOnSet(f, S) \in Nat /\ SumFunctionOnSet(g, S \cup W) \in Nat
  BY <1>1, <1>8, SumOfNaturals, FS_Union
<1>11. SumFunction(f) = SumFunctionOnSet(f, S) /\ SumFunction(g) = SumFunctionOnSet(g, S \cup W)
  BY <1>1, Zenon DEF SumFunction
<1>12. SumFunction(g) <= SumFunction(f) + AddedBps(batch)
  BY <1>4, <1>7, <1>9, <1>10, <1>11
<1> QED
  BY <1>12 DEF f, g

\* A batch keeps its snapshot and its entry in step.
LEMMA BatchMatches ==
  ASSUME SystemTypeOK, NEW o \in Offerings, NEW ref \in SnapshotRefs, NEW start \in StartIndexes,
         NEW batch \in Batches, apply_snapshot_shares(o, ref, start, batch),
         Matches(slot[o][ref], slotCount[o][ref], weight[o][ref], entry[o][ref])
  PROVE  Matches(SlotsAfter(o, ref, start, batch), CountAfter(o, ref, start, batch),
                 WeightsAfter(o, ref, batch), EntryAfter(o, ref, start, batch))
<1> DEFINE n == Len(batch)
           count == CountAfter(o, ref, start, batch)
           old == entry[o][ref]
           new == EntryAfter(o, ref, start, batch)
           slots == SlotsAfter(o, ref, start, batch)
           weights == WeightsAfter(o, ref, batch)
<1>1. /\ start \in Nat /\ n \in Nat /\ DOMAIN batch = 1 .. n
      /\ \A k \in DOMAIN batch : batch[k] \in Write
      /\ ref \in DOMAIN entry[o]
  BY BatchSnapshot
<1>2. \A k \in DOMAIN batch : batch[k].bps \in Nat /\ batch[k].holder \in Holders
  BY <1>1 DEF Write
<1>3. /\ slotCount[o][ref] \in Nat /\ DOMAIN slot[o][ref] \subseteq Nat
      /\ \A i \in DOMAIN slot[o][ref] : slot[o][ref][i] \in Write
      /\ DOMAIN weight[o][ref] \subseteq Holders
      /\ \A h \in DOMAIN weight[o][ref] : weight[o][ref][h] \in 0..FULL_BPS
      /\ old \in Entry
  BY <1>1 DEF SystemTypeOK, SnapshotTypeOK
<1>4. old.holder_count \in Nat /\ old.total_bps \in Nat
  BY <1>3 DEF Entry
<1>5. count \in Nat /\ count >= slotCount[o][ref] /\ (n > 0 => count >= start + n)
  <2>1. slotCount[o][ref] \in Nat /\ start + n \in Nat
    BY <1>1, <1>3
  <2> QED
    BY <1>1, <2>1 DEF CountAfter, Highest
<1>6. ASSUME NEW i \in DOMAIN slots
      PROVE  i < count /\ slots[i].holder \in DOMAIN weights
  <2>1. CASE i \in start .. start + n - 1
    <3>1. i - start + 1 \in DOMAIN batch /\ n > 0 /\ i \in Int /\ i < start + n
      BY <1>1, <2>1
    <3>2. slots[i] = batch[i - start + 1]
      BY <2>1 DEF SlotsAfter
    <3>3. batch[i - start + 1].holder \in DOMAIN weights
      BY <3>1 DEF WeightsAfter, Named
    <3>4. i < count
      BY <1>1, <1>5, <3>1
    <3> QED
      BY <3>2, <3>3, <3>4
  <2>2. CASE i \notin start .. start + n - 1
    <3>1. i \in DOMAIN slot[o][ref] /\ slots[i] = slot[o][ref][i]
      BY <2>2 DEF SlotsAfter
    <3>2. i < slotCount[o][ref] /\ slot[o][ref][i].holder \in DOMAIN weight[o][ref] /\ i \in Nat
      BY <1>3, <3>1 DEF Matches
    <3>3. DOMAIN weight[o][ref] \subseteq DOMAIN weights
      BY DEF WeightsAfter
    <3>4. i < count
      BY <1>3, <1>5, <3>2
    <3> QED
      BY <3>1, <3>2, <3>3, <3>4
  <2> QED
    BY <2>1, <2>2
<1>7. /\ new.holder_count = Highest(old.holder_count, count)
      /\ new.total_bps = old.total_bps + AddedBps(batch)
  <2> DEFINE a == Highest(old.holder_count, count)
             b == old.total_bps + AddedBps(batch)
  <2>1. new = [old EXCEPT !.holder_count = a, !.total_bps = b]
    BY DEF EntryAfter
  <2> HIDE DEF a, b, old, new
  <2>2. new.holder_count = a /\ new.total_bps = b
    BY <1>3, <2>1 DEF Entry
  <2> QED
    BY <2>2 DEF a, b
<1>8. new.holder_count = count
  <2>1. old.holder_count = slotCount[o][ref]
    BY DEF Matches
  <2> QED
    BY <1>3, <1>5, <1>7, <2>1 DEF Highest
<1>9. IsFiniteSet(DOMAIN slot[o][ref])
  <2>1. DOMAIN slot[o][ref] \subseteq 0 .. slotCount[o][ref]
    BY <1>3 DEF Matches
  <2> QED
    BY <1>3, <2>1, RangeIsFinite, FS_Subset
<1>10. IsFiniteSet(DOMAIN weight[o][ref]) /\ IsFiniteSet(Named(batch))
  <2>1. Named(batch) \subseteq Holders
    BY <1>2 DEF Named
  <2> QED
    BY <1>3, <2>1, FiniteHolders, FS_Subset
<1>11. /\ \A i \in DOMAIN slot[o][ref] : slot[o][ref][i].bps \in Nat
       /\ \A h \in DOMAIN weight[o][ref] : weight[o][ref][h] \in Nat
  <2>1. FULL_BPS \in Nat
    BY DEF FULL_BPS
  <2> QED
    BY <1>3, <2>1 DEF Write
<1>12. /\ SumFunction(Bps(slots)) <= SumFunction(Bps(slot[o][ref])) + AddedBps(batch)
       /\ SumFunction(weights) <= SumFunction(weight[o][ref]) + AddedBps(batch)
  BY <1>1, <1>2, <1>3, <1>9, <1>10, <1>11, SlotsAddUp, WeightsAddUp
<1>13. AddedBps(batch) \in Nat
  BY <1>1, AddedBpsType
<1>14. /\ SumFunction(Bps(slot[o][ref])) <= old.total_bps
       /\ SumFunction(weight[o][ref]) <= old.total_bps
  BY DEF Matches
<1>15. /\ SumFunction(Bps(slots)) \in Nat /\ SumFunction(Bps(slot[o][ref])) \in Nat
       /\ SumFunction(weights) \in Nat /\ SumFunction(weight[o][ref]) \in Nat
  <2>1. ASSUME NEW f, IsFiniteSet(DOMAIN f), \A i \in DOMAIN f : f[i] \in Nat
        PROVE  SumFunction(f) \in Nat
    <3>1. SumFunctionOnSet(f, DOMAIN f) \in Nat
      BY <2>1, SumOfNaturals
    <3> QED
      BY <3>1 DEF SumFunction
  <2>2. /\ DOMAIN Bps(slot[o][ref]) = DOMAIN slot[o][ref]
        /\ \A i \in DOMAIN slot[o][ref] : Bps(slot[o][ref])[i] \in Nat
    BY <1>11 DEF Bps
  <2>3. /\ IsFiniteSet(DOMAIN slots) /\ IsFiniteSet(DOMAIN weights)
        /\ \A i \in DOMAIN slots : slots[i].bps \in Nat
        /\ \A h \in DOMAIN weights : weights[h] \in Nat
    <3>1. /\ \A i \in DOMAIN slots : slots[i] \in Write
          /\ \A h \in DOMAIN weights : weights[h] \in 0..FULL_BPS
      BY BatchSnapshotType
    <3>2. FULL_BPS \in Nat
      BY DEF FULL_BPS
    <3>3. DOMAIN slots = DOMAIN slot[o][ref] \cup (start .. start + n - 1)
      BY DEF SlotsAfter
    <3>4. DOMAIN weights = DOMAIN weight[o][ref] \cup Named(batch)
      BY DEF WeightsAfter
    <3>5. IsFiniteSet(start .. start + n - 1)
      BY <1>1, RangeIsFinite
    <3>6. IsFiniteSet(DOMAIN slots) /\ IsFiniteSet(DOMAIN weights)
      BY <1>9, <1>10, <3>3, <3>4, <3>5, FS_Union
    <3> HIDE DEF slots, weights
    <3> QED
      BY <3>1, <3>2, <3>6 DEF Write
  <2>4. /\ DOMAIN Bps(slots) = DOMAIN slots
        /\ \A i \in DOMAIN slots : Bps(slots)[i] \in Nat
    BY <2>3 DEF Bps
  <2> DEFINE f == Bps(slots)
             g == Bps(slot[o][ref])
  <2>5. /\ IsFiniteSet(DOMAIN f) /\ IsFiniteSet(DOMAIN g)
        /\ \A i \in DOMAIN f : f[i] \in Nat
        /\ \A i \in DOMAIN g : g[i] \in Nat
    BY <1>9, <2>2, <2>3, <2>4
  <2> HIDE DEF f, g, slots, weights
  <2>6. SumFunction(f) \in Nat /\ SumFunction(g) \in Nat
    BY <2>1, <2>5
  <2>7. SumFunction(weights) \in Nat /\ SumFunction(weight[o][ref]) \in Nat
    BY <1>10, <1>11, <2>1, <2>3
  <2> QED
    BY <2>6, <2>7 DEF f, g
<1> HIDE DEF slots, weights, new, count, old
<1>16. SumFunction(Bps(slots)) <= new.total_bps /\ SumFunction(weights) <= new.total_bps
  BY <1>4, <1>7, <1>12, <1>13, <1>14, <1>15
<1>17. Matches(slots, count, weights, new)
  BY <1>6, <1>8, <1>16 DEF Matches
<1> QED
  BY <1>17 DEF slots, weights, new, count

\* Every step keeps the snapshots within what their entries say.
LEMMA MatchStep ==
  ASSUME SystemTypeOK, RefsCommitted, SnapshotsMatch, [SystemNext]_systemVars
  PROVE  SnapshotsMatch'
<1>a. /\ DOMAIN entry = Offerings /\ DOMAIN slot = Offerings /\ DOMAIN weight = Offerings
      /\ slotCount \in [Offerings -> [SnapshotRefs -> Nat]]
      /\ \A q \in Offerings : /\ DOMAIN slot[q] = SnapshotRefs /\ DOMAIN weight[q] = SnapshotRefs
                              /\ entry[q] \in [DOMAIN entry[q] -> Entry]
  BY DEF SystemTypeOK, SnapshotTypeOK
<1>1. ASSUME NEW q \in Offerings, NEW r \in SnapshotRefs,
             r \in DOMAIN entry'[q] <=> r \in DOMAIN entry[q],
             r \in DOMAIN entry[q] => entry'[q][r] = entry[q][r],
             slot'[q][r] = slot[q][r], slotCount'[q][r] = slotCount[q][r],
             weight'[q][r] = weight[q][r]
      PROVE  IF r \in DOMAIN entry'[q]
               THEN Matches(slot'[q][r], slotCount'[q][r], weight'[q][r], entry'[q][r])
               ELSE slotCount'[q][r] = 0 /\ DOMAIN slot'[q][r] = {} /\ DOMAIN weight'[q][r] = {}
  BY <1>1 DEF SnapshotsMatch
<1>2. ASSUME UNCHANGED <<entry, slot, slotCount, weight>>
      PROVE  SnapshotsMatch'
  BY <1>2 DEF SnapshotsMatch
<1>3. ASSUME NEW o \in Offerings, NEW ref \in SnapshotRefs, NEW hash \in Hashes,
             commit_snapshot(o, ref, hash)
      PROVE  SnapshotsMatch'
  <2> DEFINE new == EntriesAfterCommit(o, ref, hash)
  <2>1. /\ ref > lastCommitRef[o] /\ entry' = [entry EXCEPT ![o] = new]
        /\ UNCHANGED <<slot, slotCount, weight>>
    BY <1>3, CommitWrites
  <2>2. ref \notin DOMAIN entry[o]
    <3>1. lastCommitRef[o] \in Nat /\ ref \in Nat
      BY SnapshotInputs, RefsAreNaturals
    <3>2. ~(ref <= lastCommitRef[o])
      BY <2>1, <3>1
    <3> QED
      BY <3>2 DEF RefsCommitted
  <2>3. /\ DOMAIN new = DOMAIN entry[o] \cup {ref}
        /\ new[ref].holder_count = 0 /\ new[ref].total_bps = 0
        /\ \A r \in DOMAIN entry[o] : new[r] = entry[o][r]
    BY <2>2 DEF EntriesAfterCommit
  <2> HIDE DEF new
  <2>4. entry'[o] = new /\ \A q \in Offerings : q # o => entry'[q] = entry[q]
    BY <1>a, <2>1
  <2>5. ASSUME NEW q \in Offerings, NEW r \in SnapshotRefs
        PROVE  IF r \in DOMAIN entry'[q]
                 THEN Matches(slot'[q][r], slotCount'[q][r], weight'[q][r], entry'[q][r])
                 ELSE slotCount'[q][r] = 0 /\ DOMAIN slot'[q][r] = {} /\ DOMAIN weight'[q][r] = {}
    <3>1. CASE q = o /\ r = ref
      <4>1. slotCount[o][ref] = 0 /\ DOMAIN slot[o][ref] = {} /\ DOMAIN weight[o][ref] = {}
        BY <2>2 DEF SnapshotsMatch
      <4>2. Matches(slot[o][ref], 0, weight[o][ref], new[ref])
        BY <2>3, <4>1, NothingMatches
      <4> QED
        BY <2>1, <2>3, <2>4, <3>1, <4>1, <4>2
    <3>2. CASE q # o \/ r # ref
      <4>1. r \in DOMAIN entry'[q] <=> r \in DOMAIN entry[q]
        BY <2>3, <2>4, <3>2
      <4>2. r \in DOMAIN entry[q] => entry'[q][r] = entry[q][r]
        BY <2>3, <2>4, <3>2
      <4> QED
        BY <1>1, <2>1, <4>1, <4>2
    <3> QED
      BY <3>1, <3>2
  <2> QED
    BY <2>5 DEF SnapshotsMatch
<1>4. ASSUME NEW o \in Offerings, BatchStep(o)
      PROVE  SnapshotsMatch'
  <2>1. PICK ref \in SnapshotRefs, start \in StartIndexes, batch \in Batches :
          apply_snapshot_shares(o, ref, start, batch)
    BY <1>4 DEF BatchStep
  <2> DEFINE newEntry == EntryAfter(o, ref, start, batch)
             newSlots == SlotsAfter(o, ref, start, batch)
             newWeights == WeightsAfter(o, ref, batch)
             newCount == CountAfter(o, ref, start, batch)
  <2>2. /\ ref \in DOMAIN entry[o]
        /\ entry' = [entry EXCEPT ![o] = [entry[o] EXCEPT ![ref] = newEntry]]
        /\ slot' = [slot EXCEPT ![o] = [slot[o] EXCEPT ![ref] = newSlots]]
        /\ weight' = [weight EXCEPT ![o] = [weight[o] EXCEPT ![ref] = newWeights]]
        /\ slotCount' = [slotCount EXCEPT ![o] = [slotCount[o] EXCEPT ![ref] = newCount]]
    BY <2>1, BatchSnapshot
  <2>3. Matches(newSlots, newCount, newWeights, newEntry)
    <3>1. Matches(slot[o][ref], slotCount[o][ref], weight[o][ref], entry[o][ref])
      BY <2>2 DEF SnapshotsMatch
    <3> QED
      BY <2>1, <3>1, BatchMatches
  <2> HIDE DEF newEntry, newSlots, newWeights, newCount
  <2>4. /\ entry'[o] = [entry[o] EXCEPT ![ref] = newEntry]
        /\ slot'[o] = [slot[o] EXCEPT ![ref] = newSlots]
        /\ weight'[o] = [weight[o] EXCEPT ![ref] = newWeights]
        /\ slotCount'[o] = [slotCount[o] EXCEPT ![ref] = newCount]
    BY <1>a, <2>2
  <2>5. \A q \in Offerings : q # o =>
          /\ entry'[q] = entry[q] /\ slot'[q] = slot[q] /\ weight'[q] = weight[q]
          /\ slotCount'[q] = slotCount[q]
    BY <1>a, <2>2
  <2>6. /\ DOMAIN entry'[o] = DOMAIN entry[o]
        /\ entry'[o][ref] = newEntry /\ slot'[o][ref] = newSlots
        /\ weight'[o][ref] = newWeights /\ slotCount'[o][ref] = newCount
        /\ \A r \in SnapshotRefs : r # ref =>
             /\ slot'[o][r] = slot[o][r] /\ weight'[o][r] = weight[o][r]
             /\ slotCount'[o][r] = slotCount[o][r]
             /\ r \in DOMAIN entry[o] => entry'[o][r] = entry[o][r]
    BY <1>a, <2>2, <2>4
  <2>7. ASSUME NEW q \in Offerings, NEW r \in SnapshotRefs
        PROVE  IF r \in DOMAIN entry'[q]
                 THEN Matches(slot'[q][r], slotCount'[q][r], weight'[q][r], entry'[q][r])
                 ELSE slotCount'[q][r] = 0 /\ DOMAIN slot'[q][r] = {} /\ DOMAIN weight'[q][r] = {}
    <3>1. CASE q = o /\ r = ref
      BY <2>2, <2>3, <2>6, <3>1
    <3>2. CASE q = o /\ r # ref
      BY <1>1, <2>6, <3>2
    <3>3. CASE q # o
      BY <1>1, <2>5, <3>3
    <3> QED
      BY <3>1, <3>2, <3>3
  <2> QED
    BY <2>7 DEF SnapshotsMatch
<1> QED
  BY <1>2, <1>3, <1>4, SnapshotSteps

(***************************************************************************)
(* However many batches are applied, in any order, with gaps and over      *)
(* slots written before, a snapshot never holds more, by slot or by        *)
(* holder, than its entry says, and whoever holds a slot can vote.         *)
(***************************************************************************)
THEOREM SnapshotsNeverUnderstated == SystemSpec => []SnapshotNeverUnderstated
<1>1. SystemInit => SnapshotsMatch
  BY DEF SystemInit, SnapshotsMatch, Empty
<1>2. SystemTypeOK /\ RefsCommitted /\ SnapshotsMatch /\ [SystemNext]_systemVars => SnapshotsMatch'
  BY MatchStep
<1>3. SnapshotsMatch => SnapshotNeverUnderstated
  <2> SUFFICES ASSUME SnapshotsMatch, NEW o \in Offerings, NEW r \in SnapshotRefs
               PROVE  /\ \A i \in DOMAIN slot[o][r] :
                           i < slotCount[o][r] /\ slot[o][r][i].holder \in DOMAIN weight[o][r]
                      /\ DOMAIN slot[o][r] # {} => r \in DOMAIN entry[o]
                      /\ r \in DOMAIN entry[o] =>
                           /\ entry[o][r].holder_count = slotCount[o][r]
                           /\ SumFunction([i \in DOMAIN slot[o][r] |-> slot[o][r][i].bps])
                                <= entry[o][r].total_bps
                           /\ SumFunction(weight[o][r]) <= entry[o][r].total_bps
    BY DEF SnapshotNeverUnderstated
  <2> QED
    BY DEF SnapshotsMatch, Matches, Bps
<1> QED
  BY <1>1, <1>2, <1>3, RefsAlwaysCommitted, PTL DEF SystemSpec

-----------------------------------------------------------------------------
(***************************************************************************)
(* Votes and the snapshot they are weighed by                              *)
(***************************************************************************)

Side(votes, approve) == {u \in DOMAIN votes : votes[u].approve = approve}

SideWeights(votes, approve) == [v \in Side(votes, approve) |-> votes[v].weight]

\* The weight of v in a snapshot.
WeightIn(pinned, v) == IF v \in DOMAIN pinned THEN pinned[v] ELSE 0

\* The votes of a proposal, the snapshot it pinned, and the batches it had.
Decided(p, votes, pinned, n) ==
  /\ p.yes_weight = Tally(votes, TRUE) /\ p.no_weight = Tally(votes, FALSE)
  /\ p.batchesThen <= n
  /\ n = p.batchesThen => \A v \in DOMAIN votes : votes[v].weight = WeightIn(pinned, v)

(***************************************************************************)
(* The snapshot of a proposal is committed, and the batches it has had are *)
(* at least those it had then: once a batch is applied to it, the count    *)
(* never again is the one the proposal was made at.                        *)
(***************************************************************************)
PinsDecide ==
  \A o \in Offerings : \A id \in DOMAIN proposal[o] :
    LET r == proposal[o][id].snapshot_id
    IN  /\ r \in DOMAIN entry[o]
        /\ Decided(proposal[o][id], ballot[o][id], weight[o][r], batches[o][r])

LEMMA TallyOfNone ==
  ASSUME NEW votes, DOMAIN votes = {}
  PROVE  \A approve \in BOOLEAN : Tally(votes, approve) = 0
<1> TAKE approve \in BOOLEAN
<1> DEFINE f == [v \in {u \in DOMAIN votes : votes[u].approve = approve} |-> votes[v].weight]
<1>1. DOMAIN f = {}
  OBVIOUS
<1> HIDE DEF f
<1>2. SumFunctionOnSet(f, {}) = 0
  BY SumOfNone
<1>3. SumFunction(f) = 0
  BY <1>1, <1>2, Zenon DEF SumFunction
<1> QED
  BY <1>3 DEF f, Tally

\* A proposal without votes is decided by its snapshot.
LEMMA NewlyDecided ==
  ASSUME NEW p, NEW votes, NEW pinned, NEW n \in Nat, DOMAIN votes = {},
         p.yes_weight = 0, p.no_weight = 0, p.batchesThen = n
  PROVE  Decided(p, votes, pinned, n)
<1>1. Tally(votes, TRUE) = 0 /\ Tally(votes, FALSE) = 0
  BY TallyOfNone
<1>2. p.batchesThen <= n /\ \A v \in DOMAIN votes : votes[v].weight = WeightIn(pinned, v)
  OBVIOUS
<1> QED
  BY <1>1, <1>2, Zenon DEF Decided

\* A vote adds its weight to its own side and leaves the other.
LEMMA TallyOfVote ==
  ASSUME NEW votes, IsFiniteSet(DOMAIN votes), votes \in [DOMAIN votes -> Ballot],
         NEW v, v \notin DOMAIN votes, NEW w \in Nat, NEW approve \in BOOLEAN,
         NEW side \in BOOLEAN
  PROVE  LET votes2 == [u \in DOMAIN votes \cup {v} |->
                          IF u = v THEN [approve |-> approve, weight |-> w] ELSE votes[u]]
         IN  Tally(votes2, side) = IF side = approve THEN Tally(votes, side) + w
                                   ELSE Tally(votes, side)
<1> DEFINE votes2 == [u \in DOMAIN votes \cup {v} |->
                        IF u = v THEN [approve |-> approve, weight |-> w] ELSE votes[u]]
           S == Side(votes, side)
           S2 == Side(votes2, side)
           f == SideWeights(votes, side)
           g == SideWeights(votes2, side)
<1>1. /\ DOMAIN votes2 = DOMAIN votes \cup {v}
      /\ votes2[v].approve = approve /\ votes2[v].weight = w
      /\ \A u \in DOMAIN votes : votes2[u] = votes[u]
  OBVIOUS
<1>2. \A u \in DOMAIN votes : votes[u].weight \in Nat
  BY DEF Ballot
<1>3. /\ Tally(votes, side) = SumFunction(f) /\ DOMAIN f = S
      /\ Tally(votes2, side) = SumFunction(g) /\ DOMAIN g = S2
  BY Zenon DEF Tally, SideWeights, Side
<1> HIDE DEF votes2
<1>4. S \subseteq DOMAIN votes /\ v \notin S
  BY DEF Side
<1>5. \A u \in S : f[u] = votes[u].weight /\ u \in S2 /\ g[u] = votes[u].weight
  BY <1>1, <1>4 DEF Side, SideWeights
<1>6. S2 = IF side = approve THEN S \cup {v} ELSE S
  BY <1>1 DEF Side
<1>7. side = approve => g[v] = w
  BY <1>1, <1>6 DEF SideWeights
<1>8. IsFiniteSet(S)
  BY <1>4, FS_Subset
<1>9. \A u \in S : f[u] \in Nat /\ f[u] \in Int /\ g[u] = f[u]
  BY <1>2, <1>4, <1>5
<1> HIDE DEF S, S2, f, g
<1>10. CASE side = approve
  <2>1. g[v] \in Int
    BY <1>7, <1>10
  <2>2. SumFunctionOnSet(g, S \cup {v}) = SumFunctionOnSet(f, S) + g[v]
    BY <1>4, <1>8, <1>9, <2>1, SumOfExtension
  <2>3. SumFunctionOnSet(g, S2) = SumFunctionOnSet(f, S) + w
    BY <1>6, <1>7, <1>10, <2>2
  <2>4. SumFunction(g) = SumFunction(f) + w
    BY <1>3, <2>3 DEF SumFunction
  <2> QED
    BY <1>3, <1>10, <2>4 DEF votes2
<1>11. CASE side # approve
  <2>1. SumFunctionOnSet(f, S) = SumFunctionOnSet(g, S)
    BY <1>8, <1>9, SumOfSameTerms
  <2>2. SumFunction(g) = SumFunction(f)
    BY <1>3, <1>6, <1>11, <2>1 DEF SumFunction
  <2> QED
    BY <1>3, <1>11, <2>2 DEF votes2
<1> QED
  BY <1>10, <1>11

VoteCounted(p, approve, w) ==
  [p EXCEPT !.yes_weight = IF approve THEN @ + w ELSE @,
            !.no_weight = IF approve THEN @ ELSE @ + w]

VoteAdded(votes, v, approve, w) ==
  [u \in DOMAIN votes \cup {v} |->
     IF u = v THEN [approve |-> approve, weight |-> w] ELSE votes[u]]

\* A vote keeps its proposal decided by the snapshot.
LEMMA VoteDecided ==
  ASSUME NEW p \in Proposal, NEW votes, DOMAIN votes \subseteq Holders,
         votes \in [DOMAIN votes -> Ballot], NEW pinned, NEW n \in Nat,
         NEW v \in Holders, v \notin DOMAIN votes, NEW approve \in BOOLEAN,
         NEW w \in Nat, w = WeightIn(pinned, v), Decided(p, votes, pinned, n)
  PROVE  Decided(VoteCounted(p, approve, w), VoteAdded(votes, v, approve, w), pinned, n)
<1> DEFINE yes == IF approve THEN p.yes_weight + w ELSE p.yes_weight
           no == IF approve THEN p.no_weight ELSE p.no_weight + w
           p2 == [p EXCEPT !.yes_weight = yes, !.no_weight = no]
           votes2 == [u \in DOMAIN votes \cup {v} |->
                        IF u = v THEN [approve |-> approve, weight |-> w] ELSE votes[u]]
<1>1. IsFiniteSet(DOMAIN votes)
  BY FiniteHolders, FS_Subset
<1>2. /\ DOMAIN votes2 = DOMAIN votes \cup {v} /\ votes2[v].weight = w
      /\ \A u \in DOMAIN votes : votes2[u] = votes[u]
  OBVIOUS
<1>3. \A u \in DOMAIN votes2 : u = v \/ u \in DOMAIN votes
  BY <1>2
<1>4. \A side \in BOOLEAN :
        Tally(votes2, side) = IF side = approve THEN Tally(votes, side) + w ELSE Tally(votes, side)
  BY <1>1, TallyOfVote
<1> HIDE DEF votes2, yes, no
<1>5. /\ p2.yes_weight = yes /\ p2.no_weight = no /\ p2.batchesThen = p.batchesThen
  BY DEF Proposal
<1>6. /\ p.yes_weight = Tally(votes, TRUE) /\ p.no_weight = Tally(votes, FALSE)
      /\ p.batchesThen <= n
      /\ n = p.batchesThen => \A u \in DOMAIN votes : votes[u].weight = WeightIn(pinned, u)
  BY DEF Decided
<1>7. yes = Tally(votes2, TRUE) /\ no = Tally(votes2, FALSE)
  <2>1. CASE approve = TRUE
    BY <1>4, <1>6, <2>1 DEF yes, no
  <2>2. CASE approve = FALSE
    BY <1>4, <1>6, <2>2 DEF yes, no
  <2> QED
    BY <2>1, <2>2
<1>8. n = p.batchesThen => \A u \in DOMAIN votes2 : votes2[u].weight = WeightIn(pinned, u)
  BY <1>2, <1>3, <1>6
<1> HIDE DEF p2
<1>9. Decided(p2, votes2, pinned, n)
  BY <1>5, <1>6, <1>7, <1>8 DEF Decided
<1> QED
  BY <1>9, Zenon DEF p2, votes2, yes, no, VoteCounted, VoteAdded

\* Commits, deposits and batches keep every proposal decided by its snapshot.
LEMMA PinsUnderSnapshots ==
  ASSUME SystemTypeOK, PinsDecide, [SystemNext]_systemVars, UNCHANGED governanceVars
  PROVE  PinsDecide'
<1>a. /\ DOMAIN entry = Offerings /\ DOMAIN weight = Offerings
      /\ batches \in [Offerings -> [SnapshotRefs -> Nat]]
      /\ \A q \in Offerings : /\ entry[q] \in [DOMAIN entry[q] -> Entry]
                              /\ DOMAIN weight[q] = SnapshotRefs
  BY DEF SystemTypeOK, SnapshotTypeOK
<1>b. \A q \in Offerings : \A id \in DOMAIN proposal[q] :
        /\ proposal[q][id].snapshot_id \in SnapshotRefs
        /\ proposal[q][id].batchesThen \in Nat
  <2> TAKE q \in Offerings
  <2> TAKE id \in DOMAIN proposal[q]
  <2>1. proposal[q][id] \in Proposal
    BY ProposalsType DEF SystemTypeOK
  <2> QED
    BY <2>1 DEF Proposal
<1>1. ASSUME \A q \in Offerings : DOMAIN entry[q] \subseteq DOMAIN entry'[q],
             UNCHANGED <<weight, batches>>
      PROVE  PinsDecide'
  <2>1. ASSUME NEW q \in Offerings, NEW id \in DOMAIN proposal'[q]
        PROVE  LET r == proposal'[q][id].snapshot_id
               IN  /\ r \in DOMAIN entry'[q]
                   /\ Decided(proposal'[q][id], ballot'[q][id], weight'[q][r], batches'[q][r])
    BY <1>1, <2>1 DEF PinsDecide, governanceVars
  <2> QED
    BY <2>1 DEF PinsDecide
<1>2. ASSUME UNCHANGED <<entry, lastCommitRef, slot, slotCount, weight, batches>>
      PROVE  PinsDecide'
  BY <1>1, <1>2
<1>3. ASSUME NEW o \in Offerings, NEW ref \in SnapshotRefs, NEW hash \in Hashes,
             commit_snapshot(o, ref, hash)
      PROVE  PinsDecide'
  <2> DEFINE new == EntriesAfterCommit(o, ref, hash)
  <2>1. /\ entry' = [entry EXCEPT ![o] = new] /\ UNCHANGED <<weight, batches>>
        /\ DOMAIN entry[o] \subseteq DOMAIN new
    <3>1. entry' = [entry EXCEPT ![o] = new] /\ UNCHANGED <<weight, batches>>
      BY <1>3, CommitWrites
    <3>2. DOMAIN entry[o] \subseteq DOMAIN new
      BY DEF EntriesAfterCommit
    <3> QED
      BY <3>1, <3>2
  <2> HIDE DEF new
  <2>2. ASSUME NEW q \in Offerings PROVE DOMAIN entry[q] \subseteq DOMAIN entry'[q]
    BY <1>a, <2>1
  <2> QED
    BY <1>1, <2>1, <2>2
<1>4. ASSUME NEW o \in Offerings, BatchStep(o)
      PROVE  PinsDecide'
  <2>1. PICK ref \in SnapshotRefs, start \in StartIndexes, batch \in Batches :
          apply_snapshot_shares(o, ref, start, batch)
    BY <1>4 DEF BatchStep
  <2> DEFINE newWeights == WeightsAfter(o, ref, batch)
  <2>2. /\ weight' = [weight EXCEPT ![o] = [weight[o] EXCEPT ![ref] = newWeights]]
        /\ batches' = [batches EXCEPT ![o] = [batches[o] EXCEPT ![ref] = batches[o][ref] + 1]]
    BY <2>1, BatchSnapshot
  <2>3. \A q \in Offerings : DOMAIN entry'[q] = DOMAIN entry[q]
    BY <1>4, BatchKeepsRefs
  <2> HIDE DEF newWeights
  <2>4. /\ batches[o][ref] \in Nat /\ batches'[o][ref] = batches[o][ref] + 1
        /\ \A q \in Offerings, r \in SnapshotRefs : q # o \/ r # ref =>
             weight'[q][r] = weight[q][r] /\ batches'[q][r] = batches[q][r]
    BY <1>a, <2>2
  <2>5. ASSUME NEW q \in Offerings, NEW id \in DOMAIN proposal[q]
        PROVE  LET r == proposal[q][id].snapshot_id
               IN  /\ r \in DOMAIN entry'[q]
                   /\ Decided(proposal[q][id], ballot[q][id], weight'[q][r], batches'[q][r])
    <3> DEFINE p == proposal[q][id]
               r == p.snapshot_id
    <3>1. r \in DOMAIN entry[q] /\ Decided(p, ballot[q][id], weight[q][r], batches[q][r])
      BY DEF PinsDecide
    <3>2. r \in SnapshotRefs /\ p.batchesThen \in Nat
      BY <1>b
    <3> HIDE DEF p, r
    <3>3. CASE q = o /\ r = ref
      <4>1. p.batchesThen <= batches[q][r]
        BY <3>1 DEF Decided
      <4>2. batches[q][r] \in Nat /\ batches'[q][r] = batches[q][r] + 1
        BY <2>4, <3>3
      <4>3. p.batchesThen <= batches'[q][r] /\ batches'[q][r] # p.batchesThen
        BY <3>2, <4>1, <4>2
      <4>4. Decided(p, ballot[q][id], weight'[q][r], batches'[q][r])
        BY <3>1, <4>3 DEF Decided
      <4> QED
        BY <2>3, <3>1, <4>4 DEF p, r
    <3>4. CASE q # o \/ r # ref
      <4>1. weight'[q][r] = weight[q][r] /\ batches'[q][r] = batches[q][r]
        BY <2>4, <3>2, <3>4
      <4>2. Decided(p, ballot[q][id], weight'[q][r], batches'[q][r])
        BY <3>1, <4>1
      <4> QED
        BY <2>3, <3>1, <4>2 DEF p, r
    <3> QED
      BY <3>3, <3>4
  <2> QED
    BY <2>5 DEF PinsDecide, governanceVars
<1> QED
  BY <1>2, <1>3, <1>4, SnapshotSteps

\* Proposals and votes keep every proposal decided by its snapshot.
LEMMA PinsUnderVotes ==
  ASSUME SystemTypeOK, RefsCommitted, PinsDecide, UNCHANGED snapshotVars, NEW o \in Offerings,
         \/ create_gov_proposal(o)
         \/ \E id \in 1..MaxProposals, v \in Holders, approve \in BOOLEAN :
              cast_vote(o, id, v, approve)
         \/ \E id \in 1..MaxProposals : close_gov_proposal(o, id)
  PROVE  PinsDecide'
<1> DEFINE Pin(q, id) ==
             LET r == proposal'[q][id].snapshot_id
             IN  /\ r \in DOMAIN entry[q]
                 /\ Decided(proposal'[q][id], ballot'[q][id], weight[q][r], batches[q][r])
<1>a. /\ proposal \in [Offerings -> Seq(Proposal)] /\ ballot \in [Offerings -> Seq(Votes)]
      /\ GovernanceTypeOK /\ SnapshotTypeOK
      /\ batches \in [Offerings -> [SnapshotRefs -> Nat]]
  BY GovernanceTypes DEF SystemTypeOK, SequenceTypes, SnapshotTypeOK
<1>b. \A q \in Offerings : DOMAIN ballot[q] = DOMAIN proposal[q]
  BY <1>a, ProposalsType
<1>1. ASSUME \A q \in Offerings : \A id \in DOMAIN proposal'[q] : Pin(q, id)
      PROVE  PinsDecide'
  BY <1>1 DEF PinsDecide, snapshotVars
<1>2. ASSUME NEW q \in Offerings, NEW id \in DOMAIN proposal[q],
             proposal'[q][id] = proposal[q][id], ballot'[q][id] = ballot[q][id]
      PROVE  Pin(q, id)
  BY <1>2 DEF PinsDecide
<1>3. CASE create_gov_proposal(o)
  <2> DEFINE n == Len(proposal[o]) + 1
             last == lastCommitRef[o]
             new == [snapshot_id |-> last, yes_weight |-> 0, no_weight |-> 0,
                     open |-> TRUE, batchesThen |-> batches[o][last]]
  <2>1. /\ DOMAIN proposal'[o] = DOMAIN proposal[o] \cup {n}
        /\ \A id \in DOMAIN proposal[o] :
             proposal'[o][id] = proposal[o][id] /\ ballot'[o][id] = ballot[o][id]
        /\ proposal'[o][n] = new /\ ballot'[o][n] = Empty
        /\ \A q \in Offerings : q # o => proposal'[q] = proposal[q] /\ ballot'[q] = ballot[q]
    BY <1>3, ProposalCreated
  <2>2. last > 0
    BY <1>3 DEF create_gov_proposal
  <2>3. last \in DOMAIN entry[o] /\ last \in SnapshotRefs
    BY <1>a, <2>2 DEF RefsCommitted, SnapshotTypeOK
  <2>4. batches[o][last] \in Nat
    BY <1>a, <2>3
  <2>5. DOMAIN Empty = {}
    BY DEF Empty
  <2>7. Decided(new, Empty, weight[o][last], batches[o][last])
    <3>1. /\ new.yes_weight = 0 /\ new.no_weight = 0 /\ new.batchesThen = batches[o][last]
      OBVIOUS
    <3> DEFINE batchCount == batches[o][last]
               pinned == weight[o][last]
    <3>2. batchCount \in Nat /\ new.batchesThen = batchCount
      BY <2>4, <3>1
    <3> HIDE DEF new, batchCount, pinned
    <3>3. Decided(new, Empty, pinned, batchCount)
      BY <2>5, <3>1, <3>2, NewlyDecided
    <3> QED
      BY <3>3 DEF batchCount, pinned
  <2>8. new.snapshot_id = last
    OBVIOUS
  <2> HIDE DEF new, last, n
  <2>9. Pin(o, n)
    BY <2>1, <2>3, <2>7, <2>8
  <2>10. ASSUME NEW q \in Offerings, NEW id \in DOMAIN proposal'[q]
        PROVE  Pin(q, id)
    <3> HIDE DEF Pin
    <3>1. CASE q = o
      BY <1>2, <2>1, <2>9, <3>1
    <3>2. CASE q # o
      BY <1>2, <2>1, <3>2
    <3> QED
      BY <3>1, <3>2
  <2> HIDE DEF Pin
  <2> QED
    BY <1>1, <2>10
<1>4. ASSUME NEW id, NEW p2, NEW votes2, id \in DOMAIN proposal[o],
             proposal' = [proposal EXCEPT ![o] = [proposal[o] EXCEPT ![id] = p2]],
             ballot' = [ballot EXCEPT ![o] = [ballot[o] EXCEPT ![id] = votes2]],
             p2.snapshot_id = proposal[o][id].snapshot_id,
             Decided(p2, votes2, weight[o][p2.snapshot_id], batches[o][p2.snapshot_id])
      PROVE  PinsDecide'
  <2>1. /\ DOMAIN proposal'[o] = DOMAIN proposal[o]
        /\ proposal'[o][id] = p2 /\ ballot'[o][id] = votes2
        /\ \A i \in DOMAIN proposal[o] : i # id =>
             proposal'[o][i] = proposal[o][i] /\ ballot'[o][i] = ballot[o][i]
        /\ \A q \in Offerings : q # o => proposal'[q] = proposal[q] /\ ballot'[q] = ballot[q]
    BY <1>4, <1>a, <1>b
  <2>2. proposal[o][id].snapshot_id \in DOMAIN entry[o]
    BY <1>4 DEF PinsDecide
  <2>3. Pin(o, id)
    BY <1>4, <2>1, <2>2
  <2> HIDE DEF Pin
  <2>4. ASSUME NEW q \in Offerings, NEW i \in DOMAIN proposal'[q]
        PROVE  Pin(q, i)
    <3>1. CASE q = o
      BY <1>2, <2>1, <2>3, <3>1
    <3>2. CASE q # o
      BY <1>2, <2>1, <3>2
    <3> QED
      BY <3>1, <3>2
  <2> QED
    BY <1>1, <2>4
<1>5. ASSUME NEW id, NEW v \in Holders, NEW approve \in BOOLEAN, cast_vote(o, id, v, approve)
      PROVE  PinsDecide'
  <2> DEFINE w == VoteWeight(o, id, v)
             p == proposal[o][id]
             votes == ballot[o][id]
             p2 == [p EXCEPT !.yes_weight = IF approve THEN @ + w ELSE @,
                             !.no_weight = IF approve THEN @ ELSE @ + w]
             votes2 == [u \in DOMAIN votes \cup {v} |->
                          IF u = v THEN [approve |-> approve, weight |-> w] ELSE votes[u]]
             r == p.snapshot_id
             pinned == weight[o][r]
             n == batches[o][r]
  <2>1. /\ id \in DOMAIN proposal[o] /\ v \notin DOMAIN votes
        /\ proposal' = [proposal EXCEPT ![o] = [proposal[o] EXCEPT ![id] = p2]]
        /\ ballot' = [ballot EXCEPT ![o] = [ballot[o] EXCEPT ![id] = votes2]]
    <3>1. VoteCast(o, id, v, approve)
      BY <1>5, VoteIsCast
    <3> QED
      BY <3>1 DEF VoteCast
  <2>2. /\ p \in Proposal /\ DOMAIN votes \subseteq Holders /\ votes \in [DOMAIN votes -> Ballot]
    BY <1>a, <2>1, ProposalsType
  <2>3. w = WeightIn(pinned, v)
    BY DEF VoteWeight, WeightIn
  <2>4. w \in Nat
    BY <1>a, <2>1, VoteWeightType
  <2>5. r \in SnapshotRefs /\ p2.snapshot_id = r
    BY <2>2 DEF Proposal
  <2>6. n \in Nat
    BY <1>a, <2>5
  <2>7. Decided(p, votes, pinned, n)
    BY <2>1 DEF PinsDecide
  <2>8. Decided(p2, votes2, pinned, n)
    <3>1. v \notin DOMAIN votes
      BY <2>1
    <3>2. p2 = VoteCounted(p, approve, w) /\ votes2 = VoteAdded(votes, v, approve, w)
      BY Zenon DEF VoteCounted, VoteAdded
    <3> HIDE DEF w, p, votes, pinned, n, p2, votes2
    <3>3. Decided(VoteCounted(p, approve, w), VoteAdded(votes, v, approve, w), pinned, n)
      BY <2>2, <2>3, <2>4, <2>6, <2>7, <3>1, VoteDecided
    <3> QED
      BY <3>2, <3>3, Zenon
  <2> HIDE DEF w, p2, votes2
  <2> QED
    BY <1>4, <2>1, <2>5, <2>8
<1>6. ASSUME NEW id, close_gov_proposal(o, id)
      PROVE  PinsDecide'
  <2> DEFINE p == proposal[o][id]
             p2 == [p EXCEPT !.open = FALSE]
             votes == ballot[o][id]
  <2>1. /\ id \in DOMAIN proposal[o]
        /\ proposal' = [proposal EXCEPT ![o] = [proposal[o] EXCEPT ![id] = p2]]
        /\ ballot' = ballot
    BY <1>6 DEF close_gov_proposal
  <2>2. p \in Proposal
    BY <1>a, <2>1, ProposalsType
  <2>3. /\ p2.snapshot_id = p.snapshot_id /\ p2.yes_weight = p.yes_weight
        /\ p2.no_weight = p.no_weight /\ p2.batchesThen = p.batchesThen
    BY <2>2 DEF Proposal
  <2>4. Decided(p, votes, weight[o][p.snapshot_id], batches[o][p.snapshot_id])
    BY <2>1 DEF PinsDecide
  <2> HIDE DEF p2
  <2>5. Decided(p2, votes, weight[o][p2.snapshot_id], batches[o][p2.snapshot_id])
    BY <2>3, <2>4 DEF Decided
  <2>6. ballot' = [ballot EXCEPT ![o] = [ballot[o] EXCEPT ![id] = votes]]
    BY <1>a, <1>b, <2>1
  <2> QED
    BY <1>4, <2>1, <2>3, <2>5, <2>6
<1> QED
  BY <1>3, <1>5, <1>6

(***************************************************************************)
(* A proposal pins a committed snapshot, its tally is the sum of the votes *)
(* on it, and until a batch is applied to that snapshot every vote weighs  *)
(* what the snapshot says: nothing written to the register, and no later   *)
(* snapshot, reaches a vote.                                               *)
(***************************************************************************)
THEOREM PinnedSnapshotsDecide == SystemSpec => []PinnedSnapshotDecides
<1>1. SystemInit => PinsDecide
  BY DEF SystemInit, PinsDecide
<1>2. SystemTypeOK /\ RefsCommitted /\ PinsDecide /\ [SystemNext]_systemVars => PinsDecide'
  BY PinsUnderSnapshots, PinsUnderVotes, GovernanceSteps
<1>3. PinsDecide => PinnedSnapshotDecides
  BY DEF PinsDecide, PinnedSnapshotDecides, Decided, VoteWeight, WeightIn
<1> QED
  BY <1>1, <1>2, <1>3, RefsAlwaysCommitted, PTL DEF SystemSpec

-----------------------------------------------------------------------------
(***************************************************************************)
(* The promises of the money path, with snapshots and votes in between     *)
(***************************************************************************)

\* A deposit that cites a snapshot is a deposit.
LEMMA SnapshotDepositIsADeposit ==
  ASSUME NEW o \in Offerings, DepositStep(o)
  PROVE  Next
<1>1. PICK t \in PayTokens, a \in Amounts, p \in 1..MaxPeriods, r \in SnapshotRefs :
        deposit_revenue_with_snapshot(o, t, a, p, r)
  BY Zenon DEF DepositStep
<1>2. deposit_revenue(o, t, a, p)
  BY <1>1, Zenon DEF deposit_revenue_with_snapshot, deposit_revenue, SnapshotCallAllowed
<1> QED
  BY <1>2, Zenon DEF Next, IssuerNext

\* To the money path every step is one of its own, or a batch.
LEMMA MoneyOrBatch ==
  ASSUME [SystemNext]_systemVars
  PROVE  [Next]_vars \/ \E o \in Offerings : BatchStep(o)
BY StepKinds, QuietLeavesMoney, SnapshotDepositIsADeposit, Zenon DEF MoneyStep

\* What a batch leaves alone of the money path.
LEMMA BatchLeavesMoney ==
  ASSUME NEW o, BatchStep(o)
  PROVE  /\ UNCHANGED <<maxShares, now, gateVars, poolVars, vault, configVars, barVars,
                        lastClaimed, redemption, receipts, redeemedOut>>
         /\ ~halted
<1>1. PICK r \in SnapshotRefs, i \in StartIndexes, b \in Batches :
        apply_snapshot_shares(o, r, i, b)
  BY DEF BatchStep
<1> QED
  BY <1>1, Zenon DEF apply_snapshot_shares, SnapshotCallAllowed, require_not_frozen

\* The schedule of h in reg prices the deposited periods as before.
SamePast(o, reg, h) ==
  \A i \in 1 .. Len(periods[o]) :
    ShareInForce(reg.schedule[h], i) = ShareInForce(schedule[o][h], i)

\* The checkpoints of reg are in line with its shares, and schedules that were
\* there before price the past as before.
RegisterKeeps(o, reg) ==
  \A h \in Holders :
    /\ DOMAIN reg.schedule[h] \subseteq 0..Len(periods[o])
    /\ DOMAIN reg.schedule[h] = {} => reg.share[h] = 0
    /\ \A i \in Nat : i > Len(periods[o]) => ShareInForce(reg.schedule[h], i) = reg.share[h]
    /\ DOMAIN schedule[o][h] # {} => DOMAIN reg.schedule[h] # {} /\ SamePast(o, reg, h)

\* No share is higher than before, and every schedule prices the past as before.
RegisterLowers(o, reg) ==
  \A h \in Holders : reg.share[h] <= share[o][h] /\ SamePast(o, reg, h)

\* One more write of a batch.
LEMMA WriteKeeps ==
  ASSUME TypeOK, NEW o \in Offerings, NEW old, RegisterOK(old), RegisterKeeps(o, old),
         NEW write \in Write, NEW new, new = RegisterAfter(o, old, write)
  PROVE  /\ RegisterKeeps(o, new)
         /\ RegisterLowers(o, old) /\ (\A h \in Holders : ~(new.share[h] > old.share[h]))
              => RegisterLowers(o, new)
<1> DEFINE n == Len(periods[o])
<1>1. n \in Nat /\ write.holder \in Holders /\ write.bps \in Nat /\ FULL_BPS \in Nat
  BY BpsType DEF TypeOK, PoolTypeOK, Write
<1>2. /\ DOMAIN old.schedule = Holders /\ old.share \in [Holders -> 0..FULL_BPS]
      /\ \A h \in Holders : IsSchedule(old.schedule[h]) /\ old.share[h] \in Nat
  BY <1>1 DEF RegisterOK
<1>3. ASSUME NEW g \in Holders, g # write.holder \/ old.share[g] = write.bps
      PROVE  new.share[g] = old.share[g] /\ new.schedule[g] = old.schedule[g]
  BY <1>2, <1>3 DEF RegisterAfter, record_holder_share_transition
<1>4. ASSUME NEW g \in Holders, g = write.holder, old.share[g] # write.bps
      PROVE  /\ new.share[g] = write.bps
             /\ DOMAIN new.schedule[g] \subseteq 0..n /\ DOMAIN new.schedule[g] # {}
             /\ \A i \in Nat : i > n => ShareInForce(new.schedule[g], i) = write.bps
             /\ DOMAIN old.schedule[g] # {} =>
                  \A i \in 1 .. n :
                    ShareInForce(new.schedule[g], i) = ShareInForce(old.schedule[g], i)
  <2> DEFINE sched == old.schedule[g]
             was == old.share[g]
             bps == write.bps
             after == record_holder_share_transition(sched, n, was, bps)
  <2>1. new.share[g] = bps /\ new.schedule[g] = after
    BY <1>2, <1>4 DEF RegisterAfter
  <2>2. DOMAIN sched \subseteq 0..n /\ IsSchedule(sched) /\ was # bps
    BY <1>2, <1>4 DEF RegisterKeeps
  <2> HIDE DEF sched, was, bps, n
  <2>3. /\ DOMAIN after \subseteq 0..n /\ DOMAIN after # {}
        /\ \A i \in Nat : i > n => ShareInForce(after, i) = bps
    <3>1. LET made == record_holder_share_transition(sched, n, was, bps)
          IN  /\ DOMAIN made \subseteq 0..n /\ DOMAIN made # {}
              /\ \A i \in Nat : i > n => ShareInForce(made, i) = bps
      BY <1>1, <2>2, TransitionEndsAtNew
    <3> QED
      BY <3>1
  <2>4. DOMAIN sched # {} => \A i \in 1 .. n : ShareInForce(after, i) = ShareInForce(sched, i)
    BY <1>1, <2>2, TransitionKeepsPast
  <2> HIDE DEF after
  <2> QED
    BY <2>1, <2>3, <2>4 DEF sched, bps
<1>5. RegisterKeeps(o, new)
  <2> SUFFICES ASSUME NEW g \in Holders
               PROVE  /\ DOMAIN new.schedule[g] \subseteq 0..n
                      /\ DOMAIN new.schedule[g] = {} => new.share[g] = 0
                      /\ \A i \in Nat : i > n => ShareInForce(new.schedule[g], i) = new.share[g]
                      /\ DOMAIN schedule[o][g] # {} =>
                           DOMAIN new.schedule[g] # {} /\ SamePast(o, new, g)
    BY DEF RegisterKeeps
  <2>1. CASE g # write.holder \/ old.share[g] = write.bps
    BY <1>3, <2>1 DEF RegisterKeeps, SamePast
  <2>2. CASE g = write.holder /\ old.share[g] # write.bps
    BY <1>4, <2>2 DEF RegisterKeeps, SamePast
  <2> QED
    BY <2>1, <2>2
<1>6. ASSUME RegisterLowers(o, old), \A h \in Holders : ~(new.share[h] > old.share[h]),
             NEW g \in Holders
      PROVE  new.share[g] <= share[o][g] /\ SamePast(o, new, g)
  <2>1. share[o][g] \in Nat /\ old.share[g] <= share[o][g] /\ SamePast(o, old, g)
    BY <1>1, <1>6 DEF RegisterLowers, TypeOK, RegisterTypeOK
  <2>2. CASE g # write.holder \/ old.share[g] = write.bps
    BY <1>3, <2>1, <2>2 DEF SamePast
  <2>3. CASE g = write.holder /\ old.share[g] # write.bps
    <3>1. write.bps < old.share[g]
      BY <1>1, <1>2, <1>4, <1>6, <2>3
    <3>2. DOMAIN old.schedule[g] # {}
      BY <1>1, <1>2, <3>1 DEF RegisterKeeps
    <3> QED
      BY <1>1, <1>2, <1>4, <2>1, <2>3, <3>1, <3>2 DEF SamePast
  <2> QED
    BY <2>2, <2>3
<1> QED
  BY <1>5, <1>6 DEF RegisterLowers

\* The whole batch.
LEMMA BatchKeeps ==
  ASSUME TypeOK, RunningTotals, Checkpointed, NEW o \in Offerings, NEW batch \in Seq(Write),
         \A k \in DOMAIN batch : batch[k].bps <= FULL_BPS
  PROVE  LET reg == Register(o, batch)
             n == Len(batch)
         IN  /\ RegisterKeeps(o, reg[n])
             /\ ~(\E h \in Holders, k \in 1 .. n : reg[k].share[h] > reg[k - 1].share[h])
                  => RegisterLowers(o, reg[n])
<1> DEFINE reg == Register(o, batch)
           n == Len(batch)
           Lowering == \A h \in Holders, k \in 1 .. n : ~(reg[k].share[h] > reg[k - 1].share[h])
           S == {k \in 0 .. n : RegisterKeeps(o, reg[k])
                                /\ (Lowering => RegisterLowers(o, reg[k]))}
<1>1. n \in Nat /\ DOMAIN batch = 1 .. n /\ \A k \in 1 .. n : batch[k] \in Write
  OBVIOUS
<1>2. reg[0] = RegisterBefore(o) /\ \A k \in 1 .. n : reg[k] = RegisterAfter(o, reg[k - 1], batch[k])
  BY <1>1, RegisterUnfolds
<1>3. \A k \in 0 .. n : RegisterOK(reg[k])
  BY RegisterAlongBatch
<1> HIDE DEF reg, n
<1>4. 0 \in S
  <2>1. reg[0].share = share[o] /\ reg[0].schedule = schedule[o]
    BY <1>2 DEF RegisterBefore
  <2>2. RegisterKeeps(o, reg[0])
    BY <2>1 DEF RegisterKeeps, SamePast, Checkpointed, HolderCheckpointed
  <2>3. RegisterLowers(o, reg[0])
    <3>1. \A h \in Holders : share[o][h] \in 0..FULL_BPS
      BY DEF TypeOK, RegisterTypeOK
    <3> QED
      BY <2>1, <3>1, BpsType DEF RegisterLowers, SamePast
  <2> QED
    BY <1>1, <2>2, <2>3
<1>5. ASSUME NEW k \in 0 .. n - 1, k \in S
      PROVE  k + 1 \in S
  <2>1. k + 1 \in 1 .. n /\ k + 1 \in 0 .. n /\ k \in 0 .. n /\ k + 1 - 1 = k
    BY <1>1
  <2> DEFINE old == reg[k]
             new == reg[k + 1]
  <2>2. new = RegisterAfter(o, old, batch[k + 1])
    BY <1>2, <2>1
  <2>3. batch[k + 1] \in Write /\ RegisterOK(old) /\ RegisterKeeps(o, old)
    BY <1>1, <1>3, <1>5, <2>1
  <2>4. ASSUME Lowering
        PROVE  RegisterLowers(o, old) /\ \A h \in Holders : ~(new.share[h] > old.share[h])
    <3> DEFINE j == k + 1
    <3>1. j \in 1 .. n /\ j - 1 = k
      BY <2>1
    <3> HIDE DEF j
    <3>2. \A h \in Holders : ~(reg[j].share[h] > reg[j - 1].share[h])
      BY <2>4, <3>1
    <3>3. \A h \in Holders : ~(reg[j].share[h] > reg[k].share[h])
      BY <3>1, <3>2
    <3> QED
      BY <1>5, <2>4, <3>3 DEF j
  <2> HIDE DEF old, new, Lowering
  <2>5. /\ RegisterKeeps(o, new)
        /\ RegisterLowers(o, old) /\ (\A h \in Holders : ~(new.share[h] > old.share[h]))
             => RegisterLowers(o, new)
    BY <2>2, <2>3, WriteKeeps
  <2>6. RegisterKeeps(o, new) /\ (Lowering => RegisterLowers(o, new))
    BY <2>4, <2>5
  <2> QED
    BY <2>1, <2>6 DEF new
<1> HIDE DEF S
<1>6. \A k \in 0 .. n : k \in S
  BY <1>1, <1>4, <1>5, CountingUp
<1>7. n \in S
  BY <1>1, <1>6
<1>8. RegisterKeeps(o, reg[n]) /\ (Lowering => RegisterLowers(o, reg[n]))
  BY <1>7 DEF S
<1> QED
  BY <1>8, Zenon DEF reg, n

\* What the division of the periods sees of a batch.
LEMMA BatchDivision ==
  ASSUME TypeOK, RunningTotals, Checkpointed, NEW o \in Offerings, BatchStep(o)
  PROVE  \E after :
           /\ share' = [share EXCEPT ![o] = after.share]
           /\ schedule' = [schedule EXCEPT ![o] = after.schedule]
           /\ DOMAIN after.schedule = Holders
           /\ RegisterKeeps(o, after)
           /\ \/ lastRaise' = [lastRaise EXCEPT ![o] = Len(periods[o])]
              \/ lastRaise' = lastRaise /\ RegisterLowers(o, after)
<1>1. PICK r \in SnapshotRefs, i \in StartIndexes, batch \in Batches :
        apply_snapshot_shares(o, r, i, batch)
  BY DEF BatchStep
<1> DEFINE reg == Register(o, batch)
           n == Len(batch)
           after == reg[n]
           raised == \E h \in Holders, k \in 1 .. n : reg[k].share[h] > reg[k - 1].share[h]
<1>2. /\ batch \in Seq(Write)
      /\ \A k \in DOMAIN batch : batch[k].bps <= FULL_BPS
      /\ RegisterOK(after)
      /\ share' = [share EXCEPT ![o] = after.share]
      /\ schedule' = [schedule EXCEPT ![o] = after.schedule]
  BY <1>1, BatchApplied
<1>3. lastRaise' = [lastRaise EXCEPT ![o] = IF raised THEN Len(periods[o]) ELSE @]
  BY <1>1, Zenon DEF apply_snapshot_shares
<1>4. RegisterKeeps(o, after) /\ (~raised => RegisterLowers(o, after))
  BY <1>2, BatchKeeps
<1> HIDE DEF raised, after
<1>5. DOMAIN after.schedule = Holders
  BY <1>2 DEF RegisterOK
<1>6. ~raised => lastRaise' = lastRaise
  BY <1>3 DEF TypeOK, HistoryTypeOK
<1>7. raised => lastRaise' = [lastRaise EXCEPT ![o] = Len(periods[o])]
  BY <1>3
<1> QED
  BY <1>2, <1>4, <1>5, <1>6, <1>7

\* A batch keeps the checkpoints in line with the register.
LEMMA BatchCheckpoints ==
  ASSUME TypeOK, RunningTotals, Checkpointed, NEW o \in Offerings, BatchStep(o)
  PROVE  Checkpointed' /\ KeepsPastShares
<1>1. PICK after : /\ share' = [share EXCEPT ![o] = after.share]
                   /\ schedule' = [schedule EXCEPT ![o] = after.schedule]
                   /\ RegisterKeeps(o, after)
  BY BatchDivision
<1>2. periods' = periods
  BY BatchLeavesMoney DEF poolVars
<1>3. DOMAIN share = Offerings /\ DOMAIN schedule = Offerings
  BY DEF TypeOK, RegisterTypeOK, SchedulesTypeOK
<1>4. /\ share'[o] = after.share /\ schedule'[o] = after.schedule
      /\ \A q \in Offerings \ {o} : share'[q] = share[q] /\ schedule'[q] = schedule[q]
  BY <1>1, <1>3
<1>5. ASSUME NEW q \in Offerings, NEW g \in Holders
      PROVE  /\ HolderCheckpointed(q, g)'
             /\ DOMAIN schedule[q][g] # {} =>
                  \A i \in 1 .. Len(periods[q]) :
                    ShareInForce(schedule'[q][g], i) = ShareInForce(schedule[q][g], i)
  <2>1. CASE q = o
    BY <1>1, <1>2, <1>4, <2>1 DEF RegisterKeeps, SamePast, HolderCheckpointed
  <2>2. CASE q # o
    BY <1>2, <1>4, <2>2 DEF Checkpointed, HolderCheckpointed
  <2> QED
    BY <2>1, <2>2
<1> QED
  BY <1>5 DEF Checkpointed, KeepsPastShares

\* A batch takes no period out of its division, unless it raises a share.
LEMMA BatchDivides ==
  ASSUME TypeOK, RunningTotals, Checkpointed, PeriodsDivided, NEW o \in Offerings, BatchStep(o)
  PROVE  PeriodsDivided'
<1>1. PICK after : /\ share' = [share EXCEPT ![o] = after.share]
                   /\ schedule' = [schedule EXCEPT ![o] = after.schedule]
                   /\ \/ lastRaise' = [lastRaise EXCEPT ![o] = Len(periods[o])]
                      \/ lastRaise' = lastRaise /\ RegisterLowers(o, after)
  BY BatchDivision
<1>2. UNCHANGED <<periods, lastClaimed, receipts>>
  BY BatchLeavesMoney DEF poolVars
<1>3. SUFFICES ASSUME NEW q \in Offerings, NEW i \in lastRaise'[q] + 1 .. Len(periods'[q])
               PROVE  Divided(q, i)'
  BY DEF PeriodsDivided
<1>4. /\ DOMAIN share = Offerings /\ DOMAIN schedule = Offerings
      /\ lastRaise \in [Offerings -> Nat] /\ Len(periods[q]) \in Nat
  BY DEF TypeOK, RegisterTypeOK, SchedulesTypeOK, HistoryTypeOK, PoolTypeOK
<1>5. /\ q = o => RegisterLowers(o, after)
      /\ i \in lastRaise[q] + 1 .. Len(periods[q]) /\ i \in 1 .. Len(periods[q])
  BY <1>1, <1>2, <1>4
<1>6. /\ share'[o] = after.share /\ schedule'[o] = after.schedule
      /\ \A p \in Offerings \ {o} : share'[p] = share[p] /\ schedule'[p] = schedule[p]
  BY <1>1, <1>4
<1>7. ASSUME NEW h \in Holders, NEW b \in 0..FULL_BPS, HolderWithin(q, h, i, b)
      PROVE  HolderWithin(q, h, i, b)'
  <2>1. CASE q = o
    <3>1. /\ after.share[h] <= share[o][h]
          /\ ShareInForce(after.schedule[h], i) = ShareInForce(schedule[o][h], i)
      BY <1>5, <2>1 DEF RegisterLowers, SamePast
    <3>2. after.share[h] <= b
      <4>1. share[o][h] \in 0..FULL_BPS
        BY DEF TypeOK, RegisterTypeOK
      <4>2. after.share[h] \in Int
        <5>1. TypeOK'
          BY BatchType DEF BatchStep
        <5>2. share'[o][h] \in 0..FULL_BPS
          BY <5>1 DEF TypeOK, RegisterTypeOK
        <5> QED
          BY <1>6, <5>2, BpsType
      <4> QED
        BY <1>7, <2>1, <3>1, <4>1, <4>2, BpsType DEF HolderWithin
    <3> QED
      BY <1>2, <1>6, <1>7, <2>1, <3>1, <3>2 DEF HolderWithin
  <2>2. CASE q # o
    BY <1>2, <1>6, <1>7, <2>2 DEF HolderWithin
  <2> QED
    BY <2>1, <2>2
<1>8. Divided(q, i)
  BY <1>5 DEF PeriodsDivided
<1> QED
  BY <1>7, <1>8, DividedFollows

\* All that the promises of the money path rest on.
MoneySound ==
  /\ TypeOK /\ RunningTotals
  /\ SettledOnceInOrder /\ TokenLocked /\ Accounts /\ DepositsCounted
  /\ Checkpointed /\ NothingScaledUp /\ (NoUpscaling => PeriodsDivided)

LEMMA MoneyKeepsSound ==
  ASSUME MoneySound, [Next]_vars
  PROVE  MoneySound'
<1>1. TypeOK' /\ RunningTotals'
  BY TypeStep, TotalsStep DEF KeepsTotals, MoneySound
<1>2. SettledOnceInOrder' /\ TokenLocked' /\ Accounts' /\ DepositsCounted'
  BY SettledStep, TokenLockedStep, AccountsStep DEF MoneySound
<1>3. Checkpointed' /\ NothingScaledUp'
  BY CheckpointedStep, ScalingStep DEF MoneySound
<1>4. (NoUpscaling => PeriodsDivided)'
  BY DivisionStep DEF MoneySound, NoUpscaling
<1> QED
  BY <1>1, <1>2, <1>3, <1>4 DEF MoneySound

LEMMA BatchKeepsSound ==
  ASSUME MoneySound, NEW o \in Offerings, BatchStep(o)
  PROVE  MoneySound'
<1>1. TypeOK' /\ RunningTotals'
  BY BatchType, BatchTotals DEF BatchStep, MoneySound
<1>2. UNCHANGED <<periods, lockedToken, deposited, vault, decimals, lastClaimed, receipts,
                  redeemedOut>>
  BY BatchLeavesMoney DEF poolVars, configVars
<1>3. SettledOnceInOrder' /\ TokenLocked' /\ NothingScaledUp'
  BY <1>2 DEF MoneySound, SettledOnceInOrder, TokenLocked, NothingScaledUp, NoUpscaling
<1>4. Accounts' /\ DepositsCounted'
  BY <1>2 DEF MoneySound, Accounts, DepositsCounted, OfferingsPaidIn, Net, Revenue, Claimed,
    ClaimedBy
<1>5. Checkpointed'
  BY BatchCheckpoints DEF MoneySound
<1>6. (NoUpscaling => PeriodsDivided)'
  BY BatchDivides DEF MoneySound, NoUpscaling
<1> QED
  BY <1>1, <1>3, <1>4, <1>5, <1>6 DEF MoneySound

\* Snapshots, votes and batches take nothing away from what holds of the money.
LEMMA MoneyAlwaysSound == SystemSpec => []MoneySound
<1>1. SystemInit => MoneySound
  <2> SUFFICES ASSUME SystemInit PROVE MoneySound
    OBVIOUS
  <2>1. Init
    BY DEF SystemInit
  <2>2. TypeOK /\ RunningTotals
    BY <2>1, TypeInit, TotalsInit DEF TotalsExact, RunningTotals
  <2>3. SettledOnceInOrder /\ TokenLocked
    BY <2>1 DEF Init, SettledOnceInOrder, TokenLocked
  <2>4. Accounts /\ DepositsCounted
    BY <2>1, AccountsInit
  <2>5. Checkpointed /\ NothingScaledUp /\ (NoUpscaling => PeriodsDivided)
    BY <2>1, DivisionInit
  <2> QED
    BY <2>2, <2>3, <2>4, <2>5 DEF MoneySound
<1>2. MoneySound /\ [SystemNext]_systemVars => MoneySound'
  BY MoneyOrBatch, MoneyKeepsSound, BatchKeepsSound, Zenon
<1> QED
  BY <1>1, <1>2, PTL DEF SystemSpec

(***************************************************************************)
(* Issuers and holders that also use snapshots, batches, deposits that     *)
(* cite a snapshot, and votes, have the same pool: a batch moves neither   *)
(* money nor claim indices, and a deposit that cites a snapshot takes a    *)
(* period in like any other.                                               *)
(***************************************************************************)
THEOREM SystemIsAPool == SystemSpec => ImplementsPool
<1>1. SystemInit => Pool!Init
  BY DEF SystemInit, Init, Pool!Init
<1>2. MoneySound /\ [SystemNext]_systemVars => [Pool!Next]_(Pool!vars)
  <2> SUFFICES ASSUME MoneySound, [SystemNext]_systemVars
               PROVE  [Pool!Next]_(Pool!vars)
    OBVIOUS
  <2>1. CASE [Next]_vars
    BY <2>1, PoolSteps DEF MoneySound
  <2>2. ASSUME NEW o \in Offerings, BatchStep(o)
        PROVE  [Pool!Next]_(Pool!vars)
    <3>1. UNCHANGED poolView
      BY <2>2, BatchLeavesMoney, Zenon DEF poolView, poolVars, gateVars
    <3> QED
      BY <3>1 DEF poolView, Pool!vars
  <2> QED
    BY <2>1, <2>2, MoneyOrBatch
<1> QED
  BY <1>1, <1>2, MoneyAlwaysSound, PTL DEF SystemSpec, ImplementsPool, Pool!Spec

(***************************************************************************)
(* Batches too are forward-only: whatever mix of single writes and batches *)
(* an issuer uses, and a batch may write a holder several times, no period *)
(* that is already deposited is priced anew for a holder with a schedule.  *)
(* Each write of a batch checkpoints at the same period count, so the last *)
(* one is the one that counts from then on.                                *)
(***************************************************************************)
THEOREM BatchesKeepPastShares == SystemSpec => DepositedPeriodsKeepTheirShare
<1>1. MoneySound /\ [SystemNext]_systemVars => [KeepsPastShares]_vars
  BY MoneyOrBatch, PastSharesStep, BatchCheckpoints DEF MoneySound
<1> QED
  BY <1>1, MoneyAlwaysSound, PTL DEF SystemSpec, DepositedPeriodsKeepTheirShare, KeepsPastShares

(***************************************************************************)
(* The accounts balance and every holder is paid each period once, also    *)
(* with snapshots, batches and votes in between.                           *)
(***************************************************************************)
THEOREM SystemBalances == SystemSpec => [](VaultBalanced /\ SettledOnceInOrder)
<1>1. MoneySound => VaultBalanced /\ SettledOnceInOrder
  BY AccountsBalance DEF MoneySound
<1> QED
  BY <1>1, MoneyAlwaysSound, PTL

(***************************************************************************)
(* No period is oversubscribed, whoever wrote the shares: as long as no    *)
(* single write raised one since the period was deposited, be it a write   *)
(* in the middle of a batch, the holders cannot take more of it than was   *)
(* deposited.  The division that the period was given at its deposit       *)
(* covers every later register that only lowered shares.                   *)
(***************************************************************************)
THEOREM BatchesNeverOversubscribe == SystemSpec => []PeriodNeverOversubscribed
<1>1. MoneySound => PeriodNeverOversubscribed
  BY DividedIsCovered DEF MoneySound
<1> QED
  BY <1>1, MoneyAlwaysSound, PTL

(***************************************************************************)
(* The shared balance covers all offerings paid in a token, under the same *)
(* condition, when their shares are also written by batches.               *)
(***************************************************************************)
THEOREM SystemStaysSolvent == SystemSpec => []Solvent
<1>1. MoneySound => Solvent
  BY DividedIsSolvent DEF MoneySound
<1> QED
  BY <1>1, MoneyAlwaysSound, PTL

(***************************************************************************)
(* After a freeze or a migration no batch touches the register either, no  *)
(* deposit that cites a snapshot is taken, and nothing of the money path   *)
(* that HaltIsFinal names moves again.                                     *)
(***************************************************************************)
THEOREM SystemHaltIsFinal == SystemSpec => HaltIsFinal
<1>1. [SystemNext]_systemVars =>
        [halted => /\ halted'
                   /\ UNCHANGED <<registerVars, poolVars, claimDelay, claimWindow,
                                  barVars, redemption, redeemedOut>>]_vars
  BY MoneyOrBatch, HaltedStep, BatchLeavesMoney
<1> QED
  BY <1>1, PTL DEF SystemSpec, HaltIsFinal

=============================================================================
