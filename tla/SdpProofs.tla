------------------------------ MODULE SdpProofs ------------------------------
(***************************************************************************)
(* Proofs about SdpScans, for every set of settings, every number of       *)
(* processors, restarts, requests and scans, and every duration of a scan; *)
(* and about SpectrumPipeline, for every number of digitisers, every list  *)
(* of steps and every width, passband, load and spectrum.                  *)
(*                                                                         *)
(* The handler of samples is three steps, and the requests of the          *)
(* Telescope Manager run between them without its lock.  What makes it     *)
(* safe is that nobody takes a scan away or changes what it is of: a scan  *)
(* that is reset, aborted or resynchronised is only marked, so the scan    *)
(* the handler works on still fits its samples (HolderStands), a second    *)
(* that was loaded stays loaded (Later), and a scan leaves the queue only  *)
(* with a step of a counter (EachCounted).  A scan is announced when it    *)
(* was found complete, so it has its seconds for good (AdvisedWhole).  The *)
(* handlers of set_scan_config may be at any of their stages, and what     *)
(* they have set of the digitiser so far is all a scan is made from        *)
(* (ConfigTypes).                                                          *)
(*                                                                         *)
(* A pipeline is its own when nobody reached into the configuration while  *)
(* it was made (MadeAlone): then every step has picked up its scan, and    *)
(* what another pipeline records with a scan it records with its own or    *)
(* with one that was disturbed (StepsAreOwn).  A scan that is read back is *)
(* calibrated to the same products because the steps of the spectrum leave *)
(* no flags that the saved file would have lost (SpectrumClean).           *)
(***************************************************************************)
EXTENDS SdpScans, SpectrumPipeline, DataLemmas

(***************************************************************************)
(* Choosing from sequences and removing from them.                         *)
(***************************************************************************)
\* OnlyIn chooses what it says.
LEMMA OnlyInIs ==
  ASSUME NEW S, NEW q \in Seq(S), NEW set
  PROVE  /\ OnlyIn(q, set) \in Seq(S)
         /\ ToSet(OnlyIn(q, set)) = ToSet(q) \cap set
<1>1. PICK n \in Nat : n = Len(q)
  OBVIOUS
<1>2. PICK step : step = [p \in Seq(S) \X (1..n) |->
                             IF q[p[2]] \in set THEN Append(p[1], q[p[2]]) ELSE p[1]]
  OBVIOUS
<1>3. step \in [Seq(S) \X (1..n) -> Seq(S)]
  <2>1. \A i \in 1..n : q[i] \in S
    BY <1>1, ElementOfSeq
  <2>2. SUFFICES ASSUME NEW p \in Seq(S) \X (1..n)
                 PROVE  (IF q[p[2]] \in set THEN Append(p[1], q[p[2]]) ELSE p[1]) \in Seq(S)
    BY <1>2
  <2>3. p[1] \in Seq(S) /\ p[2] \in 1..n /\ q[p[2]] \in S
    BY <2>1
  <2>4. Append(p[1], q[p[2]]) \in Seq(S)
    BY <2>3
  <2>5. QED BY <2>3, <2>4
<1>4. <<>> \in Seq(S)
  OBVIOUS
<1>5. PICK f \in [0..n -> Seq(S)] : Steps(f, n, <<>>, step)
  BY <1>3, <1>4, Recursion
<1>6. f = [k \in 0..Len(q) |->
             IF k = 0 THEN <<>>
             ELSE IF q[k] \in set THEN Append(f[k - 1], q[k]) ELSE f[k - 1]]
  <2>1. \A k \in 1..n : f[k] = IF q[k] \in set THEN Append(f[k - 1], q[k]) ELSE f[k - 1]
    <3>1. SUFFICES ASSUME NEW k \in 1..n
                   PROVE  f[k] = IF q[k] \in set THEN Append(f[k - 1], q[k]) ELSE f[k - 1]
      OBVIOUS
    <3>2. f[k - 1] \in Seq(S) /\ f[k] = step[<<f[k - 1], k>>]
      BY <1>5 DEF Steps
    <3>3. QED BY <1>2, <3>2
  <2>2. f[0] = <<>>
    BY <1>5 DEF Steps
  <2>3. PICK g : g = [k \in 0..n |->
                        IF k = 0 THEN <<>>
                        ELSE IF q[k] \in set THEN Append(f[k - 1], q[k]) ELSE f[k - 1]]
    OBVIOUS
  <2>4. \A k \in 0..n : g[k] = f[k]
    <3>1. \A k \in 0..n : k = 0 \/ (k # 0 /\ k \in 1..n)
      OBVIOUS
    <3>2. QED BY <2>1, <2>2, <2>3, <3>1
  <2>5. f = g
    BY <1>5, <2>3, <2>4
  <2>6. QED BY <1>1, <2>3, <2>5
<1>7. PICK h : /\ h = [k \in 0..Len(q) |->
                         IF k = 0 THEN <<>>
                         ELSE IF q[k] \in set THEN Append(h[k - 1], q[k]) ELSE h[k - 1]]
               /\ OnlyIn(q, set) = h[Len(q)]
  <2> DEFINE Chosen(x) == x = [k \in 0..Len(q) |->
                                 IF k = 0 THEN <<>>
                                 ELSE IF q[k] \in set THEN Append(x[k - 1], q[k]) ELSE x[k - 1]]
  <2>1. PICK h : h = CHOOSE x : Chosen(x)
    OBVIOUS
  <2>2. Chosen(h)
    <3>1. Chosen(f)
      BY <1>6
    <3> HIDE DEF Chosen
    <3>2. QED BY <2>1, <3>1, Zenon
  <2>3. OnlyIn(q, set) = h[Len(q)]
    BY <2>1 DEF OnlyIn
  <2>4. QED BY <2>2, <2>3
<1>8. /\ h[0] = <<>>
      /\ \A k \in 1..n : h[k] = IF q[k] \in set THEN Append(h[k - 1], q[k]) ELSE h[k - 1]
  <2>1. 0 \in 0..n /\ \A k \in 1..n : k \in 0..n /\ k # 0
    BY <1>1
  <2>2. QED BY <1>1, <1>7, <2>1
<1>9. PICK T : T = {k \in 0..n : ~(/\ h[k] \in Seq(S)
                                   /\ ToSet(h[k]) = {q[i] : i \in 1..k} \cap set)}
  OBVIOUS
<1>10. ASSUME T # {} PROVE FALSE
  <2>1. PICK k \in T : \A l \in T : k <= l
    <3>1. T \subseteq Nat
      BY <1>9
    <3>2. QED BY <1>10, <3>1, LeastNumber
  <2>2. k \in 0..n /\ ~(/\ h[k] \in Seq(S)
                        /\ ToSet(h[k]) = {q[i] : i \in 1..k} \cap set)
    BY <1>9
  <2>3. k # 0
    <3>1. ToSet(<<>>) = {}
      BY DEF ToSet
    <3>2. {q[i] : i \in 1..0} = {}
      OBVIOUS
    <3>3. QED BY <1>4, <1>8, <2>2, <3>1, <3>2
  <2>4. k - 1 \in 0..n /\ k - 1 \notin T /\ k \in 1..n
    BY <2>1, <2>2, <2>3
  <2>5. PICK a \in Seq(S) : a = h[k - 1] /\ ToSet(a) = {q[i] : i \in 1..(k - 1)} \cap set
    BY <1>9, <2>4
  <2>6. {q[i] : i \in 1..k} = {q[i] : i \in 1..(k - 1)} \cup {q[k]}
    <3>1. \A i : i \in 1..k <=> (i \in 1..(k - 1) \/ i = k)
      BY <2>4
    <3>2. QED BY <3>1
  <2>7. q[k] \in S
    BY <1>1, <2>4, ElementOfSeq
  <2>8. CASE q[k] \in set
    <3>1. h[k] = Append(a, q[k])
      BY <1>8, <2>4, <2>5, <2>8
    <3>2. Append(a, q[k]) \in Seq(S) /\ ToSet(Append(a, q[k])) = ToSet(a) \cup {q[k]}
      BY <2>7, Appended
    <3>3. QED BY <2>2, <2>5, <2>6, <2>8, <3>1, <3>2
  <2>9. CASE q[k] \notin set
    BY <1>8, <2>2, <2>4, <2>5, <2>6, <2>9
  <2>10. QED BY <2>8, <2>9
<1>11. h[n] \in Seq(S) /\ ToSet(h[n]) = {q[i] : i \in 1..n} \cap set
  <2>1. n \in 0..n /\ n \notin T
    BY <1>1, <1>10
  <2>2. QED BY <1>9, <2>1
<1>12. ToSet(q) = {q[i] : i \in 1..n}
  <2>1. DOMAIN q = 1..n
    BY <1>1
  <2>2. QED BY <2>1 DEF ToSet
<1>13. QED BY <1>1, <1>7, <1>11, <1>12

\* At most one is taken out.
LEMMA WithoutIs ==
  ASSUME NEW S, NEW q \in Seq(S), NEW i, NEW all
  PROVE  /\ Without(q, i, all) \in Seq(S)
         /\ ToSet(Without(q, i, all)) \subseteq ToSet(q)
         /\ Len(Without(q, i, all)) \in Nat /\ Len(q) \in Nat
         /\ Len(Without(q, i, all)) + 1 >= Len(q)
<1>1. PICK at : at = SelectInSeq(q, LAMBDA j : ScanId(all[j]) = ScanId(all[i]))
  OBVIOUS
<1>2. Without(q, i, all) = IF at = 0 THEN q ELSE RemoveAt(q, at)
  BY <1>1 DEF Without
<1>3. at \in 0..Len(q)
  <2>1. PICK I : I = {k \in 1..Len(q) : ScanId(all[q[k]]) = ScanId(all[i])}
    OBVIOUS
  <2>2. at = IF I # {} THEN Min(I) ELSE 0
    BY <1>1, <2>1 DEF SelectInSeq
  <2>3. CASE I # {}
    <3>1. I \subseteq Nat
      BY <2>1
    <3>2. Min(I) \in I
      BY <2>3, <3>1, MinIsLeast
    <3>3. QED BY <2>1, <2>2, <2>3, <3>2
  <2>4. QED BY <2>2, <2>3
<1>4. CASE at = 0
  BY <1>2, <1>4
<1>5. CASE at # 0
  <2>1. PICK a : a = SubSeq(q, 1, at - 1)
    OBVIOUS
  <2>2. PICK b : b = SubSeq(q, at + 1, Len(q))
    OBVIOUS
  <2>3. a \in Seq(S) /\ Len(a) = at - 1 /\ \A k \in 1..Len(a) : a[k] = q[k]
    BY <1>3, <1>5, <2>1
  <2>4. b \in Seq(S) /\ Len(b) = Len(q) - at /\ \A k \in 1..Len(b) : b[k] = q[at + k]
    BY <1>3, <2>2, Rest
  <2>5. Without(q, i, all) = a \o b
    BY <1>2, <1>5, <2>1, <2>2 DEF RemoveAt
  <2>6. /\ a \o b \in Seq(S) /\ Len(a \o b) = Len(a) + Len(b)
        /\ \A k \in 1..(Len(a) + Len(b)) :
              (a \o b)[k] = IF k <= Len(a) THEN a[k] ELSE b[k - Len(a)]
    BY <2>3, <2>4, ConcatProperties
  <2>7. Len(q) \in Nat /\ at \in 1..Len(q)
    BY <1>3, <1>5
  <2>8. \A k \in 1..(Len(a) + Len(b)) : \E l \in 1..Len(q) : (a \o b)[k] = q[l]
    <3>1. SUFFICES ASSUME NEW k \in 1..(Len(a) + Len(b))
                   PROVE  \E l \in 1..Len(q) : (a \o b)[k] = q[l]
      OBVIOUS
    <3>2. CASE k <= Len(a)
      BY <2>3, <2>6, <2>7, <3>2
    <3>3. CASE ~(k <= Len(a))
      <4>1. k - Len(a) \in 1..Len(b) /\ at + (k - Len(a)) \in 1..Len(q)
        BY <2>3, <2>4, <2>7, <3>3
      <4>2. QED BY <2>4, <2>6, <3>3, <4>1
    <3>4. QED BY <3>2, <3>3
  <2>9. ToSet(a \o b) \subseteq ToSet(q)
    BY <2>6, <2>8 DEF ToSet
  <2>10. QED BY <2>3, <2>4, <2>5, <2>6, <2>7, <2>9
<1>6. QED BY <1>4, <1>5

\* At most as many are taken out as are named.
LEMMA WithoutAllIs ==
  ASSUME NEW S, NEW q \in Seq(S), NEW R, NEW is \in Seq(R), NEW all
  PROVE  /\ WithoutAll(q, is, all) \in Seq(S)
         /\ ToSet(WithoutAll(q, is, all)) \subseteq ToSet(q)
         /\ Len(WithoutAll(q, is, all)) + Len(is) >= Len(q)
<1>1. PICK n \in Nat : n = Len(is)
  OBVIOUS
<1>2. PICK step : step = [p \in Seq(S) \X (1..n) |-> Without(p[1], is[p[2]], all)]
  OBVIOUS
<1>3. step \in [Seq(S) \X (1..n) -> Seq(S)]
  BY <1>2, WithoutIs
<1>4. PICK f \in [0..n -> Seq(S)] : Steps(f, n, q, step)
  BY <1>3, Recursion
<1>5. f = [k \in 0..Len(is) |-> IF k = 0 THEN q ELSE Without(f[k - 1], is[k], all)]
  <2>1. \A k \in 1..n : f[k] = Without(f[k - 1], is[k], all)
    <3>1. SUFFICES ASSUME NEW k \in 1..n PROVE f[k] = Without(f[k - 1], is[k], all)
      OBVIOUS
    <3>2. f[k - 1] \in Seq(S) /\ f[k] = step[<<f[k - 1], k>>]
      BY <1>4 DEF Steps
    <3>3. QED BY <1>2, <3>2
  <2>2. f[0] = q
    BY <1>4 DEF Steps
  <2>3. QED BY <1>1, <1>4, <2>1, <2>2
<1>6. PICK h : /\ h = [k \in 0..Len(is) |-> IF k = 0 THEN q ELSE Without(h[k - 1], is[k], all)]
               /\ WithoutAll(q, is, all) = h[Len(is)]
  <2> DEFINE Left(x) == x = [k \in 0..Len(is) |->
                               IF k = 0 THEN q ELSE Without(x[k - 1], is[k], all)]
  <2>1. PICK h : h = CHOOSE x : Left(x)
    OBVIOUS
  <2>2. Left(h)
    <3>1. Left(f)
      BY <1>5
    <3> HIDE DEF Left
    <3>2. QED BY <2>1, <3>1, Zenon
  <2>3. WithoutAll(q, is, all) = h[Len(is)]
    BY <2>1 DEF WithoutAll
  <2>4. QED BY <2>2, <2>3
<1>7. h[0] = q /\ \A k \in 1..n : h[k] = Without(h[k - 1], is[k], all)
  <2>1. 0 \in 0..n /\ \A k \in 1..n : k \in 0..n /\ k # 0
    BY <1>1
  <2>2. QED BY <1>1, <1>6, <2>1
<1>8. PICK T : T = {k \in 0..n : ~(/\ h[k] \in Seq(S) /\ ToSet(h[k]) \subseteq ToSet(q)
                                   /\ Len(h[k]) + k >= Len(q))}
  OBVIOUS
<1>9. ASSUME T # {} PROVE FALSE
  <2>1. PICK k \in T : \A l \in T : k <= l
    <3>1. T \subseteq Nat
      BY <1>8
    <3>2. QED BY <1>9, <3>1, LeastNumber
  <2>2. k \in 0..n /\ ~(/\ h[k] \in Seq(S) /\ ToSet(h[k]) \subseteq ToSet(q)
                        /\ Len(h[k]) + k >= Len(q))
    BY <1>8
  <2>3. k # 0
    <3>1. Len(q) \in Nat
      OBVIOUS
    <3>2. QED BY <1>7, <2>2, <3>1
  <2>4. k - 1 \in 0..n /\ k - 1 \notin T /\ k \in 1..n
    BY <2>1, <2>2, <2>3
  <2>5. PICK a \in Seq(S) : /\ a = h[k - 1] /\ ToSet(a) \subseteq ToSet(q)
                            /\ Len(a) + (k - 1) >= Len(q)
    BY <1>8, <2>4
  <2>6. PICK b \in Seq(S) : /\ b = Without(a, is[k], all) /\ ToSet(b) \subseteq ToSet(a)
                            /\ Len(b) \in Nat /\ Len(a) \in Nat /\ Len(b) + 1 >= Len(a)
    BY WithoutIs
  <2>7. h[k] = b
    BY <1>7, <2>4, <2>5, <2>6
  <2>8. Len(b) + k >= Len(q)
    <3>1. Len(q) \in Nat /\ k \in Nat
      BY <2>4
    <3>2. QED BY <2>5, <2>6, <3>1
  <2>9. QED BY <2>2, <2>5, <2>6, <2>7, <2>8
<1>10. n \in 0..n /\ n \notin T
  BY <1>9
<1>11. QED BY <1>1, <1>6, <1>8, <1>10

(***************************************************************************)
(* What becomes of a scan.                                                 *)
(***************************************************************************)
\* The seconds of a scan are in place, and all there when it is complete.
GoodScan(s) ==
    /\ s \in Scan
    /\ \A k \in 1..Duration : s.secs[k] # None =>
          /\ s.secs[k].n = s.start + k - 1
          /\ s.secs[k].setting.freq = s.setting.freq
          /\ s.secs[k].setting.load = s.setting.load
    /\ s.status = "COMPLETE" => \A k \in 1..Duration : s.secs[k] # None

\* The scan it was, with at least the seconds it had.
Later(s, t) ==
    /\ t.setting = s.setting /\ t.start = s.start
    /\ \A k \in 1..Duration : s.secs[k] # None => t.secs[k] # None

\* A scan of a known type, field by field.
LEMMA ScanIs ==
  ASSUME NEW s
  PROVE  s \in Scan <=>
           /\ s = [setting |-> s.setting, start |-> s.start, iter |-> s.iter, fails |-> s.fails,
                   status |-> s.status, secs |-> s.secs]
           /\ s.setting \in Mixed /\ s.start \in 1..MaxReads /\ s.iter \in Nat
           /\ s.fails \in Nat /\ s.status \in Pending \cup {"ABORTED", "COMPLETE"}
           /\ s.secs \in [1..Duration -> {None} \cup Sample]
<1>1. PICK P : P = Pending \cup {"ABORTED", "COMPLETE"}
  OBVIOUS
<1>2. PICK M : M = Mixed
  OBVIOUS
<1>3. PICK F : F = [1..Duration -> {None} \cup Sample]
  OBVIOUS
<1>4. Scan = [setting : M, start : 1..MaxReads, iter : Nat, fails : Nat, status : P, secs : F]
  BY <1>1, <1>2, <1>3 DEF Scan
<1>5. QED BY <1>1, <1>2, <1>3, <1>4

LEMMA ScanAborted ==
  ASSUME NEW s, GoodScan(s), NEW t, t = [s EXCEPT !.status = "ABORTED"]
  PROVE  GoodScan(t) /\ Later(s, t)
<1>1. /\ t = [setting |-> s.setting, start |-> s.start, iter |-> s.iter, fails |-> s.fails,
              status |-> "ABORTED", secs |-> s.secs]
      /\ s \in Scan
  BY ScanIs DEF GoodScan
<1>2. /\ t.setting = s.setting /\ t.start = s.start /\ t.secs = s.secs /\ t.status = "ABORTED"
      /\ t \in Scan
  BY <1>1, ScanIs
<1>3. QED BY <1>2 DEF GoodScan, Later

LEMMA ScanFailed ==
  ASSUME NEW s, GoodScan(s), NEW t, t = [s EXCEPT !.fails = @ + 1]
  PROVE  GoodScan(t) /\ Later(s, t)
<1>1. /\ t = [setting |-> s.setting, start |-> s.start, iter |-> s.iter, fails |-> s.fails + 1,
              status |-> s.status, secs |-> s.secs]
      /\ s \in Scan
  BY ScanIs DEF GoodScan
<1>2. /\ t.setting = s.setting /\ t.start = s.start /\ t.secs = s.secs /\ t.status = s.status
      /\ t \in Scan
  BY <1>1, ScanIs
<1>3. QED BY <1>2 DEF GoodScan, Later

\* A second is loaded into its place.
Loaded(s, m) == [s EXCEPT !.secs[m.n - s.start + 1] = m]
Judged(l) == [l EXCEPT !.status = StatusOf(l)]

LEMMA LoadedIs ==
  ASSUME NEW s, GoodScan(s), NEW m
  PROVE  \E sec, f, st :
            /\ sec = m.n - s.start + 1
            /\ f = [s.secs EXCEPT ![sec] = m]
            /\ (st = "WIP" /\ \E k \in 1..Duration : f[k] = None)
               \/ (st = "COMPLETE" /\ ~\E k \in 1..Duration : f[k] = None)
            /\ Judged(Loaded(s, m)) =
                  [setting |-> s.setting, start |-> s.start, iter |-> s.iter,
                   fails |-> s.fails, status |-> st, secs |-> f]
<1>1. s = [setting |-> s.setting, start |-> s.start, iter |-> s.iter, fails |-> s.fails,
           status |-> s.status, secs |-> s.secs]
  BY ScanIs DEF GoodScan
<1>2. PICK sec : sec = m.n - s.start + 1
  OBVIOUS
<1>3. PICK f : f = [s.secs EXCEPT ![sec] = m]
  OBVIOUS
<1>4. PICK l : l = [setting |-> s.setting, start |-> s.start, iter |-> s.iter,
                    fails |-> s.fails, status |-> s.status, secs |-> f]
  OBVIOUS
<1>5. Loaded(s, m) = l
  BY <1>1, <1>2, <1>3, <1>4 DEF Loaded
<1>6. PICK st : st = StatusOf(l)
  OBVIOUS
<1>7. Judged(l) = [setting |-> s.setting, start |-> s.start, iter |-> s.iter,
                   fails |-> s.fails, status |-> st, secs |-> f]
  BY <1>4, <1>6 DEF Judged
<1>8. l.secs = f
  BY <1>4
<1>9. \/ st = "WIP" /\ \E k \in 1..Duration : f[k] = None
      \/ st = "COMPLETE" /\ ~\E k \in 1..Duration : f[k] = None
  BY <1>6, <1>8 DEF StatusOf
<1>10. QED BY <1>2, <1>3, <1>5, <1>7, <1>9

LEMMA ScanLoaded ==
  ASSUME NEW s, GoodScan(s), NEW m \in Sample, Fits(m, s)
  PROVE  GoodScan(Judged(Loaded(s, m))) /\ Later(s, Judged(Loaded(s, m)))
<1>1. /\ s.setting \in Mixed /\ s.start \in 1..MaxReads /\ s.iter \in Nat /\ s.fails \in Nat
      /\ s.secs \in [1..Duration -> {None} \cup Sample]
  BY ScanIs DEF GoodScan
<1>2. PICK t : t = Judged(Loaded(s, m))
  OBVIOUS
<1>3. PICK sec, f, st :
         /\ sec = m.n - s.start + 1
         /\ f = [s.secs EXCEPT ![sec] = m]
         /\ (st = "WIP" /\ \E k \in 1..Duration : f[k] = None)
            \/ (st = "COMPLETE" /\ ~\E k \in 1..Duration : f[k] = None)
         /\ Judged(Loaded(s, m)) =
               [setting |-> s.setting, start |-> s.start, iter |-> s.iter,
                fails |-> s.fails, status |-> st, secs |-> f]
  BY LoadedIs, Zenon
<1>4. /\ t.setting = s.setting /\ t.start = s.start /\ t.iter = s.iter /\ t.fails = s.fails
      /\ t.status = st /\ t.secs = f
      /\ t = [setting |-> t.setting, start |-> t.start, iter |-> t.iter, fails |-> t.fails,
              status |-> t.status, secs |-> t.secs]
  BY <1>2, <1>3
<1>5. m.n \in Int /\ m # None
  <2>1. PICK S : S = Settings
    OBVIOUS
  <2>2. m \in [kind : {"samples"}, n : 1..MaxReads, run : 0..MaxRestarts,
               setting : S, whole : BOOLEAN]
    BY <2>1 DEF Sample
  <2>3. m.n \in 1..MaxReads
    BY <2>2
  <2>4. QED BY <2>3, NoneAssumption
<1>6. sec \in 1..Duration /\ m.n = s.start + sec - 1
  <2>1. m.n \in s.start..(s.start + Duration - 1) /\ s.start \in Int /\ Duration \in Int
    BY <1>1, BoundsAssumption DEF Fits, End
  <2>2. QED BY <1>3, <1>5, <2>1
<1>7. /\ f \in [1..Duration -> {None} \cup Sample] /\ f[sec] = m
      /\ \A k \in 1..Duration : k # sec => f[k] = s.secs[k]
  BY <1>1, <1>3, <1>6
<1>8. t \in Scan
  <2>1. t.status \in Pending \cup {"ABORTED", "COMPLETE"}
    BY <1>3, <1>4 DEF Pending
  <2>2. QED BY <1>1, <1>4, <1>7, <2>1, ScanIs
<1>9. ASSUME NEW k \in 1..Duration, f[k] # None
      PROVE  /\ f[k].n = s.start + k - 1 /\ f[k].setting.freq = s.setting.freq
             /\ f[k].setting.load = s.setting.load
  <2>1. CASE k = sec
    BY <1>6, <1>7, <2>1 DEF Fits
  <2>2. CASE k # sec
    BY <1>7, <1>9, <2>2 DEF GoodScan
  <2>3. QED BY <2>1, <2>2
<1>10. GoodScan(t)
  <2>1. st = "COMPLETE" => \A k \in 1..Duration : f[k] # None
    BY <1>3
  <2>2. QED BY <1>4, <1>8, <1>9, <2>1 DEF GoodScan
<1>11. Later(s, t)
  BY <1>4, <1>5, <1>7 DEF Later
<1>12. QED BY <1>2, <1>10, <1>11

(***************************************************************************)
(* The inductive invariant.                                                *)
(***************************************************************************)
AllGood(all) == all \in Seq(Scan) /\ \A i \in 1..Len(all) : GoodScan(all[i])

\* Scans are only added, and go on as the scans they were.
Follows(all, new) ==
    /\ AllGood(new) /\ Len(all) <= Len(new)
    /\ \A i \in 1..Len(all) : Later(all[i], new[i])

Counts == [completed : Nat, aborted : Nat, wip : Nat]
\* A digitiser, with the reads since its restart and those of all time.
Source == [n : Nat, reads : Nat, run : 0..MaxRestarts, setting : Settings \cup {None},
           connected : BOOLEAN]

\* What the digitiser and the Telescope Manager have asked for.
AskedTypes ==
    /\ source \in Source /\ source.n <= source.reads /\ source.reads <= MaxReads
    /\ wanted \in Settings \cup {None} /\ observing \in Observations \cup {None}
    /\ queue \in Seq(Event) /\ busy \subseteq Event

\* A handler of set_scan_config at one of its stages.
Handling(c) ==
    /\ c = [setting |-> c.setting, stage |-> c.stage, model |-> c.model,
            listed |-> c.listed, use |-> c.use]
    /\ c.setting \in Settings /\ c.stage \in Stages

\* The digitiser as the SDP has set it, and those that are setting it.
ConfigTypes ==
    /\ scanning \in Purposes \cup {None} /\ tuned \in Tunings
    /\ configuring = [p \in 1..NumProcs |-> configuring[p]]
    /\ \A p \in 1..NumProcs : configuring[p] # None => Handling(configuring[p])

ScanTypes ==
    /\ sky_q \in Seq(Nat) /\ ToSet(sky_q) \subseteq 1..Len(scans)
    /\ disk \cup advised \subseteq 1..Len(scans)
    /\ iter \in [Targets -> Nat] /\ counts \in Counts
    /\ reset # None => reset.scans \subseteq 1..Len(scans)

\* The handler that holds the lock loads samples into a scan they fit, though
\* others have used the scan meanwhile.
HolderStands ==
    holder # None => /\ holder \in [msg : Sample, scan : Nat, done : BOOLEAN]
                     /\ holder.scan \in 1..Len(scans)
                     /\ Fits(holder.msg, scans[holder.scan])

\* A scan that was announced was complete, and what it holds is never taken out.
AdvisedWhole == \A i \in advised : \A k \in 1..Duration : scans[i].secs[k] # None

\* A scan leaves the queue only as it is counted.
EachCounted == Len(scans) <= counts.completed + counts.aborted + Len(sky_q)

SdpInv == /\ AskedTypes /\ ConfigTypes /\ ScanTypes /\ AllGood(scans)
          /\ HolderStands /\ AdvisedWhole /\ EachCounted

(***************************************************************************)
(* Scans are aborted.                                                      *)
(***************************************************************************)
\* What an abort makes of the scans, the queue and the counters.
Aborted(is, all, q, c, left) ==
    /\ Follows(all, left.scans) /\ Len(left.scans) = Len(all)
    /\ left.sky_q \in Seq(Nat) /\ ToSet(left.sky_q) \subseteq ToSet(q)
    /\ left.counts \in Counts /\ left.counts.completed = c.completed
    /\ c.aborted + Len(q) <= left.counts.aborted + Len(left.sky_q)

LEMMA AbortIs ==
  ASSUME NEW all, AllGood(all), NEW q \in Seq(Nat), NEW R, NEW is \in Seq(R), NEW c \in Counts
  PROVE  Aborted(is, all, q, c, Abort(is, all, q, c))
<1>1. PICK left : left = Abort(is, all, q, c)
  OBVIOUS
<1>2. PICK new : new = [i \in DOMAIN all |->
                   IF i \in ToSet(is) THEN [all[i] EXCEPT !.status = "ABORTED"] ELSE all[i]]
  OBVIOUS
<1>3. PICK d : d = [c EXCEPT !.aborted = @ + Len(is)]
  OBVIOUS
<1>4. left.scans = new /\ left.sky_q = WithoutAll(q, is, all) /\ left.counts = d
  BY <1>1, <1>2, <1>3 DEF Abort
<1>5. DOMAIN all = 1..Len(all) /\ Len(all) \in Nat
  BY DEF AllGood
<1>6. ASSUME NEW i \in 1..Len(all) PROVE GoodScan(new[i]) /\ Later(all[i], new[i])
  <2>1. GoodScan(all[i])
    BY DEF AllGood
  <2>2. CASE i \in ToSet(is)
    <3>1. new[i] = [all[i] EXCEPT !.status = "ABORTED"]
      BY <1>2, <1>5, <2>2
    <3>2. QED BY <2>1, <3>1, ScanAborted
  <2>3. CASE i \notin ToSet(is)
    <3>1. new[i] = all[i]
      BY <1>2, <1>5, <2>3
    <3>2. QED BY <2>1, <3>1 DEF Later
  <2>4. QED BY <2>2, <2>3
<1>7. new \in Seq(Scan) /\ Len(new) = Len(all)
  <2>1. new \in [1..Len(all) -> Scan]
    <3>1. \A i \in 1..Len(all) : new[i] \in Scan
      BY <1>6 DEF GoodScan
    <3>2. DOMAIN new = 1..Len(all)
      BY <1>2, <1>5
    <3>3. new = [i \in 1..Len(all) |-> new[i]]
      <4>1. new = [i \in DOMAIN new |-> new[i]]
        BY <1>2
      <4>2. QED BY <3>2, <4>1
    <3>4. QED BY <3>1, <3>3
  <2>2. PICK n \in Nat : n = Len(all)
    BY <1>5
  <2>3. new \in [1..n -> Scan]
    BY <2>1, <2>2
  <2>4. new \in Seq(Scan) /\ Len(new) = n
    BY <2>3
  <2>5. QED BY <2>2, <2>4
<1>8. Follows(all, new)
  <2>1. AllGood(new)
    BY <1>6, <1>7 DEF AllGood
  <2>2. Len(all) <= Len(new)
    BY <1>5, <1>7
  <2>3. QED BY <1>6, <2>1, <2>2 DEF Follows
<1>9. c.completed \in Nat /\ c.aborted \in Nat /\ c.wip \in Nat /\ Len(is) \in Nat
  BY DEF Counts
<1>10. d \in Counts /\ d.completed = c.completed /\ d.aborted = c.aborted + Len(is)
  BY <1>3, <1>9 DEF Counts
<1>11. /\ left.sky_q \in Seq(Nat) /\ ToSet(left.sky_q) \subseteq ToSet(q)
       /\ Len(left.sky_q) + Len(is) >= Len(q)
  BY <1>4, WithoutAllIs
<1>12. c.aborted + Len(q) <= left.counts.aborted + Len(left.sky_q)
  <2>1. Len(q) \in Nat /\ Len(left.sky_q) \in Nat
    BY <1>11
  <2>2. QED BY <1>4, <1>9, <1>10, <1>11, <2>1
<1>13. QED BY <1>1, <1>4, <1>7, <1>8, <1>10, <1>11, <1>12 DEF Aborted

(***************************************************************************)
(* What the digitiser and the Telescope Manager do.                        *)
(***************************************************************************)
LEMMA SettingIs ==
  ASSUME NEW s \in Settings
  PROVE  /\ s \in Mixed /\ s.tgt \in Targets /\ s.obs \in Observations
         /\ s.odt \in BOOLEAN /\ s.load \in BOOLEAN
         /\ s.freq \in Parameters("freq") /\ s.gain \in Parameters("gain")
<1>1. s \in Mixed
  BY SettingsAssumption
<1>2. PICK T : T = Parameters("tgt")
  OBVIOUS
<1>3. PICK O : O = Parameters("obs")
  OBVIOUS
<1>4. PICK F : F = Parameters("freq")
  OBVIOUS
<1>5. PICK G : G = Parameters("gain")
  OBVIOUS
<1>6. s \in [tgt : T, obs : O, odt : BOOLEAN, freq : F, gain : G, load : BOOLEAN]
  BY <1>1, <1>2, <1>3, <1>4, <1>5 DEF Mixed
<1>7. QED BY <1>1, <1>2, <1>3, <1>4, <1>5, <1>6 DEF Targets, Observations

\* An event is queued.
LEMMA Queued ==
  ASSUME AskedTypes, NEW e \in Event, Enqueue(e)
  PROVE  queue' \in Seq(Event)
BY DEF AskedTypes, Enqueue

\* The parts of the digitiser.
LEMMA SourceIs ==
  ASSUME AskedTypes
  PROVE  /\ source = [n |-> source.n, reads |-> source.reads, run |-> source.run,
                      setting |-> source.setting, connected |-> source.connected]
         /\ source.n \in Nat /\ source.reads \in Nat
         /\ source.run \in 0..MaxRestarts /\ source.setting \in Settings \cup {None}
         /\ source.connected \in BOOLEAN
         /\ source.n <= source.reads /\ source.reads <= MaxReads
<1>1. source \in Source
  BY DEF AskedTypes
<1>2. QED BY <1>1 DEF Source, AskedTypes

LEMMA ReadKeeps ==
  ASSUME AskedTypes, Read
  PROVE  AskedTypes'
<1>1. PICK whole \in BOOLEAN :
         Enqueue([kind |-> "samples", n |-> source.n + 1, run |-> source.run,
                  setting |-> source.setting, whole |-> whole])
  BY DEF Read
<1>2. PICK e : e = [kind |-> "samples", n |-> source.n + 1, run |-> source.run,
                    setting |-> source.setting, whole |-> whole]
  OBVIOUS
<1>3. /\ source.n \in Nat /\ source.reads \in Nat
      /\ source.run \in 0..MaxRestarts /\ source.setting \in Settings
      /\ source.n + 1 \in 1..MaxReads
      /\ source.n + 1 <= source.reads + 1 /\ source.reads + 1 <= MaxReads
  <2>1. source.setting # None /\ source.reads < MaxReads /\ MaxReads \in Nat
    BY BoundsAssumption DEF Read
  <2>2. QED BY <2>1, SourceIs
<1>4. e \in Event
  <2>1. PICK S : S = Settings
    OBVIOUS
  <2>2. e \in [kind : {"samples"}, n : 1..MaxReads, run : 0..MaxRestarts,
               setting : S, whole : BOOLEAN]
    BY <1>2, <1>3, <2>1
  <2>3. QED BY <2>1, <2>2 DEF Event, Sample
<1>5. queue' \in Seq(Event)
  BY <1>1, <1>2, <1>4, Queued
<1>6. wanted' = wanted /\ observing' = observing /\ busy' = busy
  BY DEF Read, manager
<1>7. PICK s : s = [source EXCEPT !.n = @ + 1, !.reads = @ + 1]
  OBVIOUS
<1>8. source' = s /\ s \in Source /\ s.n = source.n + 1 /\ s.reads = source.reads + 1
  <2>1. source' = s
    BY <1>7 DEF Read
  <2>2. s = [n |-> source.n + 1, reads |-> source.reads + 1, run |-> source.run,
             setting |-> source.setting, connected |-> source.connected]
    BY <1>7, SourceIs
  <2>3. s.n \in Nat /\ s.reads \in Nat
    BY <1>3, <2>2
  <2>4. QED BY <1>3, <2>1, <2>2, <2>3, SourceIs DEF Source
<1>9. QED
  <2>1. UNCHANGED <<wanted, observing, busy>>
    BY <1>6
  <2>2. QED BY <1>3, <1>5, <1>6, <1>8, <2>1 DEF AskedTypes

LEMMA EnvironmentKeeps ==
  ASSUME AskedTypes, Environment
  PROVE  AskedTypes' /\ UNCHANGED sdpState
<1>1. CASE Retune
  <2>1. PICK s : s = [source EXCEPT !.setting = wanted]
    OBVIOUS
  <2>2. source' = s /\ UNCHANGED <<wanted, observing, queue, busy, sdpState>>
    BY <1>1, <2>1 DEF Retune, manager
  <2>3. s \in Source /\ s.n = source.n /\ s.reads = source.reads
    <3>1. s = [n |-> source.n, reads |-> source.reads, run |-> source.run,
               setting |-> wanted, connected |-> source.connected]
      BY <2>1, SourceIs
    <3>2. wanted \in Settings \cup {None}
      BY DEF AskedTypes
    <3>3. QED BY <3>1, <3>2, SourceIs DEF Source
  <2>4. QED BY <2>2, <2>3 DEF AskedTypes
<1>2. CASE Read
  BY <1>2, ReadKeeps DEF Read
<1>3. CASE Restart
  <2>1. PICK e : e = [kind |-> "down"]
    OBVIOUS
  <2>2. e \in Event
    BY <2>1 DEF Event, LinkEvent
  <2>3. queue' \in Seq(Event)
    BY <1>3, <2>1, <2>2, Queued DEF Restart
  <2>4. PICK s : s = [source EXCEPT !.n = 0, !.run = @ + 1, !.setting = None,
                                    !.connected = FALSE]
    OBVIOUS
  <2>5. source' = s
    BY <1>3, <2>4 DEF Restart
  <2>6. s \in Source /\ s.n <= s.reads /\ s.reads <= MaxReads
    <3>1. source.run < MaxRestarts
      BY <1>3 DEF Restart
    <3>2. s = [n |-> 0, reads |-> source.reads, run |-> source.run + 1,
               setting |-> None, connected |-> FALSE]
      BY <2>4, SourceIs
    <3>3. source.run + 1 \in 0..MaxRestarts /\ 0 <= source.reads
      BY <3>1, SourceIs, BoundsAssumption
    <3>4. QED BY <3>2, <3>3, SourceIs DEF Source
  <2>7. UNCHANGED <<observing, busy, sdpState>> /\ wanted' = None
    BY <1>3 DEF Restart
  <2>8. QED BY <2>3, <2>4, <2>5, <2>6, <2>7 DEF AskedTypes
<1>4. CASE Reconnect
  <2>1. PICK e : e = [kind |-> "up"]
    OBVIOUS
  <2>2. e \in Event
    BY <2>1 DEF Event, LinkEvent
  <2>3. queue' \in Seq(Event)
    BY <1>4, <2>1, <2>2, Queued DEF Reconnect
  <2>4. PICK s : s = [source EXCEPT !.connected = TRUE]
    OBVIOUS
  <2>5. source' = s /\ UNCHANGED <<wanted, observing, busy, sdpState>>
    BY <1>4, <2>4 DEF Reconnect, manager
  <2>6. s \in Source /\ s.n = source.n /\ s.reads = source.reads
    <3>1. s = [n |-> source.n, reads |-> source.reads, run |-> source.run,
               setting |-> source.setting, connected |-> TRUE]
      BY <2>4, SourceIs
    <3>2. QED BY <3>1, SourceIs DEF Source
  <2>7. QED BY <2>3, <2>5, <2>6 DEF AskedTypes
<1>5. CASE Ask
  <2>1. UNCHANGED <<source, busy, sdpState>>
    BY <1>5 DEF Ask
  <2>2. CASE \E s \in Settings :
               /\ Enqueue([kind |-> "config", setting |-> s]) /\ wanted' = s
               /\ observing' = IF s.odt THEN s.obs ELSE observing
    <3>1. PICK s \in Settings :
               /\ Enqueue([kind |-> "config", setting |-> s]) /\ wanted' = s
               /\ observing' = IF s.odt THEN s.obs ELSE observing
      BY <2>2
    <3>2. PICK e : e = [kind |-> "config", setting |-> s]
      OBVIOUS
    <3>3. e \in Event
      <4>1. PICK S : S = Settings
        OBVIOUS
      <4>2. e \in [kind : {"config"}, setting : S]
        BY <3>2, <4>1
      <4>3. QED BY <4>1, <4>2 DEF Event, Request
    <3>4. queue' \in Seq(Event)
      BY <3>1, <3>2, <3>3, Queued
    <3>5. observing' \in Observations \cup {None}
      BY <3>1, SettingIs DEF AskedTypes
    <3>6. QED BY <2>1, <3>1, <3>4, <3>5 DEF AskedTypes
  <2>3. CASE \E k \in {"reset", "complete"} :
               /\ observing # None /\ Enqueue([kind |-> k, obs |-> observing])
               /\ wanted' = None /\ observing' = None
    <3>1. PICK k \in {"reset", "complete"} :
               /\ observing # None /\ Enqueue([kind |-> k, obs |-> observing])
               /\ wanted' = None /\ observing' = None
      BY <2>3
    <3>2. PICK e : e = [kind |-> k, obs |-> observing]
      OBVIOUS
    <3>3. e \in Event
      <4>1. PICK O : O = Observations
        OBVIOUS
      <4>2. observing \in O
        BY <3>1, <4>1 DEF AskedTypes
      <4>3. e \in [kind : {"reset", "complete"}, obs : O]
        BY <3>2, <4>2
      <4>4. QED BY <4>1, <4>3 DEF Event, Request
    <3>4. queue' \in Seq(Event)
      BY <3>1, <3>2, <3>3, Queued
    <3>5. QED BY <2>1, <3>1, <3>4 DEF AskedTypes
  <2>4. QED BY <1>5, <2>2, <2>3 DEF Ask
<1>6. QED BY <1>1, <1>2, <1>3, <1>4, <1>5 DEF Environment

LEMMA DequeueKeeps ==
  ASSUME AskedTypes, Dequeue
  PROVE  AskedTypes' /\ UNCHANGED sdpState
<1>1. UNCHANGED <<source, wanted, observing>> /\ UNCHANGED sdpState
  BY DEF Dequeue, outside, manager
<1>2. queue # <<>> /\ queue' = Tail(queue) /\ queue \in Seq(Event)
  BY DEF Dequeue, AskedTypes
<1>3. queue' \in Seq(Event) /\ Head(queue) \in Event
  BY <1>2
<1>4. busy' \subseteq Event
  BY <1>3 DEF Dequeue, AskedTypes
<1>5. QED BY <1>1, <1>3, <1>4 DEF AskedTypes

\* A handler takes an event from those in hand.
LEMMA Handled ==
  ASSUME AskedTypes, UNCHANGED outside, queue' = queue, busy' \subseteq busy
  PROVE  AskedTypes'
BY DEF AskedTypes, outside, manager

\* What the SDP is set to, when nobody sets it.
LEMMA ConfigStays ==
  ASSUME ConfigTypes, UNCHANGED configs
  PROVE  ConfigTypes'
<1>1. UNCHANGED <<configuring, scanning, tuned>>
  BY DEF configs
<1>2. QED BY <1>1 DEF ConfigTypes

\* A digitiser that scans is set to something.
LEMMA ConfigIs ==
  ASSUME ConfigTypes, config # None
  PROVE  config \in Mixed /\ config.tgt \in Targets
<1>1. PICK T : T = Parameters("tgt")
  OBVIOUS
<1>2. PICK O : O = Parameters("obs")
  OBVIOUS
<1>3. PICK F : F = Parameters("freq")
  OBVIOUS
<1>4. PICK G : G = Parameters("gain")
  OBVIOUS
<1>5. scanning # None
  BY DEF config
<1>6. /\ scanning \in [tgt : T, obs : O, odt : BOOLEAN]
      /\ tuned \in [freq : F, gain : G, load : BOOLEAN]
  BY <1>1, <1>2, <1>3, <1>4, <1>5 DEF ConfigTypes, Purposes, Tunings, Targets, Observations
<1>7. config = [tgt |-> scanning.tgt, obs |-> scanning.obs, odt |-> scanning.odt,
                freq |-> tuned.freq, gain |-> tuned.gain, load |-> tuned.load]
  BY <1>5 DEF config
<1>8. Mixed = [tgt : T, obs : O, odt : BOOLEAN, freq : F, gain : G, load : BOOLEAN]
  BY <1>1, <1>2, <1>3, <1>4 DEF Mixed
<1>9. QED BY <1>1, <1>6, <1>7, <1>8 DEF Targets

\* Nothing of what the SDP holds depends on what is asked or set.
LEMMA Unmoved ==
  ASSUME SdpInv, AskedTypes', ConfigTypes',
         UNCHANGED <<holder, scans, sky_q, disk, iter, counts, advised>>,
         reset' # None => reset'.scans \subseteq 1..Len(scans)
  PROVE  SdpInv'
<1>1. ScanTypes' /\ AdvisedWhole'
  BY DEF SdpInv, ScanTypes, AdvisedWhole
<1>2. HolderStands' /\ AllGood(scans)' /\ EachCounted'
  BY DEF SdpInv, HolderStands, EachCounted
<1>3. QED BY <1>1, <1>2 DEF SdpInv

(***************************************************************************)
(* Samples are handled.                                                    *)
(***************************************************************************)
\* What goes on while scans are aborted, loaded or added.
LEMMA FitsOn ==
  ASSUME NEW all, NEW new, Follows(all, new), NEW m, NEW i \in 1..Len(all), Fits(m, all[i])
  PROVE  i \in 1..Len(new) /\ Fits(m, new[i])
<1>1. new[i].start = all[i].start /\ new[i].setting = all[i].setting
  BY DEF Follows, Later
<1>2. i \in 1..Len(new)
  BY DEF Follows, AllGood
<1>3. QED BY <1>1, <1>2 DEF Fits, End

LEMMA ScansMove ==
  ASSUME SdpInv, AskedTypes', ConfigTypes', Follows(scans, scans'),
         sky_q' \in Seq(Nat), ToSet(sky_q') \subseteq 1..Len(scans'),
         iter' \in [Targets -> Nat], counts' \in Counts,
         reset' \in {reset, None}, UNCHANGED <<disk, advised>>,
         Len(scans') <= counts'.completed + counts'.aborted + Len(sky_q'),
         HolderStands'
  PROVE  SdpInv'
<1>1. /\ AllGood(scans') /\ Len(scans) \in Nat /\ Len(scans') \in Nat
      /\ Len(scans) <= Len(scans')
  BY DEF SdpInv, Follows, AllGood
<1>2. \A i \in 1..Len(scans) : i \in 1..Len(scans')
  BY <1>1
<1>3. ScanTypes'
  BY <1>2 DEF SdpInv, ScanTypes
<1>4. AdvisedWhole'
  <2>1. advised' = advised /\ advised \subseteq 1..Len(scans)
    BY DEF SdpInv, ScanTypes
  <2>2. QED BY <2>1 DEF SdpInv, AdvisedWhole, Follows, Later
<1>5. EachCounted'
  BY DEF EachCounted
<1>6. AllGood(scans)'
  BY <1>1
<1>7. QED BY <1>3, <1>4, <1>5, <1>6 DEF SdpInv

\* The first scan that fits is found, if there is one.
FirstFit(q, m) == SelectInSeq(q, LAMBDA i : Fits(m, scans[i]))

LEMMA MatchIs ==
  ASSUME NEW q \in Seq(Nat), NEW m
  PROVE  /\ FirstFit(q, m) \in 0..Len(q)
         /\ FirstFit(q, m) # 0 => /\ q[FirstFit(q, m)] \in ToSet(q)
                                  /\ Fits(m, scans[q[FirstFit(q, m)]])
<1>0. PICK match : match = FirstFit(q, m)
  OBVIOUS
<1>1. PICK I : I = {k \in 1..Len(q) : Fits(m, scans[q[k]])}
  OBVIOUS
<1>2. match = IF I # {} THEN Min(I) ELSE 0
  BY <1>0, <1>1 DEF SelectInSeq, FirstFit
<1>3. CASE I = {}
  <2>1. match = 0 /\ Len(q) \in Nat
    BY <1>2, <1>3
  <2>2. QED BY <1>0, <2>1
<1>4. CASE I # {}
  <2>1. I \subseteq Nat
    BY <1>1
  <2>2. Min(I) \in I
    BY <1>4, <2>1, MinIsLeast
  <2>3. match \in 1..Len(q) /\ Fits(m, scans[q[match]])
    BY <1>1, <1>2, <1>4, <2>2
  <2>4. q[match] \in ToSet(q)
    BY <2>3, Elements
  <2>5. QED BY <1>0, <2>3, <2>4
<1>5. QED BY <1>3, <1>4

\* A new scan starts with the samples that found none, and holds no second.
Begun(m, it) == [NewScan(m) EXCEPT !.iter = it]

LEMMA NewScanIs ==
  ASSUME config \in Mixed, NEW m \in Sample, NEW it \in Nat
  PROVE  GoodScan(Begun(m, it)) /\ Fits(m, Begun(m, it))
<1>0. PICK s : s = Begun(m, it)
  OBVIOUS
<1>1. PICK set : set = [config EXCEPT !.freq = m.setting.freq, !.gain = m.setting.gain,
                                      !.load = m.setting.load]
  OBVIOUS
<1>2. PICK f : f = [k \in 1..Duration |-> None]
  OBVIOUS
<1>3. s = [setting |-> set, start |-> m.n, iter |-> it, fails |-> 0, status |-> "EMPTY",
           secs |-> f]
  BY <1>0, <1>1, <1>2 DEF NewScan, Begun
<1>4. m.n \in 1..MaxReads /\ m.setting \in Settings
  <2>1. PICK S : S = Settings
    OBVIOUS
  <2>2. m \in [kind : {"samples"}, n : 1..MaxReads, run : 0..MaxRestarts,
               setting : S, whole : BOOLEAN]
    BY <2>1 DEF Sample
  <2>3. QED BY <2>1, <2>2
<1>5. /\ set \in Mixed /\ set.freq = m.setting.freq /\ set.load = m.setting.load
  <2>1. config \in Mixed /\ m.setting \in Mixed
    BY <1>4, SettingIs
  <2>2. PICK T : T = Parameters("tgt")
    OBVIOUS
  <2>3. PICK O : O = Parameters("obs")
    OBVIOUS
  <2>4. PICK F : F = Parameters("freq")
    OBVIOUS
  <2>5. PICK G : G = Parameters("gain")
    OBVIOUS
  <2>6. Mixed = [tgt : T, obs : O, odt : BOOLEAN, freq : F, gain : G, load : BOOLEAN]
    BY <2>2, <2>3, <2>4, <2>5 DEF Mixed
  <2>7. set = [tgt |-> config.tgt, obs |-> config.obs, odt |-> config.odt,
               freq |-> m.setting.freq, gain |-> m.setting.gain, load |-> m.setting.load]
    BY <1>1, <2>1, <2>6
  <2>8. QED BY <2>1, <2>6, <2>7
<1>6. f \in [1..Duration -> {None} \cup Sample] /\ \A k \in 1..Duration : f[k] = None
  BY <1>2
<1>7. /\ s.setting = set /\ s.start = m.n /\ s.iter = it /\ s.fails = 0 /\ s.status = "EMPTY"
      /\ s.secs = f
      /\ s = [setting |-> s.setting, start |-> s.start, iter |-> s.iter, fails |-> s.fails,
              status |-> s.status, secs |-> s.secs]
  BY <1>3
<1>8. GoodScan(s)
  <2>1. s \in Scan
    BY <1>4, <1>5, <1>6, <1>7, ScanIs DEF Pending
  <2>2. QED BY <1>6, <1>7, <2>1 DEF GoodScan
<1>9. m.n \in s.start..End(s)
  BY <1>4, <1>7, BoundsAssumption DEF End
<1>10. QED BY <1>0, <1>5, <1>7, <1>8, <1>9 DEF Fits

\* A scan is added at the end.
LEMMA ScanAdded ==
  ASSUME NEW all, AllGood(all), NEW new, Follows(all, new), NEW s, GoodScan(s)
  PROVE  /\ Follows(all, Append(new, s)) /\ Len(Append(new, s)) = Len(new) + 1
         /\ Append(new, s)[Len(new) + 1] = s
<1>1. /\ new \in Seq(Scan) /\ s \in Scan /\ Len(new) \in Nat /\ Len(all) <= Len(new)
  BY DEF Follows, AllGood, GoodScan
<1>2. PICK b : b = Append(new, s)
  OBVIOUS
<1>3. /\ b \in Seq(Scan) /\ Len(b) = Len(new) + 1 /\ b[Len(new) + 1] = s
      /\ \A i \in 1..Len(new) : b[i] = new[i]
  BY <1>1, <1>2
<1>4. \A i \in 1..Len(b) : i \in 1..Len(new) \/ i = Len(new) + 1
  BY <1>1, <1>3
<1>5. AllGood(b)
  BY <1>3, <1>4 DEF AllGood, Follows
<1>6. ASSUME NEW i \in 1..Len(all) PROVE Later(all[i], b[i])
  <2>1. Len(all) \in Nat
    BY DEF AllGood
  <2>2. i \in 1..Len(new)
    BY <1>1, <2>1
  <2>3. QED BY <1>3, <2>2 DEF Follows
<1>7. QED BY <1>1, <1>2, <1>3, <1>5, <1>6 DEF Follows

\* One scan changes.
LEMMA ScanChanged ==
  ASSUME NEW all, AllGood(all), NEW i \in 1..Len(all), NEW s, GoodScan(s), Later(all[i], s),
         NEW new, new = [all EXCEPT ![i] = s]
  PROVE  Follows(all, new) /\ Len(new) = Len(all)
<1>1. all \in Seq(Scan) /\ s \in Scan /\ Len(all) \in Nat
  BY DEF AllGood, GoodScan
<1>2. /\ new \in Seq(Scan) /\ Len(new) = Len(all) /\ new[i] = s
      /\ \A j \in 1..Len(all) : j # i => new[j] = all[j]
  BY <1>1
<1>3. ASSUME NEW j \in 1..Len(all) PROVE GoodScan(new[j]) /\ Later(all[j], new[j])
  <2>1. CASE j = i
    BY <1>2, <2>1
  <2>2. CASE j # i
    BY <1>2, <2>2 DEF AllGood, Later
  <2>3. QED BY <2>1, <2>2
<1>4. QED BY <1>1, <1>2, <1>3 DEF Follows, AllGood

\* What follows in two steps follows.
LEMMA FollowsOn ==
  ASSUME NEW a, AllGood(a), NEW b, Follows(a, b), NEW c, Follows(b, c)
  PROVE  Follows(a, c)
<1>1. Len(a) \in Nat /\ Len(b) \in Nat /\ Len(c) \in Nat /\ Len(a) <= Len(b) /\ Len(b) <= Len(c)
  BY DEF AllGood, Follows
<1>2. ASSUME NEW i \in 1..Len(a) PROVE Later(a[i], c[i])
  <2>1. i \in 1..Len(b)
    BY <1>1
  <2>2. Later(a[i], b[i]) /\ Later(b[i], c[i])
    BY <2>1 DEF Follows
  <2>3. QED BY <2>2 DEF Later
<1>3. QED BY <1>1, <1>2 DEF Follows

\* What is taken out of the queue is counted.
LEMMA StillCounted ==
  ASSUME NEW c \in Counts, NEW d \in Counts,
         NEW q \in Seq(Nat), NEW r \in Seq(Nat), NEW n \in Nat,
         n <= c.completed + c.aborted + Len(q), d.completed = c.completed,
         c.aborted + Len(q) <= d.aborted + Len(r)
  PROVE  n <= d.completed + d.aborted + Len(r)
<1>1. /\ c.completed \in Nat /\ c.aborted \in Nat /\ d.aborted \in Nat
      /\ Len(q) \in Nat /\ Len(r) \in Nat
  BY DEF Counts
<1>2. QED BY <1>1

\* The counters when the scans in progress have been counted.
LEMMA Recounted ==
  ASSUME NEW c \in Counts, NEW n \in Nat, NEW d, d = [c EXCEPT !.wip = n]
  PROVE  d \in Counts /\ d.completed = c.completed /\ d.aborted = c.aborted
<1>1. c.completed \in Nat /\ c.aborted \in Nat /\ c.wip \in Nat
  BY DEF Counts
<1>2. d = [completed |-> c.completed, aborted |-> c.aborted, wip |-> n]
  BY DEF Counts
<1>3. QED BY <1>1, <1>2 DEF Counts

LEMMA ReceiveKeeps ==
  ASSUME SdpInv, NEW m, Receive(m)
  PROVE  SdpInv'
<1>1. /\ UNCHANGED <<outside, queue, reset, disk, advised>> /\ UNCHANGED configs
      /\ m \in busy /\ m.kind = "samples" /\ busy' = busy \ {m}
  BY DEF Receive
<1>2. AskedTypes' /\ ConfigTypes'
  BY <1>1, Handled, ConfigStays DEF SdpInv
<1>3. CASE ~Agrees(m.setting, config)
  <2>1. UNCHANGED <<holder, scans, sky_q, iter, counts>>
    BY <1>3 DEF Receive
  <2>2. QED BY <1>1, <1>2, <2>1, Unmoved DEF SdpInv, ScanTypes
<1>4. CASE Agrees(m.setting, config)
  <2>1. config \in Mixed /\ m \in Sample /\ config.tgt \in Targets
    <3>1. config \in Mixed /\ config.tgt \in Targets
      BY <1>4, ConfigIs DEF Agrees, SdpInv
    <3>2. m \in Event
      BY <1>1 DEF SdpInv, AskedTypes
    <3>3. m \in Sample
      BY <1>1, <3>2 DEF Event, Request, LinkEvent
    <3>4. QED BY <3>1, <3>3
  <2>2. PICK pending : pending = OnlyIn(sky_q, {i \in DOMAIN scans : IsPending(i)})
    OBVIOUS
  <2>3. PICK match : match = FirstFit(pending, m)
    OBVIOUS
  <2>4. PICK seen : seen = IF match = 0 THEN pending ELSE SubSeq(pending, 1, match - 1)
    OBVIOUS
  <2>5. PICK stale : stale = OnlyIn(seen, {i \in DOMAIN scans :
                              m.n \in scans[i].start..End(scans[i]) \/ Outdated(m, scans[i])})
    OBVIOUS
  <2>6. PICK new : new = IF match = 0 THEN 1 ELSE 0
    OBVIOUS
  <2>7. PICK c : c = [counts EXCEPT !.wip = Len(pending) + new]
    OBVIOUS
  <2>8. PICK left : left = Abort(stale, scans, sky_q, c)
    OBVIOUS
  <2>9. PICK base : base = IF m.n = 1 /\ \E i \in ToSet(stale) : Outdated(m, scans[i])
                           THEN [t \in Targets |->
                                  IF \E s \in Settings : s.tgt = t /\ s.obs = config.obs
                                  THEN 0 ELSE iter[t]]
                           ELSE iter
    OBVIOUS
  <2>10. /\ counts' = left.counts
         /\ match # 0 => /\ scans' = left.scans /\ sky_q' = left.sky_q /\ iter' = base
                         /\ holder' = [msg |-> m, scan |-> pending[match], done |-> FALSE]
         /\ match = 0 => /\ scans' = Append(left.scans, Begun(m, base[config.tgt]))
                         /\ sky_q' = Append(left.sky_q, Len(scans) + 1)
                         /\ iter' = [base EXCEPT ![config.tgt] = @ + 1]
                         /\ holder' = [msg |-> m, scan |-> Len(scans) + 1, done |-> FALSE]
    BY <1>4, <2>2, <2>3, <2>4, <2>5, <2>6, <2>7, <2>8, <2>9 DEF Receive, FirstFit, Begun
  <2>11. /\ AllGood(scans) /\ sky_q \in Seq(Nat) /\ counts \in Counts
         /\ scans \in Seq(Scan) /\ Len(scans) \in Nat /\ DOMAIN scans = 1..Len(scans)
    BY DEF SdpInv, ScanTypes, AllGood
  <2>12. pending \in Seq(Nat) /\ ToSet(pending) \subseteq 1..Len(scans) /\ Len(pending) \in Nat
    <3>1. PICK X : X = {i \in DOMAIN scans : IsPending(i)}
      OBVIOUS
    <3>2. pending = OnlyIn(sky_q, X) /\ X \subseteq 1..Len(scans)
      BY <2>2, <2>11, <3>1
    <3>3. pending \in Seq(Nat) /\ ToSet(pending) = ToSet(sky_q) \cap X
      BY <2>11, <3>2, OnlyInIs
    <3>4. ToSet(pending) \subseteq 1..Len(scans)
      BY <3>2, <3>3, Zenon
    <3>5. QED BY <3>3, <3>4
  <2>13. /\ match \in 0..Len(pending)
         /\ match # 0 => /\ pending[match] \in 1..Len(scans)
                         /\ Fits(m, scans[pending[match]])
    BY <2>3, <2>12, MatchIs
  <2>14. seen \in Seq(Nat)
    <3>1. CASE match = 0
      BY <2>4, <2>12, <3>1
    <3>2. CASE match # 0
      <4>1. match - 1 \in 0..Len(pending)
        BY <2>12, <2>13, <3>2
      <4>2. QED BY <2>4, <2>12, <3>2, <4>1, Beginning
    <3>3. QED BY <3>1, <3>2
  <2>15. stale \in Seq(Nat)
    <3>1. PICK X : X = {i \in DOMAIN scans :
                          m.n \in scans[i].start..End(scans[i]) \/ Outdated(m, scans[i])}
      OBVIOUS
    <3>2. stale = OnlyIn(seen, X)
      BY <2>5, <3>1
    <3>3. QED BY <2>14, <3>2, OnlyInIs
  <2>16. c \in Counts /\ c.completed = counts.completed /\ c.aborted = counts.aborted
    <3>1. PICK n \in Nat : n = Len(pending) + new
      BY <2>6, <2>12
    <3>2. c = [counts EXCEPT !.wip = n]
      BY <2>7, <3>1
    <3>3. QED BY <2>11, <3>2, Recounted
  <2>17. Aborted(stale, scans, sky_q, c, left)
    BY <2>8, <2>11, <2>15, <2>16, AbortIs
  <2>18. /\ Follows(scans, left.scans) /\ Len(left.scans) = Len(scans)
         /\ left.sky_q \in Seq(Nat) /\ ToSet(left.sky_q) \subseteq 1..Len(scans)
         /\ left.counts \in Counts
         /\ Len(scans) <= left.counts.completed + left.counts.aborted + Len(left.sky_q)
    <3>1. /\ Follows(scans, left.scans) /\ Len(left.scans) = Len(scans)
          /\ left.sky_q \in Seq(Nat) /\ ToSet(left.sky_q) \subseteq ToSet(sky_q)
          /\ left.counts \in Counts /\ left.counts.completed = c.completed
          /\ c.aborted + Len(sky_q) <= left.counts.aborted + Len(left.sky_q)
      BY <2>17 DEF Aborted
    <3>2. ToSet(sky_q) \subseteq 1..Len(scans)
      BY DEF SdpInv, ScanTypes
    <3>3. Len(scans) <= counts.completed + counts.aborted + Len(sky_q)
      BY DEF SdpInv, EachCounted
    <3>4. /\ left.counts.completed = counts.completed
          /\ counts.aborted + Len(sky_q) <= left.counts.aborted + Len(left.sky_q)
      BY <2>16, <3>1
    <3>5. Len(scans) <= left.counts.completed + left.counts.aborted + Len(left.sky_q)
      BY <2>11, <3>1, <3>3, <3>4, StillCounted
    <3>6. ToSet(left.sky_q) \subseteq 1..Len(scans)
      BY <3>1, <3>2, Zenon
    <3>7. QED BY <3>1, <3>5, <3>6
  <2>19. base \in [Targets -> Nat]
    <3>1. iter \in [Targets -> Nat]
      BY DEF SdpInv, ScanTypes
    <3>2. QED BY <2>9, <3>1
  <2>20. CASE match # 0
    <3>1. /\ scans' = left.scans /\ sky_q' = left.sky_q /\ iter' = base
          /\ counts' = left.counts
          /\ holder' = [msg |-> m, scan |-> pending[match], done |-> FALSE]
      BY <2>10, <2>20
    <3>2. /\ pending[match] \in 1..Len(scans')
          /\ Fits(m, scans'[pending[match]])
      BY <2>13, <2>18, <2>20, <3>1, FitsOn
    <3>3. HolderStands'
      BY <2>1, <3>1, <3>2 DEF HolderStands
    <3>4. QED BY <1>1, <1>2, <2>18, <2>19, <3>1, <3>3, ScansMove
  <2>21. CASE match = 0
    <3>1. PICK it \in Nat : it = base[config.tgt]
      BY <2>1, <2>19
    <3>2. PICK s : s = Begun(m, it)
      OBVIOUS
    <3>3. GoodScan(s) /\ Fits(m, s)
      BY <2>1, <3>2, NewScanIs
    <3>4. /\ scans' = Append(left.scans, s) /\ counts' = left.counts
          /\ sky_q' = Append(left.sky_q, Len(scans) + 1)
          /\ iter' = [base EXCEPT ![config.tgt] = @ + 1]
          /\ holder' = [msg |-> m, scan |-> Len(scans) + 1, done |-> FALSE]
      BY <2>10, <2>21, <3>1, <3>2
    <3>5. /\ Follows(scans, scans') /\ Len(scans') = Len(scans) + 1
          /\ scans'[Len(scans) + 1] = s
      BY <2>11, <2>18, <3>3, <3>4, ScanAdded
    <3>6. HolderStands'
      <4>1. Len(scans) + 1 \in 1..Len(scans')
        BY <2>11, <3>5
      <4>2. QED BY <2>1, <2>11, <3>3, <3>4, <3>5, <4>1 DEF HolderStands
    <3>7. iter' \in [Targets -> Nat]
      <4>1. iter' = [base EXCEPT ![config.tgt] = it + 1]
        BY <3>1, <3>4
      <4>2. it + 1 \in Nat
        OBVIOUS
      <4>3. QED BY <2>19, <4>1, <4>2
    <3>8. /\ sky_q' \in Seq(Nat) /\ Len(sky_q') = Len(left.sky_q) + 1
          /\ ToSet(sky_q') = ToSet(left.sky_q) \cup {Len(scans) + 1}
      <4>1. PICK q \in Seq(Nat) : q = left.sky_q
        BY <2>18
      <4>2. PICK n \in Nat : n = Len(scans) + 1
        BY <2>11
      <4>3. sky_q' = Append(q, n)
        BY <3>4, <4>1, <4>2
      <4>4. /\ sky_q' \in Seq(Nat) /\ Len(sky_q') = Len(q) + 1
            /\ ToSet(sky_q') = ToSet(q) \cup {n}
        BY <4>3, Appended
      <4>5. QED BY <4>1, <4>2, <4>4
    <3>9. ToSet(sky_q') \subseteq 1..Len(scans')
      BY <2>11, <2>18, <3>5, <3>8
    <3>10. Len(scans') <= counts'.completed + counts'.aborted + Len(sky_q')
      <4>1. /\ left.counts.completed \in Nat /\ left.counts.aborted \in Nat
            /\ Len(left.sky_q) \in Nat
        BY <2>18 DEF Counts
      <4>2. /\ counts' = left.counts /\ Len(scans') = Len(scans) + 1
            /\ Len(sky_q') = Len(left.sky_q) + 1
        BY <3>4, <3>5, <3>8
      <4>3. Len(scans) <= left.counts.completed + left.counts.aborted + Len(left.sky_q)
        BY <2>18
      <4>4. PICK n \in Nat : n = Len(scans)
        BY <2>11
      <4>5. PICK k \in Nat : k = left.counts.completed + left.counts.aborted
        BY <4>1
      <4>6. PICK l \in Nat : l = Len(left.sky_q)
        BY <4>1
      <4>7. n <= k + l => n + 1 <= k + (l + 1)
        OBVIOUS
      <4>8. Len(scans') = n + 1 /\ Len(sky_q') = l + 1 /\ n <= k + l
        BY <4>2, <4>3, <4>4, <4>5, <4>6
      <4>9. QED BY <4>2, <4>5, <4>7, <4>8
    <3>11. QED BY <1>1, <1>2, <2>18, <3>4, <3>5, <3>6, <3>7, <3>8, <3>9, <3>10, ScansMove
  <2>22. QED BY <2>20, <2>21
<1>5. QED BY <1>3, <1>4

LEMMA LoadKeeps ==
  ASSUME SdpInv, LoadSamples
  PROVE  SdpInv'
<1>1. /\ UNCHANGED <<outside, queue, busy, reset, disk, iter, advised>> /\ UNCHANGED configs
      /\ holder # None /\ holder' = [holder EXCEPT !.done = TRUE]
  BY DEF LoadSamples
<1>2. AskedTypes' /\ ConfigTypes'
  BY <1>1, Handled, ConfigStays DEF SdpInv
<1>3. PICK i : i = holder.scan
  OBVIOUS
<1>4. PICK m : m = holder.msg
  OBVIOUS
<1>5. /\ holder \in [msg : Sample, scan : Nat, done : BOOLEAN]
      /\ m \in Sample /\ i \in 1..Len(scans) /\ Fits(m, scans[i])
  BY <1>1, <1>3, <1>4 DEF SdpInv, HolderStands
<1>6. /\ holder' \in [msg : Sample, scan : Nat, done : BOOLEAN]
      /\ holder'.msg = m /\ holder'.scan = i
  BY <1>1, <1>3, <1>4, <1>5
<1>7. /\ AllGood(scans) /\ scans \in Seq(Scan) /\ Len(scans) \in Nat /\ GoodScan(scans[i])
      /\ sky_q \in Seq(Nat) /\ ToSet(sky_q) \subseteq 1..Len(scans)
      /\ iter \in [Targets -> Nat] /\ counts \in Counts
  BY <1>5 DEF SdpInv, ScanTypes, AllGood
<1>8. Len(scans) <= counts.completed + counts.aborted + Len(sky_q)
  BY DEF SdpInv, EachCounted
<1>9. CASE m.whole
  <2>1. /\ UNCHANGED <<sky_q, counts>>
        /\ scans' = [scans EXCEPT ![i] = Judged(Loaded(scans[i], m))]
    BY <1>3, <1>4, <1>9 DEF LoadSamples, Judged, Loaded
  <2>2. GoodScan(Judged(Loaded(scans[i], m))) /\ Later(scans[i], Judged(Loaded(scans[i], m)))
    BY <1>5, <1>7, ScanLoaded
  <2>3. Follows(scans, scans') /\ Len(scans') = Len(scans)
    BY <1>5, <1>7, <2>1, <2>2, ScanChanged
  <2>4. HolderStands'
    <3>1. i \in 1..Len(scans') /\ Fits(m, scans'[i])
      BY <1>5, <2>3, FitsOn
    <3>2. QED BY <1>6, <3>1 DEF HolderStands
  <2>5. QED BY <1>1, <1>2, <1>7, <1>8, <2>1, <2>3, <2>4, ScansMove
<1>10. CASE ~m.whole
  <2>1. PICK s : s = [scans[i] EXCEPT !.fails = @ + 1]
    OBVIOUS
  <2>2. PICK is : is = IF s.fails >= MaxFailures THEN <<i>> ELSE <<>>
    OBVIOUS
  <2>3. PICK all : all = [scans EXCEPT ![i] = s]
    OBVIOUS
  <2>4. PICK left : left = Abort(is, all, sky_q, counts)
    OBVIOUS
  <2>5. scans' = left.scans /\ sky_q' = left.sky_q /\ counts' = left.counts
    BY <1>3, <1>4, <1>10, <2>1, <2>2, <2>3, <2>4 DEF LoadSamples
  <2>6. GoodScan(s) /\ Later(scans[i], s)
    BY <1>7, <2>1, ScanFailed
  <2>7. Follows(scans, all) /\ Len(all) = Len(scans)
    BY <1>5, <1>7, <2>3, <2>6, ScanChanged
  <2>8. is \in Seq(Nat) /\ AllGood(all)
    BY <1>5, <2>2, <2>7 DEF Follows
  <2>9. Aborted(is, all, sky_q, counts, left)
    BY <1>7, <2>4, <2>8, AbortIs
  <2>10. /\ Follows(all, scans') /\ Len(scans') = Len(all)
         /\ sky_q' \in Seq(Nat) /\ ToSet(sky_q') \subseteq ToSet(sky_q)
         /\ counts' \in Counts /\ counts'.completed = counts.completed
         /\ counts.aborted + Len(sky_q) <= counts'.aborted + Len(sky_q')
    BY <2>5, <2>9 DEF Aborted
  <2>11. Follows(scans, scans') /\ Len(scans') = Len(scans)
    BY <1>7, <2>7, <2>10, FollowsOn
  <2>12. HolderStands'
    <3>1. i \in 1..Len(scans') /\ Fits(m, scans'[i])
      BY <1>5, <2>11, FitsOn
    <3>2. QED BY <1>6, <3>1 DEF HolderStands
  <2>13. Len(scans') <= counts'.completed + counts'.aborted + Len(sky_q')
    BY <1>7, <1>8, <2>10, <2>11, StillCounted
  <2>14. ToSet(sky_q') \subseteq 1..Len(scans')
    BY <1>7, <2>10, <2>11, Zenon
  <2>15. QED BY <1>1, <1>2, <1>7, <2>10, <2>11, <2>12, <2>13, <2>14, ScansMove
<1>11. QED BY <1>9, <1>10

(***************************************************************************)
(* The end of a handler, and requests.                                     *)
(***************************************************************************)
LEMMA FinishKeeps ==
  ASSUME SdpInv, Finish
  PROVE  SdpInv'
<1>1. /\ UNCHANGED <<outside, queue, busy, reset, scans, iter>> /\ UNCHANGED configs
      /\ holder # None /\ holder' = None
  BY DEF Finish
<1>2. AskedTypes' /\ ConfigTypes'
  BY <1>1, Handled, ConfigStays DEF SdpInv
<1>3. PICK i : i = holder.scan
  OBVIOUS
<1>4. i \in 1..Len(scans) /\ GoodScan(scans[i]) /\ Len(scans) \in Nat
  BY <1>1, <1>3 DEF SdpInv, HolderStands, AllGood
<1>5. HolderStands' /\ AllGood(scans)'
  BY <1>1 DEF SdpInv, HolderStands
<1>6. CASE scans[i].status # "COMPLETE"
  <2>1. UNCHANGED <<counts, sky_q, disk, advised>>
    BY <1>3, <1>6 DEF Finish
  <2>2. ScanTypes' /\ AdvisedWhole' /\ EachCounted'
    BY <1>1, <2>1 DEF SdpInv, ScanTypes, AdvisedWhole, EachCounted
  <2>3. QED BY <1>2, <1>5, <2>2 DEF SdpInv
<1>7. CASE scans[i].status = "COMPLETE"
  <2>1. PICK wip : wip = IF counts.wip > 0 THEN counts.wip - 1 ELSE 0
    OBVIOUS
  <2>2. /\ counts' = [counts EXCEPT !.completed = @ + 1, !.wip = wip]
        /\ sky_q' = Without(sky_q, i, scans)
        /\ disk' \in {disk, disk \cup {i}} /\ advised' \in {advised, advised \cup {i}}
    BY <1>3, <1>7, <2>1 DEF Finish, SavedAndAdvised
  <2>3. /\ sky_q \in Seq(Nat) /\ ToSet(sky_q) \subseteq 1..Len(scans)
        /\ counts \in Counts /\ disk \cup advised \subseteq 1..Len(scans)
    BY DEF SdpInv, ScanTypes
  <2>4. /\ sky_q' \in Seq(Nat) /\ ToSet(sky_q') \subseteq ToSet(sky_q)
        /\ Len(sky_q') \in Nat /\ Len(sky_q) \in Nat /\ Len(sky_q') + 1 >= Len(sky_q)
    BY <2>2, <2>3, WithoutIs
  <2>5. /\ counts' \in Counts /\ counts'.completed = counts.completed + 1
        /\ counts'.aborted = counts.aborted
    <3>1. /\ counts.completed \in Nat /\ counts.aborted \in Nat /\ counts.wip \in Nat
          /\ counts = [completed |-> counts.completed, aborted |-> counts.aborted,
                       wip |-> counts.wip]
      BY <2>3 DEF Counts
    <3>2. wip \in Nat
      BY <2>1, <3>1
    <3>3. counts' = [completed |-> counts.completed + 1, aborted |-> counts.aborted,
                     wip |-> wip]
      BY <2>2, <3>1
    <3>4. QED BY <3>1, <3>2, <3>3 DEF Counts
  <2>6. EachCounted'
    <3>1. Len(scans) <= counts.completed + counts.aborted + Len(sky_q)
      BY DEF SdpInv, EachCounted
    <3>2. counts.completed \in Nat /\ counts.aborted \in Nat
      BY <2>3 DEF Counts
    <3>3. Len(scans) <= counts'.completed + counts'.aborted + Len(sky_q')
      BY <1>4, <2>4, <2>5, <3>1, <3>2
    <3>4. QED BY <1>1, <3>3 DEF EachCounted
  <2>7. ScanTypes'
    <3>1. ToSet(sky_q') \subseteq 1..Len(scans)
      BY <2>3, <2>4, Zenon
    <3>2. iter' \in [Targets -> Nat] /\ (reset' # None => reset'.scans \subseteq 1..Len(scans))
      BY <1>1 DEF SdpInv, ScanTypes
    <3>3. disk' \cup advised' \subseteq 1..Len(scans) /\ scans' = scans
      BY <1>1, <1>4, <2>2, <2>3
    <3>4. QED BY <2>4, <2>5, <3>1, <3>2, <3>3 DEF ScanTypes
  <2>8. AdvisedWhole'
    BY <1>1, <1>4, <1>7, <2>2 DEF SdpInv, AdvisedWhole, GoodScan
  <2>9. QED BY <1>2, <1>5, <2>6, <2>7, <2>8 DEF SdpInv
<1>8. QED BY <1>6, <1>7

\* A handler of set_scan_config begins, goes on or ends.
LEMMA HandlerMoves ==
  ASSUME ConfigTypes, scanning' \in Purposes \cup {None}, tuned' \in Tunings,
         NEW p \in 1..NumProcs, NEW c, c # None => Handling(c),
         configuring' = [configuring EXCEPT ![p] = c]
  PROVE  ConfigTypes'
<1>1. PICK f : f = configuring
  OBVIOUS
<1>2. /\ f = [q \in 1..NumProcs |-> f[q]]
      /\ \A q \in 1..NumProcs : f[q] # None => Handling(f[q])
  BY <1>1 DEF ConfigTypes
<1>3. PICK g : g = [f EXCEPT ![p] = c]
  OBVIOUS
<1>4. /\ g = [q \in 1..NumProcs |-> g[q]] /\ g[p] = c
      /\ \A q \in 1..NumProcs : q # p => g[q] = f[q]
  BY <1>2, <1>3
<1>5. \A q \in 1..NumProcs : g[q] # None => Handling(g[q])
  BY <1>2, <1>4
<1>6. configuring' = g
  BY <1>1, <1>3
<1>7. /\ configuring' = [q \in 1..NumProcs |-> configuring'[q]]
      /\ \A q \in 1..NumProcs : configuring'[q] # None => Handling(configuring'[q])
  BY <1>4, <1>5, <1>6
<1>8. QED BY <1>7 DEF ConfigTypes, Handling

LEMMA ConfigBegins ==
  ASSUME SdpInv, NEW r, SetScanConfig(r)
  PROVE  SdpInv'
<1>1. /\ UNCHANGED <<outside, queue, holder, reset, scanning, tuned, scans, sky_q, disk, iter,
                     counts, advised>>
      /\ r \in busy /\ r.kind = "config" /\ busy' = busy \ {r}
  BY DEF SetScanConfig
<1>2. AskedTypes'
  BY <1>1, Handled DEF SdpInv
<1>3. ConfigTypes'
  <2>1. CASE configuring' = configuring
    BY <1>1, <2>1, ConfigStays DEF SdpInv, configs
  <2>2. CASE configuring' # configuring
    <3>1. PICK p \in 1..NumProcs :
             configuring' = [configuring EXCEPT ![p] =
                    [setting |-> r.setting, stage |-> "freq", model |-> None,
                     listed |-> <<>>, use |-> None]]
      BY <2>2 DEF SetScanConfig
    <3>2. r.setting \in Settings
      <4>1. PICK S : S = Settings
        OBVIOUS
      <4>2. PICK O : O = Observations
        OBVIOUS
      <4>3. r \in Event
        BY <1>1 DEF SdpInv, AskedTypes
      <4>4. r \in [kind : {"config"}, setting : S] \cup [kind : {"reset", "complete"}, obs : O]
        BY <1>1, <4>1, <4>2, <4>3 DEF Event, Sample, Request, LinkEvent
      <4>5. r.setting \in S
        BY <1>1, <4>4
      <4>6. QED BY <4>1, <4>5
    <3>3. PICK c : c = [setting |-> r.setting, stage |-> "freq", model |-> None,
                        listed |-> <<>>, use |-> None]
      OBVIOUS
    <3>4. Handling(c)
      <4>1. /\ c.setting = r.setting /\ c.stage = "freq" /\ c.model = None
            /\ c.listed = <<>> /\ c.use = None
        BY <3>3
      <4>2. QED BY <3>2, <3>3, <4>1 DEF Handling, Stages
    <3>5. QED BY <1>1, <3>1, <3>3, <3>4, HandlerMoves DEF SdpInv, ConfigTypes
  <2>3. QED BY <2>1, <2>2
<1>4. QED BY <1>1, <1>2, <1>3, Unmoved DEF SdpInv, ScanTypes

\* What a handler is at when it has gone on by a stage.
LEMMA StageMoves ==
  ASSUME NEW c, Handling(c), NEW st \in Stages
  PROVE  /\ Handling([c EXCEPT !.stage = st])
         /\ \A l : Handling([c EXCEPT !.stage = st, !.use = l])
         /\ \A l, m : Handling([c EXCEPT !.stage = st, !.listed = l, !.model = m])
<1>1. /\ c = [setting |-> c.setting, stage |-> c.stage, model |-> c.model,
              listed |-> c.listed, use |-> c.use]
      /\ c.setting \in Settings
  BY DEF Handling
<1>2. Handling([c EXCEPT !.stage = st])
  <2>1. PICK d : d = [c EXCEPT !.stage = st]
    OBVIOUS
  <2>2. d = [setting |-> c.setting, stage |-> st, model |-> c.model,
             listed |-> c.listed, use |-> c.use]
    BY <1>1, <2>1
  <2>3. QED BY <1>1, <2>1, <2>2 DEF Handling
<1>3. ASSUME NEW l PROVE Handling([c EXCEPT !.stage = st, !.use = l])
  <2>1. PICK d : d = [c EXCEPT !.stage = st, !.use = l]
    OBVIOUS
  <2>2. d = [setting |-> c.setting, stage |-> st, model |-> c.model,
             listed |-> c.listed, use |-> l]
    BY <1>1, <2>1
  <2>3. QED BY <1>1, <2>1, <2>2 DEF Handling
<1>4. ASSUME NEW l, NEW m PROVE Handling([c EXCEPT !.stage = st, !.listed = l, !.model = m])
  <2>1. PICK d : d = [c EXCEPT !.stage = st, !.listed = l, !.model = m]
    OBVIOUS
  <2>2. d = [setting |-> c.setting, stage |-> st, model |-> m,
             listed |-> l, use |-> c.use]
    BY <1>1, <2>1
  <2>3. QED BY <1>1, <2>1, <2>2 DEF Handling
<1>5. QED BY <1>2, <1>3, <1>4

\* A field is set.
LEMMA FieldKeeps ==
  ASSUME ConfigTypes, NEW p \in 1..NumProcs, SetField(p)
  PROVE  ConfigTypes'
<1>1. PICK c : c = configuring[p]
  OBVIOUS
<1>2. /\ c # None /\ c.stage \in {"freq", "gain", "scanning", "load"} /\ Handling(c)
      /\ configuring' = [configuring EXCEPT ![p].stage = After[c.stage]]
  BY <1>1 DEF SetField, After, ConfigTypes
<1>3. PICK st : st = After[c.stage]
  OBVIOUS
<1>4. st \in Stages
  BY <1>2, <1>3 DEF After, Stages
<1>5. PICK d : d = [c EXCEPT !.stage = st]
  OBVIOUS
<1>6. Handling(d) /\ configuring' = [configuring EXCEPT ![p] = d]
  BY <1>1, <1>2, <1>3, <1>4, <1>5, StageMoves
<1>7. PICK s \in Settings : s = c.setting
  BY <1>2 DEF Handling
<1>8. CASE c.stage = "scanning"
  <2>1. /\ scanning' = [tgt |-> s.tgt, obs |-> s.obs, odt |-> s.odt] /\ tuned' = tuned
    BY <1>1, <1>7, <1>8 DEF SetField
  <2>2. s.tgt \in Targets /\ s.obs \in Observations /\ s.odt \in BOOLEAN
    BY SettingIs
  <2>3. scanning' \in Purposes
    BY <2>1, <2>2 DEF Purposes
  <2>4. tuned' \in Tunings
    BY <2>1 DEF ConfigTypes
  <2>5. QED BY <1>6, <2>3, <2>4, HandlerMoves
<1>9. CASE c.stage # "scanning"
  <2>1. scanning' = scanning /\ tuned' = [tuned EXCEPT ![c.stage] = s[c.stage]]
    BY <1>1, <1>7, <1>9 DEF SetField
  <2>2. PICK F : F = Parameters("freq")
    OBVIOUS
  <2>3. PICK G : G = Parameters("gain")
    OBVIOUS
  <2>4. /\ tuned \in [freq : F, gain : G, load : BOOLEAN]
        /\ s.freq \in F /\ s.gain \in G /\ s.load \in BOOLEAN
    BY <2>2, <2>3, SettingIs DEF ConfigTypes, Tunings
  <2>5. tuned' \in [freq : F, gain : G, load : BOOLEAN]
    <3>1. CASE c.stage = "freq"
      BY <2>1, <2>4, <3>1
    <3>2. CASE c.stage = "gain"
      BY <2>1, <2>4, <3>2
    <3>3. CASE c.stage = "load"
      BY <2>1, <2>4, <3>3
    <3>4. QED BY <1>2, <1>9, <3>1, <3>2, <3>3
  <2>6. tuned' \in Tunings
    BY <2>2, <2>3, <2>5 DEF Tunings
  <2>7. scanning' \in Purposes \cup {None}
    BY <2>1 DEF ConfigTypes
  <2>8. QED BY <1>6, <2>6, <2>7, HandlerMoves
<1>10. QED BY <1>8, <1>9

\* A load is looked for, merged and purged.
LEMMA LoadsKeep ==
  ASSUME ConfigTypes, NEW p \in 1..NumProcs,
         ListLoads(p) \/ FindLoad(p) \/ MergeLoad(p) \/ PurgeLoads(p)
  PROVE  ConfigTypes'
<1>1. /\ scanning' \in Purposes \cup {None} /\ tuned' \in Tunings
  <2>1. scanning' = scanning /\ tuned' = tuned
    BY DEF ListLoads, FindLoad, MergeLoad, PurgeLoads
  <2>2. QED BY <2>1 DEF ConfigTypes
<1>2. PICK c : c = configuring[p]
  OBVIOUS
<1>3. c # None /\ Handling(c)
  <2>1. c # None
    BY <1>2 DEF ListLoads, FindLoad, MergeLoad, PurgeLoads
  <2>2. QED BY <1>2, <2>1 DEF ConfigTypes
<1>4. CASE ListLoads(p)
  <2>1. PICK m : m = [c.setting EXCEPT !.freq = tuned.freq, !.gain = tuned.gain,
                                       !.load = TRUE]
    OBVIOUS
  <2>2. configuring' = [configuring EXCEPT ![p] =
             [c EXCEPT !.stage = "find", !.listed = cal_q, !.model = m]]
    BY <1>2, <1>4, <2>1 DEF ListLoads
  <2>3. "find" \in Stages
    BY DEF Stages
  <2>4. Handling([c EXCEPT !.stage = "find", !.listed = cal_q, !.model = m])
    BY <1>3, <2>3, StageMoves
  <2>5. QED BY <1>1, <2>2, <2>4, HandlerMoves
<1>5. CASE FindLoad(p)
  <2>1. ASSUME NEW st \in Stages, NEW l,
               configuring' = [configuring EXCEPT ![p] = [c EXCEPT !.stage = st, !.use = l]]
        PROVE  ConfigTypes'
    <3>1. Handling([c EXCEPT !.stage = st, !.use = l])
      BY <1>3, StageMoves
    <3>2. QED BY <1>1, <2>1, <3>1, HandlerMoves
  <2>2. "purge" \in Stages /\ "put" \in Stages
    BY DEF Stages
  <2>3. PICK real, stored, other :
          \/ configuring' = [configuring EXCEPT ![p] =
                               [c EXCEPT !.stage = "purge", !.use = real]]
          \/ configuring' = [configuring EXCEPT ![p] =
                               [c EXCEPT !.stage = "put", !.use = stored]]
          \/ configuring' = [configuring EXCEPT ![p] =
                               [c EXCEPT !.stage = "put", !.use = other]]
    <3>1. PICK equiv : equiv = {l \in ToSet(c.listed) : Equivalent(l.setting, c.model)}
      OBVIOUS
    <3>2. PICK real : real = Newest({l \in equiv : l.scan # 0})
      OBVIOUS
    <3>3. PICK stored : stored = Newest(Stored(c.model))
      OBVIOUS
    <3>4. PICK other : other = IF equiv # {} THEN Newest(equiv) ELSE Load(c.model, 0)
      OBVIOUS
    <3>5. \/ configuring' = [configuring EXCEPT ![p] =
                               [c EXCEPT !.stage = "purge", !.use = real]]
          \/ configuring' = [configuring EXCEPT ![p] =
                               [c EXCEPT !.stage = "put", !.use = stored]]
          \/ configuring' = [configuring EXCEPT ![p] =
                               [c EXCEPT !.stage = "put", !.use = other]]
      BY <1>2, <1>5, <3>1, <3>2, <3>3, <3>4 DEF FindLoad
    <3>6. QED BY <3>5
  <2>4. QED BY <2>1, <2>2, <2>3
<1>6. CASE MergeLoad(p)
  <2>1. PICK st \in {"replace", "purge"} :
             configuring' = [configuring EXCEPT ![p].stage = st]
    BY <1>6 DEF MergeLoad
  <2>2. st \in Stages
    BY <2>1 DEF Stages
  <2>3. Handling([c EXCEPT !.stage = st])
    BY <1>3, <2>2, StageMoves
  <2>4. configuring' = [configuring EXCEPT ![p] = [c EXCEPT !.stage = st]]
    BY <1>2, <2>1
  <2>5. QED BY <1>1, <2>3, <2>4, HandlerMoves
<1>7. CASE PurgeLoads(p)
  <2>1. PICK d : d = None
    OBVIOUS
  <2>2. configuring' = [configuring EXCEPT ![p] = d] /\ (d # None => Handling(d))
    BY <1>7, <2>1 DEF PurgeLoads
  <2>3. QED BY <1>1, <2>2, HandlerMoves
<1>8. QED BY <1>4, <1>5, <1>6, <1>7

\* A handler of set_scan_config goes on, whatever happens to scans meanwhile.
LEMMA ConfigKeeps ==
  ASSUME SdpInv, NEW p \in 1..NumProcs,
         SetField(p) \/ ListLoads(p) \/ FindLoad(p) \/ MergeLoad(p) \/ PurgeLoads(p)
  PROVE  SdpInv'
<1>1. /\ UNCHANGED <<outside, queue, busy, holder, reset, scans, sky_q, disk, iter, counts,
                     advised>>
  BY DEF SetField, ListLoads, FindLoad, MergeLoad, PurgeLoads
<1>2. ConfigTypes'
  BY FieldKeeps, LoadsKeep DEF SdpInv
<1>3. AskedTypes'
  BY <1>1, Handled DEF SdpInv
<1>4. QED BY <1>1, <1>2, <1>3, Unmoved DEF SdpInv, ScanTypes

\* The digitiser stops scanning, or goes on with what it scans for.
LEMMA Releases ==
  ASSUME ConfigTypes, UNCHANGED configuring, scanning' \in {scanning, None},
         tuned' \in Tunings
  PROVE  ConfigTypes'
BY DEF ConfigTypes

LEMMA CompleteKeeps ==
  ASSUME SdpInv, NEW r, SetObsComplete(r)
  PROVE  SdpInv'
<1>1. /\ UNCHANGED <<outside, queue, holder, reset, scans, sky_q, disk, iter, counts, advised>>
      /\ UNCHANGED <<configuring, tuned>>
      /\ busy' = busy \ {r} /\ scanning' = Released(r.obs)
  BY DEF SetObsComplete
<1>2. scanning' \in {scanning, None}
  BY <1>1 DEF Released
<1>3. ConfigTypes'
  <2>1. ConfigTypes /\ tuned' \in Tunings
    BY <1>1 DEF SdpInv, ConfigTypes
  <2>2. QED BY <1>1, <1>2, <2>1, Releases
<1>4. AskedTypes'
  BY <1>1, Handled DEF SdpInv
<1>5. QED BY <1>1, <1>3, <1>4, Unmoved DEF SdpInv, ScanTypes

LEMMA ResetKeeps ==
  ASSUME SdpInv, ResetEnds
  PROVE  SdpInv'
<1>1. /\ UNCHANGED <<outside, queue, busy, holder, configuring, tuned, disk, advised>>
      /\ reset # None /\ reset' = None /\ scanning' = Released(reset.obs)
      /\ iter' = [t \in Targets |->
                     IF \E s \in Settings : s.tgt = t /\ s.obs = reset.obs THEN 0 ELSE iter[t]]
  BY DEF ResetEnds
<1>2. ConfigTypes'
  <2>1. scanning' \in {scanning, None}
    BY <1>1 DEF Released
  <2>2. ConfigTypes /\ tuned' \in Tunings
    BY <1>1 DEF SdpInv, ConfigTypes
  <2>3. QED BY <1>1, <2>1, <2>2, Releases
<1>3. AskedTypes'
  BY <1>1, Handled DEF SdpInv
<1>4. /\ AllGood(scans) /\ Len(scans) \in Nat /\ counts \in Counts
      /\ sky_q \in Seq(Nat) /\ ToSet(sky_q) \subseteq 1..Len(scans)
      /\ reset.scans \subseteq 1..Len(scans) /\ iter \in [Targets -> Nat]
  BY <1>1 DEF SdpInv, ScanTypes, AllGood
<1>5. PICK S : S = reset.scans
  OBVIOUS
<1>6. IsFiniteSet(S)
  <2>1. PICK n \in Nat : n = Len(scans)
    BY <1>4
  <2>2. PICK I : I = 1..n
    OBVIOUS
  <2>3. IsFiniteSet(I)
    <3>1. n \in Int /\ 1 \in Int
      BY <2>1
    <3>2. QED BY <2>2, <3>1, FS_Interval, Zenon
  <2>4. S \subseteq I
    BY <1>4, <1>5, <2>1, <2>2
  <2>5. QED BY <2>3, <2>4, FS_Subset
<1>7. PICK is \in Seq(S) : is = SetToSeq(S)
  BY <1>6, SetInSeq
<1>8. PICK left : left = Abort(is, scans, sky_q, counts)
  OBVIOUS
<1>9. scans' = left.scans /\ sky_q' = left.sky_q /\ counts' = left.counts
  BY <1>5, <1>7, <1>8 DEF ResetEnds
<1>10. Aborted(is, scans, sky_q, counts, left)
  BY <1>4, <1>8, AbortIs
<1>11. /\ Follows(scans, scans') /\ Len(scans') = Len(scans)
       /\ sky_q' \in Seq(Nat) /\ ToSet(sky_q') \subseteq ToSet(sky_q)
       /\ counts' \in Counts /\ counts'.completed = counts.completed
       /\ counts.aborted + Len(sky_q) <= counts'.aborted + Len(sky_q')
  BY <1>9, <1>10 DEF Aborted
<1>12. Len(scans') <= counts'.completed + counts'.aborted + Len(sky_q')
  <2>1. Len(scans) <= counts.completed + counts.aborted + Len(sky_q)
    BY DEF SdpInv, EachCounted
  <2>2. QED BY <1>4, <1>11, <2>1, StillCounted
<1>13. ToSet(sky_q') \subseteq 1..Len(scans')
  BY <1>4, <1>11, Zenon
<1>14. HolderStands'
  BY <1>1, <1>11, FitsOn DEF SdpInv, HolderStands
<1>15. iter' \in [Targets -> Nat]
  BY <1>1, <1>4
<1>16. QED BY <1>1, <1>2, <1>3, <1>11, <1>12, <1>13, <1>14, <1>15, ScansMove

LEMMA SdpStep ==
  ASSUME SdpInv, [Next]_vars
  PROVE  SdpInv'
<1>1. AskedTypes
  BY DEF SdpInv
<1>2. CASE UNCHANGED vars
  <2>1. AskedTypes'
    BY <1>1, <1>2 DEF AskedTypes, vars
  <2>2. ConfigTypes'
    BY <1>2, ConfigStays DEF vars, configs, SdpInv
  <2>3. QED BY <1>2, <2>1, <2>2, Unmoved DEF vars, SdpInv, ScanTypes
<1>3. CASE Environment \/ Dequeue
  <2>1. AskedTypes' /\ UNCHANGED sdpState
    BY <1>1, <1>3, EnvironmentKeeps, DequeueKeeps
  <2>2. ConfigTypes'
    BY <2>1, ConfigStays DEF sdpState, SdpInv
  <2>3. QED BY <2>1, <2>2, Unmoved DEF sdpState, SdpInv, ScanTypes
<1>4. CASE SamplesHandler
  BY <1>4, ReceiveKeeps, LoadKeeps, FinishKeeps DEF SamplesHandler
<1>5. ASSUME NEW r, ResetBegins(r) PROVE SdpInv'
  <2>1. /\ UNCHANGED <<outside, queue, holder, scans, sky_q, disk, iter, counts, advised>>
        /\ UNCHANGED configs
        /\ busy' = busy \ {r}
        /\ reset' = [obs |-> r.obs,
                     scans |-> {i \in ToSet(sky_q) :
                                  IsPending(i) /\ scans[i].setting.obs = r.obs}]
    BY <1>5 DEF ResetBegins
  <2>2. AskedTypes' /\ ConfigTypes'
    BY <1>1, <2>1, Handled, ConfigStays DEF SdpInv
  <2>3. reset'.scans \subseteq 1..Len(scans)
    BY <2>1 DEF SdpInv, ScanTypes
  <2>4. QED BY <2>1, <2>2, <2>3, Unmoved
<1>6. ASSUME NEW r, LinkChanges(r) PROVE SdpInv'
  <2>1. /\ UNCHANGED <<outside, queue, holder, reset, configuring, tuned, scans, sky_q, disk,
                       iter, counts, advised>>
        /\ busy' = busy \ {r} /\ scanning' \in {scanning, None}
    BY <1>6 DEF LinkChanges
  <2>2. AskedTypes' /\ ConfigTypes'
    <3>1. ConfigTypes /\ tuned' \in Tunings
      BY <2>1 DEF SdpInv, ConfigTypes
    <3>2. QED BY <1>1, <2>1, <3>1, Handled, Releases
  <2>3. QED BY <2>1, <2>2, Unmoved DEF SdpInv, ScanTypes
<1>7. CASE RequestHandler
  BY <1>5, <1>6, <1>7, ConfigBegins, ConfigKeeps, CompleteKeeps, ResetKeeps
  DEF RequestHandler
<1>8. CASE TmLink \/ Resync
  <2>1. /\ UNCHANGED <<source, wanted, observing, queue, busy, holder, reset, scans, sky_q,
                       disk, iter, counts, advised>>
    BY <1>8 DEF TmLink, Resync
  <2>2. AskedTypes' /\ ConfigTypes'
    <3>1. AskedTypes'
      BY <1>1, <2>1 DEF AskedTypes
    <3>2. CASE TmLink
      <4>1. ConfigTypes /\ UNCHANGED configs
        BY <3>2 DEF TmLink, SdpInv
      <4>2. QED BY <3>1, <4>1, ConfigStays
    <3>3. CASE Resync
      <4>1. configuring' = configuring /\ scanning' = None /\ tuned' \in Tunings
        BY <3>3 DEF Resync, AsConfigured
      <4>2. ConfigTypes /\ scanning' \in {scanning, None}
        BY <4>1 DEF SdpInv
      <4>3. QED BY <3>1, <4>1, <4>2, Releases
    <3>4. QED BY <1>8, <3>1, <3>2, <3>3
  <2>3. QED BY <2>1, <2>2, Unmoved DEF SdpInv, ScanTypes
<1>9. QED BY <1>2, <1>3, <1>4, <1>7, <1>8 DEF Next

\* The inductive invariant of the Science Data Processor: whatever is asked,
\* reset, resynchronised or lost between the steps of a handler, the scan it
\* works on is still the one its samples fit, what a scan holds is in place
\* and stays there, a scan leaves the queue as it is counted, and one that is
\* announced has all its seconds, however far set_scan_config has come with the
\* fields of the digitiser and with its load.
THEOREM SdpInvariant == Spec => []SdpInv
<1>1. Init => SdpInv
  <2>1. SUFFICES ASSUME Init PROVE SdpInv
    OBVIOUS
  <2>2. PICK e : e = <<>>
    OBVIOUS
  <2>3. /\ queue = e /\ scans = e /\ sky_q = e /\ Len(e) = 0 /\ ToSet(e) = {}
        /\ \A S : e \in Seq(S)
    BY <2>1, <2>2 DEF Init, ToSet
  <2>4. /\ counts.completed = 0 /\ counts.aborted = 0 /\ counts \in Counts
        /\ iter \in [Targets -> Nat]
    BY <2>1 DEF Init, Counts
  <2>5. AskedTypes
    <3>1. source \in Source
      BY <2>1, BoundsAssumption DEF Init, Source
    <3>2. source.n <= source.reads /\ source.reads <= MaxReads
      BY <2>1, BoundsAssumption DEF Init
    <3>3. QED BY <2>1, <2>3, <3>1, <3>2 DEF Init, AskedTypes
  <2>6. ScanTypes /\ AllGood(scans) /\ EachCounted
    BY <2>1, <2>3, <2>4 DEF Init, ScanTypes, AllGood, EachCounted
  <2>7. HolderStands /\ AdvisedWhole
    BY <2>1 DEF Init, HolderStands, AdvisedWhole
  <2>8. ConfigTypes
    <3>1. /\ scanning = None /\ tuned \in Tunings
          /\ configuring = [p \in 1..NumProcs |-> None]
      BY <2>1 DEF Init, AsConfigured
    <3>2. QED BY <3>1 DEF ConfigTypes
  <2>9. QED BY <2>5, <2>6, <2>7, <2>8 DEF SdpInv
<1>2. SdpInv /\ [Next]_vars => SdpInv'
  BY SdpStep
<1>3. QED BY <1>1, <1>2, PTL DEF Spec

\* For every length of scan, number of processors and set of settings: the
\* seconds of a scan are samples of its own place, frequency and load, no scan
\* disappears uncounted, and what is announced has all its seconds, whether or
\* not it could be saved.
THEOREM ScansStayWhole == Spec => []ScansAreWhole
<1>1. SdpInv => ScansAreWhole
  <2>1. SUFFICES ASSUME SdpInv PROVE ScansAreWhole
    OBVIOUS
  <2>2. SamplesInPlace
    <3>1. DOMAIN scans = 1..Len(scans)
      BY <2>1 DEF SdpInv, AllGood
    <3>2. QED BY <2>1, <3>1 DEF SamplesInPlace, SdpInv, AllGood, GoodScan
  <2>3. NoScanUncounted
    BY <2>1 DEF NoScanUncounted, SdpInv, EachCounted, AdvisedWhole
  <2>4. QED BY <2>2, <2>3 DEF ScansAreWhole
<1>2. QED BY <1>1, SdpInvariant, PTL

-----------------------------------------------------------------------------
(***************************************************************************)
(* The steps of a pipeline, one after the other.                           *)
(***************************************************************************)
\* The second as it is after each of the steps.
Passes(f, n, p, context, load) ==
    f = [k \in 0..n |-> IF k = 0 THEN p
                        ELSE IF configured[k].context = context
                             THEN Processed(f[k - 1], configured[k].does, load) ELSE f[k - 1]]

\* It begins with the second, and each step does its work or passes it on.
LEMMA PassesAt ==
  ASSUME NEW f, NEW n \in Nat, NEW p, NEW context, NEW load, Passes(f, n, p, context, load)
  PROVE  /\ f[0] = p
         /\ \A k \in 1..n : f[k] = IF configured[k].context = context
                                   THEN Processed(f[k - 1], configured[k].does, load)
                                   ELSE f[k - 1]
<1>1. 0 \in 0..n /\ \A k \in 1..n : k \in 0..n /\ k # 0
  OBVIOUS
<1>2. f = [k \in 0..n |-> IF k = 0 THEN p
                          ELSE IF configured[k].context = context
                               THEN Processed(f[k - 1], configured[k].does, load)
                               ELSE f[k - 1]]
  BY DEF Passes
<1>3. QED BY <1>1, <1>2

\* One step more.
LEMMA PassesOn ==
  ASSUME NEW f, NEW n \in Nat, NEW p, NEW context, NEW load, Passes(f, n, p, context, load)
  PROVE  \E g : Passes(g, n + 1, p, context, load)
<1>1. PICK last : last = IF configured[n + 1].context = context
                         THEN Processed(f[n], configured[n + 1].does, load) ELSE f[n]
  OBVIOUS
<1>2. PICK g : g = [k \in 0..(n + 1) |-> IF k = n + 1 THEN last ELSE f[k]]
  OBVIOUS
<1>3. \A k \in 0..n : g[k] = f[k]
  BY <1>2
<1>4. g[n + 1] = last
  BY <1>2
<1>5. g[0] = p
  BY <1>3, PassesAt
<1>6. ASSUME NEW k \in 1..(n + 1)
      PROVE  g[k] = IF configured[k].context = context
                    THEN Processed(g[k - 1], configured[k].does, load) ELSE g[k - 1]
  <2>1. k - 1 \in 0..n /\ g[k - 1] = f[k - 1]
    BY <1>3
  <2>2. CASE k = n + 1
    <3>1. k - 1 = n
      BY <2>2
    <3>2. g[k - 1] = f[n]
      BY <2>1, <3>1
    <3>3. QED BY <1>1, <1>4, <2>2, <3>2
  <2>3. CASE k # n + 1
    <3>1. k \in 1..n /\ g[k] = f[k]
      BY <1>3, <2>3
    <3>2. QED BY <2>1, <3>1, PassesAt
  <2>4. QED BY <2>2, <2>3
<1>7. PICK h : h = [k \in 0..(n + 1) |->
                      IF k = 0 THEN p
                      ELSE IF configured[k].context = context
                           THEN Processed(g[k - 1], configured[k].does, load) ELSE g[k - 1]]
  OBVIOUS
<1>8. \A k \in 0..(n + 1) : g[k] = h[k]
  <2>1. SUFFICES ASSUME NEW k \in 0..(n + 1) PROVE g[k] = h[k]
    OBVIOUS
  <2>2. CASE k = 0
    BY <1>5, <1>7, <2>2
  <2>3. CASE k # 0
    <3>1. k \in 1..(n + 1)
      BY <2>3
    <3>2. QED BY <1>6, <1>7, <2>3, <3>1
  <2>4. QED BY <2>2, <2>3
<1>9. g = h
  BY <1>2, <1>7, <1>8
<1>10. Passes(g, n + 1, p, context, load)
  BY <1>7, <1>9 DEF Passes
<1>11. QED BY <1>10

\* There is such a function, and it says what the pipeline does.
LEMMA ProcessIs ==
  ASSUME NEW p, NEW context, NEW load, Len(configured) \in Nat
  PROVE  \E f : /\ Passes(f, Len(configured), p, context, load)
                /\ Process(p, context, load) = f[Len(configured)]
<1>1. PICK n \in Nat : n = Len(configured)
  OBVIOUS
<1>2. PICK T : T = {k \in Nat : ~\E f : Passes(f, k, p, context, load)}
  OBVIOUS
<1>3. ASSUME T # {} PROVE FALSE
  <2>1. PICK k \in T : \A l \in T : k <= l
    <3>1. T \subseteq Nat
      BY <1>2
    <3>2. QED BY <1>3, <3>1, LeastNumber
  <2>2. k \in Nat /\ ~\E f : Passes(f, k, p, context, load)
    BY <1>2
  <2>3. k # 0
    <3>1. SUFFICES ASSUME k = 0 PROVE FALSE
      OBVIOUS
    <3>2. PICK f : f = [j \in 0..0 |-> p]
      OBVIOUS
    <3>3. \A j \in 0..0 : j = 0
      OBVIOUS
    <3>4. f = [j \in 0..0 |-> IF j = 0 THEN p
                              ELSE IF configured[j].context = context
                                   THEN Processed(f[j - 1], configured[j].does, load)
                                   ELSE f[j - 1]]
      BY <3>2, <3>3
    <3>5. Passes(f, 0, p, context, load)
      BY <3>4 DEF Passes
    <3>6. QED BY <2>2, <3>1, <3>5
  <2>4. k - 1 \in Nat /\ k - 1 \notin T
    BY <2>1, <2>2, <2>3
  <2>5. PICK f : Passes(f, k - 1, p, context, load)
    BY <1>2, <2>4
  <2>6. \E g : Passes(g, (k - 1) + 1, p, context, load)
    BY <2>4, <2>5, PassesOn
  <2>7. (k - 1) + 1 = k
    BY <2>2
  <2>8. QED BY <2>2, <2>6, <2>7
<1>4. PICK f : Passes(f, n, p, context, load)
  BY <1>2, <1>3
<1>5. PICK h : h = CHOOSE x : Passes(x, n, p, context, load)
  OBVIOUS
<1>6. Passes(h, n, p, context, load)
  BY <1>4, <1>5, Zenon
<1>7. Process(p, context, load) = h[n]
  BY <1>1, <1>5 DEF Process, Passes
<1>8. QED BY <1>1, <1>6, <1>7

\* A second without flags.
Clean(p) == p = [row |-> p.row, flags |-> NoFlags]

\* The spike at the centre and the measurement set no flags.
LEMMA StaysClean ==
  ASSUME NEW p, Clean(p), NEW load, NEW does \in {"dc", "qa"}
  PROVE  Clean(Processed(p, does, load))
<1>1. CASE does = "qa"
  BY <1>1 DEF Processed
<1>2. CASE does = "dc"
  <2>1. Processed(p, does, load) = DcSpike(p)
    BY <1>2 DEF Processed
  <2>2. ASSUME NEW row PROVE Clean([p EXCEPT !.row = row])
    <3>1. PICK q : q = [p EXCEPT !.row = row]
      OBVIOUS
    <3>2. q = [row |-> row, flags |-> NoFlags]
      BY <3>1 DEF Clean
    <3>3. q.row = row
      BY <3>2
    <3>4. Clean(q)
      BY <3>2, <3>3 DEF Clean
    <3>5. QED BY <3>1, <3>4
  <2>3. \/ DcSpike(p) = p
        \/ \E row : DcSpike(p) = [p EXCEPT !.row = row]
    BY DEF DcSpike
  <2>4. QED BY <2>1, <2>2, <2>3
<1>3. QED BY <1>1, <1>2

\* The steps of the spectrum set no flags.
LEMMA SpectrumClean ==
  ASSUME configured \in Configurations, NEW p, Clean(p), NEW load
  PROVE  Clean(Process(p, "spr", load))
<1>1. PICK n \in Nat : n = Len(configured)
  BY ConfigurationsAssumption
<1>2. \A k \in 1..n : configured[k].context = "spr" => configured[k].does \in {"dc", "qa"}
  BY <1>1, ConfigurationsAssumption
<1>3. PICK f : Passes(f, n, p, "spr", load) /\ Process(p, "spr", load) = f[n]
  BY <1>1, ProcessIs
<1>4. PICK T : T = {k \in 0..n : ~Clean(f[k])}
  OBVIOUS
<1>5. ASSUME T # {} PROVE FALSE
  <2>1. PICK k \in T : \A l \in T : k <= l
    <3>1. T \subseteq Nat
      BY <1>4
    <3>2. QED BY <1>5, <3>1, LeastNumber
  <2>2. k \in 0..n /\ ~Clean(f[k])
    BY <1>4
  <2>3. f[0] = p /\ \A i \in 1..n : f[i] = IF configured[i].context = "spr"
                                           THEN Processed(f[i - 1], configured[i].does, load)
                                           ELSE f[i - 1]
    BY <1>3, PassesAt
  <2>4. k \in 1..n /\ k - 1 \in 0..n /\ k - 1 \notin T
    BY <2>1, <2>2, <2>3
  <2>5. Clean(f[k - 1])
    BY <1>4, <2>4
  <2>6. QED BY <1>2, <2>2, <2>3, <2>4, <2>5, StaysClean
<1>6. QED BY <1>3, <1>4, <1>5

(***************************************************************************)
(* The inductive invariant of the pipelines.                               *)
(***************************************************************************)
\* The steps of a pipeline.
L == Len(configured)

\* What the variables of a pipeline hold. A scan has picked up its steps only
\* after it was written into all of them.
PipeTypeOK ==
    /\ configured \in Configurations
    /\ params \in [1..L -> Diggers \cup {NoDigger}] /\ copied \in Diggers \cup {NoDigger}
    /\ exchanged \in Nat
    /\ assembled \in [Diggers -> 0..(2 * L)]
    /\ steps \in [Diggers -> Seq(Diggers)]
    /\ \A d \in Diggers : Len(steps[d]) = IF assembled[d] < L THEN 0 ELSE assembled[d] - L
    /\ cached = [d \in Diggers |-> cached[d]] /\ loadOf = [d \in Diggers |-> loadOf[d]]
    /\ spectra = [d \in Diggers |-> spectra[d]] /\ quality = [d \in Diggers |-> quality[d]]
    /\ reread = [d \in Diggers |-> reread[d]]
    /\ disturbed \subseteq Diggers

\* A step works on another's scan only if that scan is known to be disturbed.
StepsAreOwn ==
    \A d \in Diggers : \A i \in 1..Len(steps[d]) :
        /\ steps[d][i] = d \/ steps[d][i] \in disturbed
        /\ d \notin disturbed => steps[d][i] = d

\* While an undisturbed pipeline is made, the configuration names its scan in
\* every step it has come to, and no report has parameters exchanged.
MadeAlone(d) ==
    (d \notin disturbed /\ Making(d))
    => /\ exchanged = 0
       /\ \A i \in 1..L : i <= assembled[d] => params[i] = d

\* The load an undisturbed pipeline divides by is its own and recorded.
LoadRecorded(d) ==
    d \notin disturbed => loadOf[d] = cached[d] /\ cached[d].of \in {d, NoDigger}

QualityRecorded(d) ==
    (d \notin disturbed /\ spectra[d] # Empty) => quality[d] = Measured(spectra[d])

\* Every second loaded has a spectrum without flags and a calibrated one; the
\* mean is that of the calibrated ones.
ProductsAgree(products) ==
    /\ products = [spr |-> products.spr, cal |-> products.cal,
                   mean |-> products.mean, flags |-> products.flags]
    /\ products.spr = [s \in DOMAIN products.spr |-> products.spr[s]]
    /\ products.cal = [s \in DOMAIN products.spr |-> products.cal[s]]
    /\ \A s \in DOMAIN products.spr : Clean(products.spr[s])
    /\ products # Empty => /\ products.mean = Mean(products.cal)
                           /\ products.flags = MeanFlags(products.cal)

\* What was read back was complete and stays as it was.
ReadBackAgrees(d) ==
    reread[d] # Unread
    => /\ DOMAIN spectra[d].cal = 1..Lengths[d]
       /\ reread[d].products = Reprocess(spectra[d].spr, reread[d].number)

PipeInv ==
    /\ PipeTypeOK
    /\ StepsAreOwn
    /\ \A d \in Diggers : /\ MadeAlone(d) /\ LoadRecorded(d) /\ QualityRecorded(d)
                          /\ ProductsAgree(spectra[d]) /\ ReadBackAgrees(d)

\* The configuration never changes, and with it what its steps do.
LEMMA SameReprocess ==
  ASSUME configured' = configured, NEW spr, NEW load
  PROVE  Reprocess(spr, load)' = Reprocess(spr, load)
<1>1. ASSUME NEW p, NEW does
      PROVE  Processed(p, does, load)' = Processed(p, does, load)
  <2>1. LoadCal(p, load)' = LoadCal(p, load)
    BY DEF LoadCal
  <2>2. QED BY <2>1 DEF Processed
<1>2. ASSUME NEW p
      PROVE  Process(p, "cal", load)' = Process(p, "cal", load)
  BY DEF Process, Processed, LoadCal
<1>3. QED BY <1>2 DEF Reprocess

\* How long a pipeline is.
LEMMA PipeLength ==
  ASSUME configured \in Configurations
  PROVE  /\ L \in Nat \ {0} /\ configured \in Seq(Step)
         /\ DOMAIN configured = 1..L
<1>1. configured \in Seq(Step) /\ \E i \in 1..Len(configured) : configured[i].does = "load"
  BY ConfigurationsAssumption
<1>2. QED BY <1>1 DEF L

\* The scan of a step of a complete pipeline.
LEMMA Captures ==
  ASSUME PipeTypeOK, StepsAreOwn, NEW d \in Diggers, assembled[d] = 2 * L,
         NEW does \in {"load", "qa"}
  PROVE  /\ Captured(d, StepOf(does)) \in Diggers
         /\ Captured(d, StepOf(does)) = d \/ Captured(d, StepOf(does)) \in disturbed
         /\ d \notin disturbed => Captured(d, StepOf(does)) = d
<1>1. L \in Nat \ {0} /\ DOMAIN configured = 1..L
  BY PipeLength DEF PipeTypeOK
<1>2. \E i \in 1..L : configured[i].does = does
  BY ConfigurationsAssumption DEF L, PipeTypeOK
<1>3. StepOf(does) \in 1..L
  BY <1>1, <1>2 DEF StepOf
<1>4. steps[d] \in Seq(Diggers) /\ Len(steps[d]) = L
  BY <1>1 DEF PipeTypeOK
<1>5. StepOf(does) \in 1..Len(steps[d])
  BY <1>3, <1>4
<1>6. steps[d][StepOf(does)] \in Diggers
  BY <1>4, <1>5
<1>7. QED BY <1>5, <1>6 DEF StepsAreOwn, Captured

\* Before any scan is begun.
LEMMA PipeInitially ==
  PipelineInit => PipeInv
<1>1. SUFFICES ASSUME PipelineInit PROVE PipeInv
  OBVIOUS
<1>2. L \in Nat \ {0} /\ DOMAIN configured = 1..L
  BY <1>1, PipeLength DEF PipelineInit
<1>3. PipeTypeOK
  BY <1>1, <1>2 DEF PipelineInit, PipeTypeOK
<1>4. StepsAreOwn
  BY <1>1 DEF PipelineInit, StepsAreOwn
<1>5. ASSUME NEW d \in Diggers
      PROVE  /\ MadeAlone(d) /\ LoadRecorded(d) /\ QualityRecorded(d)
             /\ ProductsAgree(spectra[d]) /\ ReadBackAgrees(d)
  <2>1. assembled[d] = 0 /\ spectra[d] = Empty /\ reread[d] = Unread
    BY <1>1 DEF PipelineInit
  <2>2. cached[d] = NoLoad /\ loadOf[d] = NoLoad
    BY <1>1 DEF PipelineInit
  <2>3. MadeAlone(d)
    BY <1>2, <2>1 DEF MadeAlone, Making
  <2>4. LoadRecorded(d)
    BY <2>2 DEF LoadRecorded, NoLoad
  <2>5. QualityRecorded(d) /\ ReadBackAgrees(d)
    BY <2>1 DEF QualityRecorded, ReadBackAgrees
  <2>6. ProductsAgree(Empty)
    BY DEF ProductsAgree, Empty
  <2>7. QED BY <2>1, <2>3, <2>4, <2>5, <2>6
<1>6. QED BY <1>3, <1>4, <1>5 DEF PipeInv

\* What the making of pipelines leaves alone.
LEMMA ProductsStay ==
  ASSUME PipeInv, configured' = configured, spectra' = spectra, reread' = reread,
         quality' = quality, disturbed \subseteq disturbed', NEW d \in Diggers
  PROVE  /\ QualityRecorded(d)' /\ ProductsAgree(spectra[d])' /\ ReadBackAgrees(d)'
<1>1. QualityRecorded(d) /\ ProductsAgree(spectra[d]) /\ ReadBackAgrees(d)
  BY DEF PipeInv
<1>2. QualityRecorded(d)'
  BY <1>1 DEF QualityRecorded, Measured
<1>3. ProductsAgree(spectra[d])'
  BY <1>1 DEF ProductsAgree
<1>4. ReadBackAgrees(d)'
  <2>1. PICK spr, number : spr = spectra[d].spr /\ number = reread[d].number
    OBVIOUS
  <2>2. Reprocess(spr, number)' = Reprocess(spr, number)
    BY SameReprocess
  <2>3. Reprocess(spectra[d].spr, reread[d].number)' = Reprocess(spr, number)'
    BY <2>1
  <2>4. QED BY <1>1, <2>1, <2>2, <2>3 DEF ReadBackAgrees
<1>5. QED BY <1>2, <1>3, <1>4

\* A scan is written into the parameters of a step.
LEMMA AssignKeeps ==
  ASSUME PipeInv, NEW d \in Diggers, AssignParams(d)
  PROVE  PipeInv'
<1>1. L \in Nat \ {0} /\ L' = L
  BY PipeLength DEF PipeInv, PipeTypeOK, AssignParams, L
<1>2. PICK n \in Nat : n = L /\ n # 0
  BY <1>1
<1>3. PICK m \in 0..(2 * n) : m = assembled[d] /\ m < n
  BY <1>2 DEF PipeInv, PipeTypeOK, AssignParams, L
<1>4. assembled' = [assembled EXCEPT ![d] = m + 1] /\ m + 1 \in 1..n /\ m + 1 \in 0..(2 * n)
  BY <1>2, <1>3 DEF AssignParams
<1>5. assembled'[d] = m + 1 /\ \A e \in Diggers : e # d => assembled'[e] = assembled[e]
  BY <1>4 DEF PipeInv, PipeTypeOK
<1>6. /\ configured' = configured /\ steps' = steps /\ exchanged' = exchanged
      /\ cached' = cached /\ loadOf' = loadOf /\ spectra' = spectra /\ quality' = quality
      /\ reread' = reread
  BY DEF AssignParams, loadVars, productVars
<1>7. /\ disturbed \subseteq disturbed' /\ disturbed' \subseteq Diggers
      /\ exchanged # 0 => d \in disturbed'
      /\ \A e \in Diggers : (e # d /\ Making(e)) => e \in disturbed'
  BY DEF AssignParams, PipeInv, PipeTypeOK
<1>8. PipeTypeOK'
  <2>1. assembled' \in [Diggers -> 0..(2 * n)]
    BY <1>2, <1>4 DEF PipeInv, PipeTypeOK
  <2>2. params' \in [1..n -> Diggers \cup {NoDigger}] /\ copied' \in Diggers \cup {NoDigger}
    <3>1. params \in [1..n -> Diggers \cup {NoDigger}] /\ copied \in Diggers \cup {NoDigger}
      BY <1>2 DEF PipeInv, PipeTypeOK
    <3>2. \/ params' = params /\ copied' = d
          \/ params' = [params EXCEPT ![m + 1] = d] /\ copied' = copied
      BY <1>5 DEF AssignParams
    <3>3. QED BY <1>4, <3>1, <3>2
  <2>3. ASSUME NEW e \in Diggers
        PROVE  Len(steps'[e]) = IF assembled'[e] < n THEN 0 ELSE assembled'[e] - n
    <3>1. Len(steps[e]) = IF assembled[e] < n THEN 0 ELSE assembled[e] - n
      BY <1>2 DEF PipeInv, PipeTypeOK
    <3>2. CASE e # d
      BY <1>5, <1>6, <3>1, <3>2
    <3>3. CASE e = d
      <4>1. Len(steps[e]) = 0
        BY <1>3, <3>1, <3>3
      <4>2. assembled'[e] = m + 1 /\ steps'[e] = steps[e]
        BY <1>5, <1>6, <3>3
      <4>3. QED BY <1>2, <1>3, <4>1, <4>2
    <3>4. QED BY <3>2, <3>3
  <2>4. QED BY <1>1, <1>2, <1>6, <1>7, <2>1, <2>2, <2>3 DEF PipeInv, PipeTypeOK
<1>9. StepsAreOwn'
  BY <1>6, <1>7 DEF PipeInv, StepsAreOwn
<1>10. ASSUME NEW e \in Diggers
       PROVE  MadeAlone(e)' /\ LoadRecorded(e)'
  <2>1. LoadRecorded(e)'
    BY <1>6, <1>7 DEF PipeInv, LoadRecorded
  <2>2. MadeAlone(e)'
    <3>1. SUFFICES ASSUME e \notin disturbed', Making(e)'
                   PROVE  exchanged' = 0 /\ \A i \in 1..n : i <= assembled'[e] => params'[i] = e
      BY <1>1, <1>2 DEF MadeAlone
    <3>2. e = d
      BY <1>5, <1>6, <1>7, <3>1 DEF Making
    <3>3. exchanged = 0 /\ d \notin disturbed
      BY <1>7, <3>1, <3>2
    <3>4. params' = [params EXCEPT ![m + 1] = d]
      BY <1>4, <1>5, <3>3 DEF AssignParams
    <3>5. ASSUME NEW i \in 1..n, i <= m PROVE params[i] = d
      <4>1. m \in 1..(2 * n - 1)
        BY <1>2, <1>3, <3>5
      <4>2. Making(d)
        BY <1>2, <1>3, <4>1 DEF Making, L
      <4>3. QED BY <1>2, <1>3, <3>3, <3>5, <4>2 DEF PipeInv, MadeAlone
    <3>6. ASSUME NEW i \in 1..n, i <= m + 1 PROVE params'[i] = d
      <4>1. params \in [1..n -> Diggers \cup {NoDigger}]
        BY <1>2 DEF PipeInv, PipeTypeOK
      <4>2. CASE i = m + 1
        BY <1>4, <3>4, <4>1, <4>2
      <4>3. CASE i # m + 1
        BY <3>4, <3>5, <3>6, <4>1, <4>3
      <4>4. QED BY <4>2, <4>3
    <3>7. QED BY <1>5, <1>6, <3>2, <3>3, <3>6
  <2>3. QED BY <2>1, <2>2
<1>11. QED BY <1>6, <1>7, <1>8, <1>9, <1>10, ProductsStay DEF PipeInv

\* A step picks its scan up.
LEMMA InstantiateKeeps ==
  ASSUME PipeInv, NEW d \in Diggers, InstantiateStep(d)
  PROVE  PipeInv'
<1>1. L \in Nat \ {0} /\ L' = L
  BY PipeLength DEF PipeInv, PipeTypeOK, InstantiateStep, configVars, L
<1>2. PICK n \in Nat : n = L /\ n # 0
  BY <1>1
<1>3. PICK m \in n..(2 * n - 1) : m = assembled[d]
  BY <1>2 DEF InstantiateStep, L
<1>4. PICK i \in 1..n : i = Len(steps[d]) + 1 /\ i = m - n + 1
  <2>1. Len(steps[d]) = m - n
    BY <1>2, <1>3 DEF PipeInv, PipeTypeOK
  <2>2. m - n + 1 \in 1..n
    BY <1>2, <1>3
  <2>3. QED BY <2>1, <2>2
<1>5. PICK scan : scan = IF exchanged = i THEN copied ELSE params[i]
  OBVIOUS
<1>6. scan \in Diggers \cup {NoDigger}
  BY <1>2, <1>4, <1>5 DEF PipeInv, PipeTypeOK
<1>7. /\ configured' = configured /\ params' = params /\ exchanged' = exchanged
      /\ copied' = copied /\ spectra' = spectra /\ quality' = quality /\ reread' = reread
  BY DEF InstantiateStep, configVars, productVars
<1>8. disturbed' = disturbed \cup (IF exchanged # 0 THEN {d} ELSE {})
                             \cup ({scan} \ {d, NoDigger})
  BY <1>4, <1>5 DEF InstantiateStep
<1>9. disturbed \subseteq disturbed' /\ disturbed' \subseteq Diggers
  BY <1>6, <1>8 DEF PipeInv, PipeTypeOK
<1>10. d \notin disturbed' => scan = d
  <2>1. SUFFICES ASSUME d \notin disturbed' PROVE scan = d
    OBVIOUS
  <2>2. exchanged = 0 /\ d \notin disturbed
    BY <1>8, <2>1
  <2>3. m \in 1..(2 * n - 1)
    BY <1>2
  <2>4. Making(d)
    BY <1>2, <1>3, <2>3 DEF Making, L
  <2>5. i <= m /\ exchanged # i
    BY <1>2, <1>4, <2>2
  <2>6. params[i] = d
    BY <1>2, <1>3, <1>4, <2>2, <2>4, <2>5 DEF PipeInv, MadeAlone
  <2>7. QED BY <1>5, <2>5, <2>6
<1>11. d # NoDigger
  BY PipelineAssumption
<1>12. CASE scan = NoDigger
  <2>1. d \in disturbed'
    BY <1>10, <1>11, <1>12
  <2>2. /\ assembled' = [assembled EXCEPT ![d] = 0] /\ steps' = [steps EXCEPT ![d] = <<>>]
        /\ cached' = [cached EXCEPT ![d] = NoLoad] /\ loadOf' = loadOf
    BY <1>4, <1>5, <1>12 DEF InstantiateStep
  <2>3. /\ assembled'[d] = 0 /\ steps'[d] = <<>>
        /\ \A e \in Diggers : e # d => /\ assembled'[e] = assembled[e] /\ steps'[e] = steps[e]
                                       /\ cached'[e] = cached[e]
    BY <2>2 DEF PipeInv, PipeTypeOK
  <2>4. PipeTypeOK'
    <3>1. assembled' \in [Diggers -> 0..(2 * n)] /\ steps' \in [Diggers -> Seq(Diggers)]
      <4>1. 0 \in 0..(2 * n) /\ <<>> \in Seq(Diggers)
        BY <1>2
      <4>2. QED BY <1>2, <2>2, <4>1 DEF PipeInv, PipeTypeOK
    <3>2. cached' = [e \in Diggers |-> cached'[e]]
      BY <2>2 DEF PipeInv, PipeTypeOK
    <3>3. ASSUME NEW e \in Diggers
          PROVE  Len(steps'[e]) = IF assembled'[e] < n THEN 0 ELSE assembled'[e] - n
      <4>1. CASE e # d
        BY <1>2, <2>3, <4>1 DEF PipeInv, PipeTypeOK
      <4>2. CASE e = d
        BY <1>2, <2>3, <4>2
      <4>3. QED BY <4>1, <4>2
    <3>4. QED BY <1>1, <1>2, <1>7, <1>9, <2>2, <3>1, <3>2, <3>3 DEF PipeInv, PipeTypeOK
  <2>5. StepsAreOwn'
    <3>1. SUFFICES ASSUME NEW e \in Diggers, NEW k \in 1..Len(steps'[e])
                   PROVE  /\ steps'[e][k] = e \/ steps'[e][k] \in disturbed'
                          /\ e \notin disturbed' => steps'[e][k] = e
      BY DEF StepsAreOwn
    <3>2. e # d
      BY <2>3
    <3>3. QED BY <1>9, <2>3, <3>2 DEF PipeInv, StepsAreOwn
  <2>6. ASSUME NEW e \in Diggers
        PROVE  MadeAlone(e)' /\ LoadRecorded(e)'
    <3>1. CASE e = d
      <4>1. ~Making(d)'
        BY <2>3 DEF Making
      <4>2. QED BY <2>1, <3>1, <4>1 DEF MadeAlone, LoadRecorded
    <3>2. CASE e # d
      <4>1. LoadRecorded(e)'
        BY <1>9, <2>2, <2>3, <3>2 DEF PipeInv, LoadRecorded
      <4>2. MadeAlone(e)'
        BY <1>1, <1>7, <1>9, <2>3, <3>2 DEF PipeInv, MadeAlone, Making
      <4>3. QED BY <4>1, <4>2
    <3>3. QED BY <3>1, <3>2
  <2>7. QED BY <1>7, <1>9, <2>4, <2>5, <2>6, ProductsStay DEF PipeInv
<1>13. CASE scan \in Diggers
  <2>1. scan # NoDigger
    BY <1>13, PipelineAssumption
  <2>2. /\ assembled' = [assembled EXCEPT ![d] = m + 1]
        /\ steps' = [steps EXCEPT ![d] = Append(steps[d], scan)]
    BY <1>3, <1>4, <1>5, <2>1 DEF InstantiateStep
  <2>3. \/ cached' = cached /\ loadOf' = loadOf
        \/ /\ cached' = [cached EXCEPT ![d] = ResolveLoad(scan)]
           /\ loadOf' = [loadOf EXCEPT ![scan] = ResolveLoad(scan)]
    BY <1>4, <1>5, <2>1 DEF InstantiateStep
  <2>4. /\ assembled'[d] = m + 1 /\ steps'[d] = Append(steps[d], scan)
        /\ \A e \in Diggers : e # d => /\ assembled'[e] = assembled[e] /\ steps'[e] = steps[e]
                                       /\ cached'[e] = cached[e]
    BY <2>2, <2>3 DEF PipeInv, PipeTypeOK
  <2>5. steps[d] \in Seq(Diggers) /\ Len(steps[d]) = i - 1
    BY <1>4 DEF PipeInv, PipeTypeOK
  <2>6. /\ steps'[d] \in Seq(Diggers) /\ Len(steps'[d]) = i /\ steps'[d][i] = scan
        /\ \A k \in 1..(i - 1) : steps'[d][k] = steps[d][k]
    BY <1>13, <2>4, <2>5
  <2>7. PipeTypeOK'
    <3>1. m + 1 \in 0..(2 * n) /\ ~(m + 1 < n) /\ m + 1 - n = i
      BY <1>2, <1>4
    <3>2. assembled' \in [Diggers -> 0..(2 * n)]
      BY <1>2, <2>2, <3>1 DEF PipeInv, PipeTypeOK
    <3>3. steps' \in [Diggers -> Seq(Diggers)]
      BY <2>2, <2>4, <2>6 DEF PipeInv, PipeTypeOK
    <3>4. cached' = [e \in Diggers |-> cached'[e]] /\ loadOf' = [e \in Diggers |-> loadOf'[e]]
      BY <2>3 DEF PipeInv, PipeTypeOK
    <3>5. ASSUME NEW e \in Diggers
          PROVE  Len(steps'[e]) = IF assembled'[e] < n THEN 0 ELSE assembled'[e] - n
      <4>1. CASE e # d
        BY <1>2, <2>4, <4>1 DEF PipeInv, PipeTypeOK
      <4>2. CASE e = d
        BY <2>4, <2>6, <3>1, <4>2
      <4>3. QED BY <4>1, <4>2
    <3>6. QED BY <1>1, <1>2, <1>7, <1>9, <3>2, <3>3, <3>4, <3>5 DEF PipeInv, PipeTypeOK
  <2>8. StepsAreOwn'
    <3>1. SUFFICES ASSUME NEW e \in Diggers, NEW k \in 1..Len(steps'[e])
                   PROVE  /\ steps'[e][k] = e \/ steps'[e][k] \in disturbed'
                          /\ e \notin disturbed' => steps'[e][k] = e
      BY DEF StepsAreOwn
    <3>2. CASE e # d
      BY <1>9, <2>4, <3>2 DEF PipeInv, StepsAreOwn
    <3>3. CASE e = d /\ k = i
      <4>1. scan = d \/ scan \in disturbed'
        BY <1>8, <2>1
      <4>2. QED BY <1>10, <2>6, <3>3, <4>1
    <3>4. CASE e = d /\ k # i
      <4>1. k \in 1..(i - 1)
        BY <2>6, <3>4
      <4>2. k \in 1..Len(steps[d]) /\ steps'[d][k] = steps[d][k]
        BY <2>5, <2>6, <4>1
      <4>3. QED BY <1>9, <3>4, <4>2 DEF PipeInv, StepsAreOwn
    <3>5. QED BY <3>2, <3>3, <3>4
  <2>9. ASSUME NEW e \in Diggers
        PROVE  MadeAlone(e)' /\ LoadRecorded(e)'
    <3>1. LoadRecorded(e)'
      <4>1. SUFFICES ASSUME e \notin disturbed'
                     PROVE  loadOf'[e] = cached'[e] /\ cached'[e].of \in {e, NoDigger}
        BY DEF LoadRecorded
      <4>2. loadOf[e] = cached[e] /\ cached[e].of \in {e, NoDigger}
        BY <1>9, <4>1 DEF PipeInv, LoadRecorded
      <4>3. CASE cached' = cached /\ loadOf' = loadOf
        BY <4>2, <4>3
      <4>4. CASE /\ cached' = [cached EXCEPT ![d] = ResolveLoad(scan)]
                 /\ loadOf' = [loadOf EXCEPT ![scan] = ResolveLoad(scan)]
        <5>1. CASE e = d
          <6>1. scan = d
            BY <1>10, <4>1, <5>1
          <6>2. loadOf'[e] = ResolveLoad(d) /\ cached'[e] = ResolveLoad(d)
            BY <4>4, <5>1, <6>1 DEF PipeInv, PipeTypeOK
          <6>3. QED BY <5>1, <6>2 DEF ResolveLoad
        <5>2. CASE e # d
          <6>1. e # scan
            BY <1>8, <1>11, <2>1, <4>1, <5>2
          <6>2. loadOf'[e] = loadOf[e] /\ cached'[e] = cached[e]
            BY <4>4, <5>2, <6>1 DEF PipeInv, PipeTypeOK
          <6>3. QED BY <4>2, <6>2
        <5>3. QED BY <5>1, <5>2
      <4>5. QED BY <2>3, <4>3, <4>4
    <3>2. MadeAlone(e)'
      <4>1. SUFFICES ASSUME e \notin disturbed', Making(e)'
                     PROVE  exchanged' = 0 /\ \A k \in 1..n : k <= assembled'[e] => params'[k] = e
        BY <1>1, <1>2 DEF MadeAlone
      <4>2. CASE e # d
        <5>1. Making(e) /\ e \notin disturbed
          BY <1>7, <1>9, <2>4, <4>1, <4>2 DEF Making
        <5>2. QED BY <1>2, <1>7, <2>4, <4>2, <5>1 DEF PipeInv, MadeAlone
      <4>3. CASE e = d
        <5>1. m \in 1..(2 * n - 1)
          BY <1>2
        <5>2. Making(d) /\ d \notin disturbed
          BY <1>2, <1>3, <1>9, <4>1, <4>3, <5>1 DEF Making, L
        <5>3. exchanged = 0 /\ \A k \in 1..n : k <= m => params[k] = d
          BY <1>2, <1>3, <5>2 DEF PipeInv, MadeAlone
        <5>4. \A k \in 1..n : k <= m
          BY <1>2
        <5>5. QED BY <1>7, <4>3, <5>3, <5>4
      <4>4. QED BY <4>2, <4>3
    <3>3. QED BY <3>1, <3>2
  <2>10. QED BY <1>7, <1>9, <2>7, <2>8, <2>9, ProductsStay DEF PipeInv
<1>14. QED BY <1>6, <1>12, <1>13

\* A report takes parameters away, or puts them back: all that is being made is
\* disturbed.
LEMMA ReportKeeps ==
  ASSUME PipeInv, ExchangeParams \/ RestoreParams
  PROVE  PipeInv'
<1>1. /\ configured' = configured /\ params' = params /\ assembled' = assembled
      /\ steps' = steps /\ cached' = cached /\ loadOf' = loadOf /\ spectra' = spectra
      /\ quality' = quality /\ reread' = reread /\ copied' = NoDigger
  BY DEF ExchangeParams, RestoreParams, loadVars, productVars
<1>2. exchanged' \in Nat
  BY DEF PipeInv, PipeTypeOK, ExchangeParams, RestoreParams
<1>3. disturbed' = disturbed \cup {d \in Diggers : Making(d)}
  BY DEF ExchangeParams, RestoreParams
<1>4. disturbed \subseteq disturbed' /\ disturbed' \subseteq Diggers
  BY <1>3 DEF PipeInv, PipeTypeOK
<1>5. L' = L
  BY <1>1 DEF L
<1>6. PipeTypeOK'
  BY <1>1, <1>2, <1>4, <1>5 DEF PipeInv, PipeTypeOK
<1>7. StepsAreOwn'
  BY <1>1, <1>4 DEF PipeInv, StepsAreOwn
<1>8. ASSUME NEW d \in Diggers PROVE MadeAlone(d)' /\ LoadRecorded(d)'
  <2>1. LoadRecorded(d)'
    BY <1>1, <1>4 DEF PipeInv, LoadRecorded
  <2>2. Making(d)' => d \in disturbed'
    BY <1>1, <1>3 DEF Making
  <2>3. QED BY <2>1, <2>2 DEF MadeAlone
<1>9. QED BY <1>1, <1>4, <1>6, <1>7, <1>8, ProductsStay DEF PipeInv

\* A load completes.
LEMMA ArrivalKeeps ==
  ASSUME PipeInv, NEW d \in Diggers, LoadArrives(d)
  PROVE  PipeInv'
<1>1. /\ configured' = configured /\ params' = params /\ exchanged' = exchanged
      /\ copied' = copied /\ assembled' = assembled
      /\ steps' = steps /\ cached' = cached /\ loadOf' = loadOf /\ spectra' = spectra
      /\ quality' = quality /\ reread' = reread /\ disturbed' = disturbed
  BY DEF LoadArrives, configVars, productVars
<1>2. L' = L
  BY <1>1 DEF L
<1>3. PipeTypeOK' /\ StepsAreOwn'
  BY <1>1, <1>2 DEF PipeInv, PipeTypeOK, StepsAreOwn
<1>4. ASSUME NEW e \in Diggers PROVE MadeAlone(e)' /\ LoadRecorded(e)'
  BY <1>1, <1>2 DEF PipeInv, MadeAlone, Making, LoadRecorded
<1>5. QED BY <1>1, <1>3, <1>4, ProductsStay DEF PipeInv

\* The products of one second more agree, if those before it did.
LEMMA SecondAgrees ==
  ASSUME configured \in Configurations, NEW products, ProductsAgree(products),
         NEW s, NEW row, NEW load
  PROVE  ProductsAgree(LoadRow(products, s, row, load))
<1>1. PICK raw : raw = [row |-> row, flags |-> NoFlags]
  OBVIOUS
<1>2. Clean(raw)
  BY <1>1 DEF Clean
<1>3. PICK spr : spr = Process(raw, "spr", load)
  OBVIOUS
<1>4. Clean(spr)
  BY <1>2, <1>3, SpectrumClean
<1>5. PICK cal : cal = Extended(products.cal, s, Process(spr, "cal", load))
  OBVIOUS
<1>6. PICK all : all = Extended(products.spr, s, spr)
  OBVIOUS
<1>7. PICK after : after = LoadRow(products, s, row, load)
  OBVIOUS
<1>8. after = [spr |-> all, cal |-> cal, mean |-> Mean(cal), flags |-> MeanFlags(cal)]
  BY <1>1, <1>3, <1>5, <1>6, <1>7 DEF LoadRow, UpdateMpr
<1>9. after.spr = all /\ after.cal = cal /\ after.mean = Mean(cal) /\ after.flags = MeanFlags(cal)
  BY <1>8
<1>10. DOMAIN products.cal = DOMAIN products.spr
  BY DEF ProductsAgree
<1>11. /\ DOMAIN all = DOMAIN products.spr \cup {s} /\ DOMAIN cal = DOMAIN products.spr \cup {s}
       /\ all = [x \in DOMAIN all |-> all[x]] /\ cal = [x \in DOMAIN cal |-> cal[x]]
       /\ all[s] = spr /\ \A x \in DOMAIN products.spr : x # s => all[x] = products.spr[x]
  BY <1>5, <1>6, <1>10 DEF Extended
<1>12. ASSUME NEW x \in DOMAIN all PROVE Clean(all[x])
  <2>1. CASE x = s
    BY <1>4, <1>11, <2>1
  <2>2. CASE x # s
    BY <1>11, <2>2 DEF ProductsAgree
  <2>3. QED BY <2>1, <2>2
<1>13. ProductsAgree(after)
  BY <1>8, <1>9, <1>11, <1>12 DEF ProductsAgree
<1>14. QED BY <1>7, <1>13

\* A second is loaded.
LEMMA LoadKeepsApart ==
  ASSUME PipeInv, NEW d \in Diggers, NEW s, NEW row, LoadSecond(d, s, row)
  PROVE  PipeInv'
<1>1. PICK load : load = Refreshed(d)
  OBVIOUS
<1>2. PICK products : products = LoadRow(spectra[d], s, row, load.number)
  OBVIOUS
<1>3. PICK loader : loader = Captured(d, StepOf("load"))
  OBVIOUS
<1>4. PICK judge : judge = Captured(d, StepOf("qa"))
  OBVIOUS
<1>5. /\ assembled[d] = 2 * L /\ DOMAIN spectra[d].cal # 1..Lengths[d]
      /\ cached' = [cached EXCEPT ![d] = load]
      /\ loadOf' = IF load = cached[d] THEN loadOf ELSE [loadOf EXCEPT ![loader] = load]
      /\ spectra' = [spectra EXCEPT ![d] = products]
      /\ quality' = [quality EXCEPT ![judge] = Measured(products)]
  BY <1>1, <1>2, <1>3, <1>4 DEF LoadSecond, L
<1>6. /\ configured' = configured /\ params' = params /\ exchanged' = exchanged
      /\ copied' = copied /\ assembled' = assembled /\ steps' = steps
      /\ reread' = reread /\ disturbed' = disturbed
  BY DEF LoadSecond, configVars
<1>7. /\ loader \in Diggers /\ (loader = d \/ loader \in disturbed)
      /\ judge \in Diggers /\ (judge = d \/ judge \in disturbed)
      /\ d \notin disturbed => loader = d /\ judge = d
  BY <1>3, <1>4, <1>5, Captures DEF PipeInv
<1>8. L' = L
  BY <1>6 DEF L
<1>9. PipeTypeOK'
  <2>1. cached' = [e \in Diggers |-> cached'[e]] /\ loadOf' = [e \in Diggers |-> loadOf'[e]]
    BY <1>5 DEF PipeInv, PipeTypeOK
  <2>2. spectra' = [e \in Diggers |-> spectra'[e]] /\ quality' = [e \in Diggers |-> quality'[e]]
    BY <1>5 DEF PipeInv, PipeTypeOK
  <2>3. QED BY <1>6, <1>8, <2>1, <2>2 DEF PipeInv, PipeTypeOK
<1>10. StepsAreOwn'
  BY <1>6 DEF PipeInv, StepsAreOwn
<1>11. /\ cached'[d] = load /\ spectra'[d] = products
       /\ quality'[judge] = Measured(products)
       /\ \A e \in Diggers : e # d => cached'[e] = cached[e] /\ spectra'[e] = spectra[e]
       /\ \A e \in Diggers : e # judge => quality'[e] = quality[e]
       /\ \A e \in Diggers : e # loader => loadOf'[e] = loadOf[e]
  BY <1>5, <1>7 DEF PipeInv, PipeTypeOK
<1>12. ASSUME NEW e \in Diggers
       PROVE  /\ MadeAlone(e)' /\ LoadRecorded(e)' /\ QualityRecorded(e)'
              /\ ProductsAgree(spectra[e])' /\ ReadBackAgrees(e)'
  <2>1. MadeAlone(e)'
    BY <1>6, <1>8 DEF PipeInv, MadeAlone, Making
  <2>2. LoadRecorded(e)'
    <3>1. SUFFICES ASSUME e \notin disturbed
                   PROVE  loadOf'[e] = cached'[e] /\ cached'[e].of \in {e, NoDigger}
      BY <1>6 DEF LoadRecorded
    <3>2. loadOf[e] = cached[e] /\ cached[e].of \in {e, NoDigger}
      BY <3>1 DEF PipeInv, LoadRecorded
    <3>3. CASE e # d
      <4>1. e # loader
        BY <1>7, <3>1, <3>3
      <4>2. QED BY <1>11, <3>2, <3>3, <4>1
    <3>4. CASE e = d
      <4>1. loader = d
        BY <1>7, <3>1, <3>4
      <4>2. load = cached[d] \/ load = ResolveLoad(d)
        BY <1>1, <1>3, <4>1 DEF Refreshed
      <4>3. load.of \in {d, NoDigger}
        <5>1. ResolveLoad(d).of = d
          BY DEF ResolveLoad
        <5>2. QED BY <3>2, <3>4, <4>2, <5>1
      <4>4. loadOf'[d] = load
        BY <1>5, <3>2, <3>4, <4>1 DEF PipeInv, PipeTypeOK
      <4>5. QED BY <1>11, <3>4, <4>3, <4>4
    <3>5. QED BY <3>3, <3>4
  <2>3. QualityRecorded(e)'
    <3>1. SUFFICES ASSUME e \notin disturbed, spectra'[e] # Empty
                   PROVE  quality'[e] = Measured(spectra'[e])
      BY <1>6 DEF QualityRecorded, Measured, Empty
    <3>2. CASE e = d
      BY <1>7, <1>11, <3>1, <3>2
    <3>3. CASE e # d
      <4>1. e # judge
        BY <1>7, <3>1, <3>3
      <4>2. QED BY <1>11, <3>1, <3>3, <4>1 DEF PipeInv, QualityRecorded
    <3>4. QED BY <3>2, <3>3
  <2>4. ProductsAgree(spectra[e])'
    <3>1. ProductsAgree(spectra'[e])
      <4>1. CASE e # d
        BY <1>11, <4>1 DEF PipeInv
      <4>2. CASE e = d
        <5>1. ProductsAgree(products)
          BY <1>2, SecondAgrees DEF PipeInv, PipeTypeOK
        <5>2. QED BY <1>11, <4>2, <5>1
      <4>3. QED BY <4>1, <4>2
    <3>2. QED BY <3>1 DEF ProductsAgree
  <2>5. ReadBackAgrees(e)'
    <3>1. CASE e # d
      <4>1. PICK spr, number : spr = spectra[e].spr /\ number = reread[e].number
        OBVIOUS
      <4>2. Reprocess(spr, number)' = Reprocess(spr, number)
        BY <1>6, SameReprocess
      <4>3. spectra'[e].spr = spr /\ reread'[e].number = number /\ spectra'[e] = spectra[e]
        BY <1>6, <1>11, <3>1, <4>1
      <4>4. Reprocess(spectra[e].spr, reread[e].number)' = Reprocess(spr, number)'
        BY <4>3
      <4>5. QED BY <1>6, <4>1, <4>2, <4>3, <4>4 DEF PipeInv, ReadBackAgrees
    <3>2. CASE e = d
      BY <1>5, <1>6, <3>2 DEF PipeInv, ReadBackAgrees
    <3>3. QED BY <3>1, <3>2
  <2>6. QED BY <2>1, <2>2, <2>3, <2>4, <2>5
<1>13. QED BY <1>9, <1>10, <1>12 DEF PipeInv

\* A saved scan is read back.
LEMMA ReadBackKeeps ==
  ASSUME PipeInv, NEW d \in Diggers, ReadBackScan(d)
  PROVE  PipeInv'
<1>1. PICK n \in Arriving[d] :
        /\ DOMAIN spectra[d].cal = 1..Lengths[d]
        /\ reread' = [reread EXCEPT ![d] =
                         [number |-> n, products |-> Reprocess(spectra[d].spr, n)]]
  BY DEF ReadBackScan
<1>2. /\ configured' = configured /\ params' = params /\ exchanged' = exchanged
      /\ copied' = copied /\ assembled' = assembled
      /\ steps' = steps /\ cached' = cached /\ loadOf' = loadOf /\ spectra' = spectra
      /\ quality' = quality /\ disturbed' = disturbed
  BY DEF ReadBackScan, configVars, loadVars
<1>3. L' = L
  BY <1>2 DEF L
<1>4. PipeTypeOK' /\ StepsAreOwn'
  <2>1. reread' = [e \in Diggers |-> reread'[e]]
    BY <1>1 DEF PipeInv, PipeTypeOK
  <2>2. QED BY <1>2, <1>3, <2>1 DEF PipeInv, PipeTypeOK, StepsAreOwn
<1>5. ASSUME NEW e \in Diggers
      PROVE  /\ MadeAlone(e)' /\ LoadRecorded(e)' /\ QualityRecorded(e)'
             /\ ProductsAgree(spectra[e])'
  <2>1. MadeAlone(e)' /\ LoadRecorded(e)'
    BY <1>2, <1>3 DEF PipeInv, MadeAlone, Making, LoadRecorded
  <2>2. QualityRecorded(e)'
    BY <1>2 DEF PipeInv, QualityRecorded, Measured
  <2>3. ProductsAgree(spectra[e])'
    BY <1>2 DEF PipeInv, ProductsAgree
  <2>4. QED BY <2>1, <2>2, <2>3
<1>6. ASSUME NEW e \in Diggers PROVE ReadBackAgrees(e)'
  <2>1. PICK spr, number : spr = spectra[e].spr /\ number = reread'[e].number
    OBVIOUS
  <2>2. Reprocess(spr, number)' = Reprocess(spr, number)
    BY <1>2, SameReprocess
  <2>3. spectra'[e].spr = spr
    BY <1>2, <2>1
  <2>4. Reprocess(spectra[e].spr, reread[e].number)' = Reprocess(spr, number)'
    BY <2>1, <2>3
  <2>5. CASE e = d
    <3>1. reread'[d] = [number |-> n, products |-> Reprocess(spectra[d].spr, n)]
      BY <1>1 DEF PipeInv, PipeTypeOK
    <3>2. number = n /\ reread'[d].products = Reprocess(spr, number)
      BY <2>1, <2>5, <3>1
    <3>3. QED BY <1>1, <1>2, <2>2, <2>4, <2>5, <3>2 DEF ReadBackAgrees
  <2>6. CASE e # d
    <3>1. reread'[e] = reread[e]
      BY <1>1, <2>6 DEF PipeInv, PipeTypeOK
    <3>2. QED BY <1>2, <2>1, <2>2, <2>4, <3>1 DEF PipeInv, ReadBackAgrees
  <2>7. QED BY <2>5, <2>6
<1>7. QED BY <1>4, <1>5, <1>6 DEF PipeInv

\* The invariant of the pipelines holds for every list of steps.
THEOREM PipelineInvariant == PipelineSpec => []PipeInv
<1>1. PipeInv /\ [PipelineNext]_pipelineVars => PipeInv'
  <2>1. SUFFICES ASSUME PipeInv, [PipelineNext]_pipelineVars PROVE PipeInv'
    OBVIOUS
  <2>2. CASE PipelineNext
    BY <2>1, <2>2, AssignKeeps, InstantiateKeeps, ArrivalKeeps, ReadBackKeeps, LoadKeepsApart,
       ReportKeeps DEF PipelineNext
  <2>3. CASE UNCHANGED pipelineVars
    <3>1. /\ configured' = configured /\ params' = params /\ exchanged' = exchanged
          /\ copied' = copied /\ assembled' = assembled
          /\ steps' = steps /\ cached' = cached /\ loadOf' = loadOf /\ spectra' = spectra
          /\ quality' = quality /\ reread' = reread /\ disturbed' = disturbed
      BY <2>3 DEF pipelineVars, configVars, loadVars, productVars
    <3>2. L' = L
      BY <3>1 DEF L
    <3>3. PipeTypeOK' /\ StepsAreOwn'
      BY <2>1, <3>1, <3>2 DEF PipeInv, PipeTypeOK, StepsAreOwn
    <3>4. ASSUME NEW e \in Diggers PROVE MadeAlone(e)' /\ LoadRecorded(e)'
      BY <2>1, <3>1, <3>2 DEF PipeInv, MadeAlone, Making, LoadRecorded
    <3>5. QED BY <2>1, <3>1, <3>3, <3>4, ProductsStay DEF PipeInv
  <2>4. QED BY <2>1, <2>2, <2>3
<1>2. QED BY <1>1, PipeInitially, PTL DEF PipelineSpec

\* A pipeline that was made without another hand in the configuration works on
\* its own scan whatever is begun later, and a scan that is read back and
\* calibrated by the same load has the products that were saved.
THEOREM PipelinesKeepApart == PipelineSpec => []ScansKeepApart
<1>1. PipeInv => ScansKeepApart
  <2>1. SUFFICES ASSUME PipeInv, NEW d \in Diggers \ disturbed
                 PROVE  /\ assembled[d] > 0 => cached[d].of \in {d, NoDigger}
                        /\ spectra[d] # Empty => /\ loadOf[d] = cached[d]
                                                 /\ quality[d] = Measured(spectra[d])
                        /\ (/\ reread[d] # Unread
                            /\ \A s \in DOMAIN spectra[d].cal :
                                 spectra[d].cal[s]
                                    = Process(spectra[d].spr[s], "cal", reread[d].number))
                           => /\ reread[d].products.cal = spectra[d].cal
                              /\ reread[d].products.mean = spectra[d].mean
                              /\ reread[d].products.flags = spectra[d].flags
    BY DEF ScansKeepApart
  <2>2. /\ LoadRecorded(d) /\ QualityRecorded(d) /\ ProductsAgree(spectra[d])
        /\ ReadBackAgrees(d)
    BY <2>1 DEF PipeInv
  <2>3. ASSUME reread[d] # Unread,
               \A s \in DOMAIN spectra[d].cal :
                   spectra[d].cal[s] = Process(spectra[d].spr[s], "cal", reread[d].number)
        PROVE  /\ reread[d].products.cal = spectra[d].cal
               /\ reread[d].products.mean = spectra[d].mean
               /\ reread[d].products.flags = spectra[d].flags
    <3>1. PICK spr, cal, number : /\ spr = spectra[d].spr /\ cal = spectra[d].cal
                                  /\ number = reread[d].number
      OBVIOUS
    <3>2. /\ cal = [s \in DOMAIN spr |-> cal[s]]
          /\ \A s \in DOMAIN spr : Clean(spr[s])
          /\ spectra[d] # Empty => /\ spectra[d].mean = Mean(cal)
                                  /\ spectra[d].flags = MeanFlags(cal)
      BY <2>2, <3>1 DEF ProductsAgree
    <3>3. PICK read : read = [s \in DOMAIN spr |-> [row |-> spr[s].row, flags |-> NoFlags]]
      OBVIOUS
    <3>4. ASSUME NEW s \in DOMAIN spr PROVE cal[s] = Process(read[s], "cal", number)
      <4>1. read[s] = spr[s]
        BY <3>2, <3>3 DEF Clean
      <4>2. s \in DOMAIN cal
        BY <3>2
      <4>3. cal[s] = Process(spr[s], "cal", number)
        BY <2>3, <3>1, <4>2
      <4>4. QED BY <4>1, <4>3
    <3>5. PICK again : again = [s \in DOMAIN spr |-> Process(read[s], "cal", number)]
      OBVIOUS
    <3>6. again = cal
      BY <3>2, <3>4, <3>5
    <3>7. PICK result : result = Reprocess(spr, number)
      OBVIOUS
    <3>8. result = [spr |-> read, cal |-> again, mean |-> Mean(again), flags |-> MeanFlags(again)]
      BY <3>3, <3>5, <3>7 DEF Reprocess, UpdateMpr
    <3>9. result.cal = cal /\ result.mean = Mean(cal) /\ result.flags = MeanFlags(cal)
      BY <3>6, <3>8
    <3>10. reread[d].products = result /\ DOMAIN cal = 1..Lengths[d]
      BY <2>2, <2>3, <3>1, <3>7 DEF ReadBackAgrees
    <3>11. spectra[d] # Empty
      <4>1. Lengths[d] \in Nat \ {0}
        BY PipelineAssumption
      <4>2. DOMAIN cal # {}
        BY <3>10, <4>1
      <4>3. Empty.cal = <<>> /\ DOMAIN Empty.cal = {}
        BY DEF Empty
      <4>4. QED BY <3>1, <4>2, <4>3
    <3>12. QED BY <3>1, <3>2, <3>9, <3>10, <3>11
  <2>4. QED BY <2>1, <2>2, <2>3 DEF LoadRecorded, QualityRecorded
<1>2. QED BY <1>1, PipelineInvariant, PTL
=============================================================================
