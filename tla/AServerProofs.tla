---------------------------- MODULE AServerProofs ----------------------------
(***************************************************************************)
(* The async server for any lengths, limits and capacities: a connection   *)
(* that it relays is two pipes; the packets of a UDP association leave in  *)
(* order; and target_to_source lets those answers in that were asked for.  *)
(***************************************************************************)
EXTENDS MCAServer, SequenceTheorems, TLAPS

-----------------------------------------------------------------------------
(* Streams of numbers *)

\* s is a + 1, a + 2, ...
Run(s, a) == \A i \in 1 .. Len(s) : s[i] = a + i

\* The same, where the X-Forwarded-For line may stand in its place.
HasFwd(s) == Len(s) >= HttpLen /\ s[HttpLen] = Forwarded
Size(s) == IF HasFwd(s) THEN Len(s) - 1 ELSE Len(s)
Stream(s, a) ==
    \A i \in 1 .. Len(s) :
        s[i] = IF HasFwd(s) /\ i = HttpLen THEN Forwarded
               ELSE IF HasFwd(s) /\ i > HttpLen THEN a + i - 1 ELSE a + i

\* A run in two pieces, and two runs in one.
LEMMA RunSplit ==
    ASSUME NEW s \in Seq(Nat), NEW a \in Nat, Run(s, a), NEW n \in 0 .. Len(s)
    PROVE  /\ SubSeq(s, 1, n) \in Seq(Nat) /\ Len(SubSeq(s, 1, n)) = n /\ Run(SubSeq(s, 1, n), a)
           /\ SubSeq(s, n + 1, Len(s)) \in Seq(Nat) /\ Len(SubSeq(s, n + 1, Len(s))) = Len(s) - n
           /\ Run(SubSeq(s, n + 1, Len(s)), a + n)
<1>0. Len(s) \in Nat /\ \A i \in 1 .. Len(s) : s[i] \in Nat
  OBVIOUS
<1>1. /\ SubSeq(s, 1, n) \in Seq(Nat) /\ Len(SubSeq(s, 1, n)) = n
      /\ \A i \in 1 .. n : SubSeq(s, 1, n)[i] = s[i]
  BY <1>0, SubSeqProperties
<1>2. /\ SubSeq(s, n + 1, Len(s)) \in Seq(Nat) /\ Len(SubSeq(s, n + 1, Len(s))) = Len(s) - n
      /\ \A i \in 1 .. Len(s) - n : SubSeq(s, n + 1, Len(s))[i] = s[n + i]
  BY <1>0, SubSeqProperties
<1>3. Run(SubSeq(s, 1, n), a)
  BY <1>0, <1>1 DEF Run
<1>4. Run(SubSeq(s, n + 1, Len(s)), a + n)
  BY <1>0, <1>2 DEF Run
<1> QED BY <1>1, <1>2, <1>3, <1>4

LEMMA RunConcat ==
    ASSUME NEW s \in Seq(Nat), NEW t \in Seq(Nat), NEW a \in Nat, Run(s, a), Run(t, a + Len(s))
    PROVE  s \o t \in Seq(Nat) /\ Len(s \o t) = Len(s) + Len(t) /\ Run(s \o t, a)
<1>1. /\ s \o t \in Seq(Nat) /\ Len(s \o t) = Len(s) + Len(t) /\ Len(s) \in Nat /\ Len(t) \in Nat
      /\ \A i \in 1 .. Len(s) + Len(t) : (s \o t)[i] = IF i <= Len(s) THEN s[i] ELSE t[i - Len(s)]
  BY ConcatProperties
<1>2. ASSUME NEW i \in 1 .. Len(s \o t) PROVE (s \o t)[i] = a + i
  <2>1. CASE i <= Len(s)
    BY <1>1, <2>1 DEF Run
  <2>2. CASE i > Len(s)
    <3>1. i - Len(s) \in 1 .. Len(t) /\ (s \o t)[i] = t[i - Len(s)]
      BY <1>1, <2>2
    <3>2. t[i - Len(s)] = a + Len(s) + (i - Len(s))
      BY <3>1 DEF Run
    <3> QED BY <1>1, <3>1, <3>2
  <2> QED BY <1>1, <2>1, <2>2
<1> QED BY <1>1, <1>2 DEF Run

\* A stream and the run after it.
LEMMA StreamConcat ==
    ASSUME NEW s \in Seq(Nat), NEW t \in Seq(Nat), NEW a \in Nat, Stream(s, a), Run(t, a + Size(s))
    PROVE  /\ s \o t \in Seq(Nat) /\ Stream(s \o t, a)
           /\ Size(s \o t) = Size(s) + Len(t) /\ (HasFwd(s \o t) <=> HasFwd(s))
<1>0. HttpLen \in Nat /\ HttpLen # 0
  BY ServerAssumption
<1>1. /\ s \o t \in Seq(Nat) /\ Len(s \o t) = Len(s) + Len(t) /\ Len(s) \in Nat /\ Len(t) \in Nat
      /\ \A i \in 1 .. Len(s) + Len(t) : (s \o t)[i] = IF i <= Len(s) THEN s[i] ELSE t[i - Len(s)]
  BY ConcatProperties
<1>2. ASSUME NEW i \in 1 .. Len(s) + Len(t), i > Len(s)
      PROVE  (s \o t)[i] = IF HasFwd(s) THEN a + i - 1 ELSE a + i
  <2>1. i - Len(s) \in 1 .. Len(t) /\ (s \o t)[i] = t[i - Len(s)]
    BY <1>1, <1>2
  <2>2. t[i - Len(s)] = a + Size(s) + (i - Len(s))
    BY <2>1 DEF Run
  <2> QED BY <1>1, <2>1, <2>2 DEF Size
<1>3. HasFwd(s \o t) <=> HasFwd(s)
  <2>1. CASE HttpLen <= Len(s)
    BY <1>0, <1>1, <2>1 DEF HasFwd
  <2>2. CASE HttpLen > Len(s)
    <3>1. ~HasFwd(s)
      BY <1>0, <1>1, <2>2 DEF HasFwd
    <3>2. CASE HttpLen <= Len(s) + Len(t)
      <4>1. (s \o t)[HttpLen] = a + HttpLen
        BY <1>0, <1>1, <1>2, <2>2, <3>1, <3>2
      <4> QED BY <1>0, <3>1, <4>1 DEF HasFwd, Forwarded
    <3>3. CASE HttpLen > Len(s) + Len(t)
      BY <1>0, <1>1, <3>1, <3>3 DEF HasFwd
    <3> QED BY <1>0, <1>1, <3>2, <3>3
  <2> QED BY <1>0, <1>1, <2>1, <2>2
<1>4. HasFwd(s) => HttpLen <= Len(s)
  BY DEF HasFwd
<1>5. Stream(s \o t, a)
  <2> SUFFICES ASSUME NEW i \in 1 .. Len(s \o t)
               PROVE  (s \o t)[i] = IF HasFwd(s) /\ i = HttpLen THEN Forwarded
                                    ELSE IF HasFwd(s) /\ i > HttpLen THEN a + i - 1 ELSE a + i
    BY <1>3 DEF Stream
  <2>1. CASE i <= Len(s)
    BY <1>1, <2>1 DEF Stream
  <2>2. CASE i > Len(s)
    BY <1>0, <1>1, <1>2, <1>4, <2>2
  <2> QED BY <1>1, <2>1, <2>2
<1> QED BY <1>1, <1>3, <1>5 DEF Size

\* The beginning of a stream.
LEMMA StreamPrefix ==
    ASSUME NEW s \in Seq(Nat), NEW a \in Nat, Stream(s, a), NEW n \in 0 .. Len(s)
    PROVE  /\ SubSeq(s, 1, n) \in Seq(Nat) /\ Stream(SubSeq(s, 1, n), a)
           /\ Size(SubSeq(s, 1, n)) <= Size(s) /\ (HasFwd(SubSeq(s, 1, n)) => HasFwd(s))
<1>0. HttpLen \in Nat /\ HttpLen # 0 /\ Len(s) \in Nat
  BY ServerAssumption
<1>1. /\ SubSeq(s, 1, n) \in Seq(Nat) /\ Len(SubSeq(s, 1, n)) = n
      /\ \A i \in 1 .. n : SubSeq(s, 1, n)[i] = s[i]
  BY <1>0, SubSeqProperties
<1>2. HasFwd(SubSeq(s, 1, n)) <=> HasFwd(s) /\ HttpLen <= n
  BY <1>0, <1>1 DEF HasFwd
<1>3. Stream(SubSeq(s, 1, n), a)
  BY <1>0, <1>1, <1>2 DEF Stream
<1>4. Size(SubSeq(s, 1, n)) <= Size(s)
  <2>1. HasFwd(s) => HttpLen <= Len(s)
    BY DEF HasFwd
  <2> QED BY <1>0, <1>1, <1>2, <2>1 DEF Size
<1> QED BY <1>1, <1>2, <1>3, <1>4

\* A stream without the line is a run, and sizes are natural numbers.
LEMMA StreamRun ==
    ASSUME NEW s \in Seq(Nat), NEW a \in Nat
    PROVE  Size(s) \in Nat /\ (~HasFwd(s) => Size(s) = Len(s) /\ (Stream(s, a) <=> Run(s, a)))
<1>0. HttpLen \in Nat /\ HttpLen # 0 /\ Len(s) \in Nat
  BY ServerAssumption
<1> QED BY <1>0 DEF Size, HasFwd, Stream, Run

\* Received of a stream: the numbers, without the line.
LEMMA StreamNumbers ==
    ASSUME NEW s \in Seq(Nat), NEW a \in Nat, Stream(s, a)
    PROVE  (IF HasFwd(s) THEN SubSeq(s, 1, HttpLen - 1) \o SubSeq(s, HttpLen + 1, Len(s)) ELSE s)
                = [i \in 1 .. Size(s) |-> a + i]
<1>0. HttpLen \in Nat /\ HttpLen # 0 /\ Len(s) \in Nat /\ \A i \in 1 .. Len(s) : s[i] \in Nat
  BY ServerAssumption
<1> DEFINE f == [i \in 1 .. Size(s) |-> a + i]
<1>1. Size(s) \in Nat /\ f \in [1 .. Size(s) -> Nat]
  BY StreamRun
<1>2. f \in Seq(Nat) /\ Len(f) = Size(s)
  <2>1. f \in Seq(Nat)
    BY <1>1, SeqDef
  <2>2. DOMAIN f = 1 .. Len(f) /\ Len(f) \in Nat
    BY <2>1, LenProperties
  <2>3. 1 .. Len(f) = 1 .. Size(s)
    BY <2>2
  <2> HIDE DEF f
  <2> QED BY <1>1, <2>1, <2>2, <2>3
<1>3. \A i \in 1 .. Size(s) : f[i] = a + i
  OBVIOUS
<1> HIDE DEF f
<1>4. CASE ~HasFwd(s)
  <2>1. \A i \in 1 .. Len(s) : s[i] = f[i]
    BY <1>3, <1>4 DEF Stream, Size
  <2> QED BY <1>2, <1>4, <2>1, SeqEqual DEF Size, f
<1>5. CASE HasFwd(s)
  <2> DEFINE x == SubSeq(s, 1, HttpLen - 1)
             y == SubSeq(s, HttpLen + 1, Len(s))
  <2>0. HttpLen <= Len(s) /\ Size(s) = Len(s) - 1
    BY <1>5 DEF HasFwd, Size
  <2>1. x \in Seq(Nat) /\ Len(x) = HttpLen - 1 /\ \A i \in 1 .. HttpLen - 1 : x[i] = s[i]
    BY <1>0, <2>0, SubSeqProperties
  <2>2. y \in Seq(Nat) /\ Len(y) = Len(s) - HttpLen /\ \A i \in 1 .. Len(s) - HttpLen : y[i] = s[HttpLen + i]
    BY <1>0, <2>0, SubSeqProperties
  <2> HIDE DEF x, y
  <2>3. /\ x \o y \in Seq(Nat) /\ Len(x \o y) = Len(s) - 1
        /\ \A i \in 1 .. Len(s) - 1 : (x \o y)[i] = IF i <= HttpLen - 1 THEN x[i] ELSE y[i - (HttpLen - 1)]
    <3>1. /\ x \o y \in Seq(Nat) /\ Len(x \o y) = Len(x) + Len(y)
          /\ \A i \in 1 .. Len(x) + Len(y) : (x \o y)[i] = IF i <= Len(x) THEN x[i] ELSE y[i - Len(x)]
      BY <2>1, <2>2, ConcatProperties
    <3>2. Len(x) + Len(y) = Len(s) - 1
      BY <1>0, <2>0, <2>1, <2>2
    <3> QED BY <2>1, <3>1, <3>2
  <2>4. ASSUME NEW i \in 1 .. Len(s) - 1 PROVE (x \o y)[i] = f[i]
    <3>0. i \in Nat /\ i >= 1 /\ i <= Len(s) - 1
      BY <1>0
    <3>1. CASE i <= HttpLen - 1
      <4>0. i \in 1 .. HttpLen - 1
        BY <1>0, <3>0, <3>1
      <4>1. i \in 1 .. Len(s) /\ (x \o y)[i] = s[i] /\ ~(i = HttpLen) /\ ~(i > HttpLen)
        BY SMTT(60), <1>0, <2>0, <2>1, <2>3, <3>0, <3>1, <4>0
      <4> QED BY <1>3, <2>0, <4>1 DEF Stream
    <3>2. CASE i > HttpLen - 1
      <4>1. i + 1 \in 1 .. Len(s) /\ i + 1 > HttpLen /\ i + 1 # HttpLen
        BY <1>0, <2>0, <3>2
      <4>2. (x \o y)[i] = s[i + 1]
        <5>1. i - (HttpLen - 1) \in 1 .. Len(s) - HttpLen /\ HttpLen + (i - (HttpLen - 1)) = i + 1
          BY <1>0, <2>0, <3>2
        <5>2. y[i - (HttpLen - 1)] = s[HttpLen + (i - (HttpLen - 1))]
          BY <2>2, <5>1
        <5> QED BY SMTT(60), <1>0, <2>3, <3>2, <5>1, <5>2
      <4>3. s[i + 1] = a + (i + 1) - 1
        BY <1>5, <4>1 DEF Stream
      <4> QED BY <1>0, <1>3, <2>0, <4>2, <4>3
    <3>3. i <= HttpLen - 1 \/ i > HttpLen - 1
      BY <1>0, <3>0
    <3> QED BY <3>1, <3>2, <3>3
  <2>5. x \o y = f
    BY <1>2, <2>0, <2>3, <2>4, SeqEqual
  <2> QED BY <1>5, <2>5 DEF x, y, f
<1> QED BY <1>4, <1>5

-----------------------------------------------------------------------------
(* The invariant of a connection *)

\* What stands before all that is on its way in a direction with the record r: what
\* has arrived, or, before the copy tasks, the buffer; and how many items were taken
\* off it.
FrontOf(d, r) == IF d = "up" /\ stage # "relay" THEN buf ELSE r.got
Base(d) == IF d = "up" /\ stage \notin {"accept", "head", "parse"} /\ HasHead THEN HeadLen ELSE 0

\* After the front f, from a on, no item of r is missing or out of place up to what the
\* writer has written.
Total(f, a, r) == a + Size(f) + Len(r.tls) + Len(r.hold) + Len(r.wire)
Chain(f, a, r) ==
    /\ Stream(f, a)
    /\ Run(r.tls, a + Size(f))
    /\ Run(r.hold, a + Size(f) + Len(r.tls))
    /\ Run(r.wire, a + Size(f) + Len(r.tls) + Len(r.hold))
    /\ Total(f, a, r) <= r.out /\ (r.fin # "reset" => Total(f, a, r) = r.out)

\* Only a request for back_addr has the line.
FwdOk(d, f) == HasFwd(f) => d = "up" /\ Back(kind) /\ stage \in {"connect", "first", "relay"}

\* How far the tasks are.
StageOk(r) ==
    /\ stage = "closed" => r.end # "open"
    /\ stage \notin {"relay", "closed"} =>
        r.task = "none" /\ r.end = "open" /\ r.got = <<>> /\ r.tls = <<>> /\ r.hold = <<>>
    /\ stage = "relay" =>
        /\ r.task # "none" /\ (r.task = "done" <=> r.end # "open")
        /\ r.task = "read" => r.hold = <<>>

DirOk(d, r) ==
    /\ r.out <= Limit(d) /\ StageOk(r)
    /\ r.end = "open" => Chain(FrontOf(d, r), Base(d), r) /\ FwdOk(d, FrontOf(d, r))

RInv ==
    /\ TypeOK /\ (stage = "http" => Back(kind))
    /\ \A d \in Dirs : DirOk(d, pipe[d])

\* The types of one direction.
LEMMA DirTypes ==
    ASSUME RInv, NEW d \in Dirs
    PROVE  /\ pipe \in [Dirs -> Direction] /\ pipe[d] \in Direction
           /\ pipe[d].out \in Nat /\ pipe[d].wire \in Seq(Nat) /\ pipe[d].hold \in Seq(Nat)
           /\ pipe[d].tls \in Seq(Nat) /\ pipe[d].got \in Seq(Nat)
           /\ Len(pipe[d].wire) \in Nat /\ Len(pipe[d].hold) \in Nat /\ Len(pipe[d].tls) \in Nat
           /\ buf \in Seq(Nat) /\ FrontOf(d, pipe[d]) \in Seq(Nat) /\ Base(d) \in Nat
           /\ Size(FrontOf(d, pipe[d])) \in Nat
<1>1. pipe \in [Dirs -> Direction] /\ pipe[d] \in Direction
  BY DEF RInv, TypeOK
<1>2. /\ pipe[d].out \in Nat /\ pipe[d].wire \in Seq(Nat) /\ pipe[d].hold \in Seq(Nat)
      /\ pipe[d].tls \in Seq(Nat) /\ pipe[d].got \in Seq(Nat)
  BY <1>1 DEF Direction
<1>3. buf \in Seq(Nat)
  BY ServerAssumption, SeqMonotonic DEF RInv, TypeOK
<1>4. FrontOf(d, pipe[d]) \in Seq(Nat) /\ Base(d) \in Nat
  BY <1>2, <1>3, ServerAssumption DEF FrontOf, Base
<1>5. Size(FrontOf(d, pipe[d])) \in Nat
  BY <1>4, StreamRun
<1> QED BY <1>1, <1>2, <1>3, <1>4, <1>5, LenProperties

LEMMA RInitInv == Init => RInv
<1> SUFFICES ASSUME Init PROVE RInv
  OBVIOUS
<1> DEFINE none == << >>
           r == [ out |-> 0, wire |-> none, fin |-> "open", task |-> "none", hold |-> none,
                  tls |-> none, got |-> none, end |-> "open", age |-> 0 ]
<1>0. none \in Seq(Nat) /\ none \in Seq(0 .. NUp) /\ Len(none) = 0 /\ none = << >>
  OBVIOUS
<1> HIDE DEF none
<1>1. /\ kind \in Kinds /\ stage = "accept" /\ buf = none /\ tries = 0 /\ pipe = [d \in Dirs |-> r]
  BY <1>0 DEF Init
<1>2. TypeOK
  BY <1>0, <1>1, ServerAssumption DEF TypeOK, Direction
<1>3. ~HasFwd(none)
  BY <1>0, ServerAssumption DEF HasFwd
<1>4. ASSUME NEW d \in Dirs PROVE DirOk(d, r)
  <2>1. r.out <= Limit(d) /\ StageOk(r)
    BY <1>0, <1>1, ServerAssumption DEF Limit, StageOk
  <2>2. FrontOf(d, r) = none /\ Base(d) = 0 /\ Total(none, 0, r) = 0 /\ Size(none) = 0
    BY <1>0, <1>1, <1>3 DEF FrontOf, Base, Total, Size
  <2>3. Chain(none, 0, r)
    BY <1>0, <1>3, <2>2 DEF Chain, Stream, Run
  <2> QED BY <1>3, <2>1, <2>2, <2>3 DEF DirOk, FwdOk
<1> QED BY <1>1, <1>2, <1>4 DEF RInv

\* Steps that leave the two directions alone: start_proxy goes on to another stage.
LEMMA StageStep ==
    ASSUME RInv, UNCHANGED <<kind, buf, tries, pipe>>,
           stage \notin {"relay", "closed"},
           stage' \in {"accept", "head", "parse", "lookup", "http", "check", "connect", "first", "udp", "ping"},
           Base("up")' = Base("up"),
           HasFwd(buf) => stage' \in {"connect", "first"}, stage' = "http" => Back(kind)
    PROVE  RInv'
<1>1. TypeOK'
  BY DEF RInv, TypeOK
<1>2. ASSUME NEW d \in Dirs PROVE DirOk(d, pipe[d])'
  <2>1. DirOk(d, pipe[d])
    BY DEF RInv
  <2>2. FrontOf(d, pipe[d])' = FrontOf(d, pipe[d]) /\ Base(d)' = Base(d)
    BY DEF FrontOf, Base, Dirs
  <2>3. pipe[d].end = "open" => FwdOk(d, FrontOf(d, pipe[d]))'
    BY <2>1, <2>2 DEF DirOk, FwdOk, FrontOf, HasFwd, Back, Dirs
  <2>4. StageOk(pipe[d])'
    BY <2>1 DEF DirOk, StageOk
  <2>5. Chain(FrontOf(d, pipe[d]), Base(d), pipe[d]) => Chain(FrontOf(d, pipe[d]), Base(d), pipe[d])'
    BY <2>2 DEF Chain, Total, Stream, Run, Size, HasFwd
  <2> QED BY <2>1, <2>2, <2>3, <2>4, <2>5 DEF DirOk, Limit
<1> QED BY <1>1, <1>2 DEF RInv, Back

\* The connections are dropped.
LEMMA DropStep ==
    ASSUME RInv, Drop
    PROVE  RInv'
<1>1. ASSUME NEW d \in Dirs
      PROVE  pipe'[d] \in Direction /\ pipe'[d].out = pipe[d].out /\ pipe'[d].end # "open"
  <2>1. pipe[d] \in Direction
    BY DEF RInv, TypeOK
  <2> QED BY <2>1 DEF Drop, Dropped, Direction
<1>2. TypeOK'
  <2>1. pipe' \in [Dirs -> Direction]
    BY <1>1 DEF Drop, Dropped
  <2> QED BY <2>1 DEF RInv, TypeOK, Drop
<1>3. ASSUME NEW d \in Dirs PROVE DirOk(d, pipe[d])'
  BY <1>1 DEF RInv, DirOk, StageOk, Limit, Drop
<1> QED BY <1>2, <1>3 DEF RInv, Drop

\* The numbers of a stream are at most where it ends.
LEMMA StreamBound ==
    ASSUME NEW s \in Seq(Nat), NEW a \in Nat, Stream(s, a), NEW m \in Nat, a + Size(s) <= m
    PROVE  s \in Seq(0 .. m)
<1>0. HttpLen \in Nat /\ HttpLen # 0 /\ Len(s) \in Nat /\ s \in [1 .. Len(s) -> Nat]
  BY ServerAssumption, LenProperties
<1>1. HasFwd(s) => HttpLen <= Len(s)
  BY DEF HasFwd
<1>2. \A i \in 1 .. Len(s) : s[i] \in 0 .. m
  <2> SUFFICES ASSUME NEW i \in 1 .. Len(s) PROVE s[i] \in 0 .. m
    OBVIOUS
  <2>1. CASE HasFwd(s)
    BY <1>0, <1>1, <2>1 DEF Stream, Size, Forwarded
  <2>2. CASE ~HasFwd(s)
    BY <1>0, <2>2 DEF Stream, Size
  <2> QED BY <2>1, <2>2
<1>3. s \in [1 .. Len(s) -> 0 .. m]
  BY <1>0, <1>2
<1> QED BY <1>0, <1>3, SeqDef

\* A step of one direction.
LEMMA DirStep ==
    ASSUME RInv, NEW d \in Dirs, NEW r \in Direction, pipe' = [pipe EXCEPT ![d] = r],
           UNCHANGED <<kind, stage, buf, tries>>, DirOk(d, r)
    PROVE  RInv'
<1>1. TypeOK'
  BY DEF RInv, TypeOK
<1>2. ASSUME NEW e \in Dirs PROVE DirOk(e, pipe[e])'
  <2> DEFINE x == IF e = d THEN r ELSE pipe[e]
  <2>1. pipe'[e] = x
    BY DEF RInv, TypeOK
  <2>2. DirOk(e, x)
    BY DEF RInv
  <2> HIDE DEF x
  <2>3. FrontOf(e, pipe[e])' = FrontOf(e, x) /\ Base(e)' = Base(e)
    BY <2>1 DEF FrontOf, Base, HasHead
  <2>4. Chain(FrontOf(e, pipe[e]), Base(e), pipe[e])' <=> Chain(FrontOf(e, pipe[e])', Base(e)', pipe'[e])
    BY DEF Chain, Total, Stream, Run, Size, HasFwd
  <2>5. FwdOk(e, FrontOf(e, pipe[e]))' <=> FwdOk(e, FrontOf(e, x))
    BY <2>3 DEF FwdOk, Back, HasFwd
  <2>6. StageOk(pipe[e])' <=> StageOk(x)
    BY <2>1 DEF StageOk
  <2> QED BY <2>1, <2>2, <2>3, <2>4, <2>5, <2>6 DEF DirOk, Limit
<1> QED BY <1>1, <1>2 DEF RInv, Back

\* A step of start_proxy before the copy tasks, from one stage to the next.
LEMMA PrepareStep ==
    ASSUME RInv, UNCHANGED kind, tries' \in 0 .. MaxTries, stage \notin {"relay", "closed"},
           stage' \in {"accept", "head", "parse", "lookup", "http", "check", "connect", "first", "udp", "ping"},
           NEW r \in Direction, pipe' = [pipe EXCEPT !["up"] = r],
           r.out = pipe["up"].out, r.task = "none", r.end = "open", r.got = << >>, r.tls = << >>, r.hold = << >>,
           NEW a \in Nat, Base("up")' = a, buf' \in Seq(Nat), Chain(buf', a, r), FwdOk("up", buf)',
           stage' = "http" => Back(kind)
    PROVE  RInv'
<1>0. "up" \in Dirs /\ "down" \in Dirs /\ pipe \in [Dirs -> Direction]
  BY DEF RInv, TypeOK, Dirs
<1>1. pipe'["up"] = r /\ pipe'["down"] = pipe["down"]
  BY <1>0
<1>2. r.out <= NUp /\ r.out \in Nat /\ NUp \in Nat
  <2>1. pipe["up"].out <= Limit("up")
    BY <1>0 DEF RInv, DirOk
  <2> QED BY <2>1, ServerAssumption DEF Limit, Direction
<1>3. buf' \in Seq(0 .. NUp)
  <2>1. Size(buf') \in Nat /\ Len(r.tls) = 0 /\ Len(r.hold) = 0 /\ Len(r.wire) \in Nat
    BY StreamRun, LenProperties DEF Direction
  <2>2. a + Size(buf') <= NUp
    BY <1>2, <2>1 DEF Chain, Total
  <2> QED BY <1>2, <2>2, StreamBound DEF Chain
<1>4. TypeOK'
  BY <1>0, <1>3 DEF RInv, TypeOK
<1>5. DirOk("up", pipe["up"])'
  <2>1. FrontOf("up", pipe["up"])' = buf'
    BY DEF FrontOf
  <2>2. Chain(FrontOf("up", pipe["up"]), Base("up"), pipe["up"])'
    <3>1. Chain(FrontOf("up", pipe["up"]), Base("up"), pipe["up"])' <=>
            Chain(FrontOf("up", pipe["up"])', Base("up")', pipe'["up"])
      BY DEF Chain, Total, Stream, Run, Size, HasFwd
    <3> QED BY <1>1, <2>1, <3>1
  <2>3. StageOk(pipe["up"])'
    BY <1>1 DEF StageOk
  <2> QED BY <1>1, <1>2, <2>1, <2>2, <2>3 DEF DirOk, Limit, FwdOk, HasFwd, Back
<1>6. DirOk("down", pipe["down"])'
  <2>1. DirOk("down", pipe["down"])
    BY <1>0 DEF RInv
  <2>2. StageOk(pipe["down"])'
    BY <1>1, <2>1 DEF DirOk, StageOk
  <2>3. FrontOf("down", pipe["down"])' = FrontOf("down", pipe["down"]) /\ Base("down")' = Base("down")
    BY <1>1 DEF FrontOf, Base
  <2>4. Chain(FrontOf("down", pipe["down"]), Base("down"), pipe["down"]) =>
            Chain(FrontOf("down", pipe["down"]), Base("down"), pipe["down"])'
    <3>1. Chain(FrontOf("down", pipe["down"]), Base("down"), pipe["down"])' <=>
            Chain(FrontOf("down", pipe["down"])', Base("down")', pipe'["down"])
      BY DEF Chain, Total, Stream, Run, Size, HasFwd
    <3> QED BY <1>1, <2>3, <3>1
  <2>5. FwdOk("down", FrontOf("down", pipe["down"])) => FwdOk("down", FrontOf("down", pipe["down"]))'
    BY <2>3 DEF FwdOk, HasFwd
  <2> QED BY <1>1, <2>1, <2>2, <2>4, <2>5 DEF DirOk, Limit
<1> QED BY <1>4, <1>5, <1>6 DEF RInv, Dirs, Back

\* The start of a connection: what the buffer holds and what follows it.
LEMMA UpBefore ==
    ASSUME RInv, stage \notin {"relay", "closed"}
    PROVE  /\ pipe["up"] \in Direction /\ pipe \in [Dirs -> Direction] /\ "up" \in Dirs
           /\ pipe["up"].task = "none" /\ pipe["up"].end = "open"
           /\ pipe["up"].got = << >> /\ pipe["up"].tls = << >> /\ pipe["up"].hold = << >>
           /\ Chain(buf, Base("up"), pipe["up"]) /\ FwdOk("up", buf)
           /\ buf \in Seq(Nat) /\ Base("up") \in Nat /\ Size(buf) \in Nat
           /\ pipe["up"].wire \in Seq(Nat) /\ pipe["up"].out \in Nat
<1>1. "up" \in Dirs /\ DirOk("up", pipe["up"])
  BY DEF RInv, Dirs
<1>2. FrontOf("up", pipe["up"]) = buf
  BY DEF FrontOf
<1> QED BY <1>1, <1>2, DirTypes DEF DirOk, StageOk

\* read_buf takes items from the wire to the end of the buffer.
LEMMA ReadIntoStep ==
    ASSUME RInv, ReadInto, UNCHANGED kind, tries' \in 0 .. MaxTries,
           (stage = "head" /\ stage' = "parse") \/ (stage = "http" /\ stage' = "http")
    PROVE  RInv'
<1> DEFINE u == pipe["up"]
           w == u.wire
           a == Base("up")
<1>0. /\ u \in Direction /\ pipe \in [Dirs -> Direction] /\ "up" \in Dirs /\ u.task = "none" /\ u.end = "open"
      /\ u.got = << >> /\ u.tls = << >> /\ u.hold = << >> /\ Chain(buf, a, u) /\ FwdOk("up", buf)
      /\ buf \in Seq(Nat) /\ a \in Nat /\ Size(buf) \in Nat /\ w \in Seq(Nat) /\ u.out \in Nat
  BY UpBefore
<1>1. PICK n \in 1 .. Len(w) :
        /\ buf' = buf \o SubSeq(w, 1, n)
        /\ pipe' = [pipe EXCEPT !["up"].wire = SubSeq(@, n + 1, Len(@))]
  BY DEF ReadInto
<1> DEFINE x == SubSeq(w, 1, n)
           y == SubSeq(w, n + 1, Len(w))
           r == [u EXCEPT !.wire = y]
<1>2. Len(w) \in Nat /\ n \in 0 .. Len(w)
  BY <1>0, <1>1
<1>3. Run(w, a + Size(buf)) /\ a + Size(buf) \in Nat
  BY <1>0 DEF Chain
<1>4. /\ x \in Seq(Nat) /\ Len(x) = n /\ Run(x, a + Size(buf))
      /\ y \in Seq(Nat) /\ Len(y) = Len(w) - n /\ Run(y, a + Size(buf) + n)
  BY <1>0, <1>2, <1>3, RunSplit
<1>5. pipe' = [pipe EXCEPT !["up"] = r] /\ buf' = buf \o x
  BY <1>0, <1>1
<1> HIDE DEF x, y
<1>6. /\ r \in Direction /\ r.out = u.out /\ r.task = "none" /\ r.end = "open" /\ r.got = << >>
      /\ r.tls = << >> /\ r.hold = << >> /\ r.wire = y /\ r.fin = u.fin
  BY <1>0, <1>4 DEF Direction
<1>7. buf' \in Seq(Nat) /\ Stream(buf', a) /\ Size(buf') = Size(buf) + n /\ (HasFwd(buf') <=> HasFwd(buf))
  BY <1>0, <1>4, <1>5, StreamConcat DEF Chain
<1>8. Base("up")' = a
  BY DEF Base, HasHead
<1> HIDE DEF r, a, u
<1>9. Chain(buf', a, r)
  <2>1. Total(buf', a, r) = Total(buf, a, u)
    <3>1. Len(u.tls) = 0 /\ Len(u.hold) = 0 /\ Len(r.tls) = 0 /\ Len(r.hold) = 0
      BY <1>0, <1>6
    <3>2. Len(r.wire) = Len(w) - n /\ Size(buf') = Size(buf) + n /\ n \in Int /\ Len(w) \in Int
      BY <1>2, <1>4, <1>6, <1>7
    <3>3. Size(buf) \in Int /\ a \in Int
      BY <1>0
    <3> QED BY <3>1, <3>2, <3>3 DEF Total
  <2>2. Run(r.tls, a + Size(buf')) /\ Run(r.hold, a + Size(buf') + Len(r.tls))
    BY <1>6 DEF Run
  <2>3. a + Size(buf') + Len(r.tls) + Len(r.hold) = a + Size(buf) + n
    BY <1>0, <1>2, <1>6, <1>7
  <2> QED BY <1>0, <1>4, <1>6, <1>7, <2>1, <2>2, <2>3 DEF Chain
<1>10. FwdOk("up", buf)'
  <2>1. ~HasFwd(buf)
    BY <1>0 DEF FwdOk
  <2> QED BY <1>7, <2>1 DEF FwdOk, HasFwd
<1>11. stage \notin {"relay", "closed"} /\ stage' \in {"parse", "http"} /\ (stage' = "http" => Back(kind))
  BY DEF RInv
<1> QED BY <1>0, <1>5, <1>6, <1>7, <1>8, <1>9, <1>10, <1>11, PrepareStep DEF u

\* TrojanRequest::parse: the head is taken off the buffer.
LEMMA ParseRequestStep ==
    ASSUME RInv, ParseRequest
    PROVE  RInv'
<1> DEFINE u == pipe["up"]
           b == SubSeq(buf, HeadLen + 1, Len(buf))
<1>0. /\ u \in Direction /\ pipe \in [Dirs -> Direction] /\ "up" \in Dirs /\ u.task = "none" /\ u.end = "open"
      /\ u.got = << >> /\ u.tls = << >> /\ u.hold = << >> /\ Chain(buf, Base("up"), u) /\ FwdOk("up", buf)
      /\ buf \in Seq(Nat) /\ Size(buf) \in Nat /\ u.wire \in Seq(Nat) /\ u.out \in Nat
  BY UpBefore DEF ParseRequest
<1>1. Base("up") = 0 /\ ~HasFwd(buf) /\ HeadLen \in Nat /\ Len(buf) \in Nat /\ HeadLen <= Len(buf)
  BY <1>0, ServerAssumption DEF ParseRequest, Base, FwdOk
<1>2. Run(buf, 0) /\ Size(buf) = Len(buf)
  BY <1>0, <1>1, StreamRun DEF Chain
<1>3. b \in Seq(Nat) /\ Len(b) = Len(buf) - HeadLen /\ Run(b, HeadLen)
  BY <1>0, <1>1, <1>2, RunSplit
<1>4. /\ buf' = b /\ UNCHANGED <<kind, tries, pipe>>
      /\ stage' \in {"udp", "ping", "lookup", "http", "check"} /\ kind # "pass"
      /\ stage' = "http" => Back(kind)
  BY DEF ParseRequest, Back
<1> HIDE DEF b
<1>5. ~HasFwd(b)
  <2>1. HttpLen \in Nat /\ HttpLen # 0
    BY ServerAssumption
  <2>2. HttpLen <= Len(b) => b[HttpLen] = HeadLen + HttpLen
    BY <1>1, <1>3, <2>1 DEF Run
  <2> QED BY <1>1, <1>3, <2>1, <2>2 DEF HasFwd, Forwarded
<1>6. Size(b) = Len(b) /\ Stream(b, HeadLen)
  BY <1>1, <1>3, <1>5, StreamRun
<1>7. Chain(b, HeadLen, u)
  <2>1. Len(u.tls) = 0 /\ Len(u.hold) = 0 /\ Len(u.wire) \in Nat
    BY <1>0
  <2>2. HeadLen + Size(b) = 0 + Size(buf)
    BY <1>1, <1>2, <1>3, <1>6
  <2> QED BY ZenonT(60), <1>0, <1>1, <1>6, <2>1, <2>2 DEF Chain, Total, Run
<1>8. Base("up")' = HeadLen
  BY <1>4 DEF Base, HasHead
<1>9. FwdOk("up", buf)'
  BY <1>4, <1>5 DEF FwdOk, HasFwd
<1>10. pipe' = [pipe EXCEPT !["up"] = u] /\ tries' \in 0 .. MaxTries /\ stage \notin {"relay", "closed"}
  BY <1>0, <1>4 DEF RInv, TypeOK, ParseRequest
<1> HIDE DEF u
<1> QED BY <1>0, <1>1, <1>3, <1>4, <1>7, <1>8, <1>9, <1>10, PrepareStep DEF u

\* X-Forwarded-For is put into the HTTP head.
LEMMA AddForwardedStep ==
    ASSUME RInv, AddForwarded
    PROVE  RInv'
<1> DEFINE u == pipe["up"]
           a == Base("up")
           x == SubSeq(buf, 1, HttpLen - 1)
           y == SubSeq(buf, HttpLen, Len(buf))
           o == <<Forwarded>>
           xo == x \o o
           b == xo \o y
<1>0. /\ u \in Direction /\ pipe \in [Dirs -> Direction] /\ "up" \in Dirs /\ u.task = "none" /\ u.end = "open"
      /\ u.got = << >> /\ u.tls = << >> /\ u.hold = << >> /\ Chain(buf, a, u) /\ FwdOk("up", buf)
      /\ buf \in Seq(Nat) /\ a \in Nat /\ Size(buf) \in Nat /\ u.wire \in Seq(Nat) /\ u.out \in Nat
  BY UpBefore DEF AddForwarded
<1>1. /\ ~HasFwd(buf) /\ HttpLen \in Nat /\ HttpLen # 0 /\ Len(buf) \in Nat /\ HttpLen <= Len(buf)
  BY <1>0, ServerAssumption DEF AddForwarded, HttpComplete, FwdOk
<1>2. Run(buf, a) /\ Size(buf) = Len(buf)
  BY <1>0, <1>1, StreamRun DEF Chain
<1>3. x \in Seq(Nat) /\ Len(x) = HttpLen - 1 /\ \A i \in 1 .. HttpLen - 1 : x[i] = a + i
  <2>1. x \in Seq(Nat) /\ Len(x) = HttpLen - 1 /\ \A i \in 1 .. HttpLen - 1 : x[i] = buf[i]
    BY SMTT(60), <1>0, <1>1, SubSeqProperties
  <2> QED BY <1>1, <1>2, <2>1 DEF Run
<1>4. /\ y \in Seq(Nat) /\ Len(y) = Len(buf) - HttpLen + 1
      /\ \A i \in 1 .. Len(buf) - HttpLen + 1 : y[i] = a + (HttpLen + i - 1)
  <2>0. HttpLen \in Int /\ Len(buf) \in Int /\ \A i \in HttpLen .. Len(buf) : buf[i] \in Nat
    BY <1>0, <1>1
  <2>1. /\ y \in Seq(Nat) /\ Len(y) = Len(buf) - HttpLen + 1
        /\ \A i \in 1 .. Len(buf) - HttpLen + 1 : y[i] = buf[HttpLen + i - 1]
    BY <1>1, <2>0, SubSeqProperties
  <2>2. \A i \in 1 .. Len(buf) - HttpLen + 1 : HttpLen + i - 1 \in 1 .. Len(buf)
    BY <1>1
  <2> QED BY <1>1, <1>2, <2>1, <2>2 DEF Run
<1>5. o \in Seq(Nat) /\ Len(o) = 1 /\ o[1] = Forwarded
  BY DEF Forwarded
<1> HIDE DEF x, y, o
<1>6. /\ xo \in Seq(Nat) /\ Len(xo) = HttpLen
      /\ xo[HttpLen] = Forwarded /\ \A i \in 1 .. HttpLen - 1 : xo[i] = a + i
  <2>1. /\ xo \in Seq(Nat) /\ Len(xo) = Len(x) + Len(o)
        /\ \A i \in 1 .. Len(x) + Len(o) : xo[i] = IF i <= Len(x) THEN x[i] ELSE o[i - Len(x)]
    BY <1>3, <1>5, ConcatProperties
  <2>2. Len(x) + Len(o) = HttpLen /\ HttpLen - Len(x) = 1 /\ ~(HttpLen <= Len(x)) /\ HttpLen \in 1 .. HttpLen
    BY <1>1, <1>3, <1>5
  <2>3. xo[HttpLen] = o[1]
    BY <2>1, <2>2
  <2>4. \A i \in 1 .. HttpLen - 1 : i \in 1 .. HttpLen /\ i <= Len(x)
    BY <1>1, <1>3
  <2> QED BY <1>3, <1>5, <2>1, <2>2, <2>3, <2>4
<1> HIDE DEF xo
<1>h. HttpLen \in 1 .. HttpLen
  BY <1>1
<1>7. /\ b \in Seq(Nat) /\ Len(b) = Len(buf) + 1 /\ \A i \in 1 .. HttpLen : b[i] = xo[i]
      /\ \A i \in HttpLen + 1 .. Len(buf) + 1 : b[i] = a + i - 1
  <2>1. /\ b \in Seq(Nat) /\ Len(b) = Len(xo) + Len(y)
        /\ \A i \in 1 .. Len(xo) + Len(y) : b[i] = IF i <= Len(xo) THEN xo[i] ELSE y[i - Len(xo)]
    BY <1>4, <1>6, ConcatProperties
  <2>2. Len(xo) + Len(y) = Len(buf) + 1
    BY <1>1, <1>4, <1>6
  <2>3. \A i \in 1 .. HttpLen : b[i] = xo[i]
    BY <1>1, <1>6, <2>1, <2>2
  <2>4. ASSUME NEW i \in HttpLen + 1 .. Len(buf) + 1 PROVE b[i] = a + i - 1
    <3>1. /\ i \in 1 .. Len(buf) + 1 /\ ~(i <= HttpLen) /\ i - HttpLen \in 1 .. Len(buf) - HttpLen + 1
          /\ a + (HttpLen + (i - HttpLen) - 1) = a + i - 1
      BY <1>0, <1>1
    <3>2. b[i] = y[i - HttpLen]
      BY <1>6, <2>1, <2>2, <3>1
    <3>3. y[i - HttpLen] = a + (HttpLen + (i - HttpLen) - 1)
      BY <1>4, <3>1
    <3> QED BY <3>1, <3>2, <3>3
  <2> QED BY <2>1, <2>2, <2>3, <2>4
<1>8. buf' = b /\ stage' = "connect" /\ stage = "http" /\ UNCHANGED <<kind, tries, pipe>>
  BY DEF AddForwarded, x, y, o, xo
<1> HIDE DEF b
<1>9. HasFwd(b) /\ Size(b) = Len(buf)
  <2>1. b[HttpLen] = Forwarded
    BY <1>6, <1>7, <1>h
  <2> QED BY <1>1, <1>7, <2>1 DEF HasFwd, Size
<1>10. Stream(b, a)
  <2> SUFFICES ASSUME NEW i \in 1 .. Len(b)
               PROVE  b[i] = IF i = HttpLen THEN Forwarded ELSE IF i > HttpLen THEN a + i - 1 ELSE a + i
    BY <1>9 DEF Stream
  <2>1. CASE i < HttpLen
    <3>1. i \in 1 .. HttpLen - 1 /\ i \in 1 .. HttpLen /\ i # HttpLen /\ ~(i > HttpLen)
      BY <1>1, <1>7, <2>1
    <3> QED BY <1>6, <1>7, <3>1
  <2>2. CASE i = HttpLen
    BY <1>6, <1>7, <1>h, <2>2
  <2>3. CASE i > HttpLen
    <3>1. i \in HttpLen + 1 .. Len(buf) + 1 /\ i # HttpLen
      BY <1>1, <1>7, <2>3
    <3> QED BY <1>7, <2>3, <3>1
  <2> QED BY <1>1, <1>7, <2>1, <2>2, <2>3
<1>11. Chain(b, a, u)
  <2>1. Size(b) = Size(buf) /\ Len(u.tls) = 0 /\ Len(u.hold) = 0
    BY <1>0, <1>2, <1>9
  <2> QED BY <1>0, <1>10, <2>1 DEF Chain, Total
<1>12. Base("up")' = a
  BY <1>8 DEF Base, HasHead
<1>13. FwdOk("up", buf)'
  <2>1. Back(kind)
    BY DEF AddForwarded, RInv
  <2> QED BY <1>8, <2>1 DEF FwdOk, Back
<1>14. pipe' = [pipe EXCEPT !["up"] = u] /\ tries' \in 0 .. MaxTries
  BY <1>0, <1>8 DEF RInv, TypeOK
<1> HIDE DEF u, a
<1> QED BY <1>0, <1>7, <1>8, <1>11, <1>12, <1>13, <1>14, PrepareStep DEF u

\* The buffer is written, and the copy tasks start; or it is not, and all is dropped.
LEMMA WriteFirstStep ==
    ASSUME RInv, WriteFirst
    PROVE  RInv'
<1> DEFINE none == << >>
           u == pipe["up"]
           v == pipe["down"]
           r == [u EXCEPT !.task = "read", !.got = buf]
           s == [v EXCEPT !.task = "read"]
<1>0. /\ u \in Direction /\ pipe \in [Dirs -> Direction] /\ u.task = "none" /\ u.end = "open"
      /\ u.got = << >> /\ u.tls = << >> /\ u.hold = << >> /\ Chain(buf, Base("up"), u) /\ FwdOk("up", buf)
      /\ buf \in Seq(Nat) /\ u.out <= NUp
  <2>1. u.out <= Limit("up")
    BY DEF RInv, DirOk, Dirs
  <2> QED BY <2>1, UpBefore DEF WriteFirst, Limit
<1>1. v \in Direction /\ DirOk("down", v)
  BY DEF RInv, TypeOK, Dirs
<1>2. /\ stage = "first" /\ stage' = "relay" /\ buf' = none /\ UNCHANGED <<kind, tries>>
      /\ pipe' = [d \in Dirs |-> [pipe[d] EXCEPT !.task = "read", !.got = IF d = "up" THEN buf ELSE @]]
  BY DEF WriteFirst
<1>3. /\ r \in Direction /\ r.out = u.out /\ r.task = "read" /\ r.end = "open" /\ r.got = buf
      /\ r.tls = u.tls /\ r.hold = u.hold /\ r.wire = u.wire /\ r.fin = u.fin
  BY <1>0 DEF Direction
<1>4. /\ s \in Direction /\ s.out = v.out /\ s.task = "read" /\ s.end = v.end /\ s.got = v.got
      /\ s.tls = v.tls /\ s.hold = v.hold /\ s.wire = v.wire /\ s.fin = v.fin
  BY <1>1 DEF Direction
<1>5. pipe'["up"] = r /\ pipe'["down"] = s /\ pipe' \in [Dirs -> Direction]
  <2>1. pipe'["up"] = r
    BY <1>2 DEF Dirs
  <2>2. pipe'["down"] = [v EXCEPT !.task = "read", !.got = v.got]
    BY <1>2 DEF Dirs
  <2>3. pipe'["down"] = s
    BY <1>1, <2>2 DEF Direction
  <2> QED BY <1>2, <1>3, <1>4, <2>1, <2>3 DEF Dirs
<1> HIDE DEF r, s, none
<1>6. TypeOK'
  <2>1. none \in Seq(0 .. NUp)
    BY DEF none
  <2> QED BY <1>2, <1>5, <2>1 DEF RInv, TypeOK
<1>7. DirOk("up", pipe["up"])'
  <2>1. FrontOf("up", pipe["up"])' = buf /\ Base("up")' = Base("up")
    BY <1>2, <1>3, <1>5 DEF FrontOf, Base, HasHead
  <2>2. Chain(buf, Base("up"), r)
    BY <1>0, <1>3 DEF Chain, Total
  <2>3. Chain(FrontOf("up", pipe["up"]), Base("up"), pipe["up"])' <=>
            Chain(FrontOf("up", pipe["up"])', Base("up")', pipe'["up"])
    BY DEF Chain, Total, Stream, Run, Size, HasFwd
  <2>4. FwdOk("up", FrontOf("up", pipe["up"]))'
    BY <1>0, <1>2, <2>1 DEF FwdOk, Back, HasFwd
  <2>5. StageOk(pipe["up"])'
    BY <1>0, <1>2, <1>3, <1>5 DEF StageOk
  <2> QED BY <1>0, <1>3, <1>5, <2>1, <2>2, <2>3, <2>4, <2>5 DEF DirOk, Limit
<1>8. DirOk("down", pipe["down"])'
  <2>0. v.end = "open" /\ v.hold = << >>
    BY <1>1, <1>2 DEF DirOk, StageOk
  <2>1. FrontOf("down", pipe["down"])' = v.got /\ FrontOf("down", v) = v.got /\ Base("down")' = Base("down")
    BY <1>4, <1>5 DEF FrontOf, Base
  <2>2. Chain(v.got, Base("down"), s)
    BY <1>1, <1>4, <2>0, <2>1 DEF DirOk, Chain, Total
  <2>3. Chain(FrontOf("down", pipe["down"]), Base("down"), pipe["down"])' <=>
            Chain(FrontOf("down", pipe["down"])', Base("down")', pipe'["down"])
    BY DEF Chain, Total, Stream, Run, Size, HasFwd
  <2>4. FwdOk("down", FrontOf("down", pipe["down"]))'
    BY <1>1, <2>0, <2>1 DEF DirOk, FwdOk, HasFwd
  <2>5. StageOk(pipe["down"])'
    BY <1>2, <1>4, <1>5, <2>0 DEF StageOk
  <2> QED BY <1>1, <1>4, <1>5, <2>1, <2>2, <2>3, <2>4, <2>5 DEF DirOk, Limit
<1> QED BY <1>2, <1>6, <1>7, <1>8 DEF RInv, Dirs

LEMMA WriteFirstFailsStep ==
    ASSUME RInv, WriteFirstFails
    PROVE  RInv'
<1>0. pipe \in [Dirs -> Direction] /\ buf \in Seq(Nat) /\ "up" \in Dirs
  BY DirTypes DEF Dirs
<1>1. PICK n \in 0 .. Len(buf) : pipe' = [Dropped EXCEPT !["up"].got = SubSeq(buf, 1, n)]
  BY DEF WriteFirstFails
<1>2. SubSeq(buf, 1, n) \in Seq(Nat)
  BY <1>0, SubSeqProperties
<1>3. Dropped \in [Dirs -> Direction] /\ \A d \in Dirs : Dropped[d].out = pipe[d].out /\ Dropped[d].end # "open"
  <2>1. ASSUME NEW d \in Dirs
        PROVE  Dropped[d] \in Direction /\ Dropped[d].out = pipe[d].out /\ Dropped[d].end # "open"
    <3>1. pipe[d] \in Direction
      BY <1>0
    <3> QED BY <3>1 DEF Dropped, Direction
  <2> QED BY <2>1 DEF Dropped
<1> DEFINE g == SubSeq(buf, 1, n)
           r == [Dropped["up"] EXCEPT !.got = g]
<1>4. pipe' = [Dropped EXCEPT !["up"] = r]
  BY <1>0, <1>1, <1>3
<1> HIDE DEF g
<1>5. r \in Direction /\ r.out = pipe["up"].out /\ r.end # "open"
  <2>1. Dropped["up"] \in Direction /\ g \in Seq(Nat)
    BY <1>0, <1>2, <1>3 DEF g
  <2> QED BY <1>0, <1>3, <2>1 DEF Direction
<1> HIDE DEF r
<1>6. /\ pipe' \in [Dirs -> Direction]
      /\ \A d \in Dirs : pipe'[d].out = pipe[d].out /\ pipe'[d].end # "open"
  BY <1>0, <1>3, <1>4, <1>5
<1>7. stage' = "closed" /\ UNCHANGED <<kind, buf, tries>>
  BY DEF WriteFirstFails
<1>8. TypeOK'
  BY <1>6, <1>7 DEF RInv, TypeOK
<1>9. ASSUME NEW d \in Dirs PROVE DirOk(d, pipe[d])'
  BY <1>6, <1>7 DEF RInv, DirOk, StageOk, Limit
<1> QED BY <1>7, <1>8, <1>9 DEF RInv

\* A copy task that goes on.
LEMMA RelayDir ==
    ASSUME RInv, NEW d \in Dirs, stage = "relay", pipe[d].task \in {"read", "write"}
    PROVE  /\ pipe[d].end = "open" /\ Chain(pipe[d].got, Base(d), pipe[d]) /\ FwdOk(d, pipe[d].got)
           /\ pipe[d].task = "read" => pipe[d].hold = << >>
           /\ pipe[d].out <= Limit(d)
BY DEF RInv, DirOk, StageOk, FrontOf

\* The steps of a copy task that end it.
LEMMA CopyEnds ==
    ASSUME RInv, NEW d \in Dirs, NEW r \in Direction, Copy(d, r), pipe[d].task \in {"read", "write"},
           r.out = pipe[d].out, r.task = "done", r.end # "open"
    PROVE  RInv'
<1>1. DirOk(d, r)
  BY RelayDir DEF DirOk, StageOk, Copy
<1> QED BY <1>1, DirStep DEF Copy

\* What shutdown leaves of a direction.
LEMMA ShutTypes ==
    ASSUME RInv, NEW d \in Dirs, NEW how \in {"eof", "cut"}
    PROVE  /\ Shut(d, how) \in Direction /\ Shut(d, how).out = pipe[d].out /\ Shut(d, how).fin = pipe[d].fin
           /\ Shut(d, how).task = "done" /\ Shut(d, how).end = how
           /\ Shut(d, how).got = IF pipe[Other(d)].fin = "reset" THEN pipe[d].got ELSE pipe[d].got \o pipe[d].tls
<1> DEFINE none == << >>
           g == IF pipe[Other(d)].fin = "reset" THEN pipe[d].got ELSE pipe[d].got \o pipe[d].tls
<1>1. g \in Seq(Nat) /\ none \in Seq(Nat) /\ pipe[d] \in Direction
  BY DirTypes, ConcatProperties
<1>2. Shut(d, how) = [pipe[d] EXCEPT !.task = "done", !.hold = none, !.end = how, !.tls = none, !.got = g]
  BY <1>1 DEF Shut, Direction
<1> HIDE DEF g, none
<1>3. /\ Shut(d, how) \in Direction /\ Shut(d, how).out = pipe[d].out /\ Shut(d, how).fin = pipe[d].fin
      /\ Shut(d, how).task = "done" /\ Shut(d, how).end = how /\ Shut(d, how).got = g
  BY <1>1, <1>2 DEF Direction
<1> QED BY <1>3 DEF g

LEMMA EndSteps ==
    ASSUME RInv, NEW d \in Dirs, WriteFails(d) \/ ReadEof(d) \/ ReadFails(d) \/ ReadTimeout(d)
    PROVE  RInv'
<1>1. CASE ReadEof(d)
  <2> DEFINE how == IF pipe[Other(d)].fin = "reset" THEN "cut" ELSE "eof"
  <2>1. how \in {"eof", "cut"}
    OBVIOUS
  <2>2. pipe[d].task = "read" /\ Copy(d, Shut(d, how))
    BY <1>1 DEF ReadEof
  <2> HIDE DEF how
  <2> QED BY <2>1, <2>2, ShutTypes, CopyEnds
<1>2. CASE ReadFails(d)
  BY <1>2, ShutTypes, CopyEnds DEF ReadFails
<1>3. CASE ReadTimeout(d)
  BY <1>3, ShutTypes, CopyEnds DEF ReadTimeout
<1>4. CASE WriteFails(d)
  <2>1. PICK n \in 0 .. Len(pipe[d].hold) :
          Copy(d, [Shut(d, "cut") EXCEPT !.got = @ \o SubSeq(pipe[d].hold, 1, n)])
    BY <1>4 DEF WriteFails
  <2> DEFINE z == Shut(d, "cut")
             x == SubSeq(pipe[d].hold, 1, n)
             g == z.got \o x
             r == [z EXCEPT !.got = g]
  <2>2. z \in Direction /\ z.out = pipe[d].out /\ z.task = "done" /\ z.end = "cut" /\ z.got \in Seq(Nat)
    <3>1. z \in Direction /\ z.out = pipe[d].out /\ z.task = "done" /\ z.end = "cut"
      BY ShutTypes
    <3> QED BY <3>1 DEF Direction
  <2>3. x \in Seq(Nat)
    BY DirTypes, SubSeqProperties
  <2> HIDE DEF x
  <2>4. g \in Seq(Nat)
    BY <2>2, <2>3, ConcatProperties
  <2>5. Copy(d, r) /\ pipe[d].task = "write"
    BY <1>4, <2>1 DEF WriteFails, x
  <2> HIDE DEF z, g
  <2>6. r \in Direction /\ r.out = pipe[d].out /\ r.task = "done" /\ r.end = "cut"
    BY <2>2, <2>4 DEF Direction
  <2> HIDE DEF r
  <2> QED BY <2>5, <2>6, CopyEnds
<1> QED BY <1>1, <1>2, <1>3, <1>4

\* A copy task reads.
LEMMA ReadStep ==
    ASSUME RInv, NEW d \in Dirs, Read(d)
    PROVE  RInv'
<1> DEFINE o == pipe[d]
           a == Base(d)
           k == a + Size(o.got) + Len(o.tls)
<1>1. PICK n \in 1 .. Len(o.wire) :
        /\ o.task = "read"
        /\ Copy(d, [o EXCEPT !.hold = SubSeq(o.wire, 1, n), !.wire = SubSeq(@, n + 1, Len(@)), !.task = "write", !.age = 0])
  BY DEF Read
<1>2. /\ stage = "relay" /\ o.end = "open" /\ Chain(o.got, a, o) /\ FwdOk(d, o.got) /\ o.hold = << >>
      /\ o.out <= Limit(d)
  BY <1>1, RelayDir DEF Copy
<1>3. /\ o \in Direction /\ o.out \in Nat /\ o.wire \in Seq(Nat) /\ Len(o.wire) \in Nat /\ Len(o.tls) \in Nat
      /\ a \in Nat /\ Size(o.got) \in Nat
  BY <1>2, DirTypes DEF FrontOf
<1> DEFINE x == SubSeq(o.wire, 1, n)
           y == SubSeq(o.wire, n + 1, Len(o.wire))
           r == [o EXCEPT !.hold = x, !.wire = y, !.task = "write", !.age = 0]
<1>4. n \in 0 .. Len(o.wire) /\ k \in Nat /\ Run(o.wire, k)
  <2>1. Len(o.hold) = 0
    BY <1>2
  <2>2. k + Len(o.hold) = k
    BY <1>3, <2>1
  <2> QED BY <1>2, <1>3, <2>2 DEF Chain
<1>5. /\ x \in Seq(Nat) /\ Len(x) = n /\ Run(x, k)
      /\ y \in Seq(Nat) /\ Len(y) = Len(o.wire) - n /\ Run(y, k + n)
  BY <1>3, <1>4, RunSplit
<1>6. Copy(d, r)
  BY <1>1
<1> HIDE DEF x, y
<1>7. /\ r \in Direction /\ r.out = o.out /\ r.task = "write" /\ r.end = o.end /\ r.got = o.got
      /\ r.tls = o.tls /\ r.hold = x /\ r.wire = y /\ r.fin = o.fin
  <2>1. 0 \in 0 .. IdleTicks
    BY ServerAssumption
  <2> QED BY <1>3, <1>5, <2>1 DEF Direction
<1> HIDE DEF r
<1>8. Chain(r.got, a, r)
  <2>1. Total(r.got, a, r) = Total(o.got, a, o)
    <3>1. Len(o.hold) = 0 /\ n \in Nat
      BY <1>2, <1>4
    <3> QED BY SMTT(60), <1>3, <1>5, <1>7, <3>1 DEF Total
  <2> QED BY <1>2, <1>5, <1>7, <2>1 DEF Chain
<1>9. DirOk(d, r)
  BY <1>2, <1>7, <1>8 DEF DirOk, StageOk, FrontOf
<1> QED BY <1>6, <1>7, <1>9, DirStep DEF Copy

\* A copy task writes: the session takes what is held, and a part of it is sent.
LEMMA WriteTypes ==
    ASSUME RInv, NEW d \in Dirs, Write(d)
    PROVE  \E r \in Direction :
            /\ Copy(d, r) /\ r.out = pipe[d].out /\ r.fin = pipe[d].fin /\ r.end = "open" /\ pipe[d].end = "open"
            /\ r.task = "read" /\ r.hold = << >> /\ Chain(r.got, Base(d), r) /\ FwdOk(d, r.got)
            /\ Size(pipe[d].got) <= Size(r.got)
<1> DEFINE o == pipe[d]
           a == Base(d)
           z == o.tls \o o.hold
           k == a + Size(o.got)
           none == << >>
<1>1. PICK n \in 0 .. Len(z) :
        Copy(d, [o EXCEPT !.task = "read", !.hold = none, !.got = @ \o SubSeq(z, 1, n), !.tls = SubSeq(z, n + 1, Len(z))])
  BY DEF Write
<1>2. /\ stage = "relay" /\ o.end = "open" /\ Chain(o.got, a, o) /\ FwdOk(d, o.got)
  BY <1>1, RelayDir DEF Copy, Write
<1>3. /\ o \in Direction /\ o.out \in Nat /\ o.wire \in Seq(Nat) /\ Len(o.wire) \in Nat /\ Len(o.tls) \in Nat
      /\ a \in Nat /\ Size(o.got) \in Nat /\ o.got \in Seq(Nat) /\ o.tls \in Seq(Nat) /\ o.hold \in Seq(Nat)
      /\ Len(o.hold) \in Nat /\ k \in Nat
  BY <1>2, DirTypes DEF FrontOf
<1>4. z \in Seq(Nat) /\ Len(z) = Len(o.tls) + Len(o.hold) /\ Run(z, k) /\ Len(z) \in Nat
  <2>1. Run(o.tls, k) /\ Run(o.hold, k + Len(o.tls))
    BY <1>2 DEF Chain
  <2> HIDE DEF k
  <2>2. z \in Seq(Nat) /\ Len(z) = Len(o.tls) + Len(o.hold) /\ Run(z, k)
    BY <1>3, <2>1, RunConcat
  <2> QED BY <2>2, LenProperties
<1> DEFINE x == SubSeq(z, 1, n)
           y == SubSeq(z, n + 1, Len(z))
           g == o.got \o x
           r == [o EXCEPT !.task = "read", !.hold = none, !.got = g, !.tls = y]
<1>5. Copy(d, r)
  BY <1>1, <1>3 DEF Direction
<1> HIDE DEF z
<1>6. /\ x \in Seq(Nat) /\ Len(x) = n /\ Run(x, k)
      /\ y \in Seq(Nat) /\ Len(y) = Len(z) - n /\ Run(y, k + n)
  BY <1>3, <1>4, RunSplit
<1> HIDE DEF x, y
<1>7. g \in Seq(Nat) /\ Stream(g, a) /\ Size(g) = Size(o.got) + n /\ (HasFwd(g) <=> HasFwd(o.got))
  BY <1>2, <1>3, <1>6, StreamConcat DEF Chain
<1>8. none \in Seq(Nat) /\ Len(none) = 0 /\ none = << >>
  OBVIOUS
<1> HIDE DEF g, none
<1>9. /\ r \in Direction /\ r.out = o.out /\ r.task = "read" /\ r.end = o.end /\ r.got = g
      /\ r.tls = y /\ r.hold = none /\ r.wire = o.wire /\ r.fin = o.fin
  BY <1>3, <1>6, <1>7, <1>8 DEF Direction
<1> HIDE DEF r
<1>n. n \in Nat
  BY <1>4
<1> HIDE DEF o, a
<1>10. a + Size(g) = k + n /\ a + Size(g) + Len(y) = k + Len(o.tls) + Len(o.hold)
  <2>1. a \in Int /\ Size(o.got) \in Int /\ n \in Int /\ Len(o.tls) \in Int /\ Len(o.hold) \in Int
    BY <1>3, <1>n
  <2>2. Size(g) = Size(o.got) + n /\ Len(y) = Len(o.tls) + Len(o.hold) - n
    BY <1>4, <1>6, <1>7
  <2>3. a + Size(g) = k + n
    BY <2>1, <2>2
  <2>4. k \in Int
    BY <1>3
  <2> HIDE DEF k
  <2>5. k + n + Len(y) = k + Len(o.tls) + Len(o.hold)
    <3> DEFINE ly == Len(y)
               lt == Len(o.tls)
               lh == Len(o.hold)
    <3>1. ly = lt + lh - n /\ lt \in Int /\ lh \in Int
      BY <2>1, <2>2
    <3> HIDE DEF ly, lt, lh
    <3>2. k + n + ly = k + lt + lh
      BY <2>1, <2>4, <3>1
    <3> QED BY <3>2 DEF ly, lt, lh
  <2> QED BY <2>3, <2>5
<1>11. Chain(g, a, r)
  <2>1. Total(g, a, r) = Total(o.got, a, o)
    <3>1. Len(r.tls) = Len(y) /\ Len(r.hold) = 0 /\ r.wire = o.wire /\ Len(y) \in Int /\ Len(o.wire) \in Int
      BY <1>3, <1>6, <1>8, <1>9
    <3>2. Len(o.tls) \in Int /\ Len(o.hold) \in Int /\ k \in Int /\ a \in Int /\ Size(g) \in Int
      BY <1>3, <1>7, <1>n
    <3> QED BY <1>10, <3>1, <3>2 DEF Total
  <2>2. Run(r.tls, a + Size(g))
    BY <1>6, <1>9, <1>10
  <2>3. Run(r.hold, a + Size(g) + Len(r.tls))
    BY <1>8, <1>9 DEF Run
  <2>4. a + Size(g) + Len(r.tls) + Len(r.hold) = k + Len(o.tls) + Len(o.hold)
    <3>1. Len(r.tls) = Len(y) /\ Len(r.hold) = 0 /\ Len(y) \in Int /\ a + Size(g) \in Int
      BY <1>3, <1>6, <1>7, <1>8, <1>9, <1>n
    <3> QED BY <1>10, <3>1
  <2>5. Run(r.wire, a + Size(g) + Len(r.tls) + Len(r.hold))
    BY <1>2, <1>9, <2>4 DEF Chain
  <2> QED BY <1>2, <1>7, <1>9, <2>1, <2>2, <2>3, <2>5 DEF Chain
<1>12. FwdOk(d, g)
  BY <1>2, <1>7 DEF FwdOk
<1>13. Size(o.got) <= Size(g)
  BY <1>3, <1>7, <1>n
<1> QED BY <1>2, <1>5, <1>8, <1>9, <1>11, <1>12, <1>13 DEF o, a

LEMMA WriteStep ==
    ASSUME RInv, NEW d \in Dirs, Write(d)
    PROVE  RInv'
<1>1. PICK r \in Direction :
            /\ Copy(d, r) /\ r.out = pipe[d].out /\ r.fin = pipe[d].fin /\ r.end = "open"
            /\ r.task = "read" /\ r.hold = << >> /\ Chain(r.got, Base(d), r) /\ FwdOk(d, r.got)
  BY WriteTypes
<1>2. pipe[d].out <= Limit(d)
  BY DEF RInv, DirOk
<1>3. DirOk(d, r)
  BY <1>1, <1>2 DEF DirOk, StageOk, FrontOf, Copy
<1> QED BY <1>1, <1>3, DirStep DEF Copy

\* The two sides write, close and reset.
LEMMA SideSteps ==
    ASSUME RInv, NEW d \in Dirs, Sends(d) \/ Closes(d) \/ Resets(d)
    PROVE  RInv'
<1> DEFINE o == pipe[d]
           a == Base(d)
           f == FrontOf(d, o)
           k == a + Size(f) + Len(o.tls) + Len(o.hold)
<1>0. /\ DirOk(d, o) /\ o \in Direction /\ o.out \in Nat /\ o.wire \in Seq(Nat) /\ Len(o.wire) \in Nat
      /\ a \in Nat /\ Size(f) \in Nat /\ Len(o.tls) \in Nat /\ Len(o.hold) \in Nat /\ k \in Nat
  BY DirTypes DEF RInv
<1>1. o.fin = "open"
  BY DEF Sends, Closes, Resets, Side
<1>2. ASSUME NEW r \in Direction, Side(d, r), r.out <= Limit(d), r.task = o.task, r.end = o.end, r.got = o.got,
             r.tls = o.tls, r.hold = o.hold, o.end = "open" => Chain(f, a, r)
      PROVE  RInv'
  <2>1. FrontOf(d, r) = f
    BY <1>2 DEF FrontOf
  <2>2. StageOk(r)
    BY <1>0, <1>2 DEF DirOk, StageOk
  <2>3. DirOk(d, r)
    BY <1>0, <1>2, <2>1, <2>2 DEF DirOk
  <2> QED BY <1>2, <2>3, DirStep DEF Side
<1>3. CASE Sends(d)
  <2> DEFINE w == Append(o.wire, o.out + 1)
             r == [o EXCEPT !.out = o.out + 1, !.wire = w]
  <2>1. /\ w \in Seq(Nat) /\ Len(w) = Len(o.wire) + 1 /\ w[Len(o.wire) + 1] = o.out + 1
        /\ \A i \in 1 .. Len(o.wire) : w[i] = o.wire[i]
    <3>1. o.out + 1 \in Nat
      BY <1>0
    <3> QED BY <1>0, <3>1, AppendProperties
  <2>2. Side(d, r) /\ o.out < Limit(d)
    BY <1>0, <1>3 DEF Sends, Direction
  <2> HIDE DEF w
  <2>o. o.out + 1 \in Nat
    BY <1>0
  <2>3. /\ r \in Direction /\ r.out = o.out + 1 /\ r.wire = w /\ r.task = o.task /\ r.end = o.end
        /\ r.got = o.got /\ r.tls = o.tls /\ r.hold = o.hold /\ r.fin = o.fin
    BY <1>0, <2>1, <2>o DEF Direction
  <2> HIDE DEF r
  <2>4. ASSUME o.end = "open" PROVE Chain(f, a, r)
    <3>1. Chain(f, a, o) /\ Total(f, a, o) = o.out
      BY <1>0, <1>1, <2>4 DEF DirOk, Chain
    <3>2. k + Len(o.wire) = o.out
      BY <3>1 DEF Total
    <3>3. Run(w, k)
      <4> SUFFICES ASSUME NEW i \in 1 .. Len(w) PROVE w[i] = k + i
        BY DEF Run
      <4>1. CASE i \in 1 .. Len(o.wire)
        BY <2>1, <3>1, <4>1 DEF Chain, Run
      <4>2. CASE i = Len(o.wire) + 1
        BY SMTT(60), <1>0, <2>1, <3>2, <4>2
      <4>3. i \in 1 .. Len(o.wire) \/ i = Len(o.wire) + 1
        BY <1>0, <2>1
      <4> QED BY <4>1, <4>2, <4>3
    <3>4. Total(f, a, r) = o.out + 1
      <4>1. Total(f, a, r) = k + Len(w)
        BY <2>3 DEF Total
      <4> HIDE DEF k
      <4> QED BY <1>0, <2>1, <3>2, <4>1
    <3> QED BY <1>0, <2>3, <3>1, <3>3, <3>4 DEF Chain
  <2>5. r.out <= Limit(d)
    <3>1. Limit(d) \in Nat
      BY ServerAssumption DEF Limit
    <3> QED BY <1>0, <2>2, <2>3, <3>1
  <2> QED BY <1>2, <2>2, <2>3, <2>4, <2>5
<1>4. CASE Closes(d)
  <2> DEFINE r == [o EXCEPT !.fin = "fin"]
  <2>1. /\ r \in Direction /\ r.out = o.out /\ r.wire = o.wire /\ r.task = o.task /\ r.end = o.end
        /\ r.got = o.got /\ r.tls = o.tls /\ r.hold = o.hold /\ r.fin = "fin"
    BY <1>0 DEF Direction
  <2>2. Side(d, r)
    BY <1>4 DEF Closes
  <2> HIDE DEF r
  <2>3. o.end = "open" => Chain(f, a, r)
    BY <1>0, <1>1, <2>1 DEF DirOk, Chain, Total
  <2>4. r.out <= Limit(d)
    BY <1>0, <2>1 DEF DirOk
  <2> QED BY <1>2, <2>1, <2>2, <2>3, <2>4
<1>5. CASE Resets(d)
  <2> DEFINE none == << >>
             r == [o EXCEPT !.fin = "reset", !.wire = none]
  <2>0. none \in Seq(Nat) /\ Len(none) = 0
    OBVIOUS
  <2>1. Side(d, r)
    BY <1>5 DEF Resets
  <2> HIDE DEF none
  <2>2. /\ r \in Direction /\ r.out = o.out /\ r.wire = none /\ r.task = o.task /\ r.end = o.end
        /\ r.got = o.got /\ r.tls = o.tls /\ r.hold = o.hold /\ r.fin = "reset"
    BY <1>0, <2>0 DEF Direction
  <2> HIDE DEF r
  <2>3. ASSUME o.end = "open" PROVE Chain(f, a, r)
    <3>1. Chain(f, a, o)
      BY <1>0, <2>3 DEF DirOk
    <3>2. Total(f, a, r) <= o.out
      <4>1. Total(f, a, r) = k + 0 /\ Total(f, a, o) = k + Len(o.wire) /\ Total(f, a, o) <= o.out
        BY <2>0, <2>2, <3>1 DEF Chain, Total
      <4> HIDE DEF k
      <4> QED BY <1>0, <4>1
    <3>3. Run(r.wire, k)
      BY <2>0, <2>2 DEF Run
    <3> QED BY <2>2, <3>1, <3>2, <3>3 DEF Chain
  <2>4. r.out <= Limit(d)
    BY <1>0, <2>2 DEF DirOk
  <2> QED BY <1>2, <2>1, <2>2, <2>3, <2>4
<1> QED BY <1>3, <1>4, <1>5

\* Time passes for the reads that wait.
LEMMA TickStep ==
    ASSUME RInv, Tick
    PROVE  RInv'
<1>0. pipe \in [Dirs -> Direction] /\ UNCHANGED <<kind, stage, buf, tries>>
  BY DEF RInv, TypeOK, Tick
<1>1. ASSUME NEW d \in Dirs
      PROVE  /\ pipe'[d] \in Direction /\ pipe'[d].out = pipe[d].out /\ pipe'[d].task = pipe[d].task
             /\ pipe'[d].end = pipe[d].end /\ pipe'[d].got = pipe[d].got /\ pipe'[d].tls = pipe[d].tls
             /\ pipe'[d].hold = pipe[d].hold /\ pipe'[d].wire = pipe[d].wire /\ pipe'[d].fin = pipe[d].fin
  <2>1. pipe[d] \in Direction /\ pipe[d].age \in 0 .. IdleTicks
    BY <1>0 DEF Direction
  <2>2. CASE Waits(d)
    <3> DEFINE x == pipe[d].age + 1
    <3>1. x \in 0 .. IdleTicks
      BY <2>1, <2>2, ServerAssumption DEF Tick, Waits
    <3>2. pipe'[d] = [pipe[d] EXCEPT !.age = x]
      BY <2>2 DEF Tick
    <3> HIDE DEF x
    <3> QED BY <2>1, <3>1, <3>2 DEF Direction
  <2>3. CASE ~Waits(d)
    BY <2>1, <2>3 DEF Tick
  <2> QED BY <2>2, <2>3
<1>2. TypeOK'
  <2>1. pipe' \in [Dirs -> Direction]
    BY <1>1 DEF Tick
  <2> QED BY <1>0, <2>1 DEF RInv, TypeOK
<1>3. ASSUME NEW d \in Dirs PROVE DirOk(d, pipe[d])'
  <2>1. DirOk(d, pipe[d])
    BY DEF RInv
  <2>2. FrontOf(d, pipe[d])' = FrontOf(d, pipe[d]) /\ Base(d)' = Base(d)
    BY <1>0, <1>1 DEF FrontOf, Base, HasHead
  <2>3. Chain(FrontOf(d, pipe[d]), Base(d), pipe[d])' <=> Chain(FrontOf(d, pipe[d])', Base(d)', pipe'[d])
    BY DEF Chain, Total, Stream, Run, Size, HasFwd
  <2>4. Chain(FrontOf(d, pipe[d]), Base(d), pipe[d]) => Chain(FrontOf(d, pipe[d]), Base(d), pipe'[d])
    BY <1>1 DEF Chain, Total
  <2>5. FwdOk(d, FrontOf(d, pipe[d]))' <=> FwdOk(d, FrontOf(d, pipe[d]))
    BY <1>0, <2>2 DEF FwdOk, Back, HasFwd
  <2>6. StageOk(pipe[d])'
    BY <1>0, <1>1, <2>1 DEF DirOk, StageOk
  <2> QED BY <1>1, <2>1, <2>2, <2>3, <2>4, <2>5, <2>6 DEF DirOk, Limit
<1> QED BY <1>0, <1>2, <1>3 DEF RInv, Back
\* Every step keeps the invariant.
LEMMA RNextInv == RInv /\ [Next]_vars => RInv'
<1> SUFFICES ASSUME RInv, [Next]_vars PROVE RInv'
  OBVIOUS
<1>f. stage \in {"accept", "head", "parse", "lookup", "http", "check"} => ~HasFwd(buf)
  <2>1. stage \notin {"relay", "closed"} => FwdOk("up", buf)
    BY UpBefore
  <2> QED BY <2>1 DEF FwdOk
<1>1. CASE Accept
  BY <1>1, <1>f, StageStep DEF Accept, Base, HasHead
<1>2. CASE AcceptFails \/ HeadFails \/ ParsePanics \/ ParseInvalid \/ LookupFails \/ HttpFails \/ CheckPrivate \/ ConnectFails
  BY <1>2, DropStep DEF AcceptFails, HeadFails, ParsePanics, ParseInvalid, LookupFails, HttpFails, CheckPrivate, ConnectFails
<1>3. CASE ReadHead
  BY <1>3, ReadIntoStep DEF ReadHead, RInv, TypeOK
<1>4. CASE ParseContinue
  BY <1>4, <1>f, StageStep DEF ParseContinue, Base, HasHead
<1>5. CASE ParsePass
  BY <1>5, <1>f, StageStep DEF ParsePass, Base, HasHead, Back
<1>6. CASE ParseRequest
  BY <1>6, ParseRequestStep
<1>7. CASE Lookup
  BY <1>7, <1>f, StageStep DEF Lookup, Base, HasHead
<1>8. CASE AddForwarded
  BY <1>8, AddForwardedStep
<1>9. CASE ReadHttp
  <2>1. tries' \in 0 .. MaxTries
    BY <1>9, ServerAssumption DEF ReadHttp, RInv, TypeOK
  <2> QED BY <1>9, <2>1, ReadIntoStep DEF ReadHttp
<1>10. CASE HttpGivenUp
  BY <1>10, <1>f, StageStep DEF HttpGivenUp, Base, HasHead
<1>11. CASE CheckPublic
  BY <1>11, <1>f, StageStep DEF CheckPublic, Base, HasHead
<1>12. CASE Connect
  BY <1>12, StageStep DEF Connect, Base, HasHead
<1>13. CASE WriteFirst
  BY <1>13, WriteFirstStep
<1>14. CASE WriteFirstFails
  BY <1>14, WriteFirstFailsStep
<1>15. ASSUME NEW d \in Dirs, CopyStep(d) \/ Sends(d) \/ Closes(d) \/ Resets(d) PROVE RInv'
  BY <1>15, ReadStep, WriteStep, EndSteps, SideSteps DEF CopyStep
<1>16. CASE Tick
  BY <1>16, TickStep
<1>17. CASE UNCHANGED vars
  <2>1. UNCHANGED <<kind, stage, buf, tries, pipe>>
    BY <1>17 DEF vars
  <2>2. ASSUME NEW d \in Dirs PROVE DirOk(d, pipe[d])'
    <3>1. DirOk(d, pipe[d])
      BY DEF RInv
    <3>2. DirOk(d, pipe[d])' <=> DirOk(d, pipe[d])
      BY <2>1 DEF DirOk, FrontOf, Base, HasHead, StageOk, FwdOk, Back, Limit, Chain, Total, Stream, Run, Size, HasFwd
    <3> QED BY <3>1, <3>2
  <2> QED BY <2>1, <2>2 DEF RInv, TypeOK, Back
<1> QED BY <1>1, <1>2, <1>3, <1>4, <1>5, <1>6, <1>7, <1>8, <1>9, <1>10, <1>11, <1>12, <1>13, <1>14, <1>15,
           <1>16, <1>17 DEF Next, Prepare

-----------------------------------------------------------------------------
(* A connection implements two pipes *)

\* n items from a + 1 on, where a direction's payload begins, and its length.
Numbers(a, n) == [i \in 1 .. n |-> a + i]
Offset(d) == IF d = "up" /\ HasHead THEN HeadLen ELSE 0
Excess(a, o) == IF o <= a THEN 0 ELSE o - a

LEMMA NumbersSeq ==
    ASSUME NEW a \in Nat, NEW n \in Nat
    PROVE  /\ Numbers(a, n) \in Seq(Nat) /\ Len(Numbers(a, n)) = n
           /\ \A i \in 1 .. n : Numbers(a, n)[i] = a + i
<1>1. Numbers(a, n) \in [1 .. n -> Nat]
  BY DEF Numbers
<1>2. Numbers(a, n) \in Seq(Nat)
  BY <1>1, SeqDef
<1>3. DOMAIN Numbers(a, n) = 1 .. Len(Numbers(a, n)) /\ Len(Numbers(a, n)) \in Nat
  BY <1>2, LenProperties
<1>4. 1 .. Len(Numbers(a, n)) = 1 .. n
  BY <1>1, <1>3
<1>5. Len(Numbers(a, n)) = n
  <2> DEFINE l == Len(Numbers(a, n))
  <2>1. l \in Nat /\ 1 .. l = 1 .. n
    BY <1>3, <1>4
  <2> HIDE DEF l
  <2>2. l = n
    BY <2>1
  <2> QED BY <2>2 DEF l
<1> QED BY <1>2, <1>5 DEF Numbers

\* The beginning of such a sequence, and one item more.
LEMMA NumbersPrefix ==
    ASSUME NEW a \in Nat, NEW n \in Nat, NEW m \in 0 .. n
    PROVE  SubSeq(Numbers(a, n), 1, m) = Numbers(a, m)
<1> DEFINE s == Numbers(a, n)
           t == SubSeq(s, 1, m)
<1>1. s \in Seq(Nat) /\ Len(s) = n /\ \A i \in 1 .. n : s[i] = a + i
  BY NumbersSeq
<1>2. Numbers(a, m) \in Seq(Nat) /\ Len(Numbers(a, m)) = m /\ \A i \in 1 .. m : Numbers(a, m)[i] = a + i
  BY NumbersSeq
<1>3. t \in Seq(Nat) /\ Len(t) = m /\ \A i \in 1 .. m : t[i] = s[i]
  <2>1. \A i \in 1 .. m : s[i] \in Nat
    BY <1>1
  <2> HIDE DEF s
  <2> QED BY SMTT(60), <1>1, <2>1, SubSeqProperties
<1> HIDE DEF s, t
<1>4. \A i \in 1 .. m : t[i] = Numbers(a, m)[i]
  BY <1>1, <1>2, <1>3
<1>5. t = Numbers(a, m)
  BY <1>2, <1>3, <1>4, SeqEqual
<1> QED BY <1>5 DEF s, t

LEMMA NumbersAppend ==
    ASSUME NEW a \in Nat, NEW n \in Nat
    PROVE  Numbers(a, n + 1) = Append(Numbers(a, n), a + n + 1)
<1> DEFINE s == Numbers(a, n)
           t == Append(s, a + n + 1)
           v == Numbers(a, n + 1)
<1>1. s \in Seq(Nat) /\ Len(s) = n /\ \A i \in 1 .. n : s[i] = a + i
  BY NumbersSeq
<1>2. n + 1 \in Nat /\ a + n + 1 \in Nat
  OBVIOUS
<1>3. v \in Seq(Nat) /\ Len(v) = n + 1 /\ \A i \in 1 .. n + 1 : v[i] = a + i
  BY <1>2, NumbersSeq
<1> HIDE DEF s, v
<1>4. t \in Seq(Nat) /\ Len(t) = n + 1 /\ t[n + 1] = a + n + 1 /\ \A i \in 1 .. n : t[i] = s[i]
  BY <1>1, <1>2, AppendProperties
<1> HIDE DEF t
<1>5. \A i \in 1 .. n + 1 : v[i] = t[i]
  <2> SUFFICES ASSUME NEW i \in 1 .. n + 1 PROVE v[i] = t[i]
    OBVIOUS
  <2>1. CASE i \in 1 .. n
    BY <1>1, <1>3, <1>4, <2>1
  <2>2. CASE i = n + 1
    <3>1. v[n + 1] = a + (n + 1)
      BY <1>3, <2>2
    <3> QED BY <1>4, <2>2, <3>1
  <2> QED BY <2>1, <2>2
<1>6. v = t
  BY <1>3, <1>4, <1>5, SeqEqual
<1> QED BY <1>6 DEF s, t, v

\* Payload of o items that were written, of which a are the head.
LEMMA PayloadNumbers ==
    ASSUME NEW a \in Nat, NEW o \in Nat
    PROVE  /\ Excess(a, o) \in Nat
           /\ SubSeq([n \in 1 .. o |-> n], a + 1, o) = Numbers(a, Excess(a, o))
           /\ [n \in 1 .. o |-> n] = Numbers(0, o) /\ Excess(0, o) = o
<1>1. [n \in 1 .. o |-> n] = Numbers(0, o) /\ Excess(0, o) = o /\ Excess(a, o) \in Nat
  BY DEF Numbers, Excess
<1> DEFINE s == Numbers(0, o)
           e == Excess(a, o)
           t == SubSeq(s, a + 1, o)
           v == Numbers(a, e)
<1>2. s \in Seq(Nat) /\ Len(s) = o /\ \A i \in 1 .. o : s[i] = 0 + i
  BY NumbersSeq
<1>3. e \in Nat
  BY <1>1
<1> HIDE DEF s
<1>4. v \in Seq(Nat) /\ Len(v) = e /\ \A i \in 1 .. e : v[i] = a + i
  BY <1>3, NumbersSeq
<1>5. t \in Seq(Nat) /\ Len(t) = e /\ \A i \in 1 .. e : t[i] = a + i
  <2>1. a + 1 \in Int /\ o \in Int /\ \A i \in a + 1 .. o : s[i] \in Nat /\ s[i] = i
    BY <1>2
  <2>2. /\ t \in Seq(Nat) /\ Len(t) = (IF a + 1 <= o THEN o - (a + 1) + 1 ELSE 0)
        /\ \A i \in 1 .. o - (a + 1) + 1 : t[i] = s[a + 1 + i - 1]
    BY <2>1, SubSeqProperties
  <2> HIDE DEF t
  <2>3. CASE o <= a
    BY <2>2, <2>3 DEF Excess
  <2>4. CASE o > a
    <3>1. e = o - a /\ Len(t) = e /\ o - (a + 1) + 1 = e
      BY <2>2, <2>4 DEF Excess
    <3>2. ASSUME NEW i \in 1 .. e PROVE t[i] = a + i
      <4>1. a + 1 + i - 1 \in a + 1 .. o /\ a + 1 + i - 1 = a + i
        BY <1>3, <3>1
      <4>2. t[i] = s[a + 1 + i - 1]
        BY <2>2, <3>1
      <4> QED BY <2>1, <4>1, <4>2
    <3> QED BY <2>2, <3>1, <3>2
  <2> QED BY <2>3, <2>4
<1> HIDE DEF t, v, e
<1>6. t = v
  BY <1>4, <1>5, SeqEqual
<1> QED BY <1>1, <1>6 DEF s, t, v, e

\* What a step of Pipe says of one direction.
PipeStep(d) ==
    \/ /\ Payload(d)' = Payload(d) /\ pipe'[d].fin = pipe[d].fin
       /\ Received(d)' = Received(d) /\ pipe'[d].end = pipe[d].end
    \/ /\ pipe[d].fin = "open" /\ \E i \in 1 .. Limit(d) : Payload(d)' = Append(Payload(d), i)
       /\ pipe'[d].fin = pipe[d].fin /\ Received(d)' = Received(d) /\ pipe'[d].end = pipe[d].end
    \/ /\ pipe'[d].fin # "open"
       /\ Payload(d)' = Payload(d) /\ Received(d)' = Received(d) /\ pipe'[d].end = pipe[d].end
    \/ /\ pipe[d].end = "open"
       /\ \E n \in Len(Received(d)) .. Len(Payload(d)) : Received(d)' = SubSeq(Payload(d), 1, n)
       /\ \/ pipe'[d].end = "open"
          \/ pipe'[d].end = "eof" /\ pipe[d].fin # "open" /\ Received(d)' = Payload(d)
          \/ pipe'[d].end = "cut"
       /\ Payload(d)' = Payload(d) /\ pipe'[d].fin = pipe[d].fin

LEMMA PipeSteps ==
    /\ PipeStep("up") => [Up!Next]_(Up!vars)
    /\ PipeStep("down") => [Down!Next]_(Down!vars)
BY DEF PipeStep, Limit, Up!Next, Up!Write, Up!Close, Up!Deliver, Up!vars,
       Down!Next, Down!Write, Down!Close, Down!Deliver, Down!vars

\* The reader of a direction may have g of the o items that were written.
GotOk(d, o, g) ==
    /\ Stream(g, Offset(d)) /\ (HasFwd(g) => d = "up" /\ Back(kind))
    /\ Size(g) <= Excess(Offset(d), o)

\* The refinement mapping, of a record r of the direction d and a request of kind k.
PayloadOf(k, d, r) ==
    IF d = "up" /\ k # "pass" THEN SubSeq([n \in 1 .. r.out |-> n], HeadLen + 1, r.out) ELSE [n \in 1 .. r.out |-> n]
ReceivedOf(k, d, r) ==
    IF Back(k) /\ d = "up" /\ Len(r.got) >= HttpLen /\ r.got[HttpLen] = Forwarded
    THEN SubSeq(r.got, 1, HttpLen - 1) \o SubSeq(r.got, HttpLen + 1, Len(r.got)) ELSE r.got

LEMMA MappedValues ==
    ASSUME NEW d \in Dirs, NEW r \in Direction, NEW k, NEW a \in Nat,
           a = (IF d = "up" /\ k # "pass" THEN HeadLen ELSE 0)
    PROVE  /\ PayloadOf(k, d, r) = Numbers(a, Excess(a, r.out))
           /\ Stream(r.got, a) /\ (HasFwd(r.got) => d = "up" /\ Back(k)) =>
                ReceivedOf(k, d, r) = Numbers(a, Size(r.got))
<1>1. r.out \in Nat /\ r.got \in Seq(Nat)
  BY DEF Direction
<1>2. /\ SubSeq([n \in 1 .. r.out |-> n], a + 1, r.out) = Numbers(a, Excess(a, r.out))
      /\ [n \in 1 .. r.out |-> n] = Numbers(0, r.out) /\ Excess(0, r.out) = r.out
  BY <1>1, PayloadNumbers
<1>3. ASSUME Stream(r.got, a), HasFwd(r.got) => d = "up" /\ Back(k)
      PROVE  ReceivedOf(k, d, r) = Numbers(a, Size(r.got))
  <2>1. (IF HasFwd(r.got) THEN SubSeq(r.got, 1, HttpLen - 1) \o SubSeq(r.got, HttpLen + 1, Len(r.got)) ELSE r.got)
            = Numbers(a, Size(r.got))
    BY <1>1, <1>3, StreamNumbers DEF Numbers
  <2>2. HasFwd(r.got) <=> Back(k) /\ d = "up" /\ Len(r.got) >= HttpLen /\ r.got[HttpLen] = Forwarded
    BY <1>3 DEF HasFwd
  <2> QED BY <2>1, <2>2 DEF ReceivedOf
<1>4. PayloadOf(k, d, r) = Numbers(a, Excess(a, r.out))
  <2>1. CASE d = "up" /\ k # "pass"
    BY <1>2, <2>1 DEF PayloadOf
  <2>2. CASE ~(d = "up" /\ k # "pass")
    BY <1>2, <2>2 DEF PayloadOf
  <2> QED BY <2>1, <2>2
<1> QED BY <1>3, <1>4

LEMMA MappedState ==
    ASSUME NEW d \in Dirs
    PROVE  /\ Payload(d) = PayloadOf(kind, d, pipe[d]) /\ Payload(d)' = PayloadOf(kind', d, pipe'[d])
           /\ Received(d) = ReceivedOf(kind, d, pipe[d]) /\ Received(d)' = ReceivedOf(kind', d, pipe'[d])
           /\ Offset(d) = (IF d = "up" /\ kind # "pass" THEN HeadLen ELSE 0)
           /\ Offset(d) \in Nat
<1>1. Payload(d) = PayloadOf(kind, d, pipe[d]) /\ Payload(d)' = PayloadOf(kind', d, pipe'[d])
  BY DEF Payload, Written, HasHead, PayloadOf
<1>2. Received(d) = ReceivedOf(kind, d, pipe[d]) /\ Received(d)' = ReceivedOf(kind', d, pipe'[d])
  BY DEF Received, ReceivedOf, Back
<1> QED BY <1>1, <1>2, ServerAssumption DEF Offset, HasHead

\* Steps that do not touch a direction's ends.
LEMMA SameStep ==
    ASSUME NEW d \in Dirs, kind' = kind, pipe'[d].out = pipe[d].out, pipe'[d].fin = pipe[d].fin,
           pipe'[d].got = pipe[d].got, pipe'[d].end = pipe[d].end
    PROVE  PipeStep(d)
BY DEF PipeStep, Payload, Received, Written, HasHead, Back

\* Steps that pass something on, or the end.
LEMMA DeliverStep ==
    ASSUME NEW d \in Dirs, NEW o \in Direction, NEW r \in Direction, pipe[d] = o, pipe'[d] = r,
           kind' = kind, r.out = o.out, r.fin = o.fin, o.end = "open",
           GotOk(d, o.out, o.got), GotOk(d, o.out, r.got), Size(o.got) <= Size(r.got),
           \/ r.end \in {"open", "cut"}
           \/ r.end = "eof" /\ o.fin # "open" /\ Offset(d) + Size(r.got) = o.out
    PROVE  PipeStep(d)
<1> DEFINE a == Offset(d)
           e == Excess(a, o.out)
           m == Size(o.got)
           n == Size(r.got)
<1>1. a \in Nat /\ o.out \in Nat /\ e \in Nat /\ m \in Nat /\ n \in Nat
  <2>1. a \in Nat /\ o.out \in Nat /\ o.got \in Seq(Nat) /\ r.got \in Seq(Nat)
    BY ServerAssumption DEF Offset, Direction
  <2> HIDE DEF a
  <2> QED BY <2>1, StreamRun, PayloadNumbers
<1>2. Payload(d) = Numbers(a, e) /\ Payload(d)' = Numbers(a, e)
  <2>1. Payload(d) = PayloadOf(kind, d, o) /\ Payload(d)' = PayloadOf(kind, d, r)
    BY MappedState
  <2>2. a = (IF d = "up" /\ kind # "pass" THEN HeadLen ELSE 0)
    BY MappedState
  <2> HIDE DEF a
  <2>3. PayloadOf(kind, d, o) = Numbers(a, e)
    BY <1>1, <2>2, MappedValues
  <2>4. PayloadOf(kind, d, r) = Numbers(a, Excess(a, r.out))
    BY <1>1, <2>2, MappedValues
  <2> QED BY <2>1, <2>3, <2>4
<1>3. Received(d) = Numbers(a, m) /\ Received(d)' = Numbers(a, n)
  BY MappedState, MappedValues DEF GotOk
<1>4. m <= n /\ n <= e
  BY DEF GotOk
<1>5. r.end = "eof" => o.fin # "open" /\ n = e
  BY <1>1 DEF Excess
<1> HIDE DEF a, e, m, n
<1>6. Len(Received(d)) = m /\ Len(Payload(d)) = e
  BY <1>1, <1>2, <1>3, NumbersSeq
<1>7. n \in 0 .. e /\ n \in m .. e
  BY <1>1, <1>4
<1>8. Received(d)' = SubSeq(Payload(d), 1, n)
  BY <1>1, <1>2, <1>3, <1>7, NumbersPrefix
<1>9. r.end = "eof" => Received(d)' = Payload(d)
  BY <1>2, <1>3, <1>5
<1> QED BY <1>2, <1>5, <1>6, <1>7, <1>8, <1>9 DEF PipeStep

\* What the reader has of a direction that is open.
LEMMA GotNow ==
    ASSUME RInv, NEW d \in Dirs, pipe[d].end = "open"
    PROVE  GotOk(d, pipe[d].out, pipe[d].got)
<1> DEFINE o == pipe[d]
           g == o.got
           a == Offset(d)
<1>0. /\ o.out \in Nat /\ g \in Seq(Nat) /\ Len(o.wire) \in Nat /\ Len(o.hold) \in Nat /\ Len(o.tls) \in Nat
      /\ a \in Nat /\ Size(g) \in Nat /\ DirOk(d, o)
  <2>1. a \in Nat
    BY ServerAssumption DEF Offset
  <2> HIDE DEF a
  <2> QED BY <2>1, DirTypes, StreamRun DEF RInv
<1>1. CASE stage = "relay"
  <2>1. Chain(g, a, o) /\ FwdOk(d, g)
    BY <1>0, <1>1 DEF DirOk, FrontOf, Base, Offset
  <2> HIDE DEF a
  <2>2. a + Size(g) <= o.out
    <3> DEFINE y == Size(g)
               t == Len(o.tls)
               h == Len(o.hold)
               w == Len(o.wire)
               q == o.out
    <3>1. t \in Nat /\ h \in Nat /\ w \in Nat /\ y \in Nat /\ q \in Nat /\ a + y + t + h + w <= q
      BY <1>0, <2>1 DEF Chain, Total
    <3> HIDE DEF y, t, h, w, q
    <3>2. a + y <= q
      BY <1>0, <3>1
    <3> QED BY <3>2 DEF y, q
  <2>3. Size(g) <= Excess(a, o.out)
    BY <1>0, <2>2 DEF Excess
  <2> QED BY <2>1, <2>3 DEF GotOk, Chain, FwdOk, a
<1>2. CASE stage # "relay"
  <2>1. g = << >>
    BY <1>0, <1>2 DEF DirOk, StageOk
  <2>2. ~HasFwd(g) /\ Size(g) = 0 /\ Stream(g, a)
    BY <2>1, ServerAssumption DEF HasFwd, Size, Stream
  <2>3. 0 <= Excess(a, o.out)
    BY <1>0 DEF Excess
  <2> QED BY <2>2, <2>3 DEF GotOk
<1> QED BY <1>1, <1>2

\* The connections are dropped before the copy tasks.
LEMMA DropPipes ==
    ASSUME RInv, Drop, stage \notin {"relay", "closed"}, NEW d \in Dirs
    PROVE  PipeStep(d)
<1> DEFINE o == pipe[d]
           r == [o EXCEPT !.task = "done", !.end = "cut"]
<1>1. o \in Direction /\ o.end = "open" /\ GotOk(d, o.out, o.got)
  BY DirTypes, GotNow DEF RInv, DirOk, StageOk
<1>2. pipe'[d] = r /\ kind' = kind
  BY <1>1 DEF Drop, Dropped, Direction
<1>3. r \in Direction /\ r.out = o.out /\ r.fin = o.fin /\ r.got = o.got /\ r.end = "cut"
  BY <1>1 DEF Direction
<1>4. Size(o.got) <= Size(o.got)
  BY <1>1, StreamRun DEF Direction
<1> HIDE DEF r
<1> QED BY <1>1, <1>2, <1>3, <1>4, DeliverStep

\* The buffer goes to the target, all of it or a part.
LEMMA FirstPipes ==
    ASSUME RInv, WriteFirst \/ WriteFirstFails, NEW d \in Dirs
    PROVE  PipeStep(d)
<1> DEFINE o == pipe[d]
<1>0. stage = "first" /\ kind' = kind
  BY DEF WriteFirst, WriteFirstFails
<1>1. o \in Direction /\ o.end = "open" /\ GotOk(d, o.out, o.got) /\ Size(o.got) \in Nat
  <2>1. o \in Direction /\ o.end = "open" /\ GotOk(d, o.out, o.got)
    BY <1>0, DirTypes, GotNow DEF RInv, DirOk, StageOk
  <2> QED BY <2>1, StreamRun DEF Direction
<1>2. CASE d = "down"
  <2>1. CASE WriteFirst
    <3>1. /\ pipe'[d].out = o.out /\ pipe'[d].fin = o.fin /\ pipe'[d].got = o.got /\ pipe'[d].end = o.end
      BY <1>1, <1>2, <2>1 DEF WriteFirst, Direction
    <3> QED BY <1>0, <3>1, SameStep
  <2>2. CASE WriteFirstFails
    <3> DEFINE r == [o EXCEPT !.task = "done", !.end = "cut"]
    <3>1. pipe'[d] = r
      BY <1>1, <1>2, <2>2 DEF WriteFirstFails, Dropped, Direction
    <3>2. r \in Direction /\ r.out = o.out /\ r.fin = o.fin /\ r.got = o.got /\ r.end = "cut"
      BY <1>1 DEF Direction
    <3> HIDE DEF r
    <3> QED BY <1>0, <1>1, <3>1, <3>2, DeliverStep
  <2> QED BY <2>1, <2>2
<1>3. CASE d = "up"
  <2>0. /\ Chain(buf, Base("up"), o) /\ FwdOk("up", buf) /\ buf \in Seq(Nat) /\ Size(buf) \in Nat
        /\ o.got = << >> /\ o.wire \in Seq(Nat) /\ o.out \in Nat /\ o.hold = << >> /\ o.tls = << >>
    BY <1>0, <1>3, UpBefore
  <2>1. Base("up") = Offset(d) /\ Offset(d) \in Nat
    BY <1>0, <1>3, ServerAssumption DEF Base, Offset
  <2>2. GotOk(d, o.out, buf)
    <3>1. Stream(buf, Offset(d)) /\ Offset(d) + Size(buf) <= o.out
      <4>1. Len(o.tls) = 0 /\ Len(o.hold) = 0 /\ Len(o.wire) \in Nat
        BY <2>0
      <4> QED BY <2>0, <2>1, <4>1 DEF Chain, Total
    <3>2. Size(buf) <= Excess(Offset(d), o.out)
      BY <2>0, <2>1, <3>1 DEF Excess
    <3> QED BY <1>3, <2>0, <3>1, <3>2 DEF GotOk, FwdOk
  <2>3. Size(o.got) = 0
    BY <2>0, ServerAssumption DEF Size, HasFwd
  <2>4. CASE WriteFirst
    <3> DEFINE r == [o EXCEPT !.task = "read", !.got = buf]
    <3>1. pipe'[d] = r
      BY <1>3, <2>4 DEF WriteFirst, Dirs
    <3>2. r \in Direction /\ r.out = o.out /\ r.fin = o.fin /\ r.got = buf /\ r.end = "open"
      BY <1>1, <2>0 DEF Direction
    <3>3. Size(o.got) <= Size(buf)
      BY <2>0, <2>3
    <3> HIDE DEF r
    <3> QED BY <1>0, <1>1, <2>2, <3>1, <3>2, <3>3, DeliverStep
  <2>5. CASE WriteFirstFails
    <3>1. PICK n \in 0 .. Len(buf) : pipe' = [Dropped EXCEPT !["up"].got = SubSeq(buf, 1, n)]
      BY <2>5 DEF WriteFirstFails
    <3> DEFINE g == SubSeq(buf, 1, n)
               r == [o EXCEPT !.task = "done", !.end = "cut", !.got = g]
    <3>2. /\ g \in Seq(Nat) /\ Stream(g, Offset(d)) /\ Size(g) <= Size(buf) /\ (HasFwd(g) => HasFwd(buf))
      BY <2>0, <2>1, <2>2, StreamPrefix DEF GotOk
    <3>3. pipe'[d] = r
      BY <1>1, <1>3, <3>1 DEF Dropped, Direction, Dirs
    <3> HIDE DEF g
    <3>4. Size(g) \in Nat
      BY <3>2, StreamRun
    <3>5. GotOk(d, o.out, g) /\ Size(o.got) <= Size(g)
      <4>1. Excess(Offset(d), o.out) \in Nat
        BY <2>0, <2>1, PayloadNumbers
      <4> QED BY <2>0, <2>2, <2>3, <3>2, <3>4, <4>1 DEF GotOk
    <3>6. r \in Direction /\ r.out = o.out /\ r.fin = o.fin /\ r.got = g /\ r.end = "cut"
      BY <1>1, <3>2 DEF Direction
    <3> HIDE DEF r
    <3> QED BY <1>0, <1>1, <3>3, <3>5, <3>6, DeliverStep
  <2> QED BY <2>4, <2>5
<1> QED BY <1>2, <1>3 DEF Dirs

\* A step of one direction is nothing to the other.
LEMMA OtherPipe ==
    ASSUME RInv, NEW d \in Dirs, NEW e \in Dirs, e # d, NEW r, pipe' = [pipe EXCEPT ![d] = r], kind' = kind
    PROVE  PipeStep(e)
<1>1. pipe'[e] = pipe[e]
  BY DEF RInv, TypeOK
<1> QED BY <1>1, SameStep

\* The two sides write, close and reset.
LEMMA SidePipes ==
    ASSUME RInv, NEW d \in Dirs, Sends(d) \/ Closes(d) \/ Resets(d)
    PROVE  PipeStep(d)
<1> DEFINE o == pipe[d]
           a == Offset(d)
<1>0. /\ o \in Direction /\ o.out \in Nat /\ pipe \in [Dirs -> Direction] /\ kind' = kind /\ o.fin = "open"
      /\ Limit(d) \in Nat
  BY DirTypes, ServerAssumption DEF Sends, Closes, Resets, Side, Limit
<1>1. ASSUME NEW r \in Direction, pipe'[d] = r, r.got = o.got, r.end = o.end
      PROVE  Received(d)' = Received(d) /\ (r.out = o.out => Payload(d)' = Payload(d))
  BY <1>0, <1>1 DEF Received, Payload, Written, HasHead, Back
<1>2. CASE Sends(d)
  <2> DEFINE w == Append(o.wire, o.out + 1)
             r == [o EXCEPT !.out = o.out + 1, !.wire = w]
  <2>1. w \in Seq(Nat) /\ o.out + 1 \in Nat
    BY <1>0, DirTypes, AppendProperties
  <2>2. pipe'[d] = r /\ o.out < Limit(d)
    BY <1>0, <1>2 DEF Sends, Side, Direction
  <2> HIDE DEF w
  <2>3. r \in Direction /\ r.out = o.out + 1 /\ r.got = o.got /\ r.end = o.end /\ r.fin = o.fin
    BY <1>0, <2>1 DEF Direction
  <2> HIDE DEF r
  <2>4. a \in Nat /\ Excess(a, o.out) \in Nat /\ a = (IF d = "up" /\ kind # "pass" THEN HeadLen ELSE 0)
    BY <1>0, MappedState, PayloadNumbers
  <2> HIDE DEF a
  <2>5. Payload(d) = Numbers(a, Excess(a, o.out)) /\ Payload(d)' = Numbers(a, Excess(a, o.out + 1))
    <3>1. Payload(d) = PayloadOf(kind, d, o) /\ Payload(d)' = PayloadOf(kind, d, r)
      BY <1>0, <2>2, MappedState
    <3>2. PayloadOf(kind, d, o) = Numbers(a, Excess(a, o.out))
      BY <1>0, <2>4, MappedValues
    <3>3. PayloadOf(kind, d, r) = Numbers(a, Excess(a, r.out))
      BY <2>3, <2>4, MappedValues
    <3> QED BY <2>3, <3>1, <3>2, <3>3
  <2>6. CASE o.out < a
    <3>1. Excess(a, o.out) = 0 /\ Excess(a, o.out + 1) = 0
      BY <1>0, <2>4, <2>6 DEF Excess
    <3> QED BY <1>1, <2>2, <2>3, <2>5, <3>1 DEF PipeStep
  <2>7. CASE a <= o.out
    <3> DEFINE x == Excess(a, o.out)
    <3>1. Excess(a, o.out + 1) = x + 1 /\ a + x + 1 = o.out + 1 /\ o.out + 1 \in 1 .. Limit(d) /\ x \in Nat
      BY <1>0, <2>2, <2>4, <2>7 DEF Excess
    <3> HIDE DEF x
    <3>2. Payload(d)' = Append(Payload(d), o.out + 1)
      <4>1. Payload(d) = Numbers(a, x)
        BY <2>5 DEF x
      <4>2. Numbers(a, x + 1) = Append(Numbers(a, x), a + x + 1)
        BY <2>4, <3>1, NumbersAppend
      <4> QED BY <2>5, <3>1, <4>1, <4>2
    <3> QED BY <1>0, <1>1, <2>2, <2>3, <3>1, <3>2 DEF PipeStep
  <2> QED BY <1>0, <2>4, <2>6, <2>7
<1>3. CASE Closes(d)
  <2> DEFINE r == [o EXCEPT !.fin = "fin"]
  <2>1. pipe'[d] = r
    BY <1>0, <1>3 DEF Closes, Side
  <2>2. r \in Direction /\ r.out = o.out /\ r.got = o.got /\ r.end = o.end /\ r.fin = "fin"
    BY <1>0 DEF Direction
  <2> HIDE DEF r
  <2> QED BY <1>1, <2>1, <2>2 DEF PipeStep
<1>4. CASE Resets(d)
  <2> DEFINE none == << >>
             r == [o EXCEPT !.fin = "reset", !.wire = none]
  <2>0. none \in Seq(Nat)
    OBVIOUS
  <2>1. pipe'[d] = r
    BY <1>0, <1>4 DEF Resets, Side
  <2> HIDE DEF none
  <2>2. r \in Direction /\ r.out = o.out /\ r.got = o.got /\ r.end = o.end /\ r.fin = "reset"
    BY <1>0, <2>0 DEF Direction
  <2> HIDE DEF r
  <2> QED BY <1>1, <2>1, <2>2 DEF PipeStep
<1> QED BY <1>2, <1>3, <1>4

\* A copy task reads, or writes and goes on.
LEMMA GoesOnPipes ==
    ASSUME RInv, NEW d \in Dirs, Read(d) \/ Write(d)
    PROVE  PipeStep(d)
<1> DEFINE o == pipe[d]
<1>0. o \in Direction /\ pipe \in [Dirs -> Direction]
  BY DirTypes
<1>1. CASE Read(d)
  <2>1. PICK n \in 1 .. Len(o.wire) :
        Copy(d, [o EXCEPT !.hold = SubSeq(o.wire, 1, n), !.wire = SubSeq(@, n + 1, Len(@)), !.task = "write", !.age = 0])
    BY <1>1 DEF Read
  <2>2. kind' = kind /\ pipe'[d].out = o.out /\ pipe'[d].fin = o.fin /\ pipe'[d].got = o.got /\ pipe'[d].end = o.end
    BY <1>0, <2>1 DEF Copy, Direction
  <2> QED BY <2>2, SameStep
<1>2. CASE Write(d)
  <2>1. PICK r \in Direction :
            /\ Copy(d, r) /\ r.out = o.out /\ r.fin = o.fin /\ r.end = "open" /\ o.end = "open"
            /\ r.task = "read" /\ r.hold = << >> /\ Chain(r.got, Base(d), r) /\ FwdOk(d, r.got)
            /\ Size(o.got) <= Size(r.got)
    BY <1>2, WriteTypes
  <2>2. kind' = kind /\ stage = "relay" /\ pipe'[d] = r /\ Base(d) = Offset(d)
    BY <1>0, <2>1 DEF Copy, Base, Offset
  <2>3. GotOk(d, o.out, r.got)
    <3>1. /\ Len(r.tls) \in Nat /\ Len(r.hold) \in Nat /\ Len(r.wire) \in Nat /\ Offset(d) \in Nat
          /\ Size(r.got) \in Nat /\ o.out \in Nat
      BY <1>0, MappedState, StreamRun, LenProperties DEF Direction
    <3>2. Offset(d) + Size(r.got) + Len(r.tls) + Len(r.hold) + Len(r.wire) <= o.out
      BY <2>1, <2>2 DEF Chain, Total
    <3> DEFINE x == Offset(d)
               y == Size(r.got)
               t == Len(r.tls)
               h == Len(r.hold)
               w == Len(r.wire)
               q == o.out
    <3>3. t \in Nat /\ h \in Nat /\ w \in Nat /\ x \in Nat /\ y \in Nat /\ q \in Nat /\ x + y + t + h + w <= q
      BY <3>1, <3>2
    <3> HIDE DEF x, y, t, h, w, q
    <3>4. y <= Excess(x, q)
      BY <3>3 DEF Excess
    <3> QED BY <2>1, <2>2, <3>4 DEF GotOk, Chain, FwdOk, x, y, q
  <2> QED BY <1>0, <2>1, <2>2, <2>3, GotNow, DeliverStep
<1> QED BY <1>1, <1>2

\* A copy task ends: what shutdown adds, and what the write before it had sent.
LEMMA EndPipes ==
    ASSUME RInv, NEW d \in Dirs, WriteFails(d) \/ ReadEof(d) \/ ReadFails(d) \/ ReadTimeout(d)
    PROVE  PipeStep(d)
<1> DEFINE o == pipe[d]
           a == Offset(d)
           reset == pipe[Other(d)].fin = "reset"
           g == IF reset THEN o.got ELSE o.got \o o.tls
           m == Size(o.got)
           t == Len(o.tls)
           h == Len(o.hold)
           w == Len(o.wire)
<1>0. /\ o \in Direction /\ pipe \in [Dirs -> Direction] /\ kind' = kind /\ stage = "relay"
      /\ o.task \in {"read", "write"} /\ o.got \in Seq(Nat) /\ o.tls \in Seq(Nat) /\ o.hold \in Seq(Nat)
      /\ o.out \in Nat
  BY DirTypes DEF WriteFails, ReadEof, ReadFails, ReadTimeout, Copy
<1>1. o.end = "open" /\ Chain(o.got, a, o) /\ FwdOk(d, o.got) /\ GotOk(d, o.out, o.got) /\ (o.task = "read" => o.hold = << >>)
  <2>1. a = Base(d)
    BY <1>0 DEF Base, Offset
  <2> QED BY <1>0, <2>1, RelayDir, GotNow
<1>2. a \in Nat /\ m \in Nat /\ t \in Nat /\ h \in Nat /\ w \in Nat
  BY <1>0, MappedState, StreamRun, DirTypes
<1>3. /\ Run(o.tls, a + m) /\ Run(o.hold, a + m + t)
      /\ a + m + t + h + w <= o.out /\ (o.fin # "reset" => a + m + t + h + w = o.out)
  BY <1>1 DEF Chain, Total
<1>4. /\ g \in Seq(Nat) /\ Stream(g, a) /\ (HasFwd(g) <=> HasFwd(o.got))
      /\ Size(g) = IF reset THEN m ELSE m + t
  BY <1>0, <1>1, <1>2, <1>3, StreamConcat DEF Chain
<1>5. ASSUME NEW how \in {"eof", "cut"}
      PROVE  /\ Shut(d, how) \in Direction /\ Shut(d, how).out = o.out /\ Shut(d, how).fin = o.fin
             /\ Shut(d, how).end = how /\ Shut(d, how).got = g
  BY ShutTypes
<1> HIDE DEF g, m, t, h, w
<1>6. ASSUME NEW s \in Seq(Nat), Stream(s, a), HasFwd(s) <=> HasFwd(o.got), m <= Size(s), a + Size(s) <= o.out
      PROVE  GotOk(d, o.out, s) /\ Size(o.got) <= Size(s)
  <2>1. Size(s) \in Nat
    BY <1>2, <1>6, StreamRun
  <2> HIDE DEF a, o
  <2>2. Size(s) <= Excess(a, o.out)
    BY <1>0, <1>2, <1>6, <2>1 DEF Excess
  <2> QED BY <1>1, <1>6, <2>2 DEF GotOk, FwdOk, a, m, o
<1>7. m <= Size(g) /\ a + Size(g) <= o.out
  <2> HIDE DEF a, o, reset
  <2> QED BY <1>0, <1>2, <1>3, <1>4
<1>8. GotOk(d, o.out, g) /\ Size(o.got) <= Size(g)
  BY <1>4, <1>6, <1>7
<1>9. CASE ReadFails(d) \/ ReadTimeout(d)
  <2>1. pipe'[d] = Shut(d, "cut")
    BY <1>0, <1>9 DEF ReadFails, ReadTimeout, Copy
  <2> QED BY <1>0, <1>1, <1>5, <1>8, <2>1, DeliverStep
<1>10. CASE ReadEof(d)
  <2> DEFINE how == IF reset THEN "cut" ELSE "eof"
  <2>1. how \in {"eof", "cut"} /\ pipe'[d] = Shut(d, how)
    BY <1>0, <1>10 DEF ReadEof, Copy
  <2>2. h = 0 /\ w = 0 /\ o.fin = "fin"
    BY <1>1, <1>10 DEF ReadEof, h, w
  <2>3. how = "eof" => a + Size(g) = o.out
    <3>1. how = "eof" => ~reset
      OBVIOUS
    <3>2. a + m + t + h + w = o.out
      BY <1>3, <2>2
    <3> HIDE DEF a, o, reset, how
    <3> QED BY <1>2, <1>4, <2>2, <3>1, <3>2
  <2> HIDE DEF how
  <2> DEFINE r == Shut(d, how)
  <2>4. r \in Direction /\ r.out = o.out /\ r.fin = o.fin /\ r.end = how /\ r.got = g
    BY <1>5, <2>1
  <2> HIDE DEF r
  <2>5. pipe'[d] = r
    BY <2>1 DEF r
  <2> QED BY <1>0, <1>1, <1>8, <2>1, <2>2, <2>3, <2>4, <2>5, DeliverStep
<1>11. CASE WriteFails(d)
  <2>1. PICK n \in 0 .. Len(o.hold) :
          /\ reset => n = 0
          /\ Copy(d, [Shut(d, "cut") EXCEPT !.got = @ \o SubSeq(o.hold, 1, n)])
    BY <1>11 DEF WriteFails
  <2> DEFINE z == Shut(d, "cut")
             x == SubSeq(o.hold, 1, n)
             s == g \o x
             r == [z EXCEPT !.got = s]
  <2>2. z \in Direction /\ z.out = o.out /\ z.fin = o.fin /\ z.end = "cut" /\ z.got = g
    BY <1>5
  <2>3. pipe'[d] = r
    BY <1>0, <2>1, <2>2 DEF Copy
  <2>4. n \in Nat /\ n <= h
    BY <1>0, <2>1, LenProperties DEF h
  <2>5. x \in Seq(Nat) /\ Len(x) = n /\ Run(x, a + m + t)
    <3>1. a + m + t \in Nat
      BY <1>2
    <3> QED BY <1>0, <1>3, <2>1, <3>1, RunSplit
  <2>6. Run(x, a + Size(g))
    <3>1. CASE reset
      BY <2>1, <2>5, <3>1 DEF Run
    <3>2. CASE ~reset
      <4>1. a + Size(g) = a + m + t
        BY <1>2, <1>4, <3>2
      <4> QED BY <2>5, <4>1
    <3> QED BY <3>1, <3>2
  <2> HIDE DEF x
  <2>7. s \in Seq(Nat) /\ Stream(s, a) /\ Size(s) = Size(g) + n /\ (HasFwd(s) <=> HasFwd(o.got))
    BY <1>2, <1>4, <2>5, <2>6, StreamConcat
  <2> HIDE DEF s, z
  <2>8. m <= Size(s) /\ a + Size(s) <= o.out
    <3> HIDE DEF a, o, reset
    <3> QED BY SMTT(60), <1>0, <1>2, <1>3, <1>4, <2>1, <2>4, <2>7
  <2>9. GotOk(d, o.out, s) /\ Size(o.got) <= Size(s)
    BY <1>6, <2>7, <2>8
  <2>10. r \in Direction /\ r.out = o.out /\ r.fin = o.fin /\ r.end = "cut" /\ r.got = s
    BY <2>2, <2>7 DEF Direction
  <2> HIDE DEF r
  <2> QED BY <1>0, <1>1, <2>3, <2>9, <2>10, DeliverStep
<1> QED BY <1>9, <1>10, <1>11

\* Every step of the connection is a step of each pipe, or none.
LEMMA NextPipes ==
    ASSUME RInv, [Next]_vars, NEW e \in Dirs
    PROVE  PipeStep(e)
<1>0. pipe \in [Dirs -> Direction] /\ "up" \in Dirs
  BY DEF RInv, TypeOK, Dirs
<1>1. CASE Accept \/ ParseContinue \/ ParsePass \/ ParseRequest \/ Lookup \/ AddForwarded \/ HttpGivenUp
           \/ CheckPublic \/ Connect \/ UNCHANGED vars
  <2>1. kind' = kind /\ pipe' = pipe
    BY <1>1 DEF Accept, ParseContinue, ParsePass, ParseRequest, Lookup, AddForwarded, HttpGivenUp, CheckPublic,
                Connect, vars
  <2> QED BY <2>1, SameStep
<1>2. CASE AcceptFails \/ HeadFails \/ ParsePanics \/ ParseInvalid \/ LookupFails \/ HttpFails \/ CheckPrivate
           \/ ConnectFails
  BY <1>2, DropPipes
  DEF AcceptFails, HeadFails, ParsePanics, ParseInvalid, LookupFails, HttpFails, CheckPrivate, ConnectFails
<1>3. CASE ReadHead \/ ReadHttp
  <2>1. kind' = kind /\ ReadInto
    BY <1>3 DEF ReadHead, ReadHttp
  <2>2. PICK n \in 1 .. Len(pipe["up"].wire) : pipe' = [pipe EXCEPT !["up"].wire = SubSeq(@, n + 1, Len(@))]
    BY <2>1 DEF ReadInto
  <2>3. /\ pipe'[e].out = pipe[e].out /\ pipe'[e].fin = pipe[e].fin /\ pipe'[e].got = pipe[e].got
        /\ pipe'[e].end = pipe[e].end
    <3>1. pipe["up"] \in Direction /\ pipe[e] \in Direction
      BY <1>0
    <3> QED BY <1>0, <2>2, <3>1 DEF Direction
  <2> QED BY <2>1, <2>3, SameStep
<1>4. CASE WriteFirst \/ WriteFirstFails
  BY <1>4, FirstPipes
<1>5. ASSUME NEW d \in Dirs, CopyStep(d) \/ Sends(d) \/ Closes(d) \/ Resets(d) PROVE PipeStep(e)
  <2>1. PipeStep(d)
    BY <1>5, GoesOnPipes, EndPipes, SidePipes DEF CopyStep
  <2>2. kind' = kind /\ \E r : pipe' = [pipe EXCEPT ![d] = r]
    BY <1>5 DEF CopyStep, Read, Write, WriteFails, ReadEof, ReadFails, ReadTimeout, Copy, Sends, Closes, Resets, Side
  <2>3. e # d => PipeStep(e)
    BY <2>2, OtherPipe
  <2> QED BY <2>1, <2>3
<1>6. CASE Tick
  <2>1. kind' = kind /\ pipe' = [d \in Dirs |-> IF Waits(d) THEN [pipe[d] EXCEPT !.age = @ + 1] ELSE pipe[d]]
    BY <1>6 DEF Tick
  <2>2. /\ pipe'[e].out = pipe[e].out /\ pipe'[e].fin = pipe[e].fin /\ pipe'[e].got = pipe[e].got
        /\ pipe'[e].end = pipe[e].end
    <3>1. pipe[e] \in Direction
      BY <1>0
    <3> QED BY <2>1, <3>1 DEF Direction
  <2> QED BY <2>1, <2>2, SameStep
<1> QED BY <1>1, <1>2, <1>3, <1>4, <1>5, <1>6 DEF Next, Prepare

LEMMA InitPipes == Init => Up!Init /\ Down!Init
<1> SUFFICES ASSUME Init PROVE Up!Init /\ Down!Init
  OBVIOUS
<1>1. ASSUME NEW d \in Dirs PROVE pipe[d].fin = "open" /\ pipe[d].end = "open" /\ pipe[d].got = << >> /\ pipe[d].out = 0
  BY DEF Init
<1>2. ASSUME NEW d \in Dirs PROVE Received(d) = << >>
  BY <1>1, ServerAssumption DEF Received
<1>3. ASSUME NEW d \in Dirs PROVE Payload(d) = << >>
  <2>1. Written(d) = << >>
    BY <1>1 DEF Written
  <2>2. SubSeq(Written(d), HeadLen + 1, 0) = << >>
    BY ServerAssumption, SubSeqEmpty
  <2> QED BY <1>1, <2>1, <2>2 DEF Payload
<1> QED BY <1>1, <1>2, <1>3 DEF Up!Init, Down!Init, Dirs

\* A connection that the async server relays is a pipe in each direction, whatever
\* pieces its head comes in, however long the head, the HTTP head and the streams are,
\* and whenever reads, writes and timeouts fall.
THEOREM AServerIsPipes == Spec => RelayIsPipes
<1>1. Init => RInv /\ Up!Init /\ Down!Init
  BY RInitInv, InitPipes
<1>2. RInv /\ [Next]_vars => RInv' /\ [Up!Next]_(Up!vars) /\ [Down!Next]_(Down!vars)
  BY RNextInv, NextPipes, PipeSteps DEF Dirs
<1> QED BY <1>1, <1>2, PTL DEF Spec, RelayIsPipes, Up!Spec, Down!Spec

-----------------------------------------------------------------------------
(* A UDP association *)

Half == (1 .. NPackets) \X (1 .. 2)
Halves == U!Halves(NPackets)

\* s is a piece of the client's stream, after its first a halves.
Piece(s, a) == a + Len(s) <= 2 * NPackets /\ \A i \in 1 .. Len(s) : s[i] = Halves[a + i]

LEMMA HalfTypes ==
    /\ Halves \in Seq(Half) /\ Len(Halves) = 2 * NPackets
    /\ \A k \in 1 .. 2 * NPackets : Halves[k] \in Half /\ Halves[k] = <<(k + 1) \div 2, 2 - (k % 2)>>
<1>0. NPackets \in Nat /\ 2 * NPackets \in Nat
  BY UdpAssumption
<1> DEFINE n == 2 * NPackets
           f == [k \in 1 .. n |-> <<(k + 1) \div 2, 2 - (k % 2)>>]
<1>1. \A k \in 1 .. n : (k + 1) \div 2 \in 1 .. NPackets /\ 2 - (k % 2) \in 1 .. 2
  BY <1>0
<1>2. \A k \in 1 .. n : <<(k + 1) \div 2, 2 - (k % 2)>> \in Half
  BY <1>1 DEF Half
<1>3. f \in [1 .. n -> Half] /\ Halves = f
  BY <1>2 DEF Halves, U!Halves
<1>4. \A k \in 1 .. n : f[k] \in Half /\ f[k] = <<(k + 1) \div 2, 2 - (k % 2)>>
  BY <1>2
<1> HIDE DEF f, n
<1>5. n \in Nat
  BY <1>0 DEF n
<1>6. f \in Seq(Half) /\ Len(f) = n
  <2>1. f \in Seq(Half)
    BY <1>3, <1>5, SeqDef
  <2>2. DOMAIN f = 1 .. Len(f) /\ Len(f) \in Nat
    BY <2>1, LenProperties
  <2> DEFINE l == Len(f)
  <2>3. l \in Nat /\ 1 .. l = 1 .. n
    BY <1>3, <2>2
  <2> HIDE DEF l
  <2>4. l = n
    BY <1>5, <2>3
  <2> QED BY <2>1, <2>4 DEF l
<1> QED BY <1>3, <1>4, <1>6 DEF n

\* A piece in two, two pieces in one, and a piece as a part of the stream.
LEMMA PieceSplit ==
    ASSUME NEW s \in Seq(Half), NEW a \in Nat, Piece(s, a), NEW n \in 0 .. Len(s)
    PROVE  /\ SubSeq(s, 1, n) \in Seq(Half) /\ Len(SubSeq(s, 1, n)) = n /\ Piece(SubSeq(s, 1, n), a)
           /\ SubSeq(s, n + 1, Len(s)) \in Seq(Half) /\ Len(SubSeq(s, n + 1, Len(s))) = Len(s) - n
           /\ Piece(SubSeq(s, n + 1, Len(s)), a + n)
<1>0. Len(s) \in Nat /\ (\A i \in 1 .. Len(s) : s[i] \in Half) /\ 2 * NPackets \in Nat
  BY UdpAssumption
<1>1. /\ SubSeq(s, 1, n) \in Seq(Half) /\ Len(SubSeq(s, 1, n)) = n
      /\ \A i \in 1 .. n : SubSeq(s, 1, n)[i] = s[i]
  BY <1>0, SubSeqProperties
<1>2. /\ SubSeq(s, n + 1, Len(s)) \in Seq(Half) /\ Len(SubSeq(s, n + 1, Len(s))) = Len(s) - n
      /\ \A i \in 1 .. Len(s) - n : SubSeq(s, n + 1, Len(s))[i] = s[n + i]
  BY <1>0, SubSeqProperties
<1>3. Piece(SubSeq(s, 1, n), a)
  BY <1>0, <1>1 DEF Piece
<1>4. Piece(SubSeq(s, n + 1, Len(s)), a + n)
  <2>1. a + n + (Len(s) - n) <= 2 * NPackets
    BY <1>0 DEF Piece
  <2>2. ASSUME NEW i \in 1 .. Len(s) - n PROVE s[n + i] = Halves[a + n + i]
    <3>1. n + i \in 1 .. Len(s) /\ a + n + i = a + (n + i)
      BY <1>0
    <3>2. s[n + i] = Halves[a + (n + i)]
      BY <3>1 DEF Piece
    <3> QED BY <3>1, <3>2
  <2> QED BY <1>2, <2>1, <2>2 DEF Piece
<1> QED BY <1>1, <1>2, <1>3, <1>4

LEMMA PieceConcat ==
    ASSUME NEW s \in Seq(Half), NEW t \in Seq(Half), NEW a \in Nat, Piece(s, a), Piece(t, a + Len(s))
    PROVE  s \o t \in Seq(Half) /\ Len(s \o t) = Len(s) + Len(t) /\ Piece(s \o t, a)
<1>1. /\ s \o t \in Seq(Half) /\ Len(s \o t) = Len(s) + Len(t) /\ Len(s) \in Nat /\ Len(t) \in Nat
      /\ \A i \in 1 .. Len(s) + Len(t) : (s \o t)[i] = IF i <= Len(s) THEN s[i] ELSE t[i - Len(s)]
  BY ConcatProperties
<1>2. ASSUME NEW i \in 1 .. Len(s \o t) PROVE (s \o t)[i] = Halves[a + i]
  <2>1. CASE i <= Len(s)
    BY <1>1, <2>1 DEF Piece
  <2>2. CASE i > Len(s)
    <3>1. i - Len(s) \in 1 .. Len(t) /\ (s \o t)[i] = t[i - Len(s)] /\ a + Len(s) + (i - Len(s)) = a + i
      BY <1>1, <2>2
    <3>2. t[i - Len(s)] = Halves[a + Len(s) + (i - Len(s))]
      BY <3>1 DEF Piece
    <3> QED BY <3>1, <3>2
  <2> QED BY <1>1, <2>1, <2>2
<1>3. a + Len(s \o t) <= 2 * NPackets
  BY <1>1, UdpAssumption DEF Piece
<1> QED BY <1>1, <1>2, <1>3 DEF Piece

LEMMA PieceIs ==
    ASSUME NEW s \in Seq(Half), NEW a \in Nat, Piece(s, a)
    PROVE  s = SubSeq(Halves, a + 1, a + Len(s))
<1>0. Len(s) \in Nat /\ 2 * NPackets \in Nat
  BY UdpAssumption
<1> DEFINE t == SubSeq(Halves, a + 1, a + Len(s))
<1>1. \A i \in a + 1 .. a + Len(s) : Halves[i] \in Half
  BY <1>0, HalfTypes DEF Piece
<1>2. /\ t \in Seq(Half) /\ Len(t) = (IF a + 1 <= a + Len(s) THEN a + Len(s) - (a + 1) + 1 ELSE 0)
      /\ \A i \in 1 .. a + Len(s) - (a + 1) + 1 : t[i] = Halves[a + 1 + i - 1]
  <2>1. a + 1 \in Int /\ a + Len(s) \in Int
    BY <1>0
  <2> QED BY <1>1, <2>1, SubSeqProperties
<1> HIDE DEF t
<1>3. Len(t) = Len(s) /\ a + Len(s) - (a + 1) + 1 = Len(s)
  BY <1>0, <1>2
<1>4. ASSUME NEW i \in 1 .. Len(s) PROVE s[i] = t[i]
  <2>1. a + 1 + i - 1 = a + i
    BY <1>0
  <2>2. t[i] = Halves[a + i]
    BY <1>2, <1>3, <2>1
  <2> QED BY <2>2 DEF Piece
<1>5. s = t
  BY <1>2, <1>3, <1>4, SeqEqual
<1> QED BY <1>5 DEF t

\* The stream: what was sent, what the buffer holds and what is on its way follow each
\* other, and the packet at the head of the buffer is whole where it is used.
StreamOk ==
    /\ \A k \in 1 .. Len(sentTo) : sentTo[k] = k
    /\ Piece(ubuf, 2 * Len(sentTo)) /\ Piece(source.wire, 2 * Len(sentTo) + Len(ubuf))
    /\ 2 * Len(sentTo) + Len(ubuf) + Len(source.wire) = source.out
    /\ main \in {"lookup", "check", "send"} => Len(ubuf) >= 2

\* The channel holds only targets of recent packets.
ChanOk == \A k \in 1 .. Len(chan) : chan[k] \in recent

UInv ==
    /\ U!TypeOK /\ source \in [out: 0 .. 2 * NPackets, wire: Seq(Half), open: BOOLEAN]
    /\ StreamOk /\ ChanOk /\ U!HoleFollowsRequests

LEMMA UTypes ==
    ASSUME UInv
    PROVE  /\ ubuf \in Seq(Half) /\ Len(ubuf) \in Nat /\ sentTo \in Seq(1 .. NPackets) /\ Len(sentTo) \in Nat
           /\ source \in [out: 0 .. 2 * NPackets, wire: Seq(Half), open: BOOLEAN]
           /\ source.wire \in Seq(Half) /\ Len(source.wire) \in Nat /\ source.out \in 0 .. 2 * NPackets
           /\ chan \in Seq(Targets) /\ Len(chan) \in Nat /\ NPackets \in Nat /\ 2 * Len(sentTo) \in Nat
<1>1. ubuf \in Seq(Half) /\ sentTo \in Seq(1 .. NPackets) /\ chan \in Seq(Targets)
  BY DEF UInv, U!TypeOK, Half
<1>2. source.wire \in Seq(Half) /\ source.out \in 0 .. 2 * NPackets
  BY DEF UInv
<1> QED BY <1>1, <1>2, UdpAssumption, LenProperties DEF UInv

\* The packet at the head of the buffer.
LEMMA HeadPacket ==
    ASSUME UInv, Len(ubuf) >= 2
    PROVE  /\ ubuf[1][1] = Len(sentTo) + 1 /\ ubuf[1][1] \in 1 .. NPackets
           /\ U!Current.to \in Targets
<1>0. Len(ubuf) \in Nat /\ Len(sentTo) \in Nat /\ NPackets \in Nat
  BY UTypes
<1> DEFINE l == Len(sentTo)
           b == Len(ubuf)
<1>1. b \in Nat /\ l \in Nat /\ b >= 2 /\ 2 * l + b <= 2 * NPackets
  BY <1>0 DEF UInv, StreamOk, Piece
<1>2. 1 \in 1 .. b /\ ubuf[1] = Halves[2 * l + 1]
  <2>1. 1 \in 1 .. b
    BY <1>1
  <2> QED BY <2>1 DEF UInv, StreamOk, Piece
<1> HIDE DEF l, b
<1>3. 2 * l + 1 \in 1 .. 2 * NPackets /\ (2 * l + 1 + 1) \div 2 = l + 1
  BY <1>0, <1>1
<1>4. ubuf[1][1] = l + 1
  BY <1>2, <1>3, HalfTypes
<1>5. l + 1 \in 1 .. NPackets
  BY <1>0, <1>1
<1>6. packets[l + 1] \in U!Packet
  BY <1>5 DEF UInv, U!TypeOK
<1> QED BY <1>4, <1>5, <1>6 DEF U!Current, U!Packet, l

LEMMA UInitInv == U!Init => UInv
<1> SUFFICES ASSUME U!Init PROVE UInv
  OBVIOUS
<1> DEFINE none == << >>
<1>0. Len(none) = 0 /\ none \in Seq(Half) /\ none \in Seq(Targets) /\ none \in Seq(1 .. NPackets) /\ none = << >>
  OBVIOUS
<1>1. PICK n \in 0 .. 1 : /\ ubuf = SubSeq(Halves, 1, n)
                          /\ source = [out |-> n, wire |-> none, open |-> TRUE]
  BY DEF U!Init, Halves
<1>2. /\ packets \in [1 .. NPackets -> U!Packet] /\ hole \in BOOLEAN /\ main = "parse" /\ names = {} /\ chan = none
      /\ relay = "select" /\ sources = [t \in Targets |-> "none"]
      /\ answers = none /\ extra = 0 /\ sentTo = none /\ passed = {} /\ recent = {}
  BY DEF U!Init
<1> HIDE DEF none
<1>3. NPackets \in Nat /\ NPackets >= 1 /\ 2 * NPackets \in Nat /\ n \in 0 .. 2 * NPackets /\ ChanCap \in Nat
  BY UdpAssumption
<1>4. Halves \in Seq(Half) /\ Piece(Halves, 0) /\ Len(Halves) = 2 * NPackets
  BY <1>3, HalfTypes DEF Piece
<1>5. ubuf \in Seq(Half) /\ Len(ubuf) = n /\ Piece(ubuf, 0)
  BY <1>1, <1>3, <1>4, PieceSplit
<1>6. U!TypeOK
  BY <1>0, <1>2, <1>3, <1>5 DEF U!TypeOK, Half
<1>7. source \in [out: 0 .. 2 * NPackets, wire: Seq(Half), open: BOOLEAN] /\ source.wire = none /\ source.out = n
  BY <1>0, <1>1, <1>3
<1>8. StreamOk
  <2>1. 2 * Len(sentTo) = 0
    BY <1>0, <1>2
  <2>2. Piece(none, n)
    BY <1>0, <1>3 DEF Piece
  <2> QED BY <1>0, <1>2, <1>3, <1>5, <1>7, <2>1, <2>2 DEF StreamOk
<1>9. ChanOk /\ U!HoleFollowsRequests
  BY <1>0, <1>2 DEF ChanOk, U!HoleFollowsRequests
<1> QED BY <1>6, <1>7, <1>8, <1>9 DEF UInv

\* Steps of start_udp that only go to another point of the loop.
LEMMA GotoStep ==
    ASSUME UInv, NEW m \in {"parse", "lookup", "check", "read", "done"}, U!Goto(m),
           m \in {"lookup", "check"} => Len(ubuf) >= 2
    PROVE  UInv'
<1>1. UNCHANGED <<packets, hole, source, ubuf, names, chan, answers, extra, sentTo, recent, relay, sources, passed>> /\ main' = m
  BY DEF U!Goto, U!relayVars
<1>2. U!TypeOK' /\ StreamOk' /\ ChanOk' /\ U!HoleFollowsRequests'
  BY <1>1 DEF UInv, U!TypeOK, StreamOk, Piece, ChanOk, U!HoleFollowsRequests
<1> QED BY <1>1, <1>2 DEF UInv

\* Steps that leave the stream alone.
LEMMA StreamSame ==
    ASSUME UInv, UNCHANGED <<source, ubuf, sentTo>>, main' \in {"lookup", "check", "send"} => Len(ubuf) >= 2
    PROVE  StreamOk'
BY DEF UInv, StreamOk, Piece

LEMMA LookupStep ==
    ASSUME UInv, U!Lookup
    PROVE  UInv'
<1>1. /\ UNCHANGED <<packets, hole, source, ubuf, chan, answers, extra, sentTo, recent, relay, sources, passed>>
      /\ main = "lookup" /\ main' = "check" /\ names' = names \cup {U!Current.to}
  BY DEF U!Lookup, U!relayVars
<1>2. Len(ubuf) >= 2 /\ U!Current.to \in Targets
  BY <1>1, HeadPacket DEF UInv, StreamOk
<1>3. StreamOk'
  BY <1>1, <1>2, StreamSame
<1>4. U!TypeOK' /\ ChanOk' /\ U!HoleFollowsRequests'
  BY <1>1, <1>2 DEF UInv, U!TypeOK, ChanOk, U!HoleFollowsRequests
<1> QED BY <1>1, <1>3, <1>4 DEF UInv

LEMMA AnnounceStep ==
    ASSUME UInv, U!Announce
    PROVE  UInv'
<1> DEFINE t == U!Current.to
           c == Append(chan, t)
<1>1. /\ UNCHANGED <<packets, hole, source, ubuf, names, answers, extra, sentTo, relay, sources, passed>>
      /\ main = "check" /\ main' = "send" /\ recent' = recent \cup {t}
      /\ IF hole /\ relay # "done" THEN Len(chan) < ChanCap /\ chan' = c ELSE chan' = chan
  BY DEF U!Announce, U!relayVars
<1>2. Len(ubuf) >= 2 /\ t \in Targets
  BY <1>1, HeadPacket DEF UInv, StreamOk
<1> HIDE DEF t
<1>3. StreamOk'
  BY <1>1, <1>2, StreamSame
<1>4. /\ chan \in Seq(Targets) /\ Len(chan) \in Nat /\ ChanCap \in Nat
      /\ c \in Seq(Targets) /\ Len(c) = Len(chan) + 1 /\ c[Len(chan) + 1] = t
      /\ \A i \in 1 .. Len(chan) : c[i] = chan[i]
  BY <1>2, UTypes, UdpAssumption, AppendProperties
<1> HIDE DEF c
<1>5. U!TypeOK'
  <2>1. chan' \in Seq(Targets) /\ Len(chan') <= ChanCap
    <3>1. Len(chan) <= ChanCap
      BY DEF UInv, U!TypeOK
    <3> QED BY <1>1, <1>4, <3>1
  <2> QED BY <1>1, <1>2, <2>1 DEF UInv, U!TypeOK
<1>6. ChanOk'
  <2>1. CASE chan' = chan
    BY <1>1, <2>1 DEF UInv, ChanOk
  <2>2. CASE chan' = c
    <3> SUFFICES ASSUME NEW k \in 1 .. Len(c) PROVE c[k] \in recent \cup {t}
      BY <1>1, <2>2 DEF ChanOk
    <3>1. k \in 1 .. Len(chan) \/ k = Len(chan) + 1
      BY <1>4
    <3> QED BY <1>4, <3>1 DEF UInv, ChanOk
  <2> QED BY <1>1, <2>1, <2>2
<1>7. U!HoleFollowsRequests'
  <2> SUFFICES ASSUME hole, relay = "select", NEW u \in Targets
               PROVE  /\ sources[u] = "fresh" => u \in recent \cup {t}
                      /\ u \in recent \cup {t} => sources[u] = "fresh" \/ \E k \in 1 .. Len(c) : c[k] = u
    BY <1>1 DEF U!HoleFollowsRequests
  <2>1. /\ sources[u] = "fresh" => u \in recent
        /\ u \in recent => sources[u] = "fresh" \/ \E k \in 1 .. Len(chan) : chan[k] = u
    BY DEF UInv, U!HoleFollowsRequests
  <2>2. Len(chan) + 1 \in 1 .. Len(c) /\ \A k \in 1 .. Len(chan) : k \in 1 .. Len(c)
    BY <1>4
  <2> QED BY <1>4, <2>1, <2>2
<1> QED BY <1>1, <1>3, <1>5, <1>6, <1>7 DEF UInv

LEMMA SendToStep ==
    ASSUME UInv, U!SendTo
    PROVE  UInv'
<1> DEFINE l == Len(sentTo)
           b == Len(ubuf)
           x == ubuf[1][1]
           s == Append(sentTo, x)
           y == SubSeq(ubuf, 2 + 1, b)
<1>1. /\ UNCHANGED <<packets, hole, source, names, chan, answers, extra, recent, relay, sources, passed>>
      /\ main = "send" /\ main' = "parse" /\ sentTo' = s /\ ubuf' = y
  <2>1. 2 + 1 = 3
    OBVIOUS
  <2> QED BY <2>1 DEF U!SendTo, U!relayVars
<1>2. b >= 2 /\ x = l + 1 /\ x \in 1 .. NPackets
  BY <1>1, HeadPacket DEF UInv, StreamOk
<1>3. /\ ubuf \in Seq(Half) /\ b \in Nat /\ sentTo \in Seq(1 .. NPackets) /\ l \in Nat /\ 2 * l \in Nat
      /\ Len(source.wire) \in Nat /\ source.out \in Nat
  BY UTypes
<1> HIDE DEF x
<1>4. s \in Seq(1 .. NPackets) /\ Len(s) = l + 1 /\ s[l + 1] = x /\ \A i \in 1 .. l : s[i] = sentTo[i]
  BY <1>2, <1>3, AppendProperties
<1>5. y \in Seq(Half) /\ Len(y) = b - 2 /\ Piece(y, 2 * l + 2)
  <2>1. 2 \in 0 .. Len(ubuf) /\ Piece(ubuf, 2 * l)
    BY <1>2, <1>3 DEF UInv, StreamOk
  <2> QED BY <1>3, <2>1, PieceSplit
<1> HIDE DEF s, y, l, b
<1>6. 2 * Len(s) = 2 * l + 2 /\ 2 * Len(s) + Len(y) = 2 * l + b
  BY <1>3, <1>4, <1>5
<1>7. U!TypeOK'
  BY <1>1, <1>4, <1>5 DEF UInv, U!TypeOK, Half
<1>8. StreamOk'
  <2>1. \A k \in 1 .. Len(s) : s[k] = k
    <3>1. \A k \in 1 .. l : sentTo[k] = k
      BY DEF UInv, StreamOk, l
    <3>2. \A k \in 1 .. l + 1 : k \in 1 .. l \/ k = l + 1
      BY <1>3
    <3> QED BY <1>2, <1>4, <3>1, <3>2
  <2>2. Piece(y, 2 * Len(s)) /\ Piece(source.wire, 2 * Len(s) + Len(y)) /\ 2 * Len(s) + Len(y) + Len(source.wire) = source.out
    BY <1>5, <1>6 DEF UInv, StreamOk, l, b
  <2>3. /\ Piece(ubuf, 2 * Len(sentTo))' <=> Piece(y, 2 * Len(s))
        /\ Piece(source.wire, 2 * Len(sentTo) + Len(ubuf))' <=> Piece(source.wire, 2 * Len(s) + Len(y))
    BY <1>1 DEF Piece
  <2> QED BY <1>1, <2>1, <2>2, <2>3 DEF StreamOk
<1>9. ChanOk' /\ U!HoleFollowsRequests'
  BY <1>1 DEF UInv, ChanOk, U!HoleFollowsRequests
<1> QED BY <1>1, <1>7, <1>8, <1>9 DEF UInv

LEMMA UdpReadStep ==
    ASSUME UInv, U!Read
    PROVE  UInv'
<1> DEFINE w == source.wire
           k == 2 * Len(sentTo)
<1>0. /\ ubuf \in Seq(Half) /\ Len(ubuf) \in Nat /\ k \in Nat /\ w \in Seq(Half) /\ Len(w) \in Nat
      /\ source \in [out: 0 .. 2 * NPackets, wire: Seq(Half), open: BOOLEAN] /\ source.out \in Nat
  BY UTypes
<1>1. PICK n \in 1 .. Len(w) : ubuf' = ubuf \o SubSeq(w, 1, n) /\ source' = [source EXCEPT !.wire = SubSeq(@, n + 1, Len(@))]
  BY DEF U!Read
<1>2. /\ UNCHANGED <<packets, hole, names, chan, answers, extra, sentTo, recent, relay, sources, passed>>
      /\ main' = "parse"
  BY DEF U!Read, U!relayVars
<1> DEFINE x == SubSeq(w, 1, n)
           y == SubSeq(w, n + 1, Len(w))
           z == ubuf \o x
<1>3. n \in 0 .. Len(w) /\ k + Len(ubuf) \in Nat /\ n \in Nat
  BY <1>0, <1>1
<1>4. /\ x \in Seq(Half) /\ Len(x) = n /\ Piece(x, k + Len(ubuf))
      /\ y \in Seq(Half) /\ Len(y) = Len(w) - n /\ Piece(y, k + Len(ubuf) + n)
  <2>1. Piece(w, k + Len(ubuf))
    BY DEF UInv, StreamOk
  <2> QED BY <1>0, <1>3, <2>1, PieceSplit
<1>5. source' \in [out: 0 .. 2 * NPackets, wire: Seq(Half), open: BOOLEAN] /\ source'.wire = y /\ source'.out = source.out
  <2>1. source' = [source EXCEPT !.wire = y]
    BY <1>0, <1>1
  <2> HIDE DEF y
  <2> QED BY <1>0, <1>4, <2>1
<1> HIDE DEF x, y
<1>6. z \in Seq(Half) /\ Len(z) = Len(ubuf) + n /\ Piece(z, k)
  <2>1. Piece(ubuf, k)
    BY DEF UInv, StreamOk
  <2> QED BY <1>0, <1>4, <2>1, PieceConcat
<1>7. ubuf' = z
  BY <1>1 DEF x
<1> HIDE DEF z, k, w
<1>8. U!TypeOK'
  BY <1>2, <1>6, <1>7 DEF UInv, U!TypeOK, Half
<1>9. StreamOk'
  <2>0. k + Len(ubuf) + Len(w) = source.out
    BY DEF UInv, StreamOk, k, w
  <2>1. k + Len(z) = k + Len(ubuf) + n /\ k + Len(z) + Len(y) = source.out
    BY <1>0, <1>3, <1>4, <1>6, <2>0
  <2>2. Piece(z, k) /\ Piece(y, k + Len(z))
    BY <1>4, <1>6, <2>1
  <2>3. /\ Piece(ubuf, 2 * Len(sentTo))' <=> Piece(z, k)
        /\ Piece(source.wire, 2 * Len(sentTo) + Len(ubuf))' <=> Piece(y, k + Len(z))
    BY <1>2, <1>5, <1>7 DEF Piece, k
  <2>4. 2 * Len(sentTo') + Len(ubuf') + Len(source'.wire) = source'.out
    BY <1>2, <1>5, <1>7, <2>1 DEF k
  <2> QED BY <1>2, <1>5, <1>7, <2>2, <2>3, <2>4 DEF StreamOk, UInv
<1>10. ChanOk' /\ U!HoleFollowsRequests'
  BY <1>2 DEF UInv, ChanOk, U!HoleFollowsRequests
<1> QED BY <1>5, <1>8, <1>9, <1>10 DEF UInv

LEMMA ClientStep ==
    ASSUME UInv, U!ClientSends \/ U!ClientCloses
    PROVE  UInv'
<1> DEFINE w == source.wire
           k == 2 * Len(sentTo) + Len(ubuf)
<1>0. /\ Len(ubuf) \in Nat /\ k \in Nat /\ w \in Seq(Half) /\ Len(w) \in Nat /\ NPackets \in Nat
      /\ source \in [out: 0 .. 2 * NPackets, wire: Seq(Half), open: BOOLEAN] /\ source.out \in Nat
  BY UTypes
<1>1. UNCHANGED <<packets, hole, chan, answers, extra, recent, ubuf, main, names, sentTo, relay, sources, passed>>
  BY DEF U!ClientSends, U!ClientCloses, U!mainVars, U!relayVars
<1>2. U!TypeOK' /\ ChanOk' /\ U!HoleFollowsRequests'
  BY <1>1 DEF UInv, U!TypeOK, ChanOk, U!HoleFollowsRequests
<1>3. CASE U!ClientSends
  <2> DEFINE o == source.out + 1
             x == Halves[o]
             v == Append(w, x)
  <2>1. source.out < 2 * NPackets /\ source' = [source EXCEPT !.out = o, !.wire = v]
    BY <1>0, <1>3 DEF U!ClientSends, Halves
  <2>2. o \in 1 .. 2 * NPackets /\ o \in 0 .. 2 * NPackets /\ x \in Half
    BY <1>0, <2>1, HalfTypes
  <2> HIDE DEF x
  <2>3. v \in Seq(Half) /\ Len(v) = Len(w) + 1 /\ v[Len(w) + 1] = x /\ \A i \in 1 .. Len(w) : v[i] = w[i]
    BY <1>0, <2>2, AppendProperties
  <2> HIDE DEF v
  <2>4. source' \in [out: 0 .. 2 * NPackets, wire: Seq(Half), open: BOOLEAN] /\ source'.wire = v /\ source'.out = o
    BY <1>0, <2>1, <2>2, <2>3
  <2>5. Piece(w, k) /\ k + Len(w) = source.out
    BY DEF UInv, StreamOk
  <2> HIDE DEF w, k
  <2>6. k + Len(v) = o
    BY <1>0, <2>3, <2>5
  <2>7. Piece(v, k)
    <3>1. ASSUME NEW i \in 1 .. Len(v) PROVE v[i] = Halves[k + i]
      <4>1. i \in 1 .. Len(w) \/ i = Len(w) + 1
        BY <1>0, <2>3
      <4>2. CASE i \in 1 .. Len(w)
        BY <2>3, <2>5, <4>2 DEF Piece
      <4>3. CASE i = Len(w) + 1
        <5>1. k + i = o
          BY <2>3, <2>6, <4>3
        <5> QED BY <2>3, <4>3, <5>1 DEF x
      <4> QED BY <4>1, <4>2, <4>3
    <3>2. k + Len(v) <= 2 * NPackets
      BY <1>0, <2>2, <2>6
    <3> QED BY <3>1, <3>2 DEF Piece
  <2>8. StreamOk'
    <3>1. /\ Piece(ubuf, 2 * Len(sentTo))' <=> Piece(ubuf, 2 * Len(sentTo))
          /\ Piece(source.wire, 2 * Len(sentTo) + Len(ubuf))' <=> Piece(v, k)
      BY <1>1, <2>4 DEF Piece, k
    <3>2. 2 * Len(sentTo') + Len(ubuf') + Len(source'.wire) = source'.out
      BY <1>1, <2>4, <2>6 DEF k
    <3> QED BY <1>1, <2>7, <3>1, <3>2 DEF StreamOk, UInv
  <2> QED BY <1>2, <2>4, <2>8 DEF UInv
<1>4. CASE U!ClientCloses
  <2>1. source' = [source EXCEPT !.open = FALSE]
    BY <1>4 DEF U!ClientCloses
  <2>2. /\ source' \in [out: 0 .. 2 * NPackets, wire: Seq(Half), open: BOOLEAN]
        /\ source'.wire = source.wire /\ source'.out = source.out
    BY <1>0, <2>1
  <2>3. StreamOk'
    BY <1>1, <2>2 DEF UInv, StreamOk, Piece
  <2> QED BY <1>2, <2>2, <2>3 DEF UInv
<1> QED BY <1>3, <1>4

\* target_to_source, the targets and time.
LEMMA RelaySteps ==
    ASSUME UInv,
           \/ U!RelayEnds \/ U!RecvAddress \/ U!RecvAnswer
           \/ \E t \in Targets : U!TargetSends(t) \/ U!Expire(t)
    PROVE  UInv'
<1>0. UNCHANGED <<packets, hole, source, ubuf, main, names, sentTo>>
  BY DEF U!RelayEnds, U!RecvAddress, U!RecvAnswer, U!TargetSends, U!Expire, U!mainVars, U!relayVars
<1>1. StreamOk' /\ source' \in [out: 0 .. 2 * NPackets, wire: Seq(Half), open: BOOLEAN]
  BY <1>0, StreamSame DEF UInv, StreamOk
<1>2. ASSUME U!TypeOK', ChanOk', U!HoleFollowsRequests' PROVE UInv'
  BY <1>1, <1>2 DEF UInv
<1>c. chan \in Seq(Targets) /\ Len(chan) \in Nat /\ Len(chan) <= ChanCap /\ ChanCap \in Nat
  BY UTypes, UdpAssumption DEF UInv, U!TypeOK
<1>3. CASE U!RelayEnds
  <2> DEFINE none == << >>
  <2>0. none \in Seq(Targets) /\ Len(none) = 0
    OBVIOUS
  <2>1. chan' = none /\ relay' = "done" /\ UNCHANGED <<answers, extra, recent, sources, passed>>
    BY <1>3 DEF U!RelayEnds, U!mainVars
  <2> HIDE DEF none
  <2>2. U!TypeOK'
    BY <1>0, <1>c, <2>0, <2>1 DEF UInv, U!TypeOK
  <2>3. ChanOk' /\ U!HoleFollowsRequests'
    BY <2>0, <2>1 DEF ChanOk, U!HoleFollowsRequests
  <2> QED BY <1>2, <2>2, <2>3
<1>4. CASE U!RecvAddress
  <2> DEFINE h == Head(chan)
             c == Tail(chan)
  <2>1. /\ chan # << >> /\ chan' = c /\ sources' = [sources EXCEPT ![h] = "fresh"]
        /\ UNCHANGED <<answers, extra, recent, relay, passed>>
    BY <1>4 DEF U!RecvAddress, U!mainVars
  <2>2. /\ h \in Targets /\ c \in Seq(Targets) /\ Len(c) = Len(chan) - 1 /\ h = chan[1] /\ Len(chan) >= 1
        /\ \A i \in 1 .. Len(c) : c[i] = chan[i + 1]
    BY <1>c, <2>1, HeadTailProperties
  <2> HIDE DEF h, c
  <2>3. U!TypeOK'
    BY <1>0, <1>c, <2>1, <2>2 DEF UInv, U!TypeOK
  <2>4. ChanOk' /\ h \in recent
    BY SMTT(60), <1>c, <2>1, <2>2 DEF UInv, ChanOk
  <2>5. U!HoleFollowsRequests'
    <3> SUFFICES ASSUME hole, relay = "select", NEW u \in Targets
                 PROVE  /\ sources'[u] = "fresh" => u \in recent
                        /\ u \in recent => sources'[u] = "fresh" \/ \E k \in 1 .. Len(c) : c[k] = u
      BY <1>0, <2>1 DEF U!HoleFollowsRequests
    <3>1. /\ sources[u] = "fresh" => u \in recent
          /\ u \in recent => sources[u] = "fresh" \/ \E k \in 1 .. Len(chan) : chan[k] = u
      BY DEF UInv, U!HoleFollowsRequests
    <3>2. sources'[u] = IF u = h THEN "fresh" ELSE sources[u]
      BY <2>1, <2>2 DEF UInv, U!TypeOK
    <3>3. ASSUME NEW k \in 1 .. Len(chan), chan[k] = u, u # h PROVE \E i \in 1 .. Len(c) : c[i] = u
      <4>1. k - 1 \in 1 .. Len(c) /\ k - 1 + 1 = k
        BY <1>c, <2>2, <3>3
      <4> QED BY <2>2, <3>3, <4>1
    <3> QED BY <2>4, <3>1, <3>2, <3>3
  <2> QED BY <1>2, <2>3, <2>4, <2>5
<1>5. CASE U!RecvAnswer
  <2>1. /\ answers # << >> /\ answers' = Tail(answers) /\ UNCHANGED <<chan, extra, recent, relay, sources>>
        /\ passed' \in {passed, passed \cup {Head(answers)}}
    BY <1>5 DEF U!RecvAnswer, U!mainVars
  <2>2. answers \in Seq(Targets)
    BY DEF UInv, U!TypeOK
  <2>3. Head(answers) \in Targets /\ Tail(answers) \in Seq(Targets)
    BY <2>1, <2>2, HeadTailProperties
  <2>4. U!TypeOK' /\ ChanOk' /\ U!HoleFollowsRequests'
    BY <1>0, <2>1, <2>3 DEF UInv, U!TypeOK, ChanOk, U!HoleFollowsRequests
  <2> QED BY <1>2, <2>4
<1>6. ASSUME NEW t \in Targets, U!TargetSends(t) PROVE UInv'
  <2>1. answers' = Append(answers, t) /\ UNCHANGED <<chan, recent, relay, sources, passed>>
    BY <1>6 DEF U!TargetSends, U!relayVars
  <2>2. answers' \in Seq(Targets)
    BY <2>1, AppendProperties DEF UInv, U!TypeOK
  <2>3. U!TypeOK' /\ ChanOk' /\ U!HoleFollowsRequests'
    BY <1>0, <2>1, <2>2 DEF UInv, U!TypeOK, ChanOk, U!HoleFollowsRequests
  <2> QED BY <1>2, <2>3
<1>7. ASSUME NEW t \in Targets, U!Expire(t) PROVE UInv'
  <2>1. /\ \A k \in 1 .. Len(chan) : chan[k] # t
        /\ recent' = recent \ {t} /\ sources' = [sources EXCEPT ![t] = IF @ = "fresh" THEN "old" ELSE @]
        /\ UNCHANGED <<chan, answers, extra, relay, passed>>
    BY <1>7 DEF U!Expire, U!mainVars
  <2>2. sources \in [Targets -> {"none", "fresh", "old"}]
    BY DEF UInv, U!TypeOK
  <2>3. U!TypeOK'
    BY <1>0, <2>1, <2>2 DEF UInv, U!TypeOK
  <2>4. ChanOk'
    BY <2>1 DEF UInv, ChanOk
  <2>5. U!HoleFollowsRequests'
    <3> SUFFICES ASSUME hole, relay = "select", NEW u \in Targets
                 PROVE  /\ sources'[u] = "fresh" => u \in recent \ {t}
                        /\ u \in recent \ {t} => sources'[u] = "fresh" \/ \E k \in 1 .. Len(chan) : chan[k] = u
      BY <1>0, <2>1 DEF U!HoleFollowsRequests
    <3>1. /\ sources[u] = "fresh" => u \in recent
          /\ u \in recent => sources[u] = "fresh" \/ \E k \in 1 .. Len(chan) : chan[k] = u
      BY DEF UInv, U!HoleFollowsRequests
    <3>2. (u # t => sources'[u] = sources[u]) /\ sources'[t] # "fresh"
      BY <2>1, <2>2
    <3> QED BY <3>1, <3>2
  <2> QED BY <1>2, <2>3, <2>4, <2>5
<1> QED BY <1>3, <1>4, <1>5, <1>6, <1>7

LEMMA UNextInv == UInv /\ [U!Next]_(U!vars) => UInv'
<1> SUFFICES ASSUME UInv, [U!Next]_(U!vars) PROVE UInv'
  OBVIOUS
<1>1. CASE U!ParsePacket
  <2>1. PICK m \in {"lookup", "check"} : U!Goto(m) /\ Len(ubuf) >= 2
    BY <1>1 DEF U!ParsePacket, U!Complete
  <2> QED BY <2>1, GotoStep
<1>2. CASE U!ParseInvalid \/ U!ParseContinued \/ U!Private \/ U!LookupFails \/ U!SendToFails \/ U!ReadEnds
  <2>1. PICK m \in {"parse", "read", "done"} : U!Goto(m)
    BY <1>2 DEF U!ParseInvalid, U!ParseContinued, U!Private, U!LookupFails, U!SendToFails, U!ReadEnds
  <2> QED BY <2>1, GotoStep
<1>3. CASE U!RelayIdles \/ U!RecvFails \/ U!ChannelEnds \/ U!WriteFails \/ U!RecvAddress \/ U!RecvAnswer
  BY <1>3, RelaySteps DEF U!RelayIdles, U!RecvFails, U!ChannelEnds, U!WriteFails
<1>4. CASE UNCHANGED U!vars
  <2>1. UNCHANGED <<packets, hole, source, ubuf, main, names, chan, relay, sources, answers, extra, sentTo, passed, recent>>
    BY <1>4 DEF U!vars
  <2>2. U!TypeOK' /\ StreamOk' /\ ChanOk' /\ U!HoleFollowsRequests'
    BY <2>1 DEF UInv, U!TypeOK, StreamOk, Piece, ChanOk, U!HoleFollowsRequests
  <2> QED BY <2>1, <2>2 DEF UInv
<1> QED BY <1>1, <1>2, <1>3, <1>4, LookupStep, AnnounceStep, SendToStep, UdpReadStep, ClientStep, RelaySteps
        DEF U!Next, U!MainStep, U!RelayStep

\* The invariant says that the packets are in order.
LEMMA InOrder == UInv => U!PacketsInOrder
<1> SUFFICES ASSUME UInv PROVE U!PacketsInOrder
  OBVIOUS
<1> DEFINE k == 2 * Len(sentTo)
           w == Len(source.wire)
           b == Len(ubuf)
<1>1. ubuf \in Seq(Half) /\ k \in Nat /\ Piece(ubuf, k) /\ b \in Nat /\ w \in Nat /\ k + b + w = source.out
  BY UTypes DEF UInv, StreamOk
<1>2. ubuf = SubSeq(Halves, k + 1, k + b)
  BY <1>1, PieceIs
<1>3. k + b = source.out - w
  <2> HIDE DEF k, b, w
  <2> QED BY <1>1
<1>4. ubuf = SubSeq(Halves, k + 1, source.out - w)
  BY <1>2, <1>3
<1> QED BY <1>4 DEF UInv, StreamOk, U!PacketsInOrder, Halves

\* start_udp sends the packets of the client's stream in their order, none twice and
\* none left out, wherever reads cut the stream and however often look-ups fail; and
\* target_to_source lets in exactly the answers of the targets that were sent to within
\* 60 seconds - for any number of packets and targets and any capacity of the channel.
THEOREM UdpAssociation == U!Spec => [](U!PacketsInOrder /\ U!HoleFollowsRequests)
<1>1. UInv => U!PacketsInOrder /\ U!HoleFollowsRequests
  BY InOrder DEF UInv
<1> QED BY <1>1, UInitInv, UNextInv, PTL DEF U!Spec

-----------------------------------------------------------------------------
(* All parts together *)

LEMMA MCParts ==
    /\ MCInit => Init /\ U!Init
    /\ [MCNext]_all => [Next]_vars /\ [U!Next]_(U!vars)
<1>1. MCInit => Init /\ U!Init
  BY DEF MCInit
<1>2. UNCHANGED udp => UNCHANGED U!vars
  BY DEF udp, U!vars
<1>3. UNCHANGED all => UNCHANGED vars /\ UNCHANGED udp
  BY DEF all
<1>4. MCNext => [Next]_vars /\ [U!Next]_(U!vars)
  BY <1>2 DEF MCNext, TcpTurn, UdpTurn
<1> QED BY <1>1, <1>2, <1>3, <1>4

\* The packets of a UDP association leave in order, in the composed specification.
THEOREM MCPacketsInOrder == MCSpec => []PacketsInOrder
<1>1. RInv /\ UInv => PacketsInOrder
  BY InOrder DEF PacketsInOrder, RInv
<1> QED BY <1>1, MCParts, RInitInv, RNextInv, UInitInv, UNextInv, PTL DEF MCSpec

\* Answers come in if and only if they were asked for, in the composed specification.
THEOREM MCHoleFollowsRequests == MCSpec => []HoleFollowsRequests
<1>1. UInv => HoleFollowsRequests
  BY DEF HoleFollowsRequests, UInv
<1> QED BY <1>1, MCParts, UInitInv, UNextInv, PTL DEF MCSpec

\* The relayed connections of the composed specification are pipes.
THEOREM MCRelayIsPipes == MCSpec => RelayIsPipes
<1>1. MCSpec => Spec
  BY MCParts, PTL DEF MCSpec, Spec
<1> QED BY <1>1, AServerIsPipes, PTL
=============================================================================
