----------------------------- MODULE UsbfsProofs ----------------------------
(***************************************************************************)
(* Theorems about Usbfs, for any lengths and kinds of transfers and        *)
(* kernels: types, that the URBs outlive the kernel's use of them, that no *)
(* data is lost or out of order, and that it is a backend as io.c needs it *)
(* (UsbBackend).  All but the first lemmas are about a kernel and a device *)
(* that are Orderly.                                                       *)
(***************************************************************************)
EXTENDS Usbfs, SequenceTheorems, TLAPS

(* What the code does not stand (the run Usbfs_stall is an example): a     *)
(* stall with more than one URB still to be taken back, of a kernel that   *)
(* neither takes a transfer whole nor takes continuations back itself, and *)
(* a device that is pulled out between two of a cancellation's discards.   *)
Orderly ==
  /\ \A n \in Lengths, c \in Caps : c \subseteq {"REAP"} => n <= MaxBulk * (StallFrom + 1)
  /\ "cancel" \notin UnplugAt

-----------------------------------------------------------------------------
(* The invariant.  An URB that the kernel has given back is held by the    *)
(* event thread until it is accounted for; those that are given back (Back *)
(* of them, the p-th ended as Line(p)) and then those with the kernel are  *)
(* the open ones, the p-th of them UrbAt(p).                               *)
Held == reaped # NoUrb /\ op.by # "complete"
Back == IF Held THEN Len(done) + 1 ELSE Len(done)
Line(p) == IF ~Held THEN done[p] ELSE IF p = 1 THEN reaped ELSE done[p - 1]
Open == Back + Len(queue)
UrbAt(p) == IF p <= Back THEN Line(p).urb ELSE queue[p - Back]

(* How many URBs the kernel has got or has refused, and the last that may  *)
(* be in its queue.                                                        *)
Submitted == IF Submitting THEN op.next - 1 ELSE NumUrbs
Top == IF Discarding THEN op.next ELSE Submitted

(* Types, without the bounds that follow from the rest.                    *)
SetupType == type \in Types /\ length \in Lengths /\ caps \in Caps
PrivType ==
  /\ urbs \in BOOLEAN /\ num_retired \in Nat
  /\ reap_action \in {"NORMAL", "SUBMIT_FAILED", "CANCELLED", "COMPLETED_EARLY", "ERROR"}
  /\ reap_status \in {"COMPLETED", "ERROR", "STALL", "OVERFLOW", "NO_DEVICE"}
DataType == transferred \in Nat /\ buffer \in [1..length -> 0..length]
OpType ==
  op \in [by : {"none", "submit", "cancel", "complete"}, first : Nat,
          next : 0..NumUrbs, ret : {"SUCCESS", "NOT_FOUND", "NO_DEVICE"}]
ReapedType == reaped \in [urb : Urbs, status : Endings] \cup {NoUrb}
FlagsType ==
  /\ asked \in BOOLEAN /\ gone \in BOOLEAN /\ detached \in BOOLEAN
  /\ halted \in BOOLEAN /\ stalled \in BOOLEAN
  /\ answer \in {"none", "COMPLETED", "CANCELLED", "ERROR", "STALL", "OVERFLOW", "NO_DEVICE"}
ListType == queue \in Seq(Urbs) /\ done \in Seq([urb : Urbs, status : Endings])
FillType ==
  /\ filled \in [Urbs -> Nat] /\ \A i \in Urbs : filled[i] <= UrbLength(i)
  /\ sent \in 0..length
Core ==
  SetupType /\ PrivType /\ DataType /\ OpType /\ ReapedType /\ FlagsType /\ ListType /\ FillType

-----------------------------------------------------------------------------
(* How a transfer is split.                                                *)
LEMMA OneUrb ==
  ASSUME length \in Nat, BufferLen = AtLeastOne(length)
  PROVE NumUrbs = 1 /\ (length > 0 => BufferLen = length)
<1>1. CASE length = 0
  BY <1>1 DEF NumUrbs, AtLeastOne
<1>2. CASE length > 0
  <2>1. (length + length - 1) \div length = 1
    BY <1>2
  <2> QED BY <1>2, <2>1 DEF NumUrbs, AtLeastOne
<1> QED BY <1>1, <1>2

LEMMA Setup ==
  ASSUME type \in Types, length \in Lengths, caps \in Caps
  PROVE /\ length \in Nat /\ BufferLen \in Nat /\ BufferLen > 0
        /\ NumUrbs \in Nat /\ NumUrbs > 0
        /\ \/ NumUrbs = 1 /\ (length > 0 => BufferLen = length)
           \/ BufferLen = 2
        /\ type = "control" => NumUrbs = 1
<1>1. length \in Nat
  BY UsbfsAssumption
<1>2. CASE BufferLen = AtLeastOne(length)
  BY <1>1, <1>2, OneUrb DEF AtLeastOne
<1>3. CASE BufferLen = 2 /\ type # "control"
  BY <1>1, <1>3 DEF NumUrbs, AtLeastOne
<1> QED BY <1>1, <1>2, <1>3 DEF BufferLen, MaxBulk

(* Where the URBs' data belongs.                                           *)
LEMMA Places ==
  ASSUME type \in Types, length \in Lengths, caps \in Caps
  PROVE /\ length \in Nat /\ NumUrbs \in Nat /\ NumUrbs > 0
        /\ Offset(1) = 0
        /\ \A i \in Urbs : /\ Offset(i) \in Nat /\ UrbLength(i) \in Nat
                           /\ Offset(i) + UrbLength(i) <= length
                           /\ i < NumUrbs => /\ UrbLength(i) > 0
                                             /\ Offset(i + 1) = Offset(i) + UrbLength(i)
        /\ \A i, j \in Urbs : i < j => Offset(i) + UrbLength(i) <= Offset(j)
<1>0. /\ length \in Nat /\ NumUrbs \in Nat /\ NumUrbs > 0
      /\ (NumUrbs = 1 /\ (length > 0 => BufferLen = length)) \/ BufferLen = 2
  BY Setup
<1>1. CASE NumUrbs = 1 /\ (length > 0 => BufferLen = length)
  BY <1>1, Setup DEF Offset, UrbLength, Urbs
<1>2. CASE BufferLen = 2
  <2>1. \A i \in Int : Offset(i) = 2 * i - 2
    BY <1>2 DEF Offset
  <2>2. /\ length + 1 >= 2 * NumUrbs \/ NumUrbs = 1
        /\ 2 * NumUrbs >= length
    BY <1>2, Setup DEF NumUrbs, AtLeastOne
  <2>3. \A i \in Urbs : UrbLength(i) = IF i < NumUrbs THEN 2 ELSE length - (2 * NumUrbs - 2)
    BY <1>2, <2>1, Setup DEF UrbLength
  <2> QED BY <1>0, <2>1, <2>2, <2>3 DEF Urbs
<1> QED BY <1>0, <1>1, <1>2

LEMMA LateStall ==
  ASSUME Orderly, type = "bulk", length \in Lengths, caps \in Caps, ~Continued
  PROVE NumUrbs <= StallFrom + 1
<1>0. length \in Nat /\ StallFrom \in Nat
  BY UsbfsAssumption
<1>1. CASE caps \cap {"SCATTER", "NO_LIMIT"} # {}
  <2>1. BufferLen = AtLeastOne(length)
    BY <1>1 DEF BufferLen
  <2> QED BY <1>0, <2>1, OneUrb
<1>2. CASE caps \cap {"SCATTER", "NO_LIMIT"} = {}
  <2>1. caps \subseteq {"REAP"}
    BY <1>2, UsbfsAssumption DEF Continued
  <2>2. length <= 2 * (StallFrom + 1)
    BY <2>1 DEF Orderly, MaxBulk
  <2>3. BufferLen = 2
    BY <1>2 DEF BufferLen, MaxBulk
  <2> QED BY <1>0, <2>2, <2>3 DEF NumUrbs, AtLeastOne
<1> QED BY <1>1, <1>2

(* Nothing of this changes while a transfer lasts.                         *)
LEMMA Same ==
  ASSUME UNCHANGED setup
  PROVE /\ NumUrbs' = NumUrbs /\ Urbs' = Urbs /\ (Continued' <=> Continued)
        /\ \A i : Offset(i)' = Offset(i) /\ UrbLength(i)' = UrbLength(i)
<1>1. BufferLen' = BufferLen /\ (Continued' <=> Continued)
  BY DEF BufferLen, Continued, setup
<1>2. NumUrbs' = NumUrbs
  BY <1>1 DEF NumUrbs, setup
<1>3. \A i : Offset(i)' = Offset(i)
  BY <1>1 DEF Offset
<1>4. \A i : UrbLength(i)' = UrbLength(i)
  BY <1>1, <1>2, <1>3 DEF UrbLength, setup
<1> QED BY <1>1, <1>2, <1>3, <1>4 DEF Urbs

LEMMA StepsKeepSetup ==
  ASSUME [UsbfsNext]_vars
  PROVE UNCHANGED setup
  BY DEF UsbfsNext, vars, Submit, Submission, SubmitUrb, FirstUrbFails, LaterUrbFails,
      DiscardUrb,
         Discarded, Cancel, Reap, Handle, BulkAbnormal, BulkNormal, Control, Iso,
         Callback, Detach,
         Receive, EndUrb, Unplug

-----------------------------------------------------------------------------
(* Sequences.                                                              *)
LEMMA Lengths0 ==
  ASSUME NEW S, NEW s \in Seq(S)
  PROVE /\ Len(s) \in Nat /\ DOMAIN s = 1..Len(s)
        /\ \A k \in 1..Len(s) : s[k] \in S
        /\ s = <<>> <=> Len(s) = 0
        /\ s # <<>> => Head(s) = s[1]
  BY LenProperties, ElementOfSeq, EmptySeq

(* s without its last element.                                             *)
LEMMA LastRemoved ==
  ASSUME NEW S, NEW s \in Seq(S), s # <<>>
  PROVE /\ RemoveAt(s, Len(s)) \in Seq(S)
        /\ Len(RemoveAt(s, Len(s))) = Len(s) - 1
        /\ \A k \in 1..Len(s) - 1 : RemoveAt(s, Len(s))[k] = s[k]
<1> DEFINE n == Len(s)
           a == SubSeq(s, 1, n - 1)
           b == SubSeq(s, n + 1, n)
<1>1. n \in Nat /\ n > 0
  BY Lengths0
<1>0. \A k \in 1..n - 1 : s[k] \in S
  BY <1>1, Lengths0
<1>2. a \in Seq(S) /\ Len(a) = n - 1 /\ \A k \in 1..n - 1 : a[k] = s[k]
  <2> HIDE DEF n
  <2>1. 1 \in Int /\ n - 1 \in Int /\ (IF 1 <= n - 1 THEN n - 1 - 1 + 1 ELSE 0) = n - 1
        /\ n - 1 - 1 + 1 = n - 1 /\ \A k \in 1..n - 1 : 1 + k - 1 = k
    BY <1>1
  <2>2. /\ a \in Seq(S) /\ Len(a) = IF 1 <= n - 1 THEN n - 1 - 1 + 1 ELSE 0
        /\ \A k \in 1..n - 1 - 1 + 1 : a[k] = s[1 + k - 1]
    BY <1>0, <2>1, SubSeqProperties
  <2> QED BY <2>1, <2>2
<1>3. b = <<>>
  BY <1>1, SubSeqEmpty
<1> HIDE DEF a, b
<1>4. a \o b = a
  BY <1>2, <1>3, ConcatEmptySeq
<1> QED BY <1>2, <1>4 DEF RemoveAt, a, b

LEMMA ListIsSeq ==
  ASSUME NEW S, NEW n \in Nat, NEW f \in [1..n -> S]
  PROVE f \in Seq(S) /\ Len(f) = n
<1>1. f \in Seq(S)
  BY SeqDef
<1> QED BY <1>1

LEMMA Prefixed ==
  ASSUME NEW S, NEW s \in Seq(S), NEW e \in S
  PROVE /\ <<e>> \o s \in Seq(S) /\ Len(<<e>> \o s) = Len(s) + 1
        /\ (<<e>> \o s)[1] = e
        /\ \A k \in 2..Len(s) + 1 : (<<e>> \o s)[k] = s[k - 1]
<1>1. <<e>> \in Seq(S) /\ Len(<<e>>) = 1 /\ <<e>>[1] = e /\ Len(s) \in Nat
  BY Lengths0
<1> DEFINE t == <<e>>
<1>2. t \in Seq(S) /\ Len(t) = 1 /\ t[1] = e
  BY <1>1
<1> HIDE DEF t
<1>3. /\ t \o s \in Seq(S) /\ Len(t \o s) = Len(t) + Len(s)
      /\ \A k \in 1..Len(t) + Len(s) : (t \o s)[k] = IF k <= Len(t) THEN t[k] ELSE s[k - Len(t)]
  BY <1>2, ConcatProperties
<1>4. t \o s \in Seq(S) /\ Len(t \o s) = Len(s) + 1 /\ (t \o s)[1] = e
  BY <1>1, <1>2, <1>3
<1>5. \A k \in 2..Len(s) + 1 : (t \o s)[k] = s[k - 1]
  BY <1>1, <1>2, <1>3
<1> QED BY <1>4, <1>5 DEF t

(* All of s, as ended by e.                                                *)
Given(s, e) == [j \in DOMAIN s |-> Ended(s[j], e)]

LEMMA AllEnded ==
  ASSUME NEW s \in Seq(Urbs), NEW e \in Endings
  PROVE /\ Given(s, e) \in Seq([urb : Urbs, status : Endings]) /\ Len(Given(s, e)) = Len(s)
        /\ \A k \in 1..Len(s) : Given(s, e)[k].urb = s[k] /\ Given(s, e)[k].status = e
<1> DEFINE R == [urb : Urbs, status : Endings]
<1>1. Len(s) \in Nat /\ DOMAIN s = 1..Len(s) /\ \A k \in 1..Len(s) : s[k] \in Urbs
  BY Lengths0
<1>2. Given(s, e) \in [1..Len(s) -> R]
  BY <1>1 DEF Given, Ended
<1>3. Given(s, e) \in Seq(R) /\ Len(Given(s, e)) = Len(s)
  <2> HIDE DEF R
  <2> QED BY <1>1, <1>2, ListIsSeq
<1>4. \A k \in 1..Len(s) : Given(s, e)[k].urb = s[k] /\ Given(s, e)[k].status = e
  BY <1>1 DEF Given, Ended
<1> QED BY <1>3, <1>4

-----------------------------------------------------------------------------
(* Where an operation is.                                                  *)
OpInv ==
  /\ op.by = "none" => op = NoOp
  /\ op.by # "none" => urbs
  /\ op.by = "submit" => op.first \in 0..1 /\ 1 - op.first <= op.next /\ op.next + op.first <= NumUrbs
  /\ Submitting => reap_action = "NORMAL" /\ num_retired = 0 /\ transferred = 0
  /\ op.by = "submit" /\ op.first = 1 => reap_action = "SUBMIT_FAILED"
  /\ op.by = "cancel" => op.first = 1 /\ asked /\ reap_action # "CANCELLED"
  /\ op.by = "complete" => /\ reaped # NoUrb /\ op.first = reaped.urb + 1 /\ type = "bulk"
                           /\ reaped.urb < NumUrbs
                           /\ reap_action \in {"NORMAL", "ERROR", "COMPLETED_EARLY"}
  /\ reap_action = "CANCELLED" => asked

(* What comes with the URBs, an answer and the device's end.               *)
LifeInv ==
  /\ ~urbs => queue = <<>> /\ done = <<>> /\ reaped = NoUrb
  /\ answer # "none" => ~urbs
  /\ detached => gone
  /\ gone \/ halted => queue = <<>>
  /\ halted => Continued
  /\ reap_status = "NO_DEVICE" => gone
  /\ type # "bulk" => reap_action \notin {"ERROR", "COMPLETED_EARLY"}

(* Every URB is retired or open.                                           *)
CountInv == urbs => num_retired + Open = Submitted

(* The queue: consecutive URBs, the last of them the next to be discarded. *)
QueueInv ==
  /\ Len(queue) <= Top
  /\ \A k \in 1..Len(queue) : queue[k] = Top - Len(queue) + k
  /\ Discarding => Len(queue) <= op.next - op.first + 1
  /\ queue # <<>> => reap_action = "NORMAL" \/ (Discarding /\ op.by # "cancel")
  /\ op.by = "cancel" /\ op.ret # "SUCCESS" => queue = <<>>
  /\ op.by = "cancel" /\ TakenBack => ~gone /\ reap_action = "NORMAL"
  /\ op.by = "complete" /\ reap_action = "NORMAL" /\ queue # <<>> =>
       Len(queue) = 1 /\ op.next = NumUrbs

-----------------------------------------------------------------------------
(* Which URBs are open after a step.                                       *)
LEMMA Facts ==
  ASSUME Core
  PROVE /\ Len(done) \in Nat /\ Len(queue) \in Nat /\ Back \in Nat /\ Open \in Nat
        /\ DOMAIN queue = 1..Len(queue)
        /\ (queue = <<>> <=> Len(queue) = 0) /\ (done = <<>> <=> Len(done) = 0)
        /\ reaped # NoUrb => reaped \in [urb : Urbs, status : Endings]
        /\ \A p \in 1..Back : Line(p) \in [urb : Urbs, status : Endings]
        /\ \A k \in 1..Len(queue) : queue[k] \in Urbs
        /\ \A p \in 1..Open : UrbAt(p) \in Urbs
        /\ queue # <<>> => Head(queue) = queue[1] /\ UrbAt(Back + 1) = queue[1]
        /\ NumUrbs \in Nat /\ NumUrbs > 0 /\ Urbs = 1..NumUrbs
<1> DEFINE R == [urb : Urbs, status : Endings]
<1>1. /\ Len(done) \in Nat /\ Len(queue) \in Nat /\ DOMAIN queue = 1..Len(queue)
      /\ (queue = <<>> <=> Len(queue) = 0) /\ (done = <<>> <=> Len(done) = 0)
      /\ \A k \in 1..Len(queue) : queue[k] \in Urbs
      /\ \A k \in 1..Len(done) : done[k] \in R
      /\ queue # <<>> => Head(queue) = queue[1]
  BY Lengths0 DEF Core, SetupType, OpType, ReapedType, ListType
<1>2. reaped # NoUrb => reaped \in R
  BY DEF Core, SetupType, OpType, ReapedType, ListType
<1>3. Back \in Nat /\ Open \in Nat
  BY <1>1 DEF Back, Open
<1>4. ASSUME NEW p \in 1..Back PROVE Line(p) \in R
  BY <1>1, <1>2, <1>4 DEF Back, Line, Held
<1>5. ASSUME NEW p \in 1..Open PROVE UrbAt(p) \in Urbs
  BY <1>1, <1>3, <1>4, <1>5 DEF Open, UrbAt
<1>6. queue # <<>> => UrbAt(Back + 1) = queue[1]
  BY <1>1, <1>3 DEF UrbAt
<1> QED BY <1>1, <1>2, <1>3, <1>4, <1>5, <1>6, Setup DEF Core, SetupType, OpType,
        ReapedType, ListType, Urbs

(* No URB changes its place; some may be given back.                       *)
Unmoved ==
  /\ Open' = Open /\ Back' \in Nat /\ Back' >= Back
  /\ \A p \in 1..Back : Line(p)' = Line(p)
  /\ \A p \in 1..Open : UrbAt(p)' = UrbAt(p)

LEMMA Still ==
  ASSUME Core, UNCHANGED <<reaped, done, queue>>, (op.by = "complete") <=> (op'.by = "complete")
  PROVE Unmoved /\ Back' = Back
<1>1. Held' <=> Held
  BY DEF Held
<1>2. Back' = Back /\ Open' = Open
  BY <1>1 DEF Back, Open
<1>3. \A p : Line(p)' = Line(p)
  BY <1>1 DEF Line
<1>4. \A p : UrbAt(p)' = UrbAt(p)
  BY <1>2, <1>3 DEF UrbAt
<1> QED BY <1>2, <1>3, <1>4, Facts DEF Unmoved

LEMMA Reaping ==
  ASSUME Core, OpInv, Reap
  PROVE Unmoved /\ Back' = Back /\ reaped' \in [urb : Urbs, status : Endings] /\ Line(1) = reaped'
        /\ done' \in Seq([urb : Urbs, status : Endings])
<1> DEFINE R == [urb : Urbs, status : Endings]
<1>1. /\ reaped = NoUrb /\ done # <<>> /\ done \in Seq(R)
      /\ reaped' = Head(done) /\ done' = Tail(done) /\ UNCHANGED <<op, queue>>
  BY DEF Reap, Core, SetupType, OpType, ReapedType, ListType
<1>2. reaped' \in R /\ Head(done) = done[1]
  BY <1>1, HeadTailProperties, Lengths0
<1>3. Len(done) \in Nat /\ Len(done) > 0 /\ Len(queue) \in Nat
  BY <1>1, Facts
<1>4. /\ done' \in Seq(R) /\ Len(done') = Len(done) - 1
      /\ \A k \in 1..Len(done) - 1 : done'[k] = done[k + 1]
  BY <1>1, HeadTailProperties
<1>5. reaped' # NoUrb /\ op.by # "complete"
  BY SMTT(30), <1>1, <1>2, Facts DEF NoUrb, OpInv
<1>6. ~Held /\ Held'
  BY <1>1, <1>5 DEF Held
<1>7. Back' = Back /\ Open' = Open /\ Back = Len(done)
  BY <1>1, <1>3, <1>4, <1>6 DEF Back, Open
<1>8. ASSUME NEW p \in 1..Back PROVE Line(p)' = Line(p)
  BY <1>2, <1>1, <1>3, <1>4, <1>6, <1>7 DEF Line
<1>9. ASSUME NEW p \in 1..Open PROVE UrbAt(p)' = UrbAt(p)
  BY <1>1, <1>3, <1>7, <1>8 DEF UrbAt
<1>10. Line(1) = reaped'
  BY <1>1, <1>2, <1>6 DEF Line
<1> QED BY <1>2, <1>3, <1>4, <1>7, <1>8, <1>9, <1>10 DEF Unmoved

LEMMA DiscardingEnds ==
  ASSUME Core, Discarded
  PROVE Unmoved /\ Back' = Back
<1>1. CASE op.by = "complete"
  <2>1. ~Held /\ ~Held' /\ UNCHANGED <<done, queue>>
    BY <1>1 DEF Held, Discarded, NoOp, kernel
  <2>2. Back' = Back /\ Open' = Open
    BY <2>1 DEF Back, Open
  <2>3. \A p : Line(p)' = Line(p)
    BY <2>1 DEF Line
  <2>4. \A p : UrbAt(p)' = UrbAt(p)
    BY <2>1, <2>2, <2>3 DEF UrbAt
  <2> QED BY <2>2, <2>3, <2>4, Facts DEF Unmoved
<1>2. CASE op.by # "complete"
  BY <1>2, Still DEF Discarded, NoOp, kernel
<1> QED BY <1>1, <1>2

LEMMA Joined ==
  ASSUME NEW S, done \in Seq(S), NEW t \in Seq(S), done' = done \o t
  PROVE /\ Len(done') = Len(done) + Len(t)
        /\ \A k \in 1..Len(done) + Len(t) :
             done'[k] = IF k <= Len(done) THEN done[k] ELSE t[k - Len(done)]
BY ConcatProperties

(* The kernel gives back the first n of its queue, which ended as t says.  *)
LEMMA GivingBack ==
  ASSUME Core, NEW n \in 0..Len(queue), NEW t \in Seq([urb : Urbs, status : Endings]), Len(t) = n,
         \A k \in 1..n : t[k].urb = queue[k],
         done' = done \o t, queue' \in Seq(Urbs), Len(queue') = Len(queue) - n,
         \A k \in 1..Len(queue) - n : queue'[k] = queue[n + k],
         UNCHANGED <<reaped, op>>
  PROVE Unmoved /\ Back' = Back + n /\ \A p \in Back + 1..Back + n : Line(p)' = t[p - Back]
<1>1. /\ Len(done) \in Nat /\ Len(queue) \in Nat /\ n \in Nat /\ Back \in Nat
      /\ done \in Seq([urb : Urbs, status : Endings])
  BY Facts DEF Core, SetupType, OpType, ReapedType, ListType
<1>2. /\ Len(done') = Len(done) + n
      /\ \A k \in 1..Len(done) + n : done'[k] = IF k <= Len(done) THEN done[k] ELSE t[k - Len(done)]
  <2> DEFINE R == [urb : Urbs, status : Endings]
  <2>1. done \in Seq(R) /\ t \in Seq(R) /\ Len(t) = n /\ done' = done \o t
    BY <1>1
  <2> HIDE DEF R
  <2>2. /\ Len(done') = Len(done) + Len(t)
        /\ \A k \in 1..Len(done) + Len(t) :
             done'[k] = IF k <= Len(done) THEN done[k] ELSE t[k - Len(done)]
    BY <2>1, Joined, Zenon
  <2> QED BY <2>1, <2>2
<1>3. Held' <=> Held
  BY DEF Held
<1>4. Back' = Back + n /\ Open' = Open
  BY <1>1, <1>2, <1>3 DEF Back, Open
<1>5. ASSUME NEW p \in 1..Back PROVE Line(p)' = Line(p)
  BY <1>1, <1>2, <1>3 DEF Line, Back
<1>6. ASSUME NEW p \in Back + 1..Back + n PROVE Line(p)' = t[p - Back]
  <2>1. CASE Held
    <3>1. Back = Len(done) + 1
      BY <2>1 DEF Back
    <3>2. Line(p)' = done'[p - 1]
      BY <2>1, <3>1, <1>1, <1>3 DEF Line
    <3> QED BY <3>1, <3>2, <1>1, <1>2
  <2>2. CASE ~Held
    <3>1. Back = Len(done)
      BY <2>2 DEF Back
    <3>2. Line(p)' = done'[p]
      BY <2>2, <1>3 DEF Line
    <3> QED BY <3>1, <3>2, <1>1, <1>2
  <2> QED BY <2>1, <2>2
<1>7. ASSUME NEW p \in 1..Open PROVE UrbAt(p)' = UrbAt(p)
  <2>1. CASE p <= Back
    BY <2>1, <1>1, <1>4, <1>5 DEF UrbAt
  <2>2. CASE Back < p /\ p <= Back + n
    BY <2>2, <1>1, <1>4, <1>6 DEF UrbAt
  <2>3. CASE Back + n < p
    <3>1. p - Back - n \in 1..Len(queue) - n /\ n + (p - Back - n) = p - Back
      BY <2>3, <1>1 DEF Open
    <3>2. UrbAt(p)' = queue'[p - Back - n] /\ UrbAt(p) = queue[p - Back]
      BY <2>3, <1>1, <1>4 DEF UrbAt
    <3> QED BY <3>1, <3>2
  <2> QED BY <1>1, <2>1, <2>2, <2>3 DEF Open
<1>8. Unmoved
  <2>1. Open' = Open /\ Back' \in Nat /\ Back' >= Back
    BY <1>1, <1>4
  <2> QED BY <2>1, <1>5, <1>7 DEF Unmoved
<1> QED BY <1>4, <1>6, <1>8

(* An URB ends, or the device is pulled out.                               *)
LEMMA Ending ==
  ASSUME Core, NEW e \in Endings \ {"unlinked", "nodev"}, EndUrb(e)
  PROVE /\ Unmoved /\ queue # <<>> /\ Back < Back' /\ queue' \in Seq(Urbs)
        /\ done' \in Seq([urb : Urbs, status : Endings])
        /\ \A p \in Back + 1..Back' : Line(p)' = [urb |-> UrbAt(p), status |-> IF p = Back + 1 THEN e ELSE "unlinked"]
        /\ \/ Back' = Back + 1 /\ queue' = Tail(queue)
           \/ queue' = <<>> /\ Continued
        /\ Back + 1 < Back' => Continued
<1> DEFINE R == [urb : Urbs, status : Endings]
           i == Head(queue)
           x == Ended(i, e)
           early == Continued /\ (e # "ok" \/ filled[i] # UrbLength(i))
           rest == Given(Tail(queue), "unlinked")
           t == IF early THEN <<x>> \o rest ELSE <<x>>
           n == IF early THEN Len(queue) ELSE 1
<1>1. /\ queue # <<>> /\ queue \in Seq(Urbs) /\ done \in Seq(R)
      /\ done' = Append(done, x) \o IF early THEN rest ELSE <<>>
      /\ queue' = IF early THEN <<>> ELSE Tail(queue)
      /\ UNCHANGED <<reaped, op>>
  BY DEF EndUrb, Core, SetupType, OpType, ReapedType, ListType, Given
<1>2. /\ Len(queue) \in Nat /\ Len(queue) > 0 /\ i = queue[1] /\ i \in Urbs
      /\ Tail(queue) \in Seq(Urbs) /\ Len(Tail(queue)) = Len(queue) - 1
      /\ \A k \in 1..Len(queue) - 1 : Tail(queue)[k] = queue[k + 1]
  BY <1>1, Facts, HeadTailProperties
<1>3. /\ rest \in Seq(R) /\ Len(rest) = Len(queue) - 1
      /\ \A k \in 1..Len(queue) - 1 : rest[k].urb = Tail(queue)[k] /\ rest[k].status = "unlinked"
  <2>1. "unlinked" \in Endings /\ Tail(queue) \in Seq(Urbs)
    BY <1>2 DEF Endings
  <2> QED BY <2>1, <1>2, AllEnded
<1>4. x \in R /\ x.urb = i /\ x.status = e
  BY <1>2 DEF Ended
<1>5. <<x>> \in Seq(R) /\ Len(<<x>>) = 1 /\ <<x>>[1] = x
  BY <1>4
<1> HIDE DEF rest, i, early, x
<1>6. /\ <<x>> \o rest \in Seq(R) /\ Len(<<x>> \o rest) = Len(queue)
      /\ (<<x>> \o rest)[1] = x
      /\ \A k \in 2..Len(queue) : (<<x>> \o rest)[k] = rest[k - 1]
  <2> HIDE DEF R
  <2>1. /\ <<x>> \o rest \in Seq(R) /\ Len(<<x>> \o rest) = Len(rest) + 1
        /\ (<<x>> \o rest)[1] = x
        /\ \A k \in 2..Len(rest) + 1 : (<<x>> \o rest)[k] = rest[k - 1]
    BY <1>3, <1>4, Prefixed
  <2>2. Len(rest) + 1 = Len(queue)
    BY <1>2, <1>3
  <2> QED BY <2>1, <2>2
<1>7. done' = done \o t
  <2>1. Append(done, x) = done \o <<x>>
    BY <1>1, <1>4, AppendIsConcat
  <2>2. CASE early
    BY <2>1, <2>2, <1>1, <1>3, <1>5, ConcatAssociative
  <2>3. CASE ~early
    <3>1. Append(done, x) \in Seq(R)
      BY <1>1, <1>4, AppendProperties
    <3> QED BY <2>1, <2>3, <3>1, <1>1, ConcatEmptySeq
  <2> QED BY <2>2, <2>3
<1>8. /\ t \in Seq(R) /\ Len(t) = n /\ n \in 1..Len(queue)
      /\ \A k \in 1..n : t[k].urb = queue[k] /\ t[k].status = IF k = 1 THEN e ELSE "unlinked"
  <2>1. CASE early
    <3>1. \A k \in 2..Len(queue) : (<<x>> \o rest)[k].urb = queue[k] /\ (<<x>> \o rest)[k].status = "unlinked"
      <4>1. ASSUME NEW k \in 2..Len(queue)
            PROVE (<<x>> \o rest)[k].urb = queue[k] /\ (<<x>> \o rest)[k].status = "unlinked"
        <5>1. k - 1 \in 1..Len(queue) - 1 /\ k - 1 + 1 = k
          BY <1>2
        <5> QED BY <5>1, <1>2, <1>3, <1>6
      <4> QED BY <4>1
    <3>2. t = <<x>> \o rest /\ n = Len(queue)
      BY <2>1
    <3> HIDE DEF t, n
    <3>3. t \in Seq(R) /\ Len(t) = n /\ n \in 1..Len(queue)
      BY <3>2, <1>2, <1>6
    <3>4. t[1].urb = queue[1] /\ t[1].status = e
      BY <3>2, <1>2, <1>4, <1>6
    <3>5. \A k \in 2..n : t[k].urb = queue[k] /\ t[k].status = "unlinked"
      BY <3>1, <3>2
    <3> QED BY <3>3, <3>4, <3>5, <1>2
  <2>2. CASE ~early
    BY <2>2, <1>2, <1>4, <1>5
  <2> QED BY <2>1, <2>2
<1>9. /\ queue' \in Seq(Urbs) /\ Len(queue') = Len(queue) - n
      /\ \A k \in 1..Len(queue) - n : queue'[k] = queue[n + k]
  BY <1>1, <1>2, EmptySeq
<1>10. done' \in Seq(R)
  <2> HIDE DEF t, R
  <2> QED BY <1>1, <1>7, <1>8, ConcatProperties
<1> HIDE DEF t, n
<1>11. Unmoved /\ Back' = Back + n /\ \A p \in Back + 1..Back + n : Line(p)' = t[p - Back]
  <2>1. n \in 0..Len(queue) /\ t \in Seq([urb : Urbs, status : Endings]) /\ Len(t) = n
    BY <1>2, <1>8
  <2>2. \A k \in 1..n : t[k].urb = queue[k]
    BY <1>8
  <2> QED BY <1>1, <1>7, <1>9, <2>1, <2>2, GivingBack
<1>12. ASSUME NEW p \in Back + 1..Back'
       PROVE Line(p)' = [urb |-> UrbAt(p),
       status |-> IF p = Back + 1 THEN e ELSE "unlinked"]
  <2>1. Back \in Nat /\ p - Back \in 1..n /\ p > Back /\ (p - Back = 1 <=> p = Back + 1)
    <3>1. Back \in Nat /\ Len(queue) \in Nat
      BY Facts
    <3> QED BY <3>1, <1>8, <1>11
  <2>2. t[p - Back] \in R
    BY <2>1, <1>8, ElementOfSeq
  <2>3. UrbAt(p) = queue[p - Back]
    BY <2>1 DEF UrbAt
  <2>4. t[p - Back].urb = UrbAt(p) /\ t[p - Back].status = IF p = Back + 1 THEN e ELSE "unlinked"
    BY <2>1, <2>3, <1>8
  <2>5. Line(p)' = t[p - Back]
    BY <1>11
  <2> QED BY <2>2, <2>4, <2>5
<1>0. Back \in Nat /\ Back' = Back + n /\ n \in Nat /\ n > 0
  BY <1>2, <1>8, <1>11, Facts
<1>13. (early /\ queue' = <<>> /\ Continued) \/ (~early /\ n = 1 /\ queue' = Tail(queue))
  BY <1>1 DEF n, early
<1> QED BY <1>0, <1>1, <1>9, <1>10, <1>11, <1>12, <1>13

LEMMA Unplugging ==
  ASSUME Core, Unplug
  PROVE /\ Unmoved /\ queue' = <<>> /\ Back' = Open
        /\ done' \in Seq([urb : Urbs, status : Endings])
        /\ \A p \in Back + 1..Back' : Line(p)' = [urb |-> UrbAt(p), status |-> "nodev"]
<1> DEFINE R == [urb : Urbs, status : Endings]
           t == Given(queue, "nodev")
           n == Len(queue)
<1>1. /\ queue \in Seq(Urbs) /\ done \in Seq(R) /\ queue' = <<>> /\ done' = done \o t
      /\ UNCHANGED <<reaped, op>>
  BY DEF Unplug, Core, SetupType, OpType, ReapedType, ListType, Given
<1>2. t \in Seq(R) /\ Len(t) = n /\ \A k \in 1..n : t[k].urb = queue[k] /\ t[k].status = "nodev"
  <2>1. "nodev" \in Endings
    BY DEF Endings
  <2> QED BY <2>1, <1>1, AllEnded
<1>3. n \in Nat /\ Back \in Nat
  BY Facts
<1>4. queue' \in Seq(Urbs) /\ Len(queue') = 0 /\ n - n = 0
  BY <1>1, <1>3, EmptySeq
<1> HIDE DEF t
<1>5. done' \in Seq(R)
  <2> HIDE DEF R
  <2> QED BY <1>1, <1>2, ConcatProperties
<1>6. Unmoved /\ Back' = Back + n /\ \A p \in Back + 1..Back + n : Line(p)' = t[p - Back]
  <2>1. n \in 0..Len(queue) /\ t \in Seq([urb : Urbs, status : Endings]) /\ Len(t) = n
    BY <1>2, <1>3
  <2>2. \A k \in 1..n : t[k].urb = queue[k]
    BY <1>2
  <2>3. Len(queue') = Len(queue) - n /\ \A k \in 1..Len(queue) - n : queue'[k] = queue[n + k]
    BY <1>3, <1>4
  <2> HIDE DEF n
  <2> QED BY <1>1, <1>4, <2>1, <2>2, <2>3, GivingBack
<1>7. ASSUME NEW p \in Back + 1..Back + n
      PROVE Line(p)' = [urb |-> UrbAt(p), status |-> "nodev"]
  <2>1. p - Back \in 1..n /\ p > Back
    BY <1>3
  <2>2. t[p - Back] \in R
    BY <2>1, <1>2, ElementOfSeq
  <2>3. UrbAt(p) = queue[p - Back]
    BY <2>1, <1>3 DEF UrbAt
  <2>4. t[p - Back].urb = UrbAt(p) /\ t[p - Back].status = "nodev"
    BY <2>1, <2>3, <1>2
  <2>5. Line(p)' = t[p - Back]
    BY <1>6
  <2> QED BY <2>2, <2>4, <2>5
<1>8. Back' = Open
  BY <1>6 DEF Open
<1> QED BY <1>1, <1>5, <1>6, <1>7, <1>8

(* An URB is queued behind the others.                                     *)
LEMMA Queueing ==
  ASSUME Core, OpInv, SubmitUrb
  PROVE /\ queue' \in Seq(Urbs) /\ Len(queue') = Len(queue) + 1
        /\ \A k \in 1..Len(queue) : queue'[k] = queue[k]
        /\ queue'[Len(queue) + 1] = op.next
        /\ Back' = Back /\ Open' = Open + 1
        /\ \A p \in 1..Back : Line(p)' = Line(p)
        /\ \A p \in 1..Open + 1 : UrbAt(p)' = IF p <= Open THEN UrbAt(p) ELSE op.next
<1>1. /\ queue \in Seq(Urbs) /\ op.next \in Urbs /\ queue' = Append(queue, op.next)
      /\ op.by # "complete" /\ op'.by # "complete" /\ UNCHANGED <<reaped, done>>
  BY Facts DEF Core, SetupType, OpType, ReapedType, ListType, OpInv, SubmitUrb,
      Submitting, NoOp
<1>2. /\ queue' \in Seq(Urbs) /\ Len(queue') = Len(queue) + 1
      /\ \A k \in 1..Len(queue) : queue'[k] = queue[k]
      /\ queue'[Len(queue) + 1] = op.next
  BY <1>1, AppendProperties
<1>3. Held' <=> Held
  BY <1>1 DEF Held
<1>4. Back \in Nat /\ Len(queue) \in Nat /\ Back' = Back /\ Open' = Open + 1
  <2>1. Back' = Back
    BY <1>1, <1>3 DEF Back
  <2>2. Back \in Nat /\ Len(queue) \in Nat
    BY Facts
  <2> QED BY <1>2, <2>1, <2>2 DEF Open
<1>5. \A p : Line(p)' = Line(p)
  BY <1>1, <1>3 DEF Line
<1>6. ASSUME NEW p \in 1..Open + 1 PROVE UrbAt(p)' = IF p <= Open THEN UrbAt(p) ELSE op.next
  <2>1. CASE p <= Back
    BY <2>1, <1>4, <1>5 DEF UrbAt, Open
  <2>2. CASE Back < p
    <3>1. UrbAt(p)' = queue'[p - Back] /\ UrbAt(p) = queue[p - Back]
      BY <2>2, <1>4 DEF UrbAt
    <3>2. p - Back \in 1..Len(queue) + 1
      BY <2>2, <1>4 DEF Open
    <3> QED BY <2>2, <3>1, <3>2, <1>2, <1>4 DEF Open
  <2> QED BY <2>1, <2>2, <1>4
<1> QED BY <1>2, <1>4, <1>5, <1>6

(* An URB is discarded: the last of the queue, or one that is not there.   *)
LEMMA Discarding1 ==
  ASSUME Core, QueueInv, DiscardUrb
  PROVE /\ op.next \in Urbs /\ op'.by = op.by /\ op'.first = op.first /\ op'.next = op.next - 1
        /\ op.next \in ToSet(queue) <=> queue # <<>>
        /\ queue = <<>> => UNCHANGED <<queue, done>>
        /\ queue # <<>> => /\ op'.ret = op.ret
                           /\ op.next = queue[Len(queue)] /\ queue' \in Seq(Urbs)
                           /\ Len(queue') = Len(queue) - 1
                           /\ \A k \in 1..Len(queue) - 1 : queue'[k] = queue[k]
                           /\ done' = Append(done, Ended(op.next, "unlinked"))
        /\ queue = <<>> => op'.ret = IF gone THEN "NO_DEVICE"
                                     ELSE IF op.next = NumUrbs THEN "NOT_FOUND" ELSE op.ret
<1>1. /\ Discarding /\ op.next >= op.first /\ op.first > 0 /\ op.first \in Nat
      /\ op.next \in 0..NumUrbs /\ queue \in Seq(Urbs)
  BY DEF DiscardUrb, Discarding, Core, SetupType, OpType, ReapedType, ListType
<1>2. /\ Top = op.next /\ Len(queue) \in Nat /\ DOMAIN queue = 1..Len(queue) /\ NumUrbs \in Nat
      /\ queue = <<>> <=> Len(queue) = 0
      /\ \A k \in 1..Len(queue) : queue[k] = op.next - Len(queue) + k
  BY <1>1, Facts DEF Top, QueueInv
<1>3. op.next \in Urbs
  BY <1>1, <1>2 DEF Urbs
<1>4. op.next \in ToSet(queue) <=> queue # <<>>
  BY <1>1, <1>2 DEF ToSet
<1>5. /\ op'.by = op.by /\ op'.first = op.first /\ op'.next = op.next - 1
      /\ op'.ret = IF op.next \in ToSet(queue) THEN op.ret
                   ELSE IF gone THEN "NO_DEVICE"
                   ELSE IF op.next = NumUrbs THEN "NOT_FOUND" ELSE op.ret
      /\ queue' = IF op.next \in ToSet(queue) THEN RemoveAt(queue, Position(op.next)) ELSE queue
      /\ done' = IF op.next \in ToSet(queue) THEN Append(done, Ended(op.next, "unlinked")) ELSE done
  BY DEF DiscardUrb, Core, SetupType, OpType, ReapedType, ListType
<1>6. ASSUME queue # <<>> PROVE Position(op.next) = Len(queue) /\ op.next = queue[Len(queue)]
  <2>1. \A k \in DOMAIN queue : queue[k] = op.next <=> k = Len(queue)
    BY <1>1, <1>2
  <2>2. Len(queue) \in DOMAIN queue
    BY <1>6, <1>2
  <2> QED BY <2>1, <2>2 DEF Position
<1>7. ASSUME queue # <<>>
      PROVE /\ queue' \in Seq(Urbs) /\ Len(queue') = Len(queue) - 1
            /\ \A k \in 1..Len(queue) - 1 : queue'[k] = queue[k]
  BY <1>7, <1>1, <1>4, <1>5, <1>6, LastRemoved
<1> QED BY <1>3, <1>4, <1>5, <1>6, <1>7

(* It goes before the rest of the queue.                                   *)
LEMMA Overtaking ==
  ASSUME Core, QueueInv, DiscardUrb, queue # <<>>
  PROVE /\ done' \in Seq([urb : Urbs, status : Endings])
        /\ Back' = Back + 1 /\ Open' = Open /\ Back < Open /\ UrbAt(Open) = op.next
        /\ \A p \in 1..Back : Line(p)' = Line(p)
        /\ \A p : p = Back + 1 => Line(p)' = [urb |-> op.next, status |-> "unlinked"]
        /\ \A p \in 1..Back : UrbAt(p)' = UrbAt(p)
        /\ \A p : p = Back + 1 => UrbAt(p)' = op.next
        /\ \A p \in Back + 2..Open : UrbAt(p)' = UrbAt(p - 1)
<1> DEFINE R == [urb : Urbs, status : Endings]
           x == Ended(op.next, "unlinked")
<1>1. /\ op.next \in Urbs /\ op'.by = op.by /\ op.next = queue[Len(queue)]
      /\ queue' \in Seq(Urbs) /\ Len(queue') = Len(queue) - 1
      /\ \A k \in 1..Len(queue) - 1 : queue'[k] = queue[k]
      /\ done' = Append(done, x) /\ done \in Seq(R) /\ reaped' = reaped
  BY Discarding1 DEF DiscardUrb, Core, SetupType, OpType, ReapedType, ListType
<1>2. x \in R /\ x = [urb |-> op.next, status |-> "unlinked"]
  BY <1>1 DEF Ended, Endings
<1> HIDE DEF x
<1>3. /\ done' \in Seq(R) /\ Len(done') = Len(done) + 1
      /\ \A k \in 1..Len(done) : done'[k] = done[k]
      /\ done'[Len(done) + 1] = x
  <2> HIDE DEF R
  <2> QED BY <1>1, <1>2, AppendProperties
<1>4. Len(done) \in Nat /\ Len(queue) \in Nat /\ Len(queue) > 0 /\ Back \in Nat
  BY Facts
<1>5. Held' <=> Held
  BY <1>1 DEF Held
<1>6. Back' = Back + 1 /\ Open' = Open /\ Open = Back + Len(queue)
  BY <1>1, <1>3, <1>4, <1>5 DEF Back, Open
<1>7. ASSUME NEW p \in 1..Back PROVE Line(p)' = Line(p)
  BY <1>1, <1>3, <1>4, <1>5 DEF Line, Back
<1>8. ASSUME NEW p, p = Back + 1 PROVE Line(p)' = x
  <2>1. CASE Held
    BY <2>1, <1>3, <1>4, <1>5, <1>8 DEF Line, Back
  <2>2. CASE ~Held
    BY <2>2, <1>3, <1>4, <1>5, <1>8 DEF Line, Back
  <2> QED BY <2>1, <2>2
<1>9. ASSUME NEW p \in 1..Back PROVE UrbAt(p)' = UrbAt(p)
  BY <1>4, <1>6, <1>7 DEF UrbAt
<1>10. ASSUME NEW p, p = Back + 1 PROVE UrbAt(p)' = op.next
  BY <1>2, <1>4, <1>6, <1>8, <1>10 DEF UrbAt
<1>11. ASSUME NEW p \in Back + 2..Open PROVE UrbAt(p)' = UrbAt(p - 1)
  <2>1. p - Back - 1 \in 1..Len(queue) - 1
    BY <1>4, <1>6
  <2>2. UrbAt(p)' = queue'[p - Back - 1] /\ UrbAt(p - 1) = queue[p - Back - 1]
    BY <1>4, <1>6 DEF UrbAt
  <2> QED BY <2>1, <2>2, <1>1
<1>12. UrbAt(Open) = op.next
  BY <1>1, <1>4, <1>6 DEF UrbAt
<1> QED BY <1>2, <1>3, <1>4, <1>6, <1>7, <1>8, <1>9, <1>10, <1>11, <1>12

(* The event thread accounts for the URB it holds.                         *)
LEMMA Accounting ==
  ASSUME Core, Handle
  PROVE /\ op.by = "none" /\ reaped # NoUrb /\ UNCHANGED <<done, queue, filled>>
        /\ reaped = Line(1) /\ UrbAt(1) = reaped.urb /\ Back >= 1
        /\ Back' = Back - 1 /\ Open' = Open - 1
        /\ \A p \in 1..Back - 1 : Line(p)' = Line(p + 1)
        /\ \A p \in 1..Open - 1 : UrbAt(p)' = UrbAt(p + 1)
<1>1. op.by = "none" /\ reaped # NoUrb /\ UNCHANGED <<done, queue, filled>>
  BY DEF Handle, BulkAbnormal, BulkNormal, Control, Iso, Handling, kernel
<1>2. reaped' = NoUrb \/ op'.by = "complete"
  <2>1. CASE BulkNormal
    BY <2>1 DEF BulkNormal, NoOp, Complete
  <2> QED BY <2>1 DEF Handle, BulkAbnormal, Control, Iso, Complete
<1>3. Held /\ ~Held'
  BY <1>1, <1>2 DEF Held
<1>4. Len(done) \in Nat /\ Len(queue) \in Nat
  BY Facts
<1>5. Back = Len(done) + 1 /\ Back' = Len(done) /\ Open' = Open - 1
  BY <1>1, <1>3, <1>4 DEF Back, Open
<1>6. Line(1) = reaped
  BY <1>3 DEF Line
<1>7. ASSUME NEW p \in 1..Back - 1 PROVE Line(p)' = Line(p + 1)
  BY <1>1, <1>3, <1>4, <1>5 DEF Line
<1>8. ASSUME NEW p \in 1..Open - 1 PROVE UrbAt(p)' = UrbAt(p + 1)
  <2>1. CASE p <= Back - 1
    BY <2>1, <1>4, <1>5, <1>7 DEF UrbAt
  <2>2. CASE p > Back - 1
    BY <2>2, <1>1, <1>4, <1>5 DEF UrbAt
  <2> QED BY <2>1, <2>2, <1>4, <1>5
<1>9. UrbAt(1) = reaped.urb
  BY <1>4, <1>5, <1>6 DEF UrbAt
<1> QED BY <1>1, <1>4, <1>5, <1>6, <1>7, <1>8, <1>9

(* Nothing is open.                                                        *)
LEMMA NothingOpen ==
  ASSUME queue = <<>>, done = <<>>, reaped = NoUrb
  PROVE Back = 0 /\ Open = 0
  BY EmptySeq DEF Back, Open, Held

-----------------------------------------------------------------------------
(* Unless a cancellation has begun to take URBs back, or something has     *)
(* gone wrong, the open URBs are the ones after the retired ones, in order.*)
OrderInv ==
  /\ urbs /\ reap_action = "NORMAL" /\ ~TakenBack => \A p \in 1..Open : UrbAt(p) = num_retired + p
  /\ \A p, q \in 1..Open : p # q => UrbAt(p) # UrbAt(q)

(* What the endings tell.                                                  *)
StatusInv ==
  \A p \in 1..Back :
    /\ Line(p).status = "stall" => /\ Line(p).urb >= StallFrom /\ stalled
                                   /\ Continued => halted
    /\ Line(p).status = "nodev" => gone
    /\ Line(p).status = "overflow" => Line(p).urb = NumUrbs
    /\ Line(p).status = "unlinked" /\ type # "bulk" => TakenBack \/ reap_action = "SUBMIT_FAILED"

(* What the counters come to, and who is never torn down.                  *)
BoundInv ==
  /\ num_retired <= NumUrbs
  /\ NumUrbs = 1 => reap_action # "SUBMIT_FAILED"
  /\ type # "bulk" => transferred <= length /\ (urbs => transferred = 0)

(* The part of the invariant that does not look at data.                   *)
ControlInv ==
  Core /\ OpInv /\ LifeInv /\ CountInv /\ QueueInv /\ OrderInv /\ StatusInv /\ BoundInv

(* In a normal transfer the next URB is the one that is handled.           *)
LEMMA Normally ==
  ASSUME ControlInv, Handle
  PROVE /\ urbs /\ op = NoOp /\ ~Submitting /\ ~Discarding /\ Submitted = NumUrbs
        /\ num_retired + Open = NumUrbs /\ Open \in Nat /\ Open >= 1 /\ answer = "none"
        /\ TakenBack <=> reap_action = "CANCELLED"
        /\ reap_action = "NORMAL" => /\ reaped.urb = num_retired + 1
                                     /\ \A p \in 1..Open : UrbAt(p) = num_retired + p
<1>1. /\ op.by = "none" /\ reaped # NoUrb /\ UrbAt(1) = reaped.urb /\ Back >= 1
      /\ Open \in Nat /\ Open = Back + Len(queue) /\ Len(queue) \in Nat
  BY Accounting, Facts DEF ControlInv, Open
<1>2. urbs /\ op = NoOp /\ answer = "none" /\ ~Submitting /\ ~Discarding
  BY <1>1 DEF ControlInv, OpInv, LifeInv, Submitting, Discarding
<1>3. Submitted = NumUrbs /\ num_retired + Open = NumUrbs
  BY <1>2 DEF Submitted, ControlInv, CountInv
<1>4. TakenBack <=> reap_action = "CANCELLED"
  BY <1>1 DEF TakenBack
<1>5. ASSUME reap_action = "NORMAL" PROVE \A p \in 1..Open : UrbAt(p) = num_retired + p
  BY <1>2, <1>4, <1>5 DEF ControlInv, OrderInv
<1>6. Back \in Nat /\ Open >= 1 /\ 1 \in 1..Open
  BY <1>1, Facts DEF ControlInv
<1> QED BY <1>1, <1>2, <1>3, <1>4, <1>5, <1>6

-----------------------------------------------------------------------------
(* Types.                                                                  *)
LEMMA Bytes ==
  ASSUME Core, NEW i \in Urbs, NEW k \in transferred + 1..transferred + filled[i]
  PROVE /\ k - transferred \in 1..filled[i] /\ Offset(i) + k - transferred \in 1..length
        /\ Offset(i) \in Nat
<1>1. filled[i] <= UrbLength(i) /\ filled[i] \in Nat /\ transferred \in Nat
  BY DEF Core, FillType, DataType
<1>2. /\ Offset(i) \in Nat /\ UrbLength(i) \in Nat /\ length \in Nat
      /\ Offset(i) + UrbLength(i) <= length
  BY Places DEF Core, SetupType, OpType, ReapedType, ListType
<1> QED BY <1>1, <1>2

LEMMA TypesKept ==
  ASSUME Core, UNCHANGED setup
  PROVE /\ SetupType'
        /\ UNCHANGED priv => PrivType'
        /\ UNCHANGED data => DataType'
        /\ UNCHANGED op => OpType'
        /\ UNCHANGED reaped => ReapedType'
        /\ UNCHANGED <<asked, gone, detached, halted, stalled, answer>> => FlagsType'
        /\ UNCHANGED <<queue, done>> => ListType'
        /\ UNCHANGED <<filled, sent>> => FillType'
<1>1. UNCHANGED length /\ NumUrbs' = NumUrbs /\ Urbs' = Urbs /\ \A i : UrbLength(i)' = UrbLength(i)
  BY Same DEF setup
<1>2. SetupType'
  BY DEF SetupType, Core, setup
<1>3. UNCHANGED priv => PrivType'
  BY DEF PrivType, Core, priv
<1>4. UNCHANGED data => DataType'
  BY <1>1 DEF DataType, Core, data
<1>5. UNCHANGED op => OpType'
  BY <1>1 DEF OpType, Core
<1>6. UNCHANGED reaped => ReapedType'
  BY <1>1 DEF ReapedType, Core
<1>7. UNCHANGED <<asked, gone, detached, halted, stalled, answer>> => FlagsType'
  BY DEF FlagsType, Core
<1>8. UNCHANGED <<queue, done>> => ListType'
  BY <1>1 DEF ListType, Core
<1>9. UNCHANGED <<filled, sent>> => FillType'
  BY <1>1 DEF FillType, Core
<1> QED BY <1>2, <1>3, <1>4, <1>5, <1>6, <1>7, <1>8, <1>9

LEMMA CoreStep ==
  ASSUME ControlInv, [UsbfsNext]_vars
  PROVE Core'
<1> DEFINE Ops == [by : {"none", "submit", "cancel", "complete"}, first : Nat,
                   next : 0..NumUrbs, ret : {"SUCCESS", "NOT_FOUND", "NO_DEVICE"}]
<1>0. /\ UNCHANGED setup /\ UNCHANGED length
      /\ NumUrbs' = NumUrbs /\ Urbs' = Urbs /\ \A i : UrbLength(i)' = UrbLength(i)
  BY StepsKeepSetup, Same DEF setup
<1>1. Core /\ OpInv /\ QueueInv
  BY DEF ControlInv
<1>a. /\ NumUrbs \in Nat /\ NumUrbs > 0 /\ Urbs = 1..NumUrbs /\ length \in Nat
      /\ \A i \in Urbs : UrbLength(i) \in Nat
  BY <1>1, Places, Facts DEF Core, SetupType
<1>b. OpType /\ op \in Ops
  BY <1>1 DEF Core, OpType
<1>c. NoOp \in Ops
  BY <1>a DEF NoOp
<1> USE DEF setup, priv, data, kernel, world
<1>2. CASE Submit
  <2>1. OpType'
    <3>1. op' = [by |-> "submit", first |-> 0, next |-> 1, ret |-> "SUCCESS"]
      BY <1>2 DEF Submit, NoOp
    <3>2. op' \in Ops
      BY <3>1, <1>a
    <3> QED BY <3>2, <1>0 DEF OpType
  <2>2. PrivType' /\ DataType' /\ FillType'
    BY <1>2, <1>0, <1>a DEF Submit, PrivType, DataType, FillType
  <2>3. FlagsType'
    BY <1>1, <1>2 DEF Submit, Core, FlagsType
  <2> QED BY <1>0, <1>1, <1>2, <2>1, <2>2, <2>3, TypesKept DEF Submit, Core
<1>3. CASE SubmitUrb
  <2>1. OpType'
    BY <1>1, <1>3, <1>0, <1>a, <1>b, <1>c DEF SubmitUrb, OpType
  <2>2. ListType'
    BY <1>1, <1>3, <1>0, Queueing DEF SubmitUrb, ListType, Core
  <2> QED BY <1>0, <1>1, <1>3, <2>1, <2>2, TypesKept DEF SubmitUrb, Core
<1>4. CASE FirstUrbFails \/ LaterUrbFails
  <2>1. op' = NoOp \/ (op.next > 1 /\ op' = [op EXCEPT !.first = 1, !.next = @ - 1])
    BY <1>4 DEF FirstUrbFails, LaterUrbFails
  <2>2. op' \in Ops
    <3>1. CASE op.next > 1 /\ op' = [op EXCEPT !.first = 1, !.next = @ - 1]
      <4>1. op' = [by |-> op.by, first |-> 1, next |-> op.next - 1, ret |-> op.ret]
        BY <3>1, <1>b
      <4>2. op.next - 1 \in 0..NumUrbs /\ 1 \in Nat
        BY <3>1, <1>a, <1>b
      <4> QED BY <4>1, <4>2, <1>b
    <3> QED BY <2>1, <3>1, <1>c
  <2>3. OpType'
    BY <2>2, <1>0 DEF OpType
  <2>4. PrivType
    BY <1>1 DEF Core
  <2>5. num_retired' \in Nat
    <3>1. op.next \in 0..NumUrbs /\ num_retired \in Nat
      BY <2>4, <1>b DEF PrivType
    <3> QED BY <3>1, <1>4, <1>a DEF FirstUrbFails, LaterUrbFails
  <2>6. PrivType'
    BY <2>4, <2>5, <1>4 DEF FirstUrbFails, LaterUrbFails, PrivType
  <2> QED BY <1>0, <1>1, <1>4, <2>3, <2>6, TypesKept DEF FirstUrbFails, LaterUrbFails,
          Core
<1>5. CASE DiscardUrb
  <2>1. OpType'
    <3>1. /\ op.next \in 0..NumUrbs /\ op.first \in Nat /\ op.first > 0 /\ op.next >= op.first
          /\ op.ret \in {"SUCCESS", "NOT_FOUND", "NO_DEVICE"}
      BY <1>5, <1>b DEF DiscardUrb, Discarding
    <3>2. PICK r \in {"SUCCESS", "NOT_FOUND", "NO_DEVICE"} : op' = [op EXCEPT !.next = @ - 1, !.ret = r]
      BY <1>5, <3>1 DEF DiscardUrb
    <3>3. op' = [by |-> op.by, first |-> op.first, next |-> op.next - 1, ret |-> r]
      BY <3>2, <1>b
    <3>4. op.next - 1 \in 0..NumUrbs
      BY <3>1, <1>a
    <3>5. op' \in Ops
      BY <3>3, <3>4, <1>b
    <3> QED BY <3>5, <1>0 DEF OpType
  <2>2. ListType'
    BY <1>0, <1>1, <1>5, Discarding1, Overtaking DEF ListType, Core
  <2> QED BY <1>0, <1>1, <1>5, <2>1, <2>2, TypesKept DEF DiscardUrb, Core
<1>6. CASE Discarded \/ Cancel
  <2>1. OpType'
    <3>1. op' = NoOp \/ op' = [by |-> "cancel", first |-> 1, next |-> NumUrbs, ret |-> "SUCCESS"]
      BY <1>6 DEF Discarded, Cancel, NoOp
    <3>2. op' \in Ops
      BY <3>1, <1>a, <1>c
    <3> QED BY <3>2, <1>0 DEF OpType
  <2>2. PrivType /\ ReapedType /\ FlagsType
    BY <1>1 DEF Core
  <2>3. PrivType'
    BY <2>2, <1>6 DEF Discarded, Cancel, PrivType
  <2>4. ReapedType'
    BY <1>0, <2>2, <1>6 DEF Discarded, Cancel, ReapedType
  <2>5. FlagsType'
    BY <2>2, <1>6 DEF Discarded, Cancel, FlagsType
  <2> QED BY <1>0, <1>1, <1>6, <2>1, <2>3, <2>4, <2>5, TypesKept DEF Discarded, Cancel,
          Core
<1>7. CASE Reap
  <2>1. ReapedType' /\ ListType'
    BY <1>0, <1>1, <1>7, Reaping DEF Reap, ReapedType, ListType, Core
  <2> QED BY <1>0, <1>1, <1>7, <2>1, TypesKept DEF Reap, Core
<1>8. ASSUME Handle PROVE Core'
  <2>1. /\ reaped.urb \in Urbs /\ reaped.status \in Endings /\ UNCHANGED <<queue, done, filled, sent>>
        /\ UNCHANGED <<asked, gone, detached, halted, stalled>>
    BY <1>8, <1>1, Facts DEF Handle, BulkAbnormal, BulkNormal, Control, Iso, Handling
  <2>2. filled[reaped.urb] \in Nat /\ transferred \in Nat /\ num_retired \in Nat
    BY <1>1, <2>1 DEF Core, FillType, DataType, PrivType
  <2>3. ReapedType'
    BY <1>0, <1>1, <1>8
    DEF Handle, BulkAbnormal, BulkNormal, Control, Iso, Complete, ReapedType, Core
  <2>4. OpType'
    <3>1. \/ op' = op
          \/ op' = [by |-> "complete", first |-> reaped.urb + 1, next |-> NumUrbs, ret |-> "SUCCESS"]
      BY <1>8 DEF Handle, BulkAbnormal, BulkNormal, Control, Iso, NoOp
    <3>2. reaped.urb + 1 \in Nat
      BY <2>1, <1>a
    <3>3. op' \in Ops
      BY <3>1, <3>2, <1>a, <1>b
    <3> QED BY <3>3, <1>0 DEF OpType
  <2>5. DataType'
    <3>1. transferred' \in Nat
      BY <1>8, <2>2 DEF Handle, BulkAbnormal, BulkNormal, Control, Iso
    <3>2. CASE UNCHANGED buffer
      BY <1>0, <1>1, <3>1, <3>2 DEF DataType, Core
    <3>3. CASE BulkAbnormal
      <4>1. buffer \in [1..length -> 0..length]
        BY <1>1 DEF Core, DataType
      <4>2. ASSUME NEW k \in transferred + 1..transferred + filled[reaped.urb]
            PROVE buffer[Offset(reaped.urb) + k - transferred] \in 0..length
        BY <1>1, <2>1, <4>1, <4>2, Bytes
      <4>3. buffer' \in [1..length -> 0..length]
        BY <3>3, <4>1, <4>2 DEF BulkAbnormal, MoveSurplus
      <4> QED BY <1>0, <3>1, <4>3 DEF DataType
    <3> QED BY <1>8, <3>2, <3>3 DEF Handle, BulkNormal, Control, Iso
  <2>6. PrivType' /\ FlagsType'
    <3>1. num_retired' \in Nat
      BY <1>8, <2>2 DEF Handle, BulkAbnormal, BulkNormal, Control, Iso
    <3>2. StatusOf(reaped.status) \in {"COMPLETED", "CANCELLED", "ERROR", "STALL", "OVERFLOW", "NO_DEVICE"}
      BY <2>1 DEF StatusOf, Endings
    <3>3. /\ reap_status' \in {"COMPLETED", "ERROR", "STALL", "OVERFLOW", "NO_DEVICE"}
          /\ reap_action' \in {"NORMAL", "SUBMIT_FAILED", "CANCELLED", "COMPLETED_EARLY", "ERROR"}
          /\ urbs' \in BOOLEAN
      BY <1>1, <1>8
      DEF Handle, BulkAbnormal, BulkNormal, Control, Iso, Complete, Core, PrivType
    <3>4. FlagsType'
      BY <1>1, <1>8, <2>1, <3>2, <3>3
      DEF Handle, BulkAbnormal, BulkNormal, Control, Iso, Complete, Core, FlagsType
    <3> QED BY <3>1, <3>3, <3>4 DEF PrivType
  <2> QED BY <1>0, <1>1, <2>1, <2>3, <2>4, <2>5, <2>6, TypesKept DEF Core
<1>12. CASE Callback \/ Detach
  <2>1. PrivType' /\ FlagsType' /\ ListType'
    BY <1>0, <1>1, <1>12, EmptySeq DEF Callback, Detach, PrivType, FlagsType, ListType,
        Core
  <2> QED BY <1>0, <1>1, <1>12, <2>1, TypesKept DEF Callback, Detach, Core
<1>13. CASE Receive
  <2>1. Head(queue) \in Urbs /\ filled[Head(queue)] < UrbLength(Head(queue))
    BY <1>13, <1>1, HeadTailProperties DEF Receive, Core, ListType
  <2>2. /\ filled \in [Urbs -> Nat] /\ \A i \in Urbs : filled[i] <= UrbLength(i)
        /\ sent \in 0..length /\ buffer \in [1..length -> 0..length] /\ transferred \in Nat
    BY <1>1 DEF Core, FillType, DataType
  <2>3. FillType'
    <3>1. filled' = [filled EXCEPT ![Head(queue)] = @ + 1] /\ sent' = sent + 1 /\ sent < length
      BY <1>13 DEF Receive
    <3>2. filled' \in [Urbs -> Nat] /\ sent' \in 0..length
      BY <1>a, <2>1, <2>2, <3>1
    <3>3. \A i \in Urbs : filled'[i] <= UrbLength(i)
      BY <1>a, <2>1, <2>2, <3>1
    <3> QED BY <1>0, <3>2, <3>3 DEF FillType
  <2>4. DataType'
    <3>1. /\ buffer' = [buffer EXCEPT ![Offset(Head(queue)) + filled[Head(queue)] + 1] = sent + 1]
          /\ UNCHANGED transferred /\ sent < length
      BY <1>13 DEF Receive
    <3>2. sent + 1 \in 0..length
      BY <3>1, <2>2, <1>a
    <3>3. buffer' \in [1..length -> 0..length]
      BY <3>1, <3>2, <2>2
    <3> QED BY <1>0, <2>2, <3>1, <3>3 DEF DataType
  <2> QED BY <1>0, <1>1, <1>13, <2>3, <2>4, TypesKept DEF Receive, Core
<1>14. ASSUME NEW e \in Endings \ {"unlinked", "nodev"}, EndUrb(e) PROVE Core'
  <2>1. ListType'
    BY <1>0, <1>1, <1>14, Ending DEF ListType
  <2>2. FlagsType'
    BY <1>1, <1>14 DEF EndUrb, Core, FlagsType
  <2> QED BY <1>0, <1>1, <1>14, <2>1, <2>2, TypesKept DEF EndUrb, Core
<1>15. CASE Unplug
  <2>1. ListType'
    BY <1>0, <1>1, <1>15, Unplugging, EmptySeq DEF ListType
  <2>2. FlagsType'
    BY <1>1, <1>15 DEF Unplug, Core, FlagsType
  <2> QED BY <1>0, <1>1, <1>15, <2>1, <2>2, TypesKept DEF Unplug, Core
<1>16. CASE UNCHANGED vars
  BY <1>0, <1>1, <1>16, TypesKept DEF vars, Core
<1> QED BY <1>2, <1>3, <1>4, <1>5, <1>6, <1>7, <1>8, <1>12, <1>13, <1>14, <1>15, <1>16
        DEF UsbfsNext, Submission

-----------------------------------------------------------------------------
(* The operations' loops.                                                  *)
LEMMA StillTaken ==
  ASSUME ControlInv, DiscardUrb \/ Discarded, TakenBack
  PROVE TakenBack'
<1>1. OpType /\ QueueInv
  BY DEF ControlInv, Core
<1>0. NumUrbs' = NumUrbs
  BY Same DEF DiscardUrb, Discarded, setup
<1>2. CASE DiscardUrb
  <2>1. CASE reap_action = "CANCELLED"
    BY <1>2, <2>1 DEF DiscardUrb, TakenBack, priv
  <2>2. CASE op.by = "cancel" /\ op.next < NumUrbs /\ op.ret = "SUCCESS"
    <3>1. ~gone
      BY <1>1, <2>2 DEF QueueInv, TakenBack
    <3>2. /\ op'.by = op.by /\ op'.next = op.next - 1 /\ op.next \in Urbs
          /\ op'.ret = "SUCCESS"
      <4>1. /\ op'.by = op.by /\ op'.next = op.next - 1 /\ op.next \in Urbs
            /\ queue # <<>> => op'.ret = op.ret
            /\ queue = <<>> => op'.ret = IF gone THEN "NO_DEVICE"
                                         ELSE IF op.next = NumUrbs THEN "NOT_FOUND" ELSE op.ret
        BY <1>1, <1>2, Discarding1 DEF ControlInv
      <4>2. op.next # NumUrbs
        BY <2>2, <4>1, Facts DEF ControlInv, Urbs
      <4> QED BY <2>2, <3>1, <4>1, <4>2
    <3>3. op.next \in Int /\ NumUrbs \in Int
      BY <3>2, Facts DEF ControlInv, Urbs
    <3> QED BY <1>0, <2>2, <3>2, <3>3 DEF TakenBack
  <2> QED BY <2>1, <2>2 DEF TakenBack
<1>3. CASE Discarded
  BY <1>1, <1>3 DEF Discarded, TakenBack, QueueInv
<1> QED BY <1>2, <1>3

LEMMA OpStep ==
  ASSUME ControlInv, [UsbfsNext]_vars
  PROVE OpInv'
<1>0. /\ OpInv /\ LifeInv /\ CountInv /\ Core /\ NumUrbs' = NumUrbs /\ UNCHANGED setup
      /\ NumUrbs \in Nat /\ NumUrbs > 0
  BY StepsKeepSetup, Same, Facts DEF ControlInv
<1>1. /\ op.next \in 0..NumUrbs /\ op.first \in Nat /\ num_retired \in Nat
      /\ op \in [by : {"none", "submit", "cancel", "complete"}, first : Nat,
                 next : 0..NumUrbs, ret : {"SUCCESS", "NOT_FOUND", "NO_DEVICE"}]
  BY <1>0 DEF Core, OpType, PrivType
<1>2. NoOp.by = "none" /\ NoOp.first = 0
  BY DEF NoOp
<1> USE DEF setup, priv, data, kernel, world
<1>3. CASE Submit
  <2>1. /\ op'.by = "submit" /\ op'.first = 0 /\ op'.next = 1 /\ urbs' /\ reap_action' = "NORMAL"
        /\ num_retired' = 0 /\ transferred' = 0
    BY <1>3 DEF Submit, NoOp
  <2> QED BY <1>0, <2>1 DEF OpInv, Submitting
<1>4. CASE SubmitUrb
  <2>1. CASE op.next = NumUrbs
    <3>1. op' = NoOp /\ UNCHANGED <<asked, reap_action>>
      BY <1>4, <2>1 DEF SubmitUrb
    <3> QED BY <1>0, <1>2, <3>1 DEF OpInv, Submitting
  <2>2. CASE op.next # NumUrbs
    <3>1. /\ op' = [op EXCEPT !.next = @ + 1] /\ Submitting
          /\ UNCHANGED <<asked, reap_action, urbs, num_retired, transferred>>
      BY <1>4, <2>2 DEF SubmitUrb
    <3>2. op'.by = "submit" /\ op'.first = 0 /\ op'.next = op.next + 1
      BY <1>1, <3>1 DEF Submitting
    <3>3. op'.next <= NumUrbs /\ op'.next >= 1
      BY <1>0, <1>1, <2>2, <3>2
    <3> QED BY <1>0, <1>1, <3>1, <3>2, <3>3 DEF OpInv, Submitting
  <2> QED BY <2>1, <2>2
<1>5. CASE FirstUrbFails
  <2>1. op' = NoOp /\ UNCHANGED <<asked, reap_action>>
    BY <1>5 DEF FirstUrbFails
  <2> QED BY <1>0, <1>2, <2>1 DEF OpInv, Submitting
<1>6. CASE LaterUrbFails
  <2>1. CASE EndedEarly
    <3>1. op' = NoOp /\ UNCHANGED asked /\ reap_action' = "COMPLETED_EARLY"
      BY <1>6, <2>1 DEF LaterUrbFails
    <3> QED BY <1>0, <1>2, <3>1 DEF OpInv, Submitting
  <2>2. CASE ~EndedEarly
    <3>1. /\ op' = [op EXCEPT !.first = 1, !.next = @ - 1] /\ op.by = "submit" /\ op.next > 1
          /\ reap_action' = "SUBMIT_FAILED" /\ UNCHANGED <<asked, urbs>>
      BY <1>6, <2>2 DEF LaterUrbFails, Submitting
    <3>2. op'.by = "submit" /\ op'.first = 1 /\ op'.next = op.next - 1
      BY <1>1, <3>1
    <3> QED BY <1>0, <1>1, <3>1, <3>2 DEF OpInv, Submitting
  <2> QED BY <2>1, <2>2
<1>7. CASE DiscardUrb
  <2>1. /\ op'.by = op.by /\ op'.first = op.first /\ op'.next = op.next - 1
        /\ op.first > 0 /\ op.next >= op.first /\ op.by # "none"
    BY <1>7, Discarding1 DEF DiscardUrb, Discarding, ControlInv
  <2>2. UNCHANGED <<asked, reap_action, urbs, reaped, type>>
    BY <1>7 DEF DiscardUrb
  <2> QED BY <1>0, <1>1, <2>1, <2>2 DEF OpInv, Submitting
<1>8. CASE Discarded
  <2>1. op' = NoOp /\ UNCHANGED asked
    BY <1>8 DEF Discarded
  <2>2. reap_action' = "CANCELLED" => asked
    BY <1>0, <1>8 DEF Discarded, OpInv
  <2> QED BY <1>0, <1>2, <2>1, <2>2 DEF OpInv, Submitting
<1>9. CASE Cancel
  <2>1. op' = [by |-> "cancel", first |-> 1, next |-> NumUrbs, ret |-> "SUCCESS"]
    BY <1>9 DEF Cancel, NoOp
  <2>2. op'.by = "cancel" /\ op'.first = 1
    BY <2>1
  <2>3. urbs /\ ~asked /\ asked' /\ UNCHANGED <<reap_action, urbs>>
    BY <1>9 DEF Cancel
  <2> QED BY <1>0, <2>2, <2>3 DEF OpInv, Submitting
<1>10. CASE Handle
  <2>1. /\ op = NoOp /\ reaped.urb \in Nat /\ urbs /\ reaped # NoUrb /\ UNCHANGED asked
        /\ reaped.urb \in Urbs
    BY <1>0, <1>10, Normally, Facts
    DEF Handle, BulkAbnormal, BulkNormal, Control, Iso, Handling
  <2>2. CASE UNCHANGED op
    <3>1. reap_action' = "CANCELLED" => reap_action = "CANCELLED"
      BY <1>10 DEF Handle, BulkAbnormal, BulkNormal, Control, Iso
    <3> QED BY <1>0, <1>2, <2>1, <2>2, <3>1 DEF OpInv, Submitting
  <2>3. CASE ~UNCHANGED op
    <3>1. /\ BulkNormal /\ op' = [NoOp EXCEPT !.by = "complete", !.first = reaped.urb + 1,
                                     !.next = NumUrbs]
          /\ UNCHANGED <<urbs, reaped>> /\ num_retired' = num_retired + 1
          /\ Remaining(num_retired') /\ type = "bulk" /\ reap_action = "NORMAL"
      BY <1>10, <2>3 DEF Handle, BulkAbnormal, BulkNormal, Control, Iso, Handling
    <3>2. op'.by = "complete" /\ op'.first = reaped.urb + 1
      BY <3>1 DEF NoOp
    <3>3. reaped.urb < NumUrbs
      <4>1. reaped.urb = num_retired + 1
        BY <1>10, <3>1, Normally
      <4>2. num_retired + 1 # NumUrbs
        BY <3>1 DEF Remaining
      <4> QED BY <4>1, <4>2, <1>0, <2>1, Facts DEF Urbs
    <3>4. reap_action' \in {"NORMAL", "ERROR", "COMPLETED_EARLY"}
      BY <3>1 DEF BulkNormal
    <3> QED BY <1>0, <2>1, <3>1, <3>2, <3>3, <3>4 DEF OpInv, Submitting
  <2> QED BY <2>2, <2>3
<1>11. CASE Reap
  <2>1. reaped = NoUrb /\ UNCHANGED <<op, asked, urbs, reap_action, num_retired, transferred>>
    BY <1>11 DEF Reap
  <2> QED BY <1>0, <2>1 DEF OpInv, Submitting
<1>12. CASE Detach
  <2>1. op.by = "none" /\ UNCHANGED <<op, asked, reap_action>>
    BY <1>12 DEF Detach
  <2> QED BY <1>0, <2>1 DEF OpInv, Submitting
<1>13. CASE Callback \/ Receive \/ (\E e \in Endings \ {"unlinked", "nodev"} : EndUrb(e)) \/ Unplug \/ UNCHANGED vars
  <2>1. UNCHANGED <<op, asked, urbs, reap_action, num_retired, transferred, reaped>> /\ type' = type
    BY <1>13 DEF Callback, Receive, EndUrb, Unplug, vars
  <2> QED BY <1>0, <2>1 DEF OpInv, Submitting
<1> QED BY <1>3, <1>4, <1>5, <1>6, <1>7, <1>8, <1>9, <1>10, <1>11, <1>12, <1>13
        DEF UsbfsNext, Submission

-----------------------------------------------------------------------------
(* The URBs that are open.                                                 *)
LEMMA NoneOpen ==
  ASSUME Core, Open = 0
  PROVE queue = <<>> /\ done = <<>> /\ ~Held
<1>1. Len(queue) \in Nat /\ Len(done) \in Nat
  BY Facts
<1>2. Back \in Nat /\ Back = 0 /\ Len(queue) = 0
  BY <1>1, Facts DEF Open
<1>3. ~Held /\ Len(done) = 0
  BY <1>1, <1>2 DEF Back
<1> QED BY <1>2, <1>3, Facts

(* A transfer that ends in the order of its URBs has none open any more.   *)
LEMMA AllBack ==
  ASSUME ControlInv, Handle, ~urbs'
  PROVE queue = <<>> /\ done' = <<>> /\ reaped' = NoUrb
<1>1. /\ num_retired + Open = NumUrbs /\ Open \in Nat /\ Open >= 1
      /\ reap_action = "NORMAL" => reaped.urb = num_retired + 1
      /\ Core /\ Core' /\ Open' = Open - 1 /\ UNCHANGED queue
  <2>1. [UsbfsNext]_vars
    BY DEF UsbfsNext
  <2> QED BY <2>1, Normally, Accounting, CoreStep DEF ControlInv
<1>2. num_retired \in Nat /\ NumUrbs \in Nat /\ urbs
  BY <1>1, Facts, Normally DEF Core, PrivType
<1>3. Open = 1
  <2>1. CASE BulkAbnormal
    <3>1. num_retired + 1 = NumUrbs
      BY <2>1, <1>2 DEF BulkAbnormal
    <3> QED BY <3>1, <1>1, <1>2
  <2>2. CASE BulkNormal
    <3>1. reaped.urb = num_retired + 1
      BY <2>2, <1>1 DEF BulkNormal
    <3>2. reaped.status = "overflow" => reaped.urb = NumUrbs
      BY Accounting, Facts, <1>1 DEF ControlInv, StatusInv
    <3>3. reaped.urb = NumUrbs \/ num_retired + 1 = NumUrbs
      BY <2>2, <1>2, <3>2 DEF BulkNormal, Remaining
    <3> QED BY <3>1, <3>3, <1>1, <1>2
  <2>3. CASE Control
    BY <2>3, <1>1, <1>2, Setup DEF Control, Handling, Core, SetupType
  <2>4. CASE Iso
    <3>1. num_retired + 1 = NumUrbs
      BY <2>4, <1>1, <1>2 DEF Iso
    <3> QED BY <3>1, <1>1, <1>2
  <2> QED BY <2>1, <2>2, <2>3, <2>4 DEF Handle
<1>4. reaped' = NoUrb
  BY <1>2 DEF Handle, BulkAbnormal, BulkNormal, Control, Iso, Complete
<1>5. Open' = 0
  BY <1>1, <1>3
<1>6. queue' = <<>> /\ done' = <<>>
  <2>1. /\ Len(queue)' \in Nat /\ Len(done)' \in Nat
        /\ (queue' = <<>> <=> Len(queue)' = 0) /\ (done' = <<>> <=> Len(done)' = 0)
    BY <1>1, Lengths0 DEF Core, ListType
  <2>2. ~Held'
    BY <1>4 DEF Held
  <2> QED BY <1>5, <2>1, <2>2 DEF Open, Back
<1> QED BY <1>1, <1>4, <1>6

LEMMA CountStep ==
  ASSUME ControlInv, [UsbfsNext]_vars
  PROVE CountInv'
<1>0. /\ OpInv /\ LifeInv /\ CountInv /\ Core /\ NumUrbs' = NumUrbs /\ NumUrbs \in Nat
      /\ Open \in Nat /\ op.next \in 0..NumUrbs /\ num_retired \in Nat
  BY StepsKeepSetup, Same, Facts DEF ControlInv, Core, OpType, PrivType
<1>1. NoOp.by = "none"
  BY DEF NoOp
<1>2. ASSUME Open' = Open, UNCHANGED <<urbs, num_retired, op>>
      PROVE CountInv'
  <2>1. Submitted' = Submitted
    BY <1>2, <1>0 DEF Submitted, Submitting
  <2> QED BY <1>0, <1>2, <2>1 DEF CountInv
<1> USE DEF setup, priv, data, kernel, world
<1>3. CASE Submit
  <2>1. queue' = <<>> /\ done' = <<>> /\ reaped' = NoUrb
    BY <1>0, <1>3 DEF Submit, LifeInv
  <2>2. Open' = 0
    BY <2>1, EmptySeq DEF Open, Back, Held
  <2>3. Submitted' = 0 /\ num_retired' = 0
    BY <1>3 DEF Submit, NoOp, Submitted, Submitting
  <2> QED BY <2>2, <2>3 DEF CountInv
<1>4. CASE SubmitUrb
  <2>1. Open' = Open + 1 /\ UNCHANGED <<urbs, num_retired>>
    BY <1>0, <1>4, Queueing DEF SubmitUrb
  <2>2. urbs => num_retired + Open = op.next - 1
    BY <1>0, <1>4 DEF SubmitUrb, CountInv, Submitted
  <2>3. Submitted' = op.next
    BY <1>0, <1>1, <1>4 DEF SubmitUrb, Submitted, Submitting, Core, OpType
  <2> QED BY <1>0, <2>1, <2>2, <2>3 DEF CountInv
<1>5. CASE FirstUrbFails
  BY <1>5 DEF FirstUrbFails, CountInv
<1>6. CASE LaterUrbFails
  <2>1. Submitting /\ UNCHANGED <<reaped, queue, done, urbs>> /\ num_retired = 0
        /\ num_retired' = num_retired + NumUrbs - (op.next - 1)
    BY <1>0, <1>6 DEF LaterUrbFails, OpInv
  <2>2. op' = NoOp \/ (op'.by = op.by /\ op'.first = 1)
    BY <1>0, <1>6 DEF LaterUrbFails, Core, OpType
  <2>3. Open' = Open
    BY <1>0, <1>1, <2>1, <2>2, Still DEF Submitting, Unmoved
  <2>4. Submitted' = NumUrbs
    BY <1>0, <1>1, <2>2 DEF Submitted, Submitting
  <2>5. urbs => Open = op.next - 1
    BY <1>0, <2>1 DEF CountInv, Submitted
  <2> QED BY <1>0, <2>1, <2>3, <2>4, <2>5 DEF CountInv
<1>7. CASE DiscardUrb
  <2>1. /\ UNCHANGED <<urbs, num_retired, reaped>> /\ Discarding /\ op'.by = op.by /\ op'.first = op.first
        /\ queue = <<>> => UNCHANGED <<queue, done>>
    BY <1>7, Discarding1 DEF DiscardUrb, ControlInv
  <2>2. Open' = Open
    <3>1. CASE queue = <<>>
      BY <1>0, <2>1, <3>1, Still DEF Unmoved
    <3>2. CASE queue # <<>>
      BY <1>7, <3>2, Overtaking DEF ControlInv
    <3> QED BY <3>1, <3>2
  <2>3. Submitted' = NumUrbs /\ Submitted = NumUrbs
    BY <1>0, <2>1 DEF Submitted, Submitting, Discarding
  <2> QED BY <1>0, <2>1, <2>2, <2>3 DEF CountInv
<1>8. CASE Discarded
  <2>1. Open' = Open /\ UNCHANGED <<urbs, num_retired>>
    BY <1>0, <1>8, DiscardingEnds DEF Discarded, Unmoved
  <2>2. Submitted' = NumUrbs /\ Submitted = NumUrbs
    BY <1>0, <1>1, <1>8 DEF Discarded, Submitted, Submitting, Discarding
  <2> QED BY <1>0, <2>1, <2>2 DEF CountInv
<1>9. CASE Cancel
  <2>1. /\ UNCHANGED <<urbs, num_retired, reaped, queue, done>> /\ op.by = "none" /\ op'.by = "cancel"
    BY <1>9 DEF Cancel, NoOp
  <2>2. Open' = Open
    BY <1>0, <2>1, Still DEF Unmoved
  <2>3. Submitted' = NumUrbs /\ Submitted = NumUrbs
    BY <1>0, <2>1 DEF Submitted, Submitting
  <2> QED BY <1>0, <2>1, <2>2, <2>3 DEF CountInv
<1>10. CASE Handle
  <2>1. Submitted = NumUrbs /\ num_retired + Open = NumUrbs /\ Open' = Open - 1 /\ op.by = "none"
    BY <1>0, <1>10, Normally, Accounting
  <2>2. urbs' => num_retired' = num_retired + 1
    BY <1>10 DEF Handle, BulkAbnormal, BulkNormal, Control, Iso, Complete
  <2>3. Submitted' = NumUrbs
    <3>1. op'.by # "submit"
      BY <1>10, <2>1 DEF Handle, BulkAbnormal, BulkNormal, Control, Iso, NoOp
    <3> QED BY <1>0, <3>1 DEF Submitted, Submitting
  <2> QED BY <1>0, <2>1, <2>2, <2>3 DEF CountInv
<1>11. CASE Reap
  BY <1>0, <1>2, <1>11, Reaping DEF Reap, Unmoved
<1>12. CASE Detach
  BY <1>12 DEF Detach, CountInv
<1>13. ASSUME NEW e \in Endings \ {"unlinked", "nodev"}, EndUrb(e) PROVE CountInv'
  BY <1>0, <1>2, <1>13, Ending DEF EndUrb, Unmoved
<1>14. CASE Unplug
  BY <1>0, <1>2, <1>14, Unplugging DEF Unplug, Unmoved
<1>15. CASE Callback \/ Receive \/ UNCHANGED vars
  <2>1. UNCHANGED <<reaped, done, queue, op, urbs, num_retired>>
    BY <1>15 DEF Callback, Receive, vars
  <2> QED BY <1>0, <1>2, <2>1, Still DEF Unmoved
<1> QED BY <1>3, <1>4, <1>5, <1>6, <1>7, <1>8, <1>9, <1>10, <1>11, <1>12, <1>13, <1>14,
        <1>15
        DEF UsbfsNext, Submission

LEMMA LifeStep ==
  ASSUME ControlInv, [UsbfsNext]_vars
  PROVE LifeInv'
<1>0. /\ OpInv /\ LifeInv /\ CountInv /\ Core /\ Core' /\ (Continued' <=> Continued) /\ type' = type
  BY StepsKeepSetup, Same, CoreStep DEF ControlInv, setup
<1> USE DEF setup, priv, data, kernel, world
<1>3. CASE Submit
  BY <1>0, <1>3 DEF Submit, LifeInv
<1>4. CASE SubmitUrb
  <2>1. urbs /\ ~gone /\ ~halted
    BY <1>0, <1>4 DEF SubmitUrb, Submitting, OpInv
  <2> QED BY <1>0, <1>4, <2>1 DEF SubmitUrb, LifeInv
<1>5. CASE FirstUrbFails
  <2>1. Open = 0
    <3>1. urbs /\ num_retired = 0 /\ Submitted = 0
      BY <1>0, <1>5 DEF FirstUrbFails, Submitting, OpInv, Submitted
    <3> QED BY <1>0, <3>1, Facts DEF CountInv
  <2>2. queue = <<>> /\ done = <<>> /\ reaped = NoUrb
    <3>1. ~Held
      BY <1>0, <2>1, NoneOpen
    <3> QED BY <1>0, <1>5, <2>1, <3>1, NoneOpen DEF Held, FirstUrbFails, Submitting
  <2> QED BY <1>0, <1>5, <2>2 DEF FirstUrbFails, LifeInv
<1>6. CASE LaterUrbFails
  <2>1. EndedEarly => type = "bulk"
    BY <1>0 DEF EndedEarly, LifeInv, Continued
  <2>2. UNCHANGED <<queue, done, reaped, answer, urbs, detached, gone, halted, reap_status>>
        /\ reap_action' = IF EndedEarly THEN "COMPLETED_EARLY" ELSE "SUBMIT_FAILED"
    BY <1>6 DEF LaterUrbFails
  <2> QED BY <1>0, <2>1, <2>2 DEF LifeInv
<1>7. CASE DiscardUrb
  <2>1. urbs /\ UNCHANGED <<answer, urbs, detached, gone, halted, reap_status, reap_action>>
    BY <1>0, <1>7 DEF DiscardUrb, Discarding, OpInv
  <2>2. queue = <<>> => queue' = <<>>
    BY <1>7, Discarding1 DEF ControlInv
  <2> QED BY <1>0, <2>1, <2>2 DEF LifeInv
<1>8. CASE Discarded \/ Cancel
  <2>1. urbs /\ UNCHANGED <<queue, answer, urbs, detached, gone, halted, reap_status>>
        /\ reap_action' \in {reap_action, "CANCELLED"}
    BY <1>0, <1>8 DEF Discarded, Cancel, Discarding, OpInv
  <2> QED BY <1>0, <2>1 DEF LifeInv
<1>9. CASE Reap
  <2>1. urbs
    BY <1>0, <1>9 DEF Reap, LifeInv
  <2> QED BY <1>0, <1>9, <2>1 DEF Reap, LifeInv
<1>10. CASE Handle
  <2>1. ~urbs' => queue' = <<>> /\ done' = <<>> /\ reaped' = NoUrb
    BY <1>0, <1>10, AllBack, Accounting
  <2>2. answer' # "none" => ~urbs'
    BY <1>0, <1>10, Normally DEF Handle, BulkAbnormal, BulkNormal, Control, Iso, Complete
  <2>3. reap_status' = "NO_DEVICE" => reap_status = "NO_DEVICE" \/ reaped.status = "nodev"
    BY <1>10 DEF Handle, BulkAbnormal, BulkNormal, Control, Iso
  <2>4. reaped.status = "nodev" => gone
    BY <1>0, <1>10, Accounting, Facts DEF ControlInv, StatusInv
  <2>5. type # "bulk" => reap_action' = reap_action
    BY <1>10 DEF Handle, BulkAbnormal, BulkNormal, Control, Iso, Handling
  <2>6. UNCHANGED <<queue, detached, gone, halted>>
    BY <1>10 DEF Handle, BulkAbnormal, BulkNormal, Control, Iso
  <2> QED BY <1>0, <2>1, <2>2, <2>3, <2>4, <2>5, <2>6 DEF LifeInv
<1>11. CASE Detach
  BY <1>0, <1>11 DEF Detach, LifeInv
<1>12. ASSUME NEW e \in Endings \ {"unlinked", "nodev"}, EndUrb(e) PROVE LifeInv'
  <2>1. queue # <<>> /\ UNCHANGED <<reaped, answer, urbs, detached, gone, reap_status, reap_action>>
    BY <1>12 DEF EndUrb
  <2>2. urbs /\ ~gone /\ ~halted
    BY <1>0, <2>1 DEF LifeInv
  <2>3. halted' => queue' = <<>> /\ Continued
    BY <1>12, <2>2 DEF EndUrb
  <2> QED BY <1>0, <2>1, <2>2, <2>3 DEF LifeInv
<1>13. CASE Unplug
  <2>1. UNCHANGED <<reaped, answer, urbs, detached, halted, reap_status, reap_action>> /\ queue' = <<>> /\ gone'
    BY <1>13 DEF Unplug
  <2>2. ~urbs => done' = <<>>
    <3>1. ASSUME ~urbs PROVE Open' = 0
      BY <1>0, <1>13, <3>1, NothingOpen, Unplugging DEF LifeInv, Unmoved
    <3>2. ASSUME Open' = 0 PROVE done' = <<>>
      <4>1. Len(done)' \in Nat /\ (done' = <<>> <=> Len(done)' = 0) /\ Len(queue)' = 0
        BY <1>0, <2>1, EmptySeq, Lengths0 DEF Core, ListType
      <4> QED BY <3>2, <4>1 DEF Open, Back
    <3> QED BY <3>1, <3>2
  <2> QED BY <1>0, <2>1, <2>2 DEF LifeInv
<1>14. CASE Callback \/ Receive \/ UNCHANGED vars
  <2>1. UNCHANGED <<reaped, done, queue, urbs, detached, gone, halted, reap_status, reap_action>>
        /\ answer' \in {answer, "none"}
    BY <1>14 DEF Callback, Receive, vars
  <2> QED BY <1>0, <2>1 DEF LifeInv
<1> QED BY <1>3, <1>4, <1>5, <1>6, <1>7, <1>8, <1>9, <1>10, <1>11, <1>12, <1>13, <1>14
        DEF UsbfsNext, Submission

-----------------------------------------------------------------------------
(* The kernel's queue.                                                     *)
LEMMA QueueStep ==
  ASSUME Orderly, ControlInv, [UsbfsNext]_vars
  PROVE QueueInv'
<1>0. /\ OpInv /\ LifeInv /\ CountInv /\ QueueInv /\ Core /\ Core' /\ NumUrbs' = NumUrbs
      /\ (Continued' <=> Continued) /\ UNCHANGED setup
  BY StepsKeepSetup, Same, CoreStep DEF ControlInv
<1>1. /\ Len(queue) \in Nat /\ (queue = <<>> <=> Len(queue) = 0) /\ queue \in Seq(Urbs)
      /\ Len(queue)' \in Nat /\ (queue' = <<>> <=> Len(queue)' = 0)
      /\ op.next \in 0..NumUrbs /\ op.first \in Nat /\ NumUrbs \in Nat /\ num_retired \in Nat
      /\ op'.next \in 0..NumUrbs /\ op'.first \in Nat
      /\ op \in [by : {"none", "submit", "cancel", "complete"}, first : Nat,
                 next : 0..NumUrbs, ret : {"SUCCESS", "NOT_FOUND", "NO_DEVICE"}]
  BY <1>0, Facts, Lengths0 DEF Core, ListType, OpType, PrivType
<1>2. NoOp.by = "none"
  BY DEF NoOp
<1>3. Len(queue) <= Top /\ \A k \in 1..Len(queue) : queue[k] = Top - Len(queue) + k
  BY <1>0 DEF QueueInv
<1>4. Top \in 0..NumUrbs /\ Top' \in 0..NumUrbs
  <2>1. Submitted \in 0..NumUrbs /\ Submitted' \in 0..NumUrbs
    <3>1. OpInv'
      BY OpStep
    <3>2. (Submitting => op.next > 0) /\ (Submitting' => op'.next > 0)
      BY <1>0, <1>1, <3>1 DEF OpInv, Submitting
    <3> QED BY <1>0, <1>1, <3>2 DEF Submitted
  <2> QED BY <1>1, <2>1 DEF Top
<1>a. /\ Len(queue) \in Int /\ Len(queue) >= 0 /\ op.next \in Int /\ op.first \in Int
      /\ NumUrbs \in Int /\ Len(queue) <= Top
  BY <1>1, <1>3
<1>5. ASSUME UNCHANGED <<queue, op, gone, reap_action>> PROVE QueueInv'
  <2>1. Top' = Top /\ (Discarding' <=> Discarding) /\ (TakenBack' <=> TakenBack)
    BY <1>0, <1>5 DEF Top, Submitted, Submitting, Discarding, TakenBack
  <2> QED BY <1>0, <1>5, <2>1 DEF QueueInv
<1>6. ASSUME queue' = <<>>, op'.by \notin {"cancel", "complete"}, op'.first <= op'.next + 1
      PROVE QueueInv'
  <2>1. Len(queue)' = 0
    BY <1>1, <1>6
  <2> QED BY <1>1, <1>4, <1>6, <2>1 DEF QueueInv
<1> USE DEF setup, priv, data, kernel, world
<1>7. CASE Submit
  <2>1. queue' = <<>> /\ op'.by = "submit" /\ op'.first = 0
    BY <1>0, <1>7 DEF Submit, LifeInv, NoOp
  <2> QED BY <1>1, <1>6, <2>1
<1>8. CASE SubmitUrb
  <2>1. /\ Len(queue)' = Len(queue) + 1 /\ \A k \in 1..Len(queue) : queue'[k] = queue[k]
        /\ queue'[Len(queue) + 1] = op.next
    BY <1>0, <1>8, Queueing
  <2>2. Submitting /\ ~Discarding /\ Top = op.next - 1 /\ reap_action' = "NORMAL"
    BY <1>0, <1>8 DEF SubmitUrb, Submitting, Discarding, Top, Submitted, OpInv
  <2>3. op'.by # "cancel" /\ op'.by # "complete" /\ ~Discarding' /\ Top' = op.next
    BY <1>0, <1>1, <1>2, <1>8 DEF SubmitUrb, Submitting, Discarding, Top, Submitted
  <2>4. \A k \in 1..Len(queue) + 1 : queue'[k] = op.next - (Len(queue) + 1) + k
    <3>1. ASSUME NEW k \in 1..Len(queue) PROVE queue'[k] = op.next - (Len(queue) + 1) + k
      BY <1>a, <1>3, <2>1, <2>2
    <3>2. queue'[Len(queue) + 1] = op.next - (Len(queue) + 1) + (Len(queue) + 1)
      BY <1>a, <2>1
    <3>3. \A k \in 1..Len(queue) + 1 : k \in 1..Len(queue) \/ k = Len(queue) + 1
      BY <1>a
    <3> QED BY <3>1, <3>2, <3>3
  <2>5. Len(queue) + 1 <= op.next
    BY <1>1, <1>3, <2>2
  <2> QED BY <2>1, <2>2, <2>3, <2>4, <2>5 DEF QueueInv
<1>9. CASE FirstUrbFails
  <2>1. Submitting /\ op.next = 1 /\ op' = NoOp /\ UNCHANGED queue
    BY <1>9 DEF FirstUrbFails
  <2>2. Len(queue) <= 0
    BY <1>1, <1>3, <2>1 DEF Top, Submitted, Submitting, Discarding
  <2> QED BY <1>1, <1>2, <1>6, <2>1, <2>2 DEF NoOp
<1>10. CASE LaterUrbFails
  <2>1. CASE EndedEarly
    <3>1. queue' = <<>> /\ op' = NoOp
      BY <1>0, <1>10, <2>1 DEF LaterUrbFails, EndedEarly, LifeInv
    <3> QED BY <1>1, <1>6, <3>1 DEF NoOp
  <2>2. CASE ~EndedEarly
    <3>1. /\ op.by = "submit" /\ op.first = 0 /\ op' = [op EXCEPT !.first = 1, !.next = @ - 1]
          /\ UNCHANGED queue
      BY <1>10, <2>2 DEF LaterUrbFails, Submitting
    <3>2. op'.by = "submit" /\ op'.first = 1 /\ op'.next = op.next - 1
      BY <1>1, <3>1
    <3>3. Top' = op.next - 1 /\ Top = op.next - 1 /\ Discarding'
      BY <1>1, <3>1, <3>2 DEF Top, Submitted, Submitting, Discarding
    <3> QED BY <1>1, <1>3, <3>1, <3>2, <3>3 DEF QueueInv
  <2> QED BY <2>1, <2>2
<1>11. CASE DiscardUrb
  <2>1. /\ op'.by = op.by /\ op'.first = op.first /\ op'.next = op.next - 1
        /\ Discarding /\ Discarding' /\ op.next >= op.first /\ Top = op.next /\ Top' = op.next - 1
        /\ UNCHANGED <<gone, reap_action>>
    BY <1>0, <1>11, Discarding1 DEF DiscardUrb, Discarding, Top
  <2>2. CASE queue = <<>>
    <3>1. queue' = <<>> /\ Len(queue)' = 0
      BY <1>0, <1>1, <1>11, <2>2, Discarding1
    <3>2. op.by = "cancel" /\ TakenBack' => TakenBack /\ ~gone
      <4>1. op'.ret = IF gone THEN "NO_DEVICE"
                      ELSE IF op.next = NumUrbs THEN "NOT_FOUND" ELSE op.ret
        BY <1>0, <1>11, <2>2, Discarding1
      <4>2. op.by = "cancel" => reap_action # "CANCELLED"
        BY <1>0 DEF OpInv
      <4>3. op.next # NumUrbs => op.next < NumUrbs
        BY <1>1
      <4> QED BY <1>0, <2>1, <4>1, <4>2, <4>3 DEF TakenBack
    <3>3. op'.first <= op'.next + 1
      BY <1>1, <2>1
    <3> QED BY SMTT(30), <1>0, <1>1, <1>4, <2>1, <3>1, <3>2, <3>3 DEF QueueInv
  <2>3. CASE queue # <<>>
    <3>1. /\ op'.ret = op.ret /\ Len(queue)' = Len(queue) - 1
          /\ \A k \in 1..Len(queue) - 1 : queue'[k] = queue[k]
      BY <1>0, <1>11, <2>3, Discarding1
    <3>2. Len(queue)' <= Top' /\ \A k \in 1..Len(queue)' : queue'[k] = Top' - Len(queue)' + k
      BY SMTT(30), <1>1, <1>3, <2>1, <3>1
    <3>3. Len(queue) <= op.next - op.first + 1
      BY <1>0, <2>1 DEF QueueInv
    <3>4. Len(queue)' <= op'.next - op'.first + 1
      BY <1>a, <2>1, <3>1, <3>3
    <3>5. ~gone /\ (op.by = "cancel" => reap_action = "NORMAL" /\ op.ret = "SUCCESS")
      BY <1>0, <2>3 DEF LifeInv, QueueInv
    <3>6. ~(op.by = "complete" /\ reap_action = "NORMAL" /\ queue' # <<>>)
      <4>1. op.by = "complete" /\ reap_action = "NORMAL" => Len(queue) = 1
        BY <1>0, <2>3 DEF QueueInv
      <4> QED BY <1>1, <3>1, <4>1
    <3>7. reap_action = "NORMAL" \/ op.by # "cancel"
      BY <3>5
    <3> QED BY <2>1, <3>1, <3>2, <3>4, <3>5, <3>6, <3>7 DEF QueueInv
  <2> QED BY <2>2, <2>3
<1>12. CASE Discarded
  <2>1. /\ op' = NoOp /\ Discarding /\ op.next < op.first /\ UNCHANGED queue
    BY <1>12 DEF Discarded
  <2>2. Len(queue) <= op.next - op.first + 1
    BY <1>0, <2>1 DEF QueueInv
  <2> QED BY <1>1, <1>6, <2>1, <2>2 DEF NoOp
<1>13. CASE Cancel
  <2>1. /\ op.by = "none" /\ ~asked /\ op'.by = "cancel" /\ op'.first = 1 /\ op'.next = NumUrbs
        /\ op'.ret = "SUCCESS" /\ UNCHANGED <<queue, reap_action>>
    BY <1>13 DEF Cancel, NoOp
  <2>2. Top = NumUrbs /\ Top' = NumUrbs /\ ~Discarding
    BY <1>0, <2>1 DEF Top, Submitted, Submitting, Discarding
  <2>3. ~TakenBack'
    BY <1>0, <1>1, <2>1 DEF TakenBack, OpInv
  <2>4. queue # <<>> => reap_action = "NORMAL"
    BY <1>0, <2>2 DEF QueueInv
  <2> QED BY <1>1, <1>3, <2>1, <2>2, <2>3, <2>4 DEF QueueInv
<1>14. CASE Handle
  <2>1. /\ UNCHANGED <<queue, gone>> /\ op = NoOp /\ ~Discarding /\ Top = NumUrbs
        /\ num_retired + Open = NumUrbs /\ Open \in Nat /\ Back >= 1 /\ Back \in Nat
        /\ Open = Back + Len(queue)
        /\ reap_action = "NORMAL" => reaped.urb = num_retired + 1
        /\ Line(1) = reaped /\ 1 \in 1..Back /\ reaped.urb \in Urbs
    <3>1. /\ op = NoOp /\ ~Discarding /\ Submitted = NumUrbs /\ num_retired + Open = NumUrbs
          /\ Open \in Nat /\ reap_action = "NORMAL" => reaped.urb = num_retired + 1
      BY <1>14, Normally
    <3>2. /\ UNCHANGED queue /\ Line(1) = reaped /\ Back >= 1 /\ UrbAt(1) = reaped.urb
          /\ Back \in Nat /\ Open >= 1
      BY <1>0, <1>14, Accounting, Facts, Normally
    <3>3. UrbAt(1) \in Urbs
      BY <1>0, <3>1, <3>2, Facts
    <3>4. UNCHANGED gone
      BY <1>14 DEF Handle, BulkAbnormal, BulkNormal, Control, Iso
    <3> QED BY <3>1, <3>2, <3>3, <3>4 DEF Top, Open
  <2>2. queue # <<>> => reap_action = "NORMAL" /\ urbs'
    <3>1. queue # <<>> => reap_action = "NORMAL"
      BY <1>0, <2>1 DEF QueueInv
    <3> QED BY <1>14, <3>1, AllBack
  <2>3. CASE UNCHANGED op
    <3>1. queue # <<>> => reap_action' = "NORMAL"
      BY <1>14, <2>1, <2>2, <2>3 DEF Handle, BulkAbnormal, BulkNormal, Control, Iso,
          Complete, NoOp
    <3>2. Top' = NumUrbs /\ ~Discarding' /\ op'.by = "none"
      BY <1>0, <1>2, <2>1, <2>3 DEF Top, Submitted, Submitting, Discarding
    <3> QED BY <1>3, <2>1, <3>1, <3>2 DEF QueueInv
  <2>4. CASE ~UNCHANGED op
    <3>1. /\ BulkNormal /\ op' = [NoOp EXCEPT !.by = "complete", !.first = reaped.urb + 1,
                                     !.next = NumUrbs]
          /\ reap_action = "NORMAL" /\ Remaining(num_retired') /\ num_retired' = num_retired + 1
          /\ type = "bulk"
      BY <1>14, <2>4 DEF Handle, BulkAbnormal, BulkNormal, Control, Iso, Handling
    <3>2. op'.by = "complete" /\ op'.first = reaped.urb + 1 /\ op'.next = NumUrbs
      BY <3>1 DEF NoOp
    <3>3. Top' = NumUrbs /\ Discarding'
      <4>1. reaped.urb + 1 > 0
        BY <1>0, <2>1, Facts DEF Urbs
      <4>2. Discarding'
        BY <3>2, <4>1 DEF Discarding
      <4> QED BY <3>2, <4>2 DEF Top
    <3>4. Len(queue) <= NumUrbs - reaped.urb
      BY <1>1, <2>1, <3>1
    <3>5. ASSUME reap_action' = "NORMAL", queue # <<>> PROVE Len(queue) = 1
      <4>1. reaped.status \in {"nodev", "stall"}
        <5>1. op' # NoOp
          BY <2>1, <2>4
        <5> QED BY <2>1, <3>1, <3>5, <5>1 DEF BulkNormal, Complete
      <4>2. reaped.status # "nodev"
        BY <1>0, <2>1, <3>5 DEF LifeInv, ControlInv, StatusInv
      <4>3. reaped.urb >= StallFrom /\ (Continued => halted)
        BY <2>1, <4>1, <4>2 DEF ControlInv, StatusInv
      <4>4. ~Continued
        BY <1>0, <3>5, <4>3 DEF LifeInv
      <4>5. NumUrbs <= StallFrom + 1
        BY <1>0, <3>1, <4>4, LateStall DEF Core, SetupType
      <4>6. StallFrom \in Nat /\ reaped.urb \in Int
        BY <1>0, <2>1, UsbfsAssumption, Facts DEF Urbs
      <4>7. Len(queue) # 0
        BY <1>1, <3>5
      <4>8. Len(queue) <= NumUrbs - reaped.urb /\ NumUrbs - reaped.urb <= 1
        BY <1>a, <3>4, <4>3, <4>5, <4>6
      <4>9. ASSUME NEW n \in Int, n >= 0, n # 0, n <= NumUrbs - reaped.urb PROVE n = 1
        BY <1>a, <4>6, <4>8, <4>9
      <4> QED BY <1>a, <4>7, <4>8, <4>9
    <3>6. Len(queue) <= op'.next - op'.first + 1
      <4>1. reaped.urb \in Int
        BY <1>0, <2>1, Facts DEF Urbs
      <4> QED BY <1>a, <3>2, <3>4, <4>1
    <3>7. /\ Len(queue) <= NumUrbs /\ \A k \in 1..Len(queue) : queue[k] = NumUrbs - Len(queue) + k
      BY <1>3, <2>1
    <3>8. op'.by # "cancel"
      BY <3>2
    <3>9. UNCHANGED <<queue, gone>>
      BY <2>1
    <3>10. (Len(queue) <= Top /\ \A k \in 1..Len(queue) : queue[k] = Top - Len(queue) + k)'
      BY <3>3, <3>7, <3>9
    <3>11. (Discarding => Len(queue) <= op.next - op.first + 1)'
      BY <3>6, <3>9
    <3>12. (queue # <<>> => reap_action = "NORMAL" \/ (Discarding /\ op.by # "cancel"))'
      BY <3>3, <3>8
    <3>13. (op.by = "complete" /\ reap_action = "NORMAL" /\ queue # <<>> =>
              Len(queue) = 1 /\ op.next = NumUrbs)'
      BY <1>0, <3>2, <3>5, <3>9
    <3> QED BY <3>8, <3>10, <3>11, <3>12, <3>13 DEF QueueInv
  <2> QED BY <2>3, <2>4
<1>15. CASE Reap \/ Callback \/ Receive \/ UNCHANGED vars
  BY <1>5, <1>15 DEF Reap, Callback, Receive, vars
<1>16. CASE Detach
  BY <1>5, <1>16 DEF Detach
<1>17. ASSUME NEW e \in Endings \ {"unlinked", "nodev"}, EndUrb(e) PROVE QueueInv'
  <2>1. /\ queue # <<>> /\ UNCHANGED <<op, gone, reap_action>>
        /\ queue' = <<>> \/ queue' = Tail(queue)
    BY <1>0, <1>17, Ending DEF EndUrb
  <2>2. /\ Len(queue)' < Len(queue)
        /\ \A k \in 1..Len(queue)' : queue'[k] = Top - Len(queue)' + k
    <3>1. CASE queue' = <<>>
      BY <1>1, <2>1, <3>1
    <3>2. CASE queue' = Tail(queue)
      <4>1. Len(queue)' = Len(queue) - 1 /\ \A k \in 1..Len(queue) - 1 : queue'[k] = queue[k + 1]
        BY <1>1, <2>1, <3>2, HeadTailProperties
      <4> QED BY <1>1, <1>3, <1>4, <4>1
    <3> QED BY <2>1, <3>1, <3>2
  <2>3. Top' = Top /\ (Discarding' <=> Discarding) /\ (TakenBack' <=> TakenBack)
    BY <1>0, <2>1 DEF Top, Submitted, Submitting, Discarding, TakenBack
  <2>4. Len(queue)' <= Top' /\ (Discarding => Len(queue)' <= op.next - op.first + 1)
    BY <1>0, <1>1, <1>4, <2>2, <2>3 DEF QueueInv
  <2>5. ~(op.by = "complete" /\ reap_action = "NORMAL" /\ queue' # <<>>)
    BY <1>0, <1>1, <2>1, <2>2 DEF QueueInv
  <2> QED BY <1>0, <2>1, <2>2, <2>3, <2>4, <2>5 DEF QueueInv
<1>18. CASE Unplug
  <2>1. queue' = <<>> /\ UNCHANGED <<op, reap_action>> /\ op.by # "cancel"
    BY <1>18 DEF Unplug, Orderly
  <2>2. Len(queue)' = 0 /\ (Discarding' <=> Discarding)
    BY <1>1, <2>1 DEF Discarding
  <2>3. Discarding => 0 <= op.next - op.first + 1
    BY <1>0, <1>1 DEF QueueInv
  <2> QED BY <1>1, <1>4, <2>1, <2>2, <2>3 DEF QueueInv
<1> QED BY <1>7, <1>8, <1>9, <1>10, <1>11, <1>12, <1>13, <1>14, <1>15, <1>16, <1>17, <1>18
        DEF UsbfsNext, Submission

-----------------------------------------------------------------------------
(* The order of the open URBs, and their endings.                          *)
LEMMA OrderStep ==
  ASSUME ControlInv, [UsbfsNext]_vars
  PROVE OrderInv'
<1>0. /\ OpInv /\ LifeInv /\ CountInv /\ QueueInv /\ OrderInv /\ Core /\ NumUrbs' = NumUrbs
      /\ Open \in Nat /\ Back \in Nat
  BY StepsKeepSetup, Same, Facts DEF ControlInv
<1>a. num_retired \in Nat /\ op.next \in 0..NumUrbs /\ NumUrbs \in Nat
  BY <1>0, Facts DEF Core, PrivType, OpType
<1>1. \A p, q \in 1..Open : p # q => UrbAt(p) # UrbAt(q)
  BY <1>0 DEF OrderInv
<1>2. ASSUME Unmoved, num_retired' = num_retired,
             urbs' /\ reap_action' = "NORMAL" /\ ~TakenBack' => urbs /\ reap_action = "NORMAL" /\ ~TakenBack
      PROVE OrderInv'
  <2>1. ASSUME NEW p \in 1..Open', NEW q \in 1..Open', p # q PROVE UrbAt(p)' # UrbAt(q)'
    BY <1>1, <1>2, <2>1 DEF Unmoved
  <2>2. ASSUME urbs', reap_action' = "NORMAL", ~TakenBack', NEW p \in 1..Open'
        PROVE UrbAt(p)' = num_retired' + p
    BY <1>0, <1>2, <2>2 DEF Unmoved, OrderInv
  <2> QED BY <2>1, <2>2 DEF OrderInv
<1>3. ASSUME Open' = 0 PROVE OrderInv'
  <2>1. ASSUME NEW p \in 1..Open' PROVE FALSE
    BY <1>3
  <2> QED BY <2>1 DEF OrderInv
<1> USE DEF setup, priv, data, kernel, world
<1>4. CASE Submit
  <2>1. queue' = <<>> /\ done' = <<>> /\ reaped' = NoUrb
    BY <1>0, <1>4 DEF Submit, LifeInv
  <2>2. Open' = 0
    BY <2>1, EmptySeq DEF Open, Back, Held
  <2> QED BY <2>2, <1>3
<1>5. CASE SubmitUrb
  <2>1. /\ Open' = Open + 1 /\ UNCHANGED num_retired
        /\ \A p \in 1..Open + 1 : UrbAt(p)' = IF p <= Open THEN UrbAt(p) ELSE op.next
    BY <1>0, <1>5, Queueing DEF SubmitUrb
  <2>2. /\ urbs /\ num_retired = 0 /\ reap_action = "NORMAL" /\ Submitting /\ Submitted = op.next - 1
        /\ ~TakenBack
    BY <1>0, <1>5 DEF SubmitUrb, Submitting, Submitted, OpInv, TakenBack
  <2>3. Open = op.next - 1
    BY <1>0, <1>a, <2>2 DEF CountInv
  <2>4. ASSUME NEW p \in 1..Open + 1 PROVE UrbAt(p)' = p
    <3>1. CASE p <= Open
      BY <1>0, <2>1, <2>2, <2>4, <3>1 DEF OrderInv
    <3>2. CASE p = Open + 1
      BY <1>0, <1>a, <2>1, <2>3, <3>2
    <3> QED BY <1>0, <2>4, <3>1, <3>2
  <2>5. ASSUME NEW p \in 1..Open' PROVE UrbAt(p)' = num_retired' + p
    BY <1>0, <2>1, <2>2, <2>4
  <2>6. ASSUME NEW p \in 1..Open', NEW q \in 1..Open', p # q PROVE UrbAt(p)' # UrbAt(q)'
    BY <2>1, <2>4, <2>6
  <2> QED BY <2>5, <2>6 DEF OrderInv
<1>6. CASE FirstUrbFails \/ LaterUrbFails
  <2>1. /\ ~(urbs' /\ reap_action' = "NORMAL") /\ op.by = "submit" /\ UNCHANGED <<reaped, done, queue>>
    BY <1>6 DEF FirstUrbFails, LaterUrbFails, Submitting
  <2>2. op'.by # "complete"
    <3>1. /\ op' = NoOp \/ op' = [op EXCEPT !.first = 1, !.next = @ - 1]
          /\ op \in [by : {"none", "submit", "cancel", "complete"}, first : Nat,
                     next : 0..NumUrbs, ret : {"SUCCESS", "NOT_FOUND", "NO_DEVICE"}]
      BY <1>0, <1>6 DEF FirstUrbFails, LaterUrbFails, Core, OpType
    <3>2. op' = [op EXCEPT !.first = 1, !.next = @ - 1] => op'.by = op.by
      BY <3>1
    <3> QED BY <2>1, <3>1, <3>2 DEF NoOp
  <2>3. Unmoved
    BY <1>0, <2>1, <2>2, Still
  <2>4. ASSUME NEW p \in 1..Open', NEW q \in 1..Open', p # q PROVE UrbAt(p)' # UrbAt(q)'
    BY <1>1, <2>3, <2>4 DEF Unmoved
  <2> QED BY <2>1, <2>4 DEF OrderInv
<1>7. CASE DiscardUrb
  <2>1. /\ UNCHANGED <<urbs, num_retired, reaped, reap_action>> /\ op'.by = op.by /\ op'.first = op.first
        /\ op'.next = op.next - 1 /\ Discarding
        /\ queue = <<>> => UNCHANGED <<queue, done>>
    BY <1>7, Discarding1 DEF DiscardUrb, ControlInv
  <2>2. ~TakenBack' => ~TakenBack
    BY <1>7, StillTaken
  <2>3. CASE queue = <<>>
    BY <1>0, <1>2, <2>1, <2>2, <2>3, Still
  <2>4. CASE queue # <<>>
    <3>1. /\ Open' = Open /\ Back < Open /\ UrbAt(Open) = op.next
          /\ \A p \in 1..Back : UrbAt(p)' = UrbAt(p)
          /\ \A p : p = Back + 1 => UrbAt(p)' = UrbAt(Open)
          /\ \A p \in Back + 2..Open : UrbAt(p)' = UrbAt(p - 1)
      BY <1>0, <1>7, <2>4, Overtaking
    <3>2. ASSUME NEW p \in 1..Open', NEW q \in 1..Open', p # q PROVE UrbAt(p)' # UrbAt(q)'
      <4>1. \A r \in 1..Open : r \in 1..Back \/ r = Back + 1 \/ r \in Back + 2..Open
        BY <1>0
      <4>2. \A r \in Back + 2..Open : r - 1 \in 1..Open /\ r - 1 # Open /\ r - 1 \notin 1..Back
        BY <1>0
      <4>3. \A r \in 1..Back : r \in 1..Open /\ r # Open
        BY <1>0, <3>1
      <4>4. Open \in 1..Open
        BY <1>0, <3>1
      <4>5. \A r, t \in Back + 2..Open : r # t => r - 1 # t - 1
        BY <1>0
      <4>6. p \in 1..Back \/ p = Back + 1 \/ p \in Back + 2..Open
        BY <3>1, <4>1
      <4>7. q \in 1..Back \/ q = Back + 1 \/ q \in Back + 2..Open
        BY <3>1, <4>1
      <4> QED BY <1>1, <3>1, <3>2, <4>2, <4>3, <4>4, <4>5, <4>6, <4>7
    <3>3. ASSUME urbs', reap_action' = "NORMAL", ~TakenBack', NEW p \in 1..Open'
          PROVE UrbAt(p)' = num_retired' + p
      <4>1. op.by # "submit"
        BY <1>0, <2>1, <3>3 DEF OpInv, Discarding
      <4>2. op.by # "cancel"
        <5>1. ASSUME op.by = "cancel" PROVE TakenBack'
          <6>1. op.ret = "SUCCESS" /\ op'.ret = op.ret
            BY <1>0, <1>7, <2>4, <5>1, Discarding1 DEF QueueInv
          <6>2. op'.next < NumUrbs'
            BY <1>0, <1>a, <2>1
          <6> QED BY <2>1, <5>1, <6>1, <6>2 DEF TakenBack
        <5> QED BY <3>3, <5>1
      <4>3. op.by = "complete"
        BY <1>0, <2>1, <4>1, <4>2 DEF Discarding, Core, OpType
      <4>4. Len(queue) = 1
        BY <1>0, <2>1, <2>4, <3>3, <4>3 DEF QueueInv
      <4>5. Open = Back + 1
        BY <4>4 DEF Open
      <4>6. UrbAt(p)' = UrbAt(p)
        BY <1>0, <3>1, <3>3, <4>5
      <4>7. UrbAt(p) = num_retired + p
        BY <1>0, <2>1, <2>2, <3>1, <3>3 DEF OrderInv
      <4> QED BY <2>1, <4>6, <4>7
    <3> QED BY <3>2, <3>3 DEF OrderInv
  <2> QED BY <2>3, <2>4
<1>8. CASE Discarded
  <2>1. ~TakenBack' => ~TakenBack
    BY <1>8, StillTaken
  <2>2. UNCHANGED <<urbs, num_retired>> /\ (reap_action' = "NORMAL" => reap_action = "NORMAL")
    BY <1>8 DEF Discarded
  <2> QED BY <1>0, <1>2, <1>8, <2>1, <2>2, DiscardingEnds
<1>9. CASE Cancel
  <2>1. /\ UNCHANGED <<urbs, num_retired, reap_action, reaped, queue, done>> /\ op.by = "none"
        /\ op'.by = "cancel"
    BY <1>9 DEF Cancel, NoOp
  <2>2. reap_action = "NORMAL" => ~TakenBack
    BY <2>1 DEF TakenBack
  <2> QED BY <1>0, <1>2, <2>1, <2>2, Still
<1>10. CASE Handle
  <2>1. /\ Open' = Open - 1 /\ \A p \in 1..Open - 1 : UrbAt(p)' = UrbAt(p + 1)
    BY <1>0, <1>10, Accounting
  <2>2. ASSUME NEW p \in 1..Open', NEW q \in 1..Open', p # q PROVE UrbAt(p)' # UrbAt(q)'
    <3>1. p + 1 \in 1..Open /\ q + 1 \in 1..Open /\ p + 1 # q + 1 /\ p \in 1..Open - 1 /\ q \in 1..Open - 1
      BY <1>0, <2>1, <2>2
    <3> QED BY <1>1, <2>1, <3>1
  <2>3. ASSUME urbs', reap_action' = "NORMAL", ~TakenBack', NEW p \in 1..Open'
        PROVE UrbAt(p)' = num_retired' + p
    <3>1. reap_action = "NORMAL" /\ num_retired' = num_retired + 1
      BY <1>10, <2>3 DEF Handle, BulkAbnormal, BulkNormal, Control, Iso, Complete
    <3>2. p + 1 \in 1..Open /\ p \in 1..Open - 1
      BY <1>0, <2>1, <2>3
    <3>3. UrbAt(p + 1) = num_retired + (p + 1)
      BY <1>10, <3>1, <3>2, Normally
    <3> QED BY <1>a, <2>1, <3>1, <3>2, <3>3
  <2> QED BY <2>2, <2>3 DEF OrderInv
<1>11. ASSUME UNCHANGED <<urbs, num_retired, reap_action, op>>, Unmoved PROVE OrderInv'
  <2>1. TakenBack' <=> TakenBack
    BY <1>0, <1>11 DEF TakenBack
  <2> QED BY <1>2, <1>11, <2>1
<1>12. CASE Reap
  BY <1>0, <1>11, <1>12, Reaping DEF Reap
<1>13. CASE Detach
  <2>1. queue' = <<>> /\ done' = <<>> /\ reaped' = NoUrb
    BY <1>0, <1>13 DEF Detach, LifeInv
  <2>2. Open' = 0
    BY <2>1, EmptySeq DEF Open, Back, Held
  <2> QED BY <2>2, <1>3
<1>14. ASSUME NEW e \in Endings \ {"unlinked", "nodev"}, EndUrb(e) PROVE OrderInv'
  BY <1>0, <1>11, <1>14, Ending DEF EndUrb
<1>15. CASE Unplug
  BY <1>0, <1>11, <1>15, Unplugging DEF Unplug
<1>16. CASE Callback \/ Receive \/ UNCHANGED vars
  <2>1. UNCHANGED <<reaped, done, queue, op, urbs, num_retired, reap_action>>
    BY <1>16 DEF Callback, Receive, vars
  <2> QED BY <1>0, <1>11, <2>1, Still
<1> QED BY <1>4, <1>5, <1>6, <1>7, <1>8, <1>9, <1>10, <1>12, <1>13, <1>14, <1>15, <1>16
        DEF UsbfsNext, Submission

LEMMA StatusStep ==
  ASSUME ControlInv, [UsbfsNext]_vars
  PROVE StatusInv'
<1>0. /\ OpInv /\ LifeInv /\ CountInv /\ QueueInv /\ OrderInv /\ StatusInv /\ Core
      /\ NumUrbs' = NumUrbs /\ (Continued' <=> Continued) /\ type' = type
      /\ Open \in Nat /\ Back \in Nat
  BY StepsKeepSetup, Same, Facts DEF ControlInv, setup
<1> DEFINE Told(l) ==
             /\ l.status = "stall" => l.urb >= StallFrom /\ stalled /\ (Continued => halted)
             /\ l.status = "nodev" => gone
             /\ l.status = "overflow" => l.urb = NumUrbs
             /\ l.status = "unlinked" /\ type # "bulk" => TakenBack \/ reap_action = "SUBMIT_FAILED"
<1>1. \A p \in 1..Back : Told(Line(p))
  BY <1>0 DEF StatusInv
<1>2. ASSUME \A p \in 1..Back' : Told(Line(p))' PROVE StatusInv'
  BY <1>2 DEF StatusInv
<1>3. ASSUME NEW l, Told(l),
             stalled => stalled', gone => gone', halted => halted',
             TakenBack \/ reap_action = "SUBMIT_FAILED" => TakenBack' \/ reap_action' = "SUBMIT_FAILED",
             NEW m, m = l
      PROVE /\ m.status = "stall" => m.urb >= StallFrom /\ stalled' /\ (Continued' => halted')
            /\ m.status = "nodev" => gone'
            /\ m.status = "overflow" => m.urb = NumUrbs'
            /\ m.status = "unlinked" /\ type' # "bulk" => TakenBack' \/ reap_action' = "SUBMIT_FAILED"
  BY <1>0, <1>3
<1>4. ASSUME Back' = Back, \A p \in 1..Back : Line(p)' = Line(p),
             stalled => stalled', gone => gone', halted => halted',
             TakenBack \/ reap_action = "SUBMIT_FAILED" => TakenBack' \/ reap_action' = "SUBMIT_FAILED"
      PROVE StatusInv'
  <2>1. ASSUME NEW p \in 1..Back' PROVE Told(Line(p))'
    <3>1. Told(Line(p)) /\ Line(p)' = Line(p)
      BY <1>1, <1>4
    <3> QED BY <1>0, <1>4, <3>1
  <2> QED BY <2>1, <1>2
<1>5. ASSUME Back' = 0 PROVE StatusInv'
  <2>1. ASSUME NEW p \in 1..Back' PROVE FALSE
    BY <1>5
  <2> QED BY <2>1, <1>2
<1> USE DEF setup, priv, data, kernel, world
<1>6. CASE Submit
  <2>1. queue' = <<>> /\ done' = <<>> /\ reaped' = NoUrb
    BY <1>0, <1>6 DEF Submit, LifeInv
  <2>2. Back' = 0
    BY <2>1, EmptySeq DEF Back, Held
  <2> QED BY <2>2, <1>5
<1>7. CASE SubmitUrb
  <2>1. Back' = Back /\ \A p \in 1..Back : Line(p)' = Line(p)
    BY <1>0, <1>7, Queueing
  <2>2. ~TakenBack /\ reap_action = "NORMAL" /\ UNCHANGED <<stalled, gone, halted>>
    BY <1>0, <1>7 DEF SubmitUrb, Submitting, OpInv, TakenBack
  <2> QED BY <1>4, <2>1, <2>2
<1>8. CASE FirstUrbFails \/ LaterUrbFails
  <2>1. /\ op.by = "submit" /\ UNCHANGED <<reaped, done, queue, stalled, gone, halted>>
        /\ ~TakenBack /\ reap_action = "NORMAL"
    BY <1>0, <1>8 DEF FirstUrbFails, LaterUrbFails, Submitting, OpInv, TakenBack
  <2>2. op'.by # "complete"
    <3>1. /\ op' = NoOp \/ op' = [op EXCEPT !.first = 1, !.next = @ - 1]
          /\ op \in [by : {"none", "submit", "cancel", "complete"}, first : Nat,
                     next : 0..NumUrbs, ret : {"SUCCESS", "NOT_FOUND", "NO_DEVICE"}]
      BY <1>0, <1>8 DEF FirstUrbFails, LaterUrbFails, Core, OpType
    <3>2. op' = [op EXCEPT !.first = 1, !.next = @ - 1] => op'.by = op.by
      BY <3>1
    <3> QED BY <2>1, <3>1, <3>2 DEF NoOp
  <2> QED BY <1>0, <1>4, <2>1, <2>2, Still DEF Unmoved
<1>9. CASE DiscardUrb
  <2>1. /\ UNCHANGED <<reaped, reap_action, stalled, gone, halted>> /\ op'.by = op.by
        /\ op'.next = op.next - 1 /\ Discarding
        /\ queue = <<>> => UNCHANGED <<queue, done>>
    BY <1>9, Discarding1 DEF DiscardUrb, ControlInv
  <2>2. TakenBack => TakenBack'
    BY <1>9, StillTaken
  <2>3. CASE queue = <<>>
    BY <1>0, <1>4, <2>1, <2>2, <2>3, Still DEF Unmoved
  <2>4. CASE queue # <<>>
    <3>1. /\ Back' = Back + 1 /\ \A p \in 1..Back : Line(p)' = Line(p)
          /\ \A p : p = Back + 1 => Line(p)' = [urb |-> op.next, status |-> "unlinked"]
      BY <1>0, <1>9, <2>4, Overtaking
    <3>2. type = "bulk" \/ TakenBack' \/ reap_action = "SUBMIT_FAILED"
      <4>1. CASE op.by = "cancel"
        <5>1. op.ret = "SUCCESS" /\ op'.ret = op.ret
          BY <1>0, <1>9, <2>4, <4>1, Discarding1 DEF QueueInv
        <5>2. op.next - 1 < NumUrbs
          BY <1>0, Facts DEF Core, OpType
        <5> QED BY <1>0, <2>1, <4>1, <5>1, <5>2 DEF TakenBack
      <4>2. CASE op.by # "cancel"
        BY <1>0, <2>1, <4>2 DEF Discarding, OpInv, Core, OpType
      <4> QED BY <4>1, <4>2
    <3>3. ASSUME NEW p \in 1..Back' PROVE Told(Line(p))'
      <4>1. CASE p \in 1..Back
        <5>1. Told(Line(p)) /\ Line(p)' = Line(p)
          BY <1>1, <3>1, <4>1
        <5> QED BY <1>0, <2>1, <2>2, <5>1
      <4>2. CASE p = Back + 1
        <5>1. Line(p)' = [urb |-> op.next, status |-> "unlinked"]
          BY <3>1, <4>2
        <5>2. Line(p)'.status = "unlinked"
          BY <5>1
        <5> QED BY <1>0, <2>1, <3>2, <5>2
      <4> QED BY <1>0, <3>1, <3>3, <4>1, <4>2
    <3> QED BY <3>3, <1>2
  <2> QED BY <2>3, <2>4
<1>10. CASE Discarded
  <2>1. TakenBack => TakenBack'
    BY <1>10, StillTaken
  <2>2. UNCHANGED <<stalled, gone, halted>>
    BY <1>10 DEF Discarded
  <2>3. reap_action = "SUBMIT_FAILED" => reap_action' = "SUBMIT_FAILED" \/ TakenBack'
    BY <1>10 DEF Discarded, TakenBack
  <2> QED BY <1>0, <1>4, <1>10, <2>1, <2>2, <2>3, DiscardingEnds DEF Unmoved
<1>11. CASE Cancel
  <2>1. /\ UNCHANGED <<reap_action, reaped, queue, done, stalled, gone, halted>> /\ op.by = "none"
        /\ op'.by = "cancel"
    BY <1>11 DEF Cancel, NoOp
  <2>2. TakenBack => TakenBack'
    BY <2>1 DEF TakenBack
  <2> QED BY <1>0, <1>4, <2>1, <2>2, Still DEF Unmoved
<1>12. CASE Handle
  <2>1. /\ Back' = Back - 1 /\ \A p \in 1..Back - 1 : Line(p)' = Line(p + 1)
    BY <1>0, <1>12, Accounting
  <2>2. UNCHANGED <<stalled, gone, halted>> /\ (type # "bulk" => UNCHANGED reap_action)
    BY <1>12 DEF Handle, BulkAbnormal, BulkNormal, Control, Iso, Handling
  <2>3. TakenBack <=> reap_action = "CANCELLED"
    BY <1>12, Normally
  <2>4. ASSUME NEW p \in 1..Back' PROVE Told(Line(p))'
    <3>1. p + 1 \in 1..Back /\ p \in 1..Back - 1
      BY <1>0, <2>1, <2>4
    <3>2. Told(Line(p + 1)) /\ Line(p)' = Line(p + 1)
      BY <1>1, <2>1, <3>1
    <3>3. type # "bulk" => (TakenBack \/ reap_action = "SUBMIT_FAILED" =>
                              TakenBack' \/ reap_action' = "SUBMIT_FAILED")
      BY <2>2, <2>3 DEF TakenBack
    <3> QED BY <1>0, <2>2, <3>2, <3>3
  <2> QED BY <2>4, <1>2
<1>13. CASE Reap
  <2>1. UNCHANGED <<op, reap_action, stalled, gone, halted>>
    BY <1>13 DEF Reap
  <2> QED BY <1>0, <1>4, <1>13, <2>1, Reaping DEF Unmoved, TakenBack
<1>14. CASE Detach
  <2>1. done' = <<>> /\ reaped' = NoUrb
    BY <1>14 DEF Detach
  <2>2. Back' = 0
    BY <2>1, EmptySeq DEF Back, Held
  <2> QED BY <2>2, <1>5
<1>15. ASSUME NEW e \in Endings \ {"unlinked", "nodev"}, EndUrb(e) PROVE StatusInv'
  <2>1. /\ Unmoved /\ queue # <<>> /\ Back < Back'
        /\ \A p \in Back + 1..Back' : Line(p)' = [urb |-> UrbAt(p), status |-> IF p = Back + 1 THEN e ELSE "unlinked"]
        /\ Back + 1 < Back' => Continued
    BY <1>0, <1>15, Ending
  <2>2. /\ ~stalled /\ UNCHANGED <<gone, op, reap_action>> /\ (halted => halted')
        /\ e = "stall" => stalled' /\ (Continued => halted') /\ Head(queue) >= StallFrom
        /\ e = "overflow" => Head(queue) = NumUrbs
    BY <1>15 DEF EndUrb
  <2>3. Head(queue) = UrbAt(Back + 1)
    BY <1>0, <2>1, Facts
  <2>4. TakenBack' <=> TakenBack
    BY <1>0, <2>2 DEF TakenBack
  <2>5. ASSUME NEW p \in 1..Back' PROVE Told(Line(p))'
    <3>1. CASE p \in 1..Back
      <4>1. Told(Line(p)) /\ Line(p)' = Line(p)
        BY <1>1, <2>1, <3>1 DEF Unmoved
      <4> QED BY <1>0, <2>2, <2>4, <4>1
    <3>2. CASE p = Back + 1
      <4>1. p \in Back + 1..Back'
        BY <1>0, <2>1, <2>5, <3>2 DEF Unmoved
      <4>2. Line(p)' = [urb |-> UrbAt(p), status |-> e]
        BY <2>1, <3>2, <4>1
      <4>3. Line(p)'.urb = Head(queue) /\ Line(p)'.status = e
        BY <2>3, <3>2, <4>2
      <4> QED BY <1>0, <1>15, <2>2, <4>3
    <3>3. CASE p \in Back + 2..Back'
      <4>1. Line(p)' = [urb |-> UrbAt(p), status |-> "unlinked"] /\ Continued
        BY <1>0, <2>1, <3>3 DEF Unmoved
      <4>2. Line(p)'.status = "unlinked" /\ type = "bulk"
        BY <4>1 DEF Continued
      <4> QED BY <1>0, <4>2
    <3> QED BY <1>0, <2>1, <2>5, <3>1, <3>2, <3>3 DEF Unmoved
  <2> QED BY <2>5, <1>2
<1>16. CASE Unplug
  <2>1. /\ Unmoved /\ \A p \in Back + 1..Back' : Line(p)' = [urb |-> UrbAt(p), status |-> "nodev"]
    BY <1>0, <1>16, Unplugging
  <2>2. gone' /\ UNCHANGED <<stalled, halted, op, reap_action>>
    BY <1>16 DEF Unplug
  <2>3. TakenBack' <=> TakenBack
    BY <1>0, <2>2 DEF TakenBack
  <2>4. ASSUME NEW p \in 1..Back' PROVE Told(Line(p))'
    <3>1. CASE p \in 1..Back
      <4>1. Told(Line(p)) /\ Line(p)' = Line(p)
        BY <1>1, <2>1, <3>1 DEF Unmoved
      <4> QED BY <1>0, <2>2, <2>3, <4>1
    <3>2. CASE p \in Back + 1..Back'
      <4>1. Line(p)'.status = "nodev"
        BY <2>1, <3>2
      <4> QED BY <2>2, <4>1
    <3> QED BY <1>0, <2>1, <2>4, <3>1, <3>2 DEF Unmoved
  <2> QED BY <2>4, <1>2
<1>17. CASE Callback \/ Receive \/ UNCHANGED vars
  <2>1. UNCHANGED <<reaped, done, queue, op, reap_action, stalled, gone, halted>>
    BY <1>17 DEF Callback, Receive, vars
  <2>2. TakenBack' <=> TakenBack
    BY <1>0, <2>1 DEF TakenBack
  <2> QED BY <1>0, <1>4, <2>1, <2>2, Still DEF Unmoved
<1> QED BY <1>6, <1>7, <1>8, <1>9, <1>10, <1>11, <1>12, <1>13, <1>14, <1>15, <1>16, <1>17
        DEF UsbfsNext, Submission

LEMMA BoundStep ==
  ASSUME ControlInv, [UsbfsNext]_vars
  PROVE BoundInv'
<1>0. /\ OpInv /\ BoundInv /\ Core /\ NumUrbs' = NumUrbs /\ UNCHANGED <<type, length>>
      /\ NumUrbs \in Nat /\ NumUrbs > 0 /\ num_retired \in Nat /\ length \in Nat
      /\ op.next \in 0..NumUrbs
  BY StepsKeepSetup, Same, Facts, UsbfsAssumption
  DEF ControlInv, setup, Core, PrivType, SetupType, OpType
<1> USE DEF setup, priv, data, kernel, world
<1>1. CASE Submit
  BY <1>0, <1>1 DEF Submit, BoundInv
<1>2. CASE FirstUrbFails
  BY <1>0, <1>2 DEF FirstUrbFails, BoundInv
<1>3. CASE LaterUrbFails
  <2>1. /\ num_retired' = num_retired + NumUrbs - (op.next - 1) /\ op.next > 1
        /\ num_retired = 0 /\ UNCHANGED <<urbs, transferred>>
    BY <1>0, <1>3 DEF LaterUrbFails, OpInv
  <2>2. num_retired' <= NumUrbs /\ NumUrbs # 1
    BY <1>0, <2>1
  <2> QED BY <1>0, <2>1, <2>2 DEF BoundInv
<1>4. CASE Handle
  <2>1. num_retired + Open = NumUrbs /\ Open \in Nat /\ Open >= 1 /\ urbs
    BY <1>4, Normally
  <2>2. num_retired' \in {num_retired, num_retired + 1}
    BY <1>4 DEF Handle, BulkAbnormal, BulkNormal, Control, Iso
  <2>3. num_retired' <= NumUrbs
    BY <1>0, <2>1, <2>2
  <2>4. reap_action' = "SUBMIT_FAILED" => reap_action = "SUBMIT_FAILED"
    BY <1>4 DEF Handle, BulkAbnormal, BulkNormal, Control, Iso
  <2>5. type # "bulk" => transferred' <= length /\ (urbs' => transferred' = 0)
    <3>1. CASE Control
      <4>1. ~urbs' /\ transferred = 0 /\ transferred' = transferred + filled[reaped.urb]
        BY <1>0, <2>1, <3>1 DEF Control, Complete, Handling, BoundInv
      <4>2. reaped.urb \in Urbs
        BY <1>0, <3>1, Facts DEF Control, Handling
      <4>3. /\ filled[reaped.urb] \in Nat /\ filled[reaped.urb] <= UrbLength(reaped.urb)
            /\ Offset(reaped.urb) \in Nat /\ UrbLength(reaped.urb) \in Nat
            /\ Offset(reaped.urb) + UrbLength(reaped.urb) <= length
        BY <1>0, <4>2, Places DEF Core, SetupType, FillType
      <4> QED BY <1>0, <4>1, <4>3
    <3>2. CASE Iso
      BY <1>0, <2>1, <3>2 DEF Iso, BoundInv
    <3> QED BY <1>4, <3>1, <3>2 DEF Handle, BulkAbnormal, BulkNormal, Handling
  <2> QED BY <1>0, <2>3, <2>4, <2>5 DEF BoundInv
<1>5. CASE Detach
  BY <1>0, <1>5 DEF Detach, BoundInv
<1>6. CASE Discarded
  BY <1>0, <1>6 DEF Discarded, BoundInv
<1>7. CASE SubmitUrb \/ DiscardUrb \/ Cancel \/ Reap \/ Callback \/ Receive \/ Unplug \/ UNCHANGED vars
           \/ (\E e \in Endings \ {"unlinked", "nodev"} : EndUrb(e))
  <2>1. UNCHANGED <<num_retired, reap_action, transferred, urbs>>
    BY <1>7 DEF SubmitUrb, DiscardUrb, Cancel, Reap, Callback, Receive, Unplug, EndUrb,
        vars
  <2> QED BY <1>0, <2>1 DEF BoundInv
<1> QED BY <1>1, <1>2, <1>3, <1>4, <1>5, <1>6, <1>7 DEF UsbfsNext, Submission

LEMMA ControlInit ==
  ASSUME UsbfsInit
  PROVE ControlInv
<1>1. SetupType
  BY DEF UsbfsInit, SetupType
<1>2. /\ NumUrbs \in Nat /\ NumUrbs > 0 /\ Urbs = 1..NumUrbs /\ length \in Nat
      /\ \A i \in Urbs : UrbLength(i) \in Nat
  BY <1>1, Places DEF SetupType, Urbs
<1>3. PrivType /\ ReapedType /\ FlagsType
  BY DEF UsbfsInit, PrivType, ReapedType, FlagsType
<1>4. DataType
  BY <1>2 DEF UsbfsInit, DataType
<1>5. OpType
  BY <1>2 DEF UsbfsInit, OpType, NoOp
<1>6. ListType
  BY DEF UsbfsInit, ListType
<1>7. FillType
  BY <1>2 DEF UsbfsInit, FillType
<1>8. Core
  BY <1>1, <1>3, <1>4, <1>5, <1>6, <1>7 DEF Core
<1>9. Back = 0 /\ Open = 0 /\ Len(queue) = 0
  BY NothingOpen, EmptySeq DEF UsbfsInit
<1>10. OpInv /\ LifeInv /\ CountInv /\ BoundInv
  BY <1>2 DEF UsbfsInit, OpInv, LifeInv, CountInv, BoundInv, NoOp, Submitting
<1>11. QueueInv
  <2>1. Top = NumUrbs /\ ~Discarding /\ op.by = "none"
    BY DEF UsbfsInit, Top, Submitted, Discarding, Submitting, NoOp
  <2> QED BY <1>2, <1>9, <2>1 DEF UsbfsInit, QueueInv
<1>12. OrderInv /\ StatusInv
  BY <1>9 DEF UsbfsInit, OrderInv, StatusInv
<1> QED BY <1>8, <1>10, <1>11, <1>12 DEF ControlInv

LEMMA ControlStep ==
  ASSUME Orderly, ControlInv, [UsbfsNext]_vars
  PROVE ControlInv'
  BY CoreStep, OpStep, LifeStep, CountStep, QueueStep, OrderStep, StatusStep,
      BoundStep DEF ControlInv

LEMMA Controlled ==
  ASSUME Orderly
  PROVE UsbfsSpec => []ControlInv
<1>1. UsbfsInit => ControlInv
  BY ControlInit
<1>2. ControlInv /\ [UsbfsNext]_vars => ControlInv'
  BY ControlStep
<1> QED BY <1>1, <1>2, PTL DEF UsbfsSpec

(* The memory of a transfer's URBs is not freed as long as the kernel has  *)
(* one to do or to give back, or the event thread handles one: the count   *)
(* of what was retired (tpriv->num_retired) ends the transfer only when    *)
(* nothing is open, however submission, cancellation and errors met.       *)
THEOREM UrbsOutliveKernelCorrect ==
  ASSUME Orderly
  PROVE UsbfsSpec => []UrbsOutliveKernel
<1>1. ControlInv => UrbsOutliveKernel
  BY DEF ControlInv, LifeInv, UrbsOutliveKernel
<1> QED BY <1>1, Controlled, PTL

-----------------------------------------------------------------------------
(* The backend that io.c sees.                                             *)
Waiting == NumUrbs \in ToSet(queue)

LEMMA Requests ==
  /\ ~InFlight => Request = "none"
  /\ InFlight /\ TakenBack => Request = "discarded"
  /\ InFlight /\ ~TakenBack /\ reap_action = "NORMAL" /\ Waiting => Request = "queued"
  /\ InFlight /\ ~TakenBack /\ ~(reap_action = "NORMAL" /\ Waiting) => Request = "done"
  BY DEF Request, Waiting

LEMMA RequestsNext ==
  /\ ~InFlight' => Request' = "none"
  /\ InFlight' /\ TakenBack' => Request' = "discarded"
  /\ InFlight' /\ ~TakenBack' /\ reap_action' = "NORMAL" /\ Waiting' => Request' = "queued"
  /\ InFlight' /\ ~TakenBack' /\ ~(reap_action' = "NORMAL" /\ Waiting') => Request' = "done"
  BY DEF Request, Waiting

(* Once the last URB is back, it does not wait again.                      *)
LEMMA NoneWaits ==
  ASSUME queue = <<>>
  PROVE ~Waiting
  BY EmptySeq DEF Waiting, ToSet

LEMMA BackendStep ==
  ASSUME Orderly, ControlInv, ControlInv', [UsbfsNext]_vars
  PROVE [Backend!Next]_(Backend!backendVars)
<1>0. /\ OpInv /\ LifeInv /\ QueueInv /\ StatusInv /\ BoundInv /\ Core /\ LifeInv' /\ Core' /\ NumUrbs' = NumUrbs
      /\ NumUrbs \in Nat /\ NumUrbs > 0 /\ op.next \in 0..NumUrbs /\ gone \in BOOLEAN
  BY StepsKeepSetup, Same, Facts DEF ControlInv, setup, Core, OpType, FlagsType
<1>1. /\ ~InFlight => Request = "none"
      /\ InFlight /\ TakenBack => Request = "discarded"
      /\ InFlight /\ ~TakenBack /\ reap_action = "NORMAL" /\ Waiting => Request = "queued"
      /\ InFlight /\ ~TakenBack /\ ~(reap_action = "NORMAL" /\ Waiting) => Request = "done"
  BY Requests
<1>2. /\ ~InFlight' => Request' = "none"
      /\ InFlight' /\ TakenBack' => Request' = "discarded"
      /\ InFlight' /\ ~TakenBack' /\ reap_action' = "NORMAL" /\ Waiting' => Request' = "queued"
      /\ InFlight' /\ ~TakenBack' /\ ~(reap_action' = "NORMAL" /\ Waiting') => Request' = "done"
  BY RequestsNext
<1>3. ASSUME UNCHANGED <<Request, answer, gone>> PROVE [Backend!Next]_(Backend!backendVars)
  BY <1>3 DEF Backend!backendVars
<1>4. ASSUME Request = "queued", Request' = "done", gone' \in {gone, TRUE}, UNCHANGED answer
      PROVE [Backend!Next]_(Backend!backendVars)
  BY <1>4 DEF Backend!Next, Backend!Finish
<1>5. ASSUME Request = "none", answer = "none", Request' \in {"queued", "done"}, UNCHANGED <<answer, gone>>
      PROVE [Backend!Next]_(Backend!backendVars)
  BY <1>5 DEF Backend!Next, Backend!Accept
<1>6. ASSUME NEW s \in Backend!Statuses, s = "NO_DEVICE" => gone, Request # "none",
             Request = "discarded" => s \in {"CANCELLED", "NO_DEVICE"},
             Request # "discarded" => s # "CANCELLED",
             Request' = "none", answer' = s, UNCHANGED gone
      PROVE [Backend!Next]_(Backend!backendVars)
  <2>1. Request \in {"queued", "done", "discarded"}
    BY <1>1, <1>6
  <2> QED BY <1>6, <2>1 DEF Backend!Next, Backend!Answer
<1>7. ASSUME UNCHANGED <<urbs, op, reap_action, answer, gone, queue>>
      PROVE [Backend!Next]_(Backend!backendVars)
  <2>1. UNCHANGED Request
    BY <1>0, <1>7 DEF Request, InFlight, TakenBack
  <2> QED BY <1>3, <1>7, <2>1
<1> USE DEF setup, priv, data, kernel, world
<1>8. CASE Submit
  <2>1. ~InFlight /\ ~InFlight' /\ UNCHANGED <<answer, gone>>
    BY <1>8 DEF Submit, InFlight, NoOp
  <2> QED BY <1>1, <1>2, <1>3, <2>1
<1>9. CASE SubmitUrb
  <2>1. /\ ~InFlight /\ UNCHANGED <<urbs, answer, gone, reap_action>> /\ urbs /\ answer = "none"
        /\ reap_action = "NORMAL" /\ op.by = "submit"
    BY <1>0, <1>9 DEF SubmitUrb, Submitting, InFlight, OpInv, LifeInv
  <2>2. CASE op.next = NumUrbs
    <3>1. InFlight' /\ ~TakenBack'
      BY <1>9, <2>1, <2>2 DEF SubmitUrb, InFlight, TakenBack, NoOp
    <3> QED BY <1>1, <1>2, <1>5, <2>1, <3>1
  <2>3. CASE op.next # NumUrbs
    <3>1. ~InFlight'
      BY <1>0, <1>9, <2>1, <2>3 DEF SubmitUrb, InFlight, Core, OpType
    <3> QED BY <1>1, <1>2, <1>3, <2>1, <3>1
  <2> QED BY <2>2, <2>3
<1>10. CASE FirstUrbFails
  <2>1. ~InFlight /\ ~InFlight' /\ UNCHANGED <<answer, gone>>
    BY <1>10 DEF FirstUrbFails, Submitting, InFlight
  <2> QED BY <1>1, <1>2, <1>3, <2>1
<1>11. CASE LaterUrbFails
  <2>1. /\ ~InFlight /\ UNCHANGED <<urbs, answer, gone>> /\ urbs /\ answer = "none" /\ op.by = "submit"
        /\ reap_action' = IF EndedEarly THEN "COMPLETED_EARLY" ELSE "SUBMIT_FAILED"
    BY <1>0, <1>11 DEF LaterUrbFails, Submitting, InFlight, OpInv, LifeInv
  <2>2. CASE EndedEarly
    <3>1. InFlight' /\ ~TakenBack'
      BY <1>11, <2>1, <2>2 DEF LaterUrbFails, InFlight, TakenBack, NoOp
    <3> QED BY <1>1, <1>2, <1>5, <2>1, <2>2, <3>1
  <2>3. CASE ~EndedEarly
    <3>1. op' = [op EXCEPT !.first = 1, !.next = @ - 1]
      BY <1>11, <2>3 DEF LaterUrbFails
    <3>2. op'.by = "submit"
      BY <1>0, <2>1, <3>1 DEF Core, OpType
    <3> QED BY <1>1, <1>2, <1>3, <2>1, <3>2 DEF InFlight
  <2> QED BY <2>2, <2>3
<1>12. CASE DiscardUrb
  <2>1. /\ UNCHANGED <<urbs, reap_action, answer, gone>> /\ op'.by = op.by /\ op'.next = op.next - 1
        /\ op.next \in Urbs /\ Discarding /\ urbs
        /\ op.next \in ToSet(queue) <=> queue # <<>>
        /\ queue = <<>> => UNCHANGED queue
        /\ queue # <<>> => op'.ret = op.ret
        /\ queue = <<>> => op'.ret = IF gone THEN "NO_DEVICE"
                                     ELSE IF op.next = NumUrbs THEN "NOT_FOUND" ELSE op.ret
    BY <1>0, <1>12, Discarding1 DEF DiscardUrb, Discarding, OpInv
  <2>2. TakenBack => TakenBack'
    BY <1>12, StillTaken
  <2>3. Waiting' => Waiting
    <3>1. CASE queue = <<>>
      BY <1>0, <2>1, <3>1 DEF Waiting
    <3>2. CASE queue # <<>>
      <4>1. /\ Len(queue)' = Len(queue) - 1 /\ \A k \in 1..Len(queue) - 1 : queue'[k] = queue[k]
            /\ queue' \in Seq(Urbs)
        BY <1>0, <1>12, <3>2, Discarding1
      <4>2. DOMAIN queue' = 1..Len(queue) - 1 /\ DOMAIN queue = 1..Len(queue) /\ Len(queue) \in Nat
        BY <1>0, <4>1, Lengths0, Facts
      <4> QED BY <1>0, <4>1, <4>2 DEF Waiting, ToSet
    <3> QED BY <3>1, <3>2
  <2>4. CASE op.by = "submit"
    BY <1>1, <1>2, <1>3, <2>1, <2>4 DEF InFlight
  <2>5. CASE op.by = "complete"
    <3>1. InFlight /\ InFlight' /\ (TakenBack' <=> TakenBack)
      BY <2>1, <2>5 DEF InFlight, TakenBack
    <3> QED BY <1>1, <1>2, <1>3, <1>4, <2>1, <2>3, <3>1
  <2>6. CASE op.by = "cancel"
    <3>1. InFlight /\ InFlight' /\ reap_action # "CANCELLED"
      BY <1>0, <2>1, <2>6 DEF InFlight, OpInv
    <3>2. CASE TakenBack
      BY <1>1, <1>2, <1>3, <2>1, <2>2, <3>1, <3>2
    <3>3. CASE ~TakenBack /\ queue # <<>>
      <4>1. op.ret = "SUCCESS" /\ reap_action = "NORMAL"
        BY <1>0, <2>6, <3>3 DEF QueueInv
      <4>2. op.next = NumUrbs
        <5>1. ~(op.next < NumUrbs)
          BY <2>6, <3>3, <4>1 DEF TakenBack
        <5> QED BY <1>0, <5>1
      <4>3. Waiting
        BY <2>1, <3>3, <4>2 DEF Waiting
      <4>4. TakenBack'
        <5>1. op.next - 1 < NumUrbs
          BY <1>0
        <5> QED BY <1>0, <2>1, <2>6, <3>3, <4>1, <5>1 DEF TakenBack
      <4>5. Request = "queued" /\ Request' = "discarded"
        BY <1>1, <1>2, <3>1, <3>3, <4>1, <4>3, <4>4
      <4> QED BY <2>1, <4>5 DEF Backend!Next, Backend!Discard
    <3>4. CASE ~TakenBack /\ queue = <<>>
      <4>1. ~TakenBack'
        <5>1. ASSUME op'.ret = "SUCCESS" PROVE FALSE
          <6>1. op.ret = "SUCCESS" /\ op.next # NumUrbs
            BY <2>1, <3>4, <5>1
          <6>2. op.next < NumUrbs
            BY <1>0, <6>1
          <6> QED BY <2>6, <3>4, <6>1, <6>2 DEF TakenBack
        <5> QED BY <2>1, <3>1, <5>1 DEF TakenBack
      <4>2. ~Waiting /\ ~Waiting'
        BY <2>3, <3>4, NoneWaits
      <4> QED BY <1>1, <1>2, <1>3, <2>1, <3>1, <3>4, <4>1, <4>2
    <3> QED BY <3>2, <3>3, <3>4
  <2> QED BY <1>0, <2>1, <2>4, <2>5, <2>6 DEF Discarding, Core, OpType
<1>13. CASE Discarded
  <2>1. /\ UNCHANGED <<urbs, answer, gone, queue>> /\ op' = NoOp /\ op'.by = "none" /\ Discarding /\ urbs
        /\ answer = "none" /\ op.next < op.first
    BY <1>0, <1>13 DEF Discarded, Discarding, OpInv, LifeInv, NoOp
  <2>2. InFlight' /\ (TakenBack' <=> reap_action' = "CANCELLED") /\ (Waiting' <=> Waiting)
    BY <1>0, <2>1 DEF InFlight, TakenBack, Waiting
  <2>3. CASE op.by = "submit"
    <3>1. ~InFlight /\ reap_action' = "SUBMIT_FAILED"
      <4>1. op.first = 1
        BY <1>0, <2>1, <2>3 DEF OpInv, Discarding, Core, OpType
      <4> QED BY <1>0, <1>13, <2>3, <4>1 DEF Discarded, OpInv, InFlight
    <3>2. ~TakenBack'
      BY <2>2, <3>1
    <3> QED BY <1>1, <1>2, <1>5, <2>1, <2>2, <3>1, <3>2
  <2>4. CASE op.by = "complete"
    <3>1. InFlight /\ UNCHANGED reap_action /\ ~TakenBack /\ reap_action # "CANCELLED"
      BY <1>0, <1>13, <2>1, <2>4 DEF Discarded, InFlight, TakenBack, OpInv
    <3> QED BY <1>1, <1>2, <1>3, <2>1, <2>2, <3>1
  <2>5. CASE op.by = "cancel"
    <3>1. InFlight /\ op.first = 1 /\ reap_action # "CANCELLED"
      BY <1>0, <2>1, <2>5 DEF InFlight, OpInv
    <3>2. CASE TakenBack
      BY <1>1, <1>2, <1>3, <1>13, <2>1, <2>2, <3>1, <3>2, StillTaken
    <3>3. CASE ~TakenBack
      <4>1. op.next < NumUrbs
        BY <1>0, <2>1, <3>1
      <4>2. op.ret # "SUCCESS"
        BY <2>5, <3>3, <4>1 DEF TakenBack
      <4>3. UNCHANGED reap_action
        BY <1>13, <4>2 DEF Discarded
      <4> QED BY <1>1, <1>2, <1>3, <2>1, <2>2, <3>1, <3>3, <4>3
    <3> QED BY <3>2, <3>3
  <2> QED BY <1>0, <2>1, <2>3, <2>4, <2>5 DEF Discarding, Core, OpType
<1>14. CASE Cancel
  <2>1. /\ UNCHANGED <<urbs, answer, gone, queue, reap_action>> /\ op.by = "none" /\ op'.by = "cancel"
        /\ op'.next = NumUrbs /\ urbs
    BY <1>14 DEF Cancel, NoOp
  <2>2. InFlight /\ InFlight' /\ (Waiting' <=> Waiting) /\ (TakenBack' <=> TakenBack)
    BY <1>0, <2>1 DEF InFlight, TakenBack, Waiting
  <2> QED BY <1>1, <1>2, <1>3, <2>1, <2>2
<1>15. CASE Handle
  <2>1. /\ urbs /\ op.by = "none" /\ answer = "none" /\ InFlight /\ (TakenBack <=> reap_action = "CANCELLED")
        /\ UNCHANGED <<queue, gone>>
    BY <1>15, Normally DEF Handle, BulkAbnormal, BulkNormal, Control, Iso, InFlight, NoOp
  <2>2. CASE ~urbs'
    <3>1. reap_action = "CANCELLED" => answer' = "CANCELLED"
      BY <1>15, <2>1, <2>2 DEF Handle, BulkAbnormal, BulkNormal, Control, Iso, Complete
    <3>2. reaped.status = "nodev" => gone
      BY <1>0, <1>15, Accounting, Facts DEF StatusInv
    <3>3. ASSUME reap_action # "CANCELLED" PROVE answer' # "CANCELLED" /\ (answer' = "NO_DEVICE" => gone)
      <4>1. CASE BulkAbnormal
        BY <1>0, <2>1, <2>2, <3>3, <4>1 DEF BulkAbnormal, Complete, LifeInv, Core,
            PrivType
      <4>2. CASE BulkNormal
        <5>1. answer' = reap_status'
          BY <2>1, <2>2, <4>2 DEF BulkNormal, Complete
        <5>2. reap_status' # "CANCELLED"
          BY <1>0 DEF Core, PrivType
        <5> QED BY <1>0, <2>1, <5>1, <5>2 DEF LifeInv
      <4>3. CASE Control
        <5>1. answer' = StatusOf(reaped.status) /\ type = "control"
          BY <3>3, <4>3 DEF Control, Complete, Handling
        <5>2. NumUrbs = 1 /\ reap_action # "SUBMIT_FAILED"
          BY <1>0, <5>1, Setup DEF BoundInv, Core, SetupType
        <5>3. reaped.status # "unlinked"
          BY <1>0, <1>15, <2>1, <3>3, <5>1, <5>2, Accounting, Facts DEF StatusInv
        <5>4. reaped.status \in Endings
          BY <1>0, <1>15, Facts, Accounting
        <5> QED BY <3>2, <5>1, <5>3, <5>4 DEF StatusOf, Endings
      <4>4. CASE Iso
        BY <2>1, <2>2, <3>2, <3>3, <4>4 DEF Iso, Complete
      <4> QED BY <1>15, <4>1, <4>2, <4>3, <4>4 DEF Handle
    <3>4. ~InFlight' /\ answer' # "none"
      <4>1. ~InFlight'
        BY <2>2 DEF InFlight
      <4>2. StatusOf(reaped.status) # "none"
        BY <1>0, <1>15, Facts, Accounting DEF StatusOf, Endings
      <4>3. reap_status' # "none"
        BY <1>0 DEF Core, PrivType
      <4>4. answer' # "none"
        BY <1>15, <2>1, <2>2, <4>2, <4>3
        DEF Handle, BulkAbnormal, BulkNormal, Control, Iso, Complete
      <4> QED BY <4>1, <4>4
    <3>5. answer' \in Backend!Statuses
      BY <1>0, <3>4 DEF Core, FlagsType, Backend!Statuses
    <3> QED BY <1>1, <1>2, <1>6, <2>1, <3>1, <3>3, <3>4, <3>5
  <2>3. CASE urbs'
    <3>1. UNCHANGED answer /\ (reap_action' = "CANCELLED" <=> reap_action = "CANCELLED")
          /\ (reap_action' = "NORMAL" => reap_action = "NORMAL")
      BY <1>15, <2>1, <2>3 DEF Handle, BulkAbnormal, BulkNormal, Control, Iso, Complete
    <3>2. op'.by \in {"none", "complete"}
      BY <1>15, <2>1 DEF Handle, BulkAbnormal, BulkNormal, Control, Iso, NoOp
    <3>3. InFlight' /\ (TakenBack' <=> TakenBack) /\ (Waiting' <=> Waiting)
      BY <1>0, <2>1, <2>3, <3>1, <3>2 DEF InFlight, TakenBack, Waiting
    <3> QED BY <1>1, <1>2, <1>3, <1>4, <2>1, <3>1, <3>3
  <2> QED BY <1>0, <2>2, <2>3 DEF Core, PrivType
<1>16. CASE Callback
  <2>1. UNCHANGED <<urbs, op, reap_action, gone, queue>> /\ answer # "none" /\ answer' = "none"
    BY <1>16 DEF Callback
  <2>2. UNCHANGED Request
    BY <1>0, <2>1 DEF Request, InFlight, TakenBack
  <2> QED BY <2>1, <2>2 DEF Backend!Next, Backend!Return
<1>17. CASE Detach
  <2>1. /\ gone /\ UNCHANGED gone /\ op.by = "none" /\ ~urbs' /\ answer = "none"
        /\ answer' = IF urbs THEN "NO_DEVICE" ELSE "none"
    BY <1>17 DEF Detach
  <2>2. ~InFlight' /\ (InFlight <=> urbs)
    BY <2>1 DEF InFlight
  <2>3. CASE urbs
    <3>1. "NO_DEVICE" \in Backend!Statuses
      BY DEF Backend!Statuses
    <3> QED BY <1>1, <1>2, <1>6, <2>1, <2>2, <2>3, <3>1
  <2>4. CASE ~urbs
    BY <1>1, <1>2, <1>3, <2>1, <2>2, <2>4
  <2> QED BY <2>3, <2>4
<1>18. CASE Reap \/ Receive \/ UNCHANGED vars
  BY <1>7, <1>18 DEF Reap, Receive, vars
<1>19. ASSUME NEW e \in Endings \ {"unlinked", "nodev"}, EndUrb(e)
       PROVE [Backend!Next]_(Backend!backendVars)
  <2>1. /\ queue # <<>> /\ UNCHANGED <<urbs, op, reap_action, gone, answer>>
        /\ queue' = <<>> \/ queue' = Tail(queue)
    BY <1>0, <1>19, Ending DEF EndUrb
  <2>2. (InFlight' <=> InFlight) /\ (TakenBack' <=> TakenBack)
    BY <1>0, <2>1 DEF InFlight, TakenBack
  <2>3. Waiting' => Waiting
    <3>1. queue' = <<>> => ~Waiting'
      BY EmptySeq DEF Waiting, ToSet
    <3>2. ASSUME queue' = Tail(queue) PROVE Waiting' => Waiting
      <4>1. /\ Len(queue)' = Len(queue) - 1 /\ \A k \in 1..Len(queue) - 1 : queue'[k] = queue[k + 1]
            /\ queue' \in Seq(Urbs)
        BY <1>0, <2>1, <3>2, HeadTailProperties DEF Core, ListType
      <4>2. DOMAIN queue' = 1..Len(queue) - 1 /\ DOMAIN queue = 1..Len(queue) /\ Len(queue) \in Nat
        BY <1>0, <4>1, Lengths0, Facts
      <4> QED BY SMTT(30), <1>0, <4>1, <4>2 DEF Waiting, ToSet
    <3> QED BY <2>1, <3>1, <3>2
  <2> QED BY <1>1, <1>2, <1>3, <1>4, <2>1, <2>2, <2>3
<1>20. CASE Unplug
  <2>1. /\ ~gone /\ gone' = TRUE /\ queue' = <<>> /\ UNCHANGED <<urbs, op, reap_action, answer>>
    BY <1>20 DEF Unplug
  <2>2. (InFlight' <=> InFlight) /\ (TakenBack' <=> TakenBack)
    BY <1>0, <2>1 DEF InFlight, TakenBack
  <2>3. ~Waiting'
    BY <2>1, EmptySeq DEF Waiting, ToSet
  <2>4. CASE Request = "queued"
    <3>1. Request' = "done"
      BY <1>1, <1>2, <2>1, <2>2, <2>3, <2>4
    <3> QED BY <1>4, <2>1, <2>4, <3>1
  <2>5. CASE Request # "queued"
    <3>1. UNCHANGED Request
      BY <1>1, <1>2, <2>1, <2>2, <2>3, <2>5
    <3> QED BY <2>1, <3>1 DEF Backend!Next, Backend!Unplug
  <2> QED BY <2>4, <2>5
<1> QED BY <1>8, <1>9, <1>10, <1>11, <1>12, <1>13, <1>14, <1>15, <1>16, <1>17, <1>18,
        <1>19, <1>20
        DEF UsbfsNext, Submission

(* It is a backend as io.c needs it: a transfer that was accepted is       *)
(* answered once, as cancelled if discarding its URBs has succeeded and    *)
(* never otherwise, and as without a device only when that is gone; so     *)
(* UsbTransfer may use UsbBackend's requests for the URBs.                 *)
THEOREM BackendCorrect ==
  ASSUME Orderly
  PROVE UsbfsSpec => BackendSpec
<1>1. UsbfsInit => Backend!Init
  <2>1. UsbfsInit => ~InFlight
    BY DEF UsbfsInit, InFlight
  <2>2. UsbfsInit => Request = "none"
    BY <2>1, Requests
  <2> QED BY <2>2 DEF UsbfsInit, Backend!Init
<1>2. ControlInv /\ ControlInv' /\ [UsbfsNext]_vars => [Backend!Next]_(Backend!backendVars)
  BY BackendStep
<1> QED BY <1>1, <1>2, Controlled, PTL DEF UsbfsSpec, BackendSpec, Backend!Spec

-----------------------------------------------------------------------------
(* The data.  What URBs behind the kernel's next one got is nothing, and   *)
(* the device has not sent more than what comes before.                    *)
FreshInv ==
  /\ queue # <<>> => /\ \A j \in Urbs : j > Head(queue) => filled[j] = 0
                     /\ sent <= Offset(Head(queue)) + filled[Head(queue)]
  /\ Submitting => /\ \A j \in Urbs : j >= op.next => filled[j] = 0
                   /\ queue = <<>> => sent <= Offset(op.next)

(* c[p] units are the user's and in the first p of the open URBs: each has *)
(* its own at its place in the buffer, which is not before where they      *)
(* belong, and nothing is in any after one that has failed.                *)
DataAt(c) ==
  /\ c[0] = transferred /\ c[Open] = sent
  /\ \A p \in Back + 1..Open : c[p] = sent
  /\ \A p, q \in 0..Open : p <= q => c[p] <= c[q]
  /\ \A p \in 1..Open : c[p] = c[p - 1] + filled[UrbAt(p)]
  /\ \A p \in 1..Open : filled[UrbAt(p)] > 0 => c[p - 1] <= Offset(UrbAt(p))
  /\ \A p \in 1..Open : \A f \in 1..filled[UrbAt(p)] : buffer[Offset(UrbAt(p)) + f] = c[p - 1] + f
  /\ \A p \in 1..Back : Line(p).status \in {"stall", "nodev"} =>
       \A q \in p + 1..Open : filled[UrbAt(q)] = 0
  /\ \A k \in 1..transferred : buffer[k] = k

DataInv == type = "bulk" /\ urbs => \E c \in [0..Open -> Nat] : DataAt(c)

(* In a normal transfer what is transferred fills the retired URBs, unless *)
(* nothing comes any more.                                                 *)
Dry == (stalled \/ gone) /\ \A p \in 1..Open : filled[UrbAt(p)] = 0
FullInv ==
  type = "bulk" /\ urbs /\ reap_action = "NORMAL" /\ ~TakenBack =>
    transferred = Offset(num_retired + 1) \/ Dry

LengthInv == type = "bulk" => transferred <= length

DataTotal == FreshInv /\ DataInv /\ FullInv /\ LengthInv /\ DataInOrder

LEMMA Later ==
  ASSUME NEW a \in Int, NEW b \in Int, NEW n \in Int, a <= b, NEW p \in b + 1..n
  PROVE p \in a + 1..n
  OBVIOUS

LEMMA Inside ==
  ASSUME NEW o \in Nat, NEW u \in Nat, NEW n \in Nat, NEW g \in Nat, NEW f \in 1..g,
         g <= u, o + u <= n
  PROVE o + f \in 1..n /\ o + f > o /\ o + f \in Nat
  OBVIOUS

LEMMA DataThen ==
  ASSUME UNCHANGED setup,
         NEW d \in [0..Open' -> Nat],
         d[0] = transferred', d[Open'] = sent', \A p \in Back' + 1..Open' : d[p] = sent',
         \A p, q \in 0..Open' : p <= q => d[p] <= d[q],
         \A p \in 1..Open' : d[p] = d[p - 1] + filled'[UrbAt(p)'],
         \A p \in 1..Open' : filled'[UrbAt(p)'] > 0 => d[p - 1] <= Offset(UrbAt(p)'),
         \A p \in 1..Open' : \A f \in 1..filled'[UrbAt(p)'] : buffer'[Offset(UrbAt(p)') + f] = d[p - 1] + f,
         \A p \in 1..Back' : Line(p)'.status \in {"stall", "nodev"} =>
           \A q \in p + 1..Open' : filled'[UrbAt(q)'] = 0,
         \A k \in 1..transferred' : buffer'[k] = k
  PROVE DataInv'
<1>1. \A i : (Offset(i))' = Offset(i)
  BY Same
<1>2. \A p : (Offset(UrbAt(p)))' = Offset(UrbAt(p)')
  <2>1. BufferLen' = BufferLen
    BY DEF BufferLen, Continued, setup
  <2> QED BY <2>1 DEF Offset
<1>3. DataAt(d)'
  BY <1>2 DEF DataAt
<1> QED BY <1>3 DEF DataInv

(* URBs end, are reaped, or nothing happens to them.                       *)
LEMMA DataKept ==
  ASSUME Core, DataInv, type = "bulk", urbs, Unmoved,
         UNCHANGED <<setup, transferred, buffer, filled, sent>>,
         \A p \in Back + 1..Back' : Line(p)'.status \in {"stall", "nodev"} =>
           \A q \in p + 1..Open : filled[UrbAt(q)] = 0
  PROVE DataInv'
<1>1. PICK c \in [0..Open -> Nat] : DataAt(c)
  BY DEF DataInv
<1>2. /\ Open' = Open /\ Back \in Nat /\ Back' \in Nat /\ Back' >= Back /\ Open \in Nat
      /\ \A p \in 1..Back : Line(p)' = Line(p)
      /\ \A p \in 1..Open : UrbAt(p)' = UrbAt(p)
  BY Facts DEF Unmoved
<1>3. c \in [0..Open' -> Nat] /\ c[0] = transferred' /\ c[Open'] = sent'
  BY <1>1, <1>2 DEF DataAt
<1>4. ASSUME NEW p \in Back' + 1..Open' PROVE c[p] = sent'
  <2>0. Back \in Int /\ Back' \in Int /\ Open \in Int /\ Back' >= Back /\ Open' = Open
    BY <1>2
  <2>1. p \in Back + 1..Open
    BY <2>0, Later
  <2> QED BY <1>1, <2>1 DEF DataAt
<1>5. \A p, q \in 0..Open' : p <= q => c[p] <= c[q]
  BY <1>1, <1>2 DEF DataAt
<1>6. /\ \A p \in 1..Open' : c[p] = c[p - 1] + filled'[UrbAt(p)']
      /\ \A p \in 1..Open' : filled'[UrbAt(p)'] > 0 => c[p - 1] <= Offset(UrbAt(p)')
      /\ \A p \in 1..Open' : \A f \in 1..filled'[UrbAt(p)'] : buffer'[Offset(UrbAt(p)') + f] = c[p - 1] + f
  BY <1>1, <1>2 DEF DataAt
<1>7. ASSUME NEW p \in 1..Back', Line(p)'.status \in {"stall", "nodev"}, NEW q \in p + 1..Open'
      PROVE filled'[UrbAt(q)'] = 0
  <2>1. q \in 1..Open /\ q \in p + 1..Open
    BY <1>2, <1>7
  <2>2. CASE p \in 1..Back
    <3>1. Line(p).status \in {"stall", "nodev"}
      BY <1>2, <1>7, <2>2
    <3>2. filled[UrbAt(q)] = 0
      BY <1>1, <2>1, <2>2, <3>1 DEF DataAt
    <3> QED BY <1>2, <2>1, <3>2
  <2>3. CASE p \in Back + 1..Back'
    <3>1. filled[UrbAt(q)] = 0
      BY <1>7, <2>1, <2>3
    <3> QED BY <1>2, <2>1, <3>1
  <2> QED BY <1>2, <1>7, <2>2, <2>3
<1>8. \A k \in 1..transferred' : buffer'[k] = k
  BY <1>1 DEF DataAt
<1> QED BY <1>3, <1>4, <1>5, <1>6, <1>7, <1>8, DataThen

(* One more URB, with nothing yet.                                         *)
LEMMA DataQueued ==
  ASSUME Core, DataInv, type = "bulk", urbs, OpInv, FreshInv, SubmitUrb
  PROVE DataInv'
<1>1. PICK c \in [0..Open -> Nat] : DataAt(c)
  BY DEF DataInv
<1>2. /\ Open' = Open + 1 /\ Back' = Back /\ Back \in Nat /\ Open \in Nat /\ Back <= Open
      /\ \A p \in 1..Back : Line(p)' = Line(p)
      /\ \A p \in 1..Open + 1 : UrbAt(p)' = IF p <= Open THEN UrbAt(p) ELSE op.next
  BY Queueing, Facts DEF Open
<1>3. /\ UNCHANGED <<setup, transferred, buffer, filled, sent>> /\ filled[op.next] = 0 /\ sent \in Nat
      /\ op.next \in Urbs
  <2>1. op.next \in Urbs /\ Submitting /\ length \in Nat
    BY Facts, UsbfsAssumption DEF SubmitUrb, Submitting, OpInv, Core, OpType, SetupType
  <2>2. op.next \in Nat
    BY <2>1, Facts
  <2> QED BY <2>1, <2>2 DEF SubmitUrb, FreshInv, data, Core, FillType
<1> DEFINE d == [p \in 0..Open + 1 |-> IF p <= Open THEN c[p] ELSE sent]
<1>4. d \in [0..Open + 1 -> Nat] /\ (\A p \in 0..Open : d[p] = c[p]) /\ d[Open + 1] = sent
  BY <1>2, <1>3
<1> HIDE DEF d
<1>5. d \in [0..Open' -> Nat] /\ d[0] = transferred' /\ d[Open'] = sent'
  BY <1>1, <1>2, <1>3, <1>4 DEF DataAt
<1>6. ASSUME NEW p \in Back' + 1..Open' PROVE d[p] = sent'
  <2>1. CASE p <= Open
    BY <1>1, <1>2, <1>3, <1>4, <1>6, <2>1 DEF DataAt
  <2>2. CASE p = Open + 1
    BY <1>3, <1>4, <2>2
  <2> QED BY <1>2, <1>6, <2>1, <2>2
<1>7. ASSUME NEW p \in 0..Open', NEW q \in 0..Open', p <= q PROVE d[p] <= d[q]
  <2>1. \A r \in 0..Open : c[r] <= sent /\ c[r] \in Nat
    BY <1>1, <1>2 DEF DataAt
  <2>2. CASE q <= Open
    BY <1>1, <1>2, <1>4, <1>7, <2>2 DEF DataAt
  <2>3. CASE q = Open + 1
    BY <1>2, <1>3, <1>4, <1>7, <2>1, <2>3
  <2> QED BY <1>2, <1>7, <2>2, <2>3
<1>8. ASSUME NEW p \in 1..Open'
      PROVE /\ d[p] = d[p - 1] + filled'[UrbAt(p)']
            /\ filled'[UrbAt(p)'] > 0 => d[p - 1] <= Offset(UrbAt(p)')
            /\ \A f \in 1..filled'[UrbAt(p)'] : buffer'[Offset(UrbAt(p)') + f] = d[p - 1] + f
  <2>1. CASE p <= Open
    <3>1. p \in 1..Open /\ p - 1 \in 0..Open /\ UrbAt(p)' = UrbAt(p) /\ d[p] = c[p] /\ d[p - 1] = c[p - 1]
      BY <1>2, <1>4, <1>8, <2>1
    <3> QED BY <1>1, <1>3, <3>1 DEF DataAt
  <2>2. CASE p = Open + 1
    <3>1. UrbAt(p)' = op.next /\ d[p] = sent /\ d[p - 1] = sent
      BY <1>1, <1>2, <1>4, <1>8, <2>2 DEF DataAt
    <3> QED BY <1>3, <3>1
  <2> QED BY <1>2, <1>8, <2>1, <2>2
<1>9. ASSUME NEW p \in 1..Back', Line(p)'.status \in {"stall", "nodev"}, NEW q \in p + 1..Open'
      PROVE filled'[UrbAt(q)'] = 0
  <2>1. p \in 1..Back /\ Line(p).status \in {"stall", "nodev"}
    BY <1>2, <1>9
  <2>2. CASE q <= Open
    <3>1. q \in p + 1..Open /\ UrbAt(q)' = UrbAt(q)
      BY <1>2, <1>9, <2>2
    <3> QED BY <1>1, <1>3, <2>1, <3>1 DEF DataAt
  <2>3. CASE q = Open + 1
    BY <1>2, <1>3, <1>9, <2>3
  <2> QED BY <1>2, <1>9, <2>2, <2>3
<1>10. \A k \in 1..transferred' : buffer'[k] = k
  BY <1>1, <1>3 DEF DataAt
<1> QED BY <1>3, <1>5, <1>6, <1>7, <1>8, <1>9, <1>10, DataThen

(* An URB that is discarded goes, with nothing, before the queue's others. *)
LEMMA DataDiscarded ==
  ASSUME Core, DataInv, type = "bulk", urbs, QueueInv, FreshInv, DiscardUrb
  PROVE DataInv'
<1>1. PICK c \in [0..Open -> Nat] : DataAt(c)
  BY DEF DataInv
<1>0. /\ UNCHANGED <<setup, transferred, buffer, filled, sent, reaped>> /\ op'.by = op.by /\ sent \in Nat
      /\ length \in Nat /\ \A i \in Urbs : filled[i] \in Nat
  BY Discarding1, UsbfsAssumption DEF DiscardUrb, data, Core, SetupType, FillType
<1>2. CASE queue = <<>>
  <2>1. Unmoved /\ Back' = Back
    BY <1>0, <1>2, Still, Discarding1
  <2>2. \A p \in Back + 1..Back' : FALSE
    BY <2>1, Facts
  <2> QED BY <1>0, <2>1, <2>2, DataKept
<1>3. CASE queue # <<>>
  <2>1. /\ Back' = Back + 1 /\ Open' = Open /\ Back < Open /\ UrbAt(Open) = op.next
        /\ \A p \in 1..Back : Line(p)' = Line(p)
        /\ \A p : p = Back + 1 => Line(p)' = [urb |-> op.next, status |-> "unlinked"]
        /\ \A p \in 1..Back : UrbAt(p)' = UrbAt(p)
        /\ \A p : p = Back + 1 => UrbAt(p)' = op.next
        /\ \A p \in Back + 2..Open : UrbAt(p)' = UrbAt(p - 1)
    BY <1>3, Overtaking
  <2>2. /\ Back \in Nat /\ Open \in Nat /\ Len(queue) \in Nat /\ Open = Back + Len(queue)
        /\ Head(queue) = queue[1] /\ queue[1] = UrbAt(Back + 1)
        /\ \A p \in 1..Open : UrbAt(p) \in Urbs
    BY <1>3, Facts DEF Open
  (* Either it is the queue's only one, or it has got nothing.             *)
  <2>3. Open = Back + 1 \/ filled[op.next] = 0
    <3>1. ASSUME Open # Back + 1 PROVE filled[op.next] = 0
      <4>1. Len(queue) > 1
        BY <2>1, <2>2, <3>1
      <4>2. op.next = queue[Len(queue)] /\ op.next \in Urbs /\ Top = op.next
        BY <1>3, Discarding1 DEF DiscardUrb, Top
      <4>3. queue[1] = op.next - Len(queue) + 1 /\ op.next \in Int
        BY <2>2, <4>1, <4>2, Facts DEF QueueInv
      <4>4. op.next > Head(queue)
        BY <2>2, <4>1, <4>3
      <4> QED BY <1>3, <4>2, <4>4 DEF FreshInv
    <3> QED BY <3>1
  <2>4. CASE Open = Back + 1
    <3>1. Unmoved
      <4>1. ASSUME NEW p \in 1..Open PROVE UrbAt(p)' = UrbAt(p)
        BY <2>1, <2>2, <2>4
      <4> QED BY <2>1, <2>2, <4>1 DEF Unmoved
    <3>2. ASSUME NEW p \in Back + 1..Back', Line(p)'.status \in {"stall", "nodev"} PROVE FALSE
      <4>1. p = Back + 1
        BY <2>1, <2>2
      <4>2. Line(p)' = [urb |-> op.next, status |-> "unlinked"]
        BY <2>1, <4>1
      <4> QED BY <3>2, <4>2
    <3> QED BY <1>0, <3>1, <3>2, DataKept
  <2>5. CASE filled[op.next] = 0 /\ Open # Back + 1
    <3> DEFINE d == [p \in 0..Open |-> IF p <= Back THEN c[p] ELSE c[p - 1]]
    <3>1. /\ d \in [0..Open -> Nat] /\ (\A p \in 0..Back : d[p] = c[p])
          /\ \A p \in Back + 1..Open : d[p] = c[p - 1]
      <4>1. \A p \in 0..Open : p <= Back \/ p - 1 \in 0..Open
        BY <2>2
      <4> QED BY <2>1, <2>2, <4>1
    <3> HIDE DEF d
    <3>2. c[Open] = sent /\ c[Open - 1] = sent /\ c[0] = transferred
      <4>1. Open - 1 \in Back + 1..Open
        BY <2>1, <2>2, <2>5
      <4> QED BY <1>1, <4>1 DEF DataAt
    <3>3. d \in [0..Open' -> Nat] /\ d[0] = transferred' /\ d[Open'] = sent'
      <4>1. 0 \in 0..Back /\ Open \in Back + 1..Open
        BY <2>1, <2>2
      <4> QED BY <1>0, <2>1, <3>1, <3>2, <4>1
    <3>4. ASSUME NEW p \in Back' + 1..Open' PROVE d[p] = sent'
      <4>1. p - 1 \in Back + 1..Open /\ p \in Back + 1..Open
        BY <2>1, <2>2
      <4> QED BY <1>0, <1>1, <3>1, <4>1 DEF DataAt
    <3>5. ASSUME NEW p \in 0..Open', NEW q \in 0..Open', p <= q PROVE d[p] <= d[q]
      <4>1. \A r, s \in 0..Open : r <= s => c[r] <= c[s]
        BY <1>1 DEF DataAt
      <4>2. CASE q <= Back
        <5>1. p \in 0..Back /\ q \in 0..Back /\ p \in 0..Open /\ q \in 0..Open
          BY <2>1, <2>2, <3>5, <4>2
        <5> QED BY <3>1, <3>5, <4>1, <5>1
      <4>3. CASE p <= Back /\ q > Back
        <5>1. q \in Back + 1..Open /\ p \in 0..Back /\ p \in 0..Open /\ q - 1 \in 0..Open /\ p <= q - 1
          BY <2>1, <2>2, <3>5, <4>3
        <5> QED BY <3>1, <4>1, <5>1
      <4>4. CASE p > Back
        <5>1. /\ p \in Back + 1..Open /\ q \in Back + 1..Open /\ p - 1 \in 0..Open /\ q - 1 \in 0..Open
              /\ p - 1 <= q - 1
          BY <2>1, <2>2, <3>5, <4>4
        <5> QED BY <3>1, <4>1, <5>1
      <4> QED BY <2>2, <4>2, <4>3, <4>4
    <3>6. ASSUME NEW p \in 1..Open'
          PROVE /\ d[p] = d[p - 1] + filled'[UrbAt(p)']
                /\ filled'[UrbAt(p)'] > 0 => d[p - 1] <= Offset(UrbAt(p)')
                /\ \A f \in 1..filled'[UrbAt(p)'] : buffer'[Offset(UrbAt(p)') + f] = d[p - 1] + f
      <4>1. CASE p <= Back
        <5>1. p \in 1..Open /\ p \in 0..Back /\ p - 1 \in 0..Back /\ p \in 1..Back
          BY <2>1, <2>2, <4>1
        <5> QED BY <1>0, <1>1, <2>1, <3>1, <5>1 DEF DataAt
      <4>2. CASE p = Back + 1
        <5>1. p \in Back + 1..Open /\ p - 1 = Back /\ Back \in 0..Back /\ c[Back] \in Nat
          BY <2>1, <2>2, <4>2
        <5>2. d[p] = c[Back] /\ d[p - 1] = c[Back] /\ UrbAt(p)' = op.next
          BY <2>1, <3>1, <4>2, <5>1
        <5> QED BY <1>0, <2>5, <5>1, <5>2
      <4>3. CASE p > Back + 1
        <5>1. p - 1 \in 1..Open /\ p \in Back + 2..Open /\ p \in Back + 1..Open /\ p - 1 \in Back + 1..Open
          BY <2>1, <2>2, <4>3
        <5>2. d[p] = c[p - 1] /\ d[p - 1] = c[p - 1 - 1] /\ UrbAt(p)' = UrbAt(p - 1)
          BY <2>1, <3>1, <5>1
        <5> QED BY <1>0, <1>1, <5>1, <5>2 DEF DataAt
      <4> QED BY <2>1, <2>2, <4>1, <4>2, <4>3
    <3>7. ASSUME NEW p \in 1..Back', Line(p)'.status \in {"stall", "nodev"}, NEW q \in p + 1..Open'
          PROVE filled'[UrbAt(q)'] = 0
      <4>1. CASE p = Back + 1
        <5>1. Line(p)' = [urb |-> op.next, status |-> "unlinked"]
          BY <2>1, <4>1
        <5> QED BY <3>7, <5>1
      <4>2. CASE p <= Back
        <5>1. p \in 1..Back /\ Line(p).status \in {"stall", "nodev"}
          BY <2>1, <2>2, <3>7, <4>2
        <5>2. \A r \in p + 1..Open : filled[UrbAt(r)] = 0
          BY <1>1, <5>1 DEF DataAt
        <5>3. CASE q <= Back
          <6>1. q \in 1..Back /\ q \in p + 1..Open
            BY <2>1, <2>2, <3>7, <5>3
          <6> QED BY <1>0, <2>1, <5>2, <6>1
        <5>4. CASE q = Back + 1
          BY <1>0, <2>1, <2>5, <5>4
        <5>5. CASE q > Back + 1
          <6>1. q \in Back + 2..Open /\ q - 1 \in p + 1..Open
            BY <2>1, <2>2, <3>7, <4>2, <5>5
          <6> QED BY <1>0, <2>1, <5>2, <6>1
        <5> QED BY <2>1, <2>2, <3>7, <5>3, <5>4, <5>5
      <4> QED BY <2>1, <2>2, <3>7, <4>1, <4>2
    <3>8. \A k \in 1..transferred' : buffer'[k] = k
      BY <1>0, <1>1 DEF DataAt
    <3> QED BY <1>0, <3>3, <3>4, <3>5, <3>6, <3>7, <3>8, DataThen
  <2> QED BY <2>3, <2>4, <2>5
<1> QED BY <1>2, <1>3

(* What the handled URB has got is transferred; in an abnormal transfer it *)
(* is moved there first, in a normal one it is there.                      *)
LEMMA DataAccounted ==
  ASSUME ControlInv, DataInv, FullInv, BulkAbnormal \/ BulkNormal
  PROVE /\ \E c \in [0..Open -> Nat] :
             DataAt(c) /\ transferred' = c[1] /\ c[1] <= sent /\ (Open = 1 => c[1] = sent)
        /\ \A k \in 1..transferred' : buffer'[k] = k
        /\ urbs' => DataInv'
<1>0. Handle /\ Core
  BY DEF Handle, ControlInv
<1>1. /\ type = "bulk" /\ urbs /\ num_retired + Open = NumUrbs /\ Open \in Nat /\ Open >= 1
      /\ (TakenBack <=> reap_action = "CANCELLED")
      /\ reap_action = "NORMAL" => reaped.urb = num_retired + 1
  BY <1>0, Normally DEF BulkAbnormal, BulkNormal, Handling
<1>2. /\ UrbAt(1) = reaped.urb /\ Back \in Nat /\ Back >= 1 /\ Back' = Back - 1 /\ Open' = Open - 1
      /\ \A p \in 1..Back - 1 : Line(p)' = Line(p + 1)
      /\ \A p \in 1..Open - 1 : UrbAt(p)' = UrbAt(p + 1)
      /\ \A p \in 1..Open : UrbAt(p) \in Urbs
  BY <1>0, Accounting, Facts
<1>3. /\ UNCHANGED <<setup, filled, sent>> /\ transferred' = transferred + filled[reaped.urb]
      /\ sent \in Nat /\ length \in Nat /\ transferred \in Nat
      /\ buffer \in [1..length -> 0..length] /\ \A i \in Urbs : filled[i] \in Nat
  BY <1>0, UsbfsAssumption DEF BulkAbnormal, BulkNormal, kernel, Core, SetupType,
      FillType, DataType
<1>4. PICK c \in [0..Open -> Nat] : DataAt(c)
  BY <1>1 DEF DataInv
<1> DEFINE i == reaped.urb
<1>5. i \in Urbs /\ 1 \in 1..Open /\ 0 \in 0..Open /\ Open \in 0..Open /\ 1 \in 0..Open /\ 1 <= Open
  BY <1>1, <1>2
<1>6. c[0] = transferred /\ c[1] = transferred + filled[i] /\ c[Open] = sent /\ c[1] <= sent
  <2>1. c[0] = transferred /\ c[Open] = sent /\ c[1] <= c[Open]
    BY <1>4, <1>5 DEF DataAt
  <2>2. c[1] = c[1 - 1] + filled[UrbAt(1)]
    BY <1>4, <1>5 DEF DataAt
  <2> QED BY <1>2, <2>1, <2>2
(* Bytes: the handled URB's, and what lies elsewhere.                      *)
<1>7. filled[i] > 0 => \A f \in 1..filled[i] : buffer[Offset(i) + f] = transferred + f
  BY <1>2, <1>4, <1>5, <1>6 DEF DataAt
<1>8. \A k \in 1..transferred : buffer[k] = k
  BY <1>4 DEF DataAt
<1>9. /\ \A k \in 1..transferred' : buffer'[k] = k
      /\ \A k \in 1..length : k > transferred' => buffer'[k] = buffer[k]
  <2>1. CASE BulkAbnormal
    <3>1. buffer' = [k \in 1..length |->
             IF k \in transferred + 1..transferred + filled[i]
             THEN buffer[Offset(i) + k - transferred] ELSE buffer[k]]
      BY <2>1 DEF BulkAbnormal, MoveSurplus
    <3>2. transferred' <= length
      BY <1>0, <1>3, <1>6 DEF Core, FillType
    <3>3. ASSUME NEW k \in 1..transferred' PROVE buffer'[k] = k
      <4>1. k \in 1..length
        BY <1>3, <1>5, <3>2
      <4>2. CASE k \in transferred + 1..transferred + filled[i]
        <5>1. k - transferred \in 1..filled[i] /\ Offset(i) \in Nat
          BY <1>0, <1>5, <4>2, Bytes
        <5>2. buffer[Offset(i) + (k - transferred)] = transferred + (k - transferred)
          <6>1. filled[i] \in Nat /\ filled[i] > 0
            BY <1>3, <1>5, <5>1
          <6> QED BY <1>7, <5>1, <6>1
        <5>3. Offset(i) + (k - transferred) = Offset(i) + k - transferred /\ transferred + (k - transferred) = k
          BY <1>3, <5>1
        <5> QED BY <3>1, <4>1, <4>2, <5>2, <5>3
      <4>3. CASE k \notin transferred + 1..transferred + filled[i]
        <5>1. k \in 1..transferred
          BY <1>3, <1>5, <3>3, <4>3
        <5> QED BY <1>8, <3>1, <4>1, <4>3, <5>1
      <4> QED BY <4>2, <4>3
    <3>4. ASSUME NEW k \in 1..length, k > transferred' PROVE buffer'[k] = buffer[k]
      <4>1. k \notin transferred + 1..transferred + filled[i]
        BY <1>3, <1>5, <3>4
      <4> QED BY <3>1, <4>1
    <3> QED BY <3>3, <3>4
  <2>2. CASE BulkNormal
    <3>1. buffer' = buffer /\ reap_action = "NORMAL"
      BY <2>2 DEF BulkNormal
    <3>2. filled[i] > 0 => Offset(i) = transferred
      <4>1. transferred = Offset(num_retired + 1) \/ Dry
        BY <1>1, <3>1 DEF FullInv
      <4>2. Dry => filled[i] = 0
        BY <1>2, <1>5 DEF Dry
      <4> QED BY <1>1, <3>1, <4>1, <4>2
    <3>3. ASSUME NEW k \in 1..transferred' PROVE buffer[k] = k
      <4>1. CASE k <= transferred
        BY <1>3, <1>8, <3>3, <4>1
      <4>2. CASE k > transferred
        <5>1. k - transferred \in 1..filled[i] /\ filled[i] > 0 /\ transferred + (k - transferred) = k
          BY <1>3, <1>5, <3>3, <4>2
        <5> QED BY <1>7, <3>2, <5>1
      <4> QED BY <1>3, <1>5, <3>3, <4>1, <4>2
    <3> QED BY <3>1, <3>3
  <2> QED BY <2>1, <2>2
<1>10. ASSUME urbs' PROVE DataInv'
  <2> DEFINE d == [p \in 0..Open - 1 |-> c[p + 1]]
  <2>1. \A p \in 0..Open - 1 : p + 1 \in 0..Open
    BY <1>1
  <2>2. d \in [0..Open - 1 -> Nat] /\ \A p \in 0..Open - 1 : d[p] = c[p + 1]
    BY <2>1
  <2> HIDE DEF d
  <2>3. d \in [0..Open' -> Nat] /\ d[0] = transferred' /\ d[Open'] = sent'
    <3>1. 0 \in 0..Open - 1 /\ Open - 1 \in 0..Open - 1 /\ 0 + 1 = 1 /\ Open - 1 + 1 = Open
      BY <1>1
    <3>2. d[0] = c[1] /\ d[Open - 1] = c[Open]
      BY <2>2, <3>1
    <3> QED BY <1>2, <1>3, <1>6, <2>2, <3>2
  <2>4. ASSUME NEW p \in Back' + 1..Open' PROVE d[p] = sent'
    <3>1. p + 1 \in Back + 1..Open /\ p \in 0..Open - 1
      BY <1>1, <1>2
    <3> QED BY <1>3, <1>4, <2>2, <3>1 DEF DataAt
  <2>5. ASSUME NEW p \in 0..Open', NEW q \in 0..Open', p <= q PROVE d[p] <= d[q]
    <3>1. p + 1 \in 0..Open /\ q + 1 \in 0..Open /\ p + 1 <= q + 1 /\ p \in 0..Open - 1 /\ q \in 0..Open - 1
      BY <1>1, <1>2, <2>5
    <3>2. c[p + 1] <= c[q + 1]
      BY <1>4, <3>1 DEF DataAt
    <3> QED BY <2>2, <3>1, <3>2
  <2>6. ASSUME NEW p \in 1..Open'
        PROVE /\ d[p] = d[p - 1] + filled'[UrbAt(p)']
              /\ filled'[UrbAt(p)'] > 0 => d[p - 1] <= Offset(UrbAt(p)')
              /\ \A f \in 1..filled'[UrbAt(p)'] : buffer'[Offset(UrbAt(p)') + f] = d[p - 1] + f
    <3>1. /\ p + 1 \in 1..Open /\ p \in 0..Open - 1 /\ p - 1 \in 0..Open - 1 /\ p - 1 + 1 = p
          /\ p + 1 - 1 = p /\ p \in 0..Open /\ p \in 1..Open - 1
      BY <1>1, <1>2
    <3>2. d[p] = c[p + 1] /\ d[p - 1] = c[p] /\ UrbAt(p)' = UrbAt(p + 1) /\ UrbAt(p + 1) \in Urbs
      BY <1>2, <2>2, <3>1
    <3>3. /\ c[p + 1] = c[p] + filled[UrbAt(p + 1)]
          /\ filled[UrbAt(p + 1)] > 0 => c[p] <= Offset(UrbAt(p + 1))
          /\ \A f \in 1..filled[UrbAt(p + 1)] : buffer[Offset(UrbAt(p + 1)) + f] = c[p] + f
      BY <1>4, <3>1 DEF DataAt
    <3>4. ASSUME NEW f \in 1..filled[UrbAt(p + 1)]
          PROVE buffer'[Offset(UrbAt(p + 1)) + f] = c[p] + f
      <4>1. filled[UrbAt(p + 1)] > 0 /\ f \in Nat /\ f > 0 /\ f <= filled[UrbAt(p + 1)]
        BY <1>3, <3>2, <3>4
      <4>2. c[1] <= c[p]
        BY <1>4, <1>5, <3>1 DEF DataAt
      <4>3. /\ Offset(UrbAt(p + 1)) \in Nat /\ UrbLength(UrbAt(p + 1)) \in Nat
            /\ Offset(UrbAt(p + 1)) + UrbLength(UrbAt(p + 1)) <= length
            /\ filled[UrbAt(p + 1)] <= UrbLength(UrbAt(p + 1))
        BY <1>0, <3>2, Places DEF Core, SetupType, FillType
      <4>4. c[p] \in Nat /\ c[1] \in Nat /\ transferred' = c[1]
        BY <1>3, <1>5, <1>6, <3>1
      <4>5. Offset(UrbAt(p + 1)) + f \in 1..length /\ Offset(UrbAt(p + 1)) + f > transferred'
        <5>1. c[p] <= Offset(UrbAt(p + 1))
          BY <3>3, <4>1
        <5>2. filled[UrbAt(p + 1)] \in Nat
          BY <1>3, <3>2
        <5>3. /\ Offset(UrbAt(p + 1)) + f \in 1..length
              /\ Offset(UrbAt(p + 1)) + f > Offset(UrbAt(p + 1))
          BY <1>3, <3>4, <4>3, <5>2, Inside
        <5>4. ASSUME NEW o \in Nat, NEW x \in Nat, x > o, c[p] <= o PROVE x > transferred'
          BY <4>2, <4>4, <5>4
        <5>5. Offset(UrbAt(p + 1)) + f \in Nat
          BY <1>3, <5>3
        <5> QED BY <4>3, <5>1, <5>3, <5>4, <5>5
      <4> QED BY <1>9, <3>3, <4>5
    <3> QED BY <1>3, <3>2, <3>3, <3>4
  <2>7. ASSUME NEW p \in 1..Back', Line(p)'.status \in {"stall", "nodev"}, NEW q \in p + 1..Open'
        PROVE filled'[UrbAt(q)'] = 0
    <3>1. /\ p + 1 \in 1..Back /\ p \in 1..Back - 1 /\ q \in 1..Open - 1 /\ q + 1 \in p + 1 + 1..Open
      BY <1>1, <1>2, <2>7
    <3>2. Line(p + 1).status \in {"stall", "nodev"}
      BY <1>2, <2>7, <3>1
    <3>3. filled[UrbAt(q + 1)] = 0
      BY <1>4, <3>1, <3>2 DEF DataAt
    <3> QED BY <1>2, <1>3, <3>1, <3>3
  <2> QED BY <1>3, <1>9, <2>3, <2>4, <2>5, <2>6, <2>7, DataThen
<1>11. transferred' = c[1] /\ (Open = 1 => c[1] = sent)
  BY <1>3, <1>6
<1> QED BY <1>4, <1>6, <1>9, <1>10, <1>11

(* The URBs of the queue after its first.                                  *)
LEMMA Behind ==
  ASSUME Core, QueueInv, queue # <<>>
  PROVE /\ Head(queue) \in Urbs /\ UrbAt(Back + 1) = Head(queue) /\ Back < Open
        /\ \A q \in Back + 2..Open : UrbAt(q) \in Urbs /\ UrbAt(q) > Head(queue)
<1>1. /\ Len(queue) \in Nat /\ Len(queue) # 0 /\ Back \in Nat /\ Open = Back + Len(queue)
      /\ Head(queue) = queue[1] /\ UrbAt(Back + 1) = queue[1]
      /\ \A k \in 1..Len(queue) : queue[k] \in Urbs /\ queue[k] = Top - Len(queue) + k
      /\ Urbs = 1..NumUrbs /\ NumUrbs \in Nat
  BY Facts DEF Open, QueueInv
<1>2. queue[1] = Top - Len(queue) + 1 /\ queue[1] \in Int
  BY <1>1
<1>3. Top \in Int
  BY <1>1, Facts DEF Top, Submitted, Core, OpType
<1>4. ASSUME NEW q \in Back + 2..Open PROVE UrbAt(q) \in Urbs /\ UrbAt(q) > Head(queue)
  <2>1. UrbAt(q) = queue[q - Back] /\ q - Back \in 2..Len(queue)
    BY <1>1, <1>4 DEF UrbAt
  <2>2. queue[q - Back] = Top - Len(queue) + (q - Back) /\ q - Back \in Int /\ queue[q - Back] \in Urbs
    BY <1>1, <2>1
  <2> QED BY <1>1, <1>2, <1>3, <2>1, <2>2
<1> QED BY <1>1, <1>4

LEMMA DataReceived ==
  ASSUME ControlInv, DataInv, FreshInv, type = "bulk", urbs, Receive
  PROVE DataInv'
<1> DEFINE h == Head(queue)
           x == Offset(h) + filled[h] + 1
<1>0. Core /\ QueueInv /\ OrderInv /\ StatusInv /\ LifeInv
  BY DEF ControlInv
<1>1. PICK c \in [0..Open -> Nat] : DataAt(c)
  BY DEF DataInv
<1>2. /\ queue # <<>> /\ sent < length /\ ~stalled /\ filled[h] < UrbLength(h)
      /\ filled' = [filled EXCEPT ![h] = filled[h] + 1] /\ sent' = sent + 1
      /\ buffer' = [buffer EXCEPT ![x] = sent + 1]
      /\ UNCHANGED <<setup, transferred, op, reaped, queue, done>>
  BY DEF Receive
<1>3. /\ h \in Urbs /\ UrbAt(Back + 1) = h /\ Back < Open
      /\ \A q \in Back + 2..Open : UrbAt(q) \in Urbs /\ UrbAt(q) > h
  BY <1>0, <1>2, Behind
<1>4. /\ Back \in Nat /\ Open \in Nat /\ sent \in Nat /\ length \in Nat /\ transferred \in Nat
      /\ filled \in [Urbs -> Nat] /\ buffer \in [1..length -> 0..length]
      /\ \A p \in 1..Open : UrbAt(p) \in Urbs
      /\ \A i \in Urbs : filled[i] <= UrbLength(i) /\ filled[i] \in Nat
      /\ Urbs = 1..NumUrbs /\ NumUrbs \in Nat
  BY <1>0, Facts, UsbfsAssumption DEF Core, SetupType, FillType, DataType
<1>5. /\ Unmoved /\ Open' = Open /\ Back' = Back
      /\ \A p \in 1..Back : Line(p)' = Line(p)
      /\ \A p \in 1..Open : UrbAt(p)' = UrbAt(p)
  BY <1>0, <1>2, Still DEF Unmoved
<1>6. /\ \A i \in Urbs : Offset(i) \in Nat /\ UrbLength(i) \in Nat /\ Offset(i) + UrbLength(i) <= length
      /\ \A i, j \in Urbs : i < j => Offset(i) + UrbLength(i) <= Offset(j)
  BY <1>0, Places DEF Core, SetupType
<1>7. /\ \A q \in Back + 2..Open : filled[UrbAt(q)] = 0 /\ UrbAt(q) # h
      /\ sent <= Offset(h) + filled[h]
  <2>1. /\ \A j \in Urbs : j > h => filled[j] = 0
        /\ sent <= Offset(h) + filled[h]
    BY <1>2 DEF FreshInv
  <2>2. \A i, j \in Urbs : i > j => i # j
    BY <1>4
  <2> HIDE DEF h
  <2> QED BY <1>3, <2>1, <2>2
<1>a. Back \in Nat /\ Open \in Nat /\ sent \in Nat /\ length \in Nat /\ transferred \in Nat
  BY <1>4
<1>b. /\ filled[h] \in Nat /\ Offset(h) \in Nat /\ UrbLength(h) \in Nat
      /\ Offset(h) + UrbLength(h) <= length
  BY <1>3, <1>4, <1>6
<1>8. \A p \in 1..Back : UrbAt(p) # h
  <2>1. ASSUME NEW p \in 1..Back PROVE UrbAt(p) # UrbAt(Back + 1)
    <3>1. p \in 1..Open /\ Back + 1 \in 1..Open /\ p # Back + 1
      BY <1>3, <1>4
    <3> QED BY <1>0, <3>1 DEF OrderInv
  <2> QED BY <1>3, <2>1
<1>9. /\ c[Back + 1] = sent /\ c[Back] \in Nat /\ sent = c[Back] + filled[h] /\ c[Back] <= Offset(h)
      /\ transferred <= Offset(h)
  <2>1. Back + 1 \in 1..Open /\ Back + 1 \in Back + 1..Open /\ Back \in 0..Open /\ 0 \in 0..Open
        /\ 0 <= Back /\ Back + 1 - 1 = Back
    BY <1>3, <1>4
  <2>2. c[Back + 1] = sent /\ c[Back] \in Nat /\ c[0] <= c[Back] /\ c[0] = transferred
    BY <1>1, <2>1 DEF DataAt
  <2>3. c[Back + 1] = c[Back] + filled[h]
    BY <1>1, <1>3, <2>1 DEF DataAt
  <2>4. sent = c[Back] + filled[h]
    BY <2>2, <2>3
  <2>5. sent <= Offset(h) + filled[h]
    BY <1>7
  <2>6. c[Back] <= Offset(h)
    <3> HIDE DEF h
    <3> QED BY <1>b, <2>2, <2>4, <2>5
  <2>7. transferred <= Offset(h)
    <3> HIDE DEF h
    <3> QED BY <1>a, <1>b, <2>2, <2>6
  <2> QED BY <2>2, <2>4, <2>6, <2>7
<1>10. /\ x \in Offset(h) + 1..Offset(h) + UrbLength(h) /\ x \in 1..length
       /\ buffer'[x] = sent + 1 /\ \A k \in 1..length : k # x => buffer'[k] = buffer[k]
  <2>1. filled[h] < UrbLength(h)
    BY <1>2
  <2>2. x \in Offset(h) + 1..Offset(h) + UrbLength(h) /\ x \in 1..length
    <3> HIDE DEF h
    <3> QED BY <1>a, <1>b, <2>1
  <2> HIDE DEF x
  <2> QED BY <1>2, <1>4, <2>2
<1>11. filled'[h] = filled[h] + 1 /\ \A i \in Urbs : i # h => filled'[i] = filled[i]
  BY <1>2, <1>3, <1>4
<1> HIDE DEF x
(* The new unit lies in no other URB, and not in what was transferred.     *)
<1>12. ASSUME NEW i \in Urbs, i # h, NEW f \in 1..filled[i] PROVE buffer'[Offset(i) + f] = buffer[Offset(i) + f]
  <2>1. /\ Offset(i) \in Nat /\ UrbLength(i) \in Nat /\ Offset(i) + UrbLength(i) <= length
        /\ filled[i] \in Nat /\ filled[i] <= UrbLength(i) /\ Offset(h) \in Nat /\ UrbLength(h) \in Nat
    BY <1>3, <1>4, <1>6
  <2>2. Offset(i) + f \in 1..length /\ Offset(i) + f \in Offset(i) + 1..Offset(i) + UrbLength(i)
    <3> HIDE DEF h
    <3> QED BY SMTT(30), <1>a, <2>1
  <2>3. i < h \/ h < i
    BY SMTT(30), <1>3, <1>4, <1>12
  <2>4. Offset(i) + UrbLength(i) <= Offset(h) \/ Offset(h) + UrbLength(h) <= Offset(i)
    BY <1>3, <1>6, <2>3
  <2>5. Offset(i) + f # x
    BY <1>10, <2>1, <2>2, <2>4
  <2> QED BY <1>10, <2>2, <2>5
<1>13. ASSUME NEW k \in 1..transferred' PROVE buffer'[k] = k
  <2>1. k \in 1..transferred /\ k <= Offset(h) /\ Offset(h) \in Nat /\ Offset(h) <= length /\ UrbLength(h) \in Nat
    <3>1. transferred' = transferred /\ transferred <= Offset(h)
      BY <1>2, <1>9
    <3> HIDE DEF h
    <3> QED BY <1>a, <1>b, <1>13, <3>1
  <2>2. k \in 1..length /\ k # x
    <3>1. x \in Offset(h) + 1..Offset(h) + UrbLength(h)
      BY <1>10
    <3> HIDE DEF h
    <3> QED BY <1>a, <2>1, <3>1
  <2> QED BY <1>1, <1>10, <2>1, <2>2 DEF DataAt
<1> DEFINE d == [p \in 0..Open |-> IF p <= Back THEN c[p] ELSE c[p] + 1]
<1>14. /\ d \in [0..Open -> Nat] /\ (\A p \in 0..Back : d[p] = c[p])
       /\ \A p \in Back + 1..Open : d[p] = c[p] + 1
  <2>1. \A p \in 0..Open : c[p] \in Nat /\ c[p] + 1 \in Nat
    BY <1>1
  <2>2. /\ d \in [0..Open -> Nat]
        /\ \A p \in 0..Open : d[p] = IF p <= Back THEN c[p] ELSE c[p] + 1
    BY <2>1
  <2>3. Back < Open
    BY <1>3
  <2> HIDE DEF d, h
  <2> QED BY <1>a, <2>2, <2>3
<1> HIDE DEF d
<1>15. d \in [0..Open' -> Nat] /\ d[0] = transferred' /\ d[Open'] = sent'
  <2>1. 0 \in 0..Back /\ Open \in Back + 1..Open
    BY <1>3, <1>4
  <2> QED BY <1>1, <1>2, <1>5, <1>14, <2>1 DEF DataAt
<1>16. ASSUME NEW p \in Back' + 1..Open' PROVE d[p] = sent'
  <2>1. p \in Back + 1..Open
    BY <1>5
  <2> QED BY <1>1, <1>2, <1>14, <2>1 DEF DataAt
<1>17. ASSUME NEW p \in 0..Open', NEW q \in 0..Open', p <= q PROVE d[p] <= d[q]
  <2>1. p \in 0..Open /\ q \in 0..Open
    BY <1>5
  <2>2. c[p] <= c[q] /\ c[p] \in Nat /\ c[q] \in Nat
    BY <1>1, <1>17, <2>1 DEF DataAt
  <2>3. (d[p] = c[p] /\ p <= Back) \/ (d[p] = c[p] + 1 /\ p > Back)
    BY <1>4, <1>14, <2>1
  <2>4. (d[q] = c[q] /\ q <= Back) \/ (d[q] = c[q] + 1 /\ q > Back)
    BY <1>4, <1>14, <2>1
  <2>5. ~(p > Back /\ q <= Back)
    BY <1>4, <1>17, <2>1
  <2> QED BY <2>2, <2>3, <2>4, <2>5
<1>18. ASSUME NEW p \in 1..Open'
       PROVE /\ d[p] = d[p - 1] + filled'[UrbAt(p)']
             /\ filled'[UrbAt(p)'] > 0 => d[p - 1] <= Offset(UrbAt(p)')
             /\ \A f \in 1..filled'[UrbAt(p)'] : buffer'[Offset(UrbAt(p)') + f] = d[p - 1] + f
  <2>1. p \in 1..Open /\ UrbAt(p)' = UrbAt(p) /\ UrbAt(p) \in Urbs
    BY <1>4, <1>5
  <2>2. /\ c[p] = c[p - 1] + filled[UrbAt(p)]
        /\ filled[UrbAt(p)] > 0 => c[p - 1] <= Offset(UrbAt(p))
        /\ \A f \in 1..filled[UrbAt(p)] : buffer[Offset(UrbAt(p)) + f] = c[p - 1] + f
    BY <1>1, <2>1 DEF DataAt
  <2>3. CASE p <= Back
    <3>1. p \in 0..Back /\ p - 1 \in 0..Back /\ p \in 1..Back
      BY <1>4, <2>1, <2>3
    <3>2. d[p] = c[p] /\ d[p - 1] = c[p - 1] /\ UrbAt(p) # h
      BY <1>8, <1>14, <3>1
    <3>3. filled'[UrbAt(p)] = filled[UrbAt(p)]
      BY <1>11, <2>1, <3>2
    <3> QED BY <1>12, <2>1, <2>2, <3>2, <3>3
  <2>4. CASE p = Back + 1
    <3>1. p \in Back + 1..Open /\ p - 1 = Back /\ Back \in 0..Back
      BY <1>4, <2>1, <2>4
    <3>2. d[p] = sent + 1 /\ d[p - 1] = c[Back] /\ UrbAt(p)' = h
      BY <1>3, <1>9, <1>14, <2>1, <2>4, <3>1
    <3>3. filled[h] \in Nat /\ Offset(h) \in Nat
      BY <1>3, <1>4, <1>6
    <3>4. d[p] = d[p - 1] + filled'[h] /\ d[p - 1] <= Offset(h)
      <4>1. /\ sent = c[Back] + filled[h] /\ c[Back] \in Nat /\ c[Back] <= Offset(h)
            /\ filled'[h] = filled[h] + 1
        BY <1>9, <1>11
      <4> HIDE DEF h
      <4> QED BY SMTT(30), <1>a, <3>2, <3>3, <4>1
    <3>5. ASSUME NEW f \in 1..filled'[h] PROVE buffer'[Offset(h) + f] = d[p - 1] + f
      <4>1. CASE f = filled[h] + 1
        <5>1. Offset(h) + f = x
          BY <3>3, <4>1 DEF x
        <5>2. d[p - 1] + f = sent + 1
          <6>1. sent = c[Back] + filled[h] /\ c[Back] \in Nat
            BY <1>9
          <6>2. d[p - 1] = c[Back] /\ filled[h] \in Nat
            BY <3>2, <3>3
          <6>3. ASSUME NEW a \in Nat, NEW b \in Nat PROVE a + (b + 1) = (a + b) + 1
            OBVIOUS
          <6>4. c[Back] + (filled[h] + 1) = (c[Back] + filled[h]) + 1
            BY <6>1, <6>2, <6>3
          <6> HIDE DEF h
          <6> QED BY <4>1, <6>1, <6>2, <6>4
        <5> QED BY <1>10, <5>1, <5>2
      <4>2. CASE f # filled[h] + 1
        <5>1. f \in 1..filled[h]
          BY <1>11, <3>3, <4>2
        <5>2. Offset(h) + f # x
          BY <3>3, <4>2 DEF x
        <5>3. Offset(h) + f \in 1..length
          BY <1>3, <1>4, <1>6, <5>1, Inside
        <5>4. buffer[Offset(h) + f] = c[Back] + f
          BY <1>3, <2>2, <2>4, <3>1, <5>1
        <5> QED BY <1>10, <3>2, <5>2, <5>3, <5>4
      <4> QED BY <4>1, <4>2
    <3> QED BY <3>2, <3>4, <3>5
  <2>5. CASE p > Back + 1
    <3>1. p \in Back + 2..Open /\ p \in Back + 1..Open /\ p - 1 \in Back + 1..Open
      BY <1>4, <2>1, <2>5
    <3>2. d[p] = c[p] + 1 /\ d[p - 1] = c[p - 1] + 1 /\ filled[UrbAt(p)] = 0 /\ UrbAt(p) # h
      BY <1>7, <1>14, <3>1
    <3>3. filled'[UrbAt(p)] = 0 /\ c[p] = c[p - 1] + 0
      BY <1>11, <2>1, <2>2, <3>2
    <3>4. c[p - 1] \in Nat
      <4>1. p - 1 \in 0..Open
        BY <1>4, <2>1
      <4> QED BY <4>1
    <3> QED BY <2>1, <3>2, <3>3, <3>4
  <2> QED BY <1>4, <2>1, <2>3, <2>4, <2>5
<1>19. ASSUME NEW p \in 1..Back', Line(p)'.status \in {"stall", "nodev"}, NEW q \in p + 1..Open'
       PROVE filled'[UrbAt(q)'] = 0
  <2>1. p \in 1..Back /\ Line(p).status \in {"stall", "nodev"}
    BY <1>5, <1>19
  <2>2. Line(p).status # "stall"
    BY <1>0, <1>2, <2>1 DEF StatusInv
  <2>3. gone
    BY <1>0, <2>1, <2>2 DEF StatusInv
  <2> QED BY <1>0, <1>2, <2>3 DEF LifeInv
<1> QED BY <1>2, <1>13, <1>15, <1>16, <1>17, <1>18, <1>19, DataThen

-----------------------------------------------------------------------------
(* The steps, for the data.                                                *)
LEMMA FreshStep ==
  ASSUME ControlInv, ControlInv', FreshInv, [UsbfsNext]_vars
  PROVE FreshInv'
<1>0. /\ Core /\ Core' /\ OpInv /\ LifeInv /\ QueueInv /\ QueueInv' /\ OpInv'
      /\ NumUrbs' = NumUrbs /\ Urbs' = Urbs /\ UNCHANGED setup
      /\ Urbs = 1..NumUrbs /\ NumUrbs \in Nat /\ NumUrbs > 0
      /\ \A i \in Urbs : filled[i] \in Nat /\ filled[i] <= UrbLength(i)
      /\ sent \in Nat /\ length \in Nat /\ op.next \in 0..NumUrbs
  BY SMTT(30), StepsKeepSetup, Same, Facts, UsbfsAssumption DEF ControlInv, Core, FillType,
      OpType, SetupType
<1>1. BufferLen' = BufferLen
  BY <1>0 DEF BufferLen, Continued, setup
<1>2. /\ \A i \in Urbs : Offset(i) \in Nat /\ UrbLength(i) \in Nat
      /\ \A i \in Urbs : i < NumUrbs => Offset(i + 1) = Offset(i) + UrbLength(i)
      /\ \A i, j \in Urbs : i < j => Offset(i) + UrbLength(i) <= Offset(j)
      /\ Offset(1) = 0
  BY <1>0, Places DEF Core, SetupType
<1>3. ASSUME UNCHANGED <<queue, filled, sent, op>> PROVE FreshInv'
  BY <1>0, <1>1, <1>3 DEF FreshInv, Submitting, Offset
<1>4. ASSUME queue' = <<>>, ~Submitting' PROVE FreshInv'
  BY <1>4 DEF FreshInv
<1> USE DEF setup, priv, data, kernel, world
<1>5. CASE Submit
  <2>1. /\ queue' = <<>> /\ filled' = [i \in Urbs |-> 0] /\ sent' = 0 /\ op'.next = 1
    BY <1>0, <1>5 DEF Submit, LifeInv, NoOp
  <2>2. (Offset(op.next))' = Offset(1)
    BY <1>1, <2>1 DEF Offset
  <2> QED BY <1>0, <1>2, <2>1, <2>2 DEF FreshInv
<1>6. CASE SubmitUrb
  <2>1. /\ Submitting /\ queue' = Append(queue, op.next) /\ UNCHANGED <<filled, sent>>
        /\ op.next \in Urbs /\ Top = op.next - 1
    BY <1>0, <1>6 DEF SubmitUrb, Submitting, OpInv, Top, Submitted, Discarding
  <2>2. Submitting' => op'.next = op.next + 1
    BY <1>0, <1>6, <2>1 DEF SubmitUrb, Submitting, Core, OpType, NoOp
  <2>3. \A j \in Urbs : j >= op.next => filled[j] = 0
    BY <2>1 DEF FreshInv
  <2>4. Submitting' => \A j \in Urbs : j >= op'.next => filled'[j] = 0
    BY <1>0, <2>1, <2>2, <2>3
  <2>5. queue' # <<>>
    BY <1>0, <1>6, Queueing, Lengths0, Facts DEF Core
  <2>6. CASE queue = <<>>
    <3>1. Head(queue') = op.next
      BY <2>1, <2>6
    <3>2. sent <= Offset(op.next) /\ filled[op.next] = 0 /\ Offset(op.next) \in Nat
      BY <1>0, <1>2, <2>1, <2>3, <2>6 DEF FreshInv
    <3>3. sent' <= Offset(Head(queue'))  + filled'[Head(queue')]
      BY <1>0, <2>1, <3>1, <3>2
    <3>4. \A j \in Urbs : j > Head(queue') => filled'[j] = 0
      BY <1>0, <2>1, <2>3, <3>1
    <3>5. (Offset(Head(queue)))' = Offset(Head(queue'))
      BY <1>1 DEF Offset
    <3> QED BY <1>0, <2>4, <2>5, <3>3, <3>4, <3>5 DEF FreshInv
  <2>7. CASE queue # <<>>
    <3>1. Head(queue') = Head(queue)
      <4>1. /\ Len(queue) \in Nat /\ Len(queue) # 0 /\ Head(queue) = queue[1]
            /\ queue'[1] = queue[1] /\ Head(queue)' = queue'[1]
        BY <1>0, <1>6, <2>5, <2>7, Queueing, Facts, Lengths0 DEF Core, ListType
      <4> QED BY <4>1
    <3>2. (Offset(Head(queue)))' = Offset(Head(queue))
      BY <1>1, <3>1 DEF Offset
    <3> QED BY <1>0, <2>1, <2>4, <2>5, <2>7, <3>1, <3>2 DEF FreshInv
  <2> QED BY <2>6, <2>7
<1>7. CASE FirstUrbFails \/ LaterUrbFails
  <2>0. UNCHANGED <<queue, filled, sent>>
    BY <1>7 DEF FirstUrbFails, LaterUrbFails
  <2>1. UNCHANGED <<queue, filled, sent>> /\ ~Submitting'
    <3>1. op' = NoOp \/ op' = [op EXCEPT !.first = 1, !.next = @ - 1]
      BY <1>7 DEF FirstUrbFails, LaterUrbFails
    <3>2. op' = [op EXCEPT !.first = 1, !.next = @ - 1] => op'.first = 1
      BY <1>0 DEF Core, OpType
    <3>3. op' = NoOp => op'.by = "none"
      BY DEF NoOp
    <3> QED BY <2>0, <3>1, <3>2, <3>3 DEF Submitting
  <2>2. queue # <<>> => (Offset(Head(queue)))' = Offset(Head(queue))
    BY <1>1, <2>1 DEF Offset
  <2> QED BY <1>0, <2>1, <2>2 DEF FreshInv
<1>8. CASE DiscardUrb
  <2>1. /\ UNCHANGED <<filled, sent>> /\ ~Submitting'
        /\ queue = <<>> => queue' = <<>>
        /\ queue # <<>> => /\ Len(queue)' = Len(queue) - 1 /\ queue' \in Seq(Urbs)
                           /\ \A k \in 1..Len(queue) - 1 : queue'[k] = queue[k]
    BY <1>0, <1>8, Discarding1 DEF DiscardUrb, Discarding, Submitting
  <2>2. CASE queue' = <<>>
    BY <1>4, <2>1, <2>2
  <2>3. CASE queue' # <<>>
    <3>1. queue # <<>> /\ Head(queue') = Head(queue)
      <4>1. queue # <<>> /\ Len(queue) \in Nat /\ Head(queue) = queue[1]
        BY <1>0, <2>1, <2>3, Facts
      <4>2. Len(queue)' # 0 /\ Len(queue)' \in Nat /\ Head(queue') = queue'[1]
        BY <2>1, <2>3, <4>1, Lengths0
      <4> QED BY <2>1, <4>1, <4>2
    <3>2. (Offset(Head(queue)))' = Offset(Head(queue))
      BY <1>1, <3>1 DEF Offset
    <3> QED BY <1>0, <2>1, <3>1, <3>2 DEF FreshInv
  <2> QED BY <2>2, <2>3
<1>9. CASE Discarded \/ Cancel
  <2>0. UNCHANGED <<queue, filled, sent>>
    BY <1>9 DEF Discarded, Cancel
  <2>1. UNCHANGED <<queue, filled, sent>> /\ ~Submitting'
    <3>1. op' = NoOp \/ op' = [NoOp EXCEPT !.by = "cancel", !.first = 1, !.next = NumUrbs]
      BY <1>9 DEF Discarded, Cancel
    <3>2. /\ NoOp.by = "none"
          /\ [NoOp EXCEPT !.by = "cancel", !.first = 1, !.next = NumUrbs].by = "cancel"
      BY DEF NoOp
    <3>3. op'.by \in {"none", "cancel"}
      BY <3>1, <3>2
    <3> QED BY <2>0, <3>3 DEF Submitting
  <2>2. (Offset(Head(queue)))' = Offset(Head(queue))
    BY <1>1, <2>1 DEF Offset
  <2> QED BY <1>0, <2>1, <2>2 DEF FreshInv
<1>10. CASE Handle
  <2>0. UNCHANGED <<queue, filled, sent>>
    BY <1>10 DEF Handle, BulkAbnormal, BulkNormal, Control, Iso
  <2>1. UNCHANGED <<queue, filled, sent>> /\ op'.by \in {"none", "complete"}
    <3>1. op.by = "none"
      BY <1>10 DEF Handle, BulkAbnormal, BulkNormal, Control, Iso, Handling
    <3>2. op' = op \/ op' = [NoOp EXCEPT !.by = "complete", !.first = reaped.urb + 1, !.next = NumUrbs]
      BY <1>10 DEF Handle, BulkAbnormal, BulkNormal, Control, Iso
    <3>3. op'.by \in {"none", "complete"}
      BY <3>1, <3>2 DEF NoOp
    <3> QED BY <2>0, <3>3
  <2>2. ~Submitting' /\ (Offset(Head(queue)))' = Offset(Head(queue))
    BY <1>1, <2>1 DEF Offset, Submitting
  <2> QED BY <1>0, <2>1, <2>2 DEF FreshInv
<1>11. CASE Reap \/ Callback \/ Detach \/ UNCHANGED vars
  BY <1>3, <1>11 DEF Reap, Callback, Detach, vars
<1>12. CASE Receive
  <2> DEFINE h == Head(queue)
  <2>1. /\ queue # <<>> /\ filled' = [filled EXCEPT ![h] = filled[h] + 1] /\ sent' = sent + 1
        /\ UNCHANGED <<queue, op>>
    BY <1>12 DEF Receive
  <2>2. /\ h \in Urbs /\ filled \in [Urbs -> Nat] /\ Len(queue) \in Nat /\ Len(queue) # 0
        /\ h = queue[1] /\ h = Top - Len(queue) + 1
    BY SMTT(30), <1>0, <2>1, Facts, Behind DEF Core, FillType, QueueInv
  <2>3. filled'[h] = filled[h] + 1 /\ \A i \in Urbs : i # h => filled'[i] = filled[i]
    BY <2>1, <2>2
  <2>4. Submitting => h < op.next
    <3>1. Submitting => Top = op.next - 1
      BY DEF Top, Submitted, Discarding, Submitting
    <3> QED BY <1>0, <2>2, <3>1
  <2> HIDE DEF h
  <2>5. (Offset(Head(queue)))' = Offset(h)
    BY <1>1, <2>1 DEF Offset, h
  <2>6. /\ \A j \in Urbs : j > h => filled[j] = 0
        /\ sent <= Offset(h) + filled[h]
        /\ Submitting => \A j \in Urbs : j >= op.next => filled[j] = 0
    BY <2>1 DEF FreshInv, h
  <2>7. filled[h] \in Nat /\ Offset(h) \in Nat
    BY <1>0, <1>2, <2>2
  <2>8. sent' <= Offset(h) + filled'[h]
    BY <1>0, <2>1, <2>3, <2>6, <2>7
  <2>9. /\ \A j \in Urbs : j > h => filled'[j] = 0
        /\ Submitting => \A j \in Urbs : j >= op.next => filled'[j] = 0
    BY <1>0, <2>2, <2>3, <2>4, <2>6
  <2>10. (Submitting' <=> Submitting) /\ Head(queue)' = h /\ queue' # <<>>
    BY <2>1 DEF Submitting, h
  <2> QED BY <1>0, <2>1, <2>5, <2>8, <2>9, <2>10 DEF FreshInv
<1>13. ASSUME queue # <<>>, UNCHANGED <<filled, sent, op>>,
              queue' = <<>> \/ queue' = Tail(queue)
       PROVE FreshInv'
  <2> DEFINE h == Head(queue)
  <2>1. /\ h \in Urbs /\ Len(queue) \in Nat /\ Len(queue) # 0
        /\ h = queue[1] /\ h = Top - Len(queue) + 1 /\ queue \in Seq(Urbs)
        /\ \A k \in 1..Len(queue) : queue[k] = Top - Len(queue) + k /\ queue[k] \in Urbs
    BY <1>0, <1>13, Facts, Behind DEF QueueInv, Core, ListType
  <2>2. /\ \A j \in Urbs : j > h => filled[j] = 0
        /\ sent <= Offset(h) + filled[h]
        /\ Submitting => \A j \in Urbs : j >= op.next => filled[j] = 0
    BY <1>13 DEF FreshInv
  <2>3. filled[h] \in Nat /\ filled[h] <= UrbLength(h) /\ Offset(h) \in Nat /\ UrbLength(h) \in Nat
    BY <1>0, <1>2, <2>1
  <2>4. ASSUME NEW j \in Urbs, j > h PROVE sent <= Offset(j) /\ Offset(j) \in Nat
    <3>1. Offset(h) + UrbLength(h) <= Offset(j) /\ Offset(j) \in Nat
      BY <1>2, <2>1, <2>4
    <3> HIDE DEF h
    <3> QED BY <1>0, <2>2, <2>3, <3>1
  <2>5. Submitting => h < op.next /\ op.next \in Urbs
    <3>1. Submitting => Top = op.next - 1 /\ op.next > 0
      BY <1>0 DEF Top, Submitted, Discarding, Submitting, OpInv
    <3> HIDE DEF h
    <3> QED BY <1>0, <2>1, <3>1
  <2>6. (Submitting' <=> Submitting) /\ (Offset(op.next))' = Offset(op.next)
    BY <1>1, <1>13 DEF Submitting, Offset
  <2>7. (Submitting => sent <= Offset(op.next) /\ \A j \in Urbs : j >= op.next => filled[j] = 0)
    BY <2>2, <2>4, <2>5
  <2>8. CASE queue' = <<>>
    BY <1>0, <1>13, <2>6, <2>7, <2>8 DEF FreshInv
  <2>9. CASE queue' # <<>>
    <3>1. /\ queue' = Tail(queue) /\ Len(queue)' = Len(queue) - 1 /\ queue' \in Seq(Urbs)
          /\ \A k \in 1..Len(queue) - 1 : queue'[k] = queue[k + 1]
      BY <1>13, <2>1, <2>9, HeadTailProperties
    <3>2. Len(queue)' # 0 /\ Len(queue)' \in Nat /\ Head(queue') = queue'[1]
      BY <2>9, <3>1, Lengths0
    <3>3. Head(queue') = queue[2] /\ 2 \in 1..Len(queue)
      BY <2>1, <3>1, <3>2
    <3>4. queue[2] = Top - Len(queue) + 2 /\ queue[2] \in Urbs
      BY <2>1, <3>3
    <3>5. Top \in Int
      BY <1>0, Facts DEF Top, Submitted, Core, OpType
    <3>6. queue[2] = h + 1 /\ queue[2] > h /\ h \in Int
      <4> HIDE DEF h
      <4> QED BY <1>0, <2>1, <3>4, <3>5
    <3>7. /\ sent <= Offset(queue[2]) /\ Offset(queue[2]) \in Nat /\ filled[queue[2]] = 0
          /\ \A j \in Urbs : j > queue[2] => filled[j] = 0
      <4> HIDE DEF h
      <4> QED BY <1>0, <2>2, <2>4, <3>4, <3>6
    <3>8. (Offset(Head(queue)))' = Offset(queue[2])
      BY <1>1, <3>3 DEF Offset
    <3> QED BY <1>0, <1>13, <2>6, <2>7, <2>9, <3>3, <3>7, <3>8 DEF FreshInv
  <2> QED BY <2>8, <2>9
<1>14. ASSUME NEW e \in Endings \ {"unlinked", "nodev"}, EndUrb(e) PROVE FreshInv'
  BY <1>0, <1>13, <1>14, Ending DEF EndUrb
<1>15. CASE Unplug
  <2>1. UNCHANGED <<filled, sent, op>> /\ queue' = <<>>
    BY <1>15 DEF Unplug
  <2>2. CASE queue = <<>>
    BY <1>3, <2>1, <2>2
  <2> QED BY <1>13, <2>1, <2>2
<1> QED BY <1>5, <1>6, <1>7, <1>8, <1>9, <1>10, <1>11, <1>12, <1>14, <1>15
        DEF UsbfsNext, Submission

LEMMA DataStep ==
  ASSUME ControlInv, ControlInv', DataTotal, [UsbfsNext]_vars
  PROVE DataInv'
<1>0. /\ Core /\ OpInv /\ LifeInv /\ QueueInv /\ DataInv /\ FullInv /\ FreshInv /\ type' = type
      /\ UNCHANGED setup /\ Back \in Nat
  BY StepsKeepSetup, Facts DEF ControlInv, DataTotal, setup
<1>1. CASE type # "bulk" \/ ~urbs'
  BY <1>0, <1>1 DEF DataInv
<1>2. ASSUME type = "bulk", urbs' PROVE DataInv'
  <2> USE DEF priv, data, kernel, world
  <2>1. CASE Submit
    <3>1. queue' = <<>> /\ done' = <<>> /\ reaped' = NoUrb
      BY <1>0, <2>1 DEF Submit, LifeInv
    <3>2. Open' = 0 /\ Back' = 0
      BY <3>1, EmptySeq DEF Open, Back, Held
    <3>3. sent' = 0 /\ transferred' = 0
      BY <2>1 DEF Submit
    <3> DEFINE d == [p \in 0..0 |-> 0]
    <3>4. d \in [0..Open' -> Nat] /\ \A p \in 0..0 : d[p] = 0
      BY <3>2
    <3> HIDE DEF d
    <3>5. /\ d[0] = transferred' /\ d[Open'] = sent'
          /\ \A p, q \in 0..Open' : p <= q => d[p] <= d[q]
      BY <3>2, <3>3, <3>4
    <3>6. (\A p \in 1..Open' : FALSE) /\ (\A p \in Back' + 1..Open' : FALSE)
          /\ (\A p \in 1..Back' : FALSE) /\ \A k \in 1..transferred' : FALSE
      BY <3>2, <3>3
    <3> QED BY <1>0, <3>4, <3>5, <3>6, DataThen
  <2>2. ASSUME urbs, Unmoved, Back' = Back, UNCHANGED <<transferred, buffer, filled, sent>>
        PROVE DataInv'
    <3>1. \A p \in Back + 1..Back' : FALSE
      BY <1>0, <2>2
    <3> QED BY <1>0, <1>2, <2>2, <3>1, DataKept
  <2>3. CASE SubmitUrb
    <3>1. urbs
      BY <1>2, <2>3 DEF SubmitUrb
    <3> QED BY <1>0, <1>2, <2>3, <3>1, DataQueued
  <2>4. CASE FirstUrbFails \/ LaterUrbFails
    <3>1. /\ op.by = "submit" /\ UNCHANGED <<reaped, done, queue, urbs, transferred, buffer, filled, sent>>
      BY <1>2, <2>4 DEF FirstUrbFails, LaterUrbFails, Submitting
    <3>2. op'.by # "complete"
      <4>1. op' = NoOp \/ op' = [op EXCEPT !.first = 1, !.next = @ - 1]
        BY <2>4 DEF FirstUrbFails, LaterUrbFails
      <4>2. op' = [op EXCEPT !.first = 1, !.next = @ - 1] => op'.by = op.by
        BY <1>0 DEF Core, OpType
      <4> QED BY <3>1, <4>1, <4>2 DEF NoOp
    <3> QED BY <1>0, <1>2, <2>2, <3>1, <3>2, Still
  <2>5. CASE DiscardUrb
    <3>1. urbs
      BY <1>2, <2>5 DEF DiscardUrb
    <3> QED BY <1>0, <1>2, <2>5, <3>1, DataDiscarded
  <2>6. CASE Discarded
    BY <1>0, <1>2, <2>2, <2>6, DiscardingEnds DEF Discarded
  <2>7. CASE Cancel
    <3>1. /\ UNCHANGED <<reaped, done, queue, urbs, transferred, buffer, filled, sent>> /\ op.by = "none"
          /\ op'.by = "cancel"
      BY <2>7 DEF Cancel, NoOp
    <3> QED BY <1>0, <1>2, <2>2, <3>1, Still
  <2>8. CASE Handle
    <3>1. BulkAbnormal \/ BulkNormal
      BY <1>2, <2>8 DEF Handle, Control, Iso, Handling
    <3> QED BY <1>0, <1>2, <3>1, DataAccounted
  <2>9. CASE Reap
    BY <1>0, <1>2, <2>2, <2>9, Reaping DEF Reap
  <2>10. CASE Detach
    BY <1>2, <2>10 DEF Detach
  <2>11. CASE Receive
    <3>1. urbs
      BY <1>2, <2>11 DEF Receive
    <3> QED BY <1>0, <1>2, <2>11, <3>1, DataReceived
  <2>12. ASSUME NEW e \in Endings \ {"unlinked", "nodev"}, EndUrb(e) PROVE DataInv'
    <3>1. /\ Unmoved /\ queue # <<>> /\ Back < Back'
      BY <1>0, <2>12, Ending
    <3>2. urbs /\ UNCHANGED <<transferred, buffer, filled, sent>>
      BY <1>2, <2>12 DEF EndUrb
    <3>3. \A q \in Back + 2..Open : filled[UrbAt(q)] = 0
      BY <1>0, <3>1, Behind DEF FreshInv
    <3>4. ASSUME NEW p \in Back + 1..Back', NEW q \in p + 1..Open PROVE filled[UrbAt(q)] = 0
      <4>1. q \in Back + 2..Open
        BY <1>0
      <4> QED BY <3>3, <4>1
    <3> QED BY <1>0, <1>2, <3>1, <3>2, <3>4, DataKept
  <2>13. CASE Unplug
    <3>1. Unmoved /\ urbs /\ UNCHANGED <<transferred, buffer, filled, sent>> /\ Back' = Open
      BY <1>0, <1>2, <2>13, Unplugging DEF Unplug
    <3>2. CASE queue = <<>>
      <4>1. Back' = Back
        BY <1>0, <3>1, <3>2, EmptySeq DEF Open
      <4> QED BY <2>2, <3>1, <4>1
    <3>3. CASE queue # <<>>
      <4>1. \A q \in Back + 2..Open : filled[UrbAt(q)] = 0
        BY <1>0, <3>3, Behind DEF FreshInv
      <4>2. ASSUME NEW p \in Back + 1..Back',
              NEW q \in p + 1..Open PROVE filled[UrbAt(q)] = 0
        <5>1. q \in Back + 2..Open
          BY <1>0
        <5> QED BY <4>1, <5>1
      <4> QED BY <1>0, <1>2, <3>1, <4>2, DataKept
    <3> QED BY <3>2, <3>3
  <2>14. CASE Callback \/ UNCHANGED vars
    <3>1. UNCHANGED <<reaped, done, queue, urbs, transferred, buffer, filled, sent, op>>
      BY <2>14 DEF Callback, vars
    <3> QED BY <1>0, <1>2, <2>2, <3>1, Still
  <2> QED BY <2>1, <2>3, <2>4, <2>5, <2>6, <2>7, <2>8, <2>9, <2>10, <2>11, <2>12,
          <2>13, <2>14
          DEF UsbfsNext, Submission
<1> QED BY <1>0, <1>1, <1>2 DEF ControlInv, Core, PrivType

LEMMA FirstPlace ==
  ASSUME BufferLen' = BufferLen, BufferLen \in Nat, num_retired' = 0
  PROVE (Offset(num_retired + 1))' = 0
  BY DEF Offset

LEMMA FullStep ==
  ASSUME ControlInv, ControlInv', DataTotal, [UsbfsNext]_vars
  PROVE FullInv'
<1>0. /\ Core /\ OpInv /\ LifeInv /\ QueueInv /\ StatusInv /\ DataInv /\ FullInv
      /\ UNCHANGED setup /\ NumUrbs' = NumUrbs /\ NumUrbs \in Nat /\ NumUrbs > 0
      /\ Open \in Nat /\ Back \in Nat /\ Urbs = 1..NumUrbs
      /\ \A p \in 1..Open : UrbAt(p) \in Urbs
  BY StepsKeepSetup, Same, Facts DEF ControlInv, DataTotal
<1>1. BufferLen' = BufferLen /\ BufferLen \in Nat /\ type' = type
  BY <1>0, Setup DEF BufferLen, Continued, setup, Core, SetupType
<1> USE DEF setup, priv, data, kernel, world
<1>2. ASSUME num_retired' = 0, transferred' = 0 PROVE FullInv'
  <2>3. (Offset(num_retired + 1))' = 0
    BY <1>1, <1>2, FirstPlace
  <2> QED BY <1>2, <2>3 DEF FullInv
<1>3. ASSUME UNCHANGED <<num_retired, transferred>>, Dry => Dry',
             urbs' /\ reap_action' = "NORMAL" /\ ~TakenBack' =>
               urbs /\ reap_action = "NORMAL" /\ ~TakenBack
      PROVE FullInv'
  <2>1. (Offset(num_retired + 1))' = Offset(num_retired + 1)
    BY <1>1, <1>3 DEF Offset
  <2> QED BY <1>0, <1>1, <1>3, <2>1 DEF FullInv
<1>4. ASSUME Unmoved, UNCHANGED filled, stalled \/ gone => stalled' \/ gone', Dry PROVE Dry'
  BY <1>4 DEF Dry, Unmoved
<1>5. CASE Submit
  BY <1>2, <1>5 DEF Submit
<1>6. CASE SubmitUrb
  BY <1>0, <1>2, <1>6 DEF SubmitUrb, OpInv
<1>7. CASE FirstUrbFails \/ LaterUrbFails
  BY <1>7 DEF FirstUrbFails, LaterUrbFails, FullInv
<1>8. CASE DiscardUrb
  <2>1. Dry => Dry'
    <3>1. UNCHANGED <<filled, stalled, gone, reaped>> /\ op'.by = op.by
      BY <1>0, <1>8, Discarding1 DEF DiscardUrb
    <3>2. CASE queue = <<>>
      <4>1. Unmoved
        BY <1>0, <1>8, <3>1, <3>2, Still, Discarding1
      <4> QED BY <1>4, <3>1, <4>1
    <3>3. CASE queue # <<>>
      <4>1. /\ Open' = Open /\ Back < Open /\ UrbAt(Open) = op.next
            /\ \A p \in 1..Back : UrbAt(p)' = UrbAt(p)
            /\ \A p : p = Back + 1 => UrbAt(p)' = op.next
            /\ \A p \in Back + 2..Open : UrbAt(p)' = UrbAt(p - 1)
        BY <1>0, <1>8, <3>3, Overtaking
      <4>2. ASSUME Dry, NEW p \in 1..Open' PROVE filled'[UrbAt(p)'] = 0
        <5>1. \A q \in 1..Open : filled[UrbAt(q)] = 0
          BY <4>2 DEF Dry
        <5>2. CASE p \in 1..Back
          BY <3>1, <4>1, <4>2, <5>1, <5>2
        <5>3. CASE p = Back + 1
          <6>1. Open \in 1..Open
            BY <1>0, <4>1
          <6> QED BY <3>1, <4>1, <5>1, <5>3, <6>1
        <5>4. CASE p \in Back + 2..Open
          <6>1. p - 1 \in 1..Open
            BY <1>0, <5>4
          <6> QED BY <3>1, <4>1, <5>1, <5>4, <6>1
        <5> QED BY <1>0, <4>1, <4>2, <5>2, <5>3, <5>4
      <4> QED BY <3>1, <4>2 DEF Dry
    <3> QED BY <3>2, <3>3
  <2>2. UNCHANGED <<num_retired, transferred, urbs, reap_action>>
    BY <1>8 DEF DiscardUrb
  <2>3. TakenBack => TakenBack'
    BY <1>8, StillTaken
  <2> QED BY <1>3, <2>1, <2>2, <2>3
<1>9. CASE Discarded
  <2>1. Unmoved /\ UNCHANGED <<num_retired, transferred, urbs, filled, stalled, gone>>
    BY <1>0, <1>9, DiscardingEnds DEF Discarded
  <2>2. reap_action' = "NORMAL" => reap_action = "NORMAL"
    BY <1>9 DEF Discarded
  <2>3. TakenBack => TakenBack'
    BY <1>9, StillTaken
  <2> QED BY <1>3, <1>4, <2>1, <2>2, <2>3
<1>10. CASE Cancel
  <2>1. /\ UNCHANGED <<num_retired, transferred, urbs, reap_action, filled, stalled, gone, reaped, done, queue>>
        /\ op.by = "none"
    BY <1>10 DEF Cancel
  <2>2. op'.by # "complete"
    BY <1>10 DEF Cancel, NoOp
  <2>3. Unmoved
    BY <1>0, <2>1, <2>2, Still
  <2>4. TakenBack => TakenBack'
    BY <2>1 DEF TakenBack
  <2> QED BY <1>3, <1>4, <2>1, <2>3, <2>4
<1>11. CASE Handle
  <2>1. CASE type # "bulk" \/ reap_action' # "NORMAL" \/ ~urbs'
    BY <1>1, <2>1 DEF FullInv
  <2>2. ASSUME type = "bulk", reap_action' = "NORMAL", urbs' PROVE FullInv'
    <3>1. BulkNormal /\ reap_action = "NORMAL"
      BY <1>11, <2>2 DEF Handle, Control, Iso, Handling, BulkAbnormal, BulkNormal
    <3> DEFINE i == reaped.urb
    <3>2. /\ i = num_retired + 1 /\ i \in Urbs /\ urbs /\ ~TakenBack /\ UrbAt(1) = i
          /\ Open >= 1 /\ Open' = Open - 1 /\ reaped = Line(1) /\ Back >= 1
          /\ \A p \in 1..Open - 1 : UrbAt(p)' = UrbAt(p + 1)
      <4>1. /\ i = num_retired + 1 /\ urbs /\ ~TakenBack /\ Open >= 1
        BY <1>11, <3>1, Normally
      <4>2. /\ UrbAt(1) = i /\ Open' = Open - 1 /\ reaped = Line(1) /\ Back >= 1
            /\ \A p \in 1..Open - 1 : UrbAt(p)' = UrbAt(p + 1)
        BY <1>0, <1>11, Accounting
      <4>3. i \in Urbs
        BY <1>0, <4>1, <4>2
      <4> QED BY <4>1, <4>2, <4>3
    <3>3. /\ num_retired' = num_retired + 1 /\ transferred' = transferred + filled[i]
          /\ UNCHANGED <<filled, stalled, gone>>
      BY <3>1 DEF BulkNormal
    <3>4. CASE reaped.status \in {"stall", "nodev"}
      <4>1. stalled \/ gone
        BY <1>0, <3>2, <3>4 DEF StatusInv
      <4>2. ASSUME NEW p \in 1..Open' PROVE filled'[UrbAt(p)'] = 0
        <5>1. PICK c \in [0..Open -> Nat] : DataAt(c)
          BY <1>0, <2>2, <3>2 DEF DataInv
        <5>2. p \in 1..Open - 1 /\ p + 1 \in 1 + 1..Open /\ 1 \in 1..Back
          BY <1>0, <3>2
        <5>3. filled[UrbAt(p + 1)] = 0
          BY <3>2, <3>4, <5>1, <5>2 DEF DataAt
        <5> QED BY <3>2, <3>3, <5>2, <5>3
      <4> QED BY <3>3, <4>1, <4>2 DEF Dry, FullInv
    <3>5. CASE reaped.status \notin {"stall", "nodev"}
      <4>1. i # NumUrbs /\ ~(filled[i] < UrbLength(i))
        BY <2>2, <3>1, <3>5 DEF BulkNormal, Complete
      <4>2. i < NumUrbs
        BY <1>0, <3>2, <4>1
      <4>3. /\ filled[i] \in Nat /\ filled[i] <= UrbLength(i)
            /\ UrbLength(i) \in Nat /\ UrbLength(i) > 0 /\ Offset(i + 1) = Offset(i) + UrbLength(i)
        BY <1>0, <3>2, <4>2, Places DEF Core, SetupType, FillType
      <4>4. filled[i] = UrbLength(i) /\ filled[i] # 0
        <5> HIDE DEF i
        <5> QED BY <4>1, <4>3
      <4>5. ~Dry
        <5>1. 1 \in 1..Open
          BY <1>0, <3>2
        <5> QED BY <3>2, <4>4, <5>1 DEF Dry
      <4>6. transferred = Offset(i)
        BY <1>0, <2>2, <3>1, <3>2, <4>5 DEF FullInv
      <4>7. (Offset(num_retired + 1))' = Offset(i + 1)
        BY <1>1, <3>2, <3>3 DEF Offset
      <4> QED BY <3>3, <4>3, <4>4, <4>6, <4>7 DEF FullInv
    <3> QED BY <3>4, <3>5
  <2> QED BY <2>1, <2>2
<1>12. CASE Reap
  <2>1. Unmoved /\ UNCHANGED <<num_retired, transferred, urbs, reap_action, filled, stalled, gone, op>>
    BY <1>0, <1>12, Reaping DEF Reap
  <2>2. TakenBack' <=> TakenBack
    BY <1>0, <2>1 DEF TakenBack
  <2> QED BY <1>3, <1>4, <2>1, <2>2
<1>13. CASE Callback \/ UNCHANGED vars
  <2>1. /\ UNCHANGED <<num_retired, transferred, urbs, reap_action, filled, stalled, gone, op>>
        /\ UNCHANGED <<reaped, done, queue>>
    BY <1>13 DEF Callback, vars
  <2>2. Unmoved /\ (TakenBack' <=> TakenBack)
    BY <1>0, <2>1, Still DEF TakenBack
  <2> QED BY <1>3, <1>4, <2>1, <2>2
<1>14. CASE Detach
  BY <1>14 DEF Detach, FullInv
<1>15. CASE Receive \/ (\E e \in Endings \ {"unlinked", "nodev"} : EndUrb(e))
  <2>1. /\ queue # <<>> /\ ~stalled /\ UNCHANGED <<num_retired, transferred, urbs, reap_action, op>>
    BY <1>15 DEF Receive, EndUrb
  <2>2. ~Dry
    BY <1>0, <2>1 DEF LifeInv, Dry
  <2>3. TakenBack' <=> TakenBack
    BY <1>0, <2>1 DEF TakenBack
  <2> QED BY <1>3, <2>1, <2>2, <2>3
<1>16. CASE Unplug
  <2>1. /\ Unmoved /\ UNCHANGED <<num_retired, transferred, urbs, reap_action, filled, stalled, op>>
        /\ gone' = TRUE
    BY <1>0, <1>16, Unplugging DEF Unplug
  <2>2. TakenBack' <=> TakenBack
    BY <1>0, <2>1 DEF TakenBack
  <2> QED BY <1>3, <1>4, <2>1, <2>2
<1> QED BY <1>5, <1>6, <1>7, <1>8, <1>9, <1>10, <1>11, <1>12, <1>13, <1>14, <1>15, <1>16
        DEF UsbfsNext, Submission

LEMMA LengthStep ==
  ASSUME ControlInv, DataTotal, [UsbfsNext]_vars
  PROVE LengthInv'
<1>0. /\ UNCHANGED <<type, length>> /\ LengthInv /\ length \in Nat /\ sent \in 0..length
      /\ DataInv /\ FullInv
  BY StepsKeepSetup, UsbfsAssumption DEF setup, ControlInv, Core, SetupType, FillType,
      DataTotal
<1> USE DEF priv, data, kernel, world
<1>1. CASE Submit
  BY <1>0, <1>1 DEF Submit, LengthInv
<1>2. CASE BulkAbnormal \/ BulkNormal
  <2>1. PICK c \in [0..Open -> Nat] : transferred' = c[1] /\ c[1] <= sent
    BY <1>0, <1>2, DataAccounted
  <2>2. 1 \in 0..Open
    BY <1>2, Normally DEF Handle
  <2>3. c[1] \in Nat
    BY <2>2
  <2> QED BY <1>0, <2>1, <2>3 DEF LengthInv
<1>3. CASE Control \/ Iso
  BY <1>0, <1>3 DEF Control, Iso, Handling, LengthInv
<1>4. CASE UNCHANGED transferred
  BY <1>0, <1>4 DEF LengthInv
<1> QED BY <1>1, <1>2, <1>3, <1>4
        DEF UsbfsNext, Submission, SubmitUrb, FirstUrbFails, LaterUrbFails, DiscardUrb,
        Discarded, Cancel,
            Reap, Handle, Callback, Detach, Receive, EndUrb, Unplug, vars

LEMMA AnswerStep ==
  ASSUME ControlInv, DataTotal, [UsbfsNext]_vars
  PROVE DataInOrder'
<1>0. /\ UNCHANGED setup /\ LifeInv /\ Core /\ DataInv /\ FullInv /\ DataInOrder
  BY StepsKeepSetup DEF ControlInv, DataTotal
<1> USE DEF setup, priv, data, kernel, world
<1>1. CASE answer' = "none" \/ type # "bulk"
  BY <1>0, <1>1 DEF DataInOrder
<1>2. ASSUME UNCHANGED <<answer, transferred, buffer, sent>>, gone => gone' PROVE DataInOrder'
  BY <1>0, <1>2 DEF DataInOrder
<1>3. CASE Submit \/ Callback
  BY <1>1, <1>3 DEF Submit, Callback
<1>4. CASE Receive
  BY <1>0, <1>1, <1>4 DEF Receive, LifeInv
<1>5. CASE Handle /\ type = "bulk"
  <2>1. (BulkAbnormal \/ BulkNormal) /\ answer = "none"
    BY <1>5, Normally DEF Handle, Control, Iso, Handling
  <2>2. CASE urbs'
    BY <1>1, <2>1, <2>2 DEF BulkAbnormal, BulkNormal, Complete
  <2>3. CASE ~urbs'
    <3>1. Open = 1
      <4>1. queue' = <<>> /\ done' = <<>> /\ reaped' = NoUrb
        <5>1. queue' = queue
          BY <2>1 DEF BulkAbnormal, BulkNormal
        <5> QED BY <1>5, <2>3, <5>1, AllBack
      <4>2. Len(queue') = 0 /\ Len(done') = 0 /\ ~Held'
        BY <4>1, EmptySeq DEF Held
      <4>3. Open' = 0
        BY <4>2 DEF Open, Back
      <4>4. Open' = Open - 1 /\ Open \in Nat
        BY <1>0, <1>5, Accounting, Facts
      <4> QED BY <4>3, <4>4
    <3>2. transferred' = sent /\ \A k \in 1..transferred' : buffer'[k] = k
      BY <1>0, <2>1, <3>1, DataAccounted
    <3>3. sent' = sent
      BY <2>1 DEF BulkAbnormal, BulkNormal
    <3> QED BY <3>2, <3>3 DEF DataInOrder
  <2> QED BY <2>2, <2>3
<1>6. CASE Detach
  <2>1. CASE ~urbs \/ "REAP" \notin caps \/ type # "bulk"
    BY <1>0, <1>6, <2>1 DEF Detach, DataInOrder
  <2>2. CASE urbs /\ "REAP" \in caps /\ type = "bulk"
    <3>1. queue = <<>> /\ done = <<>> /\ reaped = NoUrb /\ UNCHANGED <<transferred, buffer, sent>>
      BY <1>0, <1>6, <2>2 DEF Detach, LifeInv
    <3>2. Open = 0
      BY <3>1, NothingOpen
    <3>3. PICK c \in [0..Open -> Nat] : DataAt(c)
      BY <1>0, <2>2 DEF DataInv
    <3>4. transferred = sent /\ \A k \in 1..transferred : buffer[k] = k
      BY <3>2, <3>3 DEF DataAt
    <3> QED BY <3>1, <3>4 DEF DataInOrder
  <2> QED BY <2>1, <2>2
<1>7. CASE \/ SubmitUrb \/ FirstUrbFails \/ LaterUrbFails \/ DiscardUrb \/ Discarded \/ Cancel \/ Reap
           \/ Unplug \/ UNCHANGED vars \/ (\E e \in Endings \ {"unlinked", "nodev"} : EndUrb(e))
  <2>1. UNCHANGED <<answer, transferred, buffer, sent>> /\ (gone => gone')
    BY <1>7 DEF SubmitUrb, FirstUrbFails, LaterUrbFails, DiscardUrb, Discarded, Cancel,
        Reap, Unplug,
                EndUrb, vars
  <2> QED BY <1>2, <2>1
<1> QED BY <1>1, <1>3, <1>4, <1>5, <1>6, <1>7 DEF UsbfsNext, Submission

LEMMA DataInit ==
  ASSUME UsbfsInit
  PROVE DataTotal
<1>1. length \in Nat /\ transferred = 0
  BY UsbfsAssumption DEF UsbfsInit
<1>2. FreshInv /\ DataInv /\ FullInv /\ DataInOrder
  BY DEF UsbfsInit, FreshInv, DataInv, FullInv, DataInOrder, Submitting, NoOp
<1> QED BY <1>1, <1>2 DEF DataTotal, LengthInv

LEMMA Accounted ==
  ASSUME Orderly
  PROVE UsbfsSpec => [](ControlInv /\ DataTotal)
<1>1. UsbfsInit => ControlInv /\ DataTotal
  BY ControlInit, DataInit
<1>2. ControlInv /\ DataTotal /\ [UsbfsNext]_vars => (ControlInv /\ DataTotal)'
  <2> SUFFICES ASSUME ControlInv, DataTotal, [UsbfsNext]_vars PROVE (ControlInv /\ DataTotal)'
    OBVIOUS
  <2>1. ControlInv'
    BY ControlStep
  <2>2. FreshInv' /\ DataInv' /\ FullInv' /\ LengthInv' /\ DataInOrder'
    BY <2>1, FreshStep, DataStep, FullStep, LengthStep, AnswerStep DEF DataTotal
  <2> QED BY <2>1, <2>2 DEF DataTotal
<1> QED BY <1>1, <1>2, PTL DEF UsbfsSpec

(* What the comment on surplus data says: of the data that the device has  *)
(* sent nothing is lost, and the buffer holds it in order from its start,  *)
(* also when the transfer is cancelled, ends early or fails while URBs     *)
(* behind the first are still being taken back and one of them gets more.  *)
THEOREM DataInOrderCorrect ==
  ASSUME Orderly
  PROVE UsbfsSpec => []DataInOrder
<1>1. DataTotal => DataInOrder
  BY DEF DataTotal
<1> QED BY <1>1, Accounted, PTL

LEMMA TypesFollow ==
  ASSUME ControlInv, LengthInv
  PROVE UsbfsTypeOK
<1>0. /\ Core /\ OpInv /\ BoundInv /\ NumUrbs \in Nat /\ NumUrbs > 0 /\ Urbs = 1..NumUrbs
      /\ length \in Nat
  BY Facts, UsbfsAssumption DEF ControlInv, Core, SetupType
<1>1. num_retired \in 0..NumUrbs
  BY <1>0 DEF BoundInv, Core, PrivType
<1>2. transferred \in 0..length
  BY <1>0 DEF BoundInv, LengthInv, Core, DataType
<1>3. /\ op.first \in 0..NumUrbs
  <2>1. /\ op.by \in {"none", "submit", "cancel", "complete"} /\ op.first \in Nat
    BY <1>0 DEF Core, OpType
  <2>2. op.by = "none" => op.first = 0
    BY <1>0 DEF OpInv, NoOp
  <2>3. op.by \in {"submit", "cancel"} => op.first <= 1
    BY <1>0 DEF OpInv
  <2>4. op.by = "complete" => op.first = reaped.urb + 1 /\ reaped.urb < NumUrbs /\ reaped.urb \in Nat
    BY <1>0, Facts DEF OpInv
  <2> QED BY <1>0, <2>1, <2>2, <2>3, <2>4
<1>4. op \in [by : {"none", "submit", "cancel", "complete"}, first : 0..NumUrbs,
              next : 0..NumUrbs, ret : {"SUCCESS", "NOT_FOUND", "NO_DEVICE"}]
  BY <1>0, <1>3 DEF Core, OpType
<1>5. filled \in [Urbs -> 0..length]
  <2>1. ASSUME NEW i \in Urbs PROVE filled[i] \in 0..length
    <3>1. /\ filled[i] \in Nat /\ filled[i] <= UrbLength(i) /\ UrbLength(i) \in Nat
          /\ Offset(i) \in Nat /\ Offset(i) + UrbLength(i) <= length
      BY <1>0, Places DEF Core, SetupType, FillType
    <3> QED BY <1>0, <3>1
  <2> QED BY <1>0, <2>1 DEF Core, FillType
<1> QED BY <1>0, <1>1, <1>2, <1>4, <1>5
        DEF UsbfsTypeOK, Core, SetupType, PrivType, DataType, ReapedType, FlagsType,
        ListType, FillType

(* Types and bounds, with an Orderly device: no more URBs are retired than *)
(* there are, no more is transferred than was asked for, and discard_urbs()*)
(* does not run past the last URB.  With the stall of Usbfs_stall it is    *)
(* false: the URB that an answer left with the kernel comes back into the  *)
(* next submission, and is counted there (num_retired is 4 of 3).          *)
THEOREM UsbfsTypeCorrect ==
  ASSUME Orderly
  PROVE UsbfsSpec => []UsbfsTypeOK
<1>1. ControlInv /\ DataTotal => UsbfsTypeOK
  BY TypesFollow DEF DataTotal
<1> QED BY <1>1, Accounted, PTL
=============================================================================
