-------------------------- MODULE UsbTransferProofs -------------------------
(***************************************************************************)
(* Theorems about UsbTransfer, for any transfers, timeouts and number of   *)
(* submissions: types, what is left of a transfer when it is answered,     *)
(* that the timer covers every deadline, and that each submission gets one *)
(* answer that has its reason (UsbRequest).                                *)
(***************************************************************************)
EXTENDS UsbTransfer, SequenceTheorems, WellFoundedInduction, TLAPS

(* What the sequence operators of the list do.                             *)
LEMMA MinOfNaturals ==
  ASSUME NEW S, S \subseteq Nat, S # {}
  PROVE Min(S) \in S /\ \A x \in S : Min(S) <= x
<1>1. \E x \in S : \A y \in S : ~ (<<y, x>> \in OpToRel(<, Nat))
  BY NatLessThanWellFounded, WFMin
<1>2. \E x \in S : \A y \in S : x <= y
  <2>1. PICK x \in S : \A y \in S : ~ (<<y, x>> \in OpToRel(<, Nat))
    BY <1>1
  <2>2. \A y \in S : ~ (y < x)
    BY <2>1 DEF OpToRel
  <2> QED BY <2>2
<1> QED BY <1>2 DEF Min

LEMMA Removed ==
  ASSUME NEW S, NEW s \in Seq(S), NEW k \in DOMAIN s
  PROVE /\ RemoveAt(s, k) \in Seq(S)
        /\ Len(RemoveAt(s, k)) = Len(s) - 1
        /\ \A i \in 1..Len(s) - 1 : RemoveAt(s, k)[i] = IF i < k THEN s[i] ELSE s[i + 1]
<1> DEFINE a == SubSeq(s, 1, k - 1)
           b == SubSeq(s, k + 1, Len(s))
<1>0. k \in 1..Len(s) /\ Len(s) \in Nat
  BY LenProperties
<1>1. a \in Seq(S) /\ Len(a) = k - 1 /\ \A i \in 1..k - 1 : a[i] = s[i]
  BY <1>0, SubSeqProperties
<1>2. b \in Seq(S) /\ Len(b) = Len(s) - k /\ \A i \in 1..Len(s) - k : b[i] = s[k + i]
  <2>1. \A i \in k + 1..Len(s) : s[i] \in S
    BY <1>0, ElementOfSeq
  <2> QED BY <1>0, <2>1, SubSeqProperties
<1> HIDE DEF a, b
<1>3. /\ a \o b \in Seq(S) /\ Len(a \o b) = Len(s) - 1
      /\ \A i \in 1..Len(s) - 1 : (a \o b)[i] = IF i <= k - 1 THEN a[i] ELSE b[i - (k - 1)]
  BY <1>0, <1>1, <1>2, ConcatProperties
<1>4. RemoveAt(s, k) = a \o b
  BY DEF RemoveAt, a, b
<1>5. ASSUME NEW i \in 1..Len(s) - 1
      PROVE (a \o b)[i] = IF i < k THEN s[i] ELSE s[i + 1]
  <2>1. CASE i < k
    BY <2>1, <1>0, <1>1, <1>3
  <2>2. CASE ~(i < k)
    <3>1. i - (k - 1) \in 1..Len(s) - k /\ k + (i - (k - 1)) = i + 1 /\ ~(i <= k - 1)
      BY <2>2, <1>0
    <3>2. (a \o b)[i] = b[i - (k - 1)]
      BY <3>1, <1>3
    <3>3. b[i - (k - 1)] = s[k + (i - (k - 1))]
      BY <3>1, <1>2
    <3> QED BY <2>2, <3>1, <3>2, <3>3
  <2> QED BY <2>1, <2>2
<1> QED BY <1>3, <1>4, <1>5

(* s with e inserted before its k-th element, as a sequence over S.        *)
IsInserted(S, s, k, e) ==
  /\ InsertAt(s, k, e) \in Seq(S)
  /\ Len(InsertAt(s, k, e)) = Len(s) + 1
  /\ \A i \in 1..Len(s) + 1 :
       InsertAt(s, k, e)[i] = IF i < k THEN s[i] ELSE IF i = k THEN e ELSE s[i - 1]

LEMMA Inserted ==
  ASSUME NEW S, NEW s \in Seq(S), NEW k \in 1..Len(s) + 1, NEW e \in S
  PROVE IsInserted(S, s, k, e)
<1> DEFINE a == SubSeq(s, 1, k - 1)
           b == SubSeq(s, k, Len(s))
           d == <<e>>
           c == a \o d
<1>0. k \in 1..Len(s) + 1 /\ Len(s) \in Nat
  BY LenProperties
<1>1. a \in Seq(S) /\ Len(a) = k - 1 /\ \A i \in 1..k - 1 : a[i] = s[i]
  <2>1. \A i \in 1..k - 1 : s[i] \in S
    BY <1>0, ElementOfSeq
  <2> QED BY <1>0, <2>1, SubSeqProperties
<1>2. b \in Seq(S) /\ Len(b) = Len(s) - k + 1 /\ \A i \in 1..Len(s) - k + 1 : b[i] = s[k + i - 1]
  <2>1. \A i \in k..Len(s) : s[i] \in S
    BY <1>0, ElementOfSeq
  <2> QED BY <1>0, <2>1, SubSeqProperties
<1>3. d \in Seq(S) /\ Len(d) = 1 /\ d[1] = e
  OBVIOUS
<1>4. /\ c \in Seq(S) /\ Len(c) = k
      /\ \A i \in 1..k : c[i] = IF i <= k - 1 THEN a[i] ELSE d[i - (k - 1)]
  <2> HIDE DEF a, d
  <2>1. /\ c \in Seq(S) /\ Len(c) = Len(a) + Len(d)
        /\ \A i \in 1..Len(a) + Len(d) : c[i] = IF i <= Len(a) THEN a[i] ELSE d[i - Len(a)]
    BY <1>1, <1>3, ConcatProperties
  <2>2. Len(a) + Len(d) = k /\ Len(a) = k - 1
    BY <1>0, <1>1, <1>3
  <2> HIDE DEF c
  <2> QED BY <2>1, <2>2
<1> HIDE DEF a, b, c, d
<1>5. /\ c \o b \in Seq(S) /\ Len(c \o b) = Len(s) + 1
      /\ \A i \in 1..Len(s) + 1 : (c \o b)[i] = IF i <= k THEN c[i] ELSE b[i - k]
  <2>1. /\ c \o b \in Seq(S) /\ Len(c \o b) = Len(c) + Len(b)
        /\ \A i \in 1..Len(c) + Len(b) : (c \o b)[i] = IF i <= Len(c) THEN c[i] ELSE b[i - Len(c)]
    BY <1>2, <1>4, ConcatProperties
  <2>2. Len(c) + Len(b) = Len(s) + 1 /\ Len(c) = k
    BY <1>0, <1>2, <1>4
  <2> QED BY <2>1, <2>2
<1>6. InsertAt(s, k, e) = c \o b
  BY DEF InsertAt, a, b, c, d
<1>7. ASSUME NEW i \in 1..Len(s) + 1
      PROVE (c \o b)[i] = IF i < k THEN s[i] ELSE IF i = k THEN e ELSE s[i - 1]
  <2>1. CASE i < k
    BY <2>1, <1>0, <1>1, <1>4, <1>5
  <2>2. CASE i = k
    <3>1. i <= k /\ ~(i <= k - 1) /\ i - (k - 1) = 1 /\ i \in 1..k
      BY <2>2, <1>0
    <3> QED BY <2>2, <3>1, <1>3, <1>4, <1>5
  <2>3. CASE i > k
    <3>1. i - k \in 1..Len(s) - k + 1 /\ k + (i - k) - 1 = i - 1 /\ ~(i <= k)
      BY <2>3, <1>0
    <3>2. (c \o b)[i] = b[i - k]
      BY <3>1, <1>5
    <3>3. b[i - k] = s[k + (i - k) - 1]
      BY <3>1, <1>2
    <3> QED BY <2>3, <3>1, <3>2, <3>3
  <2>4. i < k \/ i = k \/ i > k
    BY <1>0
  <2> QED BY <2>1, <2>2, <2>3, <2>4
<1> QED BY <1>5, <1>6, <1>7 DEF IsInserted
-----------------------------------------------------------------------------
(* The invariant.                                                          *)

Flies(t) == \E i \in DOMAIN flying : flying[i] = t

(* The list has no transfer twice, and is sorted: those without a deadline *)
(* come last.                                                              *)
Before(a, b) == b = 0 \/ (a # 0 /\ a <= b)

ListInv ==
  /\ \A i, j \in DOMAIN flying : flying[i] = flying[j] => i = j
  /\ \A i, j \in DOMAIN flying : i < j => Before(timeout[flying[i]], timeout[flying[j]])

(* Where a transfer is in its life.                                        *)
Submitting(t) == submitting[t] \in {"backend", "failed"} =>
  t \notin pending /\ Flies(t) /\ urb[t] = "none" /\ state_flags[t] = {}

Accepted(t) == submitting[t] = "accepted" =>
  t \in pending /\ Flies(t) /\ urb[t] \in {"queued", "done"} /\ state_flags[t] = {}

AtRest(t) == submitting[t] = "no" /\ t \notin pending =>
  ~Flies(t) /\ urb[t] = "none" /\ "IN_FLIGHT" \notin state_flags[t]

InFlight(t) == submitting[t] = "no" /\ t \in pending /\ handled # t =>
  Flies(t) /\ urb[t] # "none" /\ "IN_FLIGHT" \in state_flags[t]

Completing(t) == handled = t =>
  /\ t \in pending /\ submitting[t] = "no" /\ urb[t] = "none"
  /\ handler \in {"cancellation", "remove"} => Flies(t)
  /\ handler \in {"clear", "callback"} => ~Flies(t)
  /\ "IN_FLIGHT" \in state_flags[t] <=> handler # "callback"

LifeInv ==
  \A t \in Transfers : /\ Submitting(t) /\ Accepted(t) /\ AtRest(t)
                       /\ InFlight(t) /\ Completing(t)

(* What the event thread does.                                             *)
HandlerInv ==
  /\ handled # None <=> handler \in {"cancellation", "remove", "clear", "callback"}
  /\ handler = "disconnect" => detached = "busy"
  /\ detached # "no" => gone
  /\ handler = "timeouts" => scan # 0
  /\ scan <= now

(* Why a transfer was taken back, and why it will get its status.          *)
Taken(t) == urb[t] = "discarded" \/ (handled = t /\ handler = "cancellation")

TimeInv == \A t \in Transfers : wanted[t] = 0 => timeout[t] = 0

NotTaken(t) == urb[t] \in {"queued", "done"} \/ submitting[t] = "backend" =>
  t \notin cancelled /\ "TIMED_OUT" \notin timeout_flags[t]

WhyTaken(t) == Taken(t) =>
  \/ t \in cancelled /\ "TIMED_OUT" \notin timeout_flags[t] /\ timing # t
  \/ t \notin cancelled /\ (timing = t \/ "TIMED_OUT" \in timeout_flags[t]) /\ t \in Late

WhyStatus(t) == handled = t /\ handler \in {"remove", "clear", "callback"} =>
  /\ status \in Statuses
  /\ status = "NO_DEVICE" => gone
  /\ status = "TIMED_OUT" => t \in Late
  /\ status # "NO_DEVICE" => (t \in cancelled <=> status = "CANCELLED")

CauseInv ==
  /\ \A t \in Transfers : NotTaken(t) /\ WhyTaken(t) /\ WhyStatus(t)
  /\ timing # None => scan # 0 /\ Taken(timing)

(* The timer, except while its own expiry is handled.                      *)
Covered ==
  \A i \in DOMAIN flying :
    timeout[flying[i]] # 0 /\ "HANDLED" \notin timeout_flags[flying[i]] =>
      timer \in 1..timeout[flying[i]] \/ "HANDLED" \in timeout_flags[flying[1]]

TimerInv == using_timerfd /\ handler # "timeouts" => Covered

TransferInv ==
  TransferTypeOK /\ ListInv /\ LifeInv /\ HandlerInv /\ TimeInv /\ CauseInv /\ TimerInv

-----------------------------------------------------------------------------
LEMMA InitEstablishes == TransferInit => TransferInv
<1> SUFFICES ASSUME TransferInit PROVE TransferInv  OBVIOUS
<1> USE UsbTransferAssumption DEF TransferInit
<1>1. flying \in Seq(Transfers) /\ DOMAIN flying = {}
  BY EmptySeq, LenProperties
<1>2. wanted \in [Transfers -> Nat]
  OBVIOUS
<1>3. TransferTypeOK
  <2>1. now \in 1..MaxNow /\ scan \in 0..MaxNow /\ submits \in 0..MaxSubmits
    OBVIOUS
  <2>2. /\ timeout \in [Transfers -> Nat]
        /\ state_flags \in [Transfers -> SUBSET {"IN_FLIGHT", "CANCELLING", "DISAPPEARED"}]
        /\ timeout_flags \in [Transfers -> SUBSET {"HANDLED", "TIMED_OUT"}]
    OBVIOUS
  <2>3. /\ submitting \in [Transfers -> {"no", "backend", "accepted", "failed"}]
        /\ urb \in [Transfers -> {"none", "queued", "done", "discarded"}]
    OBVIOUS
  <2> QED BY <1>1, <1>2, <2>1, <2>2, <2>3 DEF TransferTypeOK
<1>4. ListInv /\ TimerInv
  BY <1>1 DEF ListInv, TimerInv, Covered
<1>5. LifeInv
  BY <1>1 DEF LifeInv, Submitting, Accepted, AtRest, InFlight, Completing, Flies
<1>6. HandlerInv /\ TimeInv
  BY DEF HandlerInv, TimeInv
<1>7. CauseInv
  BY DEF CauseInv, NotTaken, WhyTaken, WhyStatus, Taken
<1> QED BY <1>3, <1>4, <1>5, <1>6, <1>7 DEF TransferInv

-----------------------------------------------------------------------------
(* The list of flying transfers.                                           *)

LEMMA ListType ==
  ASSUME TransferTypeOK
  PROVE /\ Len(flying) \in Nat /\ DOMAIN flying = 1..Len(flying)
        /\ \A i \in DOMAIN flying : flying[i] \in Transfers /\ timeout[flying[i]] \in Nat
BY LenProperties, ElementOfSeq DEF TransferTypeOK

(* The next deadline is that of the first transfer that is not handled.    *)
LEMMA NextDeadlineIs ==
  ASSUME TransferTypeOK, NEW list \in Seq(Transfers)
  PROVE /\ NextDeadline(list) \in Nat
        /\ \/ \A i \in DOMAIN list : "HANDLED" \in timeout_flags[list[i]]
           \/ \E m \in DOMAIN list :
                /\ "HANDLED" \notin timeout_flags[list[m]]
                /\ \A i \in DOMAIN list : i < m => "HANDLED" \in timeout_flags[list[i]]
                /\ NextDeadline(list) = timeout[list[m]]
<1> DEFINE open == {i \in DOMAIN list : "HANDLED" \notin timeout_flags[list[i]]}
<1>1. DOMAIN list = 1..Len(list) /\ Len(list) \in Nat /\ \A i \in DOMAIN list : list[i] \in Transfers
  BY LenProperties, ElementOfSeq
<1>2. NextDeadline(list) = IF open = {} THEN 0 ELSE timeout[list[Min(open)]]
  BY DEF NextDeadline
<1>3. CASE open = {}
  BY <1>2, <1>3
<1>4. CASE open # {}
  <2>1. open \subseteq Nat
    BY <1>1
  <2>2. Min(open) \in open /\ \A x \in open : Min(open) <= x
    BY <1>4, <2>1, MinOfNaturals
  <2>3. PICK m \in DOMAIN list : m = Min(open)
    BY <2>2
  <2>4. "HANDLED" \notin timeout_flags[list[m]] /\ \A x \in open : m <= x
    BY <2>2, <2>3
  <2>5. \A i \in DOMAIN list : i < m => "HANDLED" \in timeout_flags[list[i]]
    BY <1>1, <2>4
  <2>6. timeout[list[m]] \in Nat /\ NextDeadline(list) = timeout[list[m]]
    BY <1>1, <1>2, <1>4, <2>3 DEF TransferTypeOK
  <2> QED BY <2>4, <2>5, <2>6
<1> QED BY <1>3, <1>4

(* A deadline has its place between those that are not later and the rest. *)
LEMMA PlaceIs ==
  ASSUME TransferTypeOK, ListInv, NEW d \in Nat
  PROVE /\ Place(d) \in 1..Len(flying) + 1
        /\ \A i \in DOMAIN flying : i < Place(d) => Before(timeout[flying[i]], d) \/ d = 0
        /\ \A i \in DOMAIN flying : i >= Place(d) => Before(d, timeout[flying[i]]) /\ d # 0
<1> DEFINE later == {i \in DOMAIN flying : timeout[flying[i]] = 0 \/ timeout[flying[i]] > d}
<1>1. /\ Len(flying) \in Nat /\ DOMAIN flying = 1..Len(flying)
      /\ \A i \in DOMAIN flying : timeout[flying[i]] \in Nat
  BY ListType
<1>2. Place(d) = IF d = 0 \/ later = {} THEN Len(flying) + 1 ELSE Min(later)
  BY DEF Place
<1>3. CASE d = 0
  BY <1>1, <1>2, <1>3
<1>4. CASE d # 0 /\ later = {}
  BY <1>1, <1>2, <1>4 DEF Before
<1>5. CASE d # 0 /\ later # {}
  <2>0. later \subseteq Nat
    BY <1>1
  <2>1. Min(later) \in later /\ \A x \in later : Min(later) <= x
    BY <1>5, <2>0, MinOfNaturals
  <2>2. PICK m \in DOMAIN flying : m = Min(later) /\ Place(d) = m
    BY <1>2, <1>5, <2>1
  <2>3. /\ m \in 1..Len(flying) /\ (timeout[flying[m]] = 0 \/ timeout[flying[m]] > d)
        /\ \A x \in later : m <= x
    BY <1>1, <2>1, <2>2
  <2>4. \A i \in DOMAIN flying : i < m => timeout[flying[i]] # 0 /\ timeout[flying[i]] <= d
    BY <1>1, <2>3
  <2> HIDE DEF later
  <2>5. ASSUME NEW i \in DOMAIN flying, i >= m PROVE Before(d, timeout[flying[i]])
    <3>1. i = m \/ Before(timeout[flying[m]], timeout[flying[i]])
      BY <1>1, <2>3, <2>5 DEF ListInv
    <3> QED BY <1>1, <1>5, <2>3, <3>1 DEF Before
  <2> QED BY <1>1, <1>5, <2>2, <2>3, <2>4, <2>5 DEF Before
<1> QED BY <1>3, <1>4, <1>5

LEMMA Adding ==
  ASSUME TransferTypeOK, ListInv, NEW t \in Transfers, ~Flies(t), NEW d \in Nat,
         AddToFlying(t, d)
  PROVE /\ flying' \in Seq(Transfers) /\ timeout' \in [Transfers -> Nat] /\ timer' \in Nat
        /\ ListInv'
        /\ \A u \in Transfers : Flies(u)' <=> Flies(u) \/ u = t
        /\ \A i \in DOMAIN flying' :
             flying'[i] = IF i < Place(d) THEN flying[i]
                          ELSE IF i = Place(d) THEN t ELSE flying[i - 1]
        /\ DOMAIN flying' = 1..Len(flying) + 1
<1> DEFINE k == Place(d)
<1>1. /\ Len(flying) \in Nat /\ DOMAIN flying = 1..Len(flying)
      /\ \A i \in DOMAIN flying : flying[i] \in Transfers /\ timeout[flying[i]] \in Nat
  BY ListType
<1>2. /\ k \in 1..Len(flying) + 1
      /\ \A i \in DOMAIN flying : i < k => Before(timeout[flying[i]], d) \/ d = 0
      /\ \A i \in DOMAIN flying : i >= k => Before(d, timeout[flying[i]]) /\ d # 0
  BY PlaceIs
<1>3. flying' = InsertAt(flying, k, t)
  BY DEF AddToFlying
<1>4. flying \in Seq(Transfers)
  BY DEF TransferTypeOK
<1> HIDE DEF k
<1>5. /\ flying' \in Seq(Transfers) /\ Len(flying') = Len(flying) + 1
      /\ \A i \in 1..Len(flying) + 1 :
           flying'[i] = IF i < k THEN flying[i] ELSE IF i = k THEN t ELSE flying[i - 1]
  <2>1. k \in 1..Len(flying) + 1
    BY <1>2
  <2>2. IsInserted(Transfers, flying, k, t)
    BY <2>1, <1>4, Inserted
  <2> QED BY <1>3, <2>2 DEF IsInserted
<1>6. DOMAIN flying' = 1..Len(flying) + 1
  BY <1>5, LenProperties
<1>7. /\ timeout' \in [Transfers -> Nat] /\ timer' \in Nat
      /\ timeout'[t] = d /\ \A u \in Transfers : u # t => timeout'[u] = timeout[u]
  BY DEF AddToFlying, TransferTypeOK
<1>8. \A i \in DOMAIN flying : flying[i] # t /\ timeout'[flying[i]] = timeout[flying[i]]
  BY <1>1, <1>7 DEF Flies
<1>9. \A u \in Transfers : Flies(u)' <=> Flies(u) \/ u = t
  <2>1. ASSUME NEW u \in Transfers, Flies(u)' PROVE Flies(u) \/ u = t
    <3>1. PICK i \in 1..Len(flying) + 1 : flying'[i] = u
      BY <2>1, <1>6 DEF Flies
    <3>2. CASE i < k
      BY <3>1, <3>2, <1>1, <1>2, <1>5 DEF Flies
    <3>3. CASE i = k
      BY <3>1, <3>3, <1>1, <1>2, <1>5
    <3>4. CASE i > k
      <4>1. i - 1 \in DOMAIN flying /\ ~(i < k) /\ i # k
        BY <3>4, <1>1, <1>2
      <4> QED BY <3>1, <4>1, <1>5 DEF Flies
    <3>5. i < k \/ i = k \/ i > k
      BY <1>1, <1>2
    <3> QED BY <3>2, <3>3, <3>4, <3>5
  <2>2. Flies(t)'
    BY <1>2, <1>5, <1>6 DEF Flies
  <2>3. ASSUME NEW u \in Transfers, Flies(u) PROVE Flies(u)'
    <3>1. PICK i \in 1..Len(flying) : flying[i] = u
      BY <2>3, <1>1 DEF Flies
    <3>2. CASE i < k
      <4>1. flying'[i] = u
        BY <3>1, <3>2, <1>1, <1>2, <1>5
      <4> QED BY <4>1, <1>1, <1>6 DEF Flies
    <3>3. CASE i >= k
      <4>1. i + 1 \in 1..Len(flying) + 1 /\ ~(i + 1 < k) /\ i + 1 # k /\ (i + 1) - 1 = i
        BY <3>3, <1>1, <1>2
      <4>2. flying'[i + 1] = u
        BY <4>1, <3>1, <1>5
      <4> QED BY <4>1, <4>2, <1>6 DEF Flies
    <3> QED BY <3>2, <3>3, <1>1, <1>2
  <2> QED BY <2>1, <2>2, <2>3
<1>10. ListInv'
  <2>1. ASSUME NEW i \in DOMAIN flying', NEW j \in DOMAIN flying', i < j
        PROVE /\ flying'[i] # flying'[j]
              /\ Before(timeout'[flying'[i]], timeout'[flying'[j]])
    <3>1. i \in 1..Len(flying) + 1 /\ j \in 1..Len(flying) + 1 /\ i \in Int /\ j \in Int /\ k \in Int
      BY <1>1, <1>2, <1>6
    <3>2. CASE j < k
      <4>1. flying'[i] = flying[i] /\ flying'[j] = flying[j] /\ i \in DOMAIN flying /\ j \in DOMAIN flying
        BY <3>1, <3>2, <2>1, <1>1, <1>2, <1>5
      <4> QED BY <4>1, <1>8, <2>1, <3>1 DEF ListInv
    <3>3. CASE j = k
      <4>1. flying'[i] = flying[i] /\ flying'[j] = t /\ i \in DOMAIN flying /\ i < k
        BY <3>1, <3>3, <2>1, <1>1, <1>2, <1>5
      <4> QED BY <4>1, <1>1, <1>2, <1>7, <1>8 DEF Before
    <3>4. CASE i < k /\ j > k
      <4>1. /\ flying'[i] = flying[i] /\ flying'[j] = flying[j - 1]
            /\ i \in DOMAIN flying /\ j - 1 \in DOMAIN flying /\ i < j - 1
        BY <3>1, <3>4, <1>1, <1>2, <1>5
      <4>2. i # j - 1
        BY <3>1, <4>1
      <4> QED BY <4>1, <4>2, <1>8 DEF ListInv
    <3>5. CASE i = k
      <4>1. flying'[i] = t /\ flying'[j] = flying[j - 1] /\ j - 1 \in DOMAIN flying /\ j - 1 >= k
        BY <3>1, <3>5, <2>1, <1>1, <1>2, <1>5
      <4> QED BY <4>1, <1>2, <1>7, <1>8
    <3>6. CASE i > k
      <4>1. /\ flying'[i] = flying[i - 1] /\ flying'[j] = flying[j - 1]
            /\ i - 1 \in DOMAIN flying /\ j - 1 \in DOMAIN flying /\ i - 1 < j - 1
        BY <3>1, <3>6, <2>1, <1>1, <1>2, <1>5
      <4>2. i - 1 # j - 1
        BY <3>1, <4>1
      <4> QED BY <4>1, <4>2, <1>8 DEF ListInv
    <3> QED BY <3>1, <3>2, <3>3, <3>4, <3>5, <3>6, <2>1
  <2>2. ASSUME NEW i \in DOMAIN flying', NEW j \in DOMAIN flying', flying'[i] = flying'[j]
        PROVE i = j
    <3>1. i \in Int /\ j \in Int
      BY <1>1, <1>6
    <3> QED BY <2>1, <2>2, <3>1
  <2> QED BY <2>1, <2>2 DEF ListInv
<1> QED BY <1>5, <1>6, <1>7, <1>9, <1>10 DEF k

LEMMA Removing ==
  ASSUME TransferTypeOK, ListInv, NEW t \in Transfers, Flies(t), RemoveFromFlying(t)
  PROVE /\ flying' \in Seq(Transfers) /\ timer' \in Nat
        /\ ListInv'
        /\ \A u \in Transfers : Flies(u)' <=> Flies(u) /\ u # t
        /\ DOMAIN flying' = 1..Len(flying) - 1
        /\ \E k \in DOMAIN flying :
             /\ flying[k] = t
             /\ \A i \in DOMAIN flying' : flying'[i] = IF i < k THEN flying[i] ELSE flying[i + 1]
<1>1. /\ Len(flying) \in Nat /\ DOMAIN flying = 1..Len(flying)
      /\ \A i \in DOMAIN flying : flying[i] \in Transfers /\ timeout[flying[i]] \in Nat
  BY ListType
<1>2. PICK k \in DOMAIN flying : k = Position(t) /\ flying[k] = t
  BY DEF Flies, Position
<1>3. flying' = RemoveAt(flying, k) /\ UNCHANGED timeout
  BY <1>2 DEF RemoveFromFlying
<1>4. flying \in Seq(Transfers)
  BY DEF TransferTypeOK
<1>5. /\ flying' \in Seq(Transfers) /\ Len(flying') = Len(flying) - 1
      /\ \A i \in 1..Len(flying) - 1 : flying'[i] = IF i < k THEN flying[i] ELSE flying[i + 1]
  BY <1>3, <1>4, Removed
<1>6. DOMAIN flying' = 1..Len(flying) - 1
  BY <1>5, LenProperties
<1>7. timer' \in Nat
  BY <1>5, NextDeadlineIs DEF RemoveFromFlying, TransferTypeOK
<1>8. \A u \in Transfers : Flies(u)' <=> Flies(u) /\ u # t
  <2>1. ASSUME NEW u \in Transfers, Flies(u)' PROVE Flies(u) /\ u # t
    <3>1. PICK i \in 1..Len(flying) - 1 : flying'[i] = u
      BY <2>1, <1>6 DEF Flies
    <3>2. CASE i < k
      <4>1. flying[i] = u /\ i \in DOMAIN flying /\ i # k
        BY <3>1, <3>2, <1>1, <1>5
      <4> QED BY <4>1, <1>2 DEF Flies, ListInv
    <3>3. CASE ~(i < k)
      <4>1. flying[i + 1] = u /\ i + 1 \in DOMAIN flying /\ i + 1 # k
        BY <3>1, <3>3, <1>1, <1>5
      <4> QED BY <4>1, <1>2 DEF Flies, ListInv
    <3> QED BY <3>2, <3>3
  <2>2. ASSUME NEW u \in Transfers, Flies(u), u # t PROVE Flies(u)'
    <3>1. PICK i \in 1..Len(flying) : flying[i] = u /\ i # k
      BY <2>2, <1>1, <1>2 DEF Flies
    <3>2. CASE i < k
      <4>1. i \in 1..Len(flying) - 1
        BY <3>2, <1>1
      <4>2. flying'[i] = u
        BY <3>1, <3>2, <4>1, <1>5
      <4> QED BY <4>1, <4>2, <1>6 DEF Flies
    <3>3. CASE i > k
      <4>1. i - 1 \in 1..Len(flying) - 1 /\ ~(i - 1 < k) /\ (i - 1) + 1 = i
        BY <3>3, <1>1
      <4>2. flying'[i - 1] = u
        BY <3>1, <4>1, <1>5
      <4> QED BY <4>1, <4>2, <1>6 DEF Flies
    <3> QED BY <3>1, <3>2, <3>3, <1>1
  <2> QED BY <2>1, <2>2
<1>9. ListInv'
  <2>1. ASSUME NEW i \in DOMAIN flying', NEW j \in DOMAIN flying', i < j
        PROVE /\ flying'[i] # flying'[j]
              /\ Before(timeout'[flying'[i]], timeout'[flying'[j]])
    <3>1. i \in 1..Len(flying) - 1 /\ j \in 1..Len(flying) - 1 /\ i \in Int /\ j \in Int /\ k \in Int
      BY <1>1, <1>6
    <3>2. CASE j < k
      <4>1. flying'[i] = flying[i] /\ flying'[j] = flying[j] /\ i \in DOMAIN flying /\ j \in DOMAIN flying
        BY <3>1, <3>2, <2>1, <1>1, <1>5
      <4> QED BY <4>1, <1>3, <2>1, <3>1 DEF ListInv
    <3>3. CASE i < k /\ j >= k
      <4>1. /\ flying'[i] = flying[i] /\ flying'[j] = flying[j + 1]
            /\ i \in DOMAIN flying /\ j + 1 \in DOMAIN flying /\ i < j + 1 /\ i # j + 1
        BY <3>1, <3>3, <1>1, <1>5
      <4> QED BY <4>1, <1>3 DEF ListInv
    <3>4. CASE i >= k
      <4>1. /\ flying'[i] = flying[i + 1] /\ flying'[j] = flying[j + 1] /\ i + 1 \in DOMAIN flying
            /\ j + 1 \in DOMAIN flying /\ i + 1 < j + 1 /\ i + 1 # j + 1
        BY <3>1, <3>4, <2>1, <1>1, <1>5
      <4> QED BY <4>1, <1>3 DEF ListInv
    <3> QED BY <3>1, <3>2, <3>3, <3>4, <2>1
  <2>2. ASSUME NEW i \in DOMAIN flying', NEW j \in DOMAIN flying', flying'[i] = flying'[j]
        PROVE i = j
    <3>1. i \in Int /\ j \in Int
      BY <1>1, <1>6
    <3> QED BY <2>1, <2>2, <3>1
  <2> QED BY <2>1, <2>2 DEF ListInv
<1> QED BY <1>2, <1>5, <1>6, <1>7, <1>8, <1>9

(* What libusb_cancel_transfer() does, whatever its result.                *)
LEMMA Cancelling ==
  ASSUME TransferTypeOK, NEW t \in Transfers, NEW r \in Results, CancelTransfer(t, r)
  PROVE /\ state_flags' \in [Transfers -> SUBSET {"IN_FLIGHT", "CANCELLING", "DISAPPEARED"}]
        /\ urb' \in [Transfers -> {"none", "queued", "done", "discarded"}]
        /\ \A u \in Transfers : u # t => state_flags'[u] = state_flags[u] /\ urb'[u] = urb[u]
        /\ "IN_FLIGHT" \in state_flags'[t] <=> "IN_FLIGHT" \in state_flags[t]
        /\ "IN_FLIGHT" \notin state_flags[t] => state_flags' = state_flags
        /\ IF r = "SUCCESS"
           THEN urb[t] = "queued" /\ urb'[t] = "discarded" /\ "IN_FLIGHT" \in state_flags[t]
           ELSE urb'[t] = urb[t]
        /\ OwnLockFree(t)
<1> USE DEF TransferTypeOK, CancelTransfer
<1>1. CASE "IN_FLIGHT" \notin state_flags[t] \/ "CANCELLING" \in state_flags[t]
  BY <1>1
<1>2. CASE ~("IN_FLIGHT" \notin state_flags[t] \/ "CANCELLING" \in state_flags[t])
  <2> DEFINE new == IF r = "NO_DEVICE" THEN {"DISAPPEARED"} ELSE {}
  <2>1. /\ state_flags' = [state_flags EXCEPT ![t] = @ \cup {"CANCELLING"} \cup new]
        /\ new \subseteq {"DISAPPEARED"}
    BY <1>2
  <2>2. /\ urb' = IF r = "SUCCESS" THEN [urb EXCEPT ![t] = "discarded"] ELSE urb
        /\ r = "SUCCESS" => urb[t] = "queued"
    BY <1>2
  <2> HIDE DEF new
  <2> QED BY <1>2, <2>1, <2>2
<1> QED BY <1>1, <1>2

(* A timer that is armed for the next deadline covers the whole list.      *)
LEMMA NextCovers ==
  ASSUME TransferTypeOK, NEW list \in Seq(Transfers),
         \A i, j \in DOMAIN list : i < j => Before(timeout[list[i]], timeout[list[j]]),
         NEW i \in DOMAIN list, timeout[list[i]] # 0,
         "HANDLED" \notin timeout_flags[list[i]]
  PROVE NextDeadline(list) \in 1..timeout[list[i]]
<1>1. DOMAIN list \subseteq Nat /\ \A j \in DOMAIN list : timeout[list[j]] \in Nat
  <2>1. DOMAIN list = 1..Len(list) /\ Len(list) \in Nat
    BY LenProperties
  <2>2. \A j \in DOMAIN list : list[j] \in Transfers
    BY <2>1, ElementOfSeq
  <2> QED BY <2>1, <2>2 DEF TransferTypeOK
<1>2. PICK m \in DOMAIN list :
        /\ \A j \in DOMAIN list : j < m => "HANDLED" \in timeout_flags[list[j]]
        /\ NextDeadline(list) = timeout[list[m]]
  BY NextDeadlineIs
<1>3. m = i \/ m < i
  BY <1>1, <1>2
<1>4. m = i \/ Before(timeout[list[m]], timeout[list[i]])
  BY <1>3
<1> QED BY <1>1, <1>2, <1>4 DEF Before

(* The timer still covers the list when a transfer was added or removed.   *)
LEMMA CoveredAfterAdding ==
  ASSUME TransferTypeOK, ListInv, NEW t \in Transfers, ~Flies(t), NEW d \in Nat,
         AddToFlying(t, d), using_timerfd, Covered,
         \A u \in Transfers : u # t => timeout_flags'[u] = timeout_flags[u]
  PROVE Covered'
<1> DEFINE k == Place(d)
<1>1. /\ Len(flying) \in Nat /\ DOMAIN flying = 1..Len(flying)
      /\ \A i \in DOMAIN flying : flying[i] \in Transfers /\ timeout[flying[i]] \in Nat
  BY ListType
<1>2. /\ k \in 1..Len(flying) + 1
      /\ \A i \in DOMAIN flying : i < k => Before(timeout[flying[i]], d) \/ d = 0
      /\ \A i \in DOMAIN flying : i >= k => Before(d, timeout[flying[i]]) /\ d # 0
  BY PlaceIs
<1>3. /\ \A i \in DOMAIN flying' :
           flying'[i] = IF i < k THEN flying[i] ELSE IF i = k THEN t ELSE flying[i - 1]
      /\ DOMAIN flying' = 1..Len(flying) + 1
  BY Adding
<1>4. /\ timeout'[t] = d /\ \A u \in Transfers : u # t => timeout'[u] = timeout[u]
      /\ timer' = IF k = 1 /\ d # 0 THEN d ELSE timer
  BY DEF AddToFlying, TransferTypeOK
<1>5. \A i \in DOMAIN flying :
        /\ flying[i] # t /\ timeout'[flying[i]] = timeout[flying[i]]
        /\ timeout_flags'[flying[i]] = timeout_flags[flying[i]]
  BY <1>1, <1>4 DEF Flies
<1> HIDE DEF k
<1> SUFFICES ASSUME NEW i \in DOMAIN flying',
                    timeout'[flying'[i]] # 0, "HANDLED" \notin timeout_flags'[flying'[i]]
             PROVE timer' \in 1..timeout'[flying'[i]] \/ "HANDLED" \in timeout_flags'[flying'[1]]
  BY DEF Covered
<1>6. i \in 1..Len(flying) + 1 /\ i \in Int /\ k \in Int
  BY <1>1, <1>2, <1>3
<1>7. CASE k = 1 /\ d # 0
  <2>1. CASE i = 1
    BY <1>3, <1>4, <1>6, <1>7, <2>1
  <2>2. CASE i # 1
    <3>1. i - 1 \in DOMAIN flying /\ flying'[i] = flying[i - 1] /\ i - 1 >= k
      BY <1>1, <1>3, <1>6, <1>7, <2>2
    <3>2. timeout'[flying'[i]] = timeout[flying[i - 1]] /\ timeout[flying[i - 1]] \in Nat
      BY <1>1, <1>5, <3>1
    <3>3. Before(d, timeout[flying[i - 1]])
      BY <1>2, <3>1
    <3> QED BY <1>4, <1>7, <3>2, <3>3 DEF Before
  <2> QED BY <2>1, <2>2
<1>8. CASE k = 1 /\ d = 0
  <2>1. ~(1 \in DOMAIN flying)
    BY <1>2, <1>8
  <2>2. i = 1
    BY <1>1, <1>6, <2>1
  <2> QED BY <1>3, <1>4, <1>6, <1>8, <2>2
<1>9. CASE k # 1
  <2>1. 1 \in DOMAIN flying /\ 1 \in DOMAIN flying' /\ flying'[1] = flying[1] /\ timer' = timer
    BY <1>1, <1>2, <1>3, <1>4, <1>6, <1>9
  <2>2. timeout_flags'[flying'[1]] = timeout_flags[flying[1]]
    BY <2>1, <1>5
  <2>3. CASE i = k
    <3>1. flying'[i] = t /\ timeout'[flying'[i]] = d /\ d # 0
      BY <1>3, <1>4, <1>6, <2>3
    <3>2. Before(timeout[flying[1]], d)
      BY <1>2, <1>6, <1>9, <2>1, <3>1
    <3>3. timeout[flying[1]] # 0 /\ timeout[flying[1]] <= d
      BY <3>1, <3>2 DEF Before
    <3>4. timer \in 1..timeout[flying[1]] \/ "HANDLED" \in timeout_flags[flying[1]]
      BY <2>1, <3>3 DEF Covered
    <3>5. timer \in 1..timeout[flying[1]] => timer \in 1..d
      BY <1>1, <2>1, <3>3
    <3> QED BY <2>1, <2>2, <3>1, <3>4, <3>5
  <2>4. CASE i # k
    <3>1. PICK j \in DOMAIN flying : flying'[i] = flying[j]
      <4>1. CASE i < k
        BY <1>1, <1>2, <1>3, <1>6, <4>1
      <4>2. CASE i > k
        <5>1. i - 1 \in DOMAIN flying /\ flying'[i] = flying[i - 1]
          BY <1>1, <1>2, <1>3, <1>6, <4>2
        <5> QED BY <5>1
      <4> QED BY <1>6, <2>4, <4>1, <4>2
    <3>2. /\ timeout'[flying'[i]] = timeout[flying[j]]
          /\ timeout_flags'[flying'[i]] = timeout_flags[flying[j]]
      BY <1>5, <3>1
    <3>3. timer \in 1..timeout[flying[j]] \/ "HANDLED" \in timeout_flags[flying[1]]
      BY <3>2 DEF Covered
    <3> QED BY <2>1, <2>2, <3>2, <3>3
  <2> QED BY <2>3, <2>4
<1> QED BY <1>7, <1>8, <1>9

LEMMA CoveredAfterRemoving ==
  ASSUME TransferTypeOK, ListInv, NEW t \in Transfers, Flies(t), RemoveFromFlying(t),
         using_timerfd, Covered, UNCHANGED timeout_flags
  PROVE Covered'
<1>1. /\ Len(flying) \in Nat /\ DOMAIN flying = 1..Len(flying)
      /\ \A i \in DOMAIN flying : flying[i] \in Transfers /\ timeout[flying[i]] \in Nat
  BY ListType
<1>2. /\ flying' \in Seq(Transfers) /\ ListInv' /\ DOMAIN flying' = 1..Len(flying) - 1
      /\ \E k \in DOMAIN flying :
           /\ flying[k] = t
           /\ \A i \in DOMAIN flying' : flying'[i] = IF i < k THEN flying[i] ELSE flying[i + 1]
  BY Removing
<1>3. PICK k \in DOMAIN flying :
        /\ flying[k] = t
        /\ \A i \in DOMAIN flying' : flying'[i] = IF i < k THEN flying[i] ELSE flying[i + 1]
  BY <1>2
<1>4. /\ UNCHANGED timeout
      /\ timer' = IF timeout[t] # 0 /\ Head(flying) = t THEN NextDeadline(flying') ELSE timer
  BY DEF RemoveFromFlying
<1>5. Head(flying) = flying[1] /\ 1 \in DOMAIN flying
  <2>1. flying # <<>>
    BY <1>1, EmptySeq
  <2>2. 1 \in DOMAIN flying
    BY <1>1
  <2> QED BY <2>1, <2>2, HeadTailProperties DEF TransferTypeOK
<1> SUFFICES ASSUME NEW i \in DOMAIN flying',
                    timeout[flying'[i]] # 0, "HANDLED" \notin timeout_flags[flying'[i]]
             PROVE timer' \in 1..timeout[flying'[i]] \/ "HANDLED" \in timeout_flags[flying'[1]]
  BY <1>4 DEF Covered
<1>6. i \in 1..Len(flying) - 1 /\ i \in Int /\ k \in Int
  BY <1>1, <1>2
<1>7. PICK j \in DOMAIN flying : flying'[i] = flying[j] /\ (j = 1 => k # 1)
  <2>1. CASE i < k
    BY <1>1, <1>3, <1>6, <2>1
  <2>2. CASE ~(i < k)
    <3>1. i + 1 \in DOMAIN flying /\ flying'[i] = flying[i + 1] /\ i + 1 # 1
      BY <1>1, <1>3, <1>6, <2>2
    <3> QED BY <3>1
  <2> QED BY <2>1, <2>2
<1>8. CASE timeout[t] # 0 /\ Head(flying) = t
  <2>1. \A x, y \in DOMAIN flying' : x < y => Before(timeout[flying'[x]], timeout[flying'[y]])
    BY <1>2, <1>4 DEF ListInv
  <2>2. NextDeadline(flying') \in 1..timeout[flying'[i]]
    BY <1>2, <2>1, NextCovers
  <2> QED BY <1>4, <1>8, <2>2
<1>9. CASE Head(flying) # t
  <2>1. k # 1 /\ 1 < k /\ 1 \in DOMAIN flying'
    BY <1>1, <1>2, <1>3, <1>5, <1>6, <1>9
  <2>2. flying'[1] = flying[1] /\ timer' = timer
    BY <1>3, <1>4, <1>9, <2>1
  <2>3. timer \in 1..timeout[flying[j]] \/ "HANDLED" \in timeout_flags[flying[1]]
    BY <1>7 DEF Covered
  <2> QED BY <1>7, <2>2, <2>3
<1>10. CASE timeout[t] = 0 /\ Head(flying) = t
  <2>1. k = 1
    BY <1>3, <1>5, <1>10 DEF ListInv
  <2>2. 1 < j
    BY <1>1, <1>7, <2>1
  <2>3. Before(timeout[flying[1]], timeout[flying[j]])
    BY <1>5, <2>2 DEF ListInv
  <2> QED BY <1>5, <1>7, <1>10, <2>3 DEF Before
<1> QED BY <1>8, <1>9, <1>10

-----------------------------------------------------------------------------
(* Every step keeps the invariant.                                         *)

(* The kinds of step there are.                                            *)
LEMMA Steps ==
  ASSUME [TransferNext]_vars
  PROVE \/ \E t \in Transfers : \/ Submit(t) \/ SubmitRefused(t) \/ Cancel(t) \/ BackendAccepts(t) \/ Submitted(t)
                                 \/ BackendFails(t) \/ SubmitFailed(t) \/ Reap(t) \/ DeviceAnswers(t) \/ ScanCancels(t)
        \/ ScanStarts \/ ScanMarks \/ ScanEnds \/ TimerFires \/ Cancellation \/ CompletionRemoves \/ CompletionClears
        \/ Callback \/ Detach \/ DisconnectOne \/ Disconnected \/ Tick \/ Unplug \/ UNCHANGED vars
BY DEF TransferNext, User, Submission, Scan, Completion, Disconnect

LEMMA TypeStep == ASSUME TransferInv, [TransferNext]_vars PROVE TransferTypeOK'
<1> USE UsbTransferAssumption DEF TransferInv, TransferTypeOK
<1>1. ASSUME NEW t \in Transfers, Submit(t) PROVE TransferTypeOK'
  <2>1. ~Flies(t) /\ Deadline(t) \in Nat
    BY <1>1 DEF Submit, LifeInv, AtRest, Deadline
  <2>2. flying' \in Seq(Transfers) /\ timeout' \in [Transfers -> Nat] /\ timer' \in Nat
    BY <1>1, <2>1, Adding DEF Submit
  <2>3. submits' \in 0..MaxSubmits
    BY <1>1 DEF Submit
  <2> QED BY <1>1, <2>2, <2>3 DEF Submit, flagVars, worldVars, handlerVars, history
<1>2. ASSUME NEW t \in Transfers, SubmitRefused(t) PROVE TransferTypeOK'
  BY <1>2 DEF SubmitRefused, listVars, flagVars, worldVars, handlerVars, history
<1>3. ASSUME NEW t \in Transfers, Cancel(t) PROVE TransferTypeOK'
  <2>1. PICK r \in Results :
          CancelTransfer(t, r) /\ cancelled' = IF r = "SUCCESS" THEN cancelled \cup {t} ELSE cancelled
    BY <1>3 DEF Cancel
  <2>2. /\ state_flags' \in [Transfers -> SUBSET {"IN_FLIGHT", "CANCELLING", "DISAPPEARED"}]
        /\ urb' \in [Transfers -> {"none", "queued", "done", "discarded"}]
        /\ r = "SUCCESS" => urb[t] = "queued" /\ "IN_FLIGHT" \in state_flags[t]
        /\ OwnLockFree(t)
    BY <2>1, Cancelling
  <2>3. r = "SUCCESS" => t \in pending
    BY <2>2 DEF LifeInv, Submitting, AtRest, OwnLockFree
  <2>4. cancelled' \subseteq pending
    BY <2>1, <2>3
  <2> QED BY <1>3, <2>2, <2>4 DEF Cancel, listVars, flagVars, worldVars, handlerVars,
          history
<1>4. ASSUME NEW t \in Transfers, BackendAccepts(t) PROVE TransferTypeOK'
  BY <1>4 DEF BackendAccepts, listVars, flagVars, worldVars, handlerVars, history
<1>5. ASSUME NEW t \in Transfers, Submitted(t) PROVE TransferTypeOK'
  BY <1>5 DEF Submitted, listVars, flagVars, worldVars, handlerVars, history
<1>6. ASSUME NEW t \in Transfers, BackendFails(t) PROVE TransferTypeOK'
  BY <1>6 DEF BackendFails, listVars, flagVars, worldVars, handlerVars, history
<1>7. ASSUME NEW t \in Transfers, SubmitFailed(t) PROVE TransferTypeOK'
  <2>1. Flies(t)
    BY <1>7 DEF SubmitFailed, LifeInv, Submitting
  <2>2. flying' \in Seq(Transfers) /\ timer' \in Nat /\ timeout' = timeout
    BY <1>7, <2>1, Removing DEF SubmitFailed, RemoveFromFlying
  <2> QED BY <1>7, <2>2 DEF SubmitFailed, flagVars, worldVars, handlerVars, history
<1>8. ASSUME NEW t \in Transfers, Reap(t) PROVE TransferTypeOK'
  BY <1>8 DEF Reap, listVars, flagVars, worldVars, handlerVars, history, Statuses
<1>9. ASSUME NEW t \in Transfers, DeviceAnswers(t) PROVE TransferTypeOK'
  BY <1>9 DEF DeviceAnswers, listVars, flagVars, worldVars, handlerVars, history
<1>10. ASSUME ScanStarts PROVE TransferTypeOK'
  BY <1>10 DEF ScanStarts, listVars, flagVars, worldVars, handlerVars, history
<1>11. ASSUME NEW t \in Transfers, ScanCancels(t) PROVE TransferTypeOK'
  <2>1. PICK r \in Results :
          CancelTransfer(t, r) /\ timing' = IF r = "SUCCESS" THEN t ELSE None
    BY <1>11 DEF ScanCancels
  <2>2. /\ state_flags' \in [Transfers -> SUBSET {"IN_FLIGHT", "CANCELLING", "DISAPPEARED"}]
        /\ urb' \in [Transfers -> {"none", "queued", "done", "discarded"}]
    BY <2>1, Cancelling
  <2>3. timing' \in Transfers \cup {None}
    BY <2>1
  <2> QED BY <1>11, <2>2, <2>3 DEF ScanCancels, listVars, flagVars, worldVars,
          handlerVars, history
<1>12. ASSUME ScanMarks PROVE TransferTypeOK'
  BY <1>12 DEF ScanMarks, listVars, flagVars, worldVars, handlerVars, history
<1>13. ASSUME ScanEnds PROVE TransferTypeOK'
  <2>1. timer' \in Nat
    BY <1>13, NextDeadlineIs DEF ScanEnds
  <2> QED BY <1>13, <2>1 DEF ScanEnds, listVars, flagVars, worldVars, handlerVars, history
<1>14. ASSUME TimerFires PROVE TransferTypeOK'
  BY <1>14 DEF TimerFires, listVars, flagVars, worldVars, handlerVars, history
<1>15. ASSUME Cancellation PROVE TransferTypeOK'
  BY <1>15 DEF Cancellation, listVars, flagVars, worldVars, handlerVars, history, Statuses
<1>16. ASSUME CompletionRemoves PROVE TransferTypeOK'
  <2>1. handled \in Transfers /\ Flies(handled)
    BY <1>16 DEF CompletionRemoves, HandlerInv, LifeInv, Completing
  <2>2. flying' \in Seq(Transfers) /\ timer' \in Nat /\ timeout' = timeout
    BY <1>16, <2>1, Removing DEF CompletionRemoves, RemoveFromFlying
  <2> QED BY <1>16, <2>2 DEF CompletionRemoves, flagVars, worldVars, handlerVars, history
<1>17. ASSUME CompletionClears PROVE TransferTypeOK'
  BY <1>17 DEF CompletionClears, listVars, flagVars, worldVars, handlerVars, history
<1>18. ASSUME Callback PROVE TransferTypeOK'
  BY <1>18 DEF Callback, listVars, flagVars, worldVars, handlerVars, history
<1>19. ASSUME Detach PROVE TransferTypeOK'
  BY <1>19 DEF Detach, listVars, flagVars, worldVars, handlerVars, history
<1>20. ASSUME DisconnectOne PROVE TransferTypeOK'
  <2>1. PICK i \in DOMAIN flying :
           handled' = flying[i] /\ urb' = [urb EXCEPT ![flying[i]] = "none"]
    BY <1>20 DEF DisconnectOne
  <2>2. flying[i] \in Transfers
    BY ListType
  <2> QED BY <1>20, <2>1, <2>2 DEF DisconnectOne, listVars, flagVars, worldVars,
          handlerVars, history, Statuses
<1>21. ASSUME Disconnected PROVE TransferTypeOK'
  BY <1>21 DEF Disconnected, listVars, flagVars, worldVars, handlerVars, history
<1>22. ASSUME Tick PROVE TransferTypeOK'
  BY <1>22 DEF Tick, listVars, flagVars, worldVars, handlerVars, history
<1>23. ASSUME Unplug PROVE TransferTypeOK'
  BY <1>23 DEF Unplug, listVars, flagVars, worldVars, handlerVars, history
<1>24. CASE UNCHANGED vars
  BY <1>24 DEF vars, listVars, flagVars, worldVars, handlerVars, history
<1> QED
  BY Steps, <1>1, <1>2, <1>3, <1>4, <1>5, <1>6, <1>7, <1>8, <1>9, <1>10, <1>11, <1>12,
      <1>13,
     <1>14, <1>15, <1>16, <1>17, <1>18, <1>19, <1>20, <1>21, <1>22, <1>23, <1>24

LEMMA ListStep == ASSUME TransferInv, [TransferNext]_vars PROVE ListInv'
<1> USE DEF TransferInv
<1>1. ASSUME NEW t \in Transfers, Submit(t) PROVE ListInv'
  <2>1. ~Flies(t) /\ Deadline(t) \in Nat
    BY <1>1 DEF Submit, LifeInv, AtRest, Deadline, TransferTypeOK
  <2> QED BY <1>1, <2>1, Adding DEF Submit
<1>2. ASSUME NEW t \in Transfers, SubmitRefused(t) PROVE ListInv'
  BY <1>2 DEF SubmitRefused, listVars, ListInv
<1>3. ASSUME NEW t \in Transfers, Cancel(t) PROVE ListInv'
  BY <1>3 DEF Cancel, listVars, ListInv
<1>4. ASSUME NEW t \in Transfers, BackendAccepts(t) PROVE ListInv'
  BY <1>4 DEF BackendAccepts, listVars, ListInv
<1>5. ASSUME NEW t \in Transfers, Submitted(t) PROVE ListInv'
  BY <1>5 DEF Submitted, listVars, ListInv
<1>6. ASSUME NEW t \in Transfers, BackendFails(t) PROVE ListInv'
  BY <1>6 DEF BackendFails, listVars, ListInv
<1>7. ASSUME NEW t \in Transfers, SubmitFailed(t) PROVE ListInv'
  <2>1. Flies(t)
    BY <1>7 DEF SubmitFailed, LifeInv, Submitting
  <2> QED BY <1>7, <2>1, Removing DEF SubmitFailed
<1>8. ASSUME NEW t \in Transfers, Reap(t) PROVE ListInv'
  BY <1>8 DEF Reap, listVars, ListInv
<1>9. ASSUME NEW t \in Transfers, DeviceAnswers(t) PROVE ListInv'
  BY <1>9 DEF DeviceAnswers, listVars, ListInv
<1>10. ASSUME ScanStarts PROVE ListInv'
  BY <1>10 DEF ScanStarts, listVars, ListInv
<1>11. ASSUME NEW t \in Transfers, ScanCancels(t) PROVE ListInv'
  BY <1>11 DEF ScanCancels, listVars, ListInv
<1>12. ASSUME ScanMarks PROVE ListInv'
  BY <1>12 DEF ScanMarks, listVars, ListInv
<1>13. ASSUME ScanEnds PROVE ListInv'
  BY <1>13 DEF ScanEnds, listVars, ListInv
<1>14. ASSUME TimerFires PROVE ListInv'
  BY <1>14 DEF TimerFires, listVars, ListInv
<1>15. ASSUME Cancellation PROVE ListInv'
  BY <1>15 DEF Cancellation, listVars, ListInv
<1>16. ASSUME CompletionRemoves PROVE ListInv'
  <2>1. handled \in Transfers /\ Flies(handled)
    BY <1>16 DEF CompletionRemoves, HandlerInv, LifeInv, Completing, TransferTypeOK
  <2> QED BY <1>16, <2>1, Removing DEF CompletionRemoves
<1>17. ASSUME CompletionClears PROVE ListInv'
  BY <1>17 DEF CompletionClears, listVars, ListInv
<1>18. ASSUME Callback PROVE ListInv'
  BY <1>18 DEF Callback, listVars, ListInv
<1>19. ASSUME Detach PROVE ListInv'
  BY <1>19 DEF Detach, listVars, ListInv
<1>20. ASSUME DisconnectOne PROVE ListInv'
  BY <1>20 DEF DisconnectOne, listVars, ListInv
<1>21. ASSUME Disconnected PROVE ListInv'
  BY <1>21 DEF Disconnected, listVars, ListInv
<1>22. ASSUME Tick PROVE ListInv'
  BY <1>22 DEF Tick, listVars, ListInv
<1>23. ASSUME Unplug PROVE ListInv'
  BY <1>23 DEF Unplug, listVars, ListInv
<1>24. CASE UNCHANGED vars
  BY <1>24 DEF vars, listVars, ListInv
<1> QED
  BY Steps, <1>1, <1>2, <1>3, <1>4, <1>5, <1>6, <1>7, <1>8, <1>9, <1>10, <1>11, <1>12,
      <1>13,
     <1>14, <1>15, <1>16, <1>17, <1>18, <1>19, <1>20, <1>21, <1>22, <1>23, <1>24

LEMMA LifeStep == ASSUME TransferInv, [TransferNext]_vars PROVE LifeInv'
<1> USE UsbTransferAssumption DEF TransferInv, TransferTypeOK
<1>1. ASSUME NEW t \in Transfers, Submit(t) PROVE LifeInv'
  <2>1. ~Flies(t) /\ Deadline(t) \in Nat
    BY <1>1 DEF Submit, LifeInv, AtRest, Deadline
  <2>2. \A u \in Transfers : Flies(u)' <=> Flies(u) \/ u = t
    BY <1>1, <2>1, Adding DEF Submit
  <2> QED BY <1>1, <2>2 DEF Submit, flagVars, handlerVars, LifeInv, Submitting,
          Accepted, AtRest, InFlight, Completing
<1>2. ASSUME NEW t \in Transfers, SubmitRefused(t) PROVE LifeInv'
  <2>1. \A u \in Transfers : Flies(u)' <=> Flies(u)
    BY <1>2 DEF SubmitRefused, listVars, Flies
  <2> QED BY <1>2, <2>1 DEF SubmitRefused, listVars, flagVars, handlerVars, history,
          LifeInv, Submitting, Accepted, AtRest, InFlight, Completing
<1>3. ASSUME NEW t \in Transfers, Cancel(t) PROVE LifeInv'
  <2>1. \A u \in Transfers : Flies(u)' <=> Flies(u)
    BY <1>3 DEF Cancel, listVars, Flies
  <2>2. PICK r \in Results : CancelTransfer(t, r)
    BY <1>3 DEF Cancel
  <2>3. /\ \A u \in Transfers : u # t => state_flags'[u] = state_flags[u] /\ urb'[u] = urb[u]
        /\ "IN_FLIGHT" \in state_flags'[t] <=> "IN_FLIGHT" \in state_flags[t]
        /\ "IN_FLIGHT" \notin state_flags[t] => state_flags' = state_flags /\ urb'[t] = urb[t]
        /\ urb'[t] = urb[t] \/ (urb[t] = "queued" /\ urb'[t] = "discarded")
        /\ OwnLockFree(t)
    BY <2>2, Cancelling
  <2>4. UNCHANGED <<submitting, pending, handled, handler>>
    BY <1>3 DEF Cancel, handlerVars, history
  <2> QED BY <2>1, <2>3, <2>4 DEF OwnLockFree, LifeInv, Submitting, Accepted, AtRest,
          InFlight, Completing
<1>4. ASSUME NEW t \in Transfers, BackendAccepts(t) PROVE LifeInv'
  <2>1. \A u \in Transfers : Flies(u)' <=> Flies(u)
    BY <1>4 DEF BackendAccepts, listVars, Flies
  <2> QED BY <1>4, <2>1 DEF BackendAccepts, listVars, flagVars, handlerVars, history,
          LifeInv, Submitting, Accepted, AtRest, InFlight, Completing
<1>5. ASSUME NEW t \in Transfers, Submitted(t) PROVE LifeInv'
  <2>1. \A u \in Transfers : Flies(u)' <=> Flies(u)
    BY <1>5 DEF Submitted, listVars, Flies
  <2> QED BY <1>5, <2>1 DEF Submitted, listVars, flagVars, handlerVars, history,
          LifeInv, Submitting, Accepted, AtRest, InFlight, Completing
<1>6. ASSUME NEW t \in Transfers, BackendFails(t) PROVE LifeInv'
  <2>1. \A u \in Transfers : Flies(u)' <=> Flies(u)
    BY <1>6 DEF BackendFails, listVars, Flies
  <2> QED BY <1>6, <2>1 DEF BackendFails, listVars, flagVars, handlerVars, history,
          LifeInv, Submitting, Accepted, AtRest, InFlight, Completing
<1>7. ASSUME NEW t \in Transfers, SubmitFailed(t) PROVE LifeInv'
  <2>1. Flies(t)
    BY <1>7 DEF SubmitFailed, LifeInv, Submitting
  <2>2. \A u \in Transfers : Flies(u)' <=> Flies(u) /\ u # t
    BY <1>7, <2>1, Removing DEF SubmitFailed
  <2> QED BY <1>7, <2>2 DEF SubmitFailed, handlerVars, history, LifeInv, Submitting,
          Accepted, AtRest, InFlight, Completing
<1>8. ASSUME NEW t \in Transfers, Reap(t) PROVE LifeInv'
  <2>1. \A u \in Transfers : Flies(u)' <=> Flies(u)
    BY <1>8 DEF Reap, listVars, Flies
  <2> QED BY <1>8, <2>1 DEF Reap, listVars, flagVars, handlerVars, history, LifeInv,
          Submitting, Accepted, AtRest, InFlight, Completing, HandlerInv, OwnLockFree
<1>9. ASSUME NEW t \in Transfers, DeviceAnswers(t) PROVE LifeInv'
  <2>1. \A u \in Transfers : Flies(u)' <=> Flies(u)
    BY <1>9 DEF DeviceAnswers, listVars, Flies
  <2> QED BY <1>9, <2>1 DEF DeviceAnswers, listVars, flagVars, handlerVars, history,
          LifeInv, Submitting, Accepted, AtRest, InFlight, Completing
<1>10. ASSUME ScanStarts PROVE LifeInv'
  <2>1. \A u \in Transfers : Flies(u)' <=> Flies(u)
    BY <1>10 DEF ScanStarts, listVars, Flies
  <2> QED BY <1>10, <2>1 DEF ScanStarts, listVars, flagVars, handlerVars, history,
          LifeInv, Submitting, Accepted, AtRest, InFlight, Completing
<1>11. ASSUME NEW t \in Transfers, ScanCancels(t) PROVE LifeInv'
  <2>1. \A u \in Transfers : Flies(u)' <=> Flies(u)
    BY <1>11 DEF ScanCancels, listVars, Flies
  <2>2. PICK r \in Results : CancelTransfer(t, r)
    BY <1>11 DEF ScanCancels
  <2>3. /\ \A u \in Transfers : u # t => state_flags'[u] = state_flags[u] /\ urb'[u] = urb[u]
        /\ "IN_FLIGHT" \in state_flags'[t] <=> "IN_FLIGHT" \in state_flags[t]
        /\ "IN_FLIGHT" \notin state_flags[t] => state_flags' = state_flags /\ urb'[t] = urb[t]
        /\ urb'[t] = urb[t] \/ (urb[t] = "queued" /\ urb'[t] = "discarded")
        /\ OwnLockFree(t)
    BY <2>2, Cancelling
  <2>4. UNCHANGED <<submitting, pending, handled, handler>>
    BY <1>11 DEF ScanCancels, handlerVars, history
  <2> QED BY <2>1, <2>3, <2>4 DEF OwnLockFree, LifeInv, Submitting, Accepted, AtRest,
          InFlight, Completing
<1>12. ASSUME ScanMarks PROVE LifeInv'
  <2>1. \A u \in Transfers : Flies(u)' <=> Flies(u)
    BY <1>12 DEF ScanMarks, listVars, Flies
  <2> QED BY <1>12, <2>1 DEF ScanMarks, listVars, flagVars, handlerVars, history,
          LifeInv, Submitting, Accepted, AtRest, InFlight, Completing
<1>13. ASSUME ScanEnds PROVE LifeInv'
  <2>1. \A u \in Transfers : Flies(u)' <=> Flies(u)
    BY <1>13 DEF ScanEnds, listVars, Flies
  <2> QED BY <1>13, <2>1 DEF ScanEnds, listVars, flagVars, handlerVars, history,
          LifeInv, Submitting, Accepted, AtRest, InFlight, Completing, HandlerInv,
          OwnLockFree
<1>14. ASSUME TimerFires PROVE LifeInv'
  <2>1. \A u \in Transfers : Flies(u)' <=> Flies(u)
    BY <1>14 DEF TimerFires, listVars, Flies
  <2> QED BY <1>14, <2>1 DEF TimerFires, listVars, flagVars, handlerVars, history,
          LifeInv, Submitting, Accepted, AtRest, InFlight, Completing, HandlerInv,
          OwnLockFree
<1>15. ASSUME Cancellation PROVE LifeInv'
  <2>1. \A u \in Transfers : Flies(u)' <=> Flies(u)
    BY <1>15 DEF Cancellation, listVars, Flies
  <2> QED BY <1>15, <2>1 DEF Cancellation, listVars, flagVars, handlerVars, history,
          LifeInv, Submitting, Accepted, AtRest, InFlight, Completing, HandlerInv,
          OwnLockFree
<1>16. ASSUME CompletionRemoves PROVE LifeInv'
  <2>1. handled \in Transfers /\ Flies(handled)
    BY <1>16 DEF CompletionRemoves, HandlerInv, LifeInv, Completing
  <2>2. \A u \in Transfers : Flies(u)' <=> Flies(u) /\ u # handled
    BY <1>16, <2>1, Removing DEF CompletionRemoves
  <2> QED BY <1>16, <2>1, <2>2 DEF CompletionRemoves, flagVars, history, LifeInv,
          Submitting, Accepted, AtRest, InFlight, Completing
<1>17. ASSUME CompletionClears PROVE LifeInv'
  <2>1. \A u \in Transfers : Flies(u)' <=> Flies(u)
    BY <1>17 DEF CompletionClears, listVars, Flies
  <2> QED BY <1>17, <2>1 DEF CompletionClears, listVars, flagVars, handlerVars,
          history, LifeInv, Submitting, Accepted, AtRest, InFlight, Completing,
          HandlerInv, OwnLockFree
<1>18. ASSUME Callback PROVE LifeInv'
  <2>1. \A u \in Transfers : Flies(u)' <=> Flies(u)
    BY <1>18 DEF Callback, listVars, Flies
  <2> QED BY <1>18, <2>1 DEF Callback, listVars, flagVars, handlerVars, history,
          LifeInv, Submitting, Accepted, AtRest, InFlight, Completing, HandlerInv,
          OwnLockFree
<1>19. ASSUME Detach PROVE LifeInv'
  <2>1. \A u \in Transfers : Flies(u)' <=> Flies(u)
    BY <1>19 DEF Detach, listVars, Flies
  <2> QED BY <1>19, <2>1 DEF Detach, listVars, flagVars, handlerVars, history, LifeInv,
          Submitting, Accepted, AtRest, InFlight, Completing, HandlerInv, OwnLockFree
<1>20. ASSUME DisconnectOne PROVE LifeInv'
  <2>0. PICK i \in DOMAIN flying :
          /\ handled' = flying[i] /\ urb' = [urb EXCEPT ![flying[i]] = "none"]
          /\ FirstInFlight(i) /\ \A j \in 1..i : OwnLockFree(flying[j])
    BY <1>20 DEF DisconnectOne
  <2>1. "IN_FLIGHT" \in state_flags[flying[i]] /\ OwnLockFree(flying[i])
    <3>1. i \in 1..i
      BY ListType
    <3> QED BY <2>0, <3>1 DEF FirstInFlight
  <2>2. flying[i] \in Transfers /\ Flies(flying[i])
    BY ListType DEF Flies
  <2>3. \A u \in Transfers : Flies(u)' <=> Flies(u)
    BY <1>20 DEF DisconnectOne, listVars, Flies
  <2> QED BY <1>20, <2>0, <2>1, <2>2, <2>3 DEF DisconnectOne, HandlerInv, OwnLockFree,
          history, LifeInv, Submitting, Accepted, AtRest, InFlight, Completing
<1>21. ASSUME Disconnected PROVE LifeInv'
  <2>1. \A u \in Transfers : Flies(u)' <=> Flies(u)
    BY <1>21 DEF Disconnected, listVars, Flies
  <2> QED BY <1>21, <2>1 DEF Disconnected, listVars, flagVars, handlerVars, history,
          LifeInv, Submitting, Accepted, AtRest, InFlight, Completing, HandlerInv,
          OwnLockFree
<1>22. ASSUME Tick PROVE LifeInv'
  <2>1. \A u \in Transfers : Flies(u)' <=> Flies(u)
    BY <1>22 DEF Tick, listVars, Flies
  <2> QED BY <1>22, <2>1 DEF Tick, listVars, flagVars, handlerVars, history, LifeInv,
          Submitting, Accepted, AtRest, InFlight, Completing
<1>23. ASSUME Unplug PROVE LifeInv'
  <2>1. \A u \in Transfers : Flies(u)' <=> Flies(u)
    BY <1>23 DEF Unplug, listVars, Flies
  <2> QED BY <1>23, <2>1 DEF Unplug, listVars, flagVars, handlerVars, history, LifeInv,
          Submitting, Accepted, AtRest, InFlight, Completing
<1>24. CASE UNCHANGED vars
  <2>1. \A u \in Transfers : Flies(u)' <=> Flies(u)
    BY <1>24 DEF vars, listVars, Flies
  <2> QED BY <1>24, <2>1 DEF vars, listVars, flagVars, handlerVars, history, LifeInv,
          Submitting, Accepted, AtRest, InFlight, Completing
<1> QED
  BY Steps, <1>1, <1>2, <1>3, <1>4, <1>5, <1>6, <1>7, <1>8, <1>9, <1>10, <1>11, <1>12,
      <1>13,
     <1>14, <1>15, <1>16, <1>17, <1>18, <1>19, <1>20, <1>21, <1>22, <1>23, <1>24

LEMMA HandlerStep == ASSUME TransferInv, [TransferNext]_vars PROVE HandlerInv'
<1> USE UsbTransferAssumption DEF TransferInv, TransferTypeOK
<1>1. ASSUME NEW t \in Transfers, Submit(t) PROVE HandlerInv'
  BY <1>1 DEF Submit, worldVars, handlerVars, HandlerInv
<1>2. ASSUME NEW t \in Transfers, SubmitRefused(t) PROVE HandlerInv'
  BY <1>2 DEF SubmitRefused, worldVars, handlerVars, HandlerInv
<1>3. ASSUME NEW t \in Transfers, Cancel(t) PROVE HandlerInv'
  BY <1>3 DEF Cancel, worldVars, handlerVars, HandlerInv
<1>4. ASSUME NEW t \in Transfers, BackendAccepts(t) PROVE HandlerInv'
  BY <1>4 DEF BackendAccepts, worldVars, handlerVars, HandlerInv
<1>5. ASSUME NEW t \in Transfers, Submitted(t) PROVE HandlerInv'
  BY <1>5 DEF Submitted, worldVars, handlerVars, HandlerInv
<1>6. ASSUME NEW t \in Transfers, BackendFails(t) PROVE HandlerInv'
  BY <1>6 DEF BackendFails, worldVars, handlerVars, HandlerInv
<1>7. ASSUME NEW t \in Transfers, SubmitFailed(t) PROVE HandlerInv'
  BY <1>7 DEF SubmitFailed, worldVars, handlerVars, HandlerInv
<1>8. ASSUME NEW t \in Transfers, Reap(t) PROVE HandlerInv'
  BY <1>8 DEF Reap, worldVars, handlerVars, HandlerInv
<1>9. ASSUME NEW t \in Transfers, DeviceAnswers(t) PROVE HandlerInv'
  BY <1>9 DEF DeviceAnswers, worldVars, handlerVars, HandlerInv
<1>10. ASSUME ScanStarts PROVE HandlerInv'
  BY <1>10 DEF ScanStarts, worldVars, handlerVars, HandlerInv
<1>11. ASSUME NEW t \in Transfers, ScanCancels(t) PROVE HandlerInv'
  BY <1>11 DEF ScanCancels, worldVars, handlerVars, HandlerInv
<1>12. ASSUME ScanMarks PROVE HandlerInv'
  BY <1>12 DEF ScanMarks, worldVars, handlerVars, HandlerInv
<1>13. ASSUME ScanEnds PROVE HandlerInv'
  BY <1>13 DEF ScanEnds, worldVars, handlerVars, HandlerInv
<1>14. ASSUME TimerFires PROVE HandlerInv'
  BY <1>14 DEF TimerFires, worldVars, handlerVars, HandlerInv
<1>15. ASSUME Cancellation PROVE HandlerInv'
  BY <1>15 DEF Cancellation, worldVars, handlerVars, HandlerInv
<1>16. ASSUME CompletionRemoves PROVE HandlerInv'
  BY <1>16 DEF CompletionRemoves, worldVars, handlerVars, HandlerInv
<1>17. ASSUME CompletionClears PROVE HandlerInv'
  BY <1>17 DEF CompletionClears, worldVars, handlerVars, HandlerInv
<1>18. ASSUME Callback PROVE HandlerInv'
  BY <1>18 DEF Callback, worldVars, handlerVars, HandlerInv
<1>19. ASSUME Detach PROVE HandlerInv'
  BY <1>19 DEF Detach, worldVars, handlerVars, HandlerInv
<1>20. ASSUME DisconnectOne PROVE HandlerInv'
  <2>1. PICK i \in DOMAIN flying : handled' = flying[i]
    BY <1>20 DEF DisconnectOne
  <2>2. handled' \in Transfers
    BY <2>1, ListType
  <2> QED BY <1>20, <2>2 DEF DisconnectOne, worldVars, HandlerInv
<1>21. ASSUME Disconnected PROVE HandlerInv'
  BY <1>21 DEF Disconnected, worldVars, handlerVars, HandlerInv
<1>22. ASSUME Tick PROVE HandlerInv'
  BY <1>22 DEF Tick, worldVars, handlerVars, HandlerInv
<1>23. ASSUME Unplug PROVE HandlerInv'
  BY <1>23 DEF Unplug, worldVars, handlerVars, HandlerInv
<1>24. CASE UNCHANGED vars
  BY <1>24 DEF vars, worldVars, handlerVars, HandlerInv
<1> QED
  BY Steps, <1>1, <1>2, <1>3, <1>4, <1>5, <1>6, <1>7, <1>8, <1>9, <1>10, <1>11, <1>12,
      <1>13,
     <1>14, <1>15, <1>16, <1>17, <1>18, <1>19, <1>20, <1>21, <1>22, <1>23, <1>24

LEMMA TimeStep == ASSUME TransferInv, [TransferNext]_vars PROVE TimeInv'
<1> USE DEF TransferInv, TransferTypeOK
<1>1. ASSUME NEW t \in Transfers, Submit(t) PROVE TimeInv'
  BY <1>1 DEF Submit, AddToFlying, Deadline, TimeInv
<1>2. ASSUME NEW t \in Transfers, SubmitRefused(t) PROVE TimeInv'
  BY <1>2 DEF SubmitRefused, listVars, history, TimeInv
<1>3. ASSUME NEW t \in Transfers, Cancel(t) PROVE TimeInv'
  BY <1>3 DEF Cancel, listVars, history, TimeInv
<1>4. ASSUME NEW t \in Transfers, BackendAccepts(t) PROVE TimeInv'
  BY <1>4 DEF BackendAccepts, listVars, history, TimeInv
<1>5. ASSUME NEW t \in Transfers, Submitted(t) PROVE TimeInv'
  BY <1>5 DEF Submitted, listVars, history, TimeInv
<1>6. ASSUME NEW t \in Transfers, BackendFails(t) PROVE TimeInv'
  BY <1>6 DEF BackendFails, listVars, history, TimeInv
<1>7. ASSUME NEW t \in Transfers, SubmitFailed(t) PROVE TimeInv'
  BY <1>7 DEF SubmitFailed, RemoveFromFlying, history, TimeInv
<1>8. ASSUME NEW t \in Transfers, Reap(t) PROVE TimeInv'
  BY <1>8 DEF Reap, listVars, history, TimeInv
<1>9. ASSUME NEW t \in Transfers, DeviceAnswers(t) PROVE TimeInv'
  BY <1>9 DEF DeviceAnswers, listVars, history, TimeInv
<1>10. ASSUME ScanStarts PROVE TimeInv'
  BY <1>10 DEF ScanStarts, listVars, history, TimeInv
<1>11. ASSUME NEW t \in Transfers, ScanCancels(t) PROVE TimeInv'
  BY <1>11 DEF ScanCancels, listVars, history, TimeInv
<1>12. ASSUME ScanMarks PROVE TimeInv'
  BY <1>12 DEF ScanMarks, listVars, history, TimeInv
<1>13. ASSUME ScanEnds PROVE TimeInv'
  BY <1>13 DEF ScanEnds, listVars, history, TimeInv
<1>14. ASSUME TimerFires PROVE TimeInv'
  BY <1>14 DEF TimerFires, listVars, history, TimeInv
<1>15. ASSUME Cancellation PROVE TimeInv'
  BY <1>15 DEF Cancellation, listVars, history, TimeInv
<1>16. ASSUME CompletionRemoves PROVE TimeInv'
  BY <1>16 DEF CompletionRemoves, RemoveFromFlying, history, TimeInv
<1>17. ASSUME CompletionClears PROVE TimeInv'
  BY <1>17 DEF CompletionClears, listVars, history, TimeInv
<1>18. ASSUME Callback PROVE TimeInv'
  BY <1>18 DEF Callback, listVars, history, TimeInv
<1>19. ASSUME Detach PROVE TimeInv'
  BY <1>19 DEF Detach, listVars, history, TimeInv
<1>20. ASSUME DisconnectOne PROVE TimeInv'
  BY <1>20 DEF DisconnectOne, listVars, history, TimeInv
<1>21. ASSUME Disconnected PROVE TimeInv'
  BY <1>21 DEF Disconnected, listVars, history, TimeInv
<1>22. ASSUME Tick PROVE TimeInv'
  BY <1>22 DEF Tick, listVars, history, TimeInv
<1>23. ASSUME Unplug PROVE TimeInv'
  BY <1>23 DEF Unplug, listVars, history, TimeInv
<1>24. CASE UNCHANGED vars
  BY <1>24 DEF vars, listVars, history, TimeInv
<1> QED
  BY Steps, <1>1, <1>2, <1>3, <1>4, <1>5, <1>6, <1>7, <1>8, <1>9, <1>10, <1>11, <1>12,
      <1>13,
     <1>14, <1>15, <1>16, <1>17, <1>18, <1>19, <1>20, <1>21, <1>22, <1>23, <1>24

LEMMA TimerStep == ASSUME TransferInv, [TransferNext]_vars PROVE TimerInv'
<1> USE DEF TransferInv
<1>1. ASSUME NEW t \in Transfers, Submit(t) PROVE TimerInv'
  <2>1. ~Flies(t) /\ Deadline(t) \in Nat
    BY <1>1 DEF Submit, LifeInv, AtRest, Deadline, TransferTypeOK
  <2>2. /\ AddToFlying(t, Deadline(t)) /\ UNCHANGED <<using_timerfd, handler>>
        /\ \A u \in Transfers : u # t => timeout_flags'[u] = timeout_flags[u]
    BY <1>1 DEF Submit, worldVars, handlerVars, TransferTypeOK
  <2> QED BY <2>1, <2>2, CoveredAfterAdding DEF TimerInv
<1>2. ASSUME NEW t \in Transfers, SubmitRefused(t) PROVE TimerInv'
  <2>1. ~Flies(t)
    BY <1>2 DEF SubmitRefused, LifeInv, AtRest
  <2>2. \A i \in DOMAIN flying : timeout_flags'[flying[i]] = timeout_flags[flying[i]]
    BY <1>2, <2>1, ListType DEF SubmitRefused, Flies, TransferTypeOK
  <2>3. Covered => 1 \in DOMAIN flying \/ DOMAIN flying = {}
    BY ListType
  <2> QED BY <1>2, <2>2, <2>3 DEF SubmitRefused, listVars, worldVars, handlerVars,
          TimerInv, Covered
<1>3. ASSUME NEW t \in Transfers, Cancel(t) PROVE TimerInv'
  BY <1>3 DEF Cancel, listVars, flagVars, worldVars, handlerVars, TimerInv, Covered
<1>4. ASSUME NEW t \in Transfers, BackendAccepts(t) PROVE TimerInv'
  BY <1>4 DEF BackendAccepts, listVars, flagVars, worldVars, handlerVars, TimerInv,
      Covered
<1>5. ASSUME NEW t \in Transfers, Submitted(t) PROVE TimerInv'
  BY <1>5 DEF Submitted, listVars, flagVars, worldVars, handlerVars, TimerInv, Covered
<1>6. ASSUME NEW t \in Transfers, BackendFails(t) PROVE TimerInv'
  BY <1>6 DEF BackendFails, listVars, flagVars, worldVars, handlerVars, TimerInv, Covered
<1>7. ASSUME NEW t \in Transfers, SubmitFailed(t) PROVE TimerInv'
  <2>1. Flies(t)
    BY <1>7 DEF SubmitFailed, LifeInv, Submitting
  <2>2. RemoveFromFlying(t) /\ UNCHANGED <<using_timerfd, handler, timeout_flags>>
    BY <1>7 DEF SubmitFailed, worldVars, handlerVars
  <2> QED BY <2>1, <2>2, CoveredAfterRemoving DEF TimerInv
<1>8. ASSUME NEW t \in Transfers, Reap(t) PROVE TimerInv'
  BY <1>8 DEF Reap, listVars, flagVars, worldVars, handlerVars, TimerInv, Covered
<1>9. ASSUME NEW t \in Transfers, DeviceAnswers(t) PROVE TimerInv'
  BY <1>9 DEF DeviceAnswers, listVars, flagVars, worldVars, handlerVars, TimerInv, Covered
<1>10. ASSUME ScanStarts PROVE TimerInv'
  BY <1>10 DEF ScanStarts, listVars, flagVars, worldVars, handlerVars, TimerInv, Covered
<1>11. ASSUME NEW t \in Transfers, ScanCancels(t) PROVE TimerInv'
  <2>1. UNCHANGED <<flying, timeout, timer, using_timerfd, handler>>
    BY <1>11 DEF ScanCancels, listVars, worldVars, handlerVars
  <2>2. \A u \in Transfers : "HANDLED" \in timeout_flags[u] => "HANDLED" \in timeout_flags'[u]
    BY <1>11 DEF ScanCancels, TransferTypeOK
  <2>3. DOMAIN flying # {} => 1 \in DOMAIN flying
    BY ListType
  <2> QED BY <2>1, <2>2, <2>3, ListType DEF TimerInv, Covered
<1>12. ASSUME ScanMarks PROVE TimerInv'
  <2>1. UNCHANGED <<flying, timeout, timer, using_timerfd, handler>>
    BY <1>12 DEF ScanMarks, listVars, worldVars, handlerVars
  <2>2. \A u \in Transfers : "HANDLED" \in timeout_flags[u] => "HANDLED" \in timeout_flags'[u]
    BY <1>12 DEF ScanMarks, TransferTypeOK
  <2>3. DOMAIN flying # {} => 1 \in DOMAIN flying
    BY ListType
  <2> QED BY <2>1, <2>2, <2>3, ListType DEF TimerInv, Covered
<1>13. ASSUME ScanEnds PROVE TimerInv'
  <2>1. CASE handler = "timeouts"
    <3>1. flying \in Seq(Transfers) /\ timer' = NextDeadline(flying)
      BY <1>13, <2>1 DEF ScanEnds, TransferTypeOK
    <3>2. UNCHANGED <<flying, timeout, timeout_flags>>
      BY <1>13 DEF ScanEnds, flagVars
    <3>3. \A i \in DOMAIN flying :
            timeout[flying[i]] # 0 /\ "HANDLED" \notin timeout_flags[flying[i]] =>
              NextDeadline(flying) \in 1..timeout[flying[i]]
      BY <3>1, NextCovers DEF ListInv
    <3> QED BY <3>1, <3>2, <3>3 DEF TimerInv, Covered
  <2>2. CASE handler # "timeouts"
    BY <1>13, <2>2 DEF ScanEnds, flagVars, worldVars, TimerInv, Covered
  <2> QED BY <2>1, <2>2
<1>14. ASSUME TimerFires PROVE TimerInv'
  BY <1>14 DEF TimerFires, listVars, flagVars, worldVars, handlerVars, TimerInv, Covered
<1>15. ASSUME Cancellation PROVE TimerInv'
  BY <1>15 DEF Cancellation, listVars, flagVars, worldVars, handlerVars, TimerInv, Covered
<1>16. ASSUME CompletionRemoves PROVE TimerInv'
  <2>1. handled \in Transfers /\ Flies(handled)
    BY <1>16 DEF CompletionRemoves, HandlerInv, LifeInv, Completing, TransferTypeOK
  <2>2. RemoveFromFlying(handled) /\ UNCHANGED <<using_timerfd, timeout_flags>> /\ handler # "timeouts"
    BY <1>16 DEF CompletionRemoves, worldVars, flagVars
  <2> QED BY <2>1, <2>2, CoveredAfterRemoving DEF TimerInv
<1>17. ASSUME CompletionClears PROVE TimerInv'
  BY <1>17 DEF CompletionClears, listVars, flagVars, worldVars, handlerVars, TimerInv,
      Covered
<1>18. ASSUME Callback PROVE TimerInv'
  BY <1>18 DEF Callback, listVars, flagVars, worldVars, handlerVars, TimerInv, Covered
<1>19. ASSUME Detach PROVE TimerInv'
  BY <1>19 DEF Detach, listVars, flagVars, worldVars, handlerVars, TimerInv, Covered
<1>20. ASSUME DisconnectOne PROVE TimerInv'
  BY <1>20 DEF DisconnectOne, listVars, flagVars, worldVars, handlerVars, TimerInv,
      Covered
<1>21. ASSUME Disconnected PROVE TimerInv'
  BY <1>21 DEF Disconnected, listVars, flagVars, worldVars, handlerVars, TimerInv, Covered
<1>22. ASSUME Tick PROVE TimerInv'
  BY <1>22 DEF Tick, listVars, flagVars, worldVars, handlerVars, TimerInv, Covered
<1>23. ASSUME Unplug PROVE TimerInv'
  BY <1>23 DEF Unplug, listVars, flagVars, worldVars, handlerVars, TimerInv, Covered
<1>24. CASE UNCHANGED vars
  BY <1>24 DEF vars, listVars, flagVars, worldVars, handlerVars, TimerInv, Covered
<1> QED
  BY Steps, <1>1, <1>2, <1>3, <1>4, <1>5, <1>6, <1>7, <1>8, <1>9, <1>10, <1>11, <1>12,
      <1>13,
     <1>14, <1>15, <1>16, <1>17, <1>18, <1>19, <1>20, <1>21, <1>22, <1>23, <1>24

LEMMA CauseStep == ASSUME TransferInv, [TransferNext]_vars PROVE CauseInv'
<1> USE UsbTransferAssumption DEF TransferInv, TransferTypeOK
<1>1. ASSUME NEW t \in Transfers, Submit(t) PROVE CauseInv'
  <2>1. t \notin pending /\ submitting[t] = "no" /\ t \notin cancelled
    BY <1>1 DEF Submit
  <2>2. urb[t] = "none" /\ handled # t
    BY <2>1 DEF LifeInv, AtRest, Completing
  <2>3. timing # t
    BY <2>2, <1>1 DEF CauseInv, Taken
  <2>4. Late' = Late
    <3>1. \A u \in Transfers : u # t => timeout'[u] = timeout[u]
      BY <1>1 DEF Submit, AddToFlying
    <3> QED BY <1>1, <2>1, <3>1 DEF Submit, worldVars, Late
  <2> QED BY <1>1, <2>1, <2>2, <2>3, <2>4 DEF Submit, worldVars, handlerVars, CauseInv,
          NotTaken, WhyTaken, WhyStatus, Taken
<1>2. ASSUME NEW t \in Transfers, SubmitRefused(t) PROVE CauseInv'
  <2>1. t \notin pending /\ submitting[t] = "no" /\ t \notin cancelled
    BY <1>2 DEF SubmitRefused
  <2>2. urb[t] = "none" /\ handled # t
    BY <2>1 DEF LifeInv, AtRest, Completing
  <2>3. timing # t
    BY <2>2, <1>2 DEF CauseInv, Taken
  <2>4. Late' = Late
    BY <1>2 DEF SubmitRefused, listVars, worldVars, history, Late
  <2> QED BY <1>2, <2>1, <2>2, <2>3, <2>4 DEF SubmitRefused, worldVars, handlerVars,
          history, CauseInv, NotTaken, WhyTaken, WhyStatus, Taken
<1>3. ASSUME NEW t \in Transfers, Cancel(t) PROVE CauseInv'
  <2>1. Late' = Late
    BY <1>3 DEF Cancel, listVars, worldVars, history, Late
  <2>2. PICK r \in Results : CancelTransfer(t, r) /\ cancelled' = IF r = "SUCCESS" THEN cancelled \cup {t} ELSE cancelled
    BY <1>3 DEF Cancel
  <2>3. /\ \A u \in Transfers : u # t => urb'[u] = urb[u]
        /\ IF r = "SUCCESS" THEN urb[t] = "queued" /\ urb'[t] = "discarded" ELSE urb'[t] = urb[t]
        /\ r = "SUCCESS" => "IN_FLIGHT" \in state_flags[t]
        /\ OwnLockFree(t)
    BY <2>2, Cancelling
  <2>4. CASE r = "SUCCESS"
    <3>1. t \notin cancelled /\ "TIMED_OUT" \notin timeout_flags[t]
      BY <2>3, <2>4 DEF CauseInv, NotTaken
    <3>2. handled # t /\ timing # t
      BY <2>3, <2>4 DEF LifeInv, Completing, CauseInv, Taken
    <3>3. UNCHANGED <<timeout_flags, submitting, scan, timing, gone, handler, handled, status>>
      BY <1>3 DEF Cancel, worldVars, handlerVars
    <3>4. cancelled' = cancelled \cup {t}
      BY <2>2, <2>4
    <3>5. ASSUME NEW u \in Transfers, u # t PROVE (NotTaken(u) /\ WhyTaken(u) /\ WhyStatus(u))'
      BY <2>1, <2>3, <3>3, <3>4, <3>5 DEF CauseInv, NotTaken, WhyTaken, WhyStatus, Taken
    <3>6. (NotTaken(t) /\ WhyTaken(t) /\ WhyStatus(t))'
      BY <2>3, <2>4, <3>1, <3>2, <3>3, <3>4 DEF OwnLockFree, CauseInv, NotTaken,
          WhyTaken, WhyStatus, Taken
    <3>7. (timing # None => scan # 0 /\ Taken(timing))'
      BY <2>3, <3>2, <3>3 DEF CauseInv, Taken
    <3> QED BY <3>5, <3>6, <3>7 DEF CauseInv
  <2>5. CASE r # "SUCCESS"
    <3>1. cancelled' = cancelled /\ \A u \in Transfers : urb'[u] = urb[u]
      BY <2>2, <2>3, <2>5
    <3> QED BY <1>3, <2>1, <3>1 DEF Cancel, worldVars, handlerVars, CauseInv, NotTaken,
            WhyTaken, WhyStatus, Taken
  <2> QED BY <2>4, <2>5
<1>4. ASSUME NEW t \in Transfers, BackendAccepts(t) PROVE CauseInv'
  <2>1. Late \subseteq Late'
    BY <1>4 DEF BackendAccepts, listVars, worldVars, Late
  <2>2. t \notin cancelled /\ "TIMED_OUT" \notin timeout_flags[t]
    BY <1>4 DEF BackendAccepts, CauseInv, NotTaken
  <2>3. urb[t] = "none" /\ handled # t /\ timing # t
    BY <1>4 DEF BackendAccepts, LifeInv, Submitting, Completing, CauseInv, Taken
  <2>4. UNCHANGED <<timeout_flags, scan, timing, gone, handler, handled, status, cancelled>>
    BY <1>4 DEF BackendAccepts, worldVars, handlerVars
  <2>5. /\ urb' = [urb EXCEPT ![t] = "queued"] /\ submitting' = [submitting EXCEPT ![t] = "accepted"]
    BY <1>4 DEF BackendAccepts
  <2>6. ASSUME NEW u \in Transfers, u # t PROVE (NotTaken(u) /\ WhyTaken(u) /\ WhyStatus(u))'
    BY <2>1, <2>4, <2>5, <2>6 DEF CauseInv, NotTaken, WhyTaken, WhyStatus, Taken
  <2>7. (NotTaken(t) /\ WhyTaken(t) /\ WhyStatus(t))'
    BY <2>2, <2>3, <2>4, <2>5 DEF CauseInv, NotTaken, WhyTaken, WhyStatus, Taken
  <2>8. (timing # None => scan # 0 /\ Taken(timing))'
    BY <2>3, <2>4, <2>5 DEF CauseInv, Taken
  <2> QED BY <2>6, <2>7, <2>8 DEF CauseInv
<1>5. ASSUME NEW t \in Transfers, Submitted(t) PROVE CauseInv'
  <2>1. Late' = Late
    BY <1>5 DEF Submitted, listVars, worldVars, history, Late
  <2> QED BY <1>5, <2>1 DEF Submitted, flagVars, worldVars, handlerVars, history,
          CauseInv, NotTaken, WhyTaken, WhyStatus, Taken
<1>6. ASSUME NEW t \in Transfers, BackendFails(t) PROVE CauseInv'
  <2>1. Late' = Late
    BY <1>6 DEF BackendFails, listVars, worldVars, history, Late
  <2> QED BY <1>6, <2>1 DEF BackendFails, flagVars, worldVars, handlerVars, history,
          CauseInv, NotTaken, WhyTaken, WhyStatus, Taken
<1>7. ASSUME NEW t \in Transfers, SubmitFailed(t) PROVE CauseInv'
  <2>1. Late' = Late
    BY <1>7 DEF SubmitFailed, RemoveFromFlying, worldVars, history, Late
  <2> QED BY <1>7, <2>1 DEF SubmitFailed, flagVars, worldVars, handlerVars, history,
          CauseInv, NotTaken, WhyTaken, WhyStatus, Taken
<1>8. ASSUME NEW t \in Transfers, Reap(t) PROVE CauseInv'
  <2>1. Late' = Late
    BY <1>8 DEF Reap, listVars, worldVars, history, Late
  <2>2. handler = "poll" /\ handled = None /\ urb' = [urb EXCEPT ![t] = "none"] /\ handled' = t
    BY <1>8 DEF Reap, HandlerInv
  <2>3. UNCHANGED <<timeout_flags, submitting, scan, timing, gone, cancelled>> /\ OwnLockFree(t)
    BY <1>8 DEF Reap, worldVars, history
  <2>4. ASSUME NEW u \in Transfers, u # t PROVE (NotTaken(u) /\ WhyTaken(u) /\ WhyStatus(u))'
    BY <2>1, <2>2, <2>3, <2>4 DEF CauseInv, NotTaken, WhyTaken, WhyStatus, Taken
  <2>5. NotTaken(t)'
    BY <2>2, <2>3 DEF OwnLockFree, NotTaken
  <2>6. CASE urb[t] = "discarded"
    <3>1. handler' = "cancellation"
      BY <1>8, <2>6 DEF Reap
    <3> QED BY <2>1, <2>2, <2>3, <2>4, <2>5, <2>6, <3>1 DEF CauseInv, NotTaken,
            WhyTaken, WhyStatus, Taken
  <2>7. CASE urb[t] # "discarded"
    <3>1. urb[t] = "done" /\ handler' = "remove"
      BY <1>8, <2>7 DEF Reap
    <3>2. status' = "COMPLETED" \/ (status' = "NO_DEVICE" /\ gone)
      BY <1>8, <2>7 DEF Reap
    <3>3. t \notin cancelled /\ timing # t
      BY <2>2, <3>1 DEF CauseInv, NotTaken, WhyTaken, WhyStatus, Taken
    <3>4. WhyTaken(t)' /\ WhyStatus(t)'
      BY <2>2, <2>3, <3>1, <3>2, <3>3 DEF WhyTaken, WhyStatus, Taken, Statuses
    <3>5. (timing # None => scan # 0 /\ Taken(timing))'
      BY <2>2, <2>3, <3>3 DEF CauseInv, Taken
    <3> QED BY <2>4, <2>5, <3>4, <3>5 DEF CauseInv
  <2> QED BY <2>6, <2>7
<1>9. ASSUME NEW t \in Transfers, DeviceAnswers(t) PROVE CauseInv'
  <2>1. Late' = Late
    BY <1>9 DEF DeviceAnswers, listVars, worldVars, history, Late
  <2> QED BY <1>9, <2>1 DEF DeviceAnswers, flagVars, worldVars, handlerVars, history,
          CauseInv, NotTaken, WhyTaken, WhyStatus, Taken
<1>10. ASSUME ScanStarts PROVE CauseInv'
  <2>1. Late' = Late
    BY <1>10 DEF ScanStarts, listVars, worldVars, history, Late
  <2> QED BY <1>10, <2>1 DEF ScanStarts, flagVars, worldVars, handlerVars, history,
          CauseInv, NotTaken, WhyTaken, WhyStatus, Taken
<1>11. ASSUME NEW t \in Transfers, ScanCancels(t) PROVE CauseInv'
  <2>1. Late' = Late
    BY <1>11 DEF ScanCancels, listVars, worldVars, history, Late
  <2>2. PICK r \in Results : CancelTransfer(t, r) /\ timing' = IF r = "SUCCESS" THEN t ELSE None
    BY <1>11 DEF ScanCancels
  <2>3. /\ \A u \in Transfers : u # t => urb'[u] = urb[u]
        /\ IF r = "SUCCESS" THEN urb[t] = "queued" /\ urb'[t] = "discarded" ELSE urb'[t] = urb[t]
        /\ r = "SUCCESS" => "IN_FLIGHT" \in state_flags[t]
        /\ OwnLockFree(t)
    BY <2>2, Cancelling
  <2>4. /\ scan # 0 /\ timing = None
        /\ timeout[t] # 0 /\ timeout[t] <= scan
        /\ \A u \in Transfers : "TIMED_OUT" \in timeout_flags'[u] <=> "TIMED_OUT" \in timeout_flags[u]
        /\ UNCHANGED <<submitting, scan, gone, handler, handled, status, cancelled>>
    BY <1>11 DEF ScanCancels, NextExpired, Expired, worldVars, handlerVars, history
  <2>5. CASE r = "SUCCESS"
    <3>1. t \notin cancelled /\ "TIMED_OUT" \notin timeout_flags[t]
      BY <2>3, <2>5 DEF CauseInv, NotTaken
    <3>2. handled # t
      BY <2>3, <2>5 DEF LifeInv, Completing
    <3>3. t \in Late
      <4>1. t \in pending
        BY <2>3, <2>5 DEF LifeInv, Submitting, AtRest, OwnLockFree
      <4>2. wanted[t] # 0
        BY <2>4 DEF TimeInv
      <4>3. timeout[t] <= now
        BY <2>4 DEF HandlerInv
      <4> QED BY <4>1, <4>2, <4>3 DEF Late
    <3>4. timing' = t
      BY <2>2, <2>5
    <3>5. ASSUME NEW u \in Transfers, u # t PROVE (NotTaken(u) /\ WhyTaken(u) /\ WhyStatus(u))'
      BY <2>1, <2>3, <2>4, <3>4, <3>5 DEF CauseInv, NotTaken, WhyTaken, WhyStatus, Taken
    <3>6. (NotTaken(t) /\ WhyTaken(t) /\ WhyStatus(t))'
      BY <2>1, <2>3, <2>4, <2>5, <3>1, <3>2, <3>3, <3>4 DEF OwnLockFree, CauseInv,
          NotTaken, WhyTaken, WhyStatus, Taken
    <3>7. (timing # None => scan # 0 /\ Taken(timing))'
      BY <2>3, <2>4, <2>5, <3>4 DEF Taken
    <3> QED BY <3>5, <3>6, <3>7 DEF CauseInv
  <2>6. CASE r # "SUCCESS"
    <3>1. timing' = None /\ \A u \in Transfers : urb'[u] = urb[u]
      BY <2>2, <2>3, <2>6
    <3> QED BY <2>1, <2>4, <3>1 DEF CauseInv, NotTaken, WhyTaken, WhyStatus, Taken
  <2> QED BY <2>5, <2>6
<1>12. ASSUME ScanMarks PROVE CauseInv'
  <2>1. Late' = Late
    BY <1>12 DEF ScanMarks, listVars, worldVars, history, Late
  <2>2. /\ timing \in Transfers /\ timing' = None
        /\ timeout_flags' = [timeout_flags EXCEPT ![timing] = @ \cup {"TIMED_OUT"}]
    BY <1>12 DEF ScanMarks
  <2>3. UNCHANGED <<submitting, urb, scan, gone, handler, handled, status, cancelled>>
    BY <1>12 DEF ScanMarks, worldVars, handlerVars, history
  <2>4. Taken(timing) /\ timing \notin cancelled /\ timing \in Late
    BY <2>2 DEF CauseInv, WhyTaken
  <2>5. urb[timing] \notin {"queued", "done"} /\ submitting[timing] # "backend"
    BY <2>2, <2>4 DEF Taken, LifeInv, Submitting, Completing
  <2>6. ASSUME NEW u \in Transfers, u # timing PROVE (NotTaken(u) /\ WhyTaken(u) /\ WhyStatus(u))'
    BY <2>1, <2>2, <2>3, <2>6 DEF CauseInv, NotTaken, WhyTaken, WhyStatus, Taken
  <2>7. ASSUME NEW u \in Transfers, u = timing PROVE (NotTaken(u) /\ WhyTaken(u) /\ WhyStatus(u))'
    BY <2>1, <2>2, <2>3, <2>4, <2>5, <2>7 DEF CauseInv, NotTaken, WhyTaken, WhyStatus,
        Taken
  <2> QED BY <2>2, <2>6, <2>7 DEF CauseInv
<1>13. ASSUME ScanEnds PROVE CauseInv'
  <2>1. Late' = Late
    BY <1>13 DEF ScanEnds, listVars, worldVars, history, Late
  <2> QED BY <1>13, <2>1 DEF ScanEnds, flagVars, worldVars, handlerVars, history,
          CauseInv, NotTaken, WhyTaken, WhyStatus, Taken
<1>14. ASSUME TimerFires PROVE CauseInv'
  <2>1. Late' = Late
    BY <1>14 DEF TimerFires, listVars, worldVars, history, Late
  <2> QED BY <1>14, <2>1 DEF TimerFires, flagVars, worldVars, handlerVars, history,
          CauseInv, NotTaken, WhyTaken, WhyStatus, Taken
<1>15. ASSUME Cancellation PROVE CauseInv'
  <2>1. Late' = Late
    BY <1>15 DEF Cancellation, listVars, worldVars, history, Late
  <2>2. handler = "cancellation" /\ handled \in Transfers /\ timing = None
    BY <1>15 DEF Cancellation, HandlerInv, ListLockFree, CauseInv
  <2>3. UNCHANGED <<timeout_flags, submitting, urb, scan, timing, gone, handled, cancelled>>
    BY <1>15 DEF Cancellation, flagVars, worldVars, history
  <2>4. handler' = "remove"
    BY <1>15 DEF Cancellation
  <2>5. status' = IF "TIMED_OUT" \in timeout_flags[handled] THEN "TIMED_OUT" ELSE "CANCELLED"
    BY <1>15 DEF Cancellation
  <2>6. \/ handled \in cancelled /\ "TIMED_OUT" \notin timeout_flags[handled]
        \/ handled \notin cancelled /\ "TIMED_OUT" \in timeout_flags[handled] /\ handled \in Late
    BY <2>2 DEF CauseInv, WhyTaken, Taken
  <2>7. ASSUME NEW u \in Transfers, u # handled PROVE (NotTaken(u) /\ WhyTaken(u) /\ WhyStatus(u))'
    BY <2>1, <2>2, <2>3, <2>4, <2>7 DEF CauseInv, NotTaken, WhyTaken, WhyStatus, Taken
  <2>8. ASSUME NEW u \in Transfers, u = handled PROVE (NotTaken(u) /\ WhyTaken(u) /\ WhyStatus(u))'
    BY <2>1, <2>2, <2>3, <2>4, <2>5, <2>6, <2>8 DEF CauseInv, NotTaken, WhyTaken,
        WhyStatus, Taken, Statuses, LifeInv, Completing
  <2> QED BY <2>2, <2>3, <2>7, <2>8 DEF CauseInv
<1>16. ASSUME CompletionRemoves PROVE CauseInv'
  <2>1. Late' = Late
    BY <1>16 DEF CompletionRemoves, RemoveFromFlying, worldVars, history, Late
  <2> QED BY <1>16, <2>1 DEF CompletionRemoves, flagVars, worldVars, handlerVars,
          history, CauseInv, NotTaken, WhyTaken, WhyStatus, Taken
<1>17. ASSUME CompletionClears PROVE CauseInv'
  <2>1. Late' = Late
    BY <1>17 DEF CompletionClears, listVars, worldVars, history, Late
  <2> QED BY <1>17, <2>1 DEF CompletionClears, flagVars, worldVars, handlerVars,
          history, CauseInv, NotTaken, WhyTaken, WhyStatus, Taken
<1>18. ASSUME Callback PROVE CauseInv'
  <2>1. handled \in Transfers /\ urb[handled] = "none" /\ submitting[handled] = "no"
    BY <1>18 DEF Callback, HandlerInv, LifeInv, Completing
  <2>2. \A u \in Transfers : u # handled => (u \in Late' <=> u \in Late)
    BY <1>18 DEF Callback, listVars, worldVars, Late
  <2>3. /\ UNCHANGED <<timeout_flags, submitting, urb, scan, timing, gone>>
        /\ cancelled' = cancelled \ {handled} /\ handled' = None
        /\ handler = "callback" /\ handler' # "cancellation"
    BY <1>18 DEF Callback, flagVars, worldVars
  <2>4. timing # handled
    BY <2>1, <2>3 DEF CauseInv, Taken
  <2>5. ASSUME NEW u \in Transfers, u # handled PROVE (NotTaken(u) /\ WhyTaken(u) /\ WhyStatus(u))'
    BY <2>2, <2>3, <2>5 DEF CauseInv, NotTaken, WhyTaken, WhyStatus, Taken
  <2>6. ASSUME NEW u \in Transfers, u = handled PROVE (NotTaken(u) /\ WhyTaken(u) /\ WhyStatus(u))'
    BY <2>1, <2>3, <2>6 DEF CauseInv, NotTaken, WhyTaken, WhyStatus, Taken
  <2>7. (timing # None => scan # 0 /\ Taken(timing))'
    BY <2>3, <2>4 DEF CauseInv, Taken
  <2> QED BY <2>5, <2>6, <2>7 DEF CauseInv
<1>19. ASSUME Detach PROVE CauseInv'
  <2>1. Late' = Late
    BY <1>19 DEF Detach, listVars, worldVars, history, Late
  <2> QED BY <1>19, <2>1 DEF Detach, flagVars, worldVars, handlerVars, history,
          CauseInv, NotTaken, WhyTaken, WhyStatus, Taken
<1>20. ASSUME DisconnectOne PROVE CauseInv'
  <2>1. Late' = Late
    BY <1>20 DEF DisconnectOne, listVars, worldVars, history, Late
  <2>2. PICK i \in DOMAIN flying :
          handled' = flying[i] /\ urb' = [urb EXCEPT ![flying[i]] = "none"]
          /\ OwnLockFree(flying[i])
    <3>1. PICK i \in DOMAIN flying :
            /\ handled' = flying[i] /\ urb' = [urb EXCEPT ![flying[i]] = "none"]
            /\ \A j \in 1..i : OwnLockFree(flying[j])
      BY <1>20 DEF DisconnectOne
    <3>2. i \in 1..i
      BY ListType
    <3> QED BY <3>1, <3>2
  <2>3. handled' \in Transfers /\ urb' = [urb EXCEPT ![handled'] = "none"] /\ OwnLockFree(handled')
    BY <2>2, ListType
  <2>4. /\ UNCHANGED <<timeout_flags, submitting, scan, timing, gone, cancelled>>
        /\ handler = "disconnect" /\ handler' = "remove" /\ status' = "NO_DEVICE"
    BY <1>20 DEF DisconnectOne, worldVars, history
  <2>5. gone /\ handled = None /\ timing = None
    BY <1>20, <2>4 DEF DisconnectOne, ListLockFree, HandlerInv, CauseInv
  <2>6. ASSUME NEW u \in Transfers, u # handled' PROVE (NotTaken(u) /\ WhyTaken(u) /\ WhyStatus(u))'
    BY <2>1, <2>3, <2>4, <2>5, <2>6 DEF CauseInv, NotTaken, WhyTaken, WhyStatus, Taken
  <2>7. ASSUME NEW u \in Transfers, u = handled' PROVE (NotTaken(u) /\ WhyTaken(u) /\ WhyStatus(u))'
    BY <2>3, <2>4, <2>5, <2>7 DEF OwnLockFree, Statuses, CauseInv, NotTaken, WhyTaken,
        WhyStatus, Taken
  <2> QED BY <2>4, <2>5, <2>6, <2>7 DEF CauseInv
<1>21. ASSUME Disconnected PROVE CauseInv'
  <2>1. Late' = Late
    BY <1>21 DEF Disconnected, listVars, worldVars, history, Late
  <2> QED BY <1>21, <2>1 DEF Disconnected, flagVars, worldVars, handlerVars, history,
          CauseInv, NotTaken, WhyTaken, WhyStatus, Taken
<1>22. ASSUME Tick PROVE CauseInv'
  <2>1. Late \subseteq Late'
    <3>1. now' \in Nat /\ now' >= now /\ now \in Nat /\ UNCHANGED <<pending, wanted, timeout>>
      BY <1>22 DEF Tick, listVars, history
    <3> QED BY <3>1 DEF Late
  <2> QED BY <1>22, <2>1 DEF Tick, flagVars, handlerVars, history, CauseInv, NotTaken,
          WhyTaken, WhyStatus, Taken
<1>23. ASSUME Unplug PROVE CauseInv'
  <2>1. Late' = Late
    BY <1>23 DEF Unplug, listVars, worldVars, history, Late
  <2> QED BY <1>23, <2>1 DEF Unplug, flagVars, worldVars, handlerVars, history,
          CauseInv, NotTaken, WhyTaken, WhyStatus, Taken
<1>24. CASE UNCHANGED vars
  BY <1>24 DEF vars, listVars, flagVars, worldVars, handlerVars, history, CauseInv,
      NotTaken, WhyTaken, WhyStatus, Taken, Late
<1> QED
  BY Steps, <1>1, <1>2, <1>3, <1>4, <1>5, <1>6, <1>7, <1>8, <1>9, <1>10, <1>11, <1>12,
      <1>13,
     <1>14, <1>15, <1>16, <1>17, <1>18, <1>19, <1>20, <1>21, <1>22, <1>23, <1>24

LEMMA Inductive == ASSUME TransferInv, [TransferNext]_vars PROVE TransferInv'
BY TypeStep, ListStep, LifeStep, HandlerStep, TimeStep, CauseStep,
    TimerStep DEF TransferInv

THEOREM TransferInvariant == TransferSpec => []TransferInv
<1>1. TransferInit => TransferInv
  BY InitEstablishes
<1>2. TransferInv /\ [TransferNext]_vars => TransferInv'
  BY Inductive
<1> QED BY <1>1, <1>2, PTL DEF TransferSpec

(* Every variable keeps to its type.                                       *)
THEOREM TransferTypeCorrect == TransferSpec => []TransferTypeOK
<1>1. TransferInv => TransferTypeOK
  BY DEF TransferInv
<1> QED BY <1>1, TransferInvariant, PTL

(* With a timerfd no deadline is passed over: the timer is armed for it or *)
(* earlier, or the transfer at the head of the list is being cancelled.    *)
THEOREM TimerCoversCorrect == TransferSpec => []TimerCovers
<1>1. TransferInv => TimerCovers
  <2> SUFFICES ASSUME TransferInv, using_timerfd, ListLockFree, NEW i \in DOMAIN flying,
                      timeout[flying[i]] # 0, "HANDLED" \notin timeout_flags[flying[i]]
               PROVE timer \in 1..timeout[flying[i]] \/ "HANDLED" \in timeout_flags[Head(flying)]
    BY DEF TimerCovers
  <2>1. handler # "timeouts"
    BY DEF ListLockFree, TransferInv, HandlerInv
  <2>2. timer \in 1..timeout[flying[i]] \/ "HANDLED" \in timeout_flags[flying[1]]
    BY <2>1 DEF TransferInv, TimerInv, Covered
  <2>3. Head(flying) = flying[1]
    <3>1. flying # <<>> /\ flying \in Seq(Transfers)
      BY EmptySeq DEF TransferInv, TransferTypeOK
    <3> QED BY <3>1, HeadTailProperties
  <2> QED BY <2>2, <2>3
<1> QED BY <1>1, TransferInvariant, PTL

(* From its callback on a transfer is its user's again: it is on no list,  *)
(* not in flight, not with the backend, and no timeout is being handled    *)
(* for it.                                                                 *)
THEOREM FreeWhenAnsweredCorrect == TransferSpec => []FreeWhenAnswered
<1>1. TransferInv => FreeWhenAnswered
  <2> SUFFICES ASSUME TransferInv, NEW t \in Transfers, t \notin pending, submitting[t] = "no"
               PROVE /\ "IN_FLIGHT" \notin state_flags[t] /\ t \notin ToSet(flying)
                     /\ urb[t] = "none" /\ timing # t
    BY DEF FreeWhenAnswered
  <2>1. ~Flies(t) /\ urb[t] = "none" /\ "IN_FLIGHT" \notin state_flags[t]
    BY DEF TransferInv, LifeInv, AtRest
  <2>2. t \notin ToSet(flying)
    BY <2>1 DEF Flies, ToSet
  <2>3. handled # t
    BY DEF TransferInv, LifeInv, Completing
  <2>4. timing # t
    BY <2>1, <2>3, UsbTransferAssumption DEF TransferInv, CauseInv, Taken
  <2> QED BY <2>1, <2>2, <2>4
<1> QED BY <1>1, TransferInvariant, PTL

-----------------------------------------------------------------------------
(* The refinement.  What UsbRequest sees of a state stays the same when    *)
(* these do.                                                               *)
LEMMA Stutters ==
  ASSUME UNCHANGED <<pending, cancelled, gone, Answering, Late>>,
         handler = "callback" => UNCHANGED status
  PROVE UNCHANGED Request!requestVars
BY DEF Request!requestVars, Answering

LEMMA RequestStep == ASSUME TransferInv, [TransferNext]_vars PROVE [Request!Next]_Request!requestVars
<1> USE UsbTransferAssumption DEF TransferInv, TransferTypeOK
<1>1. ASSUME NEW t \in Transfers, Submit(t) PROVE [Request!Next]_Request!requestVars
  <2>1. Late' = Late
    <3>1. \A u \in Transfers : u # t => timeout'[u] = timeout[u]
      BY <1>1 DEF Submit, AddToFlying
    <3> QED BY <1>1, <3>1 DEF Submit, worldVars, Late
  <2>2. UNCHANGED <<pending, cancelled, gone, Answering>> /\ (handler = "callback" => UNCHANGED status)
    BY <1>1 DEF Submit, worldVars, handlerVars, history, Answering
  <2> QED BY <2>1, <2>2, Stutters
<1>2. ASSUME NEW t \in Transfers, SubmitRefused(t) PROVE [Request!Next]_Request!requestVars
  <2>1. Late' = Late
    BY <1>2 DEF SubmitRefused, listVars, worldVars, history, Late
  <2>2. UNCHANGED <<pending, cancelled, gone, Answering>> /\ (handler = "callback" => UNCHANGED status)
    BY <1>2 DEF SubmitRefused, worldVars, handlerVars, history, Answering
  <2> QED BY <2>1, <2>2, Stutters
<1>3. ASSUME NEW t \in Transfers, Cancel(t) PROVE [Request!Next]_Request!requestVars
  <2>1. Late' = Late
    BY <1>3 DEF Cancel, listVars, worldVars, history, Late
  <2>2. PICK r \in Results :
          CancelTransfer(t, r) /\ cancelled' = IF r = "SUCCESS" THEN cancelled \cup {t} ELSE cancelled
    BY <1>3 DEF Cancel
  <2>3. UNCHANGED <<pending, gone, Answering, status>>
    BY <1>3 DEF Cancel, worldVars, handlerVars, Answering
  <2>4. CASE r = "SUCCESS"
    <3>1. urb[t] = "queued" /\ "IN_FLIGHT" \in state_flags[t] /\ OwnLockFree(t)
      BY <2>2, <2>4, Cancelling
    <3>2. t \in pending /\ t \notin Answering /\ t \notin cancelled
      BY <3>1 DEF LifeInv, Submitting, AtRest, Completing, OwnLockFree, Answering,
          CauseInv, NotTaken
    <3>3. Request!Cancel(t)
      BY <2>1, <2>2, <2>3, <2>4, <3>2 DEF Request!Cancel
    <3> QED BY <3>3 DEF Request!Next
  <2>5. CASE r # "SUCCESS"
    BY <2>1, <2>2, <2>3, <2>5, Stutters
  <2> QED BY <2>4, <2>5
<1>4. ASSUME NEW t \in Transfers, BackendAccepts(t) PROVE [Request!Next]_Request!requestVars
  <2>1. t \notin pending /\ handled # t
    BY <1>4 DEF BackendAccepts, LifeInv, Submitting, Completing
  <2>2. t \notin Answering
    BY <2>1 DEF Answering
  <2>3. pending' = pending \cup {t} /\ UNCHANGED <<cancelled, gone, Answering, status>>
    BY <1>4 DEF BackendAccepts, worldVars, handlerVars, Answering
  <2>4. Late' = Late \/ Late' = Late \cup {t}
    BY <1>4 DEF BackendAccepts, listVars, worldVars, Late
  <2>5. (Late \ Answering)' \in {Late \ Answering, (Late \ Answering) \cup {t}}
    BY <2>2, <2>3, <2>4
  <2>6. Request!Submit(t)
    BY <2>1, <2>2, <2>3, <2>5 DEF Request!Submit
  <2> QED BY <2>6 DEF Request!Next
<1>5. ASSUME NEW t \in Transfers, Submitted(t) PROVE [Request!Next]_Request!requestVars
  <2>1. Late' = Late
    BY <1>5 DEF Submitted, listVars, worldVars, history, Late
  <2>2. UNCHANGED <<pending, cancelled, gone, Answering>> /\ (handler = "callback" => UNCHANGED status)
    BY <1>5 DEF Submitted, worldVars, handlerVars, history, Answering
  <2> QED BY <2>1, <2>2, Stutters
<1>6. ASSUME NEW t \in Transfers, BackendFails(t) PROVE [Request!Next]_Request!requestVars
  <2>1. Late' = Late
    BY <1>6 DEF BackendFails, listVars, worldVars, history, Late
  <2>2. UNCHANGED <<pending, cancelled, gone, Answering>> /\ (handler = "callback" => UNCHANGED status)
    BY <1>6 DEF BackendFails, worldVars, handlerVars, history, Answering
  <2> QED BY <2>1, <2>2, Stutters
<1>7. ASSUME NEW t \in Transfers, SubmitFailed(t) PROVE [Request!Next]_Request!requestVars
  <2>1. Late' = Late
    BY <1>7 DEF SubmitFailed, RemoveFromFlying, worldVars, history, Late
  <2>2. UNCHANGED <<pending, cancelled, gone, Answering>> /\ (handler = "callback" => UNCHANGED status)
    BY <1>7 DEF SubmitFailed, worldVars, handlerVars, history, Answering
  <2> QED BY <2>1, <2>2, Stutters
<1>8. ASSUME NEW t \in Transfers, Reap(t) PROVE [Request!Next]_Request!requestVars
  <2>1. Late' = Late
    BY <1>8 DEF Reap, listVars, worldVars, history, Late
  <2>2. UNCHANGED <<pending, cancelled, gone, Answering>> /\ (handler = "callback" => UNCHANGED status)
    BY <1>8 DEF Reap, worldVars, handlerVars, history, Answering
  <2> QED BY <2>1, <2>2, Stutters
<1>9. ASSUME NEW t \in Transfers, DeviceAnswers(t) PROVE [Request!Next]_Request!requestVars
  <2>1. Late' = Late
    BY <1>9 DEF DeviceAnswers, listVars, worldVars, history, Late
  <2>2. UNCHANGED <<pending, cancelled, gone, Answering>> /\ (handler = "callback" => UNCHANGED status)
    BY <1>9 DEF DeviceAnswers, worldVars, handlerVars, history, Answering
  <2> QED BY <2>1, <2>2, Stutters
<1>10. ASSUME ScanStarts PROVE [Request!Next]_Request!requestVars
  <2>1. Late' = Late
    BY <1>10 DEF ScanStarts, listVars, worldVars, history, Late
  <2>2. UNCHANGED <<pending, cancelled, gone, Answering>> /\ (handler = "callback" => UNCHANGED status)
    BY <1>10 DEF ScanStarts, worldVars, handlerVars, history, Answering
  <2> QED BY <2>1, <2>2, Stutters
<1>11. ASSUME NEW t \in Transfers, ScanCancels(t) PROVE [Request!Next]_Request!requestVars
  <2>1. Late' = Late
    BY <1>11 DEF ScanCancels, listVars, worldVars, history, Late
  <2>2. UNCHANGED <<pending, cancelled, gone, Answering>> /\ (handler = "callback" => UNCHANGED status)
    BY <1>11 DEF ScanCancels, worldVars, handlerVars, history, Answering
  <2> QED BY <2>1, <2>2, Stutters
<1>12. ASSUME ScanMarks PROVE [Request!Next]_Request!requestVars
  <2>1. Late' = Late
    BY <1>12 DEF ScanMarks, listVars, worldVars, history, Late
  <2>2. UNCHANGED <<pending, cancelled, gone, Answering>> /\ (handler = "callback" => UNCHANGED status)
    BY <1>12 DEF ScanMarks, worldVars, handlerVars, history, Answering
  <2> QED BY <2>1, <2>2, Stutters
<1>13. ASSUME ScanEnds PROVE [Request!Next]_Request!requestVars
  <2>1. Late' = Late
    BY <1>13 DEF ScanEnds, listVars, worldVars, history, Late
  <2>2. UNCHANGED <<pending, cancelled, gone, Answering>> /\ (handler = "callback" => UNCHANGED status)
    BY <1>13 DEF ScanEnds, worldVars, handlerVars, history, Answering
  <2> QED BY <2>1, <2>2, Stutters
<1>14. ASSUME TimerFires PROVE [Request!Next]_Request!requestVars
  <2>1. Late' = Late
    BY <1>14 DEF TimerFires, listVars, worldVars, history, Late
  <2>2. UNCHANGED <<pending, cancelled, gone, Answering>> /\ (handler = "callback" => UNCHANGED status)
    BY <1>14 DEF TimerFires, worldVars, handlerVars, history, Answering
  <2> QED BY <2>1, <2>2, Stutters
<1>15. ASSUME Cancellation PROVE [Request!Next]_Request!requestVars
  <2>1. Late' = Late
    BY <1>15 DEF Cancellation, listVars, worldVars, history, Late
  <2>2. UNCHANGED <<pending, cancelled, gone, Answering>> /\ (handler = "callback" => UNCHANGED status)
    BY <1>15 DEF Cancellation, worldVars, handlerVars, history, Answering
  <2> QED BY <2>1, <2>2, Stutters
<1>16. ASSUME CompletionRemoves PROVE [Request!Next]_Request!requestVars
  <2>1. Late' = Late
    BY <1>16 DEF CompletionRemoves, RemoveFromFlying, worldVars, history, Late
  <2>2. UNCHANGED <<pending, cancelled, gone, Answering>> /\ (handler = "callback" => UNCHANGED status)
    BY <1>16 DEF CompletionRemoves, worldVars, handlerVars, history, Answering
  <2> QED BY <2>1, <2>2, Stutters
<1>17. ASSUME CompletionClears PROVE [Request!Next]_Request!requestVars
  <2>1. Late' = Late
    BY <1>17 DEF CompletionClears, listVars, worldVars, history, Late
  <2>2. handled \in Transfers /\ handled \in pending /\ Answering = {}
    BY <1>17 DEF CompletionClears, HandlerInv, LifeInv, Completing, Answering
  <2>3. Answering' = {handled} /\ UNCHANGED <<pending, cancelled, gone, status, handled>>
    BY <1>17 DEF CompletionClears, worldVars, history, Answering
  <2>4. /\ status \in Statuses
        /\ status = "NO_DEVICE" => gone
        /\ status = "TIMED_OUT" => handled \in Late
        /\ status # "NO_DEVICE" => (handled \in cancelled <=> status = "CANCELLED")
    BY <1>17, <2>2 DEF CompletionClears, CauseInv, WhyStatus
  <2>5. [t \in Transfers |-> IF t \in Answering THEN status ELSE "none"]'
          = [[t \in Transfers |-> IF t \in Answering THEN status ELSE "none"] EXCEPT ![handled] = status]
    BY <2>2, <2>3
  <2>6. PICK t \in Transfers, s \in Statuses : t = handled /\ s = status
    BY <2>2, <2>4
  <2>7. Request!Answer(t, s)
    BY <2>1, <2>2, <2>3, <2>4, <2>5, <2>6 DEF Request!Answer
  <2> QED BY <2>7 DEF Request!Next, Request!Statuses, Statuses
<1>18. ASSUME Callback PROVE [Request!Next]_Request!requestVars
  <2>1. handled \in Transfers /\ Answering = {handled} /\ Answering' = {}
    BY <1>18 DEF Callback, HandlerInv, Answering
  <2>2. status # "none"
    BY <1>18, <2>1 DEF Callback, CauseInv, WhyStatus, Statuses
  <2>3. /\ pending' = pending \ {handled} /\ cancelled' = cancelled \ {handled} /\ gone' = gone
        /\ Late' = Late \ {handled}
    BY <1>18 DEF Callback, listVars, worldVars, Late
  <2>4. [t \in Transfers |-> IF t \in Answering THEN status ELSE "none"]'
          = [[t \in Transfers |-> IF t \in Answering THEN status ELSE "none"] EXCEPT ![handled] = "none"]
    BY <2>1
  <2>5. PICK t \in Transfers : t = handled
    BY <2>1
  <2>6. Request!Returned(t)
    BY <2>1, <2>2, <2>3, <2>4, <2>5 DEF Request!Returned
  <2> QED BY <2>6 DEF Request!Next
<1>19. ASSUME Detach PROVE [Request!Next]_Request!requestVars
  <2>1. Late' = Late
    BY <1>19 DEF Detach, listVars, worldVars, history, Late
  <2>2. UNCHANGED <<pending, cancelled, gone, Answering>> /\ (handler = "callback" => UNCHANGED status)
    BY <1>19 DEF Detach, worldVars, handlerVars, history, Answering
  <2> QED BY <2>1, <2>2, Stutters
<1>20. ASSUME DisconnectOne PROVE [Request!Next]_Request!requestVars
  <2>1. Late' = Late
    BY <1>20 DEF DisconnectOne, listVars, worldVars, history, Late
  <2>2. UNCHANGED <<pending, cancelled, gone, Answering>> /\ (handler = "callback" => UNCHANGED status)
    BY <1>20 DEF DisconnectOne, worldVars, handlerVars, history, Answering
  <2> QED BY <2>1, <2>2, Stutters
<1>21. ASSUME Disconnected PROVE [Request!Next]_Request!requestVars
  <2>1. Late' = Late
    BY <1>21 DEF Disconnected, listVars, worldVars, history, Late
  <2>2. UNCHANGED <<pending, cancelled, gone, Answering>> /\ (handler = "callback" => UNCHANGED status)
    BY <1>21 DEF Disconnected, worldVars, handlerVars, history, Answering
  <2> QED BY <2>1, <2>2, Stutters
<1>22. ASSUME Tick PROVE [Request!Next]_Request!requestVars
  <2>1. UNCHANGED <<pending, cancelled, gone, Answering, status>>
    BY <1>22 DEF Tick, handlerVars, history, Answering
  <2>2. Late \subseteq Late' /\ Late' \subseteq pending
    <3>1. now' \in Nat /\ now' >= now /\ now \in Nat /\ UNCHANGED <<pending, wanted, timeout>>
      BY <1>22 DEF Tick, listVars, history
    <3> QED BY <3>1 DEF Late
  <2> DEFINE ts == (Late' \ Late) \ Answering
  <2>3. Request!Pass(ts) /\ ts \in SUBSET Transfers
    BY <2>1, <2>2 DEF Request!Pass
  <2> QED BY <2>3 DEF Request!Next
<1>23. ASSUME Unplug PROVE [Request!Next]_Request!requestVars
  <2>1. Late' = Late
    BY <1>23 DEF Unplug, listVars, history, Late
  <2>2. gone' = TRUE /\ UNCHANGED <<pending, cancelled, Answering, status>>
    BY <1>23 DEF Unplug, handlerVars, history, Answering
  <2>3. Request!Unplug
    BY <2>1, <2>2 DEF Request!Unplug
  <2> QED BY <2>3 DEF Request!Next
<1>24. CASE UNCHANGED vars
  BY <1>24, Stutters DEF vars, listVars, worldVars, handlerVars, history, Late, Answering
<1> QED
  BY Steps, <1>1, <1>2, <1>3, <1>4, <1>5, <1>6, <1>7, <1>8, <1>9, <1>10, <1>11, <1>12,
      <1>13,
     <1>14, <1>15, <1>16, <1>17, <1>18, <1>19, <1>20, <1>21, <1>22, <1>23, <1>24

(* One answer for each accepted submission, and none without its reason:   *)
(* the library implements UsbRequest.                                      *)
THEOREM RequestCorrect == TransferSpec => RequestSpec
<1>1. TransferInit => Request!Init
  <2> SUFFICES ASSUME TransferInit PROVE Request!Init  OBVIOUS
  <2>1. Answering = {} /\ Late = {}
    BY DEF TransferInit, Answering, Late
  <2>2. [t \in Transfers |-> IF t \in Answering THEN status ELSE "none"] = [t \in Transfers |-> "none"]
    BY <2>1
  <2> QED BY <2>1, <2>2 DEF TransferInit, Request!Init
<1>2. TransferInv /\ [TransferNext]_vars => [Request!Next]_Request!requestVars
  BY RequestStep
<1> QED BY <1>1, <1>2, TransferInvariant, PTL DEF TransferSpec, RequestSpec, Request!Spec
=============================================================================
